-------------------------- MODULE DnsProxyListener --------------------------
(***************************************************************************)
(* DnsProxyListener.cpp: the queries of applications.                      *)
(*                                                                         *)
(* The thread of the listener reads one command at a time and starts a     *)
(* thread for each query, a handler, which looks the name up and sends the *)
(* answer in pieces.  A SocketClient is shared by the listener and the     *)
(* handlers of its queries, and counts them.  The networks change between  *)
(* any two questions to NetworkController, as module Networks says.        *)
(***************************************************************************)
EXTENDS NetworkQueries, FiniteSets

CONSTANTS
    Clients,            \* connections of applications
    UidOf,              \* the user of each connection
    Handlers,           \* handler objects, and the threads that run them
    MaxPieces,          \* bound: pieces of an answer
    MaxLost,            \* bound: how often pthread_create fails
    MaxCopies           \* bound: how often a VPN may hold one uid range

ASSUME DnsProxyListenerAssumption ==
    /\ UidOf \in [Clients -> Uids] /\ IsFiniteSet(Handlers)
    /\ MaxPieces \in Nat \ {0} /\ MaxLost \in Nat /\ MaxCopies \in Nat

VARIABLES
    refs,               \* the reference count of each SocketClient; 0: it was deleted
    listed,             \* clients in the list of the listener
    connected,          \* clients whose application has not hung up
    asking,             \* the query the listener is still preparing
    handler,            \* what each handler is doing
    lost                \* handlers whose thread could not be started

networks == <<mNetworks, mDefaultNetId>>
vars     == <<networks, users, refs, listed, connected, asking, handler, lost>>

None == [stage |-> "none"]
NetIdsAsked == NetIds \cup {NETID_UNSET}
\* A handler until it has looked the name up, and then.
Query(kind, c, netId, addrconfig, stage) ==
    [kind |-> kind, client |-> c, mNetId |-> netId, addrconfig |-> addrconfig, stage |-> stage]
Reply(query, pieces) ==
    [kind |-> query.kind, client |-> query.client, stage |-> "send", pieces |-> pieces]

Init ==
    /\ Nets!Init
    /\ mUsers = NoPermissions /\ mProtectableUsers = {}
    /\ refs = [c \in Clients |-> 0]
    /\ listed = {} /\ connected = {}
    /\ asking = None
    /\ handler = [h \in Handlers |-> None]
    /\ lost = {}
-----------------------------------------------------------------------------
(***************************************************************************)
(* SocketListener and SocketClient, of libsysutils.                        *)
(***************************************************************************)
incRef(c) == refs' = [refs EXCEPT ![c] = @ + 1]
decRef(c) == refs' = [refs EXCEPT ![c] = @ - 1]

accept(c) ==
    /\ asking = None
    /\ refs[c] = 0 /\ c \notin listed
    /\ incRef(c)
    /\ listed' = listed \cup {c} /\ connected' = connected \cup {c}
    /\ UNCHANGED <<networks, users, asking, handler, lost>>

hangUp(c) ==
    /\ c \in connected /\ connected' = connected \ {c}
    /\ UNCHANGED <<networks, users, refs, listed, asking, handler, lost>>

\* The listener reads the end of the stream.
release(c) ==
    /\ asking = None
    /\ c \in listed \ connected
    /\ listed' = listed \ {c}
    /\ decRef(c)
    /\ UNCHANGED <<networks, users, connected, asking, handler, lost>>
-----------------------------------------------------------------------------
(***************************************************************************)
(* The commands.  A command with wrong arguments is answered at once.      *)
(***************************************************************************)
NetworksForDns(c, netId) ==
    { getNetworkForDns(netId, UidOf[c], access).netId : access \in checkUserNetworkAccess(UidOf[c], netId) }

\* The new handler has a reference to the client, which it keeps if its thread
\* cannot be started: nobody looks at the result of pthread_create.
start(h, query) ==
    /\ handler[h] = None
    /\ handler' = [handler EXCEPT ![h] = query]
    /\ lost' \in {lost} \cup (IF Cardinality(lost) < MaxLost THEN {lost \cup {h}} ELSE {})

\* Faulty variant: the handler is started without a reference of its own.
BugStartQuery(c, query) ==
    /\ \E h \in Handlers : start(h, query)
    /\ UNCHANGED <<networks, users, refs, listed, connected>>

startQuery(c, query) ==
    /\ incRef(c)
    /\ \E h \in Handlers : start(h, query)
    /\ UNCHANGED <<networks, users, listed, connected>>

\* Asks for the network, and then, if there are hints with AI_ADDRCONFIG, ...
GetAddrInfoCmd(c, netId, addrconfig) ==
    /\ asking = None /\ c \in listed
    /\ \E n \in NetworksForDns(c, netId) :
        IF addrconfig
        THEN asking' = Query("getaddrinfo", c, n, TRUE, "hints")
             /\ UNCHANGED <<networks, users, refs, listed, connected, handler, lost>>
        ELSE startQuery(c, Query("getaddrinfo", c, n, FALSE, "lookup")) /\ UNCHANGED asking

\* ... whether it is the default one, which by now may be another.
GetAddrInfoHints ==
    /\ asking.stage = "hints"
    /\ startQuery(asking.client, Query(asking.kind, asking.client, asking.mNetId,
                                       asking.mNetId = mDefaultNetId, "lookup"))
    /\ asking' = None

GetHostByNameCmd(c, netId) ==
    /\ asking = None /\ c \in listed
    /\ \E n \in NetworksForDns(c, netId) : startQuery(c, Query("gethostbyname", c, n, FALSE, "lookup"))
    /\ UNCHANGED asking

\* The address was parsed.
GetHostByAddrCmd(c, netId) ==
    /\ asking = None /\ c \in listed
    /\ \E n \in NetworksForDns(c, netId) : startQuery(c, Query("gethostbyaddr", c, n, FALSE, "lookup"))
    /\ UNCHANGED asking

runCommand ==
    \/ \E c \in Clients, n \in NetIdsAsked :
        \/ \E addrconfig \in BOOLEAN : GetAddrInfoCmd(c, n, addrconfig)
        \/ GetHostByNameCmd(c, n) \/ GetHostByAddrCmd(c, n)
    \/ GetAddrInfoHints
-----------------------------------------------------------------------------
(***************************************************************************)
(* The handlers.  The lookups themselves are bionic's: they return in the  *)
(* end, with an answer of some pieces or with an error, which is one.      *)
(***************************************************************************)
Running(h, kind, stage) == h \notin lost /\ handler[h].stage = stage /\ handler[h].kind = kind
HandlerUnchanged == UNCHANGED <<networks, users, listed, connected, asking, lost>>

lookup(h, kind) ==
    /\ Running(h, kind, "lookup")
    /\ \E n \in 1 .. MaxPieces : handler' = [handler EXCEPT ![h] = Reply(@, n)]
    /\ UNCHANGED refs /\ HandlerUnchanged

\* Faulty variant: the reference is kept when there is nobody to answer.
BugFinish(h, kind) ==
    /\ Running(h, kind, "send") /\ handler[h].pieces = 0
    /\ IF handler[h].client \in connected THEN decRef(handler[h].client) ELSE UNCHANGED refs
    /\ handler' = [handler EXCEPT ![h] = None]
    /\ HandlerUnchanged

finish(h, kind) ==
    /\ Running(h, kind, "send") /\ handler[h].pieces = 0
    /\ decRef(handler[h].client)
    /\ handler' = [handler EXCEPT ![h] = None]
    /\ HandlerUnchanged

Sent(h, n) ==
    /\ handler[h].pieces > 0
    /\ handler' = [handler EXCEPT ![h].pieces = n]
    /\ UNCHANGED refs /\ HandlerUnchanged

\* A piece that cannot be sent is the last.
GetAddrInfoHandler(h) ==
    \/ lookup(h, "getaddrinfo") \/ finish(h, "getaddrinfo")
    \/ Running(h, "getaddrinfo", "send")
       /\ Sent(h, IF handler[h].client \in connected THEN handler[h].pieces - 1 ELSE 0)

\* All pieces are tried.
sendhostent(h) == Sent(h, handler[h].pieces - 1)

GetHostByNameHandler(h) ==
    \/ lookup(h, "gethostbyname") \/ finish(h, "gethostbyname")
    \/ Running(h, "gethostbyname", "send") /\ sendhostent(h)

GetHostByAddrHandler(h) ==
    \/ lookup(h, "gethostbyaddr") \/ finish(h, "gethostbyaddr")
    \/ Running(h, "gethostbyaddr", "send") /\ sendhostent(h)

threadStart(h) == GetAddrInfoHandler(h) \/ GetHostByNameHandler(h) \/ GetHostByAddrHandler(h)
-----------------------------------------------------------------------------
NetworksChange ==
    /\ Nets!Change
    /\ \A n \in DOMAIN mNetworks' : \A r \in Ranges : mNetworks'[n].mUidRanges[r] <= MaxCopies
    /\ UNCHANGED <<users, refs, listed, connected, asking, handler, lost>>

Next ==
    \/ \E c \in Clients : accept(c) \/ hangUp(c) \/ release(c)
    \/ runCommand
    \/ \E h \in Handlers : threadStart(h)
    \/ NetworksChange

Spec == Init /\ [][Next]_vars

\* The listener serves every client that has something for it, the end of the
\* stream included, and the threads of the handlers go on.
FairSpec ==
    /\ Spec
    /\ WF_vars(GetAddrInfoHints)
    /\ \A c \in Clients : SF_vars(release(c))
    /\ \A h \in Handlers : WF_vars(threadStart(h))
-----------------------------------------------------------------------------
QueryKinds == {"getaddrinfo", "gethostbyname", "gethostbyaddr"}
QueryType(stage) ==
    [kind : QueryKinds, client : Clients, mNetId : AllNetIds \cup {NETID_UNSET}, addrconfig : BOOLEAN,
     stage : {stage}]
ReplyType == [kind : QueryKinds, client : Clients, stage : {"send"}, pieces : 0 .. MaxPieces]

\* Every variable has its type.
TypeOK ==
    /\ refs \in [Clients -> Nat] /\ listed \subseteq Clients /\ connected \subseteq Clients
    /\ asking \in {None} \cup QueryType("hints")
    /\ handler \in [Handlers -> {None} \cup QueryType("lookup") \cup ReplyType]
    /\ lost \subseteq Handlers

HandlersOf(c) == { h \in Handlers : handler[h] # None /\ handler[h].client = c }

\* A SocketClient lives as long as the listener, the command that is being run or
\* a handler uses it, in whatever order the application hangs up and the handlers
\* finish, and no longer, but for handlers that never ran.
ClientLivesWhileUsed ==
    /\ \A c \in Clients : refs[c] = Cardinality(HandlersOf(c)) + (IF c \in listed THEN 1 ELSE 0)
    /\ asking # None => asking.client \in listed

\* When the application has hung up, its SocketClient is deleted, however many
\* queries were under way, unless the thread of one of them never ran.
HungUpClientIsDeleted ==
    \A c \in Clients : c \in listed \ connected ~> refs[c] = 0 \/ HandlersOf(c) \cap lost # {}
=============================================================================
