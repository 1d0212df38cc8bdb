------------------------ MODULE DnsProxyListenerProofs ------------------------
(***************************************************************************)
(* For any clients, handlers and networks: a SocketClient is counted       *)
(* right.                                                                  *)
(***************************************************************************)
EXTENDS DnsProxyListener, FiniteSetTheorems, TLAPS

\* Reading the hints is all the listener does in several steps, for a client it has.
AskingOK ==
    asking = None \/ \E c \in listed : \E n : asking = Query("getaddrinfo", c, n, TRUE, "hints")

\* A handler looks a name up or sends the answer, for one client.
Busy(query) ==
    \/ \E c \in Clients : \E kind, n, a : query = Query(kind, c, n, a, "lookup")
    \/ \E c \in Clients : \E kind, pieces :
         query = [kind |-> kind, client |-> c, stage |-> "send", pieces |-> pieces]
HandlerOK ==
    /\ handler = [h \in Handlers |-> handler[h]]
    /\ \A h \in Handlers : handler[h] = None \/ Busy(handler[h])

\* The inductive invariant of the reference counts.
ClientInvariant ==
    /\ refs \in [Clients -> Nat] /\ listed \subseteq Clients
    /\ AskingOK /\ HandlerOK /\ ClientLivesWhileUsed

-----------------------------------------------------------------------------
\* A busy handler is not the record of an idle one, and has a client.
LEMMA BusyHasClient ==
    ASSUME NEW query, Busy(query)
    PROVE  query # None /\ query.client \in Clients /\ query.stage \in {"lookup", "send"}
BY DEF Busy, Query, None

\* Any set of handlers is finite.
LEMMA HandlersFinite ==
    ASSUME NEW c
    PROVE  IsFiniteSet(HandlersOf(c)) /\ Cardinality(HandlersOf(c)) \in Nat
<1>1. HandlersOf(c) \subseteq Handlers /\ IsFiniteSet(Handlers)
  BY DnsProxyListenerAssumption DEF HandlersOf
<1> QED
  BY <1>1, FS_Subset, FS_CardinalityType

\* startQuery: the handler becomes one of the client's, which is counted.
LEMMA StartStep ==
    ASSUME ClientInvariant, NEW c \in listed, NEW query, Busy(query), query.client = c, startQuery(c, query)
    PROVE  /\ refs' \in [Clients -> Nat] /\ UNCHANGED listed
           /\ HandlerOK' /\ refs'[c] = refs[c] + 1
           /\ \A d \in Clients : refs'[d] = Cardinality(HandlersOf(d)') + (IF d \in listed' THEN 1 ELSE 0)
<1> refs \in [Clients -> Nat] /\ c \in Clients /\ HandlerOK
  BY DEF ClientInvariant
<1>1. PICK h \in Handlers : handler[h] = None /\ handler' = [handler EXCEPT ![h] = query]
  BY DEF startQuery, start
<1>2. refs' = [refs EXCEPT ![c] = @ + 1] /\ listed' = listed
  BY DEF startQuery, incRef
<1>3. refs' \in [Clients -> Nat] /\ refs'[c] = refs[c] + 1 /\ \A d \in Clients : d # c => refs'[d] = refs[d]
  BY <1>2
<1>4. handler'[h] = query /\ \A g \in Handlers : g # h => handler'[g] = handler[g]
  BY <1>1 DEF HandlerOK
<1>5. HandlerOK'
  BY <1>1, <1>4 DEF HandlerOK
<1>6. HandlersOf(c)' = HandlersOf(c) \cup {h} /\ h \notin HandlersOf(c)
  BY <1>1, <1>4, BusyHasClient DEF HandlersOf
<1>7. \A d \in Clients : d # c => HandlersOf(d)' = HandlersOf(d)
  BY <1>1, <1>4 DEF HandlersOf
<1>8. Cardinality(HandlersOf(c)') = Cardinality(HandlersOf(c)) + 1
  BY <1>6, HandlersFinite, FS_AddElement
<1>9. refs'[c] = Cardinality(HandlersOf(c)') + (IF c \in listed' THEN 1 ELSE 0)
  BY <1>2, <1>3, <1>8, HandlersFinite DEF ClientInvariant, ClientLivesWhileUsed
<1>10. \A d \in Clients \ {c} : refs'[d] = Cardinality(HandlersOf(d)') + (IF d \in listed' THEN 1 ELSE 0)
  BY <1>2, <1>3, <1>7 DEF ClientInvariant, ClientLivesWhileUsed
<1> QED
  BY <1>2, <1>3, <1>5, <1>9, <1>10

\* A step that leaves clients, counts and handlers alone keeps them right.
LEMMA NothingStep ==
    ASSUME ClientInvariant, UNCHANGED <<refs, listed, asking, handler>>
    PROVE  ClientInvariant'
<1>1. \A c : HandlersOf(c)' = HandlersOf(c)
  BY DEF HandlersOf
<1> QED
  BY <1>1 DEF ClientInvariant, ClientLivesWhileUsed, AskingOK, HandlerOK

\* The listener accepts and releases clients between commands.
LEMMA ListenerStep ==
    ASSUME ClientInvariant, NEW c \in Clients, accept(c) \/ release(c)
    PROVE  ClientInvariant'
<1> refs \in [Clients -> Nat] /\ asking = None
  BY DEF ClientInvariant, accept, release
<1>1. handler' = handler /\ asking' = asking
  BY DEF accept, release
<1>2. HandlerOK' /\ AskingOK'
  BY <1>1 DEF ClientInvariant, HandlerOK, AskingOK
<1>3. \A d : HandlersOf(d)' = HandlersOf(d)
  BY <1>1 DEF HandlersOf
<1>4. CASE accept(c)
  <2>1. refs' = [refs EXCEPT ![c] = @ + 1] /\ listed' = listed \cup {c} /\ c \notin listed
    BY <1>4 DEF accept, incRef
  <2>2. \A d \in Clients : refs'[d] = Cardinality(HandlersOf(d)) + (IF d \in listed' THEN 1 ELSE 0)
    BY <2>1, HandlersFinite DEF ClientInvariant, ClientLivesWhileUsed
  <2> QED
    BY <1>1, <1>2, <1>3, <2>1, <2>2 DEF ClientInvariant, ClientLivesWhileUsed
<1>5. CASE release(c)
  <2>1. refs' = [refs EXCEPT ![c] = @ - 1] /\ listed' = listed \ {c} /\ c \in listed
    BY <1>5 DEF release, decRef
  <2>2. \A d \in Clients : refs'[d] = Cardinality(HandlersOf(d)) + (IF d \in listed' THEN 1 ELSE 0)
    BY <2>1, HandlersFinite DEF ClientInvariant, ClientLivesWhileUsed
  <2>3. refs' \in [Clients -> Nat]
    BY <2>1, <2>2, HandlersFinite
  <2> QED
    BY <1>1, <1>2, <1>3, <2>1, <2>2, <2>3 DEF ClientInvariant, ClientLivesWhileUsed
<1> QED
  BY <1>4, <1>5

\* The commands: a query is started at once or, with hints, in a second step.
LEMMA CommandStep ==
    ASSUME ClientInvariant, runCommand
    PROVE  ClientInvariant'
<1>1. ASSUME NEW c \in listed, NEW query, Busy(query), query.client = c, startQuery(c, query), asking' = None
      PROVE  ClientInvariant'
  <2>1. /\ refs' \in [Clients -> Nat] /\ listed' = listed /\ HandlerOK'
        /\ \A d \in Clients : refs'[d] = Cardinality(HandlersOf(d)') + (IF d \in listed' THEN 1 ELSE 0)
    BY <1>1, StartStep
  <2> QED
    BY <1>1, <2>1 DEF ClientInvariant, AskingOK, ClientLivesWhileUsed
<1>2. \A c \in Clients : \A kind, n, a : /\ Busy(Query(kind, c, n, a, "lookup"))
                                        /\ Query(kind, c, n, a, "lookup").client = c
  BY DEF Busy, Query
<1>3. ASSUME NEW c \in Clients, NEW netId, NEW addrconfig \in BOOLEAN, GetAddrInfoCmd(c, netId, addrconfig)
      PROVE  ClientInvariant'
  <2>1. c \in listed /\ asking = None
    BY <1>3 DEF GetAddrInfoCmd
  <2>2. PICK n : \/ /\ asking' = Query("getaddrinfo", c, n, TRUE, "hints")
                    /\ UNCHANGED <<networks, users, refs, listed, connected, handler, lost>>
                 \/ startQuery(c, Query("getaddrinfo", c, n, FALSE, "lookup")) /\ UNCHANGED asking
    BY <1>3 DEF GetAddrInfoCmd
  <2>3. CASE /\ asking' = Query("getaddrinfo", c, n, TRUE, "hints")
             /\ UNCHANGED <<networks, users, refs, listed, connected, handler, lost>>
    <3>1. AskingOK' /\ asking'.client \in listed'
      BY <2>1, <2>3 DEF AskingOK, Query
    <3>2. \A d : HandlersOf(d)' = HandlersOf(d)
      BY <2>3 DEF HandlersOf
    <3> QED
      BY <2>3, <3>1, <3>2 DEF ClientInvariant, ClientLivesWhileUsed, HandlerOK
  <2>4. CASE startQuery(c, Query("getaddrinfo", c, n, FALSE, "lookup")) /\ UNCHANGED asking
    BY <1>1, <1>2, <2>1, <2>4
  <2> QED
    BY <2>2, <2>3, <2>4
<1>4. ASSUME NEW c \in Clients, NEW netId, GetHostByNameCmd(c, netId) \/ GetHostByAddrCmd(c, netId)
      PROVE  ClientInvariant'
  <2>1. c \in listed /\ asking' = None
    BY <1>4 DEF GetHostByNameCmd, GetHostByAddrCmd
  <2>2. PICK kind, n : startQuery(c, Query(kind, c, n, FALSE, "lookup"))
    BY <1>4 DEF GetHostByNameCmd, GetHostByAddrCmd
  <2> QED
    BY <1>1, <1>2, <2>1, <2>2
<1>5. CASE GetAddrInfoHints
  <2>1. asking # None
    BY <1>5 DEF GetAddrInfoHints, None
  <2>2. PICK c \in listed : \E n : asking = Query("getaddrinfo", c, n, TRUE, "hints")
    BY <2>1 DEF ClientInvariant, AskingOK
  <2>. PICK n : asking = Query("getaddrinfo", c, n, TRUE, "hints")
    BY <2>2
  <2>3. asking.client = c /\ asking.kind = "getaddrinfo" /\ asking.mNetId = n /\ c \in Clients
    BY <2>2 DEF Query, ClientInvariant
  <2>4. PICK b : startQuery(asking.client, Query(asking.kind, asking.client, asking.mNetId, b, "lookup"))
    BY <1>5, Zenon DEF GetAddrInfoHints
  <2>5. startQuery(c, Query("getaddrinfo", c, n, b, "lookup")) /\ asking' = None
    BY <1>5, <2>3, <2>4 DEF GetAddrInfoHints
  <2> QED
    BY <1>1, <1>2, <2>3, <2>5
<1> QED
  BY <1>3, <1>4, <1>5 DEF runCommand

\* The handlers: only finish gives a reference back, the one the handler has.
LEMMA HandlerStep ==
    ASSUME ClientInvariant, NEW h \in Handlers, threadStart(h)
    PROVE  ClientInvariant'
<1> refs \in [Clients -> Nat] /\ HandlerOK /\ handler = [g \in Handlers |-> handler[g]]
  BY DEF ClientInvariant, HandlerOK
<1>1. listed' = listed /\ asking' = asking
  BY DEF threadStart, GetAddrInfoHandler, GetHostByNameHandler, GetHostByAddrHandler, lookup, finish,
         sendhostent, Sent, HandlerUnchanged
<1>2. handler[h].stage \in {"lookup", "send"}
  BY DEF threadStart, GetAddrInfoHandler, GetHostByNameHandler, GetHostByAddrHandler, lookup, finish,
         Running
<1>3. Busy(handler[h]) /\ handler[h] # None
  BY <1>2, BusyHasClient DEF HandlerOK, None
<1>4. PICK c \in Clients : c = handler[h].client
  BY <1>3, BusyHasClient
<1>5. AskingOK'
  BY <1>1 DEF ClientInvariant, AskingOK
<1>6. ASSUME NEW reply, handler' = [handler EXCEPT ![h] = reply], Busy(reply), reply.client = c, refs' = refs
      PROVE  ClientInvariant'
  <2>1. handler'[h] = reply /\ \A g \in Handlers : g # h => handler'[g] = handler[g]
    BY <1>6
  <2>2. HandlerOK'
    BY <1>6, <2>1 DEF HandlerOK
  <2>3. \A d : HandlersOf(d)' = HandlersOf(d)
    BY <1>3, <1>4, <1>6, <2>1, BusyHasClient DEF HandlersOf
  <2> QED
    BY <1>1, <1>5, <1>6, <2>2, <2>3 DEF ClientInvariant, ClientLivesWhileUsed
<1>7. ASSUME NEW kind, lookup(h, kind)
      PROVE  ClientInvariant'
  <2>1. PICK n \in 1 .. MaxPieces : handler' = [handler EXCEPT ![h] = Reply(handler[h], n)]
    BY <1>7 DEF lookup
  <2>2. Busy(Reply(handler[h], n)) /\ Reply(handler[h], n).client = c
    BY <1>4 DEF Reply, Busy
  <2> QED
    BY <1>6, <1>7, <2>1, <2>2 DEF lookup
<1>8. ASSUME NEW n, handler[h].stage = "send", Sent(h, n)
      PROVE  ClientInvariant'
  <2>1. PICK kind, pieces : handler[h] = [kind |-> kind, client |-> c, stage |-> "send", pieces |-> pieces]
    BY <1>3, <1>4, <1>8 DEF Busy, Query
  <2>2. handler' = [handler EXCEPT ![h] = [kind |-> kind, client |-> c, stage |-> "send", pieces |-> n]]
    <3>1. [handler[h] EXCEPT !.pieces = n] = [kind |-> kind, client |-> c, stage |-> "send", pieces |-> n]
      BY <2>1
    <3>2. handler' = [handler EXCEPT ![h] = [handler[h] EXCEPT !.pieces = n]]
      BY <1>8 DEF Sent
    <3> QED
      BY <3>1, <3>2
  <2>3. refs' = refs
    BY <1>8 DEF Sent
  <2>4. Busy([kind |-> kind, client |-> c, stage |-> "send", pieces |-> n])
    BY <1>4 DEF Busy
  <2> QED
    BY <1>6, <2>2, <2>3, <2>4
<1>9. ASSUME NEW kind, finish(h, kind)
      PROVE  ClientInvariant'
  <2>1. refs' = [refs EXCEPT ![c] = @ - 1] /\ handler' = [handler EXCEPT ![h] = None]
    BY <1>4, <1>9 DEF finish, decRef
  <2>2. handler'[h] = None /\ \A g \in Handlers : g # h => handler'[g] = handler[g]
    BY <2>1
  <2>3. HandlerOK'
    BY <2>1, <2>2 DEF HandlerOK
  <2>4. HandlersOf(c)' = HandlersOf(c) \ {h} /\ h \in HandlersOf(c)
    BY <1>3, <1>4, <2>2 DEF HandlersOf
  <2>5. \A d \in Clients : d # c => HandlersOf(d)' = HandlersOf(d)
    BY <1>4, <2>2 DEF HandlersOf
  <2>6. Cardinality(HandlersOf(c)') = Cardinality(HandlersOf(c)) - 1
    BY <2>4, HandlersFinite, FS_RemoveElement
  <2>7. refs'[c] = Cardinality(HandlersOf(c)') + (IF c \in listed' THEN 1 ELSE 0)
    BY <1>1, <1>4, <2>1, <2>6, HandlersFinite DEF ClientInvariant, ClientLivesWhileUsed
  <2>8. \A d \in Clients \ {c} : refs'[d] = Cardinality(HandlersOf(d)') + (IF d \in listed' THEN 1 ELSE 0)
    BY <1>1, <2>1, <2>5 DEF ClientInvariant, ClientLivesWhileUsed
  <2>9. Cardinality(HandlersOf(c)') \in Nat
    BY <2>4, HandlersFinite, FS_RemoveElement, FS_CardinalityType
  <2>10. refs' \in [Clients -> Nat]
    BY <1>4, <2>1, <2>7, <2>9
  <2> QED
    BY <1>1, <1>5, <2>3, <2>7, <2>8, <2>10 DEF ClientInvariant, ClientLivesWhileUsed
<1> QED
  BY <1>7, <1>8, <1>9
     DEF threadStart, GetAddrInfoHandler, GetHostByNameHandler, GetHostByAddrHandler, sendhostent, Running

\* The constructor establishes the invariant, and every step of a thread preserves it.
LEMMA ClientInductive ==
    (Init => ClientInvariant) /\ (ClientInvariant /\ [Next]_vars => ClientInvariant')
<1>1. Init => ClientInvariant
  <2> SUFFICES ASSUME Init PROVE ClientInvariant
    OBVIOUS
  <2>1. \A c : HandlersOf(c) = {}
    BY DEF Init, HandlersOf
  <2>2. ClientLivesWhileUsed
    BY <2>1, FS_EmptySet DEF Init, ClientLivesWhileUsed
  <2> QED
    BY <2>2 DEF Init, ClientInvariant, AskingOK, HandlerOK
<1>2. ClientInvariant /\ [Next]_vars => ClientInvariant'
  <2> SUFFICES ASSUME ClientInvariant, [Next]_vars PROVE ClientInvariant'
    OBVIOUS
  <2>1. CASE UNCHANGED vars \/ NetworksChange \/ \E c \in Clients : hangUp(c)
    BY <2>1, NothingStep DEF vars, NetworksChange, hangUp
  <2>2. CASE \E c \in Clients : accept(c) \/ release(c)
    BY <2>2, ListenerStep
  <2> QED
    BY <2>1, <2>2, CommandStep, HandlerStep DEF Next
<1> QED
  BY <1>1, <1>2

\* For any number of clients and handlers, in any order of their steps: a SocketClient
\* has as many references as users.
THEOREM ClientLivesWhileUsedAlways == Spec => []ClientLivesWhileUsed
<1>1. ClientInvariant => ClientLivesWhileUsed
  BY DEF ClientInvariant
<1> QED
  BY <1>1, ClientInductive, PTL DEF Spec
=============================================================================
