---------------------------- MODULE FwmarkServer ----------------------------
(***************************************************************************)
(* FwmarkServer.cpp with its clients, NetdClient.cpp and FwmarkClient.cpp: *)
(* how sockets get their marks.                                            *)
(*                                                                         *)
(* Threads of applications call into NetdClient, which sends a command     *)
(* with the socket to the server and waits for the answer.  The server has *)
(* one thread and serves one command at a time, but it takes the lock of   *)
(* NetworkController once for every question it asks: between two          *)
(* questions the networks and the users may change, as module Networks and *)
(* the commands of NetworkQueries say.  netd may die at any time.          *)
(***************************************************************************)
EXTENDS NetworkQueries

CONSTANTS
    Threads,            \* threads of applications
    UidOf,              \* the user of each thread: threads of a user share a process
    Sockets,            \* file descriptors
    MaxCopies,          \* bound: how often a VPN may hold one uid range
    MaxCrashes,         \* bound: how often netd dies
    MaxUserCommands     \* bound: how often the permissions of users change

ASSUME FwmarkServerAssumption ==
    /\ UidOf \in [Threads -> Uids] /\ INVALID_UID \notin Uids
    /\ MaxCopies \in Nat /\ MaxCrashes \in Nat /\ MaxUserCommands \in Nat

VARIABLES
    mark,               \* SO_MARK of each socket
    owner,              \* the user who has the socket open, NOBODY when it is closed
    netIdForProcess,    \* of each user's process
    call,               \* what each thread is doing
    serving,            \* what the server is doing
    up,                 \* netd is running
    forUser,            \* sockets that SELECT_FOR_USER was applied to
    accepted,           \* sockets that were accepted: the kernel gave them their first mark
    stale,              \* sockets whose network has gone since their netId was chosen: if the
                        \* netId names a network now, it is another one
    staleFwmark,        \* the same of the mark that the server is about to set
    privileged,         \* users who at some time could protect a socket
    crashes, changes    \* for the bounds

NOBODY == INVALID_UID
networks == <<mNetworks, mDefaultNetId>>
sockets  == <<mark, owner, netIdForProcess, forUser, accepted, stale>>
server   == <<serving, staleFwmark>>
history  == <<privileged, crashes, changes>>
vars     == <<networks, users, sockets, call, server, up, history>>

Commands == {"ON_ACCEPT", "ON_CONNECT", "SELECT_NETWORK", "PROTECT_FROM_VPN", "SELECT_FOR_USER"}
NoCall == [op |-> "none", stage |-> "idle"]
Call(op, cmdId, socket, netId, uid, stage) ==
    [op |-> op, stage |-> stage, cmdId |-> cmdId, socket |-> socket, netId |-> netId, uid |-> uid]
Nothing == [step |-> "none"]

Init ==
    /\ Nets!Init
    /\ mUsers = NoPermissions /\ mProtectableUsers = {}
    /\ mark = [s \in Sockets |-> NoMark]
    /\ owner = [s \in Sockets |-> NOBODY]
    /\ netIdForProcess = [u \in Uids |-> NETID_UNSET]
    /\ call = [t \in Threads |-> NoCall]
    /\ serving = Nothing
    /\ up = TRUE
    /\ forUser = {} /\ accepted = {} /\ stale = {} /\ staleFwmark = FALSE
    /\ privileged = { u \in Uids : canProtect(u) }
    /\ crashes = 0 /\ changes = 0
-----------------------------------------------------------------------------
(***************************************************************************)
(* Calls of NetdClient.  FwmarkClient::send takes a server that cannot be  *)
(* reached for a success.                                                  *)
(***************************************************************************)
send(t, op, cmdId, socket, netId, uid) ==
    call' = [call EXCEPT ![t] = Call(op, cmdId, socket, netId, uid, IF up THEN "sent" ELSE "ok")]

CallUnchanged == UNCHANGED <<networks, users, server, up, history>>

\* A new socket, and one that is closed.  A socket is an open file, not its
\* number: it is not closed while a call is using it.
Open(t, s) ==
    /\ call[t] = NoCall
    /\ owner[s] = NOBODY
    /\ owner' = [owner EXCEPT ![s] = UidOf[t]]

Closed(s) ==
    /\ owner' = [owner EXCEPT ![s] = NOBODY]
    /\ mark' = [mark EXCEPT ![s] = NoMark]
    /\ forUser' = forUser \ {s}
    /\ accepted' = accepted \ {s} /\ stale' = stale \ {s}

\* netdClientSocket: the process may have a network of its own.
netdClientSocket(t, s) ==
    /\ Open(t, s)
    /\ IF netIdForProcess[UidOf[t]] # NETID_UNSET
       THEN send(t, "socket", "SELECT_NETWORK", s, netIdForProcess[UidOf[t]], 0)
       ELSE UNCHANGED call
    /\ UNCHANGED <<mark, netIdForProcess, forUser, accepted, stale>> /\ CallUnchanged

\* netdClientAccept4: the kernel copies the mark of the incoming packet, which is
\* the one modifyIncomingPacketMark gives it, or none.
netdClientAccept4(t, s) ==
    /\ Open(t, s)
    /\ \E m \in {NoMark} \cup { Mark(n, TRUE, TRUE, mNetworks[n].mPermission) : n \in DOMAIN mNetworks } :
        mark' = [mark EXCEPT ![s] = m]
    /\ accepted' = accepted \cup {s}
    /\ send(t, "accept", "ON_ACCEPT", s, 0, 0)
    /\ UNCHANGED <<netIdForProcess, forUser, stale>> /\ CallUnchanged

\* setNetworkForTarget: tries the netId on a socket of its own.
setNetworkForProcess(t, s, netId) ==
    /\ Open(t, s)
    /\ netId # NETID_UNSET
    /\ send(t, "process", "SELECT_NETWORK", s, netId, 0)
    /\ UNCHANGED <<mark, netIdForProcess, forUser, accepted, stale>> /\ CallUnchanged

clearNetworkForProcess(t) ==
    /\ call[t] = NoCall
    /\ netIdForProcess[UidOf[t]] # NETID_UNSET
    /\ netIdForProcess' = [netIdForProcess EXCEPT ![UidOf[t]] = NETID_UNSET]
    /\ UNCHANGED <<mark, owner, forUser, accepted, stale, call>> /\ CallUnchanged

\* The call that opens a socket has not returned it yet.
Opening(s) == \E t \in Threads : call[t] # NoCall /\ call[t].op # "onSocket" /\ call[t].socket = s

\* netdClientConnect, setNetworkForSocket, protectFromVpn, setNetworkForUser.
OnSocket(t, s, cmdId, netId, uid) ==
    /\ call[t] = NoCall
    /\ owner[s] = UidOf[t] /\ ~Opening(s)
    /\ send(t, "onSocket", cmdId, s, netId, uid)
    /\ UNCHANGED sockets /\ CallUnchanged

\* The call returns: a socket that could not be marked is closed, and so is the
\* one setNetworkForTarget tried.
Return(t) ==
    LET c == call[t]
    IN  /\ c.stage \in {"ok", "error"}
        /\ call' = [call EXCEPT ![t] = NoCall]
        /\ netIdForProcess' = IF c.op = "process" /\ c.stage = "ok"
                              THEN [netIdForProcess EXCEPT ![UidOf[t]] = c.netId] ELSE netIdForProcess
        /\ IF c.op = "process" \/ (c.stage = "error" /\ c.op \in {"socket", "accept"})
           THEN Closed(c.socket) ELSE UNCHANGED <<mark, owner, forUser, accepted, stale>>
        /\ CallUnchanged

close(s) ==
    /\ owner[s] # NOBODY
    /\ \A t \in Threads : call[t] # NoCall => call[t].socket # s
    /\ Closed(s)
    /\ UNCHANGED <<netIdForProcess, call>> /\ CallUnchanged

ClientStep ==
    \E t \in Threads :
        \/ \E s \in Sockets :
            \/ netdClientSocket(t, s) \/ netdClientAccept4(t, s)
            \/ \E n \in AllNetIds : setNetworkForProcess(t, s, n)
            \/ \E n \in AllNetIds \cup {NETID_UNSET} : OnSocket(t, s, "SELECT_NETWORK", n, 0)
            \/ \E u \in Uids : OnSocket(t, s, "SELECT_FOR_USER", 0, u)
            \/ \E c \in {"ON_CONNECT", "PROTECT_FROM_VPN"} : OnSocket(t, s, c, 0, 0)
        \/ clearNetworkForProcess(t)
-----------------------------------------------------------------------------
(***************************************************************************)
(* The server: processClient, one step for each question it asks.          *)
(***************************************************************************)
ServerUnchanged == UNCHANGED <<networks, users, owner, netIdForProcess, accepted, up, history>>

\* Receives a command and reads the mark of the socket and the permission of the
\* user.
receive(t) ==
    /\ serving = Nothing
    /\ call[t].stage = "sent"
    /\ serving' = [step |-> "command", thread |-> t, fwmark |-> mark[call[t].socket],
                   permission |-> getPermissionForUser(UidOf[t])]
    /\ staleFwmark' = (call[t].socket \in stale)
    /\ UNCHANGED <<mark, forUser, stale, call>> /\ ServerUnchanged

command == call[serving.thread]
client  == UidOf[serving.thread]
Asked(step, cmdId) == serving.step = step /\ command.cmdId = cmdId

\* The next question, or the mark that will be set, with the netId it had ...
GoOn(step, fwmark, permission) ==
    /\ serving' = [serving EXCEPT !.step = step, !.fwmark = fwmark, !.permission = permission]
    /\ UNCHANGED <<mark, forUser, stale, call>> /\ ServerUnchanged
Ask(step, fwmark, permission) == GoOn(step, fwmark, permission) /\ UNCHANGED staleFwmark
\* ... or with one that NetworkController has just named or approved of.
Choose(step, fwmark, permission) == GoOn(step, fwmark, permission) /\ staleFwmark' = FALSE

\* onDataAvailable sends the error to the client and closes the connection.
Answer(stage) ==
    /\ call' = [call EXCEPT ![serving.thread].stage = stage]
    /\ serving' = Nothing /\ staleFwmark' = FALSE
    /\ ServerUnchanged
\* Faulty variant: only a mark that was set is answered.
BugRefuse ==
    /\ serving' = Nothing /\ staleFwmark' = FALSE
    /\ ServerUnchanged /\ UNCHANGED <<mark, forUser, stale, call>>
Refuse == Answer("error") /\ UNCHANGED <<mark, forUser, stale>>

onAccept ==
    /\ Asked("command", "ON_ACCEPT")
    /\ Ask("set", serving.fwmark, serving.permission \cup serving.fwmark.permission)

onConnect ==
    /\ Asked("command", "ON_CONNECT")
    /\ IF serving.fwmark.explicitlySelected THEN Ask("set", serving.fwmark, serving.permission)
       ELSE IF ~serving.fwmark.protectedFromVpn
            THEN Choose("set", [serving.fwmark EXCEPT !.netId = getNetworkForConnect(client)],
                        serving.permission)
       ELSE Ask(IF isVirtualNetwork(serving.fwmark.netId) THEN "set" ELSE "default",
                serving.fwmark, serving.permission)

selectNetwork ==
    /\ Asked("command", "SELECT_NETWORK")
    /\ IF command.netId = NETID_UNSET THEN Choose("set", NoMark, PERMISSION_NONE)
       ELSE \E access \in checkUserNetworkAccess(client, command.netId) :
                IF access
                THEN Choose("canProtect", [serving.fwmark EXCEPT !.netId = command.netId,
                                                                 !.explicitlySelected = TRUE],
                            serving.permission)
                ELSE Refuse

\* Faulty variant: a socket with a network of its own is always protected.
BugSelectNetworkProtect ==
    /\ Asked("canProtect", "SELECT_NETWORK")
    /\ Ask("set", [serving.fwmark EXCEPT !.protectedFromVpn = TRUE], serving.permission)

selectNetworkProtect ==
    /\ Asked("canProtect", "SELECT_NETWORK")
    /\ Ask("set", [serving.fwmark EXCEPT !.protectedFromVpn = canProtect(client)], serving.permission)

\* Faulty variant: the netId of a VPN stays in the mark.
BugProtectFromVpn ==
    /\ Asked("command", "PROTECT_FROM_VPN")
    /\ IF canProtect(client)
       THEN Ask("set", [serving.fwmark EXCEPT !.protectedFromVpn = TRUE],
                serving.permission \cup serving.fwmark.permission)
       ELSE Refuse

protectFromVpn ==
    /\ Asked("command", "PROTECT_FROM_VPN")
    /\ IF canProtect(client) THEN Ask("isVirtual", serving.fwmark, serving.permission) ELSE Refuse

protectCheckNetwork ==
    /\ Asked("isVirtual", "PROTECT_FROM_VPN")
    /\ IF ~serving.fwmark.explicitlySelected /\ isVirtualNetwork(serving.fwmark.netId)
       THEN Ask("default", [serving.fwmark EXCEPT !.protectedFromVpn = TRUE],
                serving.permission \cup serving.fwmark.permission)
       ELSE Ask("set", [serving.fwmark EXCEPT !.protectedFromVpn = TRUE],
                serving.permission \cup serving.fwmark.permission)

\* getDefaultNetwork, for ON_CONNECT and for PROTECT_FROM_VPN.
useDefaultNetwork ==
    /\ serving.step = "default"
    /\ Choose("set", [serving.fwmark EXCEPT !.netId = mDefaultNetId], serving.permission)

\* Leaves the explicit bit as it is.
selectForUser ==
    /\ Asked("command", "SELECT_FOR_USER")
    /\ IF isSystem(serving.permission)
       THEN Choose("set", [serving.fwmark EXCEPT !.netId = getNetworkForUser(command.uid),
                                                 !.protectedFromVpn = TRUE],
                   serving.permission)
       ELSE Refuse

setMark ==
    /\ serving.step = "set"
    /\ mark' = [mark EXCEPT ![command.socket] = [serving.fwmark EXCEPT !.permission = serving.permission]]
    /\ forUser' = IF command.cmdId = "SELECT_FOR_USER" THEN forUser \cup {command.socket} ELSE forUser
    /\ stale' = IF staleFwmark THEN stale \cup {command.socket} ELSE stale \ {command.socket}
    /\ Answer("ok")

ServerStep ==
    \/ \E t \in Threads : receive(t)
    \/ onAccept \/ onConnect \/ selectNetwork \/ selectNetworkProtect \/ protectFromVpn
    \/ protectCheckNetwork \/ useDefaultNetwork \/ selectForUser \/ setMark
-----------------------------------------------------------------------------
(***************************************************************************)
(* Other threads of netd, and the end of netd.                             *)
(***************************************************************************)
\* What becomes of the marks when networks go; the other half of each action.
MarksGrowStale ==
    LET Gone == DOMAIN mNetworks \ DOMAIN mNetworks'
    IN  /\ stale' = stale \cup { s \in Sockets : mark[s].netId \in Gone }
        /\ staleFwmark' = (serving' # Nothing /\ (staleFwmark \/ serving.fwmark.netId \in Gone))
        /\ UNCHANGED <<mark, owner, netIdForProcess, forUser, accepted>>

NetworksChange ==
    /\ up
    /\ Nets!Change
    /\ \A n \in DOMAIN mNetworks' : \A r \in Ranges : mNetworks'[n].mUidRanges[r] <= MaxCopies
    /\ UNCHANGED <<users, call, serving, up, history>>
    /\ MarksGrowStale

UsersChange ==
    /\ up
    /\ changes < MaxUserCommands /\ changes' = changes + 1
    /\ UserCommand
    /\ privileged' = privileged \cup { u \in Uids : canProtect(u)' }
    /\ UNCHANGED <<networks, sockets, call, server, up, crashes>>

\* A client that was waiting reads an error or the end of the stream, which it
\* takes for a success.
Crash ==
    /\ up /\ up' = FALSE
    /\ crashes < MaxCrashes /\ crashes' = crashes + 1
    /\ Nets!Restart
    /\ mUsers' = NoPermissions /\ mProtectableUsers' = {}
    /\ privileged' = privileged \cup { u \in Uids : canProtect(u)' }
    /\ serving' = Nothing
    /\ \E stage \in [Threads -> {"ok", "error"}] :
        call' = [t \in Threads |-> IF call[t].stage = "sent" THEN [call[t] EXCEPT !.stage = stage[t]]
                                   ELSE call[t]]
    /\ MarksGrowStale
    /\ UNCHANGED changes

Start ==
    /\ ~up /\ up' = TRUE
    /\ UNCHANGED <<networks, users, sockets, call, server, history>>

Next ==
    \/ ClientStep
    \/ \E t \in Threads : Return(t)
    \/ \E s \in Sockets : close(s)
    \/ ServerStep
    \/ NetworksChange \/ UsersChange \/ Crash \/ Start

Spec == Init /\ [][Next]_vars

\* The thread of the server goes on, and serves everybody who waits: select(2)
\* reports all of them.
FairSpec ==
    /\ Spec
    /\ WF_vars(ServerStep)
    /\ \A t \in Threads : WF_vars(Return(t)) /\ SF_vars(receive(t))
-----------------------------------------------------------------------------
Fwmarks == FwmarkOver(AllNetIds \cup {NETID_UNSET})
CallType ==
    {NoCall} \cup
    { Call(op, c, s, n, u, stage) :
        op \in {"socket", "accept", "process", "onSocket"}, c \in Commands, s \in Sockets,
        n \in AllNetIds \cup {NETID_UNSET}, u \in Uids \cup {0}, stage \in {"sent", "ok", "error"} }
ServingType ==
    {Nothing} \cup
    [step : {"command", "canProtect", "isVirtual", "default", "set"}, thread : Threads,
     fwmark : Fwmarks, permission : Permission]

\* Every variable has its type; the server serves a thread that waits for it.
TypeOK ==
    /\ DOMAIN mNetworks \subseteq AllNetIds
    /\ \A n \in DOMAIN mNetworks : mNetworks[n] \in Network
    /\ mDefaultNetId \in PhysicalNetIds \cup {NETID_UNSET}
    /\ mUsers \in UNION { [us -> Permission] : us \in SUBSET Uids }
    /\ mProtectableUsers \subseteq Uids
    /\ mark \in [Sockets -> Fwmarks]
    /\ owner \in [Sockets -> Uids \cup {NOBODY}]
    /\ netIdForProcess \in [Uids -> AllNetIds \cup {NETID_UNSET}]
    /\ \A t \in Threads : call[t] \in CallType
    /\ serving \in ServingType
    /\ serving # Nothing => up /\ call[serving.thread].stage = "sent"
    /\ up \in BOOLEAN

\* "We'll never set the NetId of a secure VPN here": a socket whose netId nobody
\* selected carries the netId of a VPN only if that is bypassable, though the server
\* may set it long after it asked, and though netIds are used again.  The exception
\* is a socket whose network has gone: nobody looks for the sockets that have its
\* netId, which may be that of a secure VPN the next time.
ImplicitVpnIsBypassable ==
    \A s \in Sockets \ stale :
        ~mark[s].explicitlySelected /\ ~mark[s].protectedFromVpn /\ isVirtualNetwork(mark[s].netId)
        => ~mNetworks[mark[s].netId].mSecure

\* "If it's a VPN provider, the existing NetId cannot be a VPN": of the sockets
\* that are protected and whose netId was not selected, only those of proxies
\* acting for a user carry the netId of a VPN, in whatever order connect and
\* protect were called and networks came and went: also when the VPN goes, or comes,
\* between the question whether the netId is that of a VPN and setting the mark.
\* Again not when the network that the netId was chosen for has gone.
ProviderLeavesVpn ==
    \A s \in Sockets \ (forUser \cup stale) :
        mark[s].protectedFromVpn /\ ~mark[s].explicitlySelected => ~isVirtualNetwork(mark[s].netId)

\* A socket is protected from VPNs only if its user could protect sockets at some
\* time, or if the kernel accepted it: what other users and other commands do, and
\* a crash of netd, never gives the bit to anyone else.
OnlyPrivilegedSkipVpn ==
    \A s \in Sockets \ accepted : mark[s].protectedFromVpn => owner[s] \in privileged

\* "... so that we don't inadvertently cause the client to hang (which always
\* waits for a response)": every call into NetdClient returns, also when netd
\* dies.
CallReturns == \A t \in Threads : call[t] # NoCall ~> call[t] = NoCall
=============================================================================
