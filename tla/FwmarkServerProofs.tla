------------------------- MODULE FwmarkServerProofs -------------------------
(***************************************************************************)
(* For any threads, sockets, users and networks: nobody gets a socket that *)
(* is protected from VPNs without having been able to protect one, and the *)
(* netId of a VPN gets into a mark only where it may.                      *)
(***************************************************************************)
EXTENDS FwmarkServer, WellFoundedInduction, TLAPS

IsMark(m) == m = Mark(m.netId, m.explicitlySelected, m.protectedFromVpn, m.permission)
IsCall(c) == c = Call(c.op, c.cmdId, c.socket, c.netId, c.uid, c.stage)

\* A closed socket has no mark.
SocketsOK ==
    /\ mark = [s \in Sockets |-> mark[s]] /\ owner = [s \in Sockets |-> owner[s]]
    /\ \A s \in Sockets : IsMark(mark[s]) /\ (owner[s] = NOBODY => mark[s] = NoMark)

\* A thread that calls has its socket open, and alone unless the socket was there
\* before the call.
CallsOK ==
    /\ call = [t \in Threads |-> call[t]]
    /\ \A t \in Threads : call[t] = NoCall \/
         /\ IsCall(call[t]) /\ call[t].socket \in Sockets /\ call[t].stage \in {"sent", "ok", "error"}
         /\ owner[call[t].socket] = UidOf[t]
    /\ \A t, v \in Threads :
         call[t] # NoCall /\ call[v] # NoCall /\ t # v /\ call[t].socket = call[v].socket
         => call[t].op = "onSocket"

\* What the server has read, and the mark it is about to set, protect a socket only
\* for a user who could do so at some time: the answers may be stale by now.
ServingOK ==
    serving = Nothing \/
      /\ serving = [step |-> serving.step, thread |-> serving.thread, fwmark |-> serving.fwmark,
                    permission |-> serving.permission]
      /\ serving.thread \in Threads /\ command.stage = "sent"
      /\ IsMark(serving.fwmark)
      /\ serving.fwmark.protectedFromVpn => client \in privileged \/ command.socket \in accepted
      /\ serving.step = "isVirtual" \/ (serving.step = "command" /\ isSystem(serving.permission))
         => client \in privileged

PrivilegedOK == \A u \in Uids : canProtect(u) => u \in privileged

\* The inductive invariant.
ProtectInvariant == SocketsOK /\ CallsOK /\ ServingOK /\ PrivilegedOK /\ OnlyPrivilegedSkipVpn
-----------------------------------------------------------------------------
\* A caller is a user, not the mark of a closed socket.
LEMMA UserIsSomebody == \A t \in Threads : UidOf[t] \in Uids /\ UidOf[t] # NOBODY
BY FwmarkServerAssumption DEF NOBODY

\* A step that leaves sockets, calls and the server alone.
LEMMA ElsewhereStep ==
    ASSUME ProtectInvariant, UNCHANGED <<mark, owner, accepted, call, serving>>,
           privileged \subseteq privileged', PrivilegedOK'
    PROVE  ProtectInvariant'
BY DEF ProtectInvariant, SocketsOK, CallsOK, ServingOK, OnlyPrivilegedSkipVpn, command, client

\* Who can protect depends on the users only.
LEMMA SameUsers ==
    ASSUME PrivilegedOK, UNCHANGED <<users, privileged>>
    PROVE  PrivilegedOK'
BY DEF PrivilegedOK, users, canProtect, getPermissionForUser

\* A call that is sent: the server goes on with the call it has.
LEMMA SendStep ==
    ASSUME ProtectInvariant, NEW t \in Threads, NEW s \in Sockets, NEW op, NEW cmdId, NEW netId, NEW uid,
           call[t] = NoCall, send(t, op, cmdId, s, netId, uid), UNCHANGED <<users, serving, privileged>>,
           accepted \subseteq accepted', owner'[s] = UidOf[t],
           \A r \in Sockets : owner[r] # NOBODY => owner'[r] = owner[r],
           \A v \in Threads : call[v] # NoCall /\ call[v].socket = s => op = "onSocket" /\ call[v].op = "onSocket"
    PROVE  CallsOK' /\ ServingOK' /\ PrivilegedOK'
<1>1. PICK stage \in {"sent", "ok"} : call' = [call EXCEPT ![t] = Call(op, cmdId, s, netId, uid, stage)]
  BY DEF send
<1> DEFINE c == Call(op, cmdId, s, netId, uid, stage)
<1>2. IsCall(c) /\ c.socket = s /\ c.stage = stage /\ c.op = op /\ c # NoCall
  BY <1>1 DEF IsCall, Call, NoCall
<1>3. call'[t] = c /\ call' = [v \in Threads |-> call'[v]] /\ \A v \in Threads : v # t => call'[v] = call[v]
  BY <1>1 DEF ProtectInvariant, CallsOK
<1>4. ASSUME NEW v \in Threads, v # t, call[v] # NoCall
      PROVE  owner'[call[v].socket] = UidOf[v]
  BY <1>4, UserIsSomebody DEF ProtectInvariant, CallsOK
<1>5. CallsOK'
  BY <1>2, <1>3, <1>4 DEF ProtectInvariant, CallsOK
<1>6. ServingOK'
  BY <1>3 DEF ProtectInvariant, ServingOK, command, client, NoCall
<1> QED
  BY <1>5, <1>6, SameUsers DEF ProtectInvariant

\* A socket that is opened has no mark, or the one the kernel gave an accepted socket,
\* and no call is using it.
LEMMA OpenStep ==
    ASSUME ProtectInvariant, NEW t \in Threads, NEW s \in Sockets, Open(t, s), UNCHANGED privileged,
           \/ UNCHANGED <<mark, accepted>>
           \/ \E m : mark' = [mark EXCEPT ![s] = m] /\ IsMark(m) /\ accepted' = accepted \cup {s}
    PROVE  /\ SocketsOK' /\ OnlyPrivilegedSkipVpn'
           /\ accepted \subseteq accepted' /\ owner'[s] = UidOf[t]
           /\ \A r \in Sockets : owner[r] # NOBODY => owner'[r] = owner[r]
           /\ \A v \in Threads : call[v] = NoCall \/ call[v].socket # s
<1>1. owner[s] = NOBODY /\ owner' = [owner EXCEPT ![s] = UidOf[t]] /\ UidOf[t] # NOBODY
  BY UserIsSomebody DEF Open
<1>2. owner'[s] = UidOf[t] /\ \A r \in Sockets : r # s => owner'[r] = owner[r]
  BY <1>1 DEF ProtectInvariant, SocketsOK
<1>3. \A v \in Threads : call[v] = NoCall \/ call[v].socket # s
  BY <1>1, UserIsSomebody DEF ProtectInvariant, CallsOK
<1>4. mark[s] = NoMark /\ ~NoMark.protectedFromVpn
  BY <1>1 DEF ProtectInvariant, SocketsOK, NoMark, Mark
<1>5. CASE UNCHANGED <<mark, accepted>>
  <2>1. SocketsOK'
    BY <1>1, <1>2, <1>5 DEF ProtectInvariant, SocketsOK
  <2>2. OnlyPrivilegedSkipVpn'
    BY <1>2, <1>4, <1>5 DEF ProtectInvariant, OnlyPrivilegedSkipVpn
  <2> QED
    BY <1>1, <1>2, <1>3, <1>5, <2>1, <2>2
<1>6. ASSUME NEW m, mark' = [mark EXCEPT ![s] = m], IsMark(m), accepted' = accepted \cup {s}
      PROVE  SocketsOK' /\ OnlyPrivilegedSkipVpn' /\ accepted \subseteq accepted'
  <2>1. mark'[s] = m /\ \A r \in Sockets : r # s => mark'[r] = mark[r]
    BY <1>6 DEF ProtectInvariant, SocketsOK
  <2>2. SocketsOK'
    BY <1>1, <1>2, <1>6, <2>1 DEF ProtectInvariant, SocketsOK
  <2> QED
    BY <1>2, <1>6, <2>1, <2>2 DEF ProtectInvariant, OnlyPrivilegedSkipVpn
<1> QED
  BY <1>1, <1>2, <1>3, <1>5, <1>6

\* The calls of NetdClient.
LEMMA ClientStepKeeps ==
    ASSUME ProtectInvariant, ClientStep
    PROVE  ProtectInvariant'
<1>1. UNCHANGED <<users, serving, privileged>>
  BY DEF ClientStep, netdClientSocket, netdClientAccept4, setNetworkForProcess, OnSocket,
         clearNetworkForProcess, CallUnchanged, server, history
<1>2. PrivilegedOK'
  BY <1>1, SameUsers DEF ProtectInvariant
<1>3. ASSUME NEW t \in Threads, NEW s \in Sockets, Open(t, s),
             \/ UNCHANGED <<mark, accepted>>
             \/ \E m : mark' = [mark EXCEPT ![s] = m] /\ IsMark(m) /\ accepted' = accepted \cup {s},
             UNCHANGED call \/ \E op, cmdId, netId, uid : send(t, op, cmdId, s, netId, uid)
      PROVE  ProtectInvariant'
  <2>1. /\ SocketsOK' /\ OnlyPrivilegedSkipVpn'
        /\ accepted \subseteq accepted' /\ owner'[s] = UidOf[t]
        /\ \A r \in Sockets : owner[r] # NOBODY => owner'[r] = owner[r]
        /\ \A v \in Threads : call[v] = NoCall \/ call[v].socket # s
    BY <1>1, <1>3, OpenStep
  <2>2. call[t] = NoCall
    BY <1>3 DEF Open
  <2>3. CASE UNCHANGED call
    <3>1. CallsOK'
      BY <2>1, <2>3, UserIsSomebody DEF ProtectInvariant, CallsOK
    <3>2. ServingOK'
      BY <1>1, <2>1, <2>3 DEF ProtectInvariant, ServingOK, command, client
    <3> QED
      BY <1>2, <2>1, <3>1, <3>2 DEF ProtectInvariant
  <2>4. CASE \E op, cmdId, netId, uid : send(t, op, cmdId, s, netId, uid)
    BY <1>1, <2>1, <2>2, <2>4, SendStep DEF ProtectInvariant
  <2> QED
    BY <1>3, <2>3, <2>4
<1>4. ASSUME NEW t \in Threads, NEW s \in Sockets, netdClientSocket(t, s)
      PROVE  ProtectInvariant'
  BY <1>3, <1>4 DEF netdClientSocket
<1>5. ASSUME NEW t \in Threads, NEW s \in Sockets, netdClientAccept4(t, s)
      PROVE  ProtectInvariant'
  <2>1. IsMark(NoMark) /\ \A n, p : IsMark(Mark(n, TRUE, TRUE, p))
    BY DEF IsMark, NoMark, Mark
  <2> QED
    BY <1>3, <1>5, <2>1 DEF netdClientAccept4
<1>6. ASSUME NEW t \in Threads, NEW s \in Sockets, NEW n, setNetworkForProcess(t, s, n)
      PROVE  ProtectInvariant'
  BY <1>3, <1>6 DEF setNetworkForProcess
<1>7. ASSUME NEW t \in Threads, NEW s \in Sockets, NEW c, NEW n, NEW u, OnSocket(t, s, c, n, u)
      PROVE  ProtectInvariant'
  <2>1. /\ call[t] = NoCall /\ owner[s] = UidOf[t] /\ send(t, "onSocket", c, s, n, u)
        /\ UNCHANGED <<mark, owner, accepted>>
    BY <1>7 DEF OnSocket, sockets
  <2>2. \A v \in Threads : call[v] # NoCall /\ call[v].socket = s => call[v].op = "onSocket"
    BY <1>7 DEF OnSocket, Opening
  <2>3. CallsOK' /\ ServingOK'
    BY <1>1, <2>1, <2>2, SendStep
  <2> QED
    BY <1>1, <1>2, <2>1, <2>3 DEF ProtectInvariant, SocketsOK, OnlyPrivilegedSkipVpn
<1>8. ASSUME NEW t \in Threads, clearNetworkForProcess(t)
      PROVE  ProtectInvariant'
  BY <1>1, <1>2, <1>8, ElsewhereStep DEF clearNetworkForProcess
<1> QED
  BY <1>4, <1>5, <1>6, <1>7, <1>8 DEF ClientStep

\* A socket that is closed, while at most the call that is returning uses it.
LEMMA CloseStep ==
    ASSUME ProtectInvariant, NEW s \in Sockets, Closed(s), UNCHANGED <<users, serving, privileged>>,
           call' = [t \in Threads |-> call'[t]],
           \A t \in Threads : call'[t] = NoCall \/ call'[t] = call[t],
           \A t \in Threads : call[t].stage = "sent" => call'[t] = call[t],
           \A t \in Threads : call'[t] # NoCall => call'[t].socket # s
    PROVE  ProtectInvariant'
<1>1. /\ owner' = [owner EXCEPT ![s] = NOBODY] /\ mark' = [mark EXCEPT ![s] = NoMark]
      /\ accepted' = accepted \ {s}
  BY DEF Closed
<1>2. /\ owner'[s] = NOBODY /\ mark'[s] = NoMark
      /\ \A r \in Sockets : r # s => owner'[r] = owner[r] /\ mark'[r] = mark[r]
  BY <1>1 DEF ProtectInvariant, SocketsOK
<1>3. IsMark(NoMark) /\ ~NoMark.protectedFromVpn
  BY DEF IsMark, NoMark, Mark
<1>4. SocketsOK'
  BY <1>1, <1>2, <1>3 DEF ProtectInvariant, SocketsOK
<1>5. CallsOK'
  BY <1>2 DEF ProtectInvariant, CallsOK
<1>6. ServingOK'
  <2> SUFFICES ASSUME serving # Nothing PROVE ServingOK'
    BY DEF ServingOK
  <2>1. serving.thread \in Threads /\ call[serving.thread].stage = "sent"
    BY DEF ProtectInvariant, ServingOK, command
  <2>2. command' = command /\ client' = client
    BY <2>1 DEF command, client
  <2>3. command # NoCall
    BY <2>1 DEF command, NoCall
  <2>4. command.socket \in accepted => command.socket \in accepted'
    BY <1>1, <2>1, <2>2, <2>3 DEF command
  <2> QED
    BY <2>2, <2>4 DEF ProtectInvariant, ServingOK
<1>7. OnlyPrivilegedSkipVpn'
  BY <1>1, <1>2, <1>3 DEF ProtectInvariant, OnlyPrivilegedSkipVpn
<1> QED
  BY <1>4, <1>5, <1>6, <1>7, SameUsers DEF ProtectInvariant

\* close, and the return of a call, which may close the socket it has opened.
LEMMA ReturnStep ==
    ASSUME ProtectInvariant, (\E t \in Threads : Return(t)) \/ \E s \in Sockets : close(s)
    PROVE  ProtectInvariant'
<1>1. UNCHANGED <<users, serving, privileged>>
  BY DEF Return, close, CallUnchanged, server, history
<1>2. PrivilegedOK'
  BY <1>1, SameUsers DEF ProtectInvariant
<1>3. ASSUME NEW s \in Sockets, close(s)
      PROVE  ProtectInvariant'
  BY <1>1, <1>3, CloseStep DEF close, ProtectInvariant, CallsOK
<1>4. ASSUME NEW t \in Threads, Return(t)
      PROVE  ProtectInvariant'
  <2>1. call[t].stage \in {"ok", "error"} /\ call' = [call EXCEPT ![t] = NoCall]
    BY <1>4 DEF Return
  <2>2. /\ call'[t] = NoCall /\ call' = [v \in Threads |-> call'[v]]
        /\ \A v \in Threads : v # t => call'[v] = call[v]
    BY <2>1 DEF ProtectInvariant, CallsOK
  <2>3. call[t] # NoCall /\ call[t].socket \in Sockets
    BY <2>1 DEF ProtectInvariant, CallsOK, NoCall
  <2>4. CASE Closed(call[t].socket) /\ call[t].op # "onSocket"
    <3>1. \A v \in Threads : call'[v] # NoCall => call'[v].socket # call[t].socket
      BY <2>2, <2>3, <2>4 DEF ProtectInvariant, CallsOK
    <3> QED
      BY <1>1, <2>1, <2>2, <2>3, <2>4, <3>1, CloseStep
  <2>5. CASE UNCHANGED <<mark, owner, forUser, accepted, stale>>
    <3>1. CallsOK'
      BY <2>2, <2>5 DEF ProtectInvariant, CallsOK
    <3>2. serving = Nothing \/ serving.thread # t
      BY <2>1 DEF ProtectInvariant, ServingOK, command
    <3>3. ServingOK'
      BY <1>1, <2>2, <2>5, <3>2 DEF ProtectInvariant, ServingOK, command, client
    <3> QED
      BY <1>1, <1>2, <2>5, <3>1, <3>3 DEF ProtectInvariant, SocketsOK, OnlyPrivilegedSkipVpn
  <2> QED
    BY <1>4, <2>4, <2>5 DEF Return
<1> QED
  BY <1>3, <1>4
-----------------------------------------------------------------------------
\* The next question: the mark carried on protects only what may be protected.
LEMMA AskStep ==
    ASSUME ProtectInvariant, serving # Nothing, NEW step, NEW fwmark, NEW permission, GoOn(step, fwmark, permission),
           step # "command", step = "isVirtual" => client \in privileged, IsMark(fwmark),
           fwmark.protectedFromVpn => client \in privileged \/ command.socket \in accepted
    PROVE  ProtectInvariant'
<1>1. UNCHANGED <<users, mark, owner, accepted, call, privileged>>
  BY DEF GoOn, ServerUnchanged, history
<1>2. serving' = [step |-> step, thread |-> serving.thread, fwmark |-> fwmark, permission |-> permission]
  BY DEF GoOn, ProtectInvariant, ServingOK
<1>3. ServingOK'
  <2>1. serving'.thread = serving.thread /\ serving'.fwmark = fwmark /\ serving'.step = step
    BY <1>2
  <2>2. command' = command /\ client' = client
    BY <1>1, <2>1 DEF command, client
  <2> QED
    BY <1>1, <1>2, <2>1, <2>2 DEF ProtectInvariant, ServingOK
<1>4. SocketsOK' /\ CallsOK' /\ OnlyPrivilegedSkipVpn'
  BY <1>1 DEF ProtectInvariant, SocketsOK, CallsOK, OnlyPrivilegedSkipVpn
<1> QED
  BY <1>1, <1>3, <1>4, SameUsers DEF ProtectInvariant

\* The answer to the client, with or without a mark.
LEMMA AnswerStep ==
    ASSUME ProtectInvariant, serving # Nothing, NEW stage \in {"ok", "error"}, Answer(stage), SocketsOK',
           OnlyPrivilegedSkipVpn'
    PROVE  ProtectInvariant'
<1>1. UNCHANGED <<users, owner, privileged>> /\ serving' = Nothing
  BY DEF Answer, ServerUnchanged, history
<1> DEFINE t == serving.thread
<1>2. t \in Threads /\ call[t].stage = "sent"
  BY DEF ProtectInvariant, ServingOK, command
<1>3. call[t] # NoCall /\ IsCall(call[t])
  BY <1>2 DEF ProtectInvariant, CallsOK, NoCall
<1>4. call' = [call EXCEPT ![t] = [call[t] EXCEPT !.stage = stage]]
  BY DEF Answer
<1> DEFINE c == [call[t] EXCEPT !.stage = stage]
<1>5. c # NoCall /\ IsCall(c) /\ c.socket = call[t].socket /\ c.op = call[t].op /\ c.stage = stage
  BY <1>3 DEF IsCall, Call, NoCall
<1>6. call'[t] = c /\ call' = [v \in Threads |-> call'[v]] /\ \A v \in Threads : v # t => call'[v] = call[v]
  BY <1>2, <1>4 DEF ProtectInvariant, CallsOK
<1> HIDE DEF c
<1>7. CallsOK'
  BY <1>1, <1>2, <1>3, <1>5, <1>6 DEF ProtectInvariant, CallsOK
<1> QED
  BY <1>1, <1>7, SameUsers DEF ProtectInvariant, ServingOK

\* An error leaves the socket as it was.
LEMMA RefuseStep ==
    ASSUME ProtectInvariant, serving # Nothing, Refuse
    PROVE  ProtectInvariant'
<1>1. UNCHANGED <<mark, owner, accepted, privileged>>
  BY DEF Refuse, Answer, ServerUnchanged, history
<1>2. SocketsOK' /\ OnlyPrivilegedSkipVpn'
  BY <1>1 DEF ProtectInvariant, SocketsOK, OnlyPrivilegedSkipVpn
<1> QED
  BY <1>2, AnswerStep DEF Refuse

\* A mark with another netId or permission protects as before.
LEMMA MarkWith ==
    ASSUME NEW m, IsMark(m), NEW x
    PROVE  /\ IsMark([m EXCEPT !.netId = x])
           /\ [m EXCEPT !.netId = x].protectedFromVpn = m.protectedFromVpn
           /\ IsMark([m EXCEPT !.explicitlySelected = x])
           /\ [m EXCEPT !.explicitlySelected = x].protectedFromVpn = m.protectedFromVpn
           /\ IsMark([m EXCEPT !.permission = x])
           /\ [m EXCEPT !.permission = x].protectedFromVpn = m.protectedFromVpn
           /\ IsMark([m EXCEPT !.protectedFromVpn = x])
           /\ [m EXCEPT !.protectedFromVpn = x].protectedFromVpn = x
BY DEF IsMark, Mark

\* Two fields of a mark changed at once.
LEMMA MarkWithBoth ==
    ASSUME NEW m, IsMark(m), NEW n
    PROVE  /\ IsMark([m EXCEPT !.netId = n, !.explicitlySelected = TRUE])
           /\ [m EXCEPT !.netId = n, !.explicitlySelected = TRUE].protectedFromVpn = m.protectedFromVpn
           /\ IsMark([m EXCEPT !.netId = n, !.protectedFromVpn = TRUE])
<1>1. /\ [m EXCEPT !.netId = n, !.explicitlySelected = TRUE] = [[m EXCEPT !.netId = n] EXCEPT !.explicitlySelected = TRUE]
      /\ [m EXCEPT !.netId = n, !.protectedFromVpn = TRUE] = [[m EXCEPT !.netId = n] EXCEPT !.protectedFromVpn = TRUE]
  OBVIOUS
<1>2. PICK k : k = [m EXCEPT !.netId = n]
  OBVIOUS
<1>3. IsMark(k) /\ k.protectedFromVpn = m.protectedFromVpn
  BY <1>2, MarkWith
<1>4. /\ IsMark([k EXCEPT !.explicitlySelected = TRUE]) /\ IsMark([k EXCEPT !.protectedFromVpn = TRUE])
      /\ [k EXCEPT !.explicitlySelected = TRUE].protectedFromVpn = k.protectedFromVpn
  BY <1>3, MarkWith
<1> QED
  BY <1>1, <1>2, <1>3, <1>4

\* The steps of processClient: the bit is set only after a question that was answered
\* with yes, for the client whose socket it is.
LEMMA ServerStepKeeps ==
    ASSUME ProtectInvariant, ServerStep
    PROVE  ProtectInvariant'
<1>1. ASSUME NEW t \in Threads, receive(t)
      PROVE  ProtectInvariant'
  <2>1. UNCHANGED <<users, mark, owner, accepted, call, privileged>>
    BY <1>1 DEF receive, ServerUnchanged, history
  <2>2. /\ serving' = [step |-> "command", thread |-> t, fwmark |-> mark[call[t].socket],
                       permission |-> getPermissionForUser(UidOf[t])]
        /\ call[t].stage = "sent"
    BY <1>1 DEF receive
  <2>3. call[t].socket \in Sockets /\ owner[call[t].socket] = UidOf[t]
    BY <2>2 DEF ProtectInvariant, CallsOK, NoCall
  <2>4. IsMark(mark[call[t].socket])
    BY <2>3 DEF ProtectInvariant, SocketsOK
  <2>5. mark[call[t].socket].protectedFromVpn => UidOf[t] \in privileged \/ call[t].socket \in accepted
    BY <2>3 DEF ProtectInvariant, OnlyPrivilegedSkipVpn
  <2>6. isSystem(getPermissionForUser(UidOf[t])) => UidOf[t] \in privileged
    BY UserIsSomebody DEF ProtectInvariant, PrivilegedOK, canProtect
  <2>7. ServingOK'
    <3>1. serving'.thread = t /\ serving'.fwmark = mark[call[t].socket]
          /\ serving'.permission = getPermissionForUser(UidOf[t])
      BY <2>2
    <3>2. command' = call[t] /\ client' = UidOf[t]
      BY <2>1, <3>1 DEF command, client
    <3> QED
      BY <2>1, <2>2, <2>4, <2>5, <2>6, <3>1, <3>2 DEF ServingOK, isSystem
  <2> QED
    BY <2>1, <2>7, SameUsers DEF ProtectInvariant, SocketsOK, CallsOK, OnlyPrivilegedSkipVpn
<1>2. ASSUME serving.step # "none"
      PROVE  /\ serving # Nothing /\ IsMark(serving.fwmark) /\ client \in Uids
             /\ serving.fwmark.protectedFromVpn => client \in privileged \/ command.socket \in accepted
             /\ canProtect(client) => client \in privileged
  <2>1. serving # Nothing
    BY <1>2 DEF Nothing
  <2> QED
    BY <2>1, UserIsSomebody DEF ProtectInvariant, ServingOK, PrivilegedOK, client
<1>3. CASE onAccept
  BY <1>2, <1>3, AskStep DEF onAccept, Asked, Ask
<1>4. CASE onConnect
  <2> DEFINE m == [serving.fwmark EXCEPT !.netId = getNetworkForConnect(client)]
  <2>1. serving.step # "none"
    BY <1>4 DEF onConnect, Asked
  <2>2. \/ GoOn("set", serving.fwmark, serving.permission)
        \/ GoOn("default", serving.fwmark, serving.permission)
        \/ GoOn("set", m, serving.permission)
    BY <1>4 DEF onConnect, Ask, Choose
  <2>3. IsMark(m) /\ m.protectedFromVpn = serving.fwmark.protectedFromVpn
    BY <1>2, <2>1, MarkWith
  <2> HIDE DEF m
  <2> QED
    BY <1>2, <2>1, <2>2, <2>3, AskStep
<1>5. CASE selectNetwork
  <2>1. CASE GoOn("set", NoMark, PERMISSION_NONE)
    <3>1. IsMark(NoMark) /\ ~NoMark.protectedFromVpn
      BY DEF IsMark, NoMark, Mark
    <3> QED
      BY <1>2, <1>5, <2>1, <3>1, AskStep DEF selectNetwork, Asked
  <2>2. CASE Refuse
    BY <1>2, <1>5, <2>2, RefuseStep DEF selectNetwork, Asked
  <2>3. CASE GoOn("canProtect", [serving.fwmark EXCEPT !.netId = command.netId, !.explicitlySelected = TRUE],
                  serving.permission)
    <3>1. /\ IsMark([serving.fwmark EXCEPT !.netId = command.netId, !.explicitlySelected = TRUE])
          /\ [serving.fwmark EXCEPT !.netId = command.netId, !.explicitlySelected = TRUE].protectedFromVpn
             = serving.fwmark.protectedFromVpn
      BY <1>2, <1>5, MarkWithBoth DEF selectNetwork, Asked
    <3> QED
      BY <1>2, <1>5, <2>3, <3>1, AskStep DEF selectNetwork, Asked
  <2> QED
    BY <1>5, <2>1, <2>2, <2>3 DEF selectNetwork, Choose
<1>6. CASE selectNetworkProtect
  <2>1. serving.step # "none"
    BY <1>6 DEF selectNetworkProtect, Asked
  <2>2. /\ IsMark([serving.fwmark EXCEPT !.protectedFromVpn = canProtect(client)])
        /\ [serving.fwmark EXCEPT !.protectedFromVpn = canProtect(client)].protectedFromVpn = canProtect(client)
    BY <1>2, <2>1, MarkWith
  <2>3. GoOn("set", [serving.fwmark EXCEPT !.protectedFromVpn = canProtect(client)], serving.permission)
    BY <1>6 DEF selectNetworkProtect, Ask
  <2> QED
    BY <1>2, <2>1, <2>2, <2>3, AskStep
<1>7. CASE protectFromVpn
  BY <1>2, <1>7, AskStep, RefuseStep DEF protectFromVpn, Asked, Ask
<1>8. CASE protectCheckNetwork
  <2>1. client \in privileged
    BY <1>2, <1>8 DEF protectCheckNetwork, Asked, ProtectInvariant, ServingOK
  <2>2. PICK step, permission :
          step \in {"set", "default"} /\ GoOn(step, [serving.fwmark EXCEPT !.protectedFromVpn = TRUE], permission)
    BY <1>8 DEF protectCheckNetwork, Ask
  <2>3. serving.step # "none"
    BY <1>8 DEF protectCheckNetwork, Asked
  <2>4. IsMark([serving.fwmark EXCEPT !.protectedFromVpn = TRUE])
    BY <1>2, <2>3, MarkWith
  <2> QED
    BY <1>2, <2>1, <2>2, <2>3, <2>4, AskStep
<1>9. CASE useDefaultNetwork
  <2>1. /\ serving.step # "none"
        /\ GoOn("set", [serving.fwmark EXCEPT !.netId = mDefaultNetId], serving.permission)
    BY <1>9 DEF useDefaultNetwork, Choose
  <2>2. /\ IsMark([serving.fwmark EXCEPT !.netId = mDefaultNetId])
        /\ [serving.fwmark EXCEPT !.netId = mDefaultNetId].protectedFromVpn = serving.fwmark.protectedFromVpn
    BY <1>2, <2>1, MarkWith
  <2> QED
    BY <1>2, <2>1, <2>2, AskStep
<1>10. CASE selectForUser
  <2>1. CASE Refuse
    BY <1>2, <1>10, <2>1, RefuseStep DEF selectForUser, Asked
  <2>2. CASE isSystem(serving.permission)
    <3>1. client \in privileged
      BY <1>2, <1>10, <2>2 DEF selectForUser, Asked, ProtectInvariant, ServingOK
    <3>2. GoOn("set", [serving.fwmark EXCEPT !.netId = getNetworkForUser(command.uid), !.protectedFromVpn = TRUE],
               serving.permission)
      BY <1>10, <2>2 DEF selectForUser, Choose
    <3>3. IsMark([serving.fwmark EXCEPT !.netId = getNetworkForUser(command.uid), !.protectedFromVpn = TRUE])
      BY <1>2, <1>10, MarkWithBoth DEF selectForUser, Asked
    <3> QED
      BY <1>2, <1>10, <3>1, <3>2, <3>3, AskStep DEF selectForUser, Asked
  <2> QED
    BY <1>10, <2>1, <2>2 DEF selectForUser
<1>11. CASE setMark
  <2> DEFINE m == [serving.fwmark EXCEPT !.permission = serving.permission]
  <2>1. /\ serving # Nothing /\ IsMark(m)
        /\ m.protectedFromVpn => client \in privileged \/ command.socket \in accepted
    BY <1>2, <1>11, MarkWith DEF setMark
  <2>2. mark' = [mark EXCEPT ![command.socket] = m] /\ UNCHANGED <<owner, accepted, privileged>> /\ Answer("ok")
    BY <1>11 DEF setMark, Answer, ServerUnchanged, history
  <2>3. command.socket \in Sockets /\ owner[command.socket] = client /\ client # NOBODY
    BY <2>1, UserIsSomebody DEF ProtectInvariant, ServingOK, CallsOK, NoCall, command, client
  <2> HIDE DEF m
  <2>4. mark'[command.socket] = m /\ \A r \in Sockets : r # command.socket => mark'[r] = mark[r]
    BY <2>2, <2>3 DEF ProtectInvariant, SocketsOK
  <2>5. SocketsOK'
    BY <2>1, <2>2, <2>3, <2>4 DEF ProtectInvariant, SocketsOK
  <2>6. OnlyPrivilegedSkipVpn'
    BY <2>1, <2>2, <2>3, <2>4 DEF ProtectInvariant, OnlyPrivilegedSkipVpn
  <2> QED
    BY <2>1, <2>2, <2>5, <2>6, AnswerStep
<1> QED
  BY <1>1, <1>3, <1>4, <1>5, <1>6, <1>7, <1>8, <1>9, <1>10, <1>11 DEF ServerStep

\* netd dies: the users who could protect a socket remain the ones who could.
LEMMA CrashStep ==
    ASSUME ProtectInvariant, Crash
    PROVE  ProtectInvariant'
<1>1. /\ UNCHANGED <<mark, owner, accepted>> /\ serving' = Nothing
      /\ privileged' = privileged \cup { u \in Uids : canProtect(u)' }
  BY DEF Crash, MarksGrowStale
<1>2. PrivilegedOK' /\ privileged \subseteq privileged'
  BY <1>1 DEF PrivilegedOK
<1>3. PICK stage \in [Threads -> {"ok", "error"}] :
        call' = [t \in Threads |-> IF call[t].stage = "sent" THEN [call[t] EXCEPT !.stage = stage[t]]
                                   ELSE call[t]]
  BY DEF Crash
<1>4. ASSUME NEW t \in Threads
      PROVE  \/ call'[t] = NoCall
             \/ /\ call[t] # NoCall /\ IsCall(call'[t]) /\ call'[t].stage \in {"sent", "ok", "error"}
                /\ call'[t].socket = call[t].socket /\ call'[t].op = call[t].op
  <2>1. CASE call[t].stage = "sent"
    <3>1. IsCall(call[t]) /\ call[t] # NoCall
      BY <2>1 DEF ProtectInvariant, CallsOK, NoCall
    <3>2. call'[t] = [call[t] EXCEPT !.stage = stage[t]] /\ stage[t] \in {"ok", "error"}
      BY <1>3, <2>1
    <3> QED
      BY <3>1, <3>2 DEF IsCall, Call
  <2>2. CASE call[t].stage # "sent"
    BY <1>3, <2>2 DEF ProtectInvariant, CallsOK
  <2> QED
    BY <2>1, <2>2
<1>5. call' = [t \in Threads |-> call'[t]]
  BY <1>3
<1>6. CallsOK'
  BY <1>1, <1>4, <1>5 DEF ProtectInvariant, CallsOK
<1> QED
  BY <1>1, <1>2, <1>6 DEF ProtectInvariant, SocketsOK, ServingOK, OnlyPrivilegedSkipVpn

\* netd starts with the invariant, and every step preserves it.
LEMMA ProtectInductive ==
    (Init => ProtectInvariant) /\ (ProtectInvariant /\ [Next]_vars => ProtectInvariant')
<1>1. Init => ProtectInvariant
  <2> SUFFICES ASSUME Init PROVE ProtectInvariant
    OBVIOUS
  <2>1. IsMark(NoMark) /\ ~NoMark.protectedFromVpn
    BY DEF IsMark, NoMark, Mark
  <2>2. SocketsOK /\ OnlyPrivilegedSkipVpn
    BY <2>1 DEF Init, SocketsOK, OnlyPrivilegedSkipVpn
  <2>3. PrivilegedOK
    BY DEF Init, PrivilegedOK
  <2> QED
    BY <2>2, <2>3 DEF Init, ProtectInvariant, CallsOK, ServingOK
<1>2. ProtectInvariant /\ [Next]_vars => ProtectInvariant'
  <2> SUFFICES ASSUME ProtectInvariant, [Next]_vars PROVE ProtectInvariant'
    OBVIOUS
  <2>1. CASE UNCHANGED vars \/ NetworksChange \/ Start
    <3>1. UNCHANGED <<mark, owner, accepted, call, serving, users, privileged>>
      BY <2>1 DEF vars, NetworksChange, MarksGrowStale, Start, sockets, server, history
    <3> QED
      BY <3>1, SameUsers, ElsewhereStep DEF ProtectInvariant
  <2>2. CASE UsersChange
    <3>1. /\ UNCHANGED <<mark, owner, accepted, call, serving>>
          /\ privileged' = privileged \cup { u \in Uids : canProtect(u)' }
      BY <2>2 DEF UsersChange, sockets, server
    <3>2. PrivilegedOK'
      BY <3>1 DEF PrivilegedOK
    <3> QED
      BY <3>1, <3>2, ElsewhereStep
  <2> QED
    BY <2>1, <2>2, ClientStepKeeps, ReturnStep, ServerStepKeeps, CrashStep DEF Next
<1> QED
  BY <1>1, <1>2

\* For any number of threads, users and sockets, whatever the order of their calls,
\* whenever permissions and networks change between two questions of the server and
\* whenever netd dies: a socket that nobody accepted is protected from VPNs only if its
\* user could protect sockets at some time.
THEOREM OnlyPrivilegedSkipVpnAlways == Spec => []OnlyPrivilegedSkipVpn
<1>1. ProtectInvariant => OnlyPrivilegedSkipVpn
  BY DEF ProtectInvariant
<1> QED
  BY <1>1, ProtectInductive, PTL DEF Spec
-----------------------------------------------------------------------------
(***************************************************************************)
(* The netIds in the marks.  What the server was told about a netId stays  *)
(* true as long as the network is there, though it is acted on later.      *)
(***************************************************************************)
SecureVpn(n) == isVirtualNetwork(n) /\ mNetworks[n].mSecure
Known(n) == n = NETID_UNSET \/ n \in DOMAIN mNetworks

\* The default network is a physical one that exists.
NetworksOK ==
    /\ mNetworks = [n \in DOMAIN mNetworks |-> mNetworks[n]]
    /\ \A n \in DOMAIN mNetworks : {"type", "mSecure"} \subseteq DOMAIN mNetworks[n]
    /\ DOMAIN mNetworks \subseteq Nat \ {NETID_UNSET}
    /\ mDefaultNetId = NETID_UNSET \/ Nets!Exists(mDefaultNetId, "PHYSICAL")

\* A mark whose netId nobody selected; "acting" when it is on a socket of a proxy that
\* acts for a user, "gone" when its network has gone.
NetIdOK(m, acting, gone) ==
    gone \/ /\ Known(m.netId)
            /\ ~m.explicitlySelected /\ ~m.protectedFromVpn => ~SecureVpn(m.netId)
            /\ ~m.explicitlySelected /\ m.protectedFromVpn => acting \/ ~isVirtualNetwork(m.netId)

\* The mark the server is about to set; in step "default" the netId will be replaced.
Acting(step) ==
    command.socket \in forUser \/ step = "default" \/ (step = "set" /\ command.cmdId = "SELECT_FOR_USER")
MarksOK ==
    /\ \A s \in Sockets : NetIdOK(mark[s], s \in forUser, s \in stale)
    /\ serving # Nothing => NetIdOK(serving.fwmark, Acting(serving.step), staleFwmark)
    /\ serving.step = "canProtect" => serving.fwmark.explicitlySelected

\* The inductive invariant of the netIds.
NetIdInvariant == ProtectInvariant /\ NetworksOK /\ MarksOK

\* The first of the VPNs of a user exists: the map is ordered by netId.
LEMMA FirstVpn ==
    ASSUME NetworksOK, NEW uid, vpnsForUser(uid) # {}
    PROVE  getVirtualNetworkForUser(uid) \in DOMAIN mNetworks
<1> DEFINE S == vpnsForUser(uid)
<1>1. S \subseteq DOMAIN mNetworks /\ S \subseteq Nat
  BY DEF vpnsForUser, NetworksOK
<1> HIDE DEF S
<1>2. \E v \in S : \A w \in S : ~(<<w, v>> \in OpToRel(<, Nat))
  BY <1>1, NatLessThanWellFounded, WFMin DEF S
<1>3. \A v, w \in Nat : w < v => <<w, v>> \in OpToRel(<, Nat)
  BY DEF OpToRel
<1>4. \A v, w \in Nat : ~(w < v) => v <= w
  OBVIOUS
<1>5. \E v \in S : \A w \in S : v <= w
  BY <1>1, <1>2, <1>3, <1>4
<1>6. getVirtualNetworkForUser(uid) \in S
  BY <1>5 DEF getVirtualNetworkForUser, S
<1> QED
  BY <1>1, <1>6

\* What the server is told of the default network and of the network for connect.
LEMMA DefaultIsNoVpn ==
    ASSUME NetworksOK
    PROVE  Known(mDefaultNetId) /\ ~isVirtualNetwork(mDefaultNetId) /\ ~SecureVpn(mDefaultNetId)
BY DEF NetworksOK, Known, SecureVpn, isVirtualNetwork, Nets!Exists

\* getNetworkForConnect and getNetworkForUser name networks that exist, or none.
LEMMA ConnectIsNotSecure ==
    ASSUME NetworksOK, NEW uid
    PROVE  /\ Known(getNetworkForConnect(uid)) /\ ~SecureVpn(getNetworkForConnect(uid))
           /\ Known(getNetworkForUser(uid))
<1>1. CASE vpnsForUser(uid) = {}
  BY <1>1, DefaultIsNoVpn DEF getNetworkForConnect, getNetworkForUser
<1>2. CASE vpnsForUser(uid) # {}
  <2>1. Known(getVirtualNetworkForUser(uid))
    BY <1>2, FirstVpn DEF NetworksOK, Known
  <2> QED
    BY <1>2, <2>1, DefaultIsNoVpn DEF getNetworkForConnect, getNetworkForUser, isSubjectToSecureVpn, SecureVpn
<1> QED
  BY <1>1, <1>2

\* What the answers about a netId were, they remain, or the network is gone.
AnswersStay ==
    \A n : Known(n) =>
        \/ n \in DOMAIN mNetworks \ DOMAIN mNetworks'
        \/ Known(n)' /\ (isVirtualNetwork(n)' => isVirtualNetwork(n)) /\ (SecureVpn(n)' => SecureVpn(n))

\* A change of the networks leaves type and security of a network as they were.
NetworksKept ==
    /\ mNetworks' = [n \in DOMAIN mNetworks' |-> mNetworks'[n]]
    /\ \A n \in DOMAIN mNetworks' :
         /\ {"type", "mSecure"} \subseteq DOMAIN mNetworks'[n]
         /\ n \in NetIds \/ n \in DOMAIN mNetworks
         /\ n \in DOMAIN mNetworks => /\ mNetworks'[n].type = mNetworks[n].type
                                      /\ mNetworks'[n].mSecure = mNetworks[n].mSecure
    /\ mDefaultNetId' = NETID_UNSET \/ Nets!Exists(mDefaultNetId, "PHYSICAL")'

\* No command changes the type or the security of a network.
LEMMA ChangeKeeps ==
    ASSUME NetworksOK, Nets!Change
    PROVE  NetworksKept
<1> mNetworks = [n \in DOMAIN mNetworks |-> mNetworks[n]]
  BY DEF NetworksOK
<1>1. ASSUME NEW n \in NetIds, NEW network, Nets!Create(n, network), {"type", "mSecure"} \subseteq DOMAIN network
      PROVE  NetworksKept
  BY <1>1 DEF Nets!Create, NetworksOK, NetworksKept, Nets!Exists
<1>2. ASSUME NEW n, Nets!Destroy(n)
      PROVE  NetworksKept
  BY <1>2 DEF Nets!Destroy, NetworksOK, NetworksKept, Nets!Exists, Nets!NETID_UNSET, NETID_UNSET
<1>3. ASSUME NEW n \in DOMAIN mNetworks, NEW network, mNetworks' = [mNetworks EXCEPT ![n] = network],
             UNCHANGED mDefaultNetId, {"type", "mSecure"} \subseteq DOMAIN network,
             network.type = mNetworks[n].type, network.mSecure = mNetworks[n].mSecure
      PROVE  NetworksKept
  BY <1>3 DEF NetworksOK, NetworksKept, Nets!Exists
<1>4. ASSUME NEW n \in DOMAIN mNetworks, NEW x
      PROVE  \A network \in {[mNetworks[n] EXCEPT !.mInterfaces = x], [mNetworks[n] EXCEPT !.mPermission = x],
                             [mNetworks[n] EXCEPT !.mIsDefault = x], [mNetworks[n] EXCEPT !.mUidRanges = x]} :
               /\ {"type", "mSecure"} \subseteq DOMAIN network
               /\ network.type = mNetworks[n].type /\ network.mSecure = mNetworks[n].mSecure
  BY DEF NetworksOK
<1>5. CASE \/ \E n \in PhysicalNetIds, p \in Permissions : Nets!Create(n, Nets!PhysicalNetwork(p))
           \/ \E n \in VirtualNetIds, hasDns \in HasDns, secure \in BOOLEAN :
                Nets!Create(n, Nets!VirtualNetwork(hasDns, secure))
  BY <1>1, <1>5 DEF NetIds, Nets!PhysicalNetwork, Nets!VirtualNetwork
<1>6. CASE \E n \in Nets!AllNetIds, i \in Interfaces : Nets!AddInterface(n, i) \/ Nets!RemoveInterface(n, i)
  <2>1. PICK n \in DOMAIN mNetworks : \E x :
          mNetworks' = [mNetworks EXCEPT ![n] = [mNetworks[n] EXCEPT !.mInterfaces = x]] /\ UNCHANGED mDefaultNetId
    BY <1>6 DEF Nets!AddInterface, Nets!RemoveInterface
  <2> QED
    BY <1>3, <1>4, <2>1
<1>7. CASE \E n \in Nets!NetIds, p \in Permissions : Nets!SetPermission(n, p)
  <2>1. PICK n \in DOMAIN mNetworks : \E x :
          mNetworks' = [mNetworks EXCEPT ![n] = [mNetworks[n] EXCEPT !.mPermission = x]] /\ UNCHANGED mDefaultNetId
    BY <1>7 DEF Nets!SetPermission, Nets!Exists
  <2> QED
    BY <1>3, <1>4, <2>1
<1>8. CASE \E n \in Nets!NetIds, isDefault \in BOOLEAN : Nets!SetIsDefault(n, isDefault)
  <2>1. PICK n \in DOMAIN mNetworks : \E x :
          mNetworks' = [mNetworks EXCEPT ![n] = [mNetworks[n] EXCEPT !.mIsDefault = x]] /\ UNCHANGED mDefaultNetId
    BY <1>8 DEF Nets!SetIsDefault, Nets!Exists
  <2> QED
    BY <1>3, <1>4, <2>1
<1>9. CASE \E n \in Nets!NetIds \cup {Nets!NETID_UNSET} : Nets!SetDefault(n)
  BY <1>9 DEF Nets!SetDefault, Nets!Exists, NetworksOK, NetworksKept, Nets!NETID_UNSET, NETID_UNSET
<1>10. CASE \E n \in Nets!NetIds, rs \in SUBSET Ranges : Nets!AddUsers(n, rs) \/ Nets!RemoveUsers(n, rs)
  <2>1. PICK n \in DOMAIN mNetworks : \E x :
          mNetworks' = [mNetworks EXCEPT ![n] = [mNetworks[n] EXCEPT !.mUidRanges = x]] /\ UNCHANGED mDefaultNetId
    BY <1>10 DEF Nets!AddUsers, Nets!RemoveUsers, Nets!Exists
  <2> QED
    BY <1>3, <1>4, <2>1
<1> QED
  BY <1>2, <1>5, <1>6, <1>7, <1>8, <1>9, <1>10 DEF Nets!Change

\* A network that stays is what it was, and a new one has a netId that was not known.
LEMMA NetworksStep ==
    ASSUME NetworksOK, NetworksChange
    PROVE  NetworksOK' /\ AnswersStay
<1>1. NetworksKept
  BY ChangeKeeps DEF NetworksChange
<1>2. NetIds \subseteq Nat \ {NETID_UNSET}
  BY NetworkTypesAssumption
<1>3. NetworksOK'
  BY <1>1, <1>2 DEF NetworksOK, NetworksKept
<1>4. ASSUME NEW n, Known(n), n \notin DOMAIN mNetworks \ DOMAIN mNetworks'
      PROVE  /\ Known(n)' /\ (isVirtualNetwork(n)' => isVirtualNetwork(n))
             /\ SecureVpn(n)' => SecureVpn(n)
  <2>1. Known(n)'
    BY <1>4 DEF Known
  <2>2. n \in DOMAIN mNetworks' =>
          n \in DOMAIN mNetworks /\ mNetworks'[n].type = mNetworks[n].type /\ mNetworks'[n].mSecure = mNetworks[n].mSecure
    BY <1>1, <1>3, <1>4 DEF Known, NetworksOK, NetworksKept
  <2> QED
    BY <2>1, <2>2 DEF isVirtualNetwork, SecureVpn, Nets!Exists
<1> QED
  BY <1>3, <1>4 DEF AnswersStay

\* After a crash there is no VPN.
LEMMA RestartStep ==
    ASSUME NetworksOK, Crash
    PROVE  NetworksOK' /\ AnswersStay
<1>1. mNetworks' = [n \in {LOCAL_NET_ID} |-> Nets!LocalNetwork] /\ mDefaultNetId' = NETID_UNSET
  BY DEF Crash, Nets!Restart, Nets!LOCAL_NET_ID, LOCAL_NET_ID, Nets!NETID_UNSET, NETID_UNSET
<1>2. Nets!LocalNetwork.type = "LOCAL" /\ {"type", "mSecure"} \subseteq DOMAIN Nets!LocalNetwork
  BY DEF Nets!LocalNetwork
<1>3. \A n : ~isVirtualNetwork(n)'
  BY <1>1, <1>2 DEF isVirtualNetwork, Nets!Exists
<1>4. \A n : Known(n) => n \in DOMAIN mNetworks \ DOMAIN mNetworks' \/ Known(n)'
  BY DEF Known
<1>5. NetworksOK'
  BY <1>1, <1>2 DEF NetworksOK, LOCAL_NET_ID, NETID_UNSET
<1> QED
  BY <1>3, <1>4, <1>5 DEF AnswersStay, SecureVpn

\* A step that changes the networks, and nothing of sockets and calls but what a crash
\* does to the server.
LEMMA MarksStay ==
    ASSUME MarksOK, AnswersStay, MarksGrowStale, serving' = Nothing \/ UNCHANGED <<serving, call>>
    PROVE  MarksOK'
<1>1. ASSUME NEW m, NEW a, NEW old, NEW new, NetIdOK(m, a, old),
             old \/ m.netId \in DOMAIN mNetworks \ DOMAIN mNetworks' => new
      PROVE  NetIdOK(m, a, new)'
  BY <1>1 DEF NetIdOK, AnswersStay
<1>2. /\ UNCHANGED <<mark, forUser>>
      /\ \A s \in Sockets : s \in stale \/ mark[s].netId \in DOMAIN mNetworks \ DOMAIN mNetworks' => s \in stale'
      /\ serving' # Nothing =>
           (staleFwmark \/ serving.fwmark.netId \in DOMAIN mNetworks \ DOMAIN mNetworks' => staleFwmark')
  BY DEF MarksGrowStale
<1>3. \A s \in Sockets : NetIdOK(mark[s], s \in forUser, s \in stale)'
  BY <1>1, <1>2 DEF MarksOK, NetIdOK
<1>4. ASSUME serving' # Nothing
      PROVE  NetIdOK(serving.fwmark, Acting(serving.step), staleFwmark)'
  <2>1. serving' = serving /\ Acting(serving.step)' = Acting(serving.step)
    BY <1>2, <1>4 DEF Acting, command
  <2>2. NetIdOK(serving.fwmark, Acting(serving.step), staleFwmark)
    BY <1>4, <2>1 DEF MarksOK
  <2> QED
    BY <1>2, <1>4, <2>1, <2>2 DEF NetIdOK, AnswersStay
<1>5. (serving.step = "canProtect" => serving.fwmark.explicitlySelected)'
  BY DEF MarksOK, Nothing
<1> QED
  BY <1>3, <1>4, <1>5 DEF MarksOK

\* The meaning of a mark depends on the networks only.
LEMMA SameNetworks ==
    ASSUME NetworksOK, UNCHANGED networks
    PROVE  /\ NetworksOK'
           /\ \A m, a, g : NetIdOK(m, a, g)' <=> NetIdOK(m, a, g)
           /\ \A n : (Known(n)' <=> Known(n)) /\ (isVirtualNetwork(n)' <=> isVirtualNetwork(n))
                     /\ (SecureVpn(n)' <=> SecureVpn(n))
BY DEF NetworksOK, networks, Known, isVirtualNetwork, SecureVpn, Nets!Exists, NetIdOK

\* A step of a client: sockets are opened and closed, and the server goes on with the
\* call it has.
LEMMA SocketStep ==
    ASSUME NetIdInvariant, UNCHANGED <<networks, serving, staleFwmark>>,
           \A s \in Sockets : \/ /\ mark'[s] = mark[s] /\ (s \in forUser => s \in forUser')
                                 /\ s \in stale => s \in stale'
                              \/ NetIdOK(mark'[s], FALSE, FALSE),
           serving # Nothing => UNCHANGED command /\ (command.socket \in forUser => command.socket \in forUser')
    PROVE  NetworksOK' /\ MarksOK'
<1>1. /\ NetworksOK'
      /\ \A n : (Known(n)' <=> Known(n)) /\ (isVirtualNetwork(n)' <=> isVirtualNetwork(n))
                /\ (SecureVpn(n)' <=> SecureVpn(n))
  BY SameNetworks DEF NetIdInvariant
<1>2. ASSUME NEW s \in Sockets
      PROVE  NetIdOK(mark'[s], s \in forUser', s \in stale')
  BY DEF NetIdInvariant, MarksOK, NetIdOK
<1>3. ASSUME serving # Nothing
      PROVE  NetIdOK(serving.fwmark, Acting(serving.step)', staleFwmark)
  BY <1>3 DEF NetIdInvariant, MarksOK, NetIdOK, Acting
<1>4. \A s \in Sockets : NetIdOK(mark[s], s \in forUser, s \in stale)'
  BY <1>1, <1>2 DEF NetIdOK
<1>5. serving' # Nothing => NetIdOK(serving.fwmark, Acting(serving.step), staleFwmark)'
  BY <1>1, <1>3 DEF NetIdOK
<1> QED
  BY <1>1, <1>4, <1>5 DEF NetIdInvariant, MarksOK

\* A socket without a mark.
LEMMA NewMarkOK == NetIdOK(NoMark, FALSE, FALSE) <=> ~SecureVpn(NETID_UNSET)
BY DEF NetIdOK, NoMark, Mark, Known

\* The call that is being served has its thread and stage; a thread that begins or ends
\* a call is another one.
LEMMA ServedCallStays ==
    ASSUME ProtectInvariant, UNCHANGED serving, serving # Nothing, NEW t \in Threads, NEW c,
           call[t].stage # "sent", call' = [call EXCEPT ![t] = c]
    PROVE  UNCHANGED command /\ serving.thread # t
BY DEF ProtectInvariant, ServingOK, CallsOK, command

\* A call begins: an opened socket has no mark, or that of an incoming packet.
LEMMA ClientNetIds ==
    ASSUME NetIdInvariant, ClientStep
    PROVE  NetworksOK' /\ MarksOK'
<1>1. UNCHANGED <<networks, serving, staleFwmark, forUser, stale>>
  BY DEF ClientStep, netdClientSocket, netdClientAccept4, setNetworkForProcess, OnSocket,
         clearNetworkForProcess, CallUnchanged, server, sockets
<1>2. NetIdOK(NoMark, FALSE, FALSE)
  BY NewMarkOK DEF NetIdInvariant, NetworksOK, SecureVpn, isVirtualNetwork, Nets!Exists
<1>3. ASSUME NEW n \in DOMAIN mNetworks, NEW p
      PROVE  NetIdOK(Mark(n, TRUE, TRUE, p), FALSE, FALSE)
  BY DEF NetIdInvariant, NetworksOK, NetIdOK, Mark, Known
<1> DEFINE Begins(t) ==
             /\ call[t] = NoCall
             /\ UNCHANGED call \/ \E c : call' = [call EXCEPT ![t] = c]
             /\ \/ UNCHANGED mark
                \/ \E s \in Sockets : \E m : mark' = [mark EXCEPT ![s] = m] /\ NetIdOK(m, FALSE, FALSE)
<1>4. PICK t \in Threads : Begins(t)
  <2>1. ASSUME NEW t \in Threads, NEW s \in Sockets, netdClientSocket(t, s) PROVE Begins(t)
    BY <2>1 DEF netdClientSocket, Open, send
  <2>2. ASSUME NEW t \in Threads, NEW s \in Sockets, netdClientAccept4(t, s) PROVE Begins(t)
    <3>1. call[t] = NoCall /\ \E c : call' = [call EXCEPT ![t] = c]
      BY <2>2 DEF netdClientAccept4, Open, send
    <3>2. \E m : mark' = [mark EXCEPT ![s] = m] /\ NetIdOK(m, FALSE, FALSE)
      BY <1>2, <1>3, <2>2 DEF netdClientAccept4
    <3> QED
      BY <3>1, <3>2
  <2>3. ASSUME NEW t \in Threads, NEW s \in Sockets, NEW n, setNetworkForProcess(t, s, n) PROVE Begins(t)
    BY <2>3 DEF setNetworkForProcess, Open, send
  <2>4. ASSUME NEW t \in Threads, NEW s \in Sockets, NEW c, NEW n, NEW u, OnSocket(t, s, c, n, u) PROVE Begins(t)
    BY <2>4 DEF OnSocket, send, sockets
  <2>5. ASSUME NEW t \in Threads, clearNetworkForProcess(t) PROVE Begins(t)
    BY <2>5 DEF clearNetworkForProcess
  <2> HIDE DEF Begins
  <2> QED
    BY <2>1, <2>2, <2>3, <2>4, <2>5 DEF ClientStep
<1>5. \A s \in Sockets : mark'[s] = mark[s] \/ NetIdOK(mark'[s], FALSE, FALSE)
  BY <1>4 DEF NetIdInvariant, ProtectInvariant, SocketsOK
<1>6. serving # Nothing => UNCHANGED command
  <2>1. call[t].stage # "sent"
    BY <1>4 DEF NoCall
  <2>2. UNCHANGED call /\ UNCHANGED serving => UNCHANGED command
    BY DEF command
  <2> QED
    BY <1>1, <1>4, <2>1, <2>2, ServedCallStays DEF NetIdInvariant
<1> QED
  BY <1>1, <1>5, <1>6, SocketStep

\* A call returns, and a closed socket has no mark.
LEMMA ReturnNetIds ==
    ASSUME NetIdInvariant, (\E t \in Threads : Return(t)) \/ \E s \in Sockets : close(s)
    PROVE  NetworksOK' /\ MarksOK'
<1> ProtectInvariant
  BY DEF NetIdInvariant
<1>1. UNCHANGED <<networks, serving, staleFwmark>>
  BY DEF Return, close, CallUnchanged, server
<1>2. NetIdOK(NoMark, FALSE, FALSE)
  BY NewMarkOK DEF NetIdInvariant, NetworksOK, SecureVpn, isVirtualNetwork, Nets!Exists
<1>3. ASSUME NEW s \in Sockets, Closed(s), serving # Nothing => UNCHANGED command /\ command.socket # s
      PROVE  NetworksOK' /\ MarksOK'
  <2>1. /\ \A r \in Sockets : r # s => mark'[r] = mark[r]
        /\ mark'[s] = NoMark /\ forUser' = forUser \ {s} /\ stale' = stale \ {s}
    BY <1>3 DEF Closed, ProtectInvariant, SocketsOK
  <2> QED
    BY <1>1, <1>2, <1>3, <2>1, SocketStep
<1>4. ASSUME NEW s \in Sockets, close(s)
      PROVE  NetworksOK' /\ MarksOK'
  <2>1. serving # Nothing => UNCHANGED command /\ command.socket # s
    BY <1>1, <1>4 DEF close, command, ProtectInvariant, ServingOK, NoCall
  <2> QED
    BY <1>3, <1>4, <2>1 DEF close
<1>5. ASSUME NEW t \in Threads, Return(t)
      PROVE  NetworksOK' /\ MarksOK'
  <2>1. call[t].stage \in {"ok", "error"} /\ call' = [call EXCEPT ![t] = NoCall]
    BY <1>5 DEF Return
  <2>2. serving # Nothing => UNCHANGED command /\ serving.thread # t
    BY <1>1, <2>1, ServedCallStays
  <2>3. CASE Closed(call[t].socket) /\ call[t].op # "onSocket"
    <3>1. call[t] # NoCall /\ call[t].socket \in Sockets
      BY <2>1 DEF ProtectInvariant, CallsOK, NoCall
    <3>2. serving # Nothing => command # NoCall /\ serving.thread \in Threads
      BY DEF ProtectInvariant, ServingOK, command, NoCall
    <3>3. serving # Nothing => command.socket # call[t].socket
      BY <2>2, <2>3, <3>1, <3>2 DEF ProtectInvariant, CallsOK, command
    <3> QED
      BY <1>3, <2>2, <2>3, <3>1, <3>3
  <2>4. CASE UNCHANGED <<mark, owner, forUser, accepted, stale>>
    BY <1>1, <2>2, <2>4, SocketStep
  <2> QED
    BY <1>5, <2>3, <2>4 DEF Return
<1> QED
  BY <1>4, <1>5

\* The next question.
LEMMA GoOnNetIds ==
    ASSUME NetIdInvariant, serving # Nothing, NEW step, NEW fwmark, NEW permission, GoOn(step, fwmark, permission),
           NetIdOK(fwmark, Acting(step), staleFwmark'), step = "canProtect" => fwmark.explicitlySelected
    PROVE  NetworksOK' /\ MarksOK'
<1>1. UNCHANGED <<networks, mark, forUser, stale, call>>
  BY DEF GoOn, ServerUnchanged
<1>2. /\ NetworksOK'
      /\ \A n : (Known(n)' <=> Known(n)) /\ (isVirtualNetwork(n)' <=> isVirtualNetwork(n))
                /\ (SecureVpn(n)' <=> SecureVpn(n))
  BY <1>1, SameNetworks DEF NetIdInvariant
<1>3. serving'.step = step /\ serving'.fwmark = fwmark /\ serving'.thread = serving.thread
  BY DEF GoOn, NetIdInvariant, ProtectInvariant, ServingOK
<1>4. Acting(serving.step)' = Acting(step)
  BY <1>1, <1>3 DEF Acting, command
<1>5. NetIdOK(serving.fwmark, Acting(serving.step), staleFwmark)'
  BY <1>2, <1>3, <1>4 DEF NetIdOK
<1>6. \A s \in Sockets : NetIdOK(mark[s], s \in forUser, s \in stale)'
  BY <1>1, <1>2 DEF NetIdOK, NetIdInvariant, MarksOK
<1> QED
  BY <1>2, <1>3, <1>5, <1>6 DEF MarksOK

\* A netId that was in the mark has its network as long as that of the socket it came from.
LEMMA AskNetIds ==
    ASSUME NetIdInvariant, serving # Nothing, NEW step, NEW fwmark, NEW permission, Ask(step, fwmark, permission),
           NetIdOK(fwmark, Acting(step), staleFwmark), step = "canProtect" => fwmark.explicitlySelected
    PROVE  NetworksOK' /\ MarksOK'
BY GoOnNetIds DEF Ask

\* A netId that was just chosen has its network.
LEMMA ChooseNetIds ==
    ASSUME NetIdInvariant, serving # Nothing, NEW step, NEW fwmark, NEW permission, Choose(step, fwmark, permission),
           NetIdOK(fwmark, Acting(step), FALSE), step = "canProtect" => fwmark.explicitlySelected
    PROVE  NetworksOK' /\ MarksOK'
BY GoOnNetIds DEF Choose

\* The answer leaves the server without a mark.
LEMMA AnswerNetIds ==
    ASSUME NetIdInvariant, NEW stage, Answer(stage),
           \A s \in Sockets : NetIdOK(mark'[s], s \in forUser', s \in stale')
    PROVE  NetworksOK' /\ MarksOK'
<1>1. UNCHANGED networks /\ serving' = Nothing
  BY DEF Answer, ServerUnchanged
<1>2. /\ NetworksOK'
      /\ \A n : (Known(n)' <=> Known(n)) /\ (isVirtualNetwork(n)' <=> isVirtualNetwork(n))
                /\ (SecureVpn(n)' <=> SecureVpn(n))
  BY <1>1, SameNetworks DEF NetIdInvariant
<1>3. \A s \in Sockets : NetIdOK(mark[s], s \in forUser, s \in stale)'
  BY <1>2 DEF NetIdOK
<1> QED
  BY <1>1, <1>2, <1>3 DEF MarksOK, Nothing

\* The steps of processClient.
LEMMA ServerNetIds ==
    ASSUME NetIdInvariant, ServerStep
    PROVE  NetworksOK' /\ MarksOK'
<1> ProtectInvariant /\ NetworksOK /\ MarksOK
  BY DEF NetIdInvariant
<1> DEFINE f == serving.fwmark
<1>1. ASSUME NEW t \in Threads, receive(t)
      PROVE  NetworksOK' /\ MarksOK'
  <2>1. UNCHANGED <<networks, mark, forUser, stale, call>>
    BY <1>1 DEF receive, ServerUnchanged
  <2>2. /\ serving'.step = "command" /\ serving'.thread = t /\ serving'.fwmark = mark[call[t].socket]
        /\ staleFwmark' = (call[t].socket \in stale)
    BY <1>1 DEF receive
  <2>3. call[t].socket \in Sockets
    BY <1>1 DEF receive, ProtectInvariant, CallsOK, NoCall
  <2>4. NetIdOK(mark[call[t].socket], call[t].socket \in forUser, call[t].socket \in stale)
    BY <2>3 DEF MarksOK
  <2>5. Acting(serving.step)' = (call[t].socket \in forUser)
    BY <2>1, <2>2 DEF Acting, command
  <2>6. /\ NetworksOK'
        /\ \A n : (Known(n)' <=> Known(n)) /\ (isVirtualNetwork(n)' <=> isVirtualNetwork(n))
                  /\ (SecureVpn(n)' <=> SecureVpn(n))
    BY <2>1, SameNetworks
  <2>7. NetIdOK(serving.fwmark, Acting(serving.step), staleFwmark)'
    BY <2>2, <2>4, <2>5, <2>6 DEF NetIdOK
  <2>8. \A s \in Sockets : NetIdOK(mark[s], s \in forUser, s \in stale)'
    BY <2>1, <2>6 DEF NetIdOK, MarksOK
  <2> QED
    BY <2>2, <2>6, <2>7, <2>8 DEF MarksOK
<1>2. ASSUME serving.step # "none"
      PROVE  serving # Nothing /\ IsMark(f) /\ NetIdOK(f, Acting(serving.step), staleFwmark)
  BY <1>2 DEF Nothing, ProtectInvariant, ServingOK, MarksOK
<1>3. CASE onAccept
  <2>1. NetIdOK(f, Acting("set"), staleFwmark)
    BY <1>2, <1>3 DEF onAccept, Asked, NetIdOK, Acting
  <2> QED
    BY <1>2, <1>3, <2>1, AskNetIds DEF onAccept, Asked
<1>4. CASE onConnect
  <2>1. serving.step = "command"
    BY <1>4 DEF onConnect, Asked
  <2>2. NetIdOK(f, Acting("set"), staleFwmark) /\ NetIdOK(f, Acting("default"), staleFwmark)
    BY <1>2, <2>1 DEF NetIdOK, Acting
  <2>3. CASE ~f.explicitlySelected /\ ~f.protectedFromVpn
    <3> DEFINE m == [f EXCEPT !.netId = getNetworkForConnect(client)]
    <3>1. m.netId = getNetworkForConnect(client) /\ ~m.protectedFromVpn
      BY <1>2, <2>1, <2>3 DEF IsMark, Mark
    <3>2. Choose("set", m, serving.permission)
      BY <1>4, <2>3 DEF onConnect
    <3> HIDE DEF m
    <3>3. NetIdOK(m, Acting("set"), FALSE)
      BY <3>1, ConnectIsNotSecure DEF NetIdOK
    <3> QED
      BY <1>2, <2>1, <3>2, <3>3, ChooseNetIds
  <2>4. CASE f.explicitlySelected \/ f.protectedFromVpn
    <3>1. Ask("set", f, serving.permission) \/ Ask("default", f, serving.permission)
      BY <1>4, <2>4 DEF onConnect
    <3> QED
      BY <1>2, <2>1, <2>2, <3>1, AskNetIds
  <2> QED
    BY <2>3, <2>4
<1>5. CASE Refuse /\ serving.step # "none"
  <2>1. UNCHANGED <<mark, forUser, stale>> /\ Answer("error")
    BY <1>5 DEF Refuse
  <2> QED
    BY <2>1, AnswerNetIds DEF MarksOK
<1>6. CASE selectNetwork
  <2>1. serving.step = "command"
    BY <1>6 DEF selectNetwork, Asked
  <2>2. CASE command.netId = NETID_UNSET
    <3>1. NetIdOK(NoMark, Acting("set"), FALSE)
      BY NewMarkOK DEF NetworksOK, SecureVpn, isVirtualNetwork, Nets!Exists, NetIdOK
    <3> QED
      BY <1>2, <1>6, <2>1, <2>2, <3>1, ChooseNetIds DEF selectNetwork
  <2>3. CASE command.netId # NETID_UNSET
    <3> DEFINE m == [f EXCEPT !.netId = command.netId, !.explicitlySelected = TRUE]
    <3>1. PICK access \in checkUserNetworkAccess(client, command.netId) :
            IF access THEN Choose("canProtect", m, serving.permission) ELSE Refuse
      BY <1>6, <2>3 DEF selectNetwork
    <3>2. command.netId \in DOMAIN mNetworks \/ ~access
      BY <3>1 DEF checkUserNetworkAccess
    <3>3. m.netId = command.netId /\ m.explicitlySelected
      BY <1>2, <2>1 DEF IsMark, Mark
    <3> HIDE DEF m
    <3>4. command.netId \in DOMAIN mNetworks => NetIdOK(m, Acting("canProtect"), FALSE)
      BY <3>3 DEF NetIdOK, Known, NetworksOK
    <3> QED
      BY <1>2, <1>5, <2>1, <3>1, <3>2, <3>3, <3>4, ChooseNetIds
  <2> QED
    BY <2>2, <2>3
<1>7. CASE selectNetworkProtect
  <2> DEFINE m == [f EXCEPT !.protectedFromVpn = canProtect(client)]
  <2>1. serving.step = "canProtect" /\ Ask("set", m, serving.permission)
    BY <1>7 DEF selectNetworkProtect, Asked
  <2>2. m.netId = f.netId /\ m.explicitlySelected
    BY <1>2, <2>1 DEF IsMark, Mark, MarksOK
  <2> HIDE DEF m
  <2>3. NetIdOK(m, Acting("set"), staleFwmark)
    BY <1>2, <2>1, <2>2 DEF NetIdOK
  <2> QED
    BY <1>2, <2>1, <2>3, AskNetIds
<1>8. CASE protectFromVpn
  <2>1. serving.step = "command"
    BY <1>8 DEF protectFromVpn, Asked
  <2>2. NetIdOK(f, Acting("isVirtual"), staleFwmark)
    BY <1>2, <2>1 DEF NetIdOK, Acting
  <2> QED
    BY <1>2, <1>5, <1>8, <2>1, <2>2, AskNetIds DEF protectFromVpn
<1>9. CASE protectCheckNetwork
  <2> DEFINE m == [f EXCEPT !.protectedFromVpn = TRUE]
  <2>1. serving.step = "isVirtual"
    BY <1>9 DEF protectCheckNetwork, Asked
  <2>2. m.netId = f.netId /\ m.explicitlySelected = f.explicitlySelected /\ m.protectedFromVpn
    BY <1>2, <2>1 DEF IsMark, Mark
  <2>3. PICK step, permission :
          /\ step \in {"set", "default"} /\ Ask(step, m, permission)
          /\ step = "set" => f.explicitlySelected \/ ~isVirtualNetwork(f.netId)
    BY <1>9 DEF protectCheckNetwork
  <2> HIDE DEF m
  <2>4. NetIdOK(m, Acting(step), staleFwmark)
    BY <1>2, <2>1, <2>2, <2>3 DEF NetIdOK, Acting
  <2> QED
    BY <1>2, <2>1, <2>3, <2>4, AskNetIds
<1>10. CASE useDefaultNetwork
  <2> DEFINE m == [f EXCEPT !.netId = mDefaultNetId]
  <2>1. serving.step = "default" /\ Choose("set", m, serving.permission)
    BY <1>10 DEF useDefaultNetwork
  <2>2. m.netId = mDefaultNetId
    BY <1>2, <2>1 DEF IsMark, Mark
  <2> HIDE DEF m
  <2>3. NetIdOK(m, Acting("set"), FALSE)
    BY <2>2, DefaultIsNoVpn DEF NetIdOK
  <2> QED
    BY <1>2, <2>1, <2>3, ChooseNetIds
<1>11. CASE selectForUser
  <2> DEFINE m == [f EXCEPT !.netId = getNetworkForUser(command.uid), !.protectedFromVpn = TRUE]
  <2>1. serving.step = "command" /\ command.cmdId = "SELECT_FOR_USER"
    BY <1>11 DEF selectForUser, Asked
  <2>2. m.netId = getNetworkForUser(command.uid) /\ m.protectedFromVpn
    BY <1>2, <2>1 DEF IsMark, Mark
  <2>3. Choose("set", m, serving.permission) \/ Refuse
    BY <1>11 DEF selectForUser
  <2> HIDE DEF m
  <2>4. NetIdOK(m, Acting("set"), FALSE)
    BY <2>1, <2>2, ConnectIsNotSecure DEF NetIdOK, Acting
  <2> QED
    BY <1>2, <1>5, <2>1, <2>3, <2>4, ChooseNetIds
<1>12. CASE setMark
  <2> DEFINE m == [f EXCEPT !.permission = serving.permission]
             s == command.socket
  <2>1. serving.step = "set" /\ Answer("ok") /\ mark' = [mark EXCEPT ![s] = m]
    BY <1>12 DEF setMark
  <2>2. m.netId = f.netId /\ m.explicitlySelected = f.explicitlySelected /\ m.protectedFromVpn = f.protectedFromVpn
    BY <1>2, <2>1 DEF IsMark, Mark
  <2>3. /\ forUser \subseteq forUser' /\ (command.cmdId = "SELECT_FOR_USER" => s \in forUser')
        /\ staleFwmark => s \in stale'
        /\ \A r \in Sockets : r # s => (r \in stale <=> r \in stale')
    BY <1>12 DEF setMark
  <2>4. s \in Sockets
    BY <1>2, <2>1 DEF ProtectInvariant, ServingOK, CallsOK, NoCall, command
  <2> HIDE DEF m, s
  <2>5. mark'[s] = m /\ \A r \in Sockets : r # s => mark'[r] = mark[r]
    BY <2>1, <2>4 DEF ProtectInvariant, SocketsOK
  <2>6. NetIdOK(m, s \in forUser', s \in stale')
    BY <1>2, <2>1, <2>2, <2>3 DEF NetIdOK, Acting, s
  <2>7. \A r \in Sockets : NetIdOK(mark'[r], r \in forUser', r \in stale')
    BY <2>3, <2>5, <2>6 DEF MarksOK, NetIdOK
  <2> QED
    BY <2>1, <2>7, AnswerNetIds
<1> QED
  BY <1>1, <1>3, <1>4, <1>6, <1>7, <1>8, <1>9, <1>10, <1>11, <1>12 DEF ServerStep

\* netd starts with the invariant, and every step preserves it.
LEMMA NetIdInductive ==
    (Init => NetIdInvariant) /\ (NetIdInvariant /\ [Next]_vars => NetIdInvariant')
<1>1. Init => NetIdInvariant
  <2> SUFFICES ASSUME Init PROVE NetIdInvariant
    OBVIOUS
  <2>1. mNetworks = [n \in {LOCAL_NET_ID} |-> Nets!LocalNetwork] /\ mDefaultNetId = NETID_UNSET
    BY DEF Init, Nets!Init, Nets!LOCAL_NET_ID, LOCAL_NET_ID, Nets!NETID_UNSET, NETID_UNSET
  <2>2. {"type", "mSecure"} \subseteq DOMAIN Nets!LocalNetwork
    BY DEF Nets!LocalNetwork
  <2>3. NetworksOK
    BY <2>1, <2>2 DEF NetworksOK, LOCAL_NET_ID, NETID_UNSET
  <2>4. NetIdOK(NoMark, FALSE, FALSE)
    BY <2>3, NewMarkOK DEF NetworksOK, SecureVpn, isVirtualNetwork, Nets!Exists
  <2>5. MarksOK
    BY <2>4 DEF Init, MarksOK, NetIdOK, Nothing
  <2> QED
    BY <2>3, <2>5, ProtectInductive DEF NetIdInvariant
<1>2. NetIdInvariant /\ [Next]_vars => NetIdInvariant'
  <2> SUFFICES ASSUME NetIdInvariant, [Next]_vars PROVE NetworksOK' /\ MarksOK'
    BY ProtectInductive DEF NetIdInvariant
  <2> NetworksOK /\ MarksOK
    BY DEF NetIdInvariant
  <2>1. CASE UNCHANGED vars \/ UsersChange \/ Start
    <3>1. UNCHANGED <<networks, mark, forUser, stale, serving, staleFwmark, call>>
      BY <2>1 DEF vars, UsersChange, Start, sockets, server
    <3>2. UNCHANGED command
      BY <3>1 DEF command
    <3> QED
      BY <3>1, <3>2, SocketStep
  <2>2. CASE NetworksChange
    <3>1. UNCHANGED <<serving, call>> /\ MarksGrowStale
      BY <2>2 DEF NetworksChange
    <3> QED
      BY <2>2, <3>1, NetworksStep, MarksStay
  <2>3. CASE Crash
    <3>1. MarksGrowStale /\ serving' = Nothing
      BY <2>3 DEF Crash
    <3> QED
      BY <2>3, <3>1, RestartStep, MarksStay
  <2> QED
    BY <2>1, <2>2, <2>3, ClientNetIds, ReturnNetIds, ServerNetIds DEF Next
<1> QED
  BY <1>1, <1>2

\* For any threads, sockets and networks, whatever netIds are used again and whenever
\* netd dies: a socket whose network is still there does not carry the netId of a secure
\* VPN that nobody selected for it, though the server may set a netId long after it has
\* asked for it.
THEOREM ImplicitVpnIsBypassableAlways == Spec => []ImplicitVpnIsBypassable
<1>1. NetIdInvariant => ImplicitVpnIsBypassable
  BY DEF NetIdInvariant, MarksOK, NetIdOK, ImplicitVpnIsBypassable, SecureVpn
<1> QED
  BY <1>1, NetIdInductive, PTL DEF Spec

\* And the protected socket of a VPN provider does not carry the netId of a VPN, unless
\* the network it was marked for has gone, whatever changed between the question of
\* protectFromVpn whether its netId is that of a VPN and the question for the default
\* network.
THEOREM ProviderLeavesVpnAlways == Spec => []ProviderLeavesVpn
<1>1. NetIdInvariant => ProviderLeavesVpn
  BY DEF NetIdInvariant, MarksOK, NetIdOK, ProviderLeavesVpn
<1> QED
  BY <1>1, NetIdInductive, PTL DEF Spec
=============================================================================
