------------------------ MODULE MDnsSdListenerProofs ------------------------
(***************************************************************************)
(* For any ids, requests and elements, and any size of the poll arrays and *)
(* of the control socket: what the monitor polls stays in the list, fits   *)
(* in the arrays and is what it should poll.                               *)
(***************************************************************************)
EXTENDS MDnsSdListener, FiniteSetTheorems, TLAPS

\* What a command knows of the element it works on: only it adds elements, only
\* one at a time, so no id is in the list twice.
CommandOK ==
    /\ \A e, f \in mHead : elem[e].mId = elem[f].mId => e = f
    /\ command.pc = "allocate" => Found(command.id) = {}
    /\ command.pc \in {"call", "start"} =>
        /\ command.elem \in mHead
        /\ elem[command.elem].mId = command.id /\ elem[command.elem].mReady = 0

\* mLiveCount is what it should be but for the requests that were not live.
CountOK == mLiveCount = Cardinality(Ready) - lost

\* Until a request is stopped twice, the monitor polls elements of the list that
\* were ready once; what it was told about the control socket is still true.
PollOK ==
    /\ ~repeated => \A e \in mPollRefs : e \in mHead /\ elem[e].mReady # 0
    /\ monitor.pc = "results" => monitor.revents \subseteq mPollRefs
    /\ monitor.pc = "results" /\ monitor.control => ctrl > 0

EventOK ==
    ~repeated /\ monitor.pc = "results" /\ monitor.event # NoEvent =>
        \E e \in mPollRefs : elem[e].mId = monitor.event.id /\ monitor.event.code \in Callback(elem[e].kind)

\* The inductive invariant.
ListInvariant ==
    TypeOK /\ CommandOK /\ CountOK /\ PollOK /\ EventOK /\ PollArraysFit /\ MonitorCatchesUp

-----------------------------------------------------------------------------
\* A new element, and the contents of one that was deleted, are typed.
LEMMA ElementTyped ==
    /\ \A id \in Ids, kind \in Kinds : Element(id, kind) \in Contents
    /\ Garbage \in Contents /\ Garbage.mReady = 0
<1>1. (CHOOSE i \in Ids : TRUE) \in Ids
  BY MDnsSdListenerAssumption
<1> QED
  BY <1>1 DEF Element, Garbage, Contents, Kinds

\* Any set of elements is finite, and the ready ones are elements.
LEMMA ReadyFinite ==
    ASSUME TypeOK
    PROVE  /\ Ready \subseteq Elements /\ IsFiniteSet(Ready) /\ Cardinality(Ready) \in Nat
           /\ IsFiniteSet(mPollRefs) /\ Cardinality(mPollRefs) \in Nat
<1>1. IsFiniteSet(Elements)
  BY MDnsSdListenerAssumption
<1>2. Ready \subseteq Elements /\ mPollRefs \subseteq Elements
  BY DEF TypeOK, Ready
<1> QED
  BY <1>1, <1>2, FS_Subset, FS_CardinalityType

\* The constructors establish the invariant.
LEMMA ListInit == Init => ListInvariant
<1> SUFFICES ASSUME Init PROVE ListInvariant
  OBVIOUS
<1>1. TypeOK
  <2>1. mHead \subseteq Elements /\ elem \in [Elements -> Contents]
    BY ElementTyped DEF Init
  <2>2. /\ mLiveCount \in Int /\ lost \in Nat /\ mPollRefs \subseteq Elements /\ mPollSize \in Nat
        /\ ctrl \in 0 .. CtrlCapacity
    BY MDnsSdListenerAssumption DEF Init
  <2>3. command \in CommandType /\ monitor \in MonitorType
    BY DEF Init, CommandType, MonitorType
  <2>4. mHeadMutex = "none" /\ command.pc = "idle"
    BY DEF Init, Idle
  <2>5. mdnsd \in BOOLEAN /\ repeated \in BOOLEAN
    BY Zenon DEF Init
  <2> QED
    BY <2>1, <2>2, <2>3, <2>4, <2>5 DEF TypeOK
<1>2. Ready = {} /\ mPollRefs = {}
  BY DEF Init, Ready
<1>3. CountOK /\ PollArraysFit
  BY <1>2, FS_EmptySet, MDnsSdListenerAssumption DEF Init, CountOK, PollArraysFit
<1>4. CommandOK /\ PollOK /\ EventOK
  BY DEF Init, CommandOK, PollOK, EventOK, Idle, Polling
<1>5. MonitorCatchesUp
  BY <1>2 DEF Init, MonitorCatchesUp
<1> QED
  BY <1>1, <1>3, <1>4, <1>5 DEF ListInvariant
-----------------------------------------------------------------------------
\* The ready elements and those with an id depend on the list only.
LEMMA SameList ==
    ASSUME UNCHANGED <<mHead, elem>>
    PROVE  Ready' = Ready /\ \A id : Found(id)' = Found(id)
BY DEF Ready, Found

\* A step of the listener that leaves the list alone, and wakes the monitor if it
\* was to: lookup, the service commands, the writes to the control socket.
LEMMA QuietStep ==
    ASSUME ListInvariant, UNCHANGED <<list, poll, monitor>>, TypeOK', CommandOK', ctrl' >= ctrl,
           command.pc \in {"write", "writeLocked"} => ctrl' > 0
    PROVE  ListInvariant'
<1>1. UNCHANGED <<mHead, elem, mLiveCount, lost, repeated, mPollRefs, mPollSize, monitor>>
  BY DEF list, poll
<1>2. Ready' = Ready
  BY <1>1, SameList
<1>3. ctrl \in Nat /\ ctrl' \in Nat
  BY MDnsSdListenerAssumption DEF ListInvariant, TypeOK
<1>4. CountOK' /\ PollArraysFit'
  BY <1>1, <1>2 DEF ListInvariant, CountOK, PollArraysFit
<1>5. PollOK'
  BY <1>1, <1>3 DEF ListInvariant, PollOK
<1>6. EventOK'
  BY <1>1 DEF ListInvariant, EventOK
<1>7. MonitorCatchesUp'
  BY <1>1, <1>2, <1>3 DEF ListInvariant, MonitorCatchesUp
<1> QED
  BY <1>4, <1>5, <1>6, <1>7 DEF ListInvariant

\* allocateServiceRef looks for the id, any command that finds it in use answers.
LEMMA LookupStep ==
    ASSUME ListInvariant, NEW kind \in Kinds, NEW id \in Ids, lookup(kind, id)
    PROVE  ListInvariant'
<1>1. UNCHANGED <<mHead, elem>> /\ UNCHANGED <<list, poll, monitor, ctrl, mHeadMutex, mdnsd>>
  BY DEF lookup, list
<1>2. command.pc = "idle" /\ mHeadMutex = "none"
  BY DEF lookup, Idle
<1>3. \/ command' = Idle
      \/ command' = [pc |-> "allocate", id |-> id, kind |-> kind] /\ Found(id) = {}
  BY DEF lookup, Answer
<1>4. command' \in CommandType /\ command'.pc \in {"idle", "allocate"}
  BY <1>3 DEF CommandType, Idle
<1>5. TypeOK'
  BY <1>1, <1>2, <1>4 DEF ListInvariant, TypeOK, list, poll
<1>6. CommandOK'
  BY <1>1, <1>3, SameList DEF ListInvariant, CommandOK, Idle
<1>7. ctrl \in Nat
  BY MDnsSdListenerAssumption DEF ListInvariant, TypeOK
<1> QED
  BY <1>1, <1>2, <1>5, <1>6, <1>7, QuietStep

\* The first half of stop finds the element, or answers.
LEMMA StopStep ==
    ASSUME ListInvariant, NEW id \in Ids, stop(id), command = Idle
    PROVE  ListInvariant'
<1>1. UNCHANGED <<mHead, elem>> /\ UNCHANGED <<list, poll, monitor, ctrl, mHeadMutex, mdnsd>>
  BY DEF stop, Idle, list
<1>2. command.pc = "idle" /\ mHeadMutex = "none"
  BY DEF stop, Idle
<1>3. \/ command' = Idle
      \/ \E e \in Found(id) : command' = [pc |-> "deallocate", id |-> id, kind |-> elem[e].kind, elem |-> e]
  BY DEF stop, Answer, Idle
<1>4. command' \in CommandType /\ command'.pc \in {"idle", "deallocate"}
  BY <1>3 DEF CommandType, Idle, Found, ListInvariant, TypeOK, Contents
<1>5. TypeOK'
  BY <1>1, <1>2, <1>4 DEF ListInvariant, TypeOK, list, poll
<1>6. CommandOK'
  BY <1>1, <1>4, SameList DEF ListInvariant, CommandOK
<1>7. ctrl \in Nat
  BY MDnsSdListenerAssumption DEF ListInvariant, TypeOK
<1> QED
  BY <1>1, <1>2, <1>5, <1>6, <1>7, QuietStep

\* The service commands hold the mutex while they wait for the property.
LEMMA ServiceStep ==
    ASSUME ListInvariant, startService \/ stopService
    PROVE  ListInvariant'
<1>1. UNCHANGED <<mHead, elem>> /\ UNCHANGED <<list, poll, monitor, ctrl>>
  BY DEF startService, stopService, Service, wait_for_property, list
<1>2. \/ command = Idle \/ command.pc = "starting" \/ command.pc = "stopping"
  BY Zenon DEF startService, stopService, Service, wait_for_property
<1>3. \/ command' = Idle /\ mHeadMutex' = "none"
      \/ mHeadMutex' = "command" /\ (command' = [pc |-> "starting"] \/ command' = [pc |-> "stopping"])
  BY Zenon DEF startService, stopService, Service, wait_for_property, Answer
<1>4. command' \in CommandType
  BY <1>3 DEF CommandType
<1>5. mHeadMutex' = IF command'.pc \in {"writeLocked", "starting", "stopping"} THEN "command" ELSE "none"
  BY <1>3 DEF Idle
<1>6. mdnsd' \in BOOLEAN
  <2>1. mdnsd \in BOOLEAN
    BY DEF ListInvariant, TypeOK
  <2>2. mdnsd' \in {mdnsd, TRUE} \/ mdnsd' \in {mdnsd, FALSE}
    BY Zenon DEF startService, stopService, Service, wait_for_property
  <2> QED
    BY <2>1, <2>2, Zenon
<1>7. TypeOK'
  BY <1>1, <1>4, <1>5, <1>6 DEF ListInvariant, TypeOK, list, poll
<1>8. CommandOK'
  BY <1>1, <1>3, SameList DEF ListInvariant, CommandOK, Idle
<1>9. ctrl \in Nat
  BY MDnsSdListenerAssumption DEF ListInvariant, TypeOK
<1>10. command.pc \notin {"write", "writeLocked"}
  BY <1>2 DEF Idle
<1> QED
  BY <1>1, <1>7, <1>8, <1>9, <1>10, QuietStep

\* The control socket is written to, with the mutex held or not.
LEMMA WriteStep ==
    ASSUME ListInvariant, command.pc \in {"write", "writeLocked"}, ctrl < CtrlCapacity,
           ctrl' = ctrl + 1, Answer, mHeadMutex' = "none", UNCHANGED <<list, poll, monitor, mdnsd>>
    PROVE  ListInvariant'
<1>1. UNCHANGED <<mHead, elem>>
  BY DEF list
<1>2. ctrl \in Nat /\ CtrlCapacity \in Nat
  BY MDnsSdListenerAssumption DEF ListInvariant, TypeOK
<1>3. command' \in CommandType /\ command'.pc = "idle"
  BY DEF Answer, Idle, CommandType
<1>4. TypeOK'
  BY <1>1, <1>2, <1>3 DEF ListInvariant, TypeOK, list, poll
<1>5. CommandOK'
  BY <1>1, <1>3, SameList DEF ListInvariant, CommandOK
<1> QED
  BY <1>2, <1>4, <1>5, QuietStep

\* Only the reference of an element changes: the list is the same otherwise.
LEMMA SameButRef ==
    ASSUME TypeOK, NEW x \in Elements, NEW r \in {"open", "deallocated"},
           mHead' = mHead, elem' = [elem EXCEPT ![x].mRef = r]
    PROVE  /\ elem' \in [Elements -> Contents]
           /\ \A e \in Elements : /\ elem'[e].mId = elem[e].mId /\ elem'[e].kind = elem[e].kind
                                  /\ elem'[e].mReady = elem[e].mReady
                                  /\ elem'[e].mRef = IF e = x THEN r ELSE elem[e].mRef
           /\ Ready' = Ready
           /\ \A id : Found(id)' = Found(id)
<1>1. elem \in [Elements -> Contents] /\ mHead \subseteq Elements
  BY DEF TypeOK
<1>2. \A e \in Elements : elem'[e] = IF e = x THEN [elem[x] EXCEPT !.mRef = r] ELSE elem[e]
  BY <1>1
<1>3. /\ elem' \in [Elements -> Contents]
      /\ \A e \in Elements : /\ elem'[e].mId = elem[e].mId /\ elem'[e].kind = elem[e].kind
                             /\ elem'[e].mReady = elem[e].mReady
                             /\ elem'[e].mRef = IF e = x THEN r ELSE elem[e].mRef
  BY <1>1, <1>2 DEF Contents
<1> QED
  BY <1>1, <1>3 DEF Ready, Found

\* A step of the listener that changes the reference of an element, to one that
\* was deallocated or while the monitor does not know the element.
LEMMA RefStep ==
    ASSUME ListInvariant, NEW x \in Elements, NEW r \in {"open", "deallocated"},
           mHead' = mHead, elem' = [elem EXCEPT ![x].mRef = r],
           r = "deallocated" \/ (x \in mHead /\ elem[x].mReady = 0),
           UNCHANGED <<mLiveCount, lost, repeated, poll, ctrl, monitor>>, TypeOK', CommandOK',
           command.pc \notin {"write", "writeLocked"}
    PROVE  ListInvariant'
<1> TypeOK
  BY DEF ListInvariant
<1>1. UNCHANGED <<mPollRefs, mPollSize>>
  BY DEF poll
<1>2. CountOK' /\ PollArraysFit'
  BY <1>1, SameButRef DEF ListInvariant, CountOK, PollArraysFit
<1>3. PollOK'
  BY <1>1, SameButRef DEF ListInvariant, PollOK, TypeOK
<1>4. EventOK'
  BY <1>1, SameButRef DEF ListInvariant, EventOK, TypeOK
<1>5. MonitorCatchesUp'
  BY <1>1, SameButRef DEF ListInvariant, MonitorCatchesUp, TypeOK, PollOK, Ready
<1> QED
  BY <1>2, <1>3, <1>4, <1>5 DEF ListInvariant

\* The second half of stop deallocates the reference without the mutex.
LEMMA DeallocateStep ==
    ASSUME ListInvariant, NEW id \in Ids, stop(id), command # Idle
    PROVE  ListInvariant'
<1> TypeOK /\ CommandOK
  BY DEF ListInvariant
<1>1. /\ command.pc = "deallocate"
      /\ elem' = IF command.elem \in mHead THEN [elem EXCEPT ![command.elem].mRef = "deallocated"] ELSE elem
      /\ Then("free")
      /\ UNCHANGED <<mHead, mLiveCount, lost, repeated, poll, mHeadMutex, ctrl, monitor, mdnsd>>
  BY DEF stop
<1>2. command.elem \in Elements /\ command.id \in Ids /\ command.kind \in Kinds
  BY <1>1 DEF TypeOK, CommandType, Idle
<1>3. command' \in CommandType /\ command'.pc = "free"
  BY <1>1 DEF TypeOK, CommandType, Then, Idle
<1>4. CASE command.elem \in mHead
  <2>1. elem' = [elem EXCEPT ![command.elem].mRef = "deallocated"] /\ mHead' = mHead
    BY <1>1, <1>4
  <2>2. TypeOK'
    BY <1>1, <1>2, <1>3, <2>1, SameButRef DEF TypeOK, poll
  <2>3. CommandOK'
    BY <1>2, <1>3, <2>1, SameButRef DEF CommandOK, TypeOK
  <2> QED
    BY <1>1, <1>2, <2>1, <2>2, <2>3, RefStep
<1>5. CASE command.elem \notin mHead
  <2>1. UNCHANGED <<mHead, elem>> /\ UNCHANGED list
    BY <1>1, <1>5 DEF list
  <2>2. TypeOK'
    BY <1>1, <1>3, <2>1 DEF TypeOK, poll
  <2>3. CommandOK'
    BY <1>3, <2>1, SameList DEF CommandOK
  <2>4. ctrl \in Nat
    BY MDnsSdListenerAssumption DEF TypeOK
  <2> QED
    BY <1>1, <2>1, <2>2, <2>3, <2>4, QuietStep
<1> QED
  BY <1>4, <1>5

\* The DNSService call makes the reference of the new element, or fails.
LEMMA CallStep ==
    ASSUME ListInvariant, NEW kind \in Kinds, DNSServiceCall(kind)
    PROVE  ListInvariant'
<1> TypeOK /\ CommandOK
  BY DEF ListInvariant
<1>1. /\ command.pc = "call"
      /\ UNCHANGED <<mHead, mLiveCount, lost, repeated, poll, mHeadMutex, ctrl, monitor, mdnsd>>
  BY DEF DNSServiceCall
<1>2. command.elem \in Elements
  BY <1>1 DEF TypeOK, CommandType, Idle
<1>3. CASE elem' = [elem EXCEPT ![command.elem].mRef = "open"] /\ Then("start")
  <2>1. command' \in CommandType /\ command'.pc = "start" /\ command'.elem = command.elem /\ command'.id = command.id
    BY <1>1, <1>3 DEF TypeOK, CommandType, Then, Idle
  <2>2. TypeOK'
    BY <1>1, <1>2, <1>3, <2>1, SameButRef DEF TypeOK, poll
  <2>3. CommandOK'
    BY <1>1, <1>2, <1>3, <2>1, SameButRef DEF CommandOK, TypeOK
  <2> QED
    BY <1>1, <1>2, <1>3, <2>2, <2>3, RefStep DEF CommandOK
<1>4. CASE Then("free") /\ UNCHANGED elem
  <2>1. UNCHANGED <<mHead, elem>> /\ UNCHANGED list
    BY <1>1, <1>4 DEF list
  <2>2. command' \in CommandType /\ command'.pc = "free"
    BY <1>1, <1>4 DEF TypeOK, CommandType, Then, Idle
  <2>3. TypeOK'
    BY <1>1, <2>1, <2>2 DEF TypeOK, poll
  <2>4. CommandOK'
    BY <2>1, <2>2, SameList DEF CommandOK
  <2>5. ctrl \in Nat
    BY MDnsSdListenerAssumption DEF TypeOK
  <2> QED
    BY <1>1, <2>1, <2>3, <2>4, <2>5, QuietStep
<1> QED
  BY <1>3, <1>4 DEF DNSServiceCall
-----------------------------------------------------------------------------
\* allocateServiceRef adds an element that is not ready, at an address that
\* nobody polls, with an id that is not in the list.
LEMMA AllocateStep ==
    ASSUME ListInvariant, allocateServiceRef
    PROVE  ListInvariant'
<1> TypeOK /\ CommandOK /\ PollOK
  BY DEF ListInvariant
<1>1. PICK x \in Elements \ mHead :
        /\ mHead' = mHead \cup {x}
        /\ elem' = [elem EXCEPT ![x] = Element(command.id, command.kind)]
        /\ command' = [pc |-> "call", id |-> command.id, kind |-> command.kind, elem |-> x]
  BY DEF allocateServiceRef
<1>2. /\ command.pc = "allocate" /\ mHeadMutex = "none" /\ Found(command.id) = {}
      /\ UNCHANGED <<mLiveCount, lost, repeated, mPollRefs, mPollSize, mHeadMutex, ctrl, monitor, mdnsd>>
  BY DEF allocateServiceRef, CommandOK, poll
<1>3. command.id \in Ids /\ command.kind \in Kinds
  BY <1>2 DEF TypeOK, CommandType, Idle
<1>4. command' \in CommandType /\ command'.pc = "call"
  BY <1>1, <1>3 DEF CommandType
<1>5. elem \in [Elements -> Contents] /\ mHead \subseteq Elements
  BY DEF TypeOK
<1>6. /\ elem' \in [Elements -> Contents]
      /\ elem'[x].mId = command.id /\ elem'[x].mReady = 0
      /\ \A e \in Elements : e # x => elem'[e] = elem[e]
  BY <1>1, <1>3, <1>5, ElementTyped DEF Element
<1>7. Ready' = Ready
  BY <1>1, <1>5, <1>6 DEF Ready
<1>8. TypeOK'
  BY <1>1, <1>2, <1>4, <1>6 DEF TypeOK
<1>9. CommandOK'
  BY <1>1, <1>2, <1>4, <1>5, <1>6 DEF CommandOK, Found
<1>10. CountOK' /\ PollArraysFit'
  BY <1>2, <1>7 DEF ListInvariant, CountOK, PollArraysFit
<1>11. PollOK'
  BY <1>1, <1>2, <1>5, <1>6 DEF PollOK
<1>12. EventOK'
  BY <1>1, <1>2, <1>5, <1>6 DEF ListInvariant, EventOK, PollOK
<1>13. MonitorCatchesUp'
  BY <1>1, <1>2, <1>5, <1>6, <1>7 DEF ListInvariant, MonitorCatchesUp, PollOK, Ready
<1> QED
  BY <1>8, <1>9, <1>10, <1>11, <1>12, <1>13 DEF ListInvariant

\* startMonitoring makes the element ready, then wakes the monitor.
LEMMA StartStep ==
    ASSUME ListInvariant, startMonitoring
    PROVE  ListInvariant'
<1> TypeOK /\ CommandOK /\ PollOK
  BY DEF ListInvariant
<1>1. CASE /\ command.pc = "start" /\ mHeadMutex = "none"
           /\ \E e \in Found(command.id) : elem' = [elem EXCEPT ![e].mReady = 1]
           /\ mLiveCount' = mLiveCount + 1
           /\ Then("write")
           /\ UNCHANGED <<mHead, lost, repeated, poll, mHeadMutex, ctrl, monitor, mdnsd>>
  <2>1. PICK x \in Found(command.id) : elem' = [elem EXCEPT ![x].mReady = 1]
    BY <1>1
  <2>2. elem \in [Elements -> Contents] /\ mHead \subseteq Elements
    BY DEF TypeOK
  <2>3. x \in mHead /\ x \in Elements /\ elem[x].mReady = 0
    BY <1>1, <2>1, <2>2 DEF Found, CommandOK
  <2>4. elem'[x] = [elem[x] EXCEPT !.mReady = 1] /\ \A e \in Elements : e # x => elem'[e] = elem[e]
    BY <2>1, <2>2, <2>3
  <2>5. /\ elem' \in [Elements -> Contents]
        /\ elem'[x].mId = elem[x].mId /\ elem'[x].kind = elem[x].kind /\ elem'[x].mReady = 1
    BY <2>1, <2>2, <2>3, <2>4 DEF Contents
  <2>6. command' \in CommandType /\ command'.pc = "write"
    BY <1>1 DEF TypeOK, CommandType, Then, Idle
  <2>7. TypeOK'
    BY <1>1, <2>5, <2>6 DEF TypeOK, poll
  <2>8. CommandOK'
    BY <1>1, <2>2, <2>4, <2>5, <2>6 DEF CommandOK
  <2>9. Ready' = Ready \cup {x} /\ x \notin Ready
    BY <1>1, <2>2, <2>3, <2>4, <2>5 DEF Ready
  <2>10. Cardinality(Ready') = Cardinality(Ready) + 1
    BY <2>9, ReadyFinite, FS_AddElement
  <2>11. CountOK'
    BY <1>1, <2>10, ReadyFinite DEF ListInvariant, CountOK, TypeOK
  <2>12. PollArraysFit'
    BY <1>1 DEF ListInvariant, PollArraysFit, poll
  <2>13. PollOK'
    BY <1>1, <2>2, <2>4, <2>5 DEF PollOK, poll
  <2>14. EventOK'
    BY <1>1, <2>2, <2>4, <2>5 DEF ListInvariant, EventOK, poll, TypeOK
  <2>15. MonitorCatchesUp'
    BY <2>6 DEF MonitorCatchesUp
  <2> QED
    BY <2>7, <2>8, <2>11, <2>12, <2>13, <2>14, <2>15 DEF ListInvariant
<1>2. CASE /\ command.pc = "write" /\ ctrl < CtrlCapacity
           /\ ctrl' = ctrl + 1
           /\ Answer
           /\ UNCHANGED <<list, poll, mHeadMutex, monitor, mdnsd>>
  <2>1. mHeadMutex' = "none"
    BY <1>2 DEF TypeOK
  <2> QED
    BY <1>2, <2>1, WriteStep
<1> QED
  BY <1>1, <1>2 DEF startMonitoring

\* freeServiceRef leaves a live element to the monitor, and deletes any other.
LEMMA FreeStep ==
    ASSUME ListInvariant, freeServiceRef
    PROVE  ListInvariant'
<1> TypeOK /\ CommandOK /\ PollOK
  BY DEF ListInvariant
<1> elem \in [Elements -> Contents] /\ mHead \subseteq Elements
  BY DEF TypeOK
<1>1. ASSUME command.pc = "free", mHeadMutex = "none", mLiveCount' = mLiveCount - 1,
             NEW x \in Found(command.id), elem[x].mReady = 1,
             elem' = [elem EXCEPT ![x].mReady = -1], mHeadMutex' = "command", Then("writeLocked"),
             UNCHANGED <<mHead, lost, repeated, poll, ctrl, monitor, mdnsd>>
      PROVE  ListInvariant'
  <2>1. x \in mHead /\ x \in Elements
    BY <1>1 DEF Found
  <2>2. elem'[x] = [elem[x] EXCEPT !.mReady = -1] /\ \A e \in Elements : e # x => elem'[e] = elem[e]
    BY <1>1, <2>1
  <2>3. /\ elem' \in [Elements -> Contents]
        /\ elem'[x].mId = elem[x].mId /\ elem'[x].kind = elem[x].kind /\ elem'[x].mReady = -1
    BY <1>1, <2>1, <2>2 DEF Contents
  <2>4. command' \in CommandType /\ command'.pc = "writeLocked"
    BY <1>1 DEF TypeOK, CommandType, Then, Idle
  <2>5. mLiveCount' \in Int /\ UNCHANGED <<mPollRefs, mPollSize>>
    BY <1>1 DEF TypeOK, poll
  <2>6. TypeOK'
    BY <1>1, <2>3, <2>4, <2>5 DEF TypeOK
  <2>7. CommandOK'
    BY <1>1, <2>2, <2>3, <2>4 DEF CommandOK
  <2>8. Ready' = Ready \ {x} /\ x \in Ready
    BY <1>1, <2>1, <2>2, <2>3 DEF Ready
  <2>9. Cardinality(Ready') = Cardinality(Ready) - 1
    BY <2>8, ReadyFinite, FS_RemoveElement
  <2>10. CountOK'
    BY <1>1, <2>9, ReadyFinite DEF ListInvariant, CountOK, TypeOK
  <2>11. PollArraysFit'
    BY <1>1, <2>5 DEF ListInvariant, PollArraysFit
  <2>12. PollOK'
    BY <1>1, <2>2, <2>3, <2>5 DEF PollOK
  <2>13. EventOK'
    BY <1>1, <2>2, <2>3, <2>5 DEF ListInvariant, EventOK, TypeOK
  <2>14. MonitorCatchesUp'
    BY <2>4 DEF MonitorCatchesUp
  <2> QED
    BY <2>6, <2>7, <2>10, <2>11, <2>12, <2>13, <2>14 DEF ListInvariant
<1>2. ASSUME command.pc = "free", mHeadMutex = "none", mLiveCount' = mLiveCount - 1,
             NEW x \in Found(command.id), elem[x].mReady # 1, Delete({x}),
             lost' = lost + 1, repeated' = (repeated \/ elem[x].mReady = -1), Answer,
             UNCHANGED <<mHeadMutex, poll, ctrl, monitor, mdnsd>>
      PROVE  ListInvariant'
  <2>1. x \in mHead /\ x \in Elements
    BY <1>2 DEF Found
  <2>2. /\ mHead' = mHead \ {x} /\ elem' \in [Elements -> Contents] /\ elem'[x].mReady = 0
        /\ \A e \in Elements : e # x => elem'[e] = elem[e]
    BY <1>2, <2>1, ElementTyped DEF Delete
  <2>3. command' \in CommandType /\ command'.pc = "idle"
    BY <1>2 DEF Answer, CommandType, Idle
  <2>4. repeated' \in BOOLEAN /\ (repeated => repeated') /\ (elem[x].mReady = -1 => repeated')
    BY <1>2, Zenon DEF TypeOK
  <2>5. UNCHANGED <<mPollRefs, mPollSize>>
    BY <1>2 DEF poll
  <2>6. TypeOK'
    BY <1>2, <2>2, <2>3, <2>4, <2>5 DEF TypeOK
  <2>7. CommandOK'
    BY <2>2, <2>3 DEF CommandOK
  <2>8. Ready' = Ready /\ x \notin Ready
    BY <1>2, <2>1, <2>2 DEF Ready
  <2>9. CountOK'
    BY <1>2, <2>8, ReadyFinite DEF ListInvariant, CountOK, TypeOK
  <2>10. PollArraysFit'
    BY <1>2, <2>5, ReadyFinite DEF ListInvariant, PollArraysFit, TypeOK
  <2>11. ~repeated' => ~repeated /\ x \notin mPollRefs
    BY <1>2, <2>1, <2>4 DEF PollOK, Contents
  <2>12. PollOK'
    BY <1>2, <2>2, <2>5, <2>11 DEF PollOK
  <2>13. EventOK'
    BY <1>2, <2>2, <2>5, <2>11 DEF ListInvariant, EventOK, TypeOK
  <2>14. MonitorCatchesUp'
    BY <1>2, <2>2, <2>5, <2>8, <2>11 DEF ListInvariant, MonitorCatchesUp, TypeOK
  <2> QED
    BY <2>6, <2>7, <2>9, <2>10, <2>12, <2>13, <2>14 DEF ListInvariant
<1>3. CASE /\ command.pc = "free" /\ mHeadMutex = "none" /\ Found(command.id) = {}
           /\ Answer
           /\ UNCHANGED <<list, poll, mHeadMutex, ctrl, monitor, mdnsd>>
  <2>1. UNCHANGED <<mHead, elem>>
    BY <1>3 DEF list
  <2>2. command' \in CommandType /\ command'.pc = "idle"
    BY <1>3 DEF Answer, CommandType, Idle
  <2>3. TypeOK'
    BY <1>3, <2>2 DEF TypeOK, list, poll
  <2>4. CommandOK'
    BY <2>1, <2>2, SameList DEF CommandOK
  <2>5. ctrl \in Nat
    BY MDnsSdListenerAssumption DEF TypeOK
  <2> QED
    BY <1>3, <2>3, <2>4, <2>5, QuietStep
<1>4. CASE /\ command.pc = "writeLocked" /\ ctrl < CtrlCapacity
           /\ ctrl' = ctrl + 1
           /\ mHeadMutex' = "none"
           /\ Answer
           /\ UNCHANGED <<list, poll, monitor, mdnsd>>
  BY <1>4, WriteStep
<1> QED
  BY <1>1, <1>2, <1>3, <1>4 DEF freeServiceRef
-----------------------------------------------------------------------------
\* The events of each kind of request are typed.
LEMMA CallbackTyped ==
    ASSUME NEW kind \in Kinds, NEW c \in Callback(kind), NEW id \in Ids
    PROVE  [code |-> c, id |-> id] \in EventType
BY DEF EventType

\* A step of the monitor leaves the list and the listener alone, unless it rescans.
LEMMA MonitorStep ==
    ASSUME ListInvariant, pollFds \/ processResult \/ readControl
    PROVE  ListInvariant'
<1> TypeOK /\ CommandOK /\ PollOK
  BY DEF ListInvariant
<1> elem \in [Elements -> Contents] /\ mHead \subseteq Elements /\ ctrl \in 0 .. CtrlCapacity
  BY DEF TypeOK
<1> CtrlCapacity \in Nat
  BY MDnsSdListenerAssumption
<1>1. UNCHANGED <<mHead, elem, mLiveCount, lost, repeated, mPollRefs, mPollSize, mHeadMutex, command, mdnsd>>
  BY DEF pollFds, processResult, readControl, list, poll
<1>2. Ready' = Ready
  BY <1>1, SameList
<1>3. CommandOK'
  BY <1>1, SameList DEF CommandOK
<1>4. CountOK' /\ PollArraysFit'
  BY <1>1, <1>2 DEF ListInvariant, CountOK, PollArraysFit
<1>5. CASE pollFds
  <2>1. PICK revents \in SUBSET mPollRefs :
          monitor' = [pc |-> "results", revents |-> revents, control |-> ctrl > 0, event |-> NoEvent]
    BY <1>5 DEF pollFds
  <2>2. ctrl' = ctrl /\ monitor.pc = "poll"
    BY <1>5 DEF pollFds
  <2>3. monitor' \in MonitorType
    BY <2>1 DEF MonitorType, EventType, TypeOK
  <2>4. TypeOK'
    BY <1>1, <2>2, <2>3 DEF TypeOK
  <2>5. PollOK' /\ EventOK'
    BY <1>1, <2>1, <2>2 DEF PollOK, EventOK
  <2>6. MonitorCatchesUp'
    BY <1>1, <1>2, <2>2 DEF ListInvariant, MonitorCatchesUp
  <2> QED
    BY <1>3, <1>4, <2>4, <2>5, <2>6 DEF ListInvariant
<1>6. CASE processResult
  <2>1. PICK e \in monitor.revents :
          \E event \in {NoEvent} \cup { [code |-> c, id |-> elem[e].mId] : c \in Callback(elem[e].kind) } :
             monitor' = [monitor EXCEPT !.revents = @ \ {e}, !.event = event]
    BY <1>6 DEF processResult
  <2>2. PICK event \in {NoEvent} \cup { [code |-> c, id |-> elem[e].mId] : c \in Callback(elem[e].kind) } :
             monitor' = [monitor EXCEPT !.revents = @ \ {e}, !.event = event]
    BY <2>1
  <2>3. ctrl' = ctrl /\ monitor.pc = "results"
    BY <1>6 DEF processResult
  <2>4. /\ monitor \in [pc : {"results"}, revents : SUBSET Elements, control : BOOLEAN, event : EventType]
        /\ e \in mPollRefs /\ e \in Elements
    BY <2>3 DEF TypeOK, MonitorType, Polling, PollOK
  <2>5. event \in EventType
    BY <2>4, CallbackTyped DEF EventType, Contents
  <2>6. /\ monitor'.pc = "results" /\ monitor'.revents = monitor.revents \ {e}
        /\ monitor'.control = monitor.control /\ monitor'.event = event
    BY <2>2, <2>4
  <2>7. monitor' \in MonitorType
    BY <2>2, <2>4, <2>5 DEF MonitorType
  <2>8. TypeOK'
    BY <1>1, <2>3, <2>7 DEF TypeOK
  <2>9. PollOK'
    BY <1>1, <2>3, <2>6 DEF PollOK
  <2>10. event # NoEvent => event.id = elem[e].mId /\ event.code \in Callback(elem[e].kind)
    OBVIOUS
  <2>11. EventOK'
    BY <1>1, <2>4, <2>6, <2>10 DEF EventOK
  <2>12. MonitorCatchesUp'
    BY <1>1, <1>2, <2>3, <2>6 DEF ListInvariant, MonitorCatchesUp
  <2> QED
    BY <1>3, <1>4, <2>8, <2>9, <2>11, <2>12 DEF ListInvariant
<1>7. CASE readControl
  <2>1. monitor.pc = "results" /\ monitor \in [pc : {"results"}, revents : SUBSET Elements, control : BOOLEAN, event : EventType]
    BY <1>7 DEF readControl, TypeOK, MonitorType, Polling
  <2>2. CASE monitor.control
    <3>1. ctrl' = ctrl - 1 /\ monitor' = [pc |-> "rescan"] /\ ctrl > 0
      BY <1>7, <2>1, <2>2 DEF readControl, PollOK
    <3>2. TypeOK'
      BY <1>1, <3>1 DEF TypeOK, MonitorType
    <3>3. PollOK' /\ EventOK' /\ MonitorCatchesUp'
      BY <1>1, <3>1 DEF PollOK, EventOK, MonitorCatchesUp
    <3> QED
      BY <1>3, <1>4, <3>2, <3>3 DEF ListInvariant
  <2>3. CASE ~monitor.control
    <3>1. ctrl' = ctrl /\ monitor' = Polling
      BY <1>7, <2>3 DEF readControl
    <3>2. TypeOK'
      BY <1>1, <3>1 DEF TypeOK, MonitorType
    <3>3. PollOK' /\ EventOK'
      BY <1>1, <3>1 DEF PollOK, EventOK, Polling
    <3>4. MonitorCatchesUp'
      BY <1>1, <1>2, <2>1, <3>1 DEF ListInvariant, MonitorCatchesUp
    <3> QED
      BY <1>3, <1>4, <3>2, <3>3, <3>4 DEF ListInvariant
  <2> QED
    BY <2>2, <2>3
<1> QED
  BY <1>5, <1>6, <1>7

\* rescan makes room for more entries than mLiveCount tells, deletes only elements
\* that were freed, and polls the ready ones.
LEMMA RescanStep ==
    ASSUME ListInvariant, rescan
    PROVE  ListInvariant'
<1> TypeOK /\ CommandOK /\ PollOK
  BY DEF ListInvariant
<1> elem \in [Elements -> Contents] /\ mHead \subseteq Elements
  BY DEF TypeOK
<1> DEFINE freed == { e \in mHead : elem[e].mReady = -1 }
<1>1. /\ mHead' = mHead \ freed
      /\ elem' = [e \in Elements |-> IF e \in freed THEN Garbage ELSE elem[e]]
  BY DEF rescan, Delete
<1>2. /\ monitor' = Polling /\ mHeadMutex = "none"
      /\ UNCHANGED <<mLiveCount, lost, repeated, mHeadMutex, ctrl, command, mdnsd>>
  BY DEF rescan
<1>3. PICK noFd \in SUBSET { e \in Ready : elem[e].mRef = "deallocated" } : mPollRefs' = Ready \ noFd
  BY DEF rescan
<1>4. mPollSize' \in Nat /\ mPollSize' > mLiveCount
  BY MDnsSdListenerAssumption DEF rescan, TypeOK
<1>5. /\ elem' \in [Elements -> Contents]
      /\ \A e \in Elements \ freed : elem'[e] = elem[e]
  BY <1>1, ElementTyped
<1>6. mHead' \subseteq Elements /\ \A e \in mHead' : elem'[e] = elem[e] /\ elem[e].mReady # -1
  BY <1>1, <1>5
<1>7. Ready' = Ready
  BY <1>1, <1>5, <1>6 DEF Ready
<1>8. mPollRefs' \subseteq Ready /\ mPollRefs' \subseteq mHead' /\ Ready \subseteq Elements
  BY <1>1, <1>3 DEF Ready
<1>9. monitor' \in MonitorType /\ monitor'.pc = "poll"
  BY <1>2 DEF MonitorType, Polling
<1>10. TypeOK'
  BY <1>2, <1>4, <1>5, <1>6, <1>8, <1>9 DEF TypeOK
<1>11. CommandOK'
  BY <1>1, <1>2, <1>6 DEF CommandOK, Found
<1>12. CountOK'
  BY <1>2, <1>7 DEF ListInvariant, CountOK
<1>13. Cardinality(mPollRefs') <= Cardinality(Ready) /\ Cardinality(mPollRefs') \in Nat
  BY <1>8, ReadyFinite, FS_Subset, FS_CardinalityType
<1>14. PollArraysFit'
  BY <1>2, <1>4, <1>13, ReadyFinite DEF ListInvariant, PollArraysFit, CountOK, TypeOK
<1>15. PollOK' /\ EventOK'
  BY <1>6, <1>8, <1>9 DEF PollOK, EventOK, Ready
<1>16. MonitorCatchesUp'
  BY <1>3, <1>5, <1>6, <1>7, <1>8 DEF MonitorCatchesUp, Ready
<1> QED
  BY <1>10, <1>11, <1>12, <1>14, <1>15, <1>16 DEF ListInvariant
-----------------------------------------------------------------------------
\* Every step of either thread preserves the invariant.
LEMMA ListNext ==
    ASSUME ListInvariant, [Next]_vars
    PROVE  ListInvariant'
<1>1. CASE runCommand
  <2>1. ASSUME NEW id \in Ids, NEW kind \in Kinds, request(kind, id)
        PROVE  ListInvariant'
    BY <2>1, LookupStep DEF request
  <2>2. ASSUME NEW kind \in Kinds, DNSServiceCall(kind)
        PROVE  ListInvariant'
    BY <2>2, CallStep
  <2>3. ASSUME NEW id \in Ids, stop(id)
        PROVE  ListInvariant'
    BY <2>3, StopStep, DeallocateStep
  <2>4. ASSUME startService \/ stopService
        PROVE  ListInvariant'
    BY <2>4, ServiceStep
  <2>5. CASE \E id \in Ids : \/ discover(id) \/ serviceRegister(id) \/ resolveService(id)
                             \/ getAddrInfo(id) \/ setHostname(id) \/ stop(id)
    BY <2>1, <2>2, <2>3, <2>5
       DEF discover, serviceRegister, resolveService, getAddrInfo, setHostname, Kinds
  <2> QED
    BY <1>1, <2>4, <2>5 DEF runCommand
<1>2. CASE allocateServiceRef \/ startMonitoring \/ freeServiceRef
  BY <1>2, AllocateStep, StartStep, FreeStep
<1>3. CASE run
  BY <1>3, MonitorStep, RescanStep DEF run
<1>4. CASE UNCHANGED vars
  <2>1. UNCHANGED <<mHead, elem, mLiveCount, lost, repeated, mPollRefs, mPollSize,
                    mHeadMutex, ctrl, command, monitor, mdnsd>>
    BY <1>4 DEF vars, list, poll
  <2>2. TypeOK' /\ CommandOK'
    BY <2>1, SameList DEF ListInvariant, TypeOK, CommandOK
  <2>3. CountOK' /\ PollOK' /\ EventOK' /\ PollArraysFit' /\ MonitorCatchesUp'
    BY <2>1, SameList DEF ListInvariant, CountOK, PollOK, EventOK, PollArraysFit, MonitorCatchesUp
  <2> QED
    BY <2>2, <2>3 DEF ListInvariant
<1> QED
  BY <1>1, <1>2, <1>3, <1>4 DEF Next

\* The invariant holds of every run of the two threads.
LEMMA ListAlways == Spec => []ListInvariant
BY ListInit, ListNext, PTL DEF Spec

\* For any requests and any interleaving of the two threads: what the monitor polls
\* is in the list under an id of its own, until a request is stopped twice.
THEOREM PolledElementsStayAlways == Spec => []PolledElementsStay
<1>1. ListInvariant => PolledElementsStay
  <2> SUFFICES ASSUME ListInvariant, ~repeated PROVE PolledElementsStay
    BY DEF PolledElementsStay
  <2>1. \A e \in mPollRefs : e \in mHead
    BY DEF ListInvariant, PollOK
  <2>2. \A e \in mHead : Found(elem[e].mId) = {e}
    BY DEF ListInvariant, CommandOK, Found
  <2> QED
    BY <2>1, <2>2 DEF ListInvariant, EventOK, PolledElementsStay
<1> QED
  BY <1>1, ListAlways, PTL

\* For any initial size and increment of the poll arrays: they are never too small by
\* more than the number of requests that mLiveCount lost.
THEOREM PollArraysFitAlways == Spec => []PollArraysFit
<1>1. ListInvariant => PollArraysFit
  BY DEF ListInvariant
<1> QED
  BY <1>1, ListAlways, PTL

\* For any size of the control socket: startMonitoring and freeServiceRef never leave
\* the monitor with old poll arrays and no byte to wake it.
THEOREM MonitorCatchesUpAlways == Spec => []MonitorCatchesUp
<1>1. ListInvariant => MonitorCatchesUp
  BY DEF ListInvariant
<1> QED
  BY <1>1, ListAlways, PTL
=============================================================================
