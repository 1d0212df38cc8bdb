--------------------------- MODULE MDnsSdListener ---------------------------
(***************************************************************************)
(* MDnsSdListener.cpp: requests to the mDNS daemon and the thread that     *)
(* polls for their results.                                                *)
(*                                                                         *)
(* The thread of the listener runs one command at a time.  It shares with  *)
(* the monitor thread the list of requests (mHead, mLiveCount), guarded by *)
(* mHeadMutex, and a control socket: a byte in it asks the monitor to      *)
(* rescan the list into its poll arrays.  A region that takes the mutex    *)
(* and gives it back without waiting is one step; freeServiceRef writes to *)
(* the control socket, and the service commands wait, while they hold it.  *)
(*                                                                         *)
(* Elements are addresses that are used again.  The order of the list and  *)
(* of the poll arrays does not matter: both are sets.                      *)
(***************************************************************************)
EXTENDS Integers, FiniteSets

CONSTANTS
    Ids,                \* request ids that clients name
    Requests,           \* requests that clients make: pairs of a kind and an id
    Elements,           \* addresses of list elements
    InitialPollSize,    \* 10 in the code
    PollSizeStep,       \* 5 in the code
    CtrlCapacity,       \* how many bytes the control socket buffers
    MaxLost             \* bound: how often mLiveCount is decremented for a request that is not live

Kinds == {"discover", "register", "resolve", "getaddrinfo", "sethostname"}

ASSUME MDnsSdListenerAssumption ==
    /\ Ids # {} /\ Requests \subseteq Kinds \X Ids
    /\ IsFiniteSet(Elements)
    /\ InitialPollSize \in Nat \ {0} /\ PollSizeStep \in Nat \ {0}
    /\ CtrlCapacity \in Nat \ {0} /\ MaxLost \in Nat

VARIABLES
    mHead,              \* the elements in the list
    elem,               \* the contents of each element
    mLiveCount,
    mPollRefs,          \* the elements whose mRef is in mPollRefs[1 .. pollCount - 1]
    mPollSize,          \* entries that mPollFds and mPollRefs have room for
    mHeadMutex,         \* the thread that holds it, or "none"
    ctrl,               \* bytes in the control socket
    command,            \* what the thread of the listener is doing
    monitor,            \* what the monitor thread is doing
    mdnsd,              \* the daemon is running
    lost,               \* how often mLiveCount was decremented for a request that was not live
    repeated            \* a request was stopped that was stopped before

list == <<mHead, elem, mLiveCount, lost, repeated>>
poll == <<mPollRefs, mPollSize>>
vars == <<list, poll, mHeadMutex, ctrl, command, monitor, mdnsd>>

\* The constructor of Element.  mRef is what the DNSService calls made of it.
Element(id, kind) == [mId |-> id, kind |-> kind, mReady |-> 0, mRef |-> "none"]
\* What an element that is not allocated holds.
Garbage == Element(CHOOSE i \in Ids : TRUE, "discover")
Contents == [mId : Ids, kind : Kinds, mReady : {-1, 0, 1}, mRef : {"none", "open", "deallocated"}]
Ready == { e \in mHead : elem[e].mReady = 1 }

Idle == [pc |-> "idle"]
Polling == [pc |-> "poll"]

\* The constructors of MDnsSdListener and Monitor.
Init ==
    /\ mHead = {}
    /\ elem = [e \in Elements |-> Garbage]
    /\ mLiveCount = 0
    /\ mPollRefs = {} /\ mPollSize = InitialPollSize
    /\ mHeadMutex = "none"
    /\ ctrl = 0
    /\ command = Idle
    /\ monitor = Polling
    /\ mdnsd \in BOOLEAN
    /\ lost = 0 /\ repeated = FALSE

Answer == command' = Idle
Then(pc) == command' = [command EXCEPT !.pc = pc]
Delete(es) ==
    /\ mHead' = mHead \ es
    /\ elem' = [e \in Elements |-> IF e \in es THEN Garbage ELSE elem[e]]
Found(id) == { e \in mHead : elem[e].mId = id }
-----------------------------------------------------------------------------
(***************************************************************************)
(* The list: allocateServiceRef, startMonitoring and freeServiceRef.       *)
(***************************************************************************)
\* allocateServiceRef looks the id up and gives the mutex back: in use, an error.
lookup(kind, id) ==
    /\ command = Idle /\ mHeadMutex = "none"
    /\ IF Found(id) # {} THEN Answer
       ELSE command' = [pc |-> "allocate", id |-> id, kind |-> kind]
    /\ UNCHANGED <<list, poll, mHeadMutex, ctrl, monitor, mdnsd>>

\* ... then it takes the mutex again to add the new element.
allocateServiceRef ==
    /\ command.pc = "allocate" /\ mHeadMutex = "none"
    /\ \E e \in Elements \ mHead :
        /\ mHead' = mHead \cup {e}
        /\ elem' = [elem EXCEPT ![e] = Element(command.id, command.kind)]
        /\ command' = [pc |-> "call", id |-> command.id, kind |-> command.kind, elem |-> e]
    /\ UNCHANGED <<mLiveCount, lost, repeated, poll, mHeadMutex, ctrl, monitor, mdnsd>>

\* Faulty variant: the monitor is woken before the element is ready.
BugStartMonitoring ==
    \/ /\ command.pc = "start" /\ ctrl < CtrlCapacity
       /\ ctrl' = ctrl + 1
       /\ Then("write")
       /\ UNCHANGED <<list, poll, mHeadMutex, monitor, mdnsd>>
    \/ /\ command.pc = "write" /\ mHeadMutex = "none"
       /\ \E e \in Found(command.id) : elem' = [elem EXCEPT ![e].mReady = 1]
       /\ mLiveCount' = mLiveCount + 1
       /\ Answer
       /\ UNCHANGED <<mHead, lost, repeated, poll, mHeadMutex, ctrl, monitor, mdnsd>>

\* Makes the element live, and wakes the monitor when it has given the mutex back.
startMonitoring ==
    \/ /\ command.pc = "start" /\ mHeadMutex = "none"
       /\ \E e \in Found(command.id) : elem' = [elem EXCEPT ![e].mReady = 1]
       /\ mLiveCount' = mLiveCount + 1
       /\ Then("write")
       /\ UNCHANGED <<mHead, lost, repeated, poll, mHeadMutex, ctrl, monitor, mdnsd>>
    \/ /\ command.pc = "write" /\ ctrl < CtrlCapacity
       /\ ctrl' = ctrl + 1
       /\ Answer
       /\ UNCHANGED <<list, poll, mHeadMutex, monitor, mdnsd>>

\* Faulty variant: an element the monitor may be polling is deleted at once.
BugFreeServiceRef ==
    /\ command.pc = "free" /\ mHeadMutex = "none"
    /\ Delete(Found(command.id))
    /\ mLiveCount' = mLiveCount - 1
    /\ Answer
    /\ UNCHANGED <<lost, repeated, poll, mHeadMutex, ctrl, monitor, mdnsd>>

\* A live element is left to the poll thread to delete, which is woken while the
\* mutex is held; any other is deleted here.  One that was stopped before may be
\* gone since stop looked it up.
freeServiceRef ==
    \/ /\ command.pc = "free" /\ mHeadMutex = "none"
       /\ mLiveCount' = mLiveCount - 1
       /\ \E e \in Found(command.id) :
            \/ /\ elem[e].mReady = 1
               /\ elem' = [elem EXCEPT ![e].mReady = -1]
               /\ mHeadMutex' = "command" /\ Then("writeLocked")
               /\ UNCHANGED <<mHead, lost, repeated>>
            \/ /\ elem[e].mReady # 1
               /\ Delete({e})
               /\ lost' = lost + 1
               /\ repeated' = (repeated \/ elem[e].mReady = -1)
               /\ Answer
               /\ UNCHANGED mHeadMutex
       /\ UNCHANGED <<poll, ctrl, monitor, mdnsd>>
    \/ /\ command.pc = "free" /\ mHeadMutex = "none" /\ Found(command.id) = {}
       /\ Answer
       /\ UNCHANGED <<list, poll, mHeadMutex, ctrl, monitor, mdnsd>>
    \/ /\ command.pc = "writeLocked" /\ ctrl < CtrlCapacity
       /\ ctrl' = ctrl + 1
       /\ mHeadMutex' = "none"
       /\ Answer
       /\ UNCHANGED <<list, poll, monitor, mdnsd>>
-----------------------------------------------------------------------------
(***************************************************************************)
(* The commands.  The five kinds of requests differ in the DNSService call *)
(* they make with the new element; it fails without the daemon.            *)
(***************************************************************************)
request(kind, id) == <<kind, id>> \in Requests /\ lost < MaxLost /\ lookup(kind, id)

DNSServiceCall(kind) ==
    /\ command.pc = "call" /\ command.kind = kind
    /\ \/ mdnsd /\ elem' = [elem EXCEPT ![command.elem].mRef = "open"] /\ Then("start")
       \/ Then("free") /\ UNCHANGED elem
    /\ UNCHANGED <<mHead, mLiveCount, lost, repeated, poll, mHeadMutex, ctrl, monitor, mdnsd>>

discover(id)        == request("discover", id) \/ DNSServiceCall("discover")
serviceRegister(id) == request("register", id) \/ DNSServiceCall("register")
resolveService(id)  == request("resolve", id) \/ DNSServiceCall("resolve")
getAddrInfo(id)     == request("getaddrinfo", id) \/ DNSServiceCall("getaddrinfo")
setHostname(id)     == request("sethostname", id) \/ DNSServiceCall("sethostname")

\* Of any kind of request.  The reference is deallocated without the mutex.
stop(id) ==
    \/ /\ command = Idle /\ mHeadMutex = "none"
       /\ IF Found(id) = {} THEN Answer
          ELSE \E e \in Found(id) :
                /\ elem[e].mReady = -1 => lost < MaxLost
                /\ command' = [pc |-> "deallocate", id |-> id, kind |-> elem[e].kind, elem |-> e]
       /\ UNCHANGED <<list, poll, mHeadMutex, ctrl, monitor, mdnsd>>
    \/ /\ command.pc = "deallocate" /\ command.id = id
       /\ elem' = IF command.elem \in mHead THEN [elem EXCEPT ![command.elem].mRef = "deallocated"] ELSE elem
       /\ Then("free")
       /\ UNCHANGED <<mHead, mLiveCount, lost, repeated, poll, mHeadMutex, ctrl, monitor, mdnsd>>

\* Faulty variant: it waits until the property has the value.
BugWaitForProperty(pc, value) ==
    /\ command.pc = pc /\ mdnsd = value
    /\ mHeadMutex' = "none"
    /\ Answer
    /\ UNCHANGED <<list, poll, ctrl, monitor, mdnsd>>

\* wait_for_property gives up after five seconds: init has started or stopped the
\* daemon by then, or not.
wait_for_property(pc, value) ==
    /\ command.pc = pc
    /\ mdnsd' \in {mdnsd, value}
    /\ mHeadMutex' = "none"
    /\ Answer
    /\ UNCHANGED <<list, poll, ctrl, monitor>>

Service(needed, pc) ==
    /\ command = Idle /\ mHeadMutex = "none"
    /\ IF needed THEN mHeadMutex' = "command" /\ command' = [pc |-> pc]
       ELSE Answer /\ UNCHANGED mHeadMutex
    /\ UNCHANGED <<list, poll, ctrl, monitor, mdnsd>>

startService == Service(~mdnsd, "starting") \/ wait_for_property("starting", TRUE)
stopService  == Service(mHead = {}, "stopping") \/ wait_for_property("stopping", FALSE)

runCommand ==
    \/ \E id \in Ids :
        \/ discover(id) \/ serviceRegister(id) \/ resolveService(id)
        \/ getAddrInfo(id) \/ setHostname(id) \/ stop(id)
    \/ startService \/ stopService
-----------------------------------------------------------------------------
(***************************************************************************)
(* The monitor thread.                                                     *)
(***************************************************************************)
\* The messages the callbacks broadcast: the first one when there was an error.
MDnsSdListenerDiscoverCallback ==
    {"ServiceDiscoveryFailed", "ServiceDiscoveryServiceAdded", "ServiceDiscoveryServiceRemoved"}
MDnsSdListenerRegisterCallback == {"ServiceRegistrationFailed", "ServiceRegistrationSucceeded"}
MDnsSdListenerResolveCallback == {"ServiceResolveFailed", "ServiceResolveSuccess"}
MDnsSdListenerGetAddrInfoCallback == {"ServiceGetAddrInfoFailed", "ServiceGetAddrInfoSuccess"}
MDnsSdListenerSetHostnameCallback == {"ServiceSetHostnameFailed", "ServiceSetHostnameSuccess"}

Callback(kind) ==
    CASE kind = "discover" -> MDnsSdListenerDiscoverCallback
      [] kind = "register" -> MDnsSdListenerRegisterCallback
      [] kind = "resolve" -> MDnsSdListenerResolveCallback
      [] kind = "getaddrinfo" -> MDnsSdListenerGetAddrInfoCallback
      [] kind = "sethostname" -> MDnsSdListenerSetHostnameCallback

NoEvent == [code |-> "none"]

\* poll returns with something to read, from the daemon or in the control socket.
pollFds ==
    /\ monitor.pc = "poll"
    /\ \E revents \in SUBSET mPollRefs :
        /\ revents # {} \/ ctrl > 0
        /\ monitor' = [pc |-> "results", revents |-> revents, control |-> ctrl > 0, event |-> NoEvent]
    /\ UNCHANGED <<list, poll, mHeadMutex, ctrl, command, mdnsd>>

\* DNSServiceProcessResult reads the result and calls the callback, if it is
\* complete: all of it without the mutex.
processResult ==
    /\ monitor.pc = "results"
    /\ \E e \in monitor.revents :
       \E event \in {NoEvent} \cup { [code |-> c, id |-> elem[e].mId] : c \in Callback(elem[e].kind) } :
        monitor' = [monitor EXCEPT !.revents = @ \ {e}, !.event = event]
    /\ UNCHANGED <<list, poll, mHeadMutex, ctrl, command, mdnsd>>

\* All results are read: the control socket is next, if it was readable.
readControl ==
    /\ monitor.pc = "results" /\ monitor.revents = {}
    /\ IF monitor.control THEN ctrl' = ctrl - 1 /\ monitor' = [pc |-> "rescan"]
       ELSE UNCHANGED ctrl /\ monitor' = Polling
    /\ UNCHANGED <<list, poll, mHeadMutex, command, mdnsd>>

\* Faulty variant: makes room for the live elements, but not for the control socket.
BugRescan ==
    /\ monitor.pc = "rescan" /\ mHeadMutex = "none"
    /\ mPollSize' = IF mPollSize < mLiveCount THEN mLiveCount + PollSizeStep ELSE mPollSize
    /\ mPollRefs' = Ready
    /\ Delete({ e \in mHead : elem[e].mReady = -1 })
    /\ monitor' = Polling
    /\ UNCHANGED <<mLiveCount, lost, repeated, mHeadMutex, ctrl, command, mdnsd>>

\* Rebuilds the poll arrays and deletes the elements that were freed.  What
\* DNSServiceRefSockFD returns for a reference that was deallocated is anything.
rescan ==
    /\ monitor.pc = "rescan" /\ mHeadMutex = "none"
    /\ mPollSize' = IF mPollSize <= mLiveCount THEN mLiveCount + PollSizeStep ELSE mPollSize
    /\ \E noFd \in SUBSET { e \in Ready : elem[e].mRef = "deallocated" } : mPollRefs' = Ready \ noFd
    /\ Delete({ e \in mHead : elem[e].mReady = -1 })
    /\ monitor' = Polling
    /\ UNCHANGED <<mLiveCount, lost, repeated, mHeadMutex, ctrl, command, mdnsd>>

run == pollFds \/ processResult \/ readControl \/ rescan

Next == runCommand \/ allocateServiceRef \/ startMonitoring \/ freeServiceRef \/ run

Spec == Init /\ [][Next]_vars

\* Both threads go on when they can.  A client need not send another command, but
\* the thread of the listener finishes the one it has; a result need not arrive,
\* but poll returns for a byte in the control socket.
FairSpec ==
    /\ Spec
    /\ WF_vars(command # Idle /\ (runCommand \/ allocateServiceRef \/ startMonitoring \/ freeServiceRef))
    /\ WF_vars(monitor.pc # "poll" /\ run) /\ WF_vars(ctrl > 0 /\ pollFds)
-----------------------------------------------------------------------------
CommandType ==
    {Idle} \cup [pc : {"starting", "stopping"}] \cup [pc : {"allocate"}, id : Ids, kind : Kinds] \cup
    [pc : {"call", "start", "write", "free", "writeLocked", "deallocate"}, id : Ids, kind : Kinds,
     elem : Elements]
EventType == {NoEvent} \cup [code : UNION { Callback(k) : k \in Kinds }, id : Ids]
MonitorType ==
    {Polling} \cup [pc : {"rescan"}] \cup
    [pc : {"results"}, revents : SUBSET Elements, control : BOOLEAN, event : EventType]

\* Every variable has its type, and the mutex is held over several steps by the
\* thread of the listener only.
TypeOK ==
    /\ mHead \subseteq Elements /\ elem \in [Elements -> Contents]
    /\ mLiveCount \in Int /\ lost \in Nat /\ repeated \in BOOLEAN
    /\ mPollRefs \subseteq Elements /\ mPollSize \in Nat
    /\ mHeadMutex = IF command.pc \in {"writeLocked", "starting", "stopping"} THEN "command" ELSE "none"
    /\ ctrl \in 0 .. CtrlCapacity
    /\ command \in CommandType /\ monitor \in MonitorType
    /\ mdnsd \in BOOLEAN

\* "tell poll thread to delete": while the monitor polls an element, the element
\* and its context stay in the list, and its id is not given to another request:
\* the event a callback broadcasts names the request it belongs to.  Not so for a
\* request that is stopped twice.
PolledElementsStay ==
    ~repeated =>
        /\ \A e \in mPollRefs : e \in mHead /\ Found(elem[e].mId) = {e}
        /\ monitor.pc = "results" /\ monitor.event # NoEvent =>
            \E e \in mPollRefs : elem[e].mId = monitor.event.id /\ monitor.event.code \in Callback(elem[e].kind)

\* Entry 0 for the control socket and one for every polled element fit in the
\* arrays.  mLiveCount is too small by one for each request that failed or was
\* stopped twice, and the arrays may be, too, by no more than that.
PollArraysFit == Cardinality(mPollRefs) + 1 <= mPollSize + lost

\* No wakeup is lost: as long as the monitor polls other elements than the live
\* ones, or an element waits to be deleted, a rescan is under way or asked for.
\* An element that stop has deallocated but not freed is neither.
MonitorCatchesUp ==
    \/ ctrl > 0 \/ monitor.pc = "rescan" \/ command.pc \in {"write", "writeLocked"} \/ repeated
    \/ /\ \A e \in mHead : elem[e].mReady # -1
       /\ \A e \in Elements : (e \in Ready) # (e \in mPollRefs) => elem[e].mRef = "deallocated"

\* Every command is answered, unless it finds the control socket full: then
\* freeServiceRef waits, holding the mutex, for the monitor to read a byte, which
\* may itself be waiting for the mutex.
CommandIsAnswered == command # Idle ~> command = Idle \/ ctrl = CtrlCapacity
=============================================================================
