---------------------------- MODULE PppController ----------------------------
(***************************************************************************)
(* PppController.cpp and SoftapController.cpp: one pppd and one hostapd.   *)
(* A child that cannot execute its daemon returns, and goes on as a second *)
(* netd; what that one does is not modelled.                               *)
(***************************************************************************)
EXTENDS Processes

CONSTANT Ttys           \* serial devices

VARIABLES
    mTtys,              \* the devices that were there when they were last listed
    mPid,               \* the pppd
    softapPid           \* the hostapd: mPid of SoftapController

PppInit == mTtys = {} /\ mPid = 0 /\ softapPid = 0

ppp == << mTtys, mPid >>

\* getTtyList: the devices that are there now.
updateTtyList ==
    /\ thread = Idle
    /\ mTtys' \in SUBSET Ttys
    /\ UNCHANGED << processes, mPid, softapPid >>

attachPppd(tty) ==
    /\ thread = Idle
    /\ IF mPid # 0 \/ tty \notin mTtys THEN UNCHANGED << processes, mPid >>
       ELSE \E f \in fork(procs, {"pppd", "netd"}) :
              /\ procs' = f.procs
              /\ mPid' = IF f.pid < 0 THEN mPid ELSE f.pid
              /\ UNCHANGED thread
    /\ UNCHANGED << mTtys, softapPid >>

\* The pppd, whatever its device.
detachPppd ==
    \/ /\ thread = Idle
       /\ IF mPid = 0 THEN UNCHANGED processes ELSE KillAndWait(mPid, "detachPppd", "")
       /\ UNCHANGED << ppp, softapPid >>
    \/ /\ Waited({"detachPppd"})
       /\ procs' = Reaped(thread.pid)
       /\ thread' = Idle
       /\ mPid' = 0
       /\ UNCHANGED << mTtys, softapPid >>

PppdCmd == Uses("pppd") /\ (detachPppd \/ \E tty \in Ttys : attachPppd(tty))
ListTtysCmd == Uses("pppd") /\ updateTtyList
-----------------------------------------------------------------------------
startSoftap ==
    /\ thread = Idle
    /\ IF softapPid # 0 THEN UNCHANGED << processes, softapPid >>
       ELSE \E f \in fork(procs, {"hostapd", "netd"}) :
              /\ procs' = f.procs
              /\ softapPid' = IF f.pid < 0 THEN softapPid ELSE f.pid
              /\ UNCHANGED thread
    /\ UNCHANGED ppp

stopSoftap ==
    \/ /\ thread = Idle
       /\ IF softapPid = 0 THEN UNCHANGED processes ELSE KillAndWait(softapPid, "stopSoftap", "")
       /\ UNCHANGED << ppp, softapPid >>
    \/ /\ Waited({"stopSoftap"})
       /\ procs' = Reaped(thread.pid)
       /\ thread' = Idle
       /\ softapPid' = 0
       /\ UNCHANGED ppp

SoftapCmd == Uses("softap") /\ (startSoftap \/ stopSoftap)
=============================================================================
