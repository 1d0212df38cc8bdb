--------------------------- MODULE ClatdController ---------------------------
(***************************************************************************)
(* ClatdController.cpp: a clatd for each interface that needs one.         *)
(***************************************************************************)
EXTENDS Processes

CONSTANT ClatdIfaces    \* interfaces clients name

VARIABLE mClatdPids     \* the pid of each clatd; 0: the interface is not in the map

ClatdInit == mClatdPids = [i \in ClatdIfaces |-> 0]

\* The interface has to be in a network; a child that cannot execute clatd exits.
startClatd(iface) ==
    /\ thread = Idle
    /\ \/ UNCHANGED << processes, mClatdPids >>
       \/ /\ mClatdPids[iface] = 0
          /\ \E f \in fork(procs, {"clatd"}) :
                IF f.pid < 0 THEN UNCHANGED << procs, mClatdPids >>
                ELSE /\ procs' = f.procs
                     /\ mClatdPids' = [mClatdPids EXCEPT ![iface] = f.pid]
          /\ UNCHANGED thread

\* Faulty variant: it waits for a clatd that nobody told to stop.
BugStopClatd(iface) ==
    \/ /\ thread = Idle
       /\ IF mClatdPids[iface] = 0 THEN UNCHANGED processes
          ELSE /\ thread' = [at |-> "waitpid", pid |-> mClatdPids[iface], then |-> "stopClatd", iface |-> iface]
               /\ UNCHANGED procs
       /\ UNCHANGED mClatdPids
    \/ /\ Waited({"stopClatd"}) /\ thread.iface = iface
       /\ procs' = Reaped(thread.pid)
       /\ thread' = Idle
       /\ mClatdPids' = [mClatdPids EXCEPT ![iface] = 0]

stopClatd(iface) ==
    \/ /\ thread = Idle
       /\ IF mClatdPids[iface] = 0 THEN UNCHANGED processes
          ELSE KillAndWait(mClatdPids[iface], "stopClatd", iface)
       /\ UNCHANGED mClatdPids
    \/ /\ Waited({"stopClatd"}) /\ thread.iface = iface
       /\ procs' = Reaped(thread.pid)
       /\ thread' = Idle
       /\ mClatdPids' = [mClatdPids EXCEPT ![iface] = 0]

\* Faulty variant: the pid of a clatd that was waited for is kept.
BugIsClatdStarted(iface) ==
    /\ thread = Idle
    /\ procs' = IF mClatdPids[iface] # 0 /\ Waitable(mClatdPids[iface]) THEN Reaped(mClatdPids[iface]) ELSE procs
    /\ UNCHANGED << thread, mClatdPids >>

\* "child exited, don't call waitpid on it again"
isClatdStarted(iface) ==
    /\ thread = Idle
    /\ IF mClatdPids[iface] = 0 \/ ~Waitable(mClatdPids[iface]) THEN UNCHANGED << procs, mClatdPids >>
       ELSE /\ procs' = Reaped(mClatdPids[iface])
            /\ mClatdPids' = [mClatdPids EXCEPT ![iface] = 0]
    /\ UNCHANGED thread

ClatdCmd == Uses("clatd") /\ \E i \in ClatdIfaces \cap group.ifaces : startClatd(i) \/ stopClatd(i) \/ isClatdStarted(i)
=============================================================================
