------------------------------ MODULE Processes ------------------------------
(***************************************************************************)
(* Processes, as the controllers that start daemons use them: fork, kill   *)
(* and waitpid.  A child that has exited stays, as a zombie, until it is   *)
(* waited for; then its pid may be given to any process.                   *)
(*                                                                         *)
(* The controllers are called by the one thread that runs commands; it     *)
(* blocks in waitpid, and everything else goes on meanwhile.  A behaviour  *)
(* uses the kinds of commands, the pids and the names of one group.        *)
(***************************************************************************)
EXTENDS Integers, SequencesExt

CONSTANTS
    Pids,               \* the pids there are
    Groups              \* records: kinds of commands, pids, interfaces, netIds, bound on mInterfaces

ASSUME PidsAssumption ==
    /\ Pids \subseteq Nat \ {0} /\ IsFiniteSet(Pids)
    /\ \A g \in Groups : g.pids \subseteq Pids /\ g.tethered \in Nat

VARIABLES
    procs,              \* pid -> what runs, whether it still does, whether it got SIGTERM
    thread,             \* what the thread of CommandListener is doing
    group               \* the group this behaviour uses

processes == << procs, thread >>

Uses(kind) == kind \in group.kinds

\* A program is a daemon netd starts, "netd" itself (a child that failed before
\* or in exec, returned, and goes on as the copy of netd it is), or "other".
Running(prog) == [prog |-> prog, runs |-> TRUE, term |-> FALSE]
Idle == [at |-> "idle"]

IsChild(p, pid) == pid \in DOMAIN p /\ p[pid].prog # "other"
Runs(p, pid, prog) == pid \in DOMAIN p /\ p[pid].prog = prog /\ p[pid].runs

Without(p, pid) == [q \in DOMAIN p \ {pid} |-> p[q]]
With(p, pid, proc) == [q \in DOMAIN p \cup {pid} |-> IF q = pid THEN proc ELSE p[q]]

\* What fork can return: a new process, or -1 and none.
fork(p, progs) ==
    {[pid |-> -1, procs |-> p]} \cup
    { [pid |-> x[1], procs |-> With(p, x[1], Running(x[2]))] : x \in (group.pids \ DOMAIN p) \X progs }

\* kill(pid, SIGTERM): to whatever has the pid.
kill(pid) == procs' = IF pid \in DOMAIN procs THEN [procs EXCEPT ![pid].term = TRUE] ELSE procs

\* waitpid returns at once for a pid that is no child.
Waitable(pid) == IsChild(procs, pid) => ~procs[pid].runs
Reaped(pid) == IF IsChild(procs, pid) THEN Without(procs, pid) ELSE procs

\* kill and then waitpid, for which the thread blocks; what comes after it is "then".
KillAndWait(pid, then, iface) ==
    /\ kill(pid)
    /\ thread' = [at |-> "waitpid", pid |-> pid, then |-> then, iface |-> iface]

Waited(thens) == thread.at = "waitpid" /\ thread.then \in thens /\ Waitable(thread.pid)

\* A daemon may exit at any time.
exit(pid) ==
    /\ pid \in DOMAIN procs /\ procs[pid].runs
    /\ procs' = IF IsChild(procs, pid) THEN [procs EXCEPT ![pid].runs = FALSE] ELSE Without(procs, pid)
    /\ UNCHANGED thread

\* Another process gets a pid that is free.
forkOther(pid) ==
    /\ pid \in group.pids \ DOMAIN procs
    /\ procs' = With(procs, pid, Running("other"))
    /\ UNCHANGED thread
=============================================================================
