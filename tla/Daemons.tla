------------------------------- MODULE Daemons -------------------------------
(***************************************************************************)
(* The controllers that start daemons, together: their commands are run by *)
(* one thread and their daemons share the pids.                            *)
(***************************************************************************)
EXTENDS TetherController, ClatdController, PppController

vars == << processes, group, tethering, mClatdPids, ppp, softapPid >>

Init ==
    /\ procs = [p \in {} |-> Running("other")]
    /\ thread = Idle
    /\ group \in Groups
    /\ TetherInit /\ ClatdInit /\ PppInit

runCommand ==
    \/ TetherCmd /\ UNCHANGED << mClatdPids, ppp, softapPid >>
    \/ ClatdCmd /\ UNCHANGED << tethering, ppp, softapPid >>
    \/ (PppdCmd \/ ListTtysCmd \/ SoftapCmd) /\ UNCHANGED << tethering, mClatdPids >>

Others(pid) == (exit(pid) \/ forkOther(pid)) /\ UNCHANGED << tethering, mClatdPids, ppp, softapPid >>

Next == (runCommand \/ \E pid \in Pids : Others(pid)) /\ UNCHANGED group

Spec == Init /\ [][Next]_vars

\* The thread returns from a waitpid that can, and a process that got SIGTERM
\* exits: none of these daemons ignores it.
FairSpec ==
    /\ Spec
    /\ WF_vars(thread # Idle /\ runCommand /\ UNCHANGED group)
    /\ \A pid \in Pids : WF_vars(pid \in DOMAIN procs /\ procs[pid].term /\ Others(pid) /\ UNCHANGED group)
-----------------------------------------------------------------------------
ProgramsOf(prog) == IF prog = "clatd" THEN {prog} ELSE {prog, "netd"}

\* The pids a controller has of its daemon.
HeldFor ==
    [dnsmasq |-> {tether.mDaemonPid} \ {0}, radish |-> {tether.mRtrAdvPid} \ {0},
     clatd |-> { mClatdPids[i] : i \in ClatdIfaces } \ {0}, pppd |-> {mPid} \ {0},
     hostapd |-> {softapPid} \ {0}]

\* A pid that a controller would kill and wait for is its own child, running or not
\* yet waited for, and no other controller's nor another interface's; and every
\* child netd has not waited for is one that a controller still has.  If
\* mRtrAdvPid, which the constructor leaves alone, is not 0, all of this may fail.
EachPidIsOwnDaemon ==
    initialized =>
    /\ \A d \in DOMAIN HeldFor : \A pid \in HeldFor[d] :
          /\ pid \in DOMAIN procs /\ procs[pid].prog \in ProgramsOf(d)
          /\ \A e \in DOMAIN HeldFor \ {d} : pid \notin HeldFor[e]
    /\ \A i, j \in ClatdIfaces : mClatdPids[i] = mClatdPids[j] => i = j \/ mClatdPids[i] = 0
    /\ \A pid \in DOMAIN procs :
          IsChild(procs, pid) => pid \in UNION { HeldFor[d] : d \in DOMAIN HeldFor }

\* Between commands a dnsmasq that runs serves exactly the interfaces of
\* mInterfaces, if there are any, as far as they fit into one command, and asks
\* exactly the DNS servers of mDnsForwarders, if it was told of any, in the network
\* mDnsNetId (tetherInterface, untetherInterface, setDnsForwarders): in whatever
\* order interfaces came and went, and also when an earlier dnsmasq exited unnoticed
\* and tethering was stopped and started again.
DnsmasqServesTethered ==
    thread = Idle /\ Reads(procs, tether) =>
    /\ tether.mInterfaces # <<>> =>
          dnsmasq.ifaces = { tether.mInterfaces[n] : n \in 1 .. Len(tether.mInterfaces) \cap 1 .. CmdIfaces }
    /\ dnsmasq.dns # NoDns /\ tether.mDnsForwarders # <<>> =>
          dnsmasq.dns = << tether.mDnsNetId, tether.mDnsForwarders >>

\* Between commands router advertisements are sent on the tethered and upstream
\* interfaces as soon as there are two (configureV6RtrAdv) and on no other, but for
\* the one whose tetherInterface failed last: whichever commands came and failed
\* before, unless calloc or fork failed in the last.  That the child could not
\* become the daemon, or exited, is not noticed.
AdvertisedInterfaces ==
    LET ifaces == tether.mInterfaces \o tether.mUpstreamInterfaces IN
    thread = Idle /\ initialized /\ ~radish.failed =>
    IF tether.mRtrAdvPid = 0 THEN Len(ifaces) < 2
    ELSE radish.ifaces = ToSet(ifaces) \cup radish.refused

\* The thread that runs all commands does not stay in waitpid: a daemon that is to
\* stop was told to, whether it exited before, exits now or never was a child.
StopReturns == thread # Idle ~> thread = Idle
=============================================================================
