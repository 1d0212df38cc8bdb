-------------------------- MODULE TetherController --------------------------
(***************************************************************************)
(* TetherController.cpp: dnsmasq, which serves the tethered interfaces,    *)
(* and the daemon that sends router advertisements on them.                *)
(*                                                                         *)
(* dnsmasq is told of interfaces and DNS servers through a pipe.  The      *)
(* other daemon has its interfaces on the command line, so a change means  *)
(* stopping it, which waits for it to exit, and starting it again.         *)
(***************************************************************************)
EXTENDS Processes

CONSTANTS
    Upstreams,          \* upstream interfaces
    Forwarders,         \* lists of DNS servers that clients name
    BadServer,          \* a server that inet_aton cannot parse
    Uninitialized,      \* what mRtrAdvPid may hold: no constructor initializes it
    CmdIfaces,          \* interfaces that fit into a command to dnsmasq of MAX_CMD_SIZE
    CmdServers          \* ... and servers

ASSUME TetherAssumption ==
    /\ Uninitialized \subseteq Nat
    /\ CmdIfaces \in Nat \ {0} /\ CmdServers \in Nat \ {0}

VARIABLES
    tether,             \* the members of TetherController
    dnsmasq,            \* what the dnsmasq of mDaemonPid has been told
    radish,             \* the last configureV6RtrAdv: see NotAdvertised
    initialized         \* mRtrAdvPid happened to be 0 in the beginning

tethering == << tether, dnsmasq, radish, initialized >>

NoDns == << 0, <<>> >>
Untold == [ifaces |-> {}, dns |-> NoDns]

\* The interfaces of the last advertisement daemon; those that were taken out of
\* mInterfaces since, by a tetherInterface that failed; and whether calloc or fork
\* failed.
NotAdvertised == [ifaces |-> {}, refused |-> {}, failed |-> FALSE]

\* The part of a list that is put into a command.
Prefix(list, n) == SubSeq(list, 1, IF Len(list) < n THEN Len(list) ELSE n)

TetherInit ==
    /\ \E pid \in Uninitialized, netId \in group.netIds :
        tether = [mDaemonPid |-> 0, mDaemonFd |-> FALSE, mRtrAdvPid |-> pid, mInterfaces |-> <<>>,
                  mUpstreamInterfaces |-> <<>>, mDnsForwarders |-> <<>>, mDnsNetId |-> netId]
    /\ dnsmasq = Untold
    /\ radish = NotAdvertised
    /\ initialized = (tether.mRtrAdvPid = 0)

\* A write to mDaemonFd fails when the child has exited and nobody has the pipe open;
\* a child that goes on as netd has it open and does not read it.
Reads(p, t) == Runs(p, t.mDaemonPid, "dnsmasq")
Writable(p, t) == Reads(p, t) \/ Runs(p, t.mDaemonPid, "netd")

\* "Too many DNS ifaces listed": what does not fit is left out.  An empty list of
\* interfaces is not sent.
applyDnsInterfaces(p, t, told) ==
    LET send == t.mDaemonFd /\ t.mInterfaces # <<>>
    IN [ok |-> send => Writable(p, t),
        told |-> IF send /\ Reads(p, t)
                 THEN [told EXCEPT !.ifaces = ToSet(Prefix(t.mInterfaces, CmdIfaces))] ELSE told]
-----------------------------------------------------------------------------
\* The child exits if dnsmasq cannot be executed, but returns if dup2 fails.  The
\* new dnsmasq is told of the interfaces, not of the DNS servers.
startTethering ==
    /\ thread = Idle
    /\ IF tether.mDaemonPid # 0 THEN UNCHANGED << processes, tether, dnsmasq >>
       ELSE \E f \in fork(procs, {"dnsmasq", "netd"}) :
              IF f.pid < 0 THEN UNCHANGED << processes, tether, dnsmasq >>
              ELSE LET t == [tether EXCEPT !.mDaemonPid = f.pid, !.mDaemonFd = TRUE]
                   IN /\ procs' = f.procs
                      /\ tether' = t
                      /\ dnsmasq' = applyDnsInterfaces(f.procs, t, Untold).told
                      /\ UNCHANGED thread
    /\ UNCHANGED << radish, initialized >>

stopTethering ==
    \/ /\ thread = Idle
       /\ IF tether.mDaemonPid = 0 THEN UNCHANGED processes
          ELSE KillAndWait(tether.mDaemonPid, "stopTethering", "")
       /\ UNCHANGED tethering
    \/ /\ Waited({"stopTethering"})
       /\ procs' = Reaped(thread.pid)
       /\ thread' = Idle
       /\ tether' = [tether EXCEPT !.mDaemonPid = 0, !.mDaemonFd = FALSE]
       /\ UNCHANGED << dnsmasq, radish, initialized >>

\* Needs two interfaces; the child returns if calloc fails, and exits if the daemon
\* cannot be executed.
startV6RtrAdv(p, t, ifaces) ==
    IF Len(ifaces) < 2 THEN {[procs |-> p, tether |-> t, radish |-> NotAdvertised]}
    ELSE { IF f.pid < 0 THEN [procs |-> p, tether |-> t, radish |-> [NotAdvertised EXCEPT !.failed = TRUE]]
           ELSE [procs |-> f.procs, tether |-> [t EXCEPT !.mRtrAdvPid = f.pid],
                 radish |-> [NotAdvertised EXCEPT !.ifaces = ToSet(ifaces)]] :
              f \in fork(p, {"radish", "netd"}) }

\* What tetherInterface and untetherInterface do after configureV6RtrAdv, which
\* left s.  An interface dnsmasq cannot be told of is removed again, the first of
\* its name; the other daemon is left as it is.
Configured(s, then, iface) ==
    LET apply == applyDnsInterfaces(s.procs, s.tether, dnsmasq)
        refused == then = "tether" /\ ~apply.ok
    IN /\ procs' = s.procs
       /\ thread' = Idle
       /\ dnsmasq' = IF then = "upstream" THEN dnsmasq ELSE apply.told
       /\ tether' = IF refused THEN [s.tether EXCEPT !.mInterfaces = RemoveFirst(@, iface)] ELSE s.tether
       /\ radish' = IF refused THEN [s.radish EXCEPT !.refused = {iface}] ELSE s.radish
       /\ UNCHANGED initialized

\* Nothing is done if calloc fails.
configureV6RtrAdv(t, then, iface) ==
    \/ Configured([procs |-> procs, tether |-> t, radish |-> [radish EXCEPT !.failed = TRUE]], then, iface)
    \/ /\ t.mRtrAdvPid = 0
       /\ \E s \in startV6RtrAdv(procs, t, t.mInterfaces \o t.mUpstreamInterfaces) : Configured(s, then, iface)
    \/ /\ t.mRtrAdvPid # 0
       /\ KillAndWait(t.mRtrAdvPid, then, iface)
       /\ tether' = t
       /\ UNCHANGED << dnsmasq, radish, initialized >>

\* The end of stopV6RtrAdv, and the rest of configureV6RtrAdv.
stopV6RtrAdv ==
    LET t == [tether EXCEPT !.mRtrAdvPid = 0] IN
    /\ Waited({"tether", "untether", "upstream"})
    /\ \E s \in startV6RtrAdv(Reaped(thread.pid), t, t.mInterfaces \o t.mUpstreamInterfaces) :
          Configured(s, thread.then, thread.iface)
-----------------------------------------------------------------------------
\* No list is kept of servers that cannot be parsed, or that cannot be written to
\* the pipe.  "Too many DNS servers listed": what does not fit is not kept either;
\* the first of those is still parsed.
setDnsForwarders(netId, servers) ==
    LET kept == Prefix(servers, CmdServers) IN
    /\ thread = Idle
    /\ IF Contains(Prefix(servers, CmdServers + 1), BadServer)
       THEN tether' = [tether EXCEPT !.mDnsForwarders = <<>>] /\ UNCHANGED dnsmasq
       ELSE /\ tether' = [tether EXCEPT !.mDnsNetId = netId,
                !.mDnsForwarders = IF tether.mDaemonFd => Writable(procs, tether) THEN kept ELSE <<>>]
            /\ dnsmasq' = IF tether.mDaemonFd /\ Reads(procs, tether)
                          THEN [dnsmasq EXCEPT !.dns = << netId, kept >>] ELSE dnsmasq
    /\ UNCHANGED << processes, radish, initialized >>

\* Faulty variant: the advertisement daemon is not told.
BugAddUpstreamInterface(iface) ==
    /\ thread = Idle
    /\ tether' = IF Contains(tether.mUpstreamInterfaces, iface) THEN tether
                 ELSE [tether EXCEPT !.mUpstreamInterfaces = Append(@, iface)]
    /\ UNCHANGED << processes, dnsmasq, radish, initialized >>

addUpstreamInterface(iface) ==
    /\ thread = Idle
    /\ IF Contains(tether.mUpstreamInterfaces, iface) THEN UNCHANGED << processes, tethering >>
       ELSE configureV6RtrAdv([tether EXCEPT !.mUpstreamInterfaces = Append(@, iface)], "upstream", iface)

removeUpstreamInterface(iface) ==
    /\ thread = Idle
    /\ IF ~Contains(tether.mUpstreamInterfaces, iface) THEN UNCHANGED << processes, tethering >>
       ELSE configureV6RtrAdv([tether EXCEPT !.mUpstreamInterfaces = RemoveFirst(@, iface)], "upstream", iface)

\* One interface may be tethered twice; group.tethered bounds the list.
tetherInterface(iface) ==
    /\ thread = Idle /\ Len(tether.mInterfaces) < group.tethered
    /\ configureV6RtrAdv([tether EXCEPT !.mInterfaces = Append(@, iface)], "tether", iface)

\* Faulty variant: dnsmasq is not told.
BugUntetherInterface(iface) ==
    /\ thread = Idle
    /\ IF ~Contains(tether.mInterfaces, iface) THEN UNCHANGED << processes, tethering >>
       ELSE configureV6RtrAdv([tether EXCEPT !.mInterfaces = RemoveFirst(@, iface)], "upstream", iface)

untetherInterface(iface) ==
    /\ thread = Idle
    /\ IF ~Contains(tether.mInterfaces, iface) THEN UNCHANGED << processes, tethering >>
       ELSE configureV6RtrAdv([tether EXCEPT !.mInterfaces = RemoveFirst(@, iface)], "untether", iface)

-----------------------------------------------------------------------------
TetherCmd ==
    \/ Uses("tether") /\ (startTethering \/ \E i \in group.ifaces : tetherInterface(i) \/ untetherInterface(i))
    \/ Uses("upstream") /\ \E i \in Upstreams : addUpstreamInterface(i) \/ removeUpstreamInterface(i)
    \/ Uses("dns") /\ \E n \in group.netIds, s \in Forwarders : setDnsForwarders(n, s)
    \/ stopTethering \/ stopV6RtrAdv
=============================================================================
