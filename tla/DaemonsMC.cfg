CONSTANTS
    Pids = {1, 2, 3}
    Groups <- MCGroups
    Upstreams = {"u"}
    Forwarders <- MCForwarders
    BadServer = "bad"
    Uninitialized = {0, 1}
    CmdIfaces = 2
    CmdServers = 1
    ClatdIfaces = {"v", "w"}
    Ttys = {"tty0"}
SPECIFICATION FairSpec
INVARIANTS EachPidIsOwnDaemon DnsmasqServesTethered AdvertisedInterfaces
PROPERTY StopReturns
