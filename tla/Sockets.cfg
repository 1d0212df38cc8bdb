CONSTANTS
    Interfaces = {}
    PhysicalNetIds = {}
    VirtualNetIds = {102}
    Permissions <- MCSystem
    HasDns = {FALSE}
    Ranges <- MCRange
    Uids = {10000}
    Threads = {1}
    UidOf <- OneUser
    Sockets = {1}
    MaxCopies = 1
    MaxCrashes = 1
    MaxUserCommands = 2
SPECIFICATION FairSpec
INVARIANTS
    ImplicitVpnIsBypassable
    ProviderLeavesVpn
    OnlyPrivilegedSkipVpn
PROPERTY CallReturns
