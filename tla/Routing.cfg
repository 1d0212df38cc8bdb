CONSTANTS
    Interfaces = {1, 2}
    PhysicalNetIds = {100, 101}
    VirtualNetIds = {102}
    Permissions <- MCNone
    HasDns = {TRUE}
    Ranges <- MCRange
    MaxCopies = 1
    MaxNetIds = 2
    MaxFaults = 0
    MaxRetries = 1
    Unstable = {}
    MaxIndex = 1
SPECIFICATION Spec
CHECK_DEADLOCK FALSE
INVARIANTS
    KernelMatchesNetworks
    NetworkStaysReachable
    DefaultStaysReachable
    PermissionEnforced
    ExplicitStaysOnNetwork
    VpnFallsThrough
    SecureVpnCaptures
