CONSTANTS
    Interfaces = {1}
    PhysicalNetIds = {100, 101}
    VirtualNetIds = {102}
    Permissions <- MCNone
    HasDns = {TRUE}
    Ranges <- MCNoRange
    MaxCopies = 1
    MaxNetIds = 1
    MaxFaults = 1
    MaxRetries = 1
    Unstable = {1}
    MaxIndex = 1
SPECIFICATION FairSpec
CHECK_DEADLOCK FALSE
INVARIANTS
    InductiveInvariant
    KernelMatchesNetworks
PROPERTIES ImplementsNetworks DestroyCompletes
