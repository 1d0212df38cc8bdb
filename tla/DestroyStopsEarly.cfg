CONSTANTS
    Interfaces = {1, 2}
    PhysicalNetIds = {100}
    VirtualNetIds = {}
    Permissions <- MCNone
    HasDns = {TRUE}
    Ranges <- MCNoRange
    MaxCopies = 1
    MaxNetIds = 2
    MaxFaults = 1
    MaxRetries = 1
    Unstable = {}
    MaxIndex = 1
SPECIFICATION Spec
CHECK_DEADLOCK FALSE
INVARIANT
    DestroyClearsOtherInterfaces
