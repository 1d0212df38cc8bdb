CONSTANTS
    Interfaces = {1}
    PhysicalNetIds = {100}
    VirtualNetIds = {}
    Permissions <- MCNone
    HasDns = {TRUE}
    Ranges <- MCNoRange
    MaxCopies = 1
    MaxNetIds = 2
    MaxFaults = 0
    MaxRetries = 1
    Unstable = {1}
    MaxIndex = 2
SPECIFICATION Spec
CHECK_DEADLOCK FALSE
INVARIANT
    ForgottenInterfaceHasNoRules
