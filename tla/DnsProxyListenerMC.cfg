CONSTANTS
    Interfaces = {}
    PhysicalNetIds = {100}
    VirtualNetIds = {102}
    Permissions <- MCSystem
    HasDns = {TRUE}
    Ranges <- MCRange
    Uids = {10000}
    Clients = {"c"}
    UidOf <- MCUidOf
    Handlers = {1, 2}
    MaxPieces = 2
    MaxLost = 1
    MaxCopies = 1
SPECIFICATION FairSpec
INVARIANT ClientLivesWhileUsed
PROPERTY HungUpClientIsDeleted
