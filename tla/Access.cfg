CONSTANTS
    Interfaces = {1, 2}
    PhysicalNetIds = {100}
    VirtualNetIds = {102, 103}
    Permissions <- MCNetwork
    HasDns = {TRUE, FALSE}
    Ranges <- MCRange
    Uids = {10000}
    MaxCopies = 1
SPECIFICATION Spec
INVARIANTS
    GrantedSelectionIsRouted
    ConnectGoesToUserNetwork
    ProxyFollowsUser
    DnsFollowsUser
