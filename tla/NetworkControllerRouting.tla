---------------------- MODULE NetworkControllerRouting ----------------------
(***************************************************************************)
(* What the rules that module NetworkController installs mean: the kernel  *)
(* state the networks stand for, and where packets go.                     *)
(***************************************************************************)
EXTENDS NetworkController, RoutingPolicy

CurrentTable(i) == InterfaceTable(i, interfaceToTable[i])
CurrentTables(netIds) == TablesOf(mNetworks, interfaceToTable, netIds)
InterfacesOf(n) == mNetworks[n].mInterfaces
physical == NetworksOf(mNetworks, "PHYSICAL")

\* As long as no request has failed since netd started, the kernel has between
\* commands exactly the rules that the networks, their interfaces, permissions
\* and users and the default network stand for, and at least their marks: no
\* command leaves a rule behind, forgets one, or leaves one for a permission or
\* a default of the past, and no rule survives a crash of netd.
KernelMatchesNetworks ==
    Idle /\ ~failed =>
        \A f \in Family :
            /\ rules[f] = ExpectedRules(mNetworks, mDefaultNetId, interfaceToTable)
            /\ \A m \in ExpectedMarks(mNetworks) : BagIn(m, marks[f])

\* A request fails only for a reason of its own or because a uid range was added
\* twice or removed without being there: the other commands never ask the
\* kernel to add a rule it has or to delete one it has not.
OnlyUserRangesClash ==
    ~failed =>
        \A x \in todo :
            x.op = "rule" /\ x.rule.uids \in {ALL_UIDS, ROOT_UIDS}
                /\ (\A y \in todo \ {x} : Before(x.at, y.at))
            => \A f \in Family : CanApply(f, x.add, Resolve(x.rule)) \/ ROOT_UIDS \in Ranges

\* Packets.
AllRules(f) == rules[f] \cup InitRules
RemovalPending(i) == \E x \in todo : x.op \in {"flush", "erase"} /\ x.interface = i

\* At every moment, also in the middle of a command, a packet that selects a
\* physical network explicitly, implicitly or by interface and has every
\* permission is routed by the table of the network's interface, when that is
\* the table with a route: changing the permission of a network adds the new
\* rules before it deletes the old ones ("to avoid race conditions").
NetworkStaysReachable ==
    ~failed =>
        \A n \in physical : \A i \in InterfacesOf(n) : \A f \in Family :
            ~RemovalPending(i) =>
                \A pkt \in { Packet(Mark(n, TRUE, TRUE, PERMISSION_SYSTEM), 0, INTERFACE_NONE),
                             Packet(Mark(n, FALSE, TRUE, PERMISSION_SYSTEM), 0, INTERFACE_NONE),
                             Packet(Mark(NETID_UNSET, FALSE, FALSE, PERMISSION_SYSTEM), 0, i) } :
                    Route(AllRules(f), pkt, {CurrentTable(i)}) = {CurrentTable(i)}

\* At every moment an unmarked packet with every permission finds the default
\* network, or while it is being replaced the old or the new one, provided that
\* those have interfaces: setDefaultNetwork adds the new default before it
\* removes the old one.
DefaultStaysReachable ==
    LET next == { x.netId : x \in { y \in todo : y.op = "default" } }
        up(n) == isValidNetwork(n) /\ InterfacesOf(n) # {} /\ \A i \in InterfacesOf(n) : ~RemovalPending(i)
        covers == { CurrentTable(i) : i \in UNION { InterfacesOf(n) : n \in next \cup {mDefaultNetId} } }
        packet == Packet(Mark(NETID_UNSET, FALSE, FALSE, PERMISSION_SYSTEM),
                         FIRST_APPLICATION_UID, INTERFACE_NONE)
    IN  ~failed /\ (\A n \in next \cup {mDefaultNetId} : up(n)) =>
            \A f \in Family : RT_TABLE_UNSPEC \notin Route(AllRules(f), packet, covers)

\* Between commands: the marks a packet may carry, the users it may come from,
\* and the VPNs that claim it by user.
Settled == Idle /\ ~failed
Marks == FwmarkOver(AllNetIds \cup {NETID_UNSET})
SampleUids == {0, FIRST_APPLICATION_UID} \cup { r[1] : r \in Ranges } \cup { r[2] : r \in Ranges }
InRange(uid, r) == uid \in r[1]..r[2]
SecureVpnsOf(uid) ==
    { v \in vpns : mNetworks[v].mSecure /\ \E r \in RangesOf(mNetworks[v]) : InRange(uid, r) }
EveryTable ==
    CurrentTables(AllNetIds) \cup { ROUTE_TABLE_LOCAL_NETWORK, ROUTE_TABLE_LEGACY_NETWORK,
                               ROUTE_TABLE_LEGACY_SYSTEM, RT_TABLE_MAIN }

\* All traffic of the users of a secure VPN that has an interface goes through
\* a VPN of theirs, whatever netId or flags its socket has and whatever other
\* tables have a route, unless the socket is protected from VPNs or has the
\* system permission: "no matter what netId the user's socket may have, if they
\* are subject to this VPN, their traffic has to go through it".
SecureVpnCaptures ==
    Settled =>
        \A uid \in SampleUids :
            CurrentTables(SecureVpnsOf(uid)) # {} =>
                \A mark \in { m \in Marks : ~m.protectedFromVpn /\ m.permission # PERMISSION_SYSTEM } :
                \A f \in Family :
                    Route(AllRules(f), Packet(mark, uid, INTERFACE_NONE), EveryTable)
                        \subseteq CurrentTables(SecureVpnsOf(uid))

\* A packet that lacks a permission its physical network requires is never
\* routed by that network, whether it names the network, its interface or
\* nothing, also after the permission or the default network has changed.
PermissionEnforced ==
    Settled =>
        \A n \in physical : \A i \in InterfacesOf(n) :
            \A mark \in { m \in Marks : ~(mNetworks[n].mPermission \subseteq m.permission) } :
            \A uid \in SampleUids, oif \in {INTERFACE_NONE, i}, f \in Family :
                CurrentTable(i) \notin Route(AllRules(f), Packet(mark, uid, oif), {CurrentTable(i)})

\* A packet that selects a network explicitly is routed by that network, by a
\* secure VPN it is subject to, or not at all: it never ends on the default
\* network or on another one, also when its network has been destroyed.
ExplicitStaysOnNetwork ==
    Settled =>
        \A mark \in { m \in Marks : m.explicitlySelected /\ m.netId # NETID_UNSET } :
        \A uid \in SampleUids, f \in Family :
            Route(AllRules(f), Packet(mark, uid, INTERFACE_NONE), EveryTable)
                \subseteq CurrentTables({mark.netId})
                    \cup (IF mark.protectedFromVpn THEN {} ELSE CurrentTables(SecureVpnsOf(uid)))
                    \cup (IF mark.netId = LOCAL_NET_ID THEN {ROUTE_TABLE_LOCAL_NETWORK} ELSE {})
                    \cup {RT_TABLE_UNSPEC}

\* A packet that carries the netId of a VPN implicitly and finds no route there
\* goes over the default network when it has its permission; one that selected
\* the VPN explicitly does not.
VpnFallsThrough ==
    Settled /\ mDefaultNetId # NETID_UNSET =>
        \A v \in vpns : \A i \in InterfacesOf(mDefaultNetId) :
            \A mark \in { m \in Marks : m.netId = v } : \A f \in Family :
                LET fits == /\ ~mark.explicitlySelected
                            /\ mNetworks[mDefaultNetId].mPermission \subseteq mark.permission
                IN  Route(AllRules(f), Packet(mark, FIRST_APPLICATION_UID, INTERFACE_NONE),
                          {CurrentTable(i)})
                    = IF fits THEN {CurrentTable(i)} ELSE {RT_TABLE_UNSPEC}
=============================================================================
