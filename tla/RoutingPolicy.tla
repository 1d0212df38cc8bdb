--------------------------- MODULE RoutingPolicy ---------------------------
(***************************************************************************)
(* The rules and marks that a set of networks stands for.  "networks" is   *)
(* the map of the networks, "index" the index of every interface.          *)
(***************************************************************************)
EXTENDS RouteController

NetworksOf(networks, type) == { n \in DOMAIN networks : networks[n].type = type }
RangesOf(network) == { r \in Ranges : network.mUidRanges[r] > 0 }
TablesOf(networks, index, netIds) ==
    UNION { { InterfaceTable(i, index[i]) : i \in networks[n].mInterfaces }
            : n \in netIds \cap DOMAIN networks }

LocalRules(networks) ==
    { OutputInterfaceRule(i, ROUTE_TABLE_LOCAL_NETWORK, PERMISSION_NONE, ALL_UIDS)
      : i \in networks[LOCAL_NET_ID].mInterfaces }

PhysicalRules(n, p, i, table) ==
    { ExplicitNetworkRule(n, table, p, ALL_UIDS),
      OutputInterfaceRule(i, table, p, ALL_UIDS),
      ImplicitNetworkRule(n, table, p) }

VirtualRules(v, network, i, table) ==
    { VpnOutputToLocalRule(i), VpnSystemPermissionRule(v, table, network.mSecure),
      ExplicitNetworkRule(v, table, PERMISSION_NONE, ROOT_UIDS) }
    \cup { VpnUidRangeRule(table, r, network.mSecure) : r \in RangesOf(network) }
    \cup { ExplicitNetworkRule(v, table, PERMISSION_NONE, r) : r \in RangesOf(network) }
    \cup { OutputInterfaceRule(i, table, PERMISSION_NONE, r) : r \in RangesOf(network) }

DefaultRules(p, table, vpnIds) ==
    {DefaultNetworkRule(table, p)} \cup { VpnFallthroughRule(v, table, p) : v \in vpnIds }

ExpectedRules(networks, defaultNetId, index) ==
    LET table(i) == InterfaceTable(i, index[i])
        virtual  == NetworksOf(networks, "VIRTUAL")
        p(n)     == networks[n].mPermission
    IN  LocalRules(networks)
        \cup (UNION { UNION { PhysicalRules(n, p(n), i, table(i)) : i \in networks[n].mInterfaces }
                      : n \in NetworksOf(networks, "PHYSICAL") })
        \cup (UNION { UNION { VirtualRules(v, networks[v], i, table(i)) : i \in networks[v].mInterfaces }
                      : v \in virtual })
        \cup (IF defaultNetId = NETID_UNSET THEN {}
              ELSE UNION { DefaultRules(p(defaultNetId), table(i), virtual)
                           : i \in networks[defaultNetId].mInterfaces })

ExpectedMarks(networks) ==
    UNION { { [interface |-> i, netId |-> n, permission |-> networks[n].mPermission]
              : i \in networks[n].mInterfaces } : n \in DOMAIN networks }

\* A packet of a socket of the user, and one to an address of interface oif.
Packet(mark, uid, oif) == [mark |-> mark, uid |-> uid, iif |-> INTERFACE_NONE, oif |-> oif]
=============================================================================
