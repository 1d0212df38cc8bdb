--------------------------- MODULE RouteController ---------------------------
(***************************************************************************)
(* RouteController.cpp: the policy routing rules netd installs in the      *)
(* kernel, and the functions that add and remove them.                     *)
(*                                                                         *)
(* A function of RouteController is a set of requests, each stamped with   *)
(* its place in program order ("at", the path of loop iterations and       *)
(* statement numbers that leads to it); the state machine that performs    *)
(* them in that order, one at a time, is in module NetworkController.      *)
(***************************************************************************)
EXTENDS NetworkTypes, Integers, Sequences, FiniteSets

INTERFACE_NONE == 0     \* IIF_NONE and OIF_NONE

\* Rule priorities: the kernel tries the rules in increasing priority.
RULE_PRIORITY_VPN_OVERRIDE_SYSTEM == 10000
RULE_PRIORITY_VPN_OUTPUT_TO_LOCAL == 11000
RULE_PRIORITY_SECURE_VPN          == 12000
RULE_PRIORITY_EXPLICIT_NETWORK    == 13000
RULE_PRIORITY_OUTPUT_INTERFACE    == 14000
RULE_PRIORITY_LEGACY_SYSTEM       == 15000
RULE_PRIORITY_LEGACY_NETWORK      == 16000
RULE_PRIORITY_LOCAL_NETWORK       == 17000
RULE_PRIORITY_IMPLICIT_NETWORK    == 19000
RULE_PRIORITY_BYPASSABLE_VPN      == 20000
RULE_PRIORITY_VPN_FALLTHROUGH     == 21000
RULE_PRIORITY_DEFAULT_NETWORK     == 22000
RULE_PRIORITY_DIRECTLY_CONNECTED  == 23000
RULE_PRIORITY_UNREACHABLE         == 32000

\* A table is a fixed one, or the one of an interface that has some index:
\* the code adds 1000 to the index, which no two interfaces share.
FixedTable(number) == <<INTERFACE_NONE, number>>
InterfaceTable(interface, index) == <<interface, index>>
ROUTE_TABLE_LOCAL_NETWORK  == FixedTable(97)
ROUTE_TABLE_LEGACY_NETWORK == FixedTable(98)
ROUTE_TABLE_LEGACY_SYSTEM  == FixedTable(99)
RT_TABLE_MAIN              == FixedTable(254)
RT_TABLE_UNSPEC            == FixedTable(0)

\* In a request the table of an interface has yet to be looked up.
TableOf(interface) == InterfaceTable(interface, 0)

ANY_NETID == -1         \* the mask does not select the netId
ANY       == BOOLEAN    \* the mask does not select the flag
ALL_UIDS  == <<-1, -1>> \* uidStart = uidEnd = INVALID_UID
ROOT_UIDS == <<0, 0>>   \* UID_ROOT, UID_ROOT

(***************************************************************************)
(* A rule.  netId, explicit, protect and permission are what the fwmark    *)
(* and mask select: explicit and protect are the sets of accepted values,  *)
(* permission the bits that must be set.                                   *)
(***************************************************************************)
modifyIpRule(priority, table, netId, explicit, protect, permission, iif, oif, uids) ==
    [priority |-> priority, table |-> table, netId |-> netId,
     explicit |-> explicit, protect |-> protect, permission |-> permission,
     iif |-> iif, oif |-> oif, uids |-> uids]

VpnOutputToLocalRule(vpnInterface) ==
    modifyIpRule(RULE_PRIORITY_VPN_OUTPUT_TO_LOCAL, ROUTE_TABLE_LOCAL_NETWORK,
                 ANY_NETID, ANY, ANY, PERMISSION_NONE,
                 vpnInterface, INTERFACE_NONE, ALL_UIDS)

\* Faulty variant: a secure VPN does not catch sockets that selected a network.
BugVpnUidRangeRule(table, uids, secure) ==
    modifyIpRule(IF secure THEN RULE_PRIORITY_SECURE_VPN
                           ELSE RULE_PRIORITY_BYPASSABLE_VPN,
                 table, ANY_NETID, {FALSE}, {FALSE},
                 PERMISSION_NONE, INTERFACE_NONE, INTERFACE_NONE, uids)

VpnUidRangeRule(table, uids, secure) ==
    modifyIpRule(IF secure THEN RULE_PRIORITY_SECURE_VPN
                           ELSE RULE_PRIORITY_BYPASSABLE_VPN,
                 table, ANY_NETID, IF secure THEN ANY ELSE {FALSE}, {FALSE},
                 PERMISSION_NONE, INTERFACE_NONE, INTERFACE_NONE, uids)

VpnSystemPermissionRule(netId, table, secure) ==
    modifyIpRule(IF secure THEN RULE_PRIORITY_SECURE_VPN
                           ELSE RULE_PRIORITY_BYPASSABLE_VPN,
                 table, netId, ANY, ANY, PERMISSION_SYSTEM,
                 INTERFACE_NONE, INTERFACE_NONE, ALL_UIDS)

\* Faulty variant: the permission is not in the mark.
BugExplicitNetworkRule(netId, table, permission, uids) ==
    modifyIpRule(RULE_PRIORITY_EXPLICIT_NETWORK, table, netId, {TRUE}, ANY,
                 PERMISSION_NONE, INTERFACE_NONE, INTERFACE_NONE, uids)

ExplicitNetworkRule(netId, table, permission, uids) ==
    modifyIpRule(RULE_PRIORITY_EXPLICIT_NETWORK, table, netId, {TRUE}, ANY,
                 permission, INTERFACE_NONE, INTERFACE_NONE, uids)

OutputInterfaceRule(interface, table, permission, uids) ==
    modifyIpRule(RULE_PRIORITY_OUTPUT_INTERFACE, table, ANY_NETID, ANY, ANY,
                 permission, INTERFACE_NONE, interface, uids)

ImplicitNetworkRule(netId, table, permission) ==
    modifyIpRule(RULE_PRIORITY_IMPLICIT_NETWORK, table, netId, {FALSE}, ANY,
                 permission, INTERFACE_NONE, INTERFACE_NONE, ALL_UIDS)

\* Faulty variant: the mask leaves out explicitlySelected.
BugVpnFallthroughRule(vpnNetId, table, permission) ==
    modifyIpRule(RULE_PRIORITY_VPN_FALLTHROUGH, table, vpnNetId, ANY, ANY,
                 permission, INTERFACE_NONE, INTERFACE_NONE, ALL_UIDS)

VpnFallthroughRule(vpnNetId, table, permission) ==
    modifyIpRule(RULE_PRIORITY_VPN_FALLTHROUGH, table, vpnNetId, {FALSE}, ANY,
                 permission, INTERFACE_NONE, INTERFACE_NONE, ALL_UIDS)

DefaultNetworkRule(table, permission) ==
    modifyIpRule(RULE_PRIORITY_DEFAULT_NETWORK, table, NETID_UNSET, ANY, ANY,
                 permission, INTERFACE_NONE, INTERFACE_NONE, ALL_UIDS)

\* The rules RouteController::Init leaves after flushing the kernel's: no later
\* request adds or removes one of them.
addLegacyRouteRules ==
    { modifyIpRule(RULE_PRIORITY_LEGACY_SYSTEM, ROUTE_TABLE_LEGACY_SYSTEM, ANY_NETID,
                   {FALSE}, ANY, PERMISSION_NONE, INTERFACE_NONE, INTERFACE_NONE, ALL_UIDS),
      modifyIpRule(RULE_PRIORITY_LEGACY_NETWORK, ROUTE_TABLE_LEGACY_NETWORK, ANY_NETID,
                   {FALSE}, ANY, PERMISSION_NONE, INTERFACE_NONE, INTERFACE_NONE, ALL_UIDS),
      modifyIpRule(RULE_PRIORITY_VPN_OVERRIDE_SYSTEM, ROUTE_TABLE_LEGACY_SYSTEM, ANY_NETID,
                   {FALSE}, ANY, PERMISSION_SYSTEM, INTERFACE_NONE, INTERFACE_NONE, ALL_UIDS) }

addLocalNetworkRules ==
    { ExplicitNetworkRule(LOCAL_NET_ID, ROUTE_TABLE_LOCAL_NETWORK, PERMISSION_NONE, ALL_UIDS),
      modifyIpRule(RULE_PRIORITY_LOCAL_NETWORK, ROUTE_TABLE_LOCAL_NETWORK, ANY_NETID,
                   {FALSE}, ANY, PERMISSION_NONE, INTERFACE_NONE, INTERFACE_NONE, ALL_UIDS) }

addDirectlyConnectedRule ==
    modifyIpRule(RULE_PRIORITY_DIRECTLY_CONNECTED, RT_TABLE_MAIN, NETID_UNSET, ANY, ANY,
                 PERMISSION_NONE, INTERFACE_NONE, INTERFACE_NONE, ROOT_UIDS)

addUnreachableRule ==
    modifyIpRule(RULE_PRIORITY_UNREACHABLE, RT_TABLE_UNSPEC, ANY_NETID, ANY, ANY,
                 PERMISSION_NONE, INTERFACE_NONE, INTERFACE_NONE, ALL_UIDS)

InitRules == addLegacyRouteRules \cup addLocalNetworkRules
                 \cup {addDirectlyConnectedRule, addUnreachableRule}
-----------------------------------------------------------------------------
(***************************************************************************)
(* Requests, and the functions that make them.  "path" is the place of the *)
(* call in its caller.                                                     *)
(***************************************************************************)

\* getRouteTableForInterface: fails when the interface is unknown.
LookupTable(path, interface) ==
    [at |-> path, op |-> "lookup", interface |-> interface]

IpRule(path, add, rule) ==
    [at |-> path, op |-> "rule", add |-> add, rule |-> rule]

modifyIncomingPacketMark(path, netId, interface, permission, add) ==
    [at |-> path, op |-> "mark", add |-> add,
     mark |-> [interface |-> interface, netId |-> netId, permission |-> permission]]

modifyLocalNetwork(path, netId, interface, add) ==
    { modifyIncomingPacketMark(path \o <<1>>, netId, interface, PERMISSION_NONE, add),
      IpRule(path \o <<2>>, add,
             OutputInterfaceRule(interface, ROUTE_TABLE_LOCAL_NETWORK,
                                 PERMISSION_NONE, ALL_UIDS)) }

modifyPhysicalNetwork(path, netId, interface, permission, add) ==
    LET table == TableOf(interface)
    IN  { LookupTable(path \o <<0>>, interface),
          modifyIncomingPacketMark(path \o <<1>>, netId, interface, permission, add),
          IpRule(path \o <<2>>, add, ExplicitNetworkRule(netId, table, permission, ALL_UIDS)),
          IpRule(path \o <<3>>, add, OutputInterfaceRule(interface, table, permission, ALL_UIDS)),
          IpRule(path \o <<4>>, add, ImplicitNetworkRule(netId, table, permission)) }

\* One iteration of the loop over the uid ranges of modifyVirtualNetwork.
modifyVirtualNetworkUid(path, netId, interface, range, secure, add) ==
    LET table == TableOf(interface)
    IN  { IpRule(path \o <<1>>, add, VpnUidRangeRule(table, range, secure)),
          IpRule(path \o <<2>>, add, ExplicitNetworkRule(netId, table, PERMISSION_NONE, range)),
          IpRule(path \o <<3>>, add, OutputInterfaceRule(interface, table, PERMISSION_NONE, range)) }

\* uidRanges is a bag: how many times each range occurs in the sorted vector.
modifyVirtualNetworkUids(path, netId, interface, uidRanges, secure, add) ==
    UNION { UNION { modifyVirtualNetworkUid(path \o <<range[1], range[2], copy>>, netId, interface,
                                            range, secure, add)
                    : copy \in 1..uidRanges[range] }
            : range \in DOMAIN uidRanges }

modifyVirtualNetwork(path, netId, interface, uidRanges, secure, add, modifyNonUidBasedRules) ==
    LET table == TableOf(interface)
    IN  {LookupTable(path \o <<0>>, interface)}
        \cup modifyVirtualNetworkUids(path \o <<1>>, netId, interface, uidRanges, secure, add)
        \cup IF modifyNonUidBasedRules
             THEN { modifyIncomingPacketMark(path \o <<2>>, netId, interface, PERMISSION_NONE, add),
                    IpRule(path \o <<3>>, add, VpnOutputToLocalRule(interface)),
                    IpRule(path \o <<4>>, add, VpnSystemPermissionRule(netId, table, secure)),
                    IpRule(path \o <<5>>, add,
                           ExplicitNetworkRule(netId, table, PERMISSION_NONE, ROOT_UIDS)) }
             ELSE {}

modifyDefaultNetwork(path, interface, permission, add) ==
    { LookupTable(path \o <<0>>, interface),
      IpRule(path \o <<1>>, add, DefaultNetworkRule(TableOf(interface), permission)) }

modifyVpnFallthroughRule(path, vpnNetId, physicalInterface, permission, add) ==
    { LookupTable(path \o <<0>>, physicalInterface),
      IpRule(path \o <<1>>, add,
             VpnFallthroughRule(vpnNetId, TableOf(physicalInterface), permission)) }

\* Faulty variant: the old rules are deleted first.
BugModifyPhysicalNetworkPermission(path, netId, interface, oldPermission, newPermission) ==
    modifyPhysicalNetwork(path \o <<1>>, netId, interface, oldPermission, FALSE)
    \cup modifyPhysicalNetwork(path \o <<2>>, netId, interface, newPermission, TRUE)

\* The new rules are added before the old ones are deleted.
modifyPhysicalNetworkPermission(path, netId, interface, oldPermission, newPermission) ==
    modifyPhysicalNetwork(path \o <<1>>, netId, interface, newPermission, TRUE)
    \cup modifyPhysicalNetwork(path \o <<2>>, netId, interface, oldPermission, FALSE)

\* Program order of two requests of one command.
Before(s, t) ==
    \E k \in 1..Len(s) :
        /\ k <= Len(t)
        /\ s[k] < t[k]
        /\ \A j \in 1..(k - 1) : s[j] = t[j]

\* The types of rules and requests.
Table == (Interfaces \cup {INTERFACE_NONE}) \X Nat

Rule ==
    [priority : Nat, table : Table, netId : AllNetIds \cup {ANY_NETID, NETID_UNSET},
     explicit : SUBSET BOOLEAN, protect : SUBSET BOOLEAN, permission : Permission,
     iif : Interfaces \cup {INTERFACE_NONE}, oif : Interfaces \cup {INTERFACE_NONE},
     uids : Ranges \cup {ALL_UIDS, ROOT_UIDS}]

IncomingMark == [interface : Interfaces, netId : AllNetIds, permission : Permission]

Request ==
    [at : Seq(Nat), op : {"lookup"}, interface : Interfaces]
    \cup [at : Seq(Nat), op : {"rule"}, add : BOOLEAN, rule : Rule]
    \cup [at : Seq(Nat), op : {"mark"}, add : BOOLEAN, mark : IncomingMark]
-----------------------------------------------------------------------------
(***************************************************************************)
(* How the kernel uses the rules: the tables a packet may be routed by,    *)
(* when "covers" is the set of the tables that have a route for its        *)
(* destination.                                                            *)
(***************************************************************************)
Matches(rule, packet) ==
    /\ rule.netId \in {ANY_NETID, packet.mark.netId}
    /\ packet.mark.explicitlySelected \in rule.explicit
    /\ packet.mark.protectedFromVpn \in rule.protect
    /\ rule.permission \subseteq packet.mark.permission
    /\ rule.iif \in {INTERFACE_NONE, packet.iif}
    /\ rule.oif \in {INTERFACE_NONE, packet.oif}
    /\ rule.uids = ALL_UIDS \/ packet.uid \in rule.uids[1]..rule.uids[2]

\* Tables of the first matching rules; rules of one priority are tried in the
\* order they were added, which is left open.
Route(rules, packet, covers) ==
    LET hits == { r \in rules : Matches(r, packet) /\ r.table \in covers \cup {RT_TABLE_UNSPEC} }
    IN  { r.table : r \in { h \in hits : \A o \in hits : h.priority <= o.priority } }
=============================================================================
