----------------------- MODULE RouteControllerProofs -----------------------
(***************************************************************************)
(* The functions of RouteController make well-formed requests, at places   *)
(* that keep to program order, whatever the interfaces, netIds and ranges. *)
(***************************************************************************)
EXTENDS RouteController, TLAPS

(***************************************************************************)
(* Program order.                                                          *)
(***************************************************************************)
Path == Seq(Nat)
Under(path, at) == Len(path) <= Len(at) /\ \A j \in 1..Len(path) : at[j] = path[j]
RequestsAt(path) == { r \in Request : Under(path, r.at) }

\* Two steps of a command are not each before the other.
LEMMA BeforeAsymmetric ==
    ASSUME NEW s \in Path, NEW t \in Path, Before(s, t)
    PROVE  ~Before(t, s)
BY DEF Before, Path

\* A path that continues another one and q stays under the first.
LEMMA UnderPrefix ==
    ASSUME NEW p \in Path, NEW q \in Path, NEW at \in Path, Under(p \o q, at)
    PROVE  Under(p, at)
<1>1. Len(p \o q) = Len(p) + Len(q) /\ Len(p) \in Nat /\ Len(q) \in Nat
  BY DEF Path
<1>2. \A j \in 1..Len(p) : (p \o q)[j] = p[j] /\ j \in 1..Len(p \o q)
  BY <1>1 DEF Path
<1>3. Len(at) \in Nat
  BY DEF Path
<1> QED
  BY <1>1, <1>2, <1>3 DEF Under

\* What a function does at a path extended by q is under that path.
LEMMA UnderSelf ==
    ASSUME NEW p \in Path, NEW q \in Path
    PROVE  p \o q \in Path /\ Under(p, p \o q)
BY DEF Under, Path

\* What happens under statement 1 of a command comes before its statement 2, and so on.
LEMMA UnderBefore ==
    ASSUME NEW a \in Nat, NEW b \in Nat, a < b, NEW s \in Path, NEW t \in Path,
           Under(<<a>>, s), Under(<<b>>, t)
    PROVE  Before(s, t)
<1>0. ASSUME NEW p \in Path, Len(p) = 1, NEW u \in Path, Under(p, u)
      PROVE  Len(u) \in Nat /\ 1 <= Len(u) /\ u[1] = p[1]
  BY <1>0 DEF Under, Path
<1>1. Len(s) \in Nat /\ Len(t) \in Nat /\ 1 <= Len(s) /\ 1 <= Len(t) /\ s[1] = a /\ t[1] = b
  <2>1. <<a>> \in Path /\ Len(<<a>>) = 1 /\ <<a>>[1] = a
    BY DEF Path
  <2>2. <<b>> \in Path /\ Len(<<b>>) = 1 /\ <<b>>[1] = b
    BY DEF Path
  <2>3. Len(s) \in Nat /\ 1 <= Len(s) /\ s[1] = <<a>>[1]
    BY <2>1, <1>0
  <2>4. Len(t) \in Nat /\ 1 <= Len(t) /\ t[1] = <<b>>[1]
    BY <2>2, <1>0
  <2> QED
    BY <2>1, <2>2, <2>3, <2>4
<1>2. 1 \in 1..Len(s) /\ 1..(1 - 1) = {}
  BY <1>1
<1> QED
  BY <1>1, <1>2 DEF Before

\* The same of two statements of a method that is called at path p.
LEMMA UnderBeforeIn ==
    ASSUME NEW p \in Path, NEW a \in Nat, NEW b \in Nat, a < b, NEW s \in Path, NEW t \in Path,
           Under(p \o <<a>>, s), Under(p \o <<b>>, t)
    PROVE  Before(s, t)
<1>0. ASSUME NEW c \in Nat, NEW u \in Path, Under(p \o <<c>>, u)
      PROVE  /\ Len(p) \in Nat /\ Len(u) \in Nat /\ Len(p) + 1 <= Len(u) /\ u[Len(p) + 1] = c
             /\ \A j \in 1..Len(p) : u[j] = p[j]
  <2> DEFINE q == p \o <<c>>
  <2>1. Len(p) \in Nat /\ Len(u) \in Nat /\ Len(q) = Len(p) + 1 /\ q[Len(p) + 1] = c
        /\ \A j \in 1..Len(p) : q[j] = p[j]
    BY DEF Path
  <2>2. Len(q) <= Len(u) /\ \A j \in 1..Len(q) : u[j] = q[j]
    BY <1>0 DEF Under
  <2> HIDE DEF q
  <2> QED
    BY <2>1, <2>2
<1>1. /\ Len(p) \in Nat /\ Len(s) \in Nat /\ Len(p) + 1 <= Len(s) /\ s[Len(p) + 1] = a
      /\ \A j \in 1..Len(p) : s[j] = p[j]
  BY <1>0
<1>2. /\ Len(t) \in Nat /\ Len(p) + 1 <= Len(t) /\ t[Len(p) + 1] = b
      /\ \A j \in 1..Len(p) : t[j] = p[j]
  BY <1>0
<1>3. /\ Len(p) + 1 \in 1..Len(s)
      /\ \A j \in 1..((Len(p) + 1) - 1) : s[j] = t[j]
  BY <1>1, <1>2
<1> QED
  BY <1>1, <1>2, <1>3 DEF Before

\* Every request has a place.
LEMMA RequestPath == \A x \in Request : x.at \in Path
BY DEF Request, Path

\* The requests of a callee are requests of its caller.
LEMMA RequestsAtPrefix ==
    ASSUME NEW p \in Path, NEW q \in Path
    PROVE  RequestsAt(p \o q) \subseteq RequestsAt(p)
BY UnderPrefix, RequestPath DEF RequestsAt

(***************************************************************************)
(* The functions of RouteController make well-formed requests, under the   *)
(* place of their call.                                                    *)
(***************************************************************************)
LEMMA ConstantTypes ==
    /\ Interfaces \subseteq Nat /\ INTERFACE_NONE \notin Interfaces
    /\ AllNetIds \subseteq Nat /\ NETID_UNSET \notin AllNetIds /\ LOCAL_NET_ID \in AllNetIds
    /\ LOCAL_NET_ID \notin NetIds
    /\ NetIds \subseteq AllNetIds /\ PhysicalNetIds \subseteq NetIds /\ VirtualNetIds \subseteq NetIds
    /\ PERMISSION_NONE \in Permission /\ PERMISSION_SYSTEM \in Permission
    /\ Permissions \subseteq Permission
BY NetworkTypesAssumption DEF AllNetIds, NetIds, NETID_UNSET, LOCAL_NET_ID, INTERFACE_NONE,
   Permission, PERMISSION_NONE, PERMISSION_NETWORK, PERMISSION_SYSTEM

\* The tables getRouteTableForInterface and the fixed tables give are tables.
LEMMA TableTypes ==
    /\ ROUTE_TABLE_LOCAL_NETWORK \in Table
    /\ \A i \in Interfaces, n \in Nat : InterfaceTable(i, n) \in Table
    /\ \A i \in Interfaces : TableOf(i) \in Table
BY DEF Table, ROUTE_TABLE_LOCAL_NETWORK, FixedTable, InterfaceTable, TableOf

\* The rule functions (modifyVpnUidRangeRule and the others) build rules of the type.
LEMMA RuleTypes ==
    ASSUME NEW table \in Table, NEW netId \in AllNetIds, NEW permission \in Permission,
           NEW i \in Interfaces, NEW uids \in Ranges \cup {ALL_UIDS, ROOT_UIDS}, NEW secure \in BOOLEAN
    PROVE  /\ VpnOutputToLocalRule(i) \in Rule
           /\ VpnUidRangeRule(table, uids, secure) \in Rule
           /\ VpnSystemPermissionRule(netId, table, secure) \in Rule
           /\ ExplicitNetworkRule(netId, table, permission, uids) \in Rule
           /\ OutputInterfaceRule(i, table, permission, uids) \in Rule
           /\ ImplicitNetworkRule(netId, table, permission) \in Rule
           /\ VpnFallthroughRule(netId, table, permission) \in Rule
           /\ DefaultNetworkRule(table, permission) \in Rule
<1>1. ASSUME NEW priority \in Nat, NEW t \in Table, NEW n \in AllNetIds \cup {ANY_NETID, NETID_UNSET},
             NEW explicit \in SUBSET BOOLEAN, NEW protect \in SUBSET BOOLEAN, NEW p \in Permission,
             NEW iif \in Interfaces \cup {INTERFACE_NONE}, NEW oif \in Interfaces \cup {INTERFACE_NONE},
             NEW u \in Ranges \cup {ALL_UIDS, ROOT_UIDS}
      PROVE  modifyIpRule(priority, t, n, explicit, protect, p, iif, oif, u) \in Rule
  BY <1>1 DEF modifyIpRule, Rule
<1>2. /\ RULE_PRIORITY_VPN_OUTPUT_TO_LOCAL \in Nat /\ RULE_PRIORITY_SECURE_VPN \in Nat
      /\ RULE_PRIORITY_BYPASSABLE_VPN \in Nat /\ RULE_PRIORITY_EXPLICIT_NETWORK \in Nat
      /\ RULE_PRIORITY_OUTPUT_INTERFACE \in Nat /\ RULE_PRIORITY_IMPLICIT_NETWORK \in Nat
      /\ RULE_PRIORITY_VPN_FALLTHROUGH \in Nat /\ RULE_PRIORITY_DEFAULT_NETWORK \in Nat
  BY DEF RULE_PRIORITY_VPN_OUTPUT_TO_LOCAL, RULE_PRIORITY_SECURE_VPN, RULE_PRIORITY_BYPASSABLE_VPN,
     RULE_PRIORITY_EXPLICIT_NETWORK, RULE_PRIORITY_OUTPUT_INTERFACE, RULE_PRIORITY_IMPLICIT_NETWORK,
     RULE_PRIORITY_VPN_FALLTHROUGH, RULE_PRIORITY_DEFAULT_NETWORK
<1>3. ANY \in SUBSET BOOLEAN /\ {TRUE} \in SUBSET BOOLEAN /\ {FALSE} \in SUBSET BOOLEAN
  BY DEF ANY
<1>4. VpnOutputToLocalRule(i) \in Rule
  BY <1>1, <1>2, <1>3, ConstantTypes, TableTypes DEF VpnOutputToLocalRule
<1>5. VpnUidRangeRule(table, uids, secure) \in Rule
  BY <1>1, <1>2, <1>3, ConstantTypes DEF VpnUidRangeRule
<1>6. VpnSystemPermissionRule(netId, table, secure) \in Rule
  BY <1>1, <1>2, <1>3, ConstantTypes DEF VpnSystemPermissionRule
<1>7. ExplicitNetworkRule(netId, table, permission, uids) \in Rule
  BY <1>1, <1>2, <1>3 DEF ExplicitNetworkRule
<1>8. OutputInterfaceRule(i, table, permission, uids) \in Rule
  BY <1>1, <1>2, <1>3 DEF OutputInterfaceRule
<1>9. ImplicitNetworkRule(netId, table, permission) \in Rule
  BY <1>1, <1>2, <1>3 DEF ImplicitNetworkRule
<1>10. VpnFallthroughRule(netId, table, permission) \in Rule
  BY <1>1, <1>2, <1>3 DEF VpnFallthroughRule
<1>11. DefaultNetworkRule(table, permission) \in Rule
  BY <1>1, <1>2, <1>3 DEF DefaultNetworkRule
<1> QED
  BY <1>4, <1>5, <1>6, <1>7, <1>8, <1>9, <1>10, <1>11

\* A single request made under the place of its call.
LEMMA RequestTypes ==
    ASSUME NEW p \in Path, NEW q \in Path, NEW add \in BOOLEAN
    PROVE  /\ \A i \in Interfaces : LookupTable(p \o q, i) \in RequestsAt(p)
           /\ \A rule \in Rule : IpRule(p \o q, add, rule) \in RequestsAt(p)
           /\ \A i \in Interfaces, n \in AllNetIds, permission \in Permission :
                modifyIncomingPacketMark(p \o q, n, i, permission, add) \in RequestsAt(p)
<1>1. p \o q \in Seq(Nat) /\ Under(p, p \o q)
  BY UnderSelf DEF Path
<1> QED
  BY <1>1 DEF RequestsAt, Request, LookupTable, IpRule, modifyIncomingPacketMark, IncomingMark

\* The extensions of a path that the functions use.
LEMMA Steps ==
    /\ \A a \in Nat : <<a>> \in Path
    /\ \A a, b \in Nat : <<a, b>> \in Path
    /\ \A a, b, c \in Nat : <<a, b, c>> \in Path
    /\ \A p, q \in Path : p \o q \in Path
BY DEF Path

\* modifyLocalNetwork makes well-formed requests, all under its place.
LEMMA LocalRequests ==
    ASSUME NEW p \in Path, NEW n \in AllNetIds, NEW i \in Interfaces, NEW add \in BOOLEAN
    PROVE  modifyLocalNetwork(p, n, i, add) \subseteq RequestsAt(p)
BY Steps, RequestTypes, RuleTypes, TableTypes, ConstantTypes DEF modifyLocalNetwork

\* modifyPhysicalNetwork makes well-formed requests, all under its place.
LEMMA PhysicalRequests ==
    ASSUME NEW p \in Path, NEW n \in AllNetIds, NEW i \in Interfaces,
           NEW permission \in Permission, NEW add \in BOOLEAN
    PROVE  modifyPhysicalNetwork(p, n, i, permission, add) \subseteq RequestsAt(p)
<1>1. /\ ExplicitNetworkRule(n, TableOf(i), permission, ALL_UIDS) \in Rule
      /\ OutputInterfaceRule(i, TableOf(i), permission, ALL_UIDS) \in Rule
      /\ ImplicitNetworkRule(n, TableOf(i), permission) \in Rule
  BY RuleTypes, TableTypes
<1> QED
  BY <1>1, Steps, RequestTypes DEF modifyPhysicalNetwork

\* modifyPhysicalNetworkPermission makes well-formed requests, all under its place.
LEMMA PermissionRequests ==
    ASSUME NEW p \in Path, NEW n \in AllNetIds, NEW i \in Interfaces,
           NEW old \in Permission, NEW new \in Permission
    PROVE  modifyPhysicalNetworkPermission(p, n, i, old, new) \subseteq RequestsAt(p)
<1>1. modifyPhysicalNetwork(p \o <<1>>, n, i, new, TRUE) \subseteq RequestsAt(p)
  BY Steps, PhysicalRequests, RequestsAtPrefix
<1>2. modifyPhysicalNetwork(p \o <<2>>, n, i, old, FALSE) \subseteq RequestsAt(p)
  BY Steps, PhysicalRequests, RequestsAtPrefix
<1> QED
  BY <1>1, <1>2 DEF modifyPhysicalNetworkPermission

\* The loop over the uid ranges in modifyVirtualNetwork makes well-formed requests.
LEMMA VirtualUidRequests ==
    ASSUME NEW p \in Path, NEW n \in AllNetIds, NEW i \in Interfaces, NEW bag, DOMAIN bag \subseteq Ranges,
           \A r \in DOMAIN bag : bag[r] \in Nat, NEW secure \in BOOLEAN, NEW add \in BOOLEAN
    PROVE  modifyVirtualNetworkUids(p, n, i, bag, secure, add) \subseteq RequestsAt(p)
<1>1. ASSUME NEW q \in Path, NEW r \in Ranges
      PROVE  modifyVirtualNetworkUid(q, n, i, r, secure, add) \subseteq RequestsAt(q)
  <2>1. /\ VpnUidRangeRule(TableOf(i), r, secure) \in Rule
        /\ ExplicitNetworkRule(n, TableOf(i), PERMISSION_NONE, r) \in Rule
        /\ OutputInterfaceRule(i, TableOf(i), PERMISSION_NONE, r) \in Rule
    BY RuleTypes, TableTypes, ConstantTypes
  <2> QED
    BY <2>1, Steps, RequestTypes DEF modifyVirtualNetworkUid
<1>2. ASSUME NEW r \in DOMAIN bag, NEW copy \in 1..bag[r]
      PROVE  modifyVirtualNetworkUid(p \o <<r[1], r[2], copy>>, n, i, r, secure, add)
                \subseteq RequestsAt(p)
  <2>1. r \in Ranges /\ r[1] \in Nat /\ r[2] \in Nat /\ copy \in Nat
    BY NetworkTypesAssumption
  <2>2. <<r[1], r[2], copy>> \in Path /\ p \o <<r[1], r[2], copy>> \in Path
    BY <2>1, Steps
  <2> QED
    BY <1>1, <2>1, <2>2, RequestsAtPrefix
<1>3. SUFFICES ASSUME NEW x \in modifyVirtualNetworkUids(p, n, i, bag, secure, add)
               PROVE  x \in RequestsAt(p)
  OBVIOUS
<1>4. PICK r \in DOMAIN bag :
        x \in UNION { modifyVirtualNetworkUid(p \o <<r[1], r[2], copy>>, n, i, r, secure, add)
                     : copy \in 1..bag[r] }
  BY <1>3, Zenon DEF modifyVirtualNetworkUids
<1>5. PICK copy \in 1..bag[r] :
        x \in modifyVirtualNetworkUid(p \o <<r[1], r[2], copy>>, n, i, r, secure, add)
  BY <1>4, Zenon
<1> QED
  BY <1>2, <1>5, Zenon

\* modifyVirtualNetwork makes well-formed requests, all under its place.
LEMMA VirtualRequests ==
    ASSUME NEW p \in Path, NEW n \in AllNetIds, NEW i \in Interfaces, NEW bag, DOMAIN bag \subseteq Ranges,
           \A r \in DOMAIN bag : bag[r] \in Nat, NEW secure \in BOOLEAN, NEW add \in BOOLEAN,
           NEW nonUid \in BOOLEAN
    PROVE  modifyVirtualNetwork(p, n, i, bag, secure, add, nonUid) \subseteq RequestsAt(p)
<1>1. modifyVirtualNetworkUids(p \o <<1>>, n, i, bag, secure, add) \subseteq RequestsAt(p)
  BY Steps, VirtualUidRequests, RequestsAtPrefix
<1>2. /\ VpnOutputToLocalRule(i) \in Rule
      /\ VpnSystemPermissionRule(n, TableOf(i), secure) \in Rule
      /\ ExplicitNetworkRule(n, TableOf(i), PERMISSION_NONE, ROOT_UIDS) \in Rule
  BY RuleTypes, TableTypes, ConstantTypes
<1>3. /\ LookupTable(p \o <<0>>, i) \in RequestsAt(p)
      /\ modifyIncomingPacketMark(p \o <<2>>, n, i, PERMISSION_NONE, add) \in RequestsAt(p)
      /\ IpRule(p \o <<3>>, add, VpnOutputToLocalRule(i)) \in RequestsAt(p)
      /\ IpRule(p \o <<4>>, add, VpnSystemPermissionRule(n, TableOf(i), secure)) \in RequestsAt(p)
      /\ IpRule(p \o <<5>>, add, ExplicitNetworkRule(n, TableOf(i), PERMISSION_NONE, ROOT_UIDS))
            \in RequestsAt(p)
  BY <1>2, Steps, RequestTypes, ConstantTypes
<1> QED
  BY <1>1, <1>3 DEF modifyVirtualNetwork

\* modifyDefaultNetwork and modifyVpnFallthroughRule make well-formed requests.
LEMMA DefaultRequests ==
    ASSUME NEW p \in Path, NEW n \in AllNetIds, NEW i \in Interfaces,
           NEW permission \in Permission, NEW add \in BOOLEAN
    PROVE  /\ modifyDefaultNetwork(p, i, permission, add) \subseteq RequestsAt(p)
           /\ modifyVpnFallthroughRule(p, n, i, permission, add) \subseteq RequestsAt(p)
BY Steps, RequestTypes, RuleTypes, TableTypes DEF modifyDefaultNetwork, modifyVpnFallthroughRule
=============================================================================
