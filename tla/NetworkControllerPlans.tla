----------------------- MODULE NetworkControllerPlans -----------------------
(***************************************************************************)
(* What the methods of the Network classes have to do: which requests and  *)
(* assignments a command consists of, and in which order.                  *)
(***************************************************************************)
EXTENDS NetworkController, RouteControllerProofs

Item == Request \cup Assignment

(***************************************************************************)
(* The methods of the Network classes.                                     *)
(***************************************************************************)
NetworksTyped ==
    /\ DOMAIN mNetworks \subseteq AllNetIds
    /\ \A n \in DOMAIN mNetworks : mNetworks[n] \in Network

\* The fields of an existing network have their types.
LEMMA NetworkFields ==
    ASSUME NetworksTyped, NEW n \in DOMAIN mNetworks
    PROVE  /\ n \in AllNetIds
           /\ mNetworks[n].mInterfaces \subseteq Interfaces
           /\ mNetworks[n].mPermission \in Permission
           /\ mNetworks[n].mIsDefault \in BOOLEAN
           /\ mNetworks[n].mSecure \in BOOLEAN
           /\ mNetworks[n].mUidRanges \in [Ranges -> Nat]
           /\ mNetworks[n].type \in {"LOCAL", "PHYSICAL", "VIRTUAL"}
BY DEF NetworksTyped, Network

\* What RouteController is asked to do is a lookup, a rule or a mark.
LEMMA RequestsHaveOps ==
    ASSUME NEW p \in Path
    PROVE  /\ RequestsAt(p) \subseteq Item
           /\ \A x \in RequestsAt(p) : x.op \in RequestOps /\ x.at \in Path /\ Under(p, x.at)
BY DEF RequestsAt, Item, Request, RequestOps, Path

\* DelegateImpl::modifyFallthrough only makes requests.
LEMMA FallthroughRequests ==
    ASSUME NetworksTyped, NEW p \in Path, NEW i \in Interfaces, NEW permission \in Permission,
           NEW add \in BOOLEAN
    PROVE  modifyFallthrough(p, i, permission, add) \subseteq RequestsAt(p)
<1>1. ASSUME NEW v \in vpns
      PROVE  modifyVpnFallthroughRule(p \o <<v>>, v, i, permission, add) \subseteq RequestsAt(p)
  <2>1. v \in AllNetIds /\ v \in Nat
    BY ConstantTypes DEF vpns, NetworksTyped
  <2>2. <<v>> \in Path /\ p \o <<v>> \in Path
    BY <2>1, Steps
  <2> QED
    BY <2>1, <2>2, DefaultRequests, RequestsAtPrefix
<1> QED
  BY <1>1 DEF modifyFallthrough

\* addToDefault and removeFromDefault only make requests.
LEMMA ToDefaultRequests ==
    ASSUME NetworksTyped, NEW p \in Path, NEW i \in Interfaces, NEW permission \in Permission
    PROVE  /\ addToDefault(p, i, permission) \subseteq RequestsAt(p)
           /\ removeFromDefault(p, i, permission) \subseteq RequestsAt(p)
<1>1. <<1>> \in Path /\ <<2>> \in Path /\ p \o <<1>> \in Path /\ p \o <<2>> \in Path
  BY Steps
<1>2. ASSUME NEW add \in BOOLEAN
      PROVE  /\ modifyDefaultNetwork(p \o <<1>>, i, permission, add) \subseteq RequestsAt(p)
             /\ modifyFallthrough(p \o <<2>>, i, permission, add) \subseteq RequestsAt(p)
  BY <1>1, DefaultRequests, FallthroughRequests, RequestsAtPrefix, ConstantTypes
<1> QED
  BY <1>2 DEF addToDefault, removeFromDefault

\* modifyFallthroughLocked only makes requests.
LEMMA FallthroughLockedRequests ==
    ASSUME NetworksTyped, NEW p \in Path, NEW v \in AllNetIds, NEW add \in BOOLEAN
    PROVE  modifyFallthroughLocked(p, v, add) \subseteq RequestsAt(p)
<1>1. CASE isType(mDefaultNetId, "PHYSICAL")
  <2>1. mDefaultNetId \in DOMAIN mNetworks
    BY <1>1 DEF isType, isValidNetwork
  <2>2. ASSUME NEW i \in mNetworks[mDefaultNetId].mInterfaces
        PROVE  modifyVpnFallthroughRule(p \o <<i>>, v, i, mNetworks[mDefaultNetId].mPermission, add)
                    \subseteq RequestsAt(p)
    <3>1. i \in Interfaces /\ i \in Nat /\ mNetworks[mDefaultNetId].mPermission \in Permission
      BY <2>1, NetworkFields, ConstantTypes
    <3>2. <<i>> \in Path /\ p \o <<i>> \in Path
      BY <3>1, Steps
    <3> QED
      BY <3>1, <3>2, DefaultRequests, RequestsAtPrefix
  <2> QED
    BY <1>1, <2>2 DEF modifyFallthroughLocked
<1>2. CASE ~isType(mDefaultNetId, "PHYSICAL")
  BY <1>2 DEF modifyFallthroughLocked
<1> QED
  BY <1>1, <1>2

\* addInterface only makes requests, and looks the table up unless the network
\* is the local one.
LEMMA AddInterfaceRequests ==
    ASSUME NetworksTyped, NEW p \in Path, NEW n \in DOMAIN mNetworks, NEW i \in Interfaces
    PROVE  /\ addInterface(p, n, i) \subseteq RequestsAt(p)
           /\ mNetworks[n].type # "LOCAL" =>
                \E y \in addInterface(p, n, i) : y.op = "lookup" /\ y.interface = i
<1> DEFINE net == mNetworks[n]
<1>0. /\ n \in AllNetIds /\ net.mPermission \in Permission /\ net.mSecure \in BOOLEAN
      /\ DOMAIN net.mUidRanges = Ranges /\ \A r \in Ranges : net.mUidRanges[r] \in Nat
      /\ net.type \in {"LOCAL", "PHYSICAL", "VIRTUAL"}
  BY NetworkFields
<1>1. <<1>> \in Path /\ <<2>> \in Path /\ p \o <<1>> \in Path /\ p \o <<2>> \in Path
  BY Steps
<1>2. CASE net.type = "LOCAL"
  BY <1>0, <1>1, <1>2, LocalRequests, RequestsAtPrefix DEF addInterface
<1>3. CASE net.type = "PHYSICAL"
  <2>1. modifyPhysicalNetwork(p \o <<1>>, n, i, net.mPermission, TRUE) \subseteq RequestsAt(p)
    BY <1>0, <1>1, PhysicalRequests, RequestsAtPrefix
  <2>2. addToDefault(p \o <<2>>, i, net.mPermission) \subseteq RequestsAt(p)
    BY <1>0, <1>1, ToDefaultRequests, RequestsAtPrefix
  <2>3. LookupTable((p \o <<1>>) \o <<0>>, i) \in addInterface(p, n, i)
    BY <1>3 DEF addInterface, modifyPhysicalNetwork
  <2> QED
    BY <1>3, <2>1, <2>2, <2>3 DEF addInterface, LookupTable
<1>4. CASE net.type = "VIRTUAL"
  <2>1. modifyVirtualNetwork(p \o <<1>>, n, i, net.mUidRanges, net.mSecure, TRUE, TRUE)
            \subseteq RequestsAt(p)
    BY <1>0, <1>1, VirtualRequests, RequestsAtPrefix
  <2>2. LookupTable((p \o <<1>>) \o <<0>>, i) \in addInterface(p, n, i)
    BY <1>4 DEF addInterface, modifyVirtualNetwork
  <2> QED
    BY <1>4, <2>1, <2>2 DEF addInterface, LookupTable
<1> QED
  BY <1>0, <1>2, <1>3, <1>4

\* removeInterface makes requests, and forgets this interface of this network.
Removes(x, n, i) ==
    x \in Assignment /\ x.op \in {"flush", "erase"} /\ x.netId = n /\ x.interface = i

\* removeInterface makes requests and takes this interface out of this network.
LEMMA RemoveInterfaceItems ==
    ASSUME NetworksTyped, NEW p \in Path, NEW n \in DOMAIN mNetworks, NEW i \in Interfaces,
           NEW x \in removeInterface(p, n, i)
    PROVE  x \in RequestsAt(p) \/ Removes(x, n, i)
<1> DEFINE net == mNetworks[n]
<1>0. /\ n \in AllNetIds /\ net.mPermission \in Permission /\ net.mSecure \in BOOLEAN
      /\ DOMAIN net.mUidRanges = Ranges /\ \A r \in Ranges : net.mUidRanges[r] \in Nat
      /\ net.type \in {"LOCAL", "PHYSICAL", "VIRTUAL"}
  BY NetworkFields
<1>1. /\ <<1>> \in Path /\ <<2>> \in Path
      /\ p \o <<1>> \in Path /\ p \o <<2>> \in Path /\ p \o <<3>> \in Path
  BY Steps
<1>2. /\ Removes(Erase(p \o <<2>>, n, i), n, i)
      /\ Removes(Flush(p \o <<2>>, n, i), n, i)
      /\ Removes(Flush(p \o <<3>>, n, i), n, i)
  BY <1>0, <1>1 DEF Removes, Erase, Flush, Assignment, Path
<1>3. CASE net.type = "LOCAL"
  <2>1. modifyLocalNetwork(p \o <<1>>, n, i, FALSE) \subseteq RequestsAt(p)
    BY <1>0, <1>1, LocalRequests, RequestsAtPrefix
  <2> QED
    BY <1>2, <1>3, <2>1 DEF removeInterface
<1>4. CASE net.type = "PHYSICAL"
  <2>1. modifyPhysicalNetwork(p \o <<2>>, n, i, net.mPermission, FALSE) \subseteq RequestsAt(p)
    BY <1>0, <1>1, PhysicalRequests, RequestsAtPrefix
  <2>2. removeFromDefault(p \o <<1>>, i, net.mPermission) \subseteq RequestsAt(p)
    BY <1>0, <1>1, ToDefaultRequests, RequestsAtPrefix
  <2> QED
    BY <1>2, <1>4, <2>1, <2>2 DEF removeInterface
<1>5. CASE net.type = "VIRTUAL"
  <2>1. modifyVirtualNetwork(p \o <<1>>, n, i, net.mUidRanges, net.mSecure, FALSE, TRUE)
            \subseteq RequestsAt(p)
    BY <1>0, <1>1, VirtualRequests, RequestsAtPrefix
  <2> QED
    BY <1>2, <1>5, <2>1 DEF removeInterface
<1> QED
  BY <1>0, <1>3, <1>4, <1>5

\* clearInterfaces makes requests and takes interfaces of the network out of it.
LEMMA ClearInterfacesItems ==
    ASSUME NetworksTyped, NEW p \in Path, NEW n \in DOMAIN mNetworks,
           NEW x \in clearInterfaces(p, n)
    PROVE  x \in RequestsAt(p) \/ \E i \in mNetworks[n].mInterfaces : Removes(x, n, i)
<1>1. PICK i \in mNetworks[n].mInterfaces : x \in removeInterface(p \o <<i>>, n, i)
  BY DEF clearInterfaces
<1>2. i \in Interfaces /\ i \in Nat
  BY NetworkFields, ConstantTypes
<1>3. <<i>> \in Path /\ p \o <<i>> \in Path
  BY <1>2, Steps
<1> QED
  BY <1>1, <1>2, <1>3, RemoveInterfaceItems, RequestsAtPrefix

\* setPermission makes requests and then sets the permission.
LEMMA SetPermissionItems ==
    ASSUME NetworksTyped, NEW p \in Path, NEW n \in DOMAIN mNetworks, NEW permission \in Permission,
           NEW x \in setPermission(p, n, permission)
    PROVE  x \in RequestsAt(p) \/ x = SetPermission(p \o <<3>>, n, permission)
<1> DEFINE net == mNetworks[n]
<1>0. n \in AllNetIds /\ net.mPermission \in Permission /\ net.mInterfaces \subseteq Interfaces
  BY NetworkFields
<1>1. ASSUME NEW i \in net.mInterfaces
      PROVE  modifyPhysicalNetworkPermission(p \o <<1, i>>, n, i, net.mPermission, permission)
                \subseteq RequestsAt(p)
  <2>1. i \in Interfaces /\ i \in Nat
    BY <1>0, ConstantTypes
  <2>2. <<1, i>> \in Path /\ p \o <<1, i>> \in Path
    BY <2>1, Steps
  <2> QED
    BY <1>0, <2>1, <2>2, PermissionRequests, RequestsAtPrefix
<1>2. ASSUME NEW i \in net.mInterfaces
      PROVE  addToDefault(p \o <<2, i, 1>>, i, permission)
             \cup removeFromDefault(p \o <<2, i, 2>>, i, net.mPermission) \subseteq RequestsAt(p)
  <2>1. i \in Interfaces /\ i \in Nat
    BY <1>0, ConstantTypes
  <2>2. /\ <<2, i, 1>> \in Path /\ p \o <<2, i, 1>> \in Path
        /\ <<2, i, 2>> \in Path /\ p \o <<2, i, 2>> \in Path
    BY <2>1, Steps
  <2> QED
    BY <1>0, <2>1, <2>2, ToDefaultRequests, RequestsAtPrefix
<1> DEFINE A == UNION { modifyPhysicalNetworkPermission(p \o <<1, i>>, n, i, net.mPermission, permission)
                        : i \in net.mInterfaces }
           B == UNION { addToDefault(p \o <<2, i, 1>>, i, permission)
                        \cup removeFromDefault(p \o <<2, i, 2>>, i, net.mPermission)
                        : i \in net.mInterfaces }
<1>3. A \subseteq RequestsAt(p)
  BY <1>1
<1>4. B \subseteq RequestsAt(p)
  BY <1>2
<1>5. x \in A \cup B \cup {SetPermission(p \o <<3>>, n, permission)}
  <2>1. setPermission(p, n, permission) =
            IF permission = net.mPermission THEN {}
            ELSE A \cup (IF net.mIsDefault THEN B ELSE {})
                   \cup {SetPermission(p \o <<3>>, n, permission)}
    BY Zenon DEF setPermission
  <2> HIDE DEF A, B, net
  <2> QED
    BY <2>1
<1> HIDE DEF A, B
<1> QED
  BY <1>3, <1>4, <1>5

\* addAsDefault and removeAsDefault do nothing to a network that is, or is not, the
\* default already; otherwise they make requests and then assign mIsDefault.
LEMMA AsDefaultItems ==
    ASSUME NetworksTyped, NEW p \in Path, NEW n \in DOMAIN mNetworks
    PROVE  /\ mNetworks[n].mIsDefault => addAsDefault(p, n) = {}
           /\ ~mNetworks[n].mIsDefault =>
                /\ SetIsDefault(p \o <<2>>, n, TRUE) \in addAsDefault(p, n)
                /\ addAsDefault(p, n) \ {SetIsDefault(p \o <<2>>, n, TRUE)} \subseteq RequestsAt(p \o <<1>>)
           /\ ~mNetworks[n].mIsDefault => removeAsDefault(p, n) = {}
           /\ mNetworks[n].mIsDefault =>
                /\ SetIsDefault(p \o <<2>>, n, FALSE) \in removeAsDefault(p, n)
                /\ removeAsDefault(p, n) \ {SetIsDefault(p \o <<2>>, n, FALSE)}
                        \subseteq RequestsAt(p \o <<1>>)
<1> DEFINE net == mNetworks[n]
<1>1. ASSUME NEW i \in net.mInterfaces
      PROVE  /\ addToDefault(p \o <<1, i>>, i, net.mPermission) \subseteq RequestsAt(p \o <<1>>)
             /\ removeFromDefault(p \o <<1, i>>, i, net.mPermission) \subseteq RequestsAt(p \o <<1>>)
  <2>1. i \in Interfaces /\ i \in Nat /\ net.mPermission \in Permission
    BY NetworkFields, ConstantTypes
  <2>2. <<i>> \in Path /\ p \o <<1>> \in Path /\ <<1, i>> \in Path /\ p \o <<1, i>> \in Path
    BY <2>1, Steps
  <2>3. p \o <<1, i>> = (p \o <<1>>) \o <<i>>
    BY <2>1 DEF Path
  <2> QED
    BY <2>1, <2>2, <2>3, ToDefaultRequests, RequestsAtPrefix
<1> DEFINE A == UNION { addToDefault(p \o <<1, i>>, i, net.mPermission) : i \in net.mInterfaces }
           B == UNION { removeFromDefault(p \o <<1, i>>, i, net.mPermission) : i \in net.mInterfaces }
<1>2. A \subseteq RequestsAt(p \o <<1>>) /\ B \subseteq RequestsAt(p \o <<1>>)
  BY <1>1
<1>3. /\ addAsDefault(p, n) =
            IF net.mIsDefault THEN {} ELSE A \cup {SetIsDefault(p \o <<2>>, n, TRUE)}
      /\ removeAsDefault(p, n) =
            IF ~net.mIsDefault THEN {} ELSE B \cup {SetIsDefault(p \o <<2>>, n, FALSE)}
  BY Zenon DEF addAsDefault, removeAsDefault
<1>4. net.mIsDefault \in BOOLEAN
  BY NetworkFields
<1> HIDE DEF A, B
<1> QED
  BY <1>2, <1>3, <1>4

\* addUsers and removeUsers make requests and assign mUidRanges.
LEMMA ModifyUsersItems ==
    ASSUME NetworksTyped, NEW p \in Path, NEW n \in DOMAIN mNetworks, NEW rs \in SUBSET Ranges,
           NEW add \in BOOLEAN, NEW x \in modifyUsers(p, n, rs, add)
    PROVE  x \in RequestsAt(p) \/ x = SetUidRanges(p \o <<2>>, n, add, rs)
<1>1. ASSUME NEW i \in mNetworks[n].mInterfaces
      PROVE  modifyVirtualNetwork(p \o <<1, i>>, n, i, [r \in rs |-> 1], mNetworks[n].mSecure, add, FALSE)
                \subseteq RequestsAt(p)
  <2>1. i \in Interfaces /\ i \in Nat /\ mNetworks[n].mSecure \in BOOLEAN /\ n \in AllNetIds
    BY NetworkFields, ConstantTypes
  <2>2. <<1, i>> \in Path /\ p \o <<1, i>> \in Path
    BY <2>1, Steps
  <2>3. DOMAIN [r \in rs |-> 1] \subseteq Ranges /\ \A r \in rs : [q \in rs |-> 1][r] \in Nat
    OBVIOUS
  <2> QED
    BY <2>1, <2>2, <2>3, VirtualRequests, RequestsAtPrefix
<1> DEFINE A == UNION { modifyVirtualNetwork(p \o <<1, i>>, n, i, [r \in rs |-> 1],
                                             mNetworks[n].mSecure, add, FALSE)
                        : i \in mNetworks[n].mInterfaces }
<1>2. A \subseteq RequestsAt(p)
  BY <1>1
<1>3. modifyUsers(p, n, rs, add) = A \cup {SetUidRanges(p \o <<2>>, n, add, rs)}
  BY Zenon DEF modifyUsers
<1> HIDE DEF A
<1> QED
  BY <1>2, <1>3
=============================================================================
