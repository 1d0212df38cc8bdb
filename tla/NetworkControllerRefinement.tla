-------------------- MODULE NetworkControllerRefinement --------------------
(***************************************************************************)
(* Module NetworkController implements module Networks: a step that        *)
(* changes the networks or the default network is a step of Networks.      *)
(***************************************************************************)
EXTENDS NetworkControllerProofs, NetworkControllerPromise

\* The types and constants that Networks and NetworkController share.
LEMMA PromiseNames ==
    /\ Promise!NetIds = NetIds /\ Promise!AllNetIds = AllNetIds
    /\ Promise!NETID_UNSET = NETID_UNSET /\ Promise!LOCAL_NET_ID = LOCAL_NET_ID
    /\ Promise!LocalNetwork = LocalNetwork
    /\ \A p : Promise!PhysicalNetwork(p) = PhysicalNetwork(p)
    /\ \A d, s : Promise!VirtualNetwork(d, s) = VirtualNetwork(d, s)
    /\ \A bag, rs : Promise!AddRanges(bag, rs) = AddRanges(bag, rs)
    /\ \A bag, rs : Promise!RemoveRanges(bag, rs) = RemoveRanges(bag, rs)
BY DEF NetIds, Promise!NetIds, AllNetIds, Promise!AllNetIds, NETID_UNSET, Promise!NETID_UNSET,
   LOCAL_NET_ID, Promise!LOCAL_NET_ID, LocalNetwork, Promise!LocalNetwork, PhysicalNetwork,
   Promise!PhysicalNetwork, VirtualNetwork, Promise!VirtualNetwork, AddRanges, Promise!AddRanges,
   RemoveRanges, Promise!RemoveRanges, NoRanges, Promise!NoRanges, PERMISSION_NONE,
   Promise!PERMISSION_NONE

\* A command that only plans changes no network; createPhysicalNetwork creates one.
LEMMA CommandRefines ==
    ASSUME InductiveInvariant, Command
    PROVE  Promise!Next \/ UNCHANGED netd
<1>1. CASE \E n \in PhysicalNetIds, p \in Permissions : createPhysicalNetwork(n, p)
  <2>1. PICK n \in PhysicalNetIds, p \in Permissions : createPhysicalNetwork(n, p)
    BY <1>1
  <2>2. Promise!Create(n, PhysicalNetwork(p))
    BY <2>1 DEF createPhysicalNetwork, isValidNetwork, Promise!Create
  <2> QED
    BY <2>2, PromiseNames DEF Promise!Next, Promise!Change
<1>2. CASE \E n \in NetIds : destroyNetwork(n)
  BY <1>2 DEF destroyNetwork
<1>3. CASE \E S : Start(S)
  BY <1>3 DEF Start
<1>4. \/ \E n \in PhysicalNetIds, p \in Permissions : createPhysicalNetwork(n, p)
      \/ \E n \in NetIds : destroyNetwork(n)
      \/ \E S : Start(S)
  BY DEF Command, createVirtualNetwork, setDefaultNetwork, addInterfaceToNetwork,
     removeInterfaceFromNetwork, setPermissionForNetworks, addUsersToNetwork, removeUsersFromNetwork
<1> QED
  BY <1>1, <1>2, <1>3, <1>4

\* An interface that is forgotten was one of an existing network.
LEMMA RemovalRefines ==
    ASSUME InductiveInvariant, NEW x \in todo, x.op \in {"flush", "erase"},
           mNetworks' = [mNetworks EXCEPT ![x.netId].mInterfaces = @ \ {x.interface}],
           UNCHANGED mDefaultNetId
    PROVE  Promise!Next
<1>1. x.netId \in AllNetIds /\ x.interface \in Interfaces
  BY TypedNetworks DEF InductiveInvariant, Item, Request, Assignment
<1>2. x.netId \in DOMAIN mNetworks
  BY DEF InductiveInvariant, ItemOK, RemovalOK
<1>3. Promise!RemoveInterface(x.netId, x.interface)
  BY <1>2 DEF Promise!RemoveInterface
<1> QED
  BY <1>1, <1>3, PromiseNames DEF Promise!Next, Promise!Change

\* An assignment to netd's state finds what the abstract step asks for.
LEMMA AssignRefines ==
    ASSUME InductiveInvariant, NEW x \in todo, \A y \in todo \ {x} : Before(x.at, y.at), assign(x)
    PROVE  Promise!Next
<1>1. x \in Item /\ ItemOK(x) /\ todo \subseteq Item
  BY TypedNetworks DEF InductiveInvariant
<1>2. CASE /\ x.op = "insert" /\ UNCHANGED mDefaultNetId
           /\ mNetworks' = [mNetworks EXCEPT ![x.netId].mInterfaces = @ \cup {x.interface}]
  <2>1. x.netId \in AllNetIds /\ x.interface \in Interfaces
    BY <1>1, <1>2 DEF Item, Request, Assignment
  <2>2. x.netId \in DOMAIN mNetworks /\ NetworksWithInterface(x.interface) = {}
    BY <1>1, <1>2 DEF ItemOK, InsertOK
  <2>3. Promise!AddInterface(x.netId, x.interface)
    BY <1>2, <2>2 DEF Promise!AddInterface, NetworksWithInterface
  <2> QED
    BY <2>1, <2>3, PromiseNames DEF Promise!Next, Promise!Change
<1>3. CASE /\ x.op = "erase" /\ UNCHANGED mDefaultNetId
           /\ mNetworks' = [mNetworks EXCEPT ![x.netId].mInterfaces = @ \ {x.interface}]
  BY <1>3, RemovalRefines
<1>4. CASE /\ x.op = "permission" /\ UNCHANGED mDefaultNetId
           /\ mNetworks' = [mNetworks EXCEPT ![x.netId].mPermission = x.permission]
  <2>1. x.netId \in NetIds /\ x.permission \in Permissions
    BY <1>1, <1>4 DEF Item, Request, Assignment
  <2>2. Promise!SetPermission(x.netId, x.permission)
    BY <1>1, <1>4 DEF ItemOK, isType, isValidNetwork, Promise!SetPermission, Promise!Exists
  <2> QED
    BY <2>1, <2>2, PromiseNames DEF Promise!Next, Promise!Change
<1>5. CASE /\ x.op = "users" /\ UNCHANGED mDefaultNetId
           /\ mNetworks' = [mNetworks EXCEPT ![x.netId].mUidRanges =
                               IF x.add THEN AddRanges(@, x.ranges) ELSE RemoveRanges(@, x.ranges)]
  <2>1. x.netId \in NetIds /\ x.ranges \in SUBSET Ranges /\ x.add \in BOOLEAN
    BY <1>1, <1>5 DEF Item, Request, Assignment
  <2>2. Promise!AddUsers(x.netId, x.ranges) \/ Promise!RemoveUsers(x.netId, x.ranges)
    BY <1>1, <1>5, <2>1, PromiseNames
       DEF ItemOK, isType, isValidNetwork, Promise!AddUsers, Promise!RemoveUsers, Promise!Exists
  <2> QED
    BY <2>1, <2>2, PromiseNames DEF Promise!Next, Promise!Change
<1>6. CASE /\ x.op = "isDefault" /\ UNCHANGED mDefaultNetId
           /\ mNetworks' = [mNetworks EXCEPT ![x.netId].mIsDefault = x.isDefault]
  <2>1. x.netId \in NetIds /\ x.isDefault \in BOOLEAN
    BY <1>1, <1>6 DEF Item, Request, Assignment
  <2>2. Promise!SetIsDefault(x.netId, x.isDefault)
    BY <1>1, <1>6 DEF ItemOK, IsDefaultOK, isType, isValidNetwork, Promise!SetIsDefault, Promise!Exists
  <2> QED
    BY <2>1, <2>2, PromiseNames DEF Promise!Next, Promise!Change
<1>7. CASE /\ x.op = "virtual" /\ UNCHANGED mDefaultNetId
           /\ mNetworks' = [n \in DOMAIN mNetworks \cup {x.netId} |->
                               IF n = x.netId THEN VirtualNetwork(x.hasDns, x.secure) ELSE mNetworks[n]]
  <2>1. x.netId \in VirtualNetIds /\ x.hasDns \in HasDns /\ x.secure \in BOOLEAN
    BY <1>1, <1>7 DEF Item, Request, Assignment
  <2>2. Promise!Create(x.netId, VirtualNetwork(x.hasDns, x.secure))
    BY <1>1, <1>7 DEF ItemOK, VirtualOK, Promise!Create
  <2> QED
    BY <2>1, <2>2, PromiseNames DEF Promise!Next, Promise!Change
<1>8. CASE x.op = "default" /\ mDefaultNetId' = x.netId /\ UNCHANGED mNetworks
  <2>1. x.netId \in NetIds \cup {NETID_UNSET} /\ DefaultOK(x)
    BY <1>1, <1>8 DEF Item, Request, Assignment, ItemOK
  <2>2. todo = {x}
    BY <1>1, <2>1, FirstAndLast DEF DefaultOK
  <2>3. Promise!SetDefault(x.netId)
    BY <1>8, <2>1, <2>2, PromiseNames DEF DefaultOK, isType, isValidNetwork, Promise!SetDefault, Promise!Exists
  <2> QED
    BY <2>1, <2>3, PromiseNames DEF Promise!Next, Promise!Change
<1> QED
  BY <1>2, <1>3, <1>4, <1>5, <1>6, <1>7, <1>8 DEF assign

\* Every step is a step of module Networks, or leaves the networks alone.
LEMMA NextRefines ==
    InductiveInvariant /\ [Next]_vars => [Promise!Next]_(Promise!netd)
<1> SUFFICES ASSUME InductiveInvariant, [Next]_vars PROVE Promise!Next \/ UNCHANGED netd
  BY DEF netd, Promise!netd
<1>1. CASE Command
  BY <1>1, CommandRefines
<1>2. CASE Step
  <2>1. PICK x \in todo :
          /\ \A y \in todo \ {x} : Before(x.at, y.at)
          /\ \/ getRouteTableForInterface(x) \/ sendRuleRequest(x) \/ execIptablesMark(x)
             \/ flushRoutes(x) \/ assign(x)
    BY <1>2 DEF Step
  <2>2. CASE getRouteTableForInterface(x) \/ sendRuleRequest(x) \/ execIptablesMark(x)
    BY <2>2 DEF getRouteTableForInterface, sendRuleRequest, execIptablesMark
  <2>3. CASE flushRoutes(x)
    BY <2>3, RemovalRefines DEF flushRoutes, netd
  <2>4. CASE assign(x)
    BY <2>1, <2>4, AssignRefines
  <2> QED
    BY <2>1, <2>2, <2>3, <2>4
<1>3. CASE destroyDefaultRules
  BY <1>3 DEF destroyDefaultRules
<1>4. CASE eraseNetwork
  <2> DEFINE n == destroying.netId
  <2>1. n \in NetIds /\ n \in DOMAIN mNetworks /\ n # LOCAL_NET_ID
    BY <1>4, ConstantTypes DEF eraseNetwork, InductiveInvariant, TypeOK, DestroyOK
  <2>2. Promise!Destroy(n)
    BY <1>4, <2>1, PromiseNames DEF eraseNetwork, Promise!Destroy
  <2> QED
    BY <2>1, <2>2, PromiseNames DEF Promise!Next, Promise!Change
<1>5. CASE \E i \in Unstable : InterfaceGone(i) \/ InterfaceCreated(i)
  BY <1>5 DEF InterfaceGone, InterfaceCreated
<1>6. CASE Restart
  <2>1. Promise!Restart
    BY <1>6, PromiseNames DEF Restart, Promise!Restart
  <2> QED
    BY <2>1 DEF Promise!Next, Promise!Change
<1>7. CASE UNCHANGED vars
  BY <1>7 DEF vars
<1> QED
  BY <1>1, <1>2, <1>3, <1>4, <1>5, <1>6, <1>7 DEF Next

\* NetworkController, with its kernel requests and their failures, implements
\* Networks: what readers of mNetworks and mDefaultNetId may rely on.
THEOREM Refinement == Spec => ImplementsNetworks
<1>1. Init => Promise!Init
  BY PromiseNames DEF Init, Promise!Init
<1> QED
  BY <1>1, NextRefines, CommandsKeepTheirFooting, PTL DEF Spec, ImplementsNetworks, Promise!Spec
=============================================================================
