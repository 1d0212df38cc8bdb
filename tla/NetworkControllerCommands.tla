--------------------- MODULE NetworkControllerCommands ---------------------
(***************************************************************************)
(* The initial state satisfies InductiveInvariant, and so does the state   *)
(* after a command has checked its arguments and made its plan.            *)
(***************************************************************************)
EXTENDS NetworkControllerPlans

\* Appending a rule to the INPUT chain leaves a bag of marks.
LEMMA BagAddType ==
    ASSUME NEW B, IsABag(B), NEW M, DOMAIN B \subseteq M, NEW m \in M
    PROVE  IsABag(B (+) SetToBag({m})) /\ DOMAIN (B (+) SetToBag({m})) \subseteq M
BY DEF IsABag, SetToBag, (+)

\* Deleting a rule from the INPUT chain leaves a bag of marks.
LEMMA BagRemoveType ==
    ASSUME NEW B, IsABag(B), NEW M, DOMAIN B \subseteq M, NEW m \in M
    PROVE  IsABag(B (-) SetToBag({m})) /\ DOMAIN (B (-) SetToBag({m})) \subseteq M
BY DEF IsABag, SetToBag, (-)

\* A step that is the first of the command and the last of it is all of it.
LEMMA FirstAndLast ==
    ASSUME NEW x \in todo, todo \subseteq Item, Last(x), \A y \in todo \ {x} : Before(x.at, y.at)
    PROVE  todo = {x}
<1>1. SUFFICES ASSUME NEW y \in todo \ {x} PROVE FALSE
  OBVIOUS
<1>2. x.at \in Path /\ y.at \in Path
  BY DEF Item, Request, Assignment, Path
<1> QED
  BY <1>2, BeforeAsymmetric DEF Last

\* The part of TypeOK that the plans of the commands rely on.
LEMMA TypedNetworks == TypeOK => NetworksTyped /\ todo \subseteq Item
BY DEF TypeOK, NetworksTyped, Item

\* The three kinds of networks are records of the type.
LEMMA ConstructorTypes ==
    /\ NoRanges \in [Ranges -> Nat]
    /\ \A p \in Permission : PhysicalNetwork(p) \in Network
    /\ \A d \in BOOLEAN, s \in BOOLEAN : VirtualNetwork(d, s) \in Network
    /\ LocalNetwork \in Network
<1>1. NoRanges \in [Ranges -> Nat]
  BY DEF NoRanges
<1> QED
  BY <1>1, ConstantTypes DEF PhysicalNetwork, VirtualNetwork, LocalNetwork, Network

\* UidRanges::add and remove keep the vector a bag of ranges.
LEMMA RangesTypes ==
    ASSUME NEW bag \in [Ranges -> Nat], NEW rs \in SUBSET Ranges
    PROVE  AddRanges(bag, rs) \in [Ranges -> Nat] /\ RemoveRanges(bag, rs) \in [Ranges -> Nat]
BY DEF AddRanges, RemoveRanges

\* The state netd starts in satisfies the invariant.
LEMMA InitInvariant == Init => InductiveInvariant
<1> SUFFICES ASSUME Init PROVE InductiveInvariant
  OBVIOUS
<1>1. DOMAIN mNetworks = {LOCAL_NET_ID} /\ mNetworks[LOCAL_NET_ID] = LocalNetwork
  BY DEF Init
<1>2. TypeOK
  <2>1. DOMAIN mNetworks \subseteq AllNetIds /\ \A n \in DOMAIN mNetworks : mNetworks[n] \in Network
    BY <1>1, ConstructorTypes, ConstantTypes
  <2>2. \A f \in Family : IsABag(marks[f]) /\ DOMAIN marks[f] \subseteq IncomingMark
    BY DEF Init, EmptyBag, SetToBag, IsABag
  <2> QED
    BY <2>1, <2>2 DEF Init, flushRules, TypeOK, NETID_UNSET
<1>3. DefaultIsPhysical
  BY <1>1 DEF Init, DefaultIsPhysical, isType, isValidNetwork, LocalNetwork
<1>4. OneNetworkPerInterface /\ AssignedInterfaceHasTable
  BY <1>1 DEF OneNetworkPerInterface, AssignedInterfaceHasTable, NetworksWithInterface, LocalNetwork
<1>5. DestroyOK /\ Flagged /\ \A x \in todo : ItemOK(x)
  BY DEF Init, DestroyOK, Flagged
<1> QED
  BY <1>2, <1>3, <1>4, <1>5 DEF InductiveInvariant

(***************************************************************************)
(* Commands that only make a plan.                                         *)
(***************************************************************************)
LEMMA StartInvariant ==
    ASSUME InductiveInvariant, NEW S \in SUBSET Item, Start(S), (\A x \in todo : ItemOK(x))'
    PROVE  InductiveInvariant'
<1>1. /\ todo = {} /\ destroying.netId = NETID_UNSET /\ todo' = S
      /\ UNCHANGED <<mNetworks, mDefaultNetId, rules, marks, ifindex, lastIndex,
                     interfaceToTable, destroying, faults, failed>>
  BY DEF Start, Admit, Idle, netd, kernel, index, outcome
<1>2. retries' \in Nat
  BY DEF Start, Admit, InductiveInvariant, TypeOK
<1>3. TypeOK'
  BY <1>1, <1>2 DEF InductiveInvariant, TypeOK, Item
<1>4. DefaultIsPhysical' /\ OneNetworkPerInterface' /\ AssignedInterfaceHasTable'
  BY <1>1 DEF InductiveInvariant, DefaultIsPhysical, OneNetworkPerInterface,
     AssignedInterfaceHasTable, NetworksWithInterface, isType, isValidNetwork
<1>5. DestroyOK' /\ Flagged'
  BY <1>1 DEF InductiveInvariant, DestroyOK, Flagged, TypeOK
<1> QED
  BY <1>3, <1>4, <1>5 DEF InductiveInvariant

\* Requests need nothing of netd's state.
LEMMA RequestsOK ==
    ASSUME NEW p \in Path, NEW x \in RequestsAt(p)
    PROVE  ItemOK(x) /\ ItemOK(x)'
BY RequestsHaveOps DEF ItemOK, RequestOps

\* A request made under one statement comes before a later statement.
LEMMA BeforeStatement ==
    ASSUME NEW a \in Nat, NEW b \in Nat, a < b, NEW x \in RequestsAt(<<a>>)
    PROVE  Before(x.at, <<b>>)
<1>1. <<a>> \in Path /\ <<b>> \in Path
  BY Steps
<1>2. x.at \in Path /\ Under(<<a>>, x.at)
  BY <1>1, RequestsHaveOps
<1>3. Under(<<b>>, <<b>>)
  BY <1>1 DEF Under, Path
<1> QED
  BY <1>1, <1>2, <1>3, UnderBefore

\* addInterfaceToNetwork keeps the invariant.
LEMMA AddInterfaceInvariant ==
    ASSUME InductiveInvariant, NEW n \in AllNetIds, NEW i \in Interfaces, addInterfaceToNetwork(n, i)
    PROVE  InductiveInvariant'
<1> DEFINE A == addInterface(<<1>>, n, i)
           x == Insert(<<2>>, n, i)
<1>1. n \in DOMAIN mNetworks /\ NetworksWithInterface(i) = {} /\ Start(A \cup {x})
  BY DEF addInterfaceToNetwork, isValidNetwork
<1>2. <<1>> \in Path /\ <<2>> \in Path
  BY Steps
<1>3. NetworksTyped
  BY TypedNetworks DEF InductiveInvariant
<1>4. /\ A \subseteq RequestsAt(<<1>>)
      /\ mNetworks[n].type # "LOCAL" => \E y \in A : y.op = "lookup" /\ y.interface = i
  BY <1>1, <1>2, <1>3, AddInterfaceRequests
<1>5. x \in Item /\ x.at = <<2>> /\ x.op = "insert" /\ x.netId = n /\ x.interface = i
  BY <1>2 DEF Insert, Item, Assignment, Path
<1>6. todo' = A \cup {x} /\ UNCHANGED <<mNetworks, interfaceToTable>>
  BY <1>1 DEF Start, netd
<1> HIDE DEF A, x
<1>7. \A y \in A : y.op \in RequestOps /\ Before(y.at, <<2>>) /\ ItemOK(y)'
  BY <1>2, <1>4, RequestsHaveOps, BeforeStatement, RequestsOK
<1>8. InsertOK(x)'
  <2>1. Last(x)' /\ Only(RequestOps \cup {"insert"})'
    BY <1>5, <1>6, <1>7 DEF Last, Only
  <2>2. (NetworksWithInterface(x.interface) = {})' /\ (x.netId \in DOMAIN mNetworks)'
    BY <1>1, <1>5, <1>6 DEF NetworksWithInterface
  <2> QED
    BY <1>4, <1>5, <1>6, <2>1, <2>2 DEF InsertOK
<1>9. ItemOK(x)'
  BY <1>5, <1>8 DEF ItemOK
<1>10. A \cup {x} \in SUBSET Item
  BY <1>2, <1>4, <1>5, RequestsHaveOps
<1> QED
  BY <1>1, <1>6, <1>7, <1>9, <1>10, StartInvariant

\* Items that forget interfaces of a network are fine while there is nothing else.
LEMMA RemovalsOK ==
    ASSUME InductiveInvariant, NEW n \in DOMAIN mNetworks, NEW S,
           \A x \in S : x \in RequestsAt(<< 1 >>) \/ \E i \in mNetworks[n].mInterfaces : Removes(x, n, i),
           todo' = S, UNCHANGED mNetworks
    PROVE  S \in SUBSET Item /\ (\A x \in todo : ItemOK(x))' /\ Only(Removal)'
<1>1. <<1>> \in Path
  BY Steps
<1>2. S \in SUBSET Item /\ \A x \in S : x.op \in Removal
  BY <1>1, RequestsHaveOps DEF Removes, Item, Removal
<1>3. Only(Removal)'
  BY <1>2 DEF Only
<1>4. ASSUME NEW x \in S, NEW i \in mNetworks[n].mInterfaces, Removes(x, n, i)
      PROVE  ItemOK(x)'
  <2>1. NetworksWithInterface(i) \subseteq {n}
    <3>1. i \in Interfaces
      BY TypedNetworks, NetworkFields DEF InductiveInvariant
    <3> QED
      BY <3>1 DEF InductiveInvariant, OneNetworkPerInterface, NetworksWithInterface
  <2>2. RemovalOK(x)'
    BY <1>3, <1>4, <2>1 DEF RemovalOK, Removes, NetworksWithInterface
  <2> QED
    BY <1>4, <2>2 DEF ItemOK, Removes
<1> QED
  BY <1>1, <1>2, <1>3, <1>4, RequestsOK

\* removeInterfaceFromNetwork keeps the invariant.
LEMMA RemoveInterfaceInvariant ==
    ASSUME InductiveInvariant, NEW n \in AllNetIds, NEW i \in Interfaces,
           removeInterfaceFromNetwork(n, i)
    PROVE  InductiveInvariant'
<1> DEFINE S == removeInterface(<<1>>, n, i)
<1>1. n \in DOMAIN mNetworks /\ i \in mNetworks[n].mInterfaces /\ Start(S)
  BY DEF removeInterfaceFromNetwork, isValidNetwork
<1>2. \A x \in S : x \in RequestsAt(<<1>>) \/ Removes(x, n, i)
  BY <1>1, Steps, TypedNetworks, RemoveInterfaceItems DEF InductiveInvariant
<1>3. todo' = S /\ UNCHANGED mNetworks
  BY <1>1 DEF Start, netd
<1> HIDE DEF S
<1>4. S \in SUBSET Item /\ (\A x \in todo : ItemOK(x))'
  BY <1>1, <1>2, <1>3, RemovalsOK
<1> QED
  BY <1>1, <1>4, StartInvariant

\* createVirtualNetwork keeps the invariant.
LEMMA CreateVirtualInvariant ==
    ASSUME InductiveInvariant, NEW n \in VirtualNetIds, NEW d \in HasDns, NEW s \in BOOLEAN,
           createVirtualNetwork(n, d, s)
    PROVE  InductiveInvariant'
<1> DEFINE A == modifyFallthroughLocked(<<1>>, n, TRUE)
           x == NewVirtualNetwork(<<2>>, n, d, s)
<1>1. n \notin DOMAIN mNetworks /\ Start(A \cup {x})
  BY DEF createVirtualNetwork, isValidNetwork
<1>2. <<1>> \in Path /\ <<2>> \in Path
  BY Steps
<1>3. A \subseteq RequestsAt(<<1>>)
  BY <1>2, TypedNetworks, ConstantTypes, FallthroughLockedRequests DEF InductiveInvariant
<1>4. x \in Item /\ x.at = <<2>> /\ x.op = "virtual" /\ x.netId = n
  BY <1>2 DEF NewVirtualNetwork, Item, Assignment, Path
<1>5. \A y \in A : y.op \in RequestOps
  BY <1>2, <1>3, RequestsHaveOps
<1>6. todo' = A \cup {x} /\ UNCHANGED mNetworks
  BY <1>1 DEF Start, netd
<1> HIDE DEF A, x
<1>7. \A y \in A : Before(y.at, <<2>>) /\ ItemOK(y)'
  BY <1>2, <1>3, BeforeStatement, RequestsOK
<1>8. Last(x)' /\ Only(RequestOps \cup {"virtual"})'
  BY <1>4, <1>5, <1>6, <1>7 DEF Last, Only
<1>9. ItemOK(x)'
  BY <1>1, <1>4, <1>6, <1>8 DEF ItemOK, VirtualOK
<1>10. A \cup {x} \in SUBSET Item
  BY <1>2, <1>3, <1>4, RequestsHaveOps
<1> QED
  BY <1>1, <1>6, <1>7, <1>9, <1>10, StartInvariant

\* setPermissionForNetworks keeps the invariant.
LEMMA SetPermissionInvariant ==
    ASSUME InductiveInvariant, NEW permission \in Permissions, NEW netIds \in NetIdLists,
           setPermissionForNetworks(permission, netIds)
    PROVE  InductiveInvariant'
<1> DEFINE S == UNION { setPermission(<<k>>, netIds[k], permission) : k \in DOMAIN netIds }
<1>1. /\ Start(S) /\ \A k \in DOMAIN netIds : isType(netIds[k], "PHYSICAL")
  BY DEF setPermissionForNetworks
<1>2. \A k \in DOMAIN netIds : k \in Nat /\ netIds[k] \in NetIds
  <2>1. PICK m \in 1..MaxNetIds : netIds \in [1..m -> PhysicalNetIds]
    BY DEF NetIdLists
  <2>2. m \in Nat
    BY NetworkControllerAssumption
  <2>3. DOMAIN netIds = 1..m /\ \A k \in 1..m : netIds[k] \in PhysicalNetIds
    BY <2>1
  <2>4. \A k \in 1..m : k \in Nat
    BY <2>2
  <2> QED
    BY <2>3, <2>4, ConstantTypes
<1>3. todo' = S /\ UNCHANGED mNetworks
  BY <1>1 DEF Start, netd
<1>4. ASSUME NEW x \in S
      PROVE  x \in Item /\ ItemOK(x)'
  <2>1. PICK k \in DOMAIN netIds : x \in setPermission(<<k>>, netIds[k], permission)
    OBVIOUS
  <2>2. <<k>> \in Path /\ <<k>> \o <<3>> \in Path
    BY <1>2, Steps
  <2>3. netIds[k] \in DOMAIN mNetworks /\ permission \in Permission
    BY <1>1, ConstantTypes DEF isType, isValidNetwork
  <2>4. x \in RequestsAt(<<k>>) \/ x = SetPermission(<<k>> \o <<3>>, netIds[k], permission)
    BY <2>1, <2>2, <2>3, TypedNetworks, SetPermissionItems DEF InductiveInvariant
  <2>5. CASE x \in RequestsAt(<<k>>)
    BY <2>2, <2>5, RequestsHaveOps, RequestsOK
  <2>6. CASE x = SetPermission(<<k>> \o <<3>>, netIds[k], permission)
    <3>1. x \in Item
      BY <1>2, <2>2, <2>6 DEF SetPermission, Item, Assignment, Path
    <3>2. x.op = "permission" /\ x.netId = netIds[k]
      BY <2>6 DEF SetPermission
    <3> QED
      BY <1>1, <1>3, <3>1, <3>2 DEF ItemOK, isType, isValidNetwork
  <2> QED
    BY <2>4, <2>5, <2>6
<1> HIDE DEF S
<1> QED
  BY <1>1, <1>3, <1>4, StartInvariant

\* addUsersToNetwork and removeUsersFromNetwork keep the invariant.
LEMMA ModifyUsersInvariant ==
    ASSUME InductiveInvariant, NEW n \in VirtualNetIds, NEW rs \in SUBSET Ranges, NEW add \in BOOLEAN,
           isType(n, "VIRTUAL"), Start(modifyUsers(<< 1 >>, n, rs, add))
    PROVE  InductiveInvariant'
<1> DEFINE S == modifyUsers(<<1>>, n, rs, add)
<1>1. todo' = S /\ UNCHANGED mNetworks /\ n \in DOMAIN mNetworks /\ n \in NetIds
  BY ConstantTypes DEF Start, netd, isType, isValidNetwork
<1>2. <<1>> \in Path /\ <<1>> \o <<2>> \in Path
  BY Steps
<1>3. ASSUME NEW x \in S
      PROVE  x \in Item /\ ItemOK(x)'
  <2>1. x \in RequestsAt(<<1>>) \/ x = SetUidRanges(<<1>> \o <<2>>, n, add, rs)
    BY <1>1, <1>2, TypedNetworks, ModifyUsersItems DEF InductiveInvariant
  <2>2. CASE x \in RequestsAt(<<1>>)
    BY <1>2, <2>2, RequestsHaveOps, RequestsOK
  <2>3. CASE x = SetUidRanges(<<1>> \o <<2>>, n, add, rs)
    <3>1. x \in Item /\ x.op = "users" /\ x.netId = n
      BY <1>1, <1>2, <2>3 DEF SetUidRanges, Item, Assignment, Path
    <3> QED
      BY <1>1, <3>1 DEF ItemOK, isType, isValidNetwork
  <2> QED
    BY <2>1, <2>2, <2>3
<1> QED
  BY <1>1, <1>3, StartInvariant

\* The assignment to mIsDefault comes after the requests of its method.
LEMMA SetIsDefaultItem ==
    ASSUME NEW a \in Nat, NEW n \in NetIds, NEW b \in BOOLEAN
    PROVE  LET x == SetIsDefault(<<a>> \o <<2>>, n, b)
           IN  /\ x \in Item /\ x.op = "isDefault" /\ x.netId = n /\ x.isDefault = b
               /\ Under(<<a>>, x.at)
               /\ \A y \in RequestsAt(<<a>> \o <<1>>) : y \in RequestsAt(<<a>>) /\ Before(y.at, x.at)
<1> DEFINE x == SetIsDefault(<<a>> \o <<2>>, n, b)
<1>1. /\ <<a>> \in Path /\ <<1>> \in Path /\ <<2>> \in Path
      /\ <<a>> \o <<1>> \in Path /\ <<a>> \o <<2>> \in Path
  BY Steps
<1>2. x \in Item /\ x.op = "isDefault" /\ x.netId = n /\ x.isDefault = b /\ x.at = <<a>> \o <<2>>
  BY <1>1 DEF SetIsDefault, Item, Assignment, Path
<1>3. Under(<<a>>, <<a>> \o <<2>>)
  BY <1>1, UnderSelf
<1>4. Under(<<a>> \o <<2>>, <<a>> \o <<2>>)
  BY <1>1 DEF Under, Path
<1>5. ASSUME NEW y \in RequestsAt(<<a>> \o << 1 >>)
      PROVE  y \in RequestsAt(<<a>>) /\ Before(y.at, <<a>> \o <<2>>)
  <2>1. y.at \in Path /\ Under(<<a>> \o <<1>>, y.at)
    BY <1>1, RequestsHaveOps
  <2>2. Before(y.at, <<a>> \o <<2>>)
    BY <1>1, <1>4, <2>1, UnderBeforeIn
  <2> QED
    BY <1>1, <2>2, RequestsAtPrefix
<1> QED
  BY <1>2, <1>3, <1>5

\* removeAsDefault at statement 2, without what addAsDefault does before it.
LEMMA RemoveAsDefaultPlan ==
    ASSUME InductiveInvariant, NEW n \in NetIds, isType(n, "PHYSICAL")
    PROVE  /\ removeAsDefault(<<2>>, n) \subseteq Item
           /\ \A y \in removeAsDefault(<<2>>, n) :
                /\ Under(<<2>>, y.at)
                /\ \/ y \in RequestsAt(<<2>>)
                   \/ /\ y.op = "isDefault" /\ y.netId = n /\ ~y.isDefault
                      /\ \A z \in removeAsDefault(<<2>>, n) \ {y} : Before(z.at, y.at)
           /\ mNetworks[n].mIsDefault =>
                \E y \in removeAsDefault(<<2>>, n) : y.op = "isDefault" /\ y.netId = n
<1> DEFINE x == SetIsDefault(<<2>> \o <<2>>, n, FALSE)
           A == removeAsDefault(<<2>>, n)
<1>1. <<2>> \in Path /\ <<2>> \o <<1>> \in Path /\ n \in DOMAIN mNetworks
  BY Steps DEF isType, isValidNetwork
<1>2. /\ x \in Item /\ x.op = "isDefault" /\ x.netId = n /\ x.isDefault = FALSE /\ Under(<<2>>, x.at)
      /\ \A y \in RequestsAt(<<2>> \o <<1>>) : y \in RequestsAt(<<2>>) /\ Before(y.at, x.at)
  BY SetIsDefaultItem
<1>3. /\ ~mNetworks[n].mIsDefault => A = {}
      /\ mNetworks[n].mIsDefault => x \in A /\ A \ {x} \subseteq RequestsAt(<<2>> \o <<1>>)
  BY <1>1, TypedNetworks, AsDefaultItems DEF InductiveInvariant
<1>4. mNetworks[n].mIsDefault \in BOOLEAN
  BY <1>1, TypedNetworks, NetworkFields DEF InductiveInvariant
<1> HIDE DEF x, A
<1>5. CASE ~mNetworks[n].mIsDefault
  BY <1>3, <1>5 DEF A
<1>6. CASE mNetworks[n].mIsDefault
  <2>1. \A y \in A : y = x \/ (y \in RequestsAt(<<2>>) /\ Before(y.at, x.at))
    BY <1>2, <1>3, <1>6
  <2>2. \A y \in RequestsAt(<<2>>) : y \in Item /\ Under(<<2>>, y.at)
    BY <1>1, RequestsHaveOps
  <2>3. A \subseteq Item /\ \A y \in A : Under(<<2>>, y.at)
    BY <1>2, <2>1, <2>2
  <2>4. \A y \in A : y \in RequestsAt(<<2>>)
                     \/ (/\ y.op = "isDefault" /\ y.netId = n /\ ~y.isDefault
                         /\ \A z \in A \ {y} : Before(z.at, y.at))
    BY <1>2, <2>1
  <2>5. \E y \in A : y.op = "isDefault" /\ y.netId = n
    BY <1>2, <1>3, <1>6
  <2> QED
    BY <2>3, <2>4, <2>5 DEF A
<1> QED
  BY <1>4, <1>5, <1>6

\* addAsDefault at statement 1.
LEMMA AddAsDefaultPlan ==
    ASSUME InductiveInvariant, NEW n \in NetIds, isType(n, "PHYSICAL")
    PROVE  /\ addAsDefault(<<1>>, n) \subseteq Item
           /\ \A y \in addAsDefault(<<1>>, n) :
                /\ Under(<<1>>, y.at)
                /\ y \in RequestsAt(<<1>>) \/ (y.op = "isDefault" /\ y.netId = n /\ y.isDefault = TRUE)
           /\ ~mNetworks[n].mIsDefault =>
                \E y \in addAsDefault(<<1>>, n) : y.op = "isDefault" /\ y.netId = n
<1> DEFINE x == SetIsDefault(<<1>> \o <<2>>, n, TRUE)
           A == addAsDefault(<<1>>, n)
<1>1. <<1>> \in Path /\ <<1>> \o <<1>> \in Path /\ n \in DOMAIN mNetworks
  BY Steps DEF isType, isValidNetwork
<1>2. /\ x \in Item /\ x.op = "isDefault" /\ x.netId = n /\ x.isDefault = TRUE /\ Under(<<1>>, x.at)
      /\ \A y \in RequestsAt(<<1>> \o <<1>>) : y \in RequestsAt(<<1>>)
  BY SetIsDefaultItem
<1>3. /\ mNetworks[n].mIsDefault => A = {}
      /\ ~mNetworks[n].mIsDefault => x \in A /\ A \ {x} \subseteq RequestsAt(<<1>> \o <<1>>)
  BY <1>1, TypedNetworks, AsDefaultItems DEF InductiveInvariant
<1>4. mNetworks[n].mIsDefault \in BOOLEAN
  BY <1>1, TypedNetworks, NetworkFields DEF InductiveInvariant
<1> HIDE DEF x, A
<1>5. \A y \in RequestsAt(<<1>>) : y \in Item /\ Under(<<1>>, y.at)
  BY <1>1, RequestsHaveOps
<1> QED
  BY <1>2, <1>3, <1>4, <1>5 DEF A

\* setDefaultNetwork keeps the invariant.
LEMMA SetDefaultInvariant ==
    ASSUME InductiveInvariant, NEW n \in NetIds \cup {NETID_UNSET}, setDefaultNetwork(n)
    PROVE  InductiveInvariant'
<1> DEFINE A == IF n = NETID_UNSET THEN {} ELSE addAsDefault(<<1>>, n)
           B == IF mDefaultNetId = NETID_UNSET THEN {} ELSE removeAsDefault(<<2>>, mDefaultNetId)
           x == SetDefaultNetId(<<3>>, n)
<1>1. /\ n # mDefaultNetId /\ (n = NETID_UNSET \/ isType(n, "PHYSICAL"))
      /\ mDefaultNetId # NETID_UNSET => isType(mDefaultNetId, "PHYSICAL")
      /\ mDefaultNetId \in NetIds \cup {NETID_UNSET}
  BY DEF setDefaultNetwork, InductiveInvariant, DefaultIsPhysical, TypeOK
<1>2. Start((A \cup B) \cup {x})
  <2>1. CASE mDefaultNetId = NETID_UNSET
    <3>1. Start(A \cup {x})
      BY <2>1 DEF setDefaultNetwork
    <3> QED
      BY <2>1, <3>1
  <2>2. CASE mDefaultNetId # NETID_UNSET
    <3>1. Start(A \cup (removeAsDefault(<<2>>, mDefaultNetId) \cup {x}))
      BY <1>1, <2>2 DEF setDefaultNetwork
    <3>2. A \cup (removeAsDefault(<<2>>, mDefaultNetId) \cup {x}) = (A \cup B) \cup {x}
      BY <2>2
    <3> QED
      BY <3>1, <3>2
  <2> QED
    BY <2>1, <2>2
<1>3. /\ <<1>> \in Path /\ <<2>> \in Path /\ <<3>> \in Path
      /\ x \in Item /\ x.at = <<3>> /\ x.op = "default" /\ x.netId = n
  BY Steps DEF SetDefaultNetId, Item, Assignment, Path
<1>4. /\ A \subseteq Item
      /\ \A y \in A : /\ Under(<<1>>, y.at)
                      /\ \/ y \in RequestsAt(<<1>>)
                         \/ /\ y.op = "isDefault" /\ y.netId = n /\ y.isDefault = TRUE
                            /\ n # NETID_UNSET
      /\ n # NETID_UNSET /\ ~mNetworks[n].mIsDefault =>
            \E y \in A : y.op = "isDefault" /\ y.netId = n
  BY <1>1, AddAsDefaultPlan
<1>5. /\ B \subseteq Item
      /\ \A y \in B : /\ Under(<<2>>, y.at)
                      /\ \/ y \in RequestsAt(<<2>>)
                         \/ /\ y.op = "isDefault" /\ y.netId = mDefaultNetId /\ ~y.isDefault
                            /\ mDefaultNetId # NETID_UNSET
                            /\ \A z \in B \ {y} : Before(z.at, y.at)
      /\ mDefaultNetId # NETID_UNSET /\ mNetworks[mDefaultNetId].mIsDefault =>
            \E y \in B : y.op = "isDefault" /\ y.netId = mDefaultNetId
  BY <1>1, RemoveAsDefaultPlan
<1>6. todo' = (A \cup B) \cup {x} /\ UNCHANGED <<mNetworks, mDefaultNetId, destroying>>
  BY <1>2 DEF Start, netd
<1> HIDE DEF A, B, x
<1>7. \A y \in Item : y.at \in Path
  BY DEF Item, Request, Assignment, Path
<1>8. \A y \in A \cup B : Before(y.at, <<3>>)
  <2>1. Under(<<3>>, <<3>>)
    BY <1>3 DEF Under, Path
  <2> QED
    BY <1>3, <1>4, <1>5, <1>7, <2>1, UnderBefore
<1>9. \A y \in A, z \in B : Before(y.at, z.at)
  BY <1>4, <1>5, <1>7, UnderBefore
<1>10. \A y \in A \cup B : y.op \in RequestOps \cup {"isDefault"}
  BY <1>3, <1>4, <1>5, RequestsHaveOps
<1>11. ItemOK(x)'
  <2>1. Last(x)'
    BY <1>3, <1>6, <1>8 DEF Last
  <2>2. Only(RequestOps \cup {"isDefault", "default"})'
    BY <1>3, <1>6, <1>10 DEF Only
  <2>3. DefaultOK(x)'
    BY <1>1, <1>3, <1>4, <1>5, <1>6, <2>1, <2>2 DEF DefaultOK, isType, isValidNetwork
  <2> QED
    BY <1>3, <2>3 DEF ItemOK
<1>12. ASSUME NEW y \in A PROVE ItemOK(y)'
  <2>1. CASE y \in RequestsAt(<<1>>)
    BY <1>3, <2>1, RequestsOK
  <2>2. CASE y.op = "isDefault" /\ y.netId = n /\ y.isDefault = TRUE /\ n # NETID_UNSET
    <3>1. IsDefaultOK(y)'
      BY <1>1, <1>3, <1>6, <2>2 DEF IsDefaultOK, isType, isValidNetwork
    <3> QED
      BY <2>2, <3>1 DEF ItemOK
  <2> QED
    BY <1>4, <2>1, <2>2
<1>13. ASSUME NEW y \in B PROVE ItemOK(y)'
  <2>1. CASE y \in RequestsAt(<<2>>)
    BY <1>3, <2>1, RequestsOK
  <2>2. CASE /\ y.op = "isDefault" /\ y.netId = mDefaultNetId /\ ~y.isDefault
             /\ mDefaultNetId # NETID_UNSET
             /\ \A z \in B \ {y} : Before(z.at, y.at)
    <3>1. (\A z \in todo \ {y} : y.isDefault \/ z.op = "default" \/ Before(z.at, y.at))'
      BY <1>3, <1>6, <1>9, <2>2
    <3>2. IsDefaultOK(y)'
      BY <1>1, <1>3, <1>6, <2>2, <3>1 DEF IsDefaultOK, isType, isValidNetwork
    <3> QED
      BY <2>2, <3>2 DEF ItemOK
  <2> QED
    BY <1>5, <2>1, <2>2
<1>14. (A \cup B) \cup {x} \in SUBSET Item
  BY <1>3, <1>4, <1>5
<1> QED
  BY <1>2, <1>6, <1>11, <1>12, <1>13, <1>14, StartInvariant

(***************************************************************************)
(* The commands that assign at once, and the phases of destroyNetwork.     *)
(***************************************************************************)
LEMMA DestroyInvariant ==
    ASSUME InductiveInvariant, NEW n \in NetIds, destroyNetwork(n)
    PROVE  InductiveInvariant'
<1> DEFINE S == clearInterfaces(<<1>>, n)
<1>1. /\ todo = {} /\ n \in DOMAIN mNetworks /\ todo' = S
      /\ destroying' = [netId |-> n, phase |-> "clearInterfaces"]
      /\ UNCHANGED <<mNetworks, mDefaultNetId, rules, marks, ifindex, lastIndex,
                     interfaceToTable, faults, failed>>
  BY DEF destroyNetwork, Admit, Idle, isValidNetwork, netd, kernel, index, outcome
<1>2. retries' \in Nat
  BY DEF destroyNetwork, Admit, InductiveInvariant, TypeOK
<1>3. \A x \in S : x \in RequestsAt(<<1>>) \/ \E i \in mNetworks[n].mInterfaces : Removes(x, n, i)
  BY <1>1, Steps, TypedNetworks, ClearInterfacesItems DEF InductiveInvariant
<1> HIDE DEF S
<1>4. S \in SUBSET Item /\ (\A x \in todo : ItemOK(x))' /\ Only(Removal)'
  BY <1>1, <1>3, RemovalsOK
<1>5. TypeOK'
  BY <1>1, <1>2, <1>4 DEF InductiveInvariant, TypeOK, Item
<1>6. DefaultIsPhysical' /\ OneNetworkPerInterface' /\ AssignedInterfaceHasTable'
  BY <1>1 DEF InductiveInvariant, DefaultIsPhysical, OneNetworkPerInterface,
     AssignedInterfaceHasTable, NetworksWithInterface, isType, isValidNetwork
<1>7. DestroyOK'
  BY <1>1, <1>4, ConstantTypes DEF DestroyOK, Only
<1>8. Flagged'
  <2>1. destroying.netId = NETID_UNSET
    BY DEF destroyNetwork, Admit, Idle
  <2> QED
    BY <1>1, <2>1 DEF InductiveInvariant, Flagged, TypeOK
<1> QED
  BY <1>4, <1>5, <1>6, <1>7, <1>8 DEF InductiveInvariant
=============================================================================
