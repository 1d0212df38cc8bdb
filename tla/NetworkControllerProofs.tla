---------------------- MODULE NetworkControllerProofs ----------------------
(***************************************************************************)
(* The invariants of module NetworkController, for any interfaces, netIds, *)
(* permissions and uid ranges, any number of failed requests and any       *)
(* coming and going of interfaces.                                         *)
(***************************************************************************)
EXTENDS NetworkControllerCommands

(***************************************************************************)
(* Creating a physical network, and the phases of destroyNetwork.          *)
(***************************************************************************)

\* createPhysicalNetwork: the new network has no interfaces and is not the default.
LEMMA CreatePhysicalInvariant ==
    ASSUME InductiveInvariant, NEW n \in PhysicalNetIds, NEW p \in Permissions,
           createPhysicalNetwork(n, p)
    PROVE  InductiveInvariant'
<1> DEFINE new == PhysicalNetwork(p)
<1>1. /\ todo = {} /\ destroying.netId = NETID_UNSET /\ n \notin DOMAIN mNetworks
      /\ DOMAIN mNetworks' = DOMAIN mNetworks \cup {n}
      /\ \A m \in DOMAIN mNetworks : mNetworks'[m] = mNetworks[m]
      /\ mNetworks'[n] = new
      /\ UNCHANGED <<mDefaultNetId, rules, marks, ifindex, lastIndex, interfaceToTable,
                     todo, destroying, faults, failed>>
  BY DEF createPhysicalNetwork, Admit, Idle, isValidNetwork, kernel, index, outcome
<1>2. retries' \in Nat
  BY DEF createPhysicalNetwork, Admit, InductiveInvariant, TypeOK
<1>3. new \in Network /\ new.mInterfaces = {} /\ n \in AllNetIds
  <2>1. new \in Network /\ n \in AllNetIds
    BY ConstructorTypes, ConstantTypes
  <2> QED
    BY <2>1 DEF PhysicalNetwork
<1> HIDE DEF new
<1>4. TypeOK'
  BY <1>1, <1>2, <1>3 DEF InductiveInvariant, TypeOK
<1>5. DefaultIsPhysical' /\ OneNetworkPerInterface' /\ AssignedInterfaceHasTable'
  BY <1>1, <1>3 DEF InductiveInvariant, DefaultIsPhysical, OneNetworkPerInterface,
     AssignedInterfaceHasTable, NetworksWithInterface, isType, isValidNetwork
<1>6. DestroyOK' /\ Flagged'
  BY <1>1 DEF InductiveInvariant, DestroyOK, Flagged, DefaultIsPhysical, isType, isValidNetwork, Only
<1> QED
  BY <1>1, <1>4, <1>5, <1>6 DEF InductiveInvariant

\* destroyNetwork after clearInterfaces: removeAsDefault, or the VPN's fallthrough rules.
LEMMA DestroyDefaultRulesInvariant ==
    ASSUME InductiveInvariant, destroyDefaultRules
    PROVE  InductiveInvariant'
<1> DEFINE n == destroying.netId
           S == todo'
<1>1. /\ todo = {} /\ destroying.phase = "clearInterfaces"
      /\ destroying' = [destroying EXCEPT !.phase = "removeAsDefault"]
      /\ S = IF mDefaultNetId = n THEN removeAsDefault(<<2>>, n)
             ELSE IF isType(n, "VIRTUAL") THEN modifyFallthroughLocked(<<2>>, n, FALSE) ELSE {}
      /\ UNCHANGED <<mNetworks, mDefaultNetId, rules, marks, ifindex, lastIndex,
                     interfaceToTable, faults, failed, retries>>
  BY DEF destroyDefaultRules, netd, kernel, index, outcome
<1>2. n \in NetIds /\ n \in DOMAIN mNetworks /\ n # NETID_UNSET
  BY <1>1 DEF InductiveInvariant, TypeOK, DestroyOK
<1>3. destroying'.netId = n /\ destroying' \in [netId : NetIds \cup {NETID_UNSET},
         phase : {"none", "clearInterfaces", "removeAsDefault"}]
      /\ destroying'.phase = "removeAsDefault"
  BY <1>1 DEF InductiveInvariant, TypeOK
<1>4. <<2>> \in Path
  BY Steps
<1>5. \A y \in S : /\ y \in Item
                   /\ \/ y \in RequestsAt(<<2>>)
                      \/ /\ y.op = "isDefault" /\ y.netId = n /\ ~y.isDefault /\ mDefaultNetId = n
                         /\ \A z \in S \ {y} : Before(z.at, y.at)
  <2>1. CASE mDefaultNetId = n
    <3>1. isType(n, "PHYSICAL")
      BY <1>2, <2>1 DEF InductiveInvariant, DefaultIsPhysical
    <3> QED
      BY <1>1, <1>2, <2>1, <3>1, RemoveAsDefaultPlan
  <2>2. CASE mDefaultNetId # n /\ isType(n, "VIRTUAL")
    <3>1. S \subseteq RequestsAt(<<2>>)
      BY <1>1, <1>2, <1>4, <2>2, TypedNetworks, ConstantTypes, FallthroughLockedRequests
         DEF InductiveInvariant
    <3> QED
      BY <1>4, <3>1, RequestsHaveOps
  <2>3. CASE mDefaultNetId # n /\ ~isType(n, "VIRTUAL")
    BY <1>1, <2>3
  <2> QED
    BY <2>1, <2>2, <2>3
<1> HIDE DEF n
<1>6. ASSUME NEW y \in S PROVE ItemOK(y)'
  <2>1. CASE y \in RequestsAt(<<2>>)
    BY <1>4, <2>1, RequestsOK
  <2>2. CASE /\ y.op = "isDefault" /\ y.netId = n /\ ~y.isDefault /\ mDefaultNetId = n
             /\ \A z \in S \ {y} : Before(z.at, y.at)
    <3>1. isType(n, "PHYSICAL")
      BY <1>2, <2>2 DEF InductiveInvariant, DefaultIsPhysical
    <3>2. IsDefaultOK(y)'
      BY <1>1, <1>3, <2>2, <3>1 DEF IsDefaultOK, isType, isValidNetwork
    <3> QED
      BY <2>2, <3>2 DEF ItemOK
  <2> QED
    BY <1>5, <2>1, <2>2
<1>7. TypeOK'
  BY <1>1, <1>3, <1>5 DEF InductiveInvariant, TypeOK, Item
<1>8. DefaultIsPhysical' /\ OneNetworkPerInterface' /\ AssignedInterfaceHasTable'
  BY <1>1 DEF InductiveInvariant, DefaultIsPhysical, OneNetworkPerInterface,
     AssignedInterfaceHasTable, NetworksWithInterface, isType, isValidNetwork
<1>9. DestroyOK'
  <2>1. Only(Removal \cup {"isDefault"})'
    BY <1>4, <1>5, RequestsHaveOps DEF Only, Removal
  <2> QED
    BY <1>1, <1>2, <1>3, <2>1 DEF DestroyOK
<1>10. Flagged'
  BY <1>1, <1>3 DEF InductiveInvariant, Flagged, n
<1> QED
  BY <1>6, <1>7, <1>8, <1>9, <1>10 DEF InductiveInvariant

\* destroyNetwork, at last: the network is deleted, and is not the default any more.
LEMMA EraseNetworkInvariant ==
    ASSUME InductiveInvariant, eraseNetwork
    PROVE  InductiveInvariant'
<1> DEFINE n == destroying.netId
<1>1. /\ todo = {} /\ todo' = {} /\ destroying.phase = "removeAsDefault"
      /\ mDefaultNetId' = IF mDefaultNetId = n THEN NETID_UNSET ELSE mDefaultNetId
      /\ DOMAIN mNetworks' = DOMAIN mNetworks \ {n}
      /\ \A m \in DOMAIN mNetworks \ {n} : mNetworks'[m] = mNetworks[m]
      /\ destroying' = [netId |-> NETID_UNSET, phase |-> "none"]
      /\ UNCHANGED <<rules, marks, ifindex, lastIndex, interfaceToTable, faults, failed, retries>>
  BY DEF eraseNetwork, kernel, index, outcome
<1>2. n \in NetIds /\ n # LOCAL_NET_ID /\ n # NETID_UNSET
  BY <1>1, ConstantTypes DEF InductiveInvariant, TypeOK, DestroyOK
<1>3. TypeOK'
  BY <1>1 DEF InductiveInvariant, TypeOK
<1>4. DefaultIsPhysical'
  BY <1>1, <1>2 DEF InductiveInvariant, DefaultIsPhysical, isType, isValidNetwork
<1>5. OneNetworkPerInterface' /\ AssignedInterfaceHasTable'
  BY <1>1 DEF InductiveInvariant, OneNetworkPerInterface, AssignedInterfaceHasTable,
     NetworksWithInterface
<1>6. DestroyOK'
  BY <1>1 DEF DestroyOK
<1>7. Flagged'
  BY <1>1, <1>2 DEF InductiveInvariant, Flagged, DefaultIsPhysical, isType, isValidNetwork
<1> QED
  BY <1>1, <1>3, <1>4, <1>5, <1>6, <1>7 DEF InductiveInvariant

(***************************************************************************)
(* The steps of the running command.                                       *)
(***************************************************************************)

\* A request that succeeds leaves the rest of the command to do, one that fails
\* nothing; neither changes the networks, and no table number is forgotten.
LEMMA RequestStep ==
    ASSUME InductiveInvariant, TypeOK', NEW x \in todo,
           \/ x.op \in RequestOps /\ todo' = todo \ {x}
           \/ x.op \in RequestOps \cup {"flush"} /\ todo' = {},
           UNCHANGED <<mNetworks, mDefaultNetId, destroying>>,
           \A i \in Interfaces : interfaceToTable[i] # 0 => interfaceToTable'[i] # 0,
           x.op = "lookup" /\ todo' # {} => interfaceToTable'[x.interface] # 0
    PROVE  InductiveInvariant'
<1>1. todo' \subseteq todo /\ x.op \notin {"default", "isDefault", "insert"} /\ x \notin todo'
  BY DEF RequestOps
<1>2. \A y \in todo : y \in todo' \/ todo' = {} \/ y = x
  OBVIOUS
<1>3. DefaultIsPhysical' /\ OneNetworkPerInterface'
  BY DEF InductiveInvariant, DefaultIsPhysical, OneNetworkPerInterface,
     NetworksWithInterface, isType, isValidNetwork
<1>4. AssignedInterfaceHasTable'
  <2>1. \A n \in DOMAIN mNetworks : \A i \in mNetworks[n].mInterfaces : i \in Interfaces
    BY TypedNetworks, NetworkFields DEF InductiveInvariant
  <2> QED
    BY <2>1 DEF InductiveInvariant, AssignedInterfaceHasTable
<1>5. \A ops : Only(ops) => Only(ops)'
  BY <1>1 DEF Only
<1>6. DestroyOK'
  BY <1>5 DEF InductiveInvariant, DestroyOK
<1>7. Flagged'
  BY <1>1 DEF InductiveInvariant, Flagged
<1>8. ASSUME NEW y \in todo' PROVE ItemOK(y)'
  <2>1. y \in todo /\ ItemOK(y) /\ y \in Item
    BY <1>1, TypedNetworks DEF InductiveInvariant
  <2>2. Last(y) => Last(y)'
    BY <1>1 DEF Last
  <2>3. y.op = "insert" => InsertOK(y)'
    <3>1. SUFFICES ASSUME y.op = "insert" PROVE InsertOK(y)'
      OBVIOUS
    <3>2. InsertOK(y) /\ y.interface \in Interfaces
      BY <2>1, <3>1 DEF ItemOK, Item, Request, Assignment
    <3>3. (\/ mNetworks[y.netId].type = "LOCAL"
           \/ interfaceToTable[y.interface] # 0
           \/ \E z \in todo : z.op = "lookup" /\ z.interface = y.interface)'
      BY <1>2, <3>2 DEF InsertOK
    <3> QED
      BY <1>5, <2>2, <3>2, <3>3 DEF InsertOK, NetworksWithInterface
  <2>4. y.op \in {"flush", "erase"} => RemovalOK(y)'
    BY <1>5, <2>1 DEF ItemOK, RemovalOK, NetworksWithInterface
  <2>5. y.op = "virtual" => VirtualOK(y)'
    BY <1>5, <2>1, <2>2 DEF ItemOK, VirtualOK
  <2>6. y.op = "default" => DefaultOK(y)'
    BY <1>1, <1>2, <1>5, <2>1, <2>2 DEF ItemOK, DefaultOK, isType, isValidNetwork
  <2>7. y.op = "isDefault" => IsDefaultOK(y)'
    BY <1>1, <1>2, <2>1 DEF ItemOK, IsDefaultOK, isType, isValidNetwork
  <2> QED
    BY <2>1, <2>3, <2>4, <2>5, <2>6, <2>7 DEF ItemOK, isType, isValidNetwork
<1> QED
  BY <1>3, <1>4, <1>6, <1>7, <1>8 DEF InductiveInvariant

\* How a request ends: with the rest of the command to do, or with none of it.
LEMMA Outcomes ==
    ASSUME InductiveInvariant, NEW x \in todo, Succeed(x) \/ Refused \/ Fault
    PROVE  /\ todo' = todo \ {x} \/ todo' = {}
           /\ faults' \in Nat /\ failed' \in BOOLEAN
<1>1. faults \in Nat /\ failed \in BOOLEAN
  BY DEF InductiveInvariant, TypeOK
<1>2. CASE Succeed(x)
  BY <1>1, <1>2 DEF Succeed, outcome
<1>3. CASE Refused
  BY <1>1, <1>3 DEF Refused, Fail
<1>4. CASE Fault
  BY <1>1, <1>4 DEF Fault, Fail
<1> QED
  BY <1>2, <1>3, <1>4

\* getRouteTableForInterface caches the index of an interface, and forgets none.
LEMMA LookupInvariant ==
    ASSUME InductiveInvariant, NEW x \in todo, getRouteTableForInterface(x)
    PROVE  InductiveInvariant'
<1>1. /\ x.op = "lookup" /\ x.interface \in Interfaces
      /\ UNCHANGED <<mNetworks, mDefaultNetId, rules, marks, ifindex, lastIndex, destroying, retries>>
  BY TypedNetworks DEF getRouteTableForInterface, netd, kernel, index, InductiveInvariant, Item,
     Request, Assignment
<1>2. Succeed(x) \/ Refused
  BY DEF getRouteTableForInterface
<1>3. ifindex \in [Interfaces -> Nat] /\ interfaceToTable \in [Interfaces -> Nat]
  BY DEF InductiveInvariant, TypeOK
<1>4. /\ interfaceToTable' \in [Interfaces -> Nat]
      /\ \A i \in Interfaces : interfaceToTable[i] # 0 => interfaceToTable'[i] # 0
      /\ Succeed(x) => interfaceToTable'[x.interface] # 0 \/ todo' = {}
  BY <1>1, <1>3 DEF getRouteTableForInterface, Refused, Fail
<1>5. (todo' = todo \ {x} \/ todo' = {}) /\ faults' \in Nat /\ failed' \in BOOLEAN
  BY <1>2, Outcomes
<1>6. TypeOK'
  BY <1>1, <1>4, <1>5 DEF InductiveInvariant, TypeOK
<1>7. x.op = "lookup" /\ todo' # {} => interfaceToTable'[x.interface] # 0
  BY <1>2, <1>4 DEF Refused, Fail
<1> QED
  BY <1>1, <1>4, <1>5, <1>6, <1>7, RequestStep DEF RequestOps

\* A rule with its table number is a rule.
LEMMA ResolveType ==
    ASSUME TypeOK, NEW r \in Rule
    PROVE  Resolve(r) \in Rule
<1>1. CASE r.table[1] = INTERFACE_NONE
  BY <1>1 DEF Resolve
<1>2. CASE r.table[1] # INTERFACE_NONE
  <2> DEFINE t == InterfaceTable(r.table[1], interfaceToTable[r.table[1]])
  <2>1. r.table[1] \in Interfaces
    BY <1>2 DEF Rule, Table
  <2>2. t \in Table
    BY <2>1, TableTypes DEF TypeOK
  <2>3. Resolve(r) = [r EXCEPT !.table = t]
    BY <1>2 DEF Resolve
  <2> HIDE DEF t
  <2> QED
    BY <2>2, <2>3 DEF Rule
<1> QED
  BY <1>1, <1>2

\* sendNetlinkRequest changes the kernel's rules alone.
LEMMA RuleInvariant ==
    ASSUME InductiveInvariant, NEW x \in todo, sendRuleRequest(x)
    PROVE  InductiveInvariant'
<1>1. /\ x.op = "rule" /\ x.rule \in Rule
      /\ UNCHANGED <<mNetworks, mDefaultNetId, marks, ifindex, lastIndex, interfaceToTable,
                     destroying, retries>>
  BY TypedNetworks DEF sendRuleRequest, netd, index, InductiveInvariant, Item, Request, Assignment
<1>2. Resolve(x.rule) \in Rule
  BY <1>1, ResolveType DEF InductiveInvariant
<1>3. PICK applied :
        rules' = [f \in Family |->
                    IF f \notin applied THEN rules[f]
                    ELSE IF x.add THEN rules[f] \cup {Resolve(x.rule)}
                         ELSE rules[f] \ {Resolve(x.rule)}]
  BY DEF sendRuleRequest
<1>4. \A f \in Family : rules'[f] \subseteq Rule
  BY <1>2, <1>3 DEF InductiveInvariant, TypeOK
<1>5. Succeed(x) \/ Refused \/ Fault
  BY DEF sendRuleRequest
<1>6. (todo' = todo \ {x} \/ todo' = {}) /\ faults' \in Nat /\ failed' \in BOOLEAN
  BY <1>5, Outcomes
<1>7. TypeOK'
  BY <1>1, <1>4, <1>6 DEF InductiveInvariant, TypeOK
<1> QED
  BY <1>1, <1>6, <1>7, RequestStep DEF RequestOps

\* iptables changes the marks alone.
LEMMA MarkInvariant ==
    ASSUME InductiveInvariant, NEW x \in todo, execIptablesMark(x)
    PROVE  InductiveInvariant'
<1>1. /\ x.op = "mark" /\ x.mark \in IncomingMark
      /\ UNCHANGED <<mNetworks, mDefaultNetId, rules, ifindex, lastIndex, interfaceToTable,
                     destroying, retries>>
  BY TypedNetworks DEF execIptablesMark, netd, index, InductiveInvariant, Item, Request, Assignment
<1>2. PICK done :
        marks' = [f \in Family |->
                    IF f \notin done THEN marks[f]
                    ELSE IF x.add THEN marks[f] (+) SetToBag({x.mark})
                    ELSE marks[f] (-) SetToBag({x.mark})]
  BY DEF execIptablesMark
<1>3. ASSUME NEW f \in Family
      PROVE  IsABag(marks'[f]) /\ DOMAIN marks'[f] \subseteq IncomingMark
  <2>1. IsABag(marks[f]) /\ DOMAIN marks[f] \subseteq IncomingMark
    BY DEF InductiveInvariant, TypeOK
  <2>2. \/ marks'[f] = marks[f]
        \/ marks'[f] = marks[f] (+) SetToBag({x.mark})
        \/ marks'[f] = marks[f] (-) SetToBag({x.mark})
    BY <1>2
  <2>3. CASE marks'[f] = marks[f] (+) SetToBag({x.mark})
    <3> DEFINE B == marks[f]
    <3>1. IsABag(B (+) SetToBag({x.mark})) /\ DOMAIN (B (+) SetToBag({x.mark})) \subseteq IncomingMark
      <4> HIDE DEF B
      <4>1. IsABag(B) /\ DOMAIN B \subseteq IncomingMark /\ x.mark \in IncomingMark
        BY <1>1, <2>1 DEF B
      <4> QED
        BY <4>1, BagAddType, Zenon
    <3> QED
      BY <2>3, <3>1, Zenon
  <2>4. CASE marks'[f] = marks[f] (-) SetToBag({x.mark})
    <3> DEFINE B == marks[f]
    <3>1. IsABag(B (-) SetToBag({x.mark})) /\ DOMAIN (B (-) SetToBag({x.mark})) \subseteq IncomingMark
      <4> HIDE DEF B
      <4>1. IsABag(B) /\ DOMAIN B \subseteq IncomingMark /\ x.mark \in IncomingMark
        BY <1>1, <2>1 DEF B
      <4> QED
        BY <4>1, BagRemoveType, Zenon
    <3> QED
      BY <2>4, <3>1, Zenon
  <2> QED
    BY <2>1, <2>2, <2>3, <2>4
<1>4. Succeed(x) \/ Refused \/ Fault
  BY DEF execIptablesMark
<1>5. (todo' = todo \ {x} \/ todo' = {}) /\ faults' \in Nat /\ failed' \in BOOLEAN
  BY <1>4, Outcomes
<1>6. TypeOK'
  BY <1>1, <1>3, <1>5 DEF InductiveInvariant, TypeOK
<1> QED
  BY <1>1, <1>5, <1>6, RequestStep DEF RequestOps

\* An assignment to a field of a network.
LEMMA FieldAssigned ==
    ASSUME TypeOK, NEW n \in DOMAIN mNetworks, NEW v,
           \/ v \in SUBSET Interfaces /\ mNetworks' = [mNetworks EXCEPT ![n].mInterfaces = v]
           \/ v \in Permission /\ mNetworks' = [mNetworks EXCEPT ![n].mPermission = v]
           \/ v \in BOOLEAN /\ mNetworks' = [mNetworks EXCEPT ![n].mIsDefault = v]
           \/ v \in [Ranges -> Nat] /\ mNetworks' = [mNetworks EXCEPT ![n].mUidRanges = v]
    PROVE  /\ DOMAIN mNetworks' = DOMAIN mNetworks
           /\ \A m \in DOMAIN mNetworks : mNetworks'[m] \in Network
           /\ \A m \in DOMAIN mNetworks : mNetworks'[m].type = mNetworks[m].type
           /\ \A m \in DOMAIN mNetworks \ {n} : mNetworks'[m] = mNetworks[m]
<1>1. DOMAIN mNetworks' = DOMAIN mNetworks /\ \A m \in DOMAIN mNetworks \ {n} : mNetworks'[m] = mNetworks[m]
  OBVIOUS
<1>2. \/ v \in SUBSET Interfaces /\ mNetworks'[n] = [mNetworks[n] EXCEPT !.mInterfaces = v]
      \/ v \in Permission /\ mNetworks'[n] = [mNetworks[n] EXCEPT !.mPermission = v]
      \/ v \in BOOLEAN /\ mNetworks'[n] = [mNetworks[n] EXCEPT !.mIsDefault = v]
      \/ v \in [Ranges -> Nat] /\ mNetworks'[n] = [mNetworks[n] EXCEPT !.mUidRanges = v]
  OBVIOUS
<1>3. \A m \in DOMAIN mNetworks : mNetworks[m] \in Network
  BY DEF TypeOK
<1>4. mNetworks'[n] \in Network /\ mNetworks'[n].type = mNetworks[n].type
  BY <1>2, <1>3 DEF Network
<1> QED
  BY <1>1, <1>3, <1>4

\* A network forgets an interface, when it is erased or its routes are flushed.
LEMMA RemovalStep ==
    ASSUME InductiveInvariant, NEW x \in todo, x.op \in {"flush", "erase"},
           mNetworks' = [mNetworks EXCEPT ![x.netId].mInterfaces = @ \ {x.interface}],
           Succeed(x),
           UNCHANGED <<mDefaultNetId, rules, marks, ifindex, lastIndex, destroying, retries>>,
           interfaceToTable' \in [Interfaces -> Nat],
           \A i \in Interfaces \ {x.interface} : interfaceToTable'[i] = interfaceToTable[i]
    PROVE  InductiveInvariant'
<1> DEFINE n == x.netId
<1>1. /\ todo' = todo \ {x} /\ UNCHANGED <<faults, failed>>
      /\ RemovalOK(x) /\ n \in DOMAIN mNetworks /\ Only(Removal)
  BY DEF Succeed, outcome, InductiveInvariant, ItemOK, RemovalOK
<1>2. mNetworks[n].mInterfaces \ {x.interface} \in SUBSET Interfaces
  BY <1>1, TypedNetworks, NetworkFields DEF InductiveInvariant
<1>3. /\ DOMAIN mNetworks' = DOMAIN mNetworks
      /\ \A m \in DOMAIN mNetworks : mNetworks'[m] \in Network
      /\ \A m \in DOMAIN mNetworks : mNetworks'[m].type = mNetworks[m].type
      /\ \A m \in DOMAIN mNetworks \ {n} : mNetworks'[m] = mNetworks[m]
  BY <1>1, <1>2, FieldAssigned DEF InductiveInvariant
<1>4. /\ mNetworks'[n].mInterfaces = mNetworks[n].mInterfaces \ {x.interface}
      /\ mNetworks'[n].mIsDefault = mNetworks[n].mIsDefault
  <2>1. mNetworks[n] \in Network
    BY <1>1 DEF InductiveInvariant, TypeOK
  <2> QED
    BY <1>1, <2>1 DEF Network
<1> HIDE DEF n
<1>5. TypeOK'
  BY <1>1, <1>3 DEF InductiveInvariant, TypeOK
<1>6. DefaultIsPhysical'
  BY <1>3 DEF InductiveInvariant, DefaultIsPhysical, isType, isValidNetwork
<1>7. \A i \in Interfaces : NetworksWithInterface(i)' \subseteq NetworksWithInterface(i)
  BY <1>3, <1>4 DEF NetworksWithInterface
<1>8. NetworksWithInterface(x.interface)' = {}
  BY <1>1, <1>3, <1>4 DEF NetworksWithInterface, RemovalOK, n
<1>9. OneNetworkPerInterface'
  BY <1>7 DEF InductiveInvariant, OneNetworkPerInterface
<1>10. AssignedInterfaceHasTable'
  <2>1. \A m \in DOMAIN mNetworks' : \A i \in mNetworks'[m].mInterfaces :
           i \in Interfaces /\ i # x.interface /\ i \in mNetworks[m].mInterfaces
    <3>1. \A m \in DOMAIN mNetworks : mNetworks[m].mInterfaces \subseteq Interfaces
      BY TypedNetworks, NetworkFields DEF InductiveInvariant
    <3> QED
      BY <1>3, <1>4, <1>8, <3>1 DEF NetworksWithInterface
  <2> QED
    BY <1>3, <2>1 DEF InductiveInvariant, AssignedInterfaceHasTable
<1>11. DestroyOK'
  BY <1>1, <1>3 DEF InductiveInvariant, DestroyOK, Only
<1>12. Flagged'
  BY <1>1, <1>3, <1>4 DEF InductiveInvariant, Flagged, DefaultIsPhysical, isType, isValidNetwork
<1>13. ASSUME NEW y \in todo' PROVE ItemOK(y)'
  <2>1. y \in todo /\ ItemOK(y) /\ y.op \in Removal
    BY <1>1 DEF InductiveInvariant, Only
  <2>2. SUFFICES ASSUME y.op \in {"flush", "erase"} PROVE RemovalOK(y)'
    BY <2>1 DEF ItemOK, Removal, RequestOps
  <2>3. y.interface \in Interfaces
    BY <2>1, <2>2, TypedNetworks DEF InductiveInvariant, Item, Request, Assignment
  <2>4. Only(Removal)'
    BY <1>1 DEF Only
  <2> QED
    BY <1>3, <1>7, <2>1, <2>2, <2>3, <2>4 DEF ItemOK, RemovalOK
<1> QED
  BY <1>5, <1>6, <1>9, <1>10, <1>11, <1>12, <1>13 DEF InductiveInvariant

\* flushRoutes: when it fails the interface and its index are kept.
LEMMA FlushInvariant ==
    ASSUME InductiveInvariant, NEW x \in todo, flushRoutes(x)
    PROVE  InductiveInvariant'
<1>1. /\ x.op = "flush" /\ x.interface \in Interfaces
      /\ UNCHANGED <<mDefaultNetId, rules, marks, ifindex, lastIndex, destroying, retries>>
  BY TypedNetworks DEF flushRoutes, kernel, index, InductiveInvariant, Item, Request, Assignment
<1>2. ifindex \in [Interfaces -> Nat] /\ interfaceToTable \in [Interfaces -> Nat]
  BY DEF InductiveInvariant, TypeOK
<1>3. CASE /\ interfaceToTable' = [interfaceToTable EXCEPT ![x.interface] = 0]
           /\ mNetworks' = [mNetworks EXCEPT ![x.netId].mInterfaces = @ \ {x.interface}]
           /\ Succeed(x)
  BY <1>1, <1>2, <1>3, RemovalStep
<1>4. CASE /\ IF ifindex[x.interface] # 0
              THEN /\ interfaceToTable' = [interfaceToTable EXCEPT ![x.interface] = ifindex[x.interface]]
                   /\ Fault
              ELSE UNCHANGED interfaceToTable /\ (Fault \/ Refused)
           /\ UNCHANGED mNetworks
  <2>1. /\ interfaceToTable' \in [Interfaces -> Nat]
        /\ \A i \in Interfaces : interfaceToTable[i] # 0 => interfaceToTable'[i] # 0
    BY <1>1, <1>2, <1>4
  <2>2. todo' = {}
    BY <1>4 DEF Fault, Refused, Fail
  <2>3. faults' \in Nat /\ failed' \in BOOLEAN
    BY <1>4, Outcomes
  <2>4. TypeOK'
    BY <1>1, <1>4, <2>1, <2>2, <2>3 DEF InductiveInvariant, TypeOK
  <2> QED
    BY <1>1, <1>4, <2>1, <2>2, <2>4, RequestStep
<1> QED
  BY <1>3, <1>4 DEF flushRoutes

\* What an assignment leaves alone.
Assigns(x) ==
    /\ Succeed(x)
    /\ UNCHANGED <<rules, marks, ifindex, lastIndex, interfaceToTable, destroying, retries>>

\* mInterfaces.insert comes last, and the interface is still in no network then.
LEMMA InsertInvariant ==
    ASSUME InductiveInvariant, NEW x \in todo, \A y \in todo \ {x} : Before(x.at, y.at),
           Assigns(x), x.op = "insert", UNCHANGED mDefaultNetId,
           mNetworks' = [mNetworks EXCEPT ![x.netId].mInterfaces = @ \cup {x.interface}]
    PROVE  InductiveInvariant'
<1> DEFINE n == x.netId
           i == x.interface
<1>1. /\ InsertOK(x) /\ n \in DOMAIN mNetworks /\ NetworksWithInterface(i) = {} /\ i \in Interfaces
  BY TypedNetworks DEF InductiveInvariant, ItemOK, InsertOK, Item, Request, Assignment
<1>2. todo = {x}
  BY <1>1, TypedNetworks, FirstAndLast DEF InductiveInvariant, InsertOK
<1>3. /\ todo' = {}
      /\ UNCHANGED <<rules, marks, ifindex, lastIndex, interfaceToTable, destroying, retries,
                     faults, failed>>
  BY <1>2 DEF Assigns, Succeed, outcome
<1>4. mNetworks[n].mInterfaces \cup {i} \in SUBSET Interfaces
  BY <1>1, TypedNetworks, NetworkFields DEF InductiveInvariant
<1>5. /\ DOMAIN mNetworks' = DOMAIN mNetworks
      /\ \A m \in DOMAIN mNetworks : mNetworks'[m] \in Network
      /\ \A m \in DOMAIN mNetworks : mNetworks'[m].type = mNetworks[m].type
      /\ \A m \in DOMAIN mNetworks \ {n} : mNetworks'[m] = mNetworks[m]
  BY <1>1, <1>4, FieldAssigned DEF InductiveInvariant
<1>6. /\ mNetworks'[n].mInterfaces = mNetworks[n].mInterfaces \cup {i}
      /\ mNetworks'[n].mIsDefault = mNetworks[n].mIsDefault
  <2>1. mNetworks[n] \in Network
    BY <1>1 DEF InductiveInvariant, TypeOK
  <2> QED
    BY <1>1, <2>1 DEF Network
<1>7. mNetworks[n].type = "LOCAL" \/ interfaceToTable[i] # 0
  BY <1>1, <1>2 DEF InsertOK
<1> HIDE DEF n, i
<1>8. TypeOK'
  BY <1>3, <1>5 DEF InductiveInvariant, TypeOK
<1>9. DefaultIsPhysical'
  BY <1>5 DEF InductiveInvariant, DefaultIsPhysical, isType, isValidNetwork
<1>10. OneNetworkPerInterface'
  BY <1>1, <1>5, <1>6 DEF InductiveInvariant, OneNetworkPerInterface, NetworksWithInterface
<1>11. AssignedInterfaceHasTable'
  <2>1. SUFFICES ASSUME NEW m \in DOMAIN mNetworks, mNetworks[m].type # "LOCAL",
                        NEW j \in mNetworks'[m].mInterfaces
                 PROVE  interfaceToTable[j] # 0
    BY <1>3, <1>5 DEF AssignedInterfaceHasTable
  <2>2. j \in mNetworks[m].mInterfaces \/ (m = n /\ j = i)
    BY <1>5, <1>6, <2>1
  <2> QED
    BY <1>7, <2>1, <2>2 DEF InductiveInvariant, AssignedInterfaceHasTable
<1>12. DestroyOK'
  <2>1. destroying.netId = NETID_UNSET
    BY DEF InductiveInvariant, DestroyOK, Only, Removal, RequestOps
  <2> QED
    BY <1>3, <2>1 DEF InductiveInvariant, DestroyOK
<1>13. Flagged'
  BY <1>2, <1>3, <1>5, <1>6 DEF InductiveInvariant, Flagged, DefaultIsPhysical, isType, isValidNetwork
<1> QED
  BY <1>3, <1>8, <1>9, <1>10, <1>11, <1>12, <1>13 DEF InductiveInvariant

\* mPermission and mUidRanges: nothing else depends on them.
LEMMA AttributeInvariant ==
    ASSUME InductiveInvariant, NEW x \in todo, Assigns(x), UNCHANGED mDefaultNetId, NEW v,
           \/ /\ x.op = "permission" /\ v \in Permission
              /\ mNetworks' = [mNetworks EXCEPT ![x.netId].mPermission = v]
           \/ /\ x.op = "users" /\ v \in [Ranges -> Nat]
              /\ mNetworks' = [mNetworks EXCEPT ![x.netId].mUidRanges = v]
    PROVE  InductiveInvariant'
<1> DEFINE n == x.netId
<1>1. /\ todo' = todo \ {x}
      /\ UNCHANGED <<rules, marks, ifindex, lastIndex, interfaceToTable, destroying, retries,
                     faults, failed>>
  BY DEF Assigns, Succeed, outcome
<1>2. n \in DOMAIN mNetworks /\ n # NETID_UNSET
  BY TypedNetworks, ConstantTypes DEF InductiveInvariant, ItemOK, isType, isValidNetwork, TypeOK
<1>3. /\ DOMAIN mNetworks' = DOMAIN mNetworks
      /\ \A m \in DOMAIN mNetworks : mNetworks'[m] \in Network
      /\ \A m \in DOMAIN mNetworks : mNetworks'[m].type = mNetworks[m].type
  BY <1>2, FieldAssigned DEF InductiveInvariant
<1>4. \A m \in DOMAIN mNetworks : /\ mNetworks'[m].mInterfaces = mNetworks[m].mInterfaces
                                  /\ mNetworks'[m].mIsDefault = mNetworks[m].mIsDefault
  <2>1. \A m \in DOMAIN mNetworks : mNetworks[m] \in Network
    BY DEF InductiveInvariant, TypeOK
  <2> QED
    BY <1>2, <2>1 DEF Network
<1> HIDE DEF n
<1>5. TypeOK'
  BY <1>1, <1>3 DEF InductiveInvariant, TypeOK
<1>6. DefaultIsPhysical'
  BY <1>3 DEF InductiveInvariant, DefaultIsPhysical, isType, isValidNetwork
<1>7. OneNetworkPerInterface'
  BY <1>3, <1>4 DEF InductiveInvariant, OneNetworkPerInterface, NetworksWithInterface
<1>8. AssignedInterfaceHasTable'
  BY <1>1, <1>3, <1>4 DEF InductiveInvariant, AssignedInterfaceHasTable
<1>9. destroying.netId = NETID_UNSET
  BY DEF InductiveInvariant, DestroyOK, Only, Removal, RequestOps
<1>10. DestroyOK'
  BY <1>1, <1>9 DEF InductiveInvariant, DestroyOK
<1>11. Flagged'
  BY <1>1, <1>3, <1>4 DEF InductiveInvariant, Flagged, DefaultIsPhysical, isType, isValidNetwork
<1>12. ASSUME NEW y \in todo' PROVE ItemOK(y)'
  <2>1. y \in todo /\ ItemOK(y)
    BY <1>1 DEF InductiveInvariant
  <2>2. y.op \notin {"insert", "flush", "erase", "virtual", "default"}
    BY <2>1 DEF ItemOK, InsertOK, RemovalOK, VirtualOK, DefaultOK, Only, Removal, RequestOps
  <2>3. y.op # "isDefault"
    <3>1. \A z \in todo : z.op # "default"
      BY DEF InductiveInvariant, ItemOK, DefaultOK, Only, RequestOps
    <3>2. y.op = "isDefault" => y.netId # NETID_UNSET
      BY <2>1, ConstantTypes DEF ItemOK, IsDefaultOK, isType, isValidNetwork, InductiveInvariant, TypeOK
    <3> QED
      BY <1>9, <2>1, <3>1, <3>2 DEF ItemOK, IsDefaultOK
  <2> QED
    BY <1>3, <2>1, <2>2, <2>3 DEF ItemOK, isType, isValidNetwork
<1> QED
  BY <1>1, <1>5, <1>6, <1>7, <1>8, <1>10, <1>11, <1>12 DEF InductiveInvariant

\* A new network is in the map.
LEMMA NetworkAdded ==
    ASSUME NEW n, NEW new,
           mNetworks' = [m \in DOMAIN mNetworks \cup {n} |-> IF m = n THEN new ELSE mNetworks[m]],
           n \notin DOMAIN mNetworks
    PROVE  /\ DOMAIN mNetworks' = DOMAIN mNetworks \cup {n}
           /\ \A m \in DOMAIN mNetworks : mNetworks'[m] = mNetworks[m]
           /\ mNetworks'[n] = new
OBVIOUS

\* createVirtualNetwork adds the network last, and the netId is still free then.
LEMMA NewVirtualInvariant ==
    ASSUME InductiveInvariant, NEW x \in todo, \A y \in todo \ {x} : Before(x.at, y.at),
           Assigns(x), x.op = "virtual", UNCHANGED mDefaultNetId,
           mNetworks' = [n \in DOMAIN mNetworks \cup {x.netId} |->
                            IF n = x.netId THEN VirtualNetwork(x.hasDns, x.secure) ELSE mNetworks[n]]
    PROVE  InductiveInvariant'
<1> DEFINE n == x.netId
           new == VirtualNetwork(x.hasDns, x.secure)
<1>1. VirtualOK(x) /\ n \notin DOMAIN mNetworks
  BY DEF InductiveInvariant, ItemOK, VirtualOK
<1>2. todo = {x}
  BY <1>1, TypedNetworks, FirstAndLast DEF InductiveInvariant, VirtualOK
<1>3. /\ todo' = {}
      /\ UNCHANGED <<rules, marks, ifindex, lastIndex, interfaceToTable, destroying, retries,
                     faults, failed>>
  BY <1>2 DEF Assigns, Succeed, outcome
<1>4. /\ DOMAIN mNetworks' = DOMAIN mNetworks \cup {n}
      /\ \A m \in DOMAIN mNetworks : mNetworks'[m] = mNetworks[m]
      /\ mNetworks'[n] = new
  <2> HIDE DEF new, n
  <2>1. mNetworks' = [m \in DOMAIN mNetworks \cup {n} |-> IF m = n THEN new ELSE mNetworks[m]]
    BY DEF n, new
  <2> QED
    BY <1>1, <2>1, NetworkAdded
<1>5. new \in Network /\ new.mInterfaces = {} /\ n \in AllNetIds
  <2>1. x.hasDns \in BOOLEAN /\ x.secure \in BOOLEAN /\ n \in VirtualNetIds
    <3>1. x.op = "virtual" /\ x \in Item
      BY TypedNetworks DEF InductiveInvariant
    <3>2. x.hasDns \in HasDns /\ x.secure \in BOOLEAN /\ n \in VirtualNetIds
      BY <3>1 DEF Item, Request, Assignment
    <3> QED
      BY <3>2, NetworkTypesAssumption
  <2>2. new \in Network
    BY <2>1, ConstructorTypes
  <2>3. new.mInterfaces = {}
    BY DEF VirtualNetwork
  <2> QED
    BY <2>1, <2>2, <2>3, ConstantTypes
<1> HIDE DEF n, new
<1>6. TypeOK'
  BY <1>3, <1>4, <1>5 DEF InductiveInvariant, TypeOK
<1>7. DefaultIsPhysical'
  BY <1>4 DEF InductiveInvariant, DefaultIsPhysical, isType, isValidNetwork
<1>8. OneNetworkPerInterface' /\ AssignedInterfaceHasTable'
  <2>1. OneNetworkPerInterface /\ AssignedInterfaceHasTable
    BY DEF InductiveInvariant
  <2>2. ASSUME NEW m \in DOMAIN mNetworks', NEW i \in mNetworks'[m].mInterfaces
        PROVE  m \in DOMAIN mNetworks /\ mNetworks'[m] = mNetworks[m]
    BY <1>4, <1>5, <2>2
  <2>3. OneNetworkPerInterface'
    <3>1. SUFFICES ASSUME NEW i \in Interfaces,
                          NEW m1 \in NetworksWithInterface(i)', NEW m2 \in NetworksWithInterface(i)'
                   PROVE  m1 = m2
      BY DEF OneNetworkPerInterface
    <3>2. m1 \in NetworksWithInterface(i) /\ m2 \in NetworksWithInterface(i)
      BY <2>2 DEF NetworksWithInterface
    <3> QED
      BY <2>1, <3>2 DEF OneNetworkPerInterface
  <2>4. AssignedInterfaceHasTable'
    BY <1>3, <2>1, <2>2 DEF AssignedInterfaceHasTable
  <2> QED
    BY <2>3, <2>4
<1>9. DestroyOK'
  <2>1. destroying.netId = NETID_UNSET
    BY DEF InductiveInvariant, DestroyOK, Only, Removal, RequestOps
  <2> QED
    BY <1>3, <2>1 DEF InductiveInvariant, DestroyOK
<1>10. Flagged'
  BY <1>2, <1>3, <1>4 DEF InductiveInvariant, Flagged, DefaultIsPhysical, isType, isValidNetwork
<1> QED
  BY <1>3, <1>6, <1>7, <1>8, <1>9, <1>10 DEF InductiveInvariant

\* setDefaultNetwork assigns mDefaultNetId last: the new network is marked by then.
LEMMA NewDefaultInvariant ==
    ASSUME InductiveInvariant, NEW x \in todo, \A y \in todo \ {x} : Before(x.at, y.at),
           Assigns(x), x.op = "default", mDefaultNetId' = x.netId, UNCHANGED mNetworks
    PROVE  InductiveInvariant'
<1>1. DefaultOK(x)
  BY DEF InductiveInvariant, ItemOK
<1>2. todo = {x}
  BY <1>1, TypedNetworks, FirstAndLast DEF InductiveInvariant, DefaultOK
<1>3. /\ todo' = {}
      /\ UNCHANGED <<rules, marks, ifindex, lastIndex, interfaceToTable, destroying, retries,
                     faults, failed>>
  BY <1>2 DEF Assigns, Succeed, outcome
<1>4. x.netId \in NetIds \cup {NETID_UNSET}
  BY TypedNetworks DEF InductiveInvariant, Item, Request, Assignment
<1>5. x.netId # NETID_UNSET => isType(x.netId, "PHYSICAL") /\ mNetworks[x.netId].mIsDefault
  BY <1>1, <1>2 DEF DefaultOK
<1>6. TypeOK'
  BY <1>3, <1>4 DEF InductiveInvariant, TypeOK
<1>7. DefaultIsPhysical' /\ Flagged'
  BY <1>5 DEF InductiveInvariant, DefaultIsPhysical, Flagged, isType, isValidNetwork
<1>8. OneNetworkPerInterface' /\ AssignedInterfaceHasTable'
  BY <1>3 DEF InductiveInvariant, OneNetworkPerInterface, AssignedInterfaceHasTable,
     NetworksWithInterface
<1>9. DestroyOK'
  BY <1>3 DEF InductiveInvariant, DestroyOK, Only
<1> QED
  BY <1>3, <1>6, <1>7, <1>8, <1>9 DEF InductiveInvariant

\* mIsDefault is set while the default network is another one, and reset in the
\* last step before the default network changes or goes away.
LEMMA IsDefaultInvariant ==
    ASSUME InductiveInvariant, NEW x \in todo, \A y \in todo \ {x} : Before(x.at, y.at),
           Assigns(x), x.op = "isDefault", UNCHANGED mDefaultNetId,
           mNetworks' = [mNetworks EXCEPT ![x.netId].mIsDefault = x.isDefault]
    PROVE  InductiveInvariant'
<1> DEFINE n == x.netId
<1>1. /\ IsDefaultOK(x) /\ n \in DOMAIN mNetworks /\ n # NETID_UNSET
      /\ x.isDefault \in BOOLEAN /\ n \in NetIds
  BY TypedNetworks, ConstantTypes DEF InductiveInvariant, ItemOK, IsDefaultOK, isType, isValidNetwork,
     Item, Request, Assignment
<1>2. /\ todo' = todo \ {x}
      /\ UNCHANGED <<rules, marks, ifindex, lastIndex, interfaceToTable, destroying, retries,
                     faults, failed>>
  BY DEF Assigns, Succeed, outcome
<1>3. /\ DOMAIN mNetworks' = DOMAIN mNetworks
      /\ \A m \in DOMAIN mNetworks : mNetworks'[m] \in Network
      /\ \A m \in DOMAIN mNetworks : mNetworks'[m].type = mNetworks[m].type
      /\ \A m \in DOMAIN mNetworks \ {n} : mNetworks'[m] = mNetworks[m]
  BY <1>1, FieldAssigned DEF InductiveInvariant
<1>4. /\ \A m \in DOMAIN mNetworks : mNetworks'[m].mInterfaces = mNetworks[m].mInterfaces
      /\ mNetworks'[n].mIsDefault = x.isDefault
  <2>1. \A m \in DOMAIN mNetworks : mNetworks[m] \in Network
    BY DEF InductiveInvariant, TypeOK
  <2> QED
    BY <1>1, <2>1 DEF Network
<1>5. \A y \in todo : y.op \in RequestOps \cup {"default", "isDefault", "permission", "users"}
  <2>1. ASSUME NEW y \in todo PROVE y.op \notin {"insert", "flush", "erase", "virtual"}
    BY DEF InductiveInvariant, ItemOK, InsertOK, RemovalOK, VirtualOK, Only, Removal, RequestOps
  <2> QED
    BY <2>1, TypedNetworks DEF InductiveInvariant, Item, Request, Assignment, RequestOps
<1> HIDE DEF n
<1>6. TypeOK'
  BY <1>2, <1>3 DEF InductiveInvariant, TypeOK
<1>7. DefaultIsPhysical'
  BY <1>3 DEF InductiveInvariant, DefaultIsPhysical, isType, isValidNetwork
<1>8. OneNetworkPerInterface' /\ AssignedInterfaceHasTable'
  BY <1>2, <1>3, <1>4 DEF InductiveInvariant, OneNetworkPerInterface, AssignedInterfaceHasTable,
     NetworksWithInterface
<1>9. DestroyOK'
  BY <1>2, <1>3 DEF InductiveInvariant, DestroyOK, Only
<1>10. x.isDefault <=> n # mDefaultNetId
  BY <1>1 DEF IsDefaultOK, n
\* When the old default network is unmarked, only the assignment to mDefaultNetId is left.
<1>11. ~x.isDefault => \A y \in todo' : y.op = "default" /\ todo' = {y}
  <2>1. SUFFICES ASSUME ~x.isDefault, NEW y \in todo' PROVE y.op = "default" /\ todo' = {y}
    OBVIOUS
  <2>2. \A z \in todo : z.at \in Path
    BY TypedNetworks DEF InductiveInvariant, Item, Request, Assignment, Path
  <2>3. \A z \in todo' : z.op = "default"
    BY <1>1, <1>2, <2>1, <2>2, BeforeAsymmetric DEF IsDefaultOK
  <2>4. \A z \in todo' : DefaultOK(z)
    BY <1>2, <2>3 DEF InductiveInvariant, ItemOK
  <2>5. \A z \in todo' : z = y
    BY <1>2, <2>1, <2>2, <2>4, BeforeAsymmetric DEF DefaultOK, Last
  <2> QED
    BY <2>1, <2>3, <2>5
<1>12. Flagged'
  <2>1. CASE x.isDefault
    BY <1>2, <1>3, <1>10, <2>1 DEF InductiveInvariant, Flagged, DefaultIsPhysical, isType, isValidNetwork
  <2>2. CASE ~x.isDefault
    <3>1. destroying.netId = n \/ \E y \in todo' : y.op = "default"
      BY <1>1, <1>2 DEF IsDefaultOK, n
    <3> QED
      BY <1>2, <1>10, <1>11, <2>2, <3>1 DEF Flagged
  <2> QED
    BY <1>1, <2>1, <2>2
<1>13. ASSUME NEW y \in todo', y.op = "default" PROVE DefaultOK(y)'
  <2>1. y \in todo /\ DefaultOK(y)
    BY <1>2, <1>13 DEF InductiveInvariant, ItemOK
  <2>2. Last(y)' /\ Only(RequestOps \cup {"isDefault", "default"})'
    BY <1>2, <2>1 DEF DefaultOK, Last, Only
  <2>3. y.netId # NETID_UNSET =>
          /\ isType(y.netId, "PHYSICAL")'
          /\ \/ mNetworks'[y.netId].mIsDefault
             \/ \E z \in todo' : z.op = "isDefault" /\ z.netId = y.netId
    <3>1. CASE y.netId = n
      <4>1. x.isDefault
        BY <1>10, <2>1, <3>1 DEF DefaultOK
      <4> QED
        BY <1>3, <1>4, <2>1, <3>1, <4>1 DEF DefaultOK, isType, isValidNetwork
    <3>2. CASE y.netId # n
      BY <1>2, <1>3, <2>1, <3>2 DEF DefaultOK, isType, isValidNetwork, n
    <3> QED
      BY <3>1, <3>2
  <2>4. mDefaultNetId # NETID_UNSET =>
          \/ ~mNetworks'[mDefaultNetId].mIsDefault
          \/ \E z \in todo' : z.op = "isDefault" /\ z.netId = mDefaultNetId
    <3>1. CASE mDefaultNetId = n
      BY <1>4, <1>10, <3>1
    <3>2. CASE mDefaultNetId # n
      BY <1>2, <1>3, <2>1, <3>2 DEF DefaultOK, InductiveInvariant, DefaultIsPhysical, isType,
         isValidNetwork, n
    <3> QED
      BY <3>1, <3>2
  <2> QED
    BY <2>1, <2>2, <2>3, <2>4 DEF DefaultOK
<1>14. ASSUME NEW y \in todo', y.op = "isDefault" PROVE IsDefaultOK(y)'
  <2>1. y \in todo /\ IsDefaultOK(y)
    BY <1>2, <1>14 DEF InductiveInvariant, ItemOK
  <2> QED
    BY <1>2, <1>3, <2>1 DEF IsDefaultOK, isType, isValidNetwork
<1>15. ASSUME NEW y \in todo' PROVE ItemOK(y)'
  <2>1. y \in todo /\ ItemOK(y) /\ y.op \in RequestOps \cup {"default", "isDefault", "permission", "users"}
    BY <1>2, <1>5 DEF InductiveInvariant
  <2> QED
    BY <1>3, <1>13, <1>14, <2>1 DEF ItemOK, RequestOps, isType, isValidNetwork
<1> QED
  BY <1>6, <1>7, <1>8, <1>9, <1>12, <1>15 DEF InductiveInvariant

\* The assignments of a command, in the place program order gives them.
LEMMA AssignInvariant ==
    ASSUME InductiveInvariant, NEW x \in todo, \A y \in todo \ {x} : Before(x.at, y.at), assign(x)
    PROVE  InductiveInvariant'
<1>1. Assigns(x)
  BY DEF assign, Assigns, kernel, index
<1>2. CASE /\ x.op = "insert" /\ UNCHANGED mDefaultNetId
           /\ mNetworks' = [mNetworks EXCEPT ![x.netId].mInterfaces = @ \cup {x.interface}]
  BY <1>1, <1>2, InsertInvariant
<1>3. CASE /\ x.op = "erase" /\ UNCHANGED mDefaultNetId
           /\ mNetworks' = [mNetworks EXCEPT ![x.netId].mInterfaces = @ \ {x.interface}]
  <2>1. interfaceToTable \in [Interfaces -> Nat]
    BY DEF InductiveInvariant, TypeOK
  <2> QED
    BY <1>1, <1>3, <2>1, RemovalStep DEF Assigns
<1>4. CASE /\ x.op = "permission" /\ UNCHANGED mDefaultNetId
           /\ mNetworks' = [mNetworks EXCEPT ![x.netId].mPermission = x.permission]
  <2>1. x.permission \in Permission
    BY <1>4, TypedNetworks, ConstantTypes DEF InductiveInvariant, Item, Request, Assignment
  <2> QED
    BY <1>1, <1>4, <2>1, AttributeInvariant
<1>5. CASE /\ x.op = "users" /\ UNCHANGED mDefaultNetId
           /\ mNetworks' = [mNetworks EXCEPT ![x.netId].mUidRanges =
                               IF x.add THEN AddRanges(@, x.ranges) ELSE RemoveRanges(@, x.ranges)]
  <2> DEFINE old == mNetworks[x.netId].mUidRanges
             v == IF x.add THEN AddRanges(old, x.ranges) ELSE RemoveRanges(old, x.ranges)
  <2>1. x.ranges \in SUBSET Ranges
    BY <1>5, TypedNetworks DEF InductiveInvariant, Item, Request, Assignment
  <2>2. x.netId \in DOMAIN mNetworks
    BY <1>5 DEF InductiveInvariant, ItemOK, isType, isValidNetwork
  <2>3. old \in [Ranges -> Nat]
    BY <2>2, TypedNetworks, NetworkFields DEF InductiveInvariant
  <2>4. v \in [Ranges -> Nat]
    BY <2>1, <2>3, RangesTypes
  <2>5. mNetworks' = [mNetworks EXCEPT ![x.netId].mUidRanges = v]
    BY <1>5
  <2> HIDE DEF v
  <2> QED
    BY <1>1, <1>5, <2>4, <2>5, AttributeInvariant
<1>6. CASE /\ x.op = "isDefault" /\ UNCHANGED mDefaultNetId
           /\ mNetworks' = [mNetworks EXCEPT ![x.netId].mIsDefault = x.isDefault]
  BY <1>1, <1>6, IsDefaultInvariant
<1>7. CASE /\ x.op = "virtual" /\ UNCHANGED mDefaultNetId
           /\ mNetworks' = [n \in DOMAIN mNetworks \cup {x.netId} |->
                               IF n = x.netId THEN VirtualNetwork(x.hasDns, x.secure) ELSE mNetworks[n]]
  BY <1>1, <1>7, NewVirtualInvariant
<1>8. CASE x.op = "default" /\ mDefaultNetId' = x.netId /\ UNCHANGED mNetworks
  BY <1>1, <1>8, NewDefaultInvariant
<1> QED
  BY <1>2, <1>3, <1>4, <1>5, <1>6, <1>7, <1>8 DEF assign

\* An interface that goes away or comes back changes nothing that netd remembers.
LEMMA InterfaceInvariant ==
    ASSUME InductiveInvariant, NEW i \in Unstable, InterfaceGone(i) \/ InterfaceCreated(i)
    PROVE  InductiveInvariant'
<1>1. UNCHANGED <<mNetworks, mDefaultNetId, rules, marks, interfaceToTable, todo, destroying,
                  faults, failed, retries>>
  BY DEF InterfaceGone, InterfaceCreated, netd, kernel, outcome
<1>2. ifindex' \in [Interfaces -> Nat] /\ lastIndex' \in [Interfaces -> Nat]
  BY NetworkControllerAssumption DEF InterfaceGone, InterfaceCreated, InductiveInvariant, TypeOK
<1>3. TypeOK'
  BY <1>1, <1>2 DEF InductiveInvariant, TypeOK
<1>4. /\ DefaultIsPhysical' /\ OneNetworkPerInterface' /\ AssignedInterfaceHasTable'
      /\ DestroyOK' /\ Flagged'
  BY <1>1 DEF InductiveInvariant, DefaultIsPhysical, OneNetworkPerInterface, AssignedInterfaceHasTable,
     NetworksWithInterface, DestroyOK, Flagged, Only, isType, isValidNetwork
<1>5. ASSUME NEW y \in todo PROVE ItemOK(y)'
  <2>1. ItemOK(y)
    BY DEF InductiveInvariant
  <2>2. \A ops : Only(ops) <=> Only(ops)'
    BY <1>1 DEF Only
  <2>3. Last(y) <=> Last(y)'
    BY <1>1 DEF Last
  <2>4. \A j : NetworksWithInterface(j)' = NetworksWithInterface(j)
    BY <1>1 DEF NetworksWithInterface
  <2>5. \A n, type : isType(n, type)' <=> isType(n, type)
    BY <1>1 DEF isType, isValidNetwork
  <2> QED
    BY <1>1, <2>1, <2>2, <2>3, <2>4, <2>5
       DEF ItemOK, InsertOK, RemovalOK, VirtualOK, DefaultOK, IsDefaultOK
<1> QED
  BY <1>1, <1>3, <1>4, <1>5 DEF InductiveInvariant

\* A restart of netd leaves the state it started in, but for the marks.
LEMMA RestartInvariant ==
    ASSUME InductiveInvariant, Restart
    PROVE  InductiveInvariant'
<1>1. /\ DOMAIN mNetworks' = {LOCAL_NET_ID} /\ mNetworks'[LOCAL_NET_ID] = LocalNetwork
      /\ mDefaultNetId' = NETID_UNSET /\ todo' = {}
      /\ destroying' = [netId |-> NETID_UNSET, phase |-> "none"]
      /\ UNCHANGED <<marks, ifindex, lastIndex>>
  BY DEF Restart, index
<1>2. TypeOK'
  <2>1. /\ (DOMAIN mNetworks)' \subseteq AllNetIds
        /\ \A n \in DOMAIN mNetworks' : mNetworks'[n] \in Network
    BY <1>1, ConstructorTypes, ConstantTypes
  <2>2. /\ \A f \in Family : rules'[f] \subseteq Rule
        /\ interfaceToTable' \in [Interfaces -> Nat]
    BY DEF Restart, flushRules
  <2>3. faults' \in Nat /\ failed' \in BOOLEAN /\ retries' \in Nat
    <3>1. faults \in Nat
      BY DEF InductiveInvariant, TypeOK
    <3>2. faults' = faults + 1 /\ failed' = FALSE /\ retries' = 0
      BY Zenon DEF Restart
    <3>3. faults + 1 \in Nat /\ 0 \in Nat
      BY <3>1
    <3> QED
      BY <3>2, <3>3, Zenon
  <2> QED
    BY <1>1, <2>1, <2>2, <2>3 DEF InductiveInvariant, TypeOK
<1>3. DefaultIsPhysical'
  BY <1>1 DEF DefaultIsPhysical, isType, isValidNetwork, LocalNetwork
<1>4. OneNetworkPerInterface' /\ AssignedInterfaceHasTable'
  BY <1>1 DEF OneNetworkPerInterface, AssignedInterfaceHasTable, NetworksWithInterface, LocalNetwork
<1>5. DestroyOK' /\ Flagged' /\ (\A x \in todo : ItemOK(x))'
  BY <1>1 DEF DestroyOK, Flagged
<1> QED
  BY <1>2, <1>3, <1>4, <1>5 DEF InductiveInvariant

\* Every step preserves the invariant.
LEMMA NextInvariant ==
    InductiveInvariant /\ [Next]_vars => InductiveInvariant'
<1> SUFFICES ASSUME InductiveInvariant, [Next]_vars PROVE InductiveInvariant'
  OBVIOUS
<1>1. CASE Command
  <2>1. CASE \E n \in PhysicalNetIds, p \in Permissions : createPhysicalNetwork(n, p)
    BY <2>1, CreatePhysicalInvariant
  <2>2. CASE \E n \in VirtualNetIds, d \in HasDns, s \in BOOLEAN : createVirtualNetwork(n, d, s)
    BY <2>2, CreateVirtualInvariant
  <2>3. CASE \E n \in NetIds : destroyNetwork(n)
    BY <2>3, DestroyInvariant
  <2>4. CASE \E n \in NetIds \cup {NETID_UNSET} : setDefaultNetwork(n)
    BY <2>4, SetDefaultInvariant
  <2>5. CASE \E n \in NetIds \cup {LOCAL_NET_ID}, i \in Interfaces : addInterfaceToNetwork(n, i)
    BY <2>5, AddInterfaceInvariant DEF AllNetIds
  <2>6. CASE \E n \in NetIds \cup {LOCAL_NET_ID}, i \in Interfaces : removeInterfaceFromNetwork(n, i)
    BY <2>6, RemoveInterfaceInvariant DEF AllNetIds
  <2>7. CASE \E p \in Permissions, ids \in NetIdLists : setPermissionForNetworks(p, ids)
    BY <2>7, SetPermissionInvariant
  <2>8. CASE \E n \in VirtualNetIds, rs \in (SUBSET Ranges) \ {{}} : addUsersToNetwork(n, rs)
    BY <2>8, ModifyUsersInvariant DEF addUsersToNetwork
  <2>9. CASE \E n \in VirtualNetIds, rs \in (SUBSET Ranges) \ {{}} : removeUsersFromNetwork(n, rs)
    BY <2>9, ModifyUsersInvariant DEF removeUsersFromNetwork
  <2> QED
    BY <1>1, <2>1, <2>2, <2>3, <2>4, <2>5, <2>6, <2>7, <2>8, <2>9 DEF Command
<1>2. CASE Step
  BY <1>2, LookupInvariant, RuleInvariant, MarkInvariant, FlushInvariant, AssignInvariant DEF Step
<1>3. CASE destroyDefaultRules
  BY <1>3, DestroyDefaultRulesInvariant
<1>4. CASE eraseNetwork
  BY <1>4, EraseNetworkInvariant
<1>5. CASE \E i \in Unstable : InterfaceGone(i) \/ InterfaceCreated(i)
  BY <1>5, InterfaceInvariant
<1>6. CASE Restart
  BY <1>6, RestartInvariant
<1>7. CASE UNCHANGED vars
  <2>1. UNCHANGED <<mNetworks, mDefaultNetId, rules, marks, ifindex, lastIndex, interfaceToTable,
                    todo, destroying, faults, failed, retries>>
    BY <1>7 DEF vars, netd, kernel, index, outcome
  <2>2. TypeOK'
    BY <2>1 DEF InductiveInvariant, TypeOK
  <2>3. DefaultIsPhysical'
    BY <2>1 DEF InductiveInvariant, DefaultIsPhysical, isType, isValidNetwork
  <2>6. OneNetworkPerInterface'
    BY <2>1 DEF InductiveInvariant, OneNetworkPerInterface, NetworksWithInterface
  <2>7. AssignedInterfaceHasTable'
    BY <2>1 DEF InductiveInvariant, AssignedInterfaceHasTable
  <2>4. DestroyOK' /\ Flagged'
    BY <2>1 DEF InductiveInvariant, DestroyOK, Flagged, Only, Last, isType, isValidNetwork
  <2>5. ASSUME NEW x \in todo' PROVE ItemOK(x)'
    <3>1. ItemOK(x)
      BY <2>1 DEF InductiveInvariant
    <3> QED
      BY <2>1, <3>1 DEF ItemOK, InsertOK, RemovalOK, VirtualOK, DefaultOK, IsDefaultOK, Only, Last,
         isType, isValidNetwork, NetworksWithInterface
  <2> QED
    BY <2>2, <2>3, <2>4, <2>5, <2>6, <2>7 DEF InductiveInvariant
<1> QED
  BY <1>1, <1>2, <1>3, <1>4, <1>5, <1>6, <1>7 DEF Next

(***************************************************************************)
(* The theorems.                                                           *)
(***************************************************************************)

\* Every command of NetworkController finds, at each of its steps, the state that
\* its checks established when it started, whatever requests have failed.
THEOREM CommandsKeepTheirFooting == Spec => []InductiveInvariant
BY InitInvariant, NextInvariant, PTL DEF Spec

\* Networks, kernel state and pending requests keep their types.
THEOREM TypeCorrect == Spec => []TypeOK
<1>1. InductiveInvariant => TypeOK
  BY DEF InductiveInvariant
<1> QED
  BY <1>1, CommandsKeepTheirFooting, PTL

\* The default network is unset or an existing physical network, and the local
\* network is never destroyed.
THEOREM DefaultAlwaysPhysical == Spec => []DefaultIsPhysical
<1>1. InductiveInvariant => DefaultIsPhysical
  BY DEF InductiveInvariant
<1> QED
  BY <1>1, CommandsKeepTheirFooting, PTL

\* addInterfaceToNetwork and the partial failures of the others never put an
\* interface into two networks.
THEOREM InterfaceInOneNetwork == Spec => []OneNetworkPerInterface
<1>1. InductiveInvariant => OneNetworkPerInterface
  BY DEF InductiveInvariant
<1> QED
  BY <1>1, CommandsKeepTheirFooting, PTL

\* RouteController knows the table of every interface that it has rules for on
\* behalf of a network, even when the interface is gone.
THEOREM TableStaysKnown == Spec => []AssignedInterfaceHasTable
<1>1. InductiveInvariant => AssignedInterfaceHasTable
  BY DEF InductiveInvariant
<1> QED
  BY <1>1, CommandsKeepTheirFooting, PTL

\* Between commands the default network is marked as such.
THEOREM DefaultStaysFlagged == Spec => []DefaultIsFlagged
<1>1. InductiveInvariant => DefaultIsFlagged
  BY DEF InductiveInvariant, DefaultIsFlagged, Flagged, Idle
<1> QED
  BY <1>1, CommandsKeepTheirFooting, PTL
=============================================================================
