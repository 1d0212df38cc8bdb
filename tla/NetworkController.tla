-------------------------- MODULE NetworkController --------------------------
(***************************************************************************)
(* NetworkController.cpp with the Network classes it drives: the networks  *)
(* netd knows, the default network, and the kernel state they stand for.   *)
(*                                                                         *)
(* CommandListener runs one command at a time.  A command first checks its *)
(* arguments and then makes requests to the kernel and assigns to netd's   *)
(* own state, in program order.  "todo" is what the running command has    *)
(* still to do; every request is a step of its own, because packets are    *)
(* routed by the rules of that moment, and every request may fail.  A      *)
(* failed request makes the command return: nothing is rolled back.        *)
(***************************************************************************)
EXTENDS RouteController, Bags

CONSTANTS
    MaxCopies,          \* bound: how often a VPN may hold one uid range
    MaxNetIds,          \* bound: netIds that one "permission" command names
    MaxFaults,          \* bound: requests that fail for a reason of their own, crashes of netd
    MaxRetries,         \* bound: commands run after a request has failed
    Unstable,           \* interfaces that come and go; not there at first
    MaxIndex            \* bound: indices an interface may go through

ASSUME NetworkControllerAssumption ==
    /\ MaxCopies \in Nat /\ MaxNetIds \in Nat
    /\ MaxFaults \in Nat /\ MaxRetries \in Nat /\ MaxIndex \in Nat
    /\ Unstable \subseteq Interfaces

Family == {4, 6}        \* AF_FAMILIES, in this order

VARIABLES
    mNetworks,          \* netId -> network
    mDefaultNetId,
    rules,              \* the rules of each family, those of Init left out
    marks,              \* INPUT chain of the mangle table, per family: a bag
    ifindex,            \* if_nametoindex: 0 when the interface does not exist
    lastIndex,          \* the last index the interface was given
    interfaceToTable,   \* the cached index of an interface, 0 when there is none
    todo,               \* what the running command has still to do
    destroying,         \* network that destroyNetwork is working on, and its phase
    faults,             \* requests that failed for a reason of their own, and crashes of netd
    failed,             \* some request has failed since netd started, for whatever reason
    retries             \* commands run since then

netd    == <<mNetworks, mDefaultNetId>>
kernel  == <<rules, marks>>
index   == <<ifindex, lastIndex>>
outcome == <<faults, failed>>
vars    == <<netd, kernel, index, interfaceToTable, todo, destroying, outcome, retries>>

isValidNetwork(netId) == netId \in DOMAIN mNetworks
isType(netId, type) == isValidNetwork(netId) /\ mNetworks[netId].type = type
vpns == { v \in DOMAIN mNetworks : isType(v, "VIRTUAL") }

\* The networks that have the interface: getNetworkForInterface returns one of
\* them, or NETID_UNSET when there is none.
NetworksWithInterface(interface) ==
    { n \in DOMAIN mNetworks : interface \in mNetworks[n].mInterfaces }
-----------------------------------------------------------------------------
(***************************************************************************)
(* Assignments to netd's state, as steps of a command.                     *)
(***************************************************************************)
Insert(path, netId, interface) ==
    [at |-> path, op |-> "insert", netId |-> netId, interface |-> interface]
Erase(path, netId, interface) ==
    [at |-> path, op |-> "erase", netId |-> netId, interface |-> interface]
\* flushRoutes, and the erase that follows it when it succeeds.
Flush(path, netId, interface) ==
    [at |-> path, op |-> "flush", netId |-> netId, interface |-> interface]
SetPermission(path, netId, permission) ==
    [at |-> path, op |-> "permission", netId |-> netId, permission |-> permission]
SetIsDefault(path, netId, isDefault) ==
    [at |-> path, op |-> "isDefault", netId |-> netId, isDefault |-> isDefault]
SetDefaultNetId(path, netId) ==
    [at |-> path, op |-> "default", netId |-> netId]
SetUidRanges(path, netId, add, uidRanges) ==
    [at |-> path, op |-> "users", netId |-> netId, add |-> add, ranges |-> uidRanges]
NewVirtualNetwork(path, netId, hasDns, secure) ==
    [at |-> path, op |-> "virtual", netId |-> netId, hasDns |-> hasDns, secure |-> secure]

(***************************************************************************)
(* The methods of the Network classes, as sets of requests.                *)
(***************************************************************************)

\* DelegateImpl::modifyFallthrough: one rule for each VPN.
modifyFallthrough(path, physicalInterface, permission, add) ==
    UNION { modifyVpnFallthroughRule(path \o <<v>>, v, physicalInterface, permission, add)
            : v \in vpns }

\* Faulty variant: the VPNs are forgotten.
BugAddToDefault(path, interface, permission) ==
    modifyDefaultNetwork(path \o <<1>>, interface, permission, TRUE)

addToDefault(path, interface, permission) ==
    modifyDefaultNetwork(path \o <<1>>, interface, permission, TRUE)
    \cup modifyFallthrough(path \o <<2>>, interface, permission, TRUE)

removeFromDefault(path, interface, permission) ==
    modifyDefaultNetwork(path \o <<1>>, interface, permission, FALSE)
    \cup modifyFallthrough(path \o <<2>>, interface, permission, FALSE)

\* PhysicalNetwork::setPermission.
setPermission(path, netId, permission) ==
    LET network == mNetworks[netId]
    IN  IF permission = network.mPermission THEN {}
        ELSE (UNION { modifyPhysicalNetworkPermission(path \o <<1, i>>, netId, i,
                                                     network.mPermission, permission)
                     : i \in network.mInterfaces })
             \cup (IF network.mIsDefault
                   THEN UNION { addToDefault(path \o <<2, i, 1>>, i, permission)
                                \cup removeFromDefault(path \o <<2, i, 2>>, i, network.mPermission)
                                : i \in network.mInterfaces }
                   ELSE {})
             \cup {SetPermission(path \o <<3>>, netId, permission)}

\* PhysicalNetwork::addAsDefault and removeAsDefault.
addAsDefault(path, netId) ==
    IF mNetworks[netId].mIsDefault THEN {}
    ELSE (UNION { addToDefault(path \o <<1, i>>, i, mNetworks[netId].mPermission)
                 : i \in mNetworks[netId].mInterfaces })
         \cup {SetIsDefault(path \o <<2>>, netId, TRUE)}

removeAsDefault(path, netId) ==
    IF ~mNetworks[netId].mIsDefault THEN {}
    ELSE (UNION { removeFromDefault(path \o <<1, i>>, i, mNetworks[netId].mPermission)
                 : i \in mNetworks[netId].mInterfaces })
         \cup {SetIsDefault(path \o <<2>>, netId, FALSE)}

\* addInterface of the three classes.
addInterface(path, netId, i) ==
    LET network == mNetworks[netId]
    IN  CASE network.type = "LOCAL" ->
                modifyLocalNetwork(path \o <<1>>, netId, i, TRUE)
          [] network.type = "PHYSICAL" ->
                modifyPhysicalNetwork(path \o <<1>>, netId, i, network.mPermission, TRUE)
                \cup (IF network.mIsDefault
                      THEN addToDefault(path \o <<2>>, i, network.mPermission) ELSE {})
          [] network.type = "VIRTUAL" ->
                modifyVirtualNetwork(path \o <<1>>, netId, i, network.mUidRanges,
                                     network.mSecure, TRUE, TRUE)

\* Faulty variant: an interface of the default network keeps its default rules.
BugRemoveInterface(path, netId, i) ==
    LET network == mNetworks[netId]
    IN  CASE network.type = "LOCAL" ->
                modifyLocalNetwork(path \o <<1>>, netId, i, FALSE)
                \cup {Erase(path \o <<2>>, netId, i)}
          [] network.type = "PHYSICAL" ->
                modifyPhysicalNetwork(path \o <<2>>, netId, i, network.mPermission, FALSE)
                \cup {Flush(path \o <<3>>, netId, i)}
          [] network.type = "VIRTUAL" ->
                modifyVirtualNetwork(path \o <<1>>, netId, i, network.mUidRanges,
                                     network.mSecure, FALSE, TRUE)
                \cup {Flush(path \o <<2>>, netId, i)}

\* removeInterface of the three classes; what flushes the cached index is last.
removeInterface(path, netId, i) ==
    LET network == mNetworks[netId]
    IN  CASE network.type = "LOCAL" ->
                modifyLocalNetwork(path \o <<1>>, netId, i, FALSE)
                \cup {Erase(path \o <<2>>, netId, i)}
          [] network.type = "PHYSICAL" ->
                (IF network.mIsDefault
                 THEN removeFromDefault(path \o <<1>>, i, network.mPermission) ELSE {})
                \cup modifyPhysicalNetwork(path \o <<2>>, netId, i, network.mPermission, FALSE)
                \cup {Flush(path \o <<3>>, netId, i)}
          [] network.type = "VIRTUAL" ->
                modifyVirtualNetwork(path \o <<1>>, netId, i, network.mUidRanges,
                                     network.mSecure, FALSE, TRUE)
                \cup {Flush(path \o <<2>>, netId, i)}

\* Network::clearInterfaces stops at the first interface it cannot remove.
clearInterfaces(path, netId) ==
    UNION { removeInterface(path \o <<i>>, netId, i) : i \in mNetworks[netId].mInterfaces }

\* NetworkController::modifyFallthroughLocked: one rule for each interface of
\* the default network.
modifyFallthroughLocked(path, vpnNetId, add) ==
    IF isType(mDefaultNetId, "PHYSICAL")
    THEN UNION { modifyVpnFallthroughRule(path \o <<i>>, vpnNetId, i,
                                          mNetworks[mDefaultNetId].mPermission, add)
                 : i \in mNetworks[mDefaultNetId].mInterfaces }
    ELSE {}

\* VirtualNetwork::addUsers and removeUsers.
modifyUsers(path, netId, uidRanges, add) ==
    (UNION { modifyVirtualNetwork(path \o <<1, i>>, netId, i, [r \in uidRanges |-> 1],
                                 mNetworks[netId].mSecure, add, FALSE)
            : i \in mNetworks[netId].mInterfaces })
    \cup {SetUidRanges(path \o <<2>>, netId, add, uidRanges)}
-----------------------------------------------------------------------------
\* RouteController::Init flushes all rules before it adds its own.
flushRules == [f \in Family |-> {}]

Init ==
    /\ mNetworks = [n \in {LOCAL_NET_ID} |-> LocalNetwork]
    /\ mDefaultNetId = NETID_UNSET
    /\ rules = flushRules
    /\ marks = [f \in Family |-> EmptyBag]
    /\ ifindex = [i \in Interfaces |-> IF i \in Unstable THEN 0 ELSE 1]
    /\ lastIndex = ifindex
    /\ interfaceToTable = [i \in Interfaces |-> 0]
    /\ todo = {}
    /\ destroying = [netId |-> NETID_UNSET, phase |-> "none"]
    /\ faults = 0
    /\ failed = FALSE
    /\ retries = 0

Idle == todo = {} /\ destroying.netId = NETID_UNSET

(***************************************************************************)
(* The commands.  One that an early return leaves without effect is not    *)
(* taken.                                                                  *)
(***************************************************************************)
Admit ==
    /\ Idle
    /\ IF failed THEN retries < MaxRetries /\ retries' = retries + 1 ELSE UNCHANGED retries

Start(requests) ==
    /\ Admit
    /\ todo' = requests
    /\ UNCHANGED <<netd, kernel, index, interfaceToTable, destroying, outcome>>

\* setPermission makes no request here: the network has no interfaces yet.
createPhysicalNetwork(netId, permission) ==
    /\ Admit
    /\ netId \in MIN_NET_ID..MAX_NET_ID \/ netId \in MIN_OEM_ID..MAX_OEM_ID
    /\ ~isValidNetwork(netId)
    /\ mNetworks' = [n \in DOMAIN mNetworks \cup {netId} |->
                        IF n = netId THEN PhysicalNetwork(permission) ELSE mNetworks[n]]
    /\ UNCHANGED <<mDefaultNetId, kernel, index, interfaceToTable, todo, destroying, outcome>>

\* Faulty variant: nobody looks whether the netId is taken.
BugCreateVirtualNetwork(netId, hasDns, secure) ==
    /\ netId \in MIN_NET_ID..MAX_NET_ID
    /\ mDefaultNetId = NETID_UNSET \/ isType(mDefaultNetId, "PHYSICAL")
    /\ Start(modifyFallthroughLocked(<<1>>, netId, TRUE)
             \cup {NewVirtualNetwork(<<2>>, netId, hasDns, secure)})

createVirtualNetwork(netId, hasDns, secure) ==
    /\ netId \in MIN_NET_ID..MAX_NET_ID
    /\ ~isValidNetwork(netId)
    /\ mDefaultNetId = NETID_UNSET \/ isType(mDefaultNetId, "PHYSICAL")
    /\ Start(modifyFallthroughLocked(<<1>>, netId, TRUE)
             \cup {NewVirtualNetwork(<<2>>, netId, hasDns, secure)})

\* Faulty variant: the old default network is removed before the new one is added.
BugSetDefaultNetworkOrder(netId) ==
    /\ netId # mDefaultNetId
    /\ netId = NETID_UNSET \/ isType(netId, "PHYSICAL")
    /\ Start((IF netId = NETID_UNSET THEN {} ELSE addAsDefault(<<2>>, netId))
             \cup (IF mDefaultNetId = NETID_UNSET THEN {} ELSE removeAsDefault(<<1>>, mDefaultNetId))
             \cup {SetDefaultNetId(<<3>>, netId)})

\* Faulty variant: mDefaultNetId is assigned before the requests are made.
BugSetDefaultNetworkEarly(netId) ==
    /\ netId # mDefaultNetId
    /\ netId = NETID_UNSET \/ isType(netId, "PHYSICAL")
    /\ Start((IF netId = NETID_UNSET THEN {} ELSE addAsDefault(<<1>>, netId))
             \cup (IF mDefaultNetId = NETID_UNSET THEN {} ELSE removeAsDefault(<<2>>, mDefaultNetId))
             \cup {SetDefaultNetId(<<0>>, netId)})

setDefaultNetwork(netId) ==
    /\ netId # mDefaultNetId
    /\ netId = NETID_UNSET \/ isType(netId, "PHYSICAL")
    /\ Start((IF netId = NETID_UNSET THEN {} ELSE addAsDefault(<<1>>, netId))
             \cup (IF mDefaultNetId = NETID_UNSET THEN {SetDefaultNetId(<<3>>, netId)}
                   ELSE IF isType(mDefaultNetId, "PHYSICAL")
                        THEN removeAsDefault(<<2>>, mDefaultNetId)
                             \cup {SetDefaultNetId(<<3>>, netId)}
                        ELSE {}))

addInterfaceToNetwork(netId, interface) ==
    /\ isValidNetwork(netId)
    /\ NetworksWithInterface(interface) = {}
    /\ Start(addInterface(<<1>>, netId, interface) \cup {Insert(<<2>>, netId, interface)})

removeInterfaceFromNetwork(netId, interface) ==
    /\ isValidNetwork(netId)
    /\ interface \in mNetworks[netId].mInterfaces
    /\ Start(removeInterface(<<1>>, netId, interface))

\* Stops at the first netId of the list that is not a physical network: netIds is
\* the list up to there, without the networks that have the permission already.
setPermissionForNetworks(permission, netIds) ==
    /\ \A k \in DOMAIN netIds :
        isType(netIds[k], "PHYSICAL") /\ mNetworks[netIds[k]].mPermission # permission
    /\ Start(UNION { setPermission(<<k>>, netIds[k], permission) : k \in DOMAIN netIds })

addUsersToNetwork(netId, uidRanges) ==
    /\ isType(netId, "VIRTUAL")
    /\ \A r \in uidRanges : mNetworks[netId].mUidRanges[r] < MaxCopies
    /\ Start(modifyUsers(<<1>>, netId, uidRanges, TRUE))

removeUsersFromNetwork(netId, uidRanges) ==
    /\ isType(netId, "VIRTUAL")
    /\ Start(modifyUsers(<<1>>, netId, uidRanges, FALSE))

(***************************************************************************)
(* destroyNetwork goes through all of its phases whatever fails: it clears *)
(* the interfaces, then the default rules or the VPN's fallthrough rules,  *)
(* and then deletes the network.                                           *)
(***************************************************************************)
destroyNetwork(netId) ==
    /\ Admit
    /\ netId # LOCAL_NET_ID
    /\ isValidNetwork(netId)
    /\ destroying' = [netId |-> netId, phase |-> "clearInterfaces"]
    /\ todo' = clearInterfaces(<<1>>, netId)
    /\ UNCHANGED <<netd, kernel, index, interfaceToTable, outcome>>

destroyDefaultRules ==
    LET netId == destroying.netId
    IN  /\ todo = {} /\ destroying.phase = "clearInterfaces"
        /\ destroying' = [destroying EXCEPT !.phase = "removeAsDefault"]
        /\ todo' = IF mDefaultNetId = netId THEN removeAsDefault(<<2>>, netId)
                   ELSE IF isType(netId, "VIRTUAL")
                        THEN modifyFallthroughLocked(<<2>>, netId, FALSE) ELSE {}
        /\ UNCHANGED <<netd, kernel, index, interfaceToTable, outcome, retries>>

\* Faulty variant: destroyNetwork returns early, keeping the network, when an
\* earlier phase failed.
BugEraseNetworkUnlessFailed ==
    LET netId == destroying.netId
    IN  /\ todo = {} /\ destroying.phase = "removeAsDefault"
        /\ IF failed THEN UNCHANGED <<mDefaultNetId, mNetworks>>
           ELSE /\ mDefaultNetId' = IF mDefaultNetId = netId THEN NETID_UNSET ELSE mDefaultNetId
                /\ mNetworks' = [n \in DOMAIN mNetworks \ {netId} |-> mNetworks[n]]
        /\ destroying' = [netId |-> NETID_UNSET, phase |-> "none"]
        /\ UNCHANGED <<kernel, index, interfaceToTable, todo, outcome, retries>>

eraseNetwork ==
    LET netId == destroying.netId
    IN  /\ todo = {} /\ destroying.phase = "removeAsDefault"
        /\ mDefaultNetId' = IF mDefaultNetId = netId THEN NETID_UNSET ELSE mDefaultNetId
        /\ mNetworks' = [n \in DOMAIN mNetworks \ {netId} |-> mNetworks[n]]
        /\ destroying' = [netId |-> NETID_UNSET, phase |-> "none"]
        /\ UNCHANGED <<kernel, index, interfaceToTable, todo, outcome, retries>>
-----------------------------------------------------------------------------
(***************************************************************************)
(* The steps of the running command.                                       *)
(***************************************************************************)
Succeed(x) == todo' = todo \ {x} /\ UNCHANGED outcome

\* The error is returned all the way up.
Fail == todo' = {} /\ failed' = TRUE
Refused == Fail /\ UNCHANGED faults
Fault == Fail /\ faults < MaxFaults /\ faults' = faults + 1

getRouteTableForInterface(x) ==
    /\ x.op = "lookup"
    /\ IF ifindex[x.interface] # 0
       THEN /\ interfaceToTable' = [interfaceToTable EXCEPT ![x.interface] = ifindex[x.interface]]
            /\ Succeed(x)
       ELSE /\ UNCHANGED interfaceToTable
            /\ IF interfaceToTable[x.interface] # 0 THEN Succeed(x) ELSE Refused
    /\ UNCHANGED <<netd, kernel, index, destroying, retries>>

\* The rule, with the table number looked up before.
Resolve(rule) ==
    IF rule.table[1] = INTERFACE_NONE THEN rule
    ELSE [rule EXCEPT !.table = InterfaceTable(rule.table[1], interfaceToTable[rule.table[1]])]

\* A rule that exists cannot be added (NLM_F_EXCL), one that does not exist
\* cannot be deleted.
CanApply(f, add, rule) == add # (rule \in rules[f])

\* IPv4 first, then IPv6.  "done" is the families the request succeeded for; in
\* the one it fails for, it may have taken effect without its answer arriving.
sendRuleRequest(x) ==
    /\ x.op = "rule"
    /\ \E done \in {{}, {4}, Family} :
        LET next == IF done = {} THEN 4 ELSE 6
            rule == Resolve(x.rule)
        IN  \E applied \in {done, done \cup {next}} :
                /\ \A f \in applied : CanApply(f, x.add, rule)
                /\ rules' = [f \in Family |->
                               IF f \notin applied THEN rules[f]
                               ELSE IF x.add THEN rules[f] \cup {rule} ELSE rules[f] \ {rule}]
                /\ IF done = Family THEN Succeed(x)
                   ELSE IF CanApply(next, x.add, rule) THEN Fault ELSE Refused
    /\ UNCHANGED <<netd, marks, index, interfaceToTable, destroying, retries>>

\* execIptables runs both iptables and ip6tables, and fails when one of them does.
execIptablesMark(x) ==
    /\ x.op = "mark"
    /\ \E done \in SUBSET { f \in Family : x.add \/ BagIn(x.mark, marks[f]) } :
        /\ marks' = [f \in Family |->
                       IF f \notin done THEN marks[f]
                       ELSE IF x.add THEN marks[f] (+) SetToBag({x.mark})
                       ELSE marks[f] (-) SetToBag({x.mark})]
        /\ IF done = Family THEN Succeed(x)
           ELSE IF \E f \in Family \ done : x.add \/ BagIn(x.mark, marks[f]) THEN Fault ELSE Refused
    /\ UNCHANGED <<netd, rules, index, interfaceToTable, destroying, retries>>

\* flushRoutes forgets the index of the interface only when it succeeds; the
\* caller then forgets the interface.
flushRoutes(x) ==
    /\ x.op = "flush"
    /\ \/ /\ ifindex[x.interface] # 0 \/ interfaceToTable[x.interface] # 0
          /\ interfaceToTable' = [interfaceToTable EXCEPT ![x.interface] = 0]
          /\ mNetworks' = [mNetworks EXCEPT ![x.netId].mInterfaces = @ \ {x.interface}]
          /\ Succeed(x)
       \/ /\ IF ifindex[x.interface] # 0
             THEN /\ interfaceToTable' = [interfaceToTable EXCEPT ![x.interface] = ifindex[x.interface]]
                  /\ Fault
             ELSE /\ UNCHANGED interfaceToTable
                  /\ IF interfaceToTable[x.interface] # 0 THEN Fault ELSE Refused
          /\ UNCHANGED mNetworks
    /\ UNCHANGED <<mDefaultNetId, kernel, index, destroying, retries>>

\* Assignments to netd's state.
assign(x) ==
    /\ \/ /\ x.op = "insert"
          /\ mNetworks' = [mNetworks EXCEPT ![x.netId].mInterfaces = @ \cup {x.interface}]
          /\ UNCHANGED mDefaultNetId
       \/ /\ x.op = "erase"
          /\ mNetworks' = [mNetworks EXCEPT ![x.netId].mInterfaces = @ \ {x.interface}]
          /\ UNCHANGED mDefaultNetId
       \/ /\ x.op = "permission"
          /\ mNetworks' = [mNetworks EXCEPT ![x.netId].mPermission = x.permission]
          /\ UNCHANGED mDefaultNetId
       \/ /\ x.op = "isDefault"
          /\ mNetworks' = [mNetworks EXCEPT ![x.netId].mIsDefault = x.isDefault]
          /\ UNCHANGED mDefaultNetId
       \/ /\ x.op = "users"
          /\ mNetworks' = [mNetworks EXCEPT ![x.netId].mUidRanges =
                              IF x.add THEN AddRanges(@, x.ranges) ELSE RemoveRanges(@, x.ranges)]
          /\ UNCHANGED mDefaultNetId
       \/ /\ x.op = "virtual"
          /\ mNetworks' = [n \in DOMAIN mNetworks \cup {x.netId} |->
                              IF n = x.netId THEN VirtualNetwork(x.hasDns, x.secure) ELSE mNetworks[n]]
          /\ UNCHANGED mDefaultNetId
       \/ /\ x.op = "default"
          /\ mDefaultNetId' = x.netId
          /\ UNCHANGED mNetworks
    /\ Succeed(x)
    /\ UNCHANGED <<kernel, index, interfaceToTable, destroying, retries>>

\* The next request or assignment of the running command, in program order.
Step ==
    \E x \in todo :
        /\ \A y \in todo \ {x} : Before(x.at, y.at)
        /\ \/ getRouteTableForInterface(x)
           \/ sendRuleRequest(x)
           \/ execIptablesMark(x)
           \/ flushRoutes(x)
           \/ assign(x)
-----------------------------------------------------------------------------
(***************************************************************************)
(* Interfaces come and go by themselves.                                   *)
(***************************************************************************)
InterfaceGone(interface) ==
    /\ ifindex[interface] # 0
    /\ ifindex' = [ifindex EXCEPT ![interface] = 0]
    /\ UNCHANGED <<netd, kernel, lastIndex, interfaceToTable, todo, destroying, outcome, retries>>

InterfaceCreated(interface) ==
    /\ ifindex[interface] = 0
    /\ lastIndex[interface] < MaxIndex
    /\ lastIndex' = [lastIndex EXCEPT ![interface] = @ + 1]
    /\ ifindex' = [ifindex EXCEPT ![interface] = lastIndex[interface] + 1]
    /\ UNCHANGED <<netd, kernel, interfaceToTable, todo, destroying, outcome, retries>>

(***************************************************************************)
(* netd dies and is started again: its own state is lost, and the rules    *)
(* are flushed; what it put into the INPUT chain stays.                    *)
(***************************************************************************)
\* Faulty variant: the rules of the earlier run are not flushed.
BugRestart ==
    /\ faults < MaxFaults /\ faults' = faults + 1
    /\ mNetworks' = [n \in {LOCAL_NET_ID} |-> LocalNetwork]
    /\ mDefaultNetId' = NETID_UNSET
    /\ interfaceToTable' = [i \in Interfaces |-> 0]
    /\ todo' = {}
    /\ destroying' = [netId |-> NETID_UNSET, phase |-> "none"]
    /\ failed' = FALSE
    /\ retries' = 0
    /\ UNCHANGED <<rules, marks, index>>

Restart ==
    /\ faults < MaxFaults /\ faults' = faults + 1
    /\ mNetworks' = [n \in {LOCAL_NET_ID} |-> LocalNetwork]
    /\ mDefaultNetId' = NETID_UNSET
    /\ rules' = flushRules
    /\ interfaceToTable' = [i \in Interfaces |-> 0]
    /\ todo' = {}
    /\ destroying' = [netId |-> NETID_UNSET, phase |-> "none"]
    /\ failed' = FALSE
    /\ retries' = 0
    /\ UNCHANGED <<marks, index>>

\* Lists of different netIds: a second occurrence finds the permission set.
NetIdLists ==
    UNION { { s \in [1..k -> PhysicalNetIds] : \A a, b \in 1..k : s[a] = s[b] => a = b }
            : k \in 1..MaxNetIds }

Command ==
    \/ \E n \in PhysicalNetIds, p \in Permissions : createPhysicalNetwork(n, p)
    \/ \E n \in VirtualNetIds, d \in HasDns, s \in BOOLEAN : createVirtualNetwork(n, d, s)
    \/ \E n \in NetIds : destroyNetwork(n)
    \/ \E n \in NetIds \cup {NETID_UNSET} : setDefaultNetwork(n)
    \/ \E n \in NetIds \cup {LOCAL_NET_ID}, i \in Interfaces : addInterfaceToNetwork(n, i)
    \/ \E n \in NetIds \cup {LOCAL_NET_ID}, i \in Interfaces : removeInterfaceFromNetwork(n, i)
    \/ \E p \in Permissions, ids \in NetIdLists : setPermissionForNetworks(p, ids)
    \/ \E n \in VirtualNetIds, rs \in (SUBSET Ranges) \ {{}} : addUsersToNetwork(n, rs)
    \/ \E n \in VirtualNetIds, rs \in (SUBSET Ranges) \ {{}} : removeUsersFromNetwork(n, rs)

Next ==
    \/ Command
    \/ Step
    \/ destroyDefaultRules
    \/ eraseNetwork
    \/ Restart
    \/ \E i \in Unstable : InterfaceGone(i) \/ InterfaceCreated(i)

Spec == Init /\ [][Next]_vars

\* The thread of CommandListener carries on with the command it has started, and
\* the kernel answers every request; nobody has to send a command.
FairSpec == Spec /\ WF_vars(Step \/ destroyDefaultRules \/ eraseNetwork)
-----------------------------------------------------------------------------
(***************************************************************************)
(* Properties.                                                             *)
(***************************************************************************)
Assignment ==
    [at : Seq(Nat), op : {"insert", "erase", "flush"}, netId : AllNetIds, interface : Interfaces]
    \cup [at : Seq(Nat), op : {"permission"}, netId : NetIds, permission : Permissions]
    \cup [at : Seq(Nat), op : {"isDefault"}, netId : NetIds, isDefault : BOOLEAN]
    \cup [at : Seq(Nat), op : {"default"}, netId : NetIds \cup {NETID_UNSET}]
    \cup [at : Seq(Nat), op : {"users"}, netId : NetIds, add : BOOLEAN, ranges : SUBSET Ranges]
    \cup [at : Seq(Nat), op : {"virtual"}, netId : VirtualNetIds, hasDns : HasDns,
          secure : BOOLEAN]

\* Every variable has its type: the state of the Network classes, the kernel's
\* rules and marks, and the requests of the running command.
TypeOK ==
    /\ DOMAIN mNetworks \subseteq AllNetIds
    /\ \A n \in DOMAIN mNetworks : mNetworks[n] \in Network
    /\ mDefaultNetId \in NetIds \cup {NETID_UNSET}
    /\ \A f \in Family : rules[f] \subseteq Rule
    /\ \A f \in Family : IsABag(marks[f]) /\ DOMAIN marks[f] \subseteq IncomingMark
    /\ ifindex \in [Interfaces -> Nat]
    /\ lastIndex \in [Interfaces -> Nat]
    /\ interfaceToTable \in [Interfaces -> Nat]
    /\ todo \subseteq Request \cup Assignment
    /\ destroying \in [netId : NetIds \cup {NETID_UNSET},
                       phase : {"none", "clearInterfaces", "removeAsDefault"}]
    /\ faults \in Nat /\ failed \in BOOLEAN /\ retries \in Nat

\* The local network always exists, and the default network is unset or an
\* existing physical network: the branches of setDefaultNetwork and
\* modifyFallthroughLocked that report a lost or non-physical default network
\* ("inconceivable!") are never taken, whatever requests fail.
DefaultIsPhysical ==
    /\ isType(LOCAL_NET_ID, "LOCAL")
    /\ mDefaultNetId # NETID_UNSET => isType(mDefaultNetId, "PHYSICAL")

\* An interface belongs to at most one network, whatever requests fail: the
\* answer of getNetworkForInterface does not depend on the order of the map.
OneNetworkPerInterface ==
    \A i \in Interfaces : \A m, n \in NetworksWithInterface(i) : m = n

\* While an interface belongs to a physical or virtual network its table number
\* is known, even when the interface itself is gone: flushRoutes forgets it
\* only together with the interface, so that the rules can still be removed.
AssignedInterfaceHasTable ==
    \A n \in DOMAIN mNetworks :
        mNetworks[n].type # "LOCAL" =>
            \A i \in mNetworks[n].mInterfaces : interfaceToTable[i] # 0

\* A default network is marked as such between commands, whatever requests
\* fail: setDefaultNetwork records the new one only when the old one is undone.
DefaultIsFlagged ==
    Idle /\ mDefaultNetId # NETID_UNSET => mNetworks[mDefaultNetId].mIsDefault

(***************************************************************************)
(* The inductive invariant: what the rest of the running command relies on *)
(* still holds when its turn comes.                                        *)
(***************************************************************************)
Last(x) == \A y \in todo \ {x} : Before(y.at, x.at)
Only(ops) == \A y \in todo : y.op \in ops
RequestOps == {"lookup", "rule", "mark"}
Removal == RequestOps \cup {"flush", "erase"}

InsertOK(x) ==
    /\ x.netId \in DOMAIN mNetworks
    /\ NetworksWithInterface(x.interface) = {}
    /\ Last(x) /\ Only(RequestOps \cup {"insert"})
    /\ \/ mNetworks[x.netId].type = "LOCAL"
       \/ interfaceToTable[x.interface] # 0
       \/ \E y \in todo : y.op = "lookup" /\ y.interface = x.interface

RemovalOK(x) ==
    /\ x.netId \in DOMAIN mNetworks
    /\ NetworksWithInterface(x.interface) \subseteq {x.netId}
    /\ Only(Removal)

VirtualOK(x) ==
    /\ x.netId \notin DOMAIN mNetworks
    /\ Last(x) /\ Only(RequestOps \cup {"virtual"})

\* The new default network will be marked, and the old one unmarked, by then.
DefaultOK(x) ==
    /\ Last(x) /\ Only(RequestOps \cup {"isDefault", "default"})
    /\ x.netId # mDefaultNetId
    /\ x.netId # NETID_UNSET =>
        /\ isType(x.netId, "PHYSICAL")
        /\ \/ mNetworks[x.netId].mIsDefault
           \/ \E y \in todo : y.op = "isDefault" /\ y.netId = x.netId
    /\ mDefaultNetId # NETID_UNSET =>
        \/ ~mNetworks[mDefaultNetId].mIsDefault
        \/ \E y \in todo : y.op = "isDefault" /\ y.netId = mDefaultNetId

\* A network is marked as the default before the default network is set to it,
\* and unmarked just before the default network changes or it is deleted.
IsDefaultOK(x) ==
    /\ isType(x.netId, "PHYSICAL")
    /\ x.isDefault <=> x.netId # mDefaultNetId
    /\ \A y \in todo \ {x} : x.isDefault \/ y.op = "default" \/ Before(y.at, x.at)
    /\ destroying.netId = x.netId \/ \E y \in todo : y.op = "default"

ItemOK(x) ==
    /\ x.op = "insert" => InsertOK(x)
    /\ x.op \in {"flush", "erase"} => RemovalOK(x)
    /\ x.op = "virtual" => VirtualOK(x)
    /\ x.op = "default" => DefaultOK(x)
    /\ x.op = "isDefault" => IsDefaultOK(x)
    /\ x.op = "permission" => isType(x.netId, "PHYSICAL")
    /\ x.op = "users" => isType(x.netId, "VIRTUAL")

DestroyOK ==
    /\ destroying.netId = NETID_UNSET <=> destroying.phase = "none"
    /\ destroying.netId # NETID_UNSET =>
        /\ destroying.netId \in DOMAIN mNetworks
        /\ Only(Removal \cup {"isDefault"})

\* The default network is marked, but for the moment before it changes.
Flagged ==
    mDefaultNetId # NETID_UNSET =>
        \/ mNetworks[mDefaultNetId].mIsDefault
        \/ \E x \in todo : x.op = "default" /\ todo = {x}
        \/ destroying.netId = mDefaultNetId

\* Every command finds, at each of its steps and whatever other requests failed
\* before, the state its checks established when it started.
InductiveInvariant ==
    /\ TypeOK
    /\ DefaultIsPhysical
    /\ OneNetworkPerInterface
    /\ AssignedInterfaceHasTable
    /\ DestroyOK
    /\ Flagged
    /\ \A x \in todo : ItemOK(x)

\* "If we fail to destroy a network, things will get stuck badly.": destroyNetwork
\* comes to its end, whatever requests fail, and not before the network is gone.
DestroyCompletes ==
    /\ destroying.netId # NETID_UNSET ~> destroying.netId = NETID_UNSET
    /\ [][destroying.netId # NETID_UNSET =>
            destroying'.netId = destroying.netId \/ destroying.netId \notin DOMAIN mNetworks']_vars

\* destroyNetwork is to "clear out as much state as possible, even if we hit an
\* error on the way": after the one fault there has been, the rules that still
\* name a network that no longer exists all concern one interface.
DestroyClearsOtherInterfaces ==
    Idle /\ faults <= 1 /\ retries = 0 =>
        \A f \in Family : \A r, s \in rules[f] :
            r.netId = s.netId /\ r.netId \in NetIds /\ ~isValidNetwork(r.netId) => r.table = s.table

\* "If the interface goes away if_nametoindex() will return 0 but we still need to
\* know the index so we can remove the rules and routes": when no request has
\* failed for a reason of its own, an interface that is in no network has no rules.
ForgottenInterfaceHasNoRules ==
    Idle /\ faults = 0 =>
        \A i \in Interfaces : NetworksWithInterface(i) = {} =>
            \A f \in Family : \A r \in rules[f] : r.table[1] # i
=============================================================================
