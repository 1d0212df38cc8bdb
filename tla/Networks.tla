------------------------------ MODULE Networks ------------------------------
(***************************************************************************)
(* What NetworkController promises to those who read its state under the   *)
(* lock (FwmarkServer, DnsProxyListener): how the networks and the default *)
(* network may change.  The kernel, the requests and their failures are    *)
(* not seen here; module NetworkController implements this one.            *)
(***************************************************************************)
EXTENDS NetworkTypes

VARIABLES mNetworks, mDefaultNetId

netd == <<mNetworks, mDefaultNetId>>

Exists(n, type) == n \in DOMAIN mNetworks /\ mNetworks[n].type = type

Init ==
    /\ mNetworks = [n \in {LOCAL_NET_ID} |-> LocalNetwork]
    /\ mDefaultNetId = NETID_UNSET

\* A network starts without interfaces and users, and not as the default.
Create(n, network) ==
    /\ n \notin DOMAIN mNetworks
    /\ mNetworks' = [m \in DOMAIN mNetworks \cup {n} |-> IF m = n THEN network ELSE mNetworks[m]]
    /\ UNCHANGED mDefaultNetId

\* The default network is unset in the same step as it ceases to exist.
Destroy(n) ==
    /\ n \in DOMAIN mNetworks \ {LOCAL_NET_ID}
    /\ mNetworks' = [m \in DOMAIN mNetworks \ {n} |-> mNetworks[m]]
    /\ mDefaultNetId' = IF mDefaultNetId = n THEN NETID_UNSET ELSE mDefaultNetId

\* An interface joins a network only when it is in none.
AddInterface(n, i) ==
    /\ n \in DOMAIN mNetworks
    /\ \A m \in DOMAIN mNetworks : i \notin mNetworks[m].mInterfaces
    /\ mNetworks' = [mNetworks EXCEPT ![n].mInterfaces = @ \cup {i}]
    /\ UNCHANGED mDefaultNetId

RemoveInterface(n, i) ==
    /\ n \in DOMAIN mNetworks
    /\ mNetworks' = [mNetworks EXCEPT ![n].mInterfaces = @ \ {i}]
    /\ UNCHANGED mDefaultNetId

SetPermission(n, p) ==
    /\ Exists(n, "PHYSICAL")
    /\ mNetworks' = [mNetworks EXCEPT ![n].mPermission = p]
    /\ UNCHANGED mDefaultNetId

SetIsDefault(n, isDefault) ==
    /\ Exists(n, "PHYSICAL")
    /\ mNetworks' = [mNetworks EXCEPT ![n].mIsDefault = isDefault]
    /\ UNCHANGED mDefaultNetId

\* The new default network is prepared and the old one is undone before the
\* default network changes.
SetDefault(n) ==
    /\ n # NETID_UNSET => Exists(n, "PHYSICAL") /\ mNetworks[n].mIsDefault
    /\ mDefaultNetId # NETID_UNSET => ~mNetworks[mDefaultNetId].mIsDefault
    /\ mDefaultNetId' = n
    /\ UNCHANGED mNetworks

AddUsers(n, rs) ==
    /\ Exists(n, "VIRTUAL")
    /\ mNetworks' = [mNetworks EXCEPT ![n].mUidRanges = AddRanges(@, rs)]
    /\ UNCHANGED mDefaultNetId

RemoveUsers(n, rs) ==
    /\ Exists(n, "VIRTUAL")
    /\ mNetworks' = [mNetworks EXCEPT ![n].mUidRanges = RemoveRanges(@, rs)]
    /\ UNCHANGED mDefaultNetId

\* netd starts anew.
Restart ==
    /\ mNetworks' = [n \in {LOCAL_NET_ID} |-> LocalNetwork]
    /\ mDefaultNetId' = NETID_UNSET

Change ==
    \/ \E n \in PhysicalNetIds, p \in Permissions : Create(n, PhysicalNetwork(p))
    \/ \E n \in VirtualNetIds, hasDns \in HasDns, secure \in BOOLEAN :
            Create(n, VirtualNetwork(hasDns, secure))
    \/ \E n \in NetIds : Destroy(n)
    \/ \E n \in AllNetIds, i \in Interfaces : AddInterface(n, i) \/ RemoveInterface(n, i)
    \/ \E n \in NetIds, p \in Permissions : SetPermission(n, p)
    \/ \E n \in NetIds, isDefault \in BOOLEAN : SetIsDefault(n, isDefault)
    \/ \E n \in NetIds \cup {NETID_UNSET} : SetDefault(n)
    \/ \E n \in NetIds, rs \in SUBSET Ranges : AddUsers(n, rs) \/ RemoveUsers(n, rs)

Next == Change \/ Restart

Spec == Init /\ [][Next]_netd
=============================================================================
