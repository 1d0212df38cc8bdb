---------------------------- MODULE NetworkTypes ----------------------------
(***************************************************************************)
(* The Network classes (Network, LocalNetwork, PhysicalNetwork and         *)
(* VirtualNetwork) as records, and what a network says about a user.       *)
(***************************************************************************)
EXTENDS Fwmark

CONSTANTS
    Interfaces,         \* interface names, as numbers ordered like the names
    PhysicalNetIds,     \* netIds that "network create" names for physical networks
    VirtualNetIds,      \* ... and for VPNs
    Permissions,        \* permissions that commands name
    HasDns,             \* values of the hasDns argument that commands use
    Ranges              \* uid ranges that commands name

NetIds == PhysicalNetIds \cup VirtualNetIds
AllNetIds == NetIds \cup {LOCAL_NET_ID}

ASSUME NetworkTypesAssumption ==
    /\ Interfaces \subseteq Nat \ {0}
    /\ NetIds \subseteq Nat \ {NETID_UNSET, LOCAL_NET_ID}
    /\ Permissions \subseteq Permission
    /\ HasDns \subseteq BOOLEAN
    /\ Ranges \subseteq (Nat \X Nat)

\* The vector of a VPN's uid ranges is a bag (module UidRanges): how often it
\* holds each range.
NoRanges == [r \in Ranges |-> 0]
AddRanges(bag, uidRanges) == [r \in Ranges |-> IF r \in uidRanges THEN bag[r] + 1 ELSE bag[r]]
RemoveRanges(bag, uidRanges) ==
    [r \in Ranges |-> IF r \in uidRanges /\ bag[r] > 0 THEN bag[r] - 1 ELSE bag[r]]

Network ==
    [type : {"LOCAL", "PHYSICAL", "VIRTUAL"}, mInterfaces : SUBSET Interfaces,
     mPermission : Permission, mIsDefault : BOOLEAN, mHasDns : BOOLEAN, mSecure : BOOLEAN,
     mUidRanges : [Ranges -> Nat]]

PhysicalNetwork(permission) ==
    [type |-> "PHYSICAL", mInterfaces |-> {}, mPermission |-> permission,
     mIsDefault |-> FALSE, mHasDns |-> FALSE, mSecure |-> FALSE, mUidRanges |-> NoRanges]

VirtualNetwork(hasDns, secure) ==
    [type |-> "VIRTUAL", mInterfaces |-> {}, mPermission |-> PERMISSION_NONE,
     mIsDefault |-> FALSE, mHasDns |-> hasDns, mSecure |-> secure, mUidRanges |-> NoRanges]

LocalNetwork ==
    [type |-> "LOCAL", mInterfaces |-> {}, mPermission |-> PERMISSION_NONE,
     mIsDefault |-> FALSE, mHasDns |-> FALSE, mSecure |-> FALSE, mUidRanges |-> NoRanges]

\* VirtualNetwork::appliesToUser, UidRanges::hasUid: a range that starts at the
\* uid, or the last of the ranges that start below it.
appliesToUser(network, uid) ==
    LET held  == { r \in Ranges : network.mUidRanges[r] > 0 }
        below == { r \in held : r[1] < uid }
    IN  \/ \E r \in held : r[1] = uid
        \/ \E r \in below :
            /\ uid <= r[2]
            /\ \A q \in below : q[1] < r[1] \/ (q[1] = r[1] /\ q[2] <= r[2])
=============================================================================
