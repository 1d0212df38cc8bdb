--------------------------- MODULE NetworkQueries ---------------------------
(***************************************************************************)
(* What other threads ask NetworkController under its read lock, and the   *)
(* users whose permissions the answers depend on.  The networks themselves *)
(* change as module Networks says.                                         *)
(***************************************************************************)
EXTENDS NetworkTypes

CONSTANT Uids           \* users of the system

\* Stands for 2^32 - 1, the largest uid_t: a number no user has.
INVALID_UID == 1000000000

VARIABLES
    mNetworks, mDefaultNetId,
    mUsers,             \* the users that were given a permission
    mProtectableUsers

users == <<mUsers, mProtectableUsers>>

Nets == INSTANCE Networks

isVirtualNetwork(netId) == Nets!Exists(netId, "VIRTUAL")
isSystem(permission) == PERMISSION_SYSTEM \subseteq permission

getPermissionForUser(uid) ==
    IF uid \in DOMAIN mUsers THEN mUsers[uid]
    ELSE IF uid < FIRST_APPLICATION_UID THEN PERMISSION_SYSTEM ELSE PERMISSION_NONE

\* getVirtualNetworkForUserLocked takes the first of these in the map, which is
\* ordered by netId.
vpnsForUser(uid) ==
    { v \in DOMAIN mNetworks : isVirtualNetwork(v) /\ appliesToUser(mNetworks[v], uid) }
getVirtualNetworkForUser(uid) ==
    CHOOSE v \in vpnsForUser(uid) : \A w \in vpnsForUser(uid) : v <= w
isSubjectToSecureVpn(uid) ==
    vpnsForUser(uid) # {} /\ mNetworks[getVirtualNetworkForUser(uid)].mSecure

\* Faulty variant: a secure VPN is left out, as it is for connect.
BugGetNetworkForUser(uid) ==
    IF vpnsForUser(uid) = {} \/ isSubjectToSecureVpn(uid) THEN mDefaultNetId
    ELSE getVirtualNetworkForUser(uid)

getNetworkForUser(uid) ==
    IF vpnsForUser(uid) = {} THEN mDefaultNetId ELSE getVirtualNetworkForUser(uid)

\* Faulty variant: a secure VPN is returned, too.
BugGetNetworkForConnect(uid) ==
    IF vpnsForUser(uid) = {} THEN mDefaultNetId ELSE getVirtualNetworkForUser(uid)

\* Faulty variant: the default network, whether the VPN is bypassable or not.
BugGetNetworkForConnectDefault(uid) == mDefaultNetId

getNetworkForConnect(uid) ==
    IF vpnsForUser(uid) = {} \/ isSubjectToSecureVpn(uid) THEN mDefaultNetId
    ELSE getVirtualNetworkForUser(uid)

canProtect(uid) == isSystem(getPermissionForUser(uid)) \/ uid \in mProtectableUsers

\* Faulty variant: the users of a secure VPN are not held back.
BugCheckUserNetworkAccess(uid, netId) ==
    IF netId \notin DOMAIN mNetworks \/ uid = INVALID_UID THEN {FALSE}
    ELSE IF isSystem(getPermissionForUser(uid)) THEN {TRUE}
    ELSE IF isVirtualNetwork(netId) THEN {appliesToUser(mNetworks[netId], uid)}
    ELSE IF netId = LOCAL_NET_ID THEN BOOLEAN
    ELSE {mNetworks[netId].mPermission \subseteq getPermissionForUser(uid)}

\* checkUserNetworkAccessLocked: the possible answers.  The local network has no
\* permission: what the code reads in its place may be anything.
checkUserNetworkAccess(uid, netId) ==
    IF netId \notin DOMAIN mNetworks \/ uid = INVALID_UID THEN {FALSE}
    ELSE IF isSystem(getPermissionForUser(uid)) THEN {TRUE}
    ELSE IF isVirtualNetwork(netId) THEN {appliesToUser(mNetworks[netId], uid)}
    ELSE IF isSubjectToSecureVpn(uid) /\ uid \notin mProtectableUsers THEN {FALSE}
    ELSE IF netId = LOCAL_NET_ID THEN BOOLEAN
    ELSE {mNetworks[netId].mPermission \subseteq getPermissionForUser(uid)}

\* Faulty variant: the DNS servers of the default network, whether there is a VPN
\* or not.
BugGetNetworkForDns(netId, uid, access) ==
    IF access THEN Mark(netId, TRUE, TRUE, PERMISSION_SYSTEM)
    ELSE Mark(mDefaultNetId, FALSE, TRUE, PERMISSION_SYSTEM)

\* The mark of the queries, whose netId names the network with the DNS servers,
\* when the access check answers "access".
getNetworkForDns(netId, uid, access) ==
    IF access THEN Mark(netId, TRUE, TRUE, PERMISSION_SYSTEM)
    ELSE IF vpnsForUser(uid) # {} /\ mNetworks[getVirtualNetworkForUser(uid)].mHasDns
         THEN Mark(getVirtualNetworkForUser(uid), FALSE, TRUE, PERMISSION_SYSTEM)
    ELSE Mark(mDefaultNetId, FALSE, TRUE, PERMISSION_SYSTEM)
-----------------------------------------------------------------------------
(***************************************************************************)
(* The commands about users.                                               *)
(***************************************************************************)
setPermissionForUsers(permission, uids) ==
    /\ mUsers' = [u \in DOMAIN mUsers \cup uids |-> IF u \in uids THEN permission ELSE mUsers[u]]
    /\ UNCHANGED mProtectableUsers

allowProtect(uids) ==
    /\ mProtectableUsers' = mProtectableUsers \cup uids
    /\ UNCHANGED mUsers

denyProtect(uids) ==
    /\ mProtectableUsers' = mProtectableUsers \ uids
    /\ UNCHANGED mUsers

UserCommand ==
    \/ \E p \in Permissions, u \in Uids : setPermissionForUsers(p, {u})
    \/ \E u \in Uids : allowProtect({u}) \/ denyProtect({u})

NoPermissions == [u \in {} |-> PERMISSION_NONE]
=============================================================================
