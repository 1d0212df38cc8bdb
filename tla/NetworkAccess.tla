--------------------------- MODULE NetworkAccess ---------------------------
(***************************************************************************)
(* The answers NetworkController gives about users and networks, compared  *)
(* with where the kernel sends the packets: the marks that FwmarkServer    *)
(* and DnsProxyListener derive from the answers must mean the same thing   *)
(* to the rules RouteController has installed.                             *)
(*                                                                         *)
(* The networks change as module Networks says, and the kernel has the     *)
(* rules they stand for (KernelMatchesNetworks in                          *)
(* NetworkControllerRouting).                                              *)
(***************************************************************************)
EXTENDS NetworkQueries, RoutingPolicy

CONSTANT MaxCopies      \* bound: how often a VPN may hold one uid range

ASSUME NetworkAccessAssumption == MaxCopies \in Nat

networks == <<mNetworks, mDefaultNetId>>
vars     == <<networks, users>>

Init ==
    /\ Nets!Init
    /\ mUsers = NoPermissions /\ mProtectableUsers = {}

NetworksChange ==
    /\ Nets!Change
    /\ \A n \in DOMAIN mNetworks' : \A r \in Ranges : mNetworks'[n].mUidRanges[r] <= MaxCopies
    /\ UNCHANGED users

UsersChange == UserCommand /\ UNCHANGED networks

Restart ==
    /\ Nets!Restart
    /\ mUsers' = NoPermissions /\ mProtectableUsers' = {}

Next == NetworksChange \/ UsersChange \/ Restart
Spec == Init /\ [][Next]_vars
-----------------------------------------------------------------------------
\* The marks the commands of FwmarkServer give a fresh socket.
onConnectMark(uid) ==
    Mark(getNetworkForConnect(uid), FALSE, FALSE, getPermissionForUser(uid))
selectNetworkMark(uid, netId) ==
    Mark(netId, TRUE, canProtect(uid), getPermissionForUser(uid))
selectForUserMark(uid) ==
    Mark(getNetworkForUser(uid), FALSE, TRUE, PERMISSION_SYSTEM)

\* Routing, with the tables of some networks having a route.
index == [i \in Interfaces |-> 1]
Tables(netIds) == TablesOf(mNetworks, index, netIds)
RouteOver(mark, uid, netIds) ==
    Route(InitRules \cup ExpectedRules(mNetworks, mDefaultNetId, index),
          Packet(mark, uid, INTERFACE_NONE), Tables(netIds))

ROOT   == 0
SYSTEM == 1000          \* the user of the system's proxies
OneVpn(uid) == \A v, w \in vpnsForUser(uid) : v = w
MayUseDefault(uid) ==
    mDefaultNetId # NETID_UNSET /\ mNetworks[mDefaultNetId].mPermission \subseteq getPermissionForUser(uid)

\* checkUserNetworkAccess says yes only if the kernel agrees: a socket for which
\* the user was allowed to select a network is routed by that network, even when
\* every other network has a route and a secure VPN applies to the user.
GrantedSelectionIsRouted ==
    \A uid \in Uids : \A n \in DOMAIN mNetworks \ {LOCAL_NET_ID} :
        /\ OneVpn(uid) /\ checkUserNetworkAccess(uid, n) = {TRUE} /\ Tables({n}) # {}
        => RouteOver(selectNetworkMark(uid, n), uid, AllNetIds) = Tables({n})

\* A socket that connects without selecting a network uses the VPN of its user,
\* secure ("Secure VPNs will correctly grab the socket's traffic") or bypassable
\* ("we need to mark the socket with the bypassable VPN's NetId if we expect it to
\* get any traffic at all"), and without one the default network.
ConnectGoesToUserNetwork ==
    \A uid \in Uids :
        OneVpn(uid) =>
            RouteOver(onConnectMark(uid), uid, NetIds) =
                IF Tables(vpnsForUser(uid)) # {} THEN Tables(vpnsForUser(uid))
                ELSE IF MayUseDefault(uid) /\ Tables({mDefaultNetId}) # {} THEN Tables({mDefaultNetId})
                ELSE {RT_TABLE_UNSPEC}

\* A proxy that acts for a user (SELECT_FOR_USER) reaches the network that the
\* user's own sockets use, also when only some networks have a route.
ProxyFollowsUser ==
    \A uid \in Uids : \A up \in SUBSET NetIds :
        OneVpn(uid) /\ MayUseDefault(uid) =>
            RouteOver(selectForUserMark(uid), SYSTEM, up) = RouteOver(onConnectMark(uid), uid, up)

\* The queries netd makes for a user (getNetworkForDns) travel like the traffic of
\* the user: "If the user is subject to a VPN and the VPN provides DNS servers" they
\* take the route that a connection of the user takes, "possibly falling through to
\* the default network if the VPN doesn't provide a route"; "otherwise" that of the
\* default network; and those for a network the user selected and may use take that
\* network or none.  Whatever networks have a route, and although the queries are
\* made by root, with a mark that no VPN captures.
DnsFollowsUser ==
    \A uid \in Uids, n \in NetIds \cup {NETID_UNSET}, up \in SUBSET NetIds :
    \A access \in checkUserNetworkAccess(uid, n) :
        LET route == RouteOver(getNetworkForDns(n, uid, access), ROOT, up)
            Through(netId) == IF Tables({netId} \cap up) = {} THEN {RT_TABLE_UNSPEC}
                              ELSE Tables({netId} \cap up)
        IN  IF access THEN route = Through(n)
            ELSE IF \A v \in vpnsForUser(uid) : ~mNetworks[v].mHasDns
            THEN route = Through(mDefaultNetId)
            ELSE OneVpn(uid) /\ MayUseDefault(uid) =>
                    route = RouteOver(onConnectMark(uid), uid, up)
=============================================================================
