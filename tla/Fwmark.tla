------------------------------- MODULE Fwmark -------------------------------
(***************************************************************************)
(* The firewall mark of a socket or packet and the permission bits in it   *)
(* (include/Fwmark.h, include/Permission.h).  A permission is the set of   *)
(* its bits, so that the code's & and | are \cap and \cup.                 *)
(***************************************************************************)
EXTENDS Naturals

PERMISSION_NONE    == {}
PERMISSION_NETWORK == {0}
PERMISSION_SYSTEM  == {0, 1}
Permission == {PERMISSION_NONE, PERMISSION_NETWORK, PERMISSION_SYSTEM}

\* NetIds: NETID_UNSET means "no network"; the others are the id ranges of
\* NetworkController.cpp.
NETID_UNSET  == 0
MIN_OEM_ID   == 1
MAX_OEM_ID   == 50
LOCAL_NET_ID == 99
MIN_NET_ID   == 100
MAX_NET_ID   == 65535

FIRST_APPLICATION_UID == 10000

\* The union Fwmark: 16 bits of netId, two flags and two permission bits.
Mark(netId, explicit, protect, permission) ==
    [netId |-> netId, explicitlySelected |-> explicit,
     protectedFromVpn |-> protect, permission |-> permission]

FwmarkOver(ids) ==
    [netId : ids, explicitlySelected : BOOLEAN,
     protectedFromVpn : BOOLEAN, permission : Permission]

\* The mark of a fresh socket (Fwmark() : intValue(0)).
NoMark == Mark(NETID_UNSET, FALSE, FALSE, PERMISSION_NONE)
=============================================================================
