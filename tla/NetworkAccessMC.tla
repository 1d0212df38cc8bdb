-------------------------- MODULE NetworkAccessMC --------------------------
(* Small instances of NetworkAccess for TLC. *)
EXTENDS NetworkAccess

MCRange   == {<<10000, 10001>>}
MCNetwork == {PERMISSION_NONE, PERMISSION_NETWORK}
=============================================================================
