------------------------- MODULE NetworkControllerMC -------------------------
(* Small instances of NetworkController for TLC. *)
EXTENDS NetworkControllerRouting, NetworkControllerPromise

MCRange   == {<<10000, 10002>>}
MCNoRange == {}
MCNone    == {PERMISSION_NONE, PERMISSION_SYSTEM}
=============================================================================
