--------------------------- MODULE FwmarkServerMC ---------------------------
(* Small instances of FwmarkServer for TLC. *)
EXTENDS FwmarkServer

MCRange == {<<10000, 10000>>}
MCSystem == {PERMISSION_SYSTEM}
OneUser == [t \in Threads |-> 10000]
=============================================================================
