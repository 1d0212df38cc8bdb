------------------------- MODULE DnsProxyListenerMC -------------------------
(* A small instance of DnsProxyListener for TLC. *)
EXTENDS DnsProxyListener

MCRange == {<<10000, 10000>>}
MCSystem == {PERMISSION_NONE}
MCUidOf == [c \in Clients |-> 10000]
=============================================================================
