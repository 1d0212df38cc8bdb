-------------------------- MODULE CommandListenerMC --------------------------
(***************************************************************************)
(* CommandListener for TLC, with one failing call or one crash in each     *)
(* behaviour.                                                              *)
(***************************************************************************)
EXTENDS CommandListener

Group(commands, ifaces, bytes, apps) ==
    [commands |-> commands, ifaces |-> ifaces, bytes |-> bytes, apps |-> apps, pairs |-> {}]
NatGroup(commands, pairs) ==
    [commands |-> commands, ifaces |-> {}, bytes |-> {1}, apps |-> {}, pairs |-> pairs]

MCGroups ==
    { Group({"bandwidth", "globalalert", "quota", "alert"}, {"a"}, {1, 2}, {}),
      Group({"globalalert", "quota"}, {"a", "b"}, {1}, {}),
      Group({"shared", "sharedalert"}, {"a", "b"}, {1}, {}),
      Group({"shared", "quota"}, {"a"}, {1, 2}, {}),
      Group({"bandwidth", "apps"}, {}, {}, {"u"}),
      Group({"apps"}, {}, {}, {"u", "v"}),
      NatGroup({"bandwidth", "globalalert", "nat"}, {<< "a", "x" >>, << "b", "x" >>}),
      NatGroup({"globalalert", "debugtether", "nat"}, {<< "a", "x" >>}),
      NatGroup({"nat"}, {<< "a", "x" >>, << "b", "y" >>}),
      Group({"firewall"}, {"a"}, {}, {"u"}),
      Group({"idletimer"}, {"a", "b"}, {}, {}) }
=============================================================================
