------------------------------ MODULE DaemonsMC ------------------------------
(* Daemons for TLC. *)
EXTENDS Daemons

Group(kinds, pids, ifaces, tethered) ==
    [kinds |-> kinds, pids |-> pids, ifaces |-> ifaces, tethered |-> tethered,
     netIds |-> IF "dns" \in kinds THEN {100, 101} ELSE {100}]
MCGroups == {Group({"tether"}, {1, 2}, {"a", "b"}, 3),
             Group({"tether", "upstream"}, {1, 2}, {"a", "b"}, 1),
             Group({"tether", "dns"}, {1, 2}, {"a"}, 1),
             Group({"tether", "clatd"}, {1, 2, 3}, {"v"}, 2),
             Group({"clatd", "pppd"}, {1, 2, 3}, {"v", "w"}, 0),
             Group({"clatd", "softap"}, {1, 2, 3}, {"v", "w"}, 0),
             Group({"pppd", "softap"}, {1, 2, 3}, {}, 0)}
MCForwarders == {<<"s">>, <<"t", "s">>, <<"s", "bad">>, <<"t", "s", "bad">>}
=============================================================================
