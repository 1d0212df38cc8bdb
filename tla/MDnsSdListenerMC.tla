-------------------------- MODULE MDnsSdListenerMC --------------------------
(* A small instance of MDnsSdListener for TLC: two ids, each of them used for *)
(* requests of more than one kind.                                            *)
EXTENDS MDnsSdListener

MCRequests ==
    ({"discover", "register"} \X {1}) \cup ({"resolve", "getaddrinfo", "sethostname"} \X {2})
=============================================================================
