---------------------- MODULE NetworkControllerPromise ----------------------
(***************************************************************************)
(* Module NetworkController implements module Networks, with the same      *)
(* networks and the same default network.                                  *)
(***************************************************************************)
EXTENDS NetworkController

\* The networks and the default network change only as module Networks says:
\* whatever requests fail, an interface joins a network only when it is in none,
\* and the default network changes only between one that is undone and one
\* that is prepared.
Promise == INSTANCE Networks WITH mNetworks <- mNetworks, mDefaultNetId <- mDefaultNetId
ImplementsNetworks == Promise!Spec
=============================================================================
