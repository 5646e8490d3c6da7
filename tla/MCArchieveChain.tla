--------------------------- MODULE MCArchieveChain ---------------------------
(* Instance of ArchieveChain for TLC: tenants share the queue's depth only, so *)
(* two show that neither's chain reaches into the other's; four events let a   *)
(* restart and an overtaking delivery fall before, between and after others.   *)
EXTENDS ArchieveChain
=============================================================================
