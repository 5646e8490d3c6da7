----------------------------- MODULE MCSealKeys -----------------------------
(* One tenant's keys over four starts; see the cfg. *)
EXTENDS SealKeys
=============================================================================
