---------------------------- MODULE MCRequestDesk ----------------------------
(* The request desk with one request of each kind; see the cfg. *)
EXTENDS RequestDesk
=============================================================================
