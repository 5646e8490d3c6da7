---------------------------- MODULE MCIdempotency ----------------------------
(* Instance of Idempotency for TLC.  Ids meet only when the process ends, so   *)
(* one id is enough; three calls give an owner, one that waits for it and one  *)
(* that arrives later.                                                         *)
EXTENDS Idempotency
=============================================================================
