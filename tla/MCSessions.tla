----------------------------- MODULE MCSessions -----------------------------
(* Instance of Sessions for TLC.  Browsers and request slots are interchangeable *)
(* and no property is about liveness, so both are taken up to symmetry.          *)
EXTENDS Sessions, TLC

MCSymmetry == Permutations(Browsers) \union Permutations(Requests)
=============================================================================
