--------------------------- MODULE MCApprovalGate ---------------------------
(* A small instance of ApprovalGate: an admin and two officers, the built-in *)
(* one-step template and a three-stage one whose first stage is parallel.    *)
EXTENDS ApprovalGate

CONSTANTS s1, s2, s3, s4, admin, clerk, counsel

MCRoles == {"admin", "clerk", "legal"}
MCRoleOf == [u \in Users |-> CASE u = admin -> "admin" [] u = clerk -> "clerk" [] u = counsel -> "legal"]

\* The template ensureDefaultTemplate seeds: one admin step.
MCDefaultTemplate == [s \in {s1} |-> [order |-> 0, role |-> "admin"]]

MCThreeStages ==
  [s \in {s1, s2, s3, s4} |->
     CASE s = s1 -> [order |-> 0, role |-> "clerk"]
       [] s = s2 -> [order |-> 0, role |-> "legal"]
       [] s = s3 -> [order |-> 1, role |-> "clerk"]
       [] s = s4 -> [order |-> 2, role |-> "legal"]]

MCTemplates == {MCDefaultTemplate, MCThreeStages}
=============================================================================
