--------------------------- MODULE MCDispatchPlan ---------------------------
(* Instance of DispatchPlan for TLC.  Every kind of step occurs; the steps of  *)
(* a plan meet only in their order, so plans of two real steps and plans of    *)
(* settled-at-once steps around a real one are enough.                         *)
EXTENDS DispatchPlan

Step(kind, files) == [kind |-> kind, files |-> files]

MCPlans ==
  { <<Step("branch_and_pr", 2), Step("webhook", 0)>>,
    <<Step("none", 0), Step("direct_commit", 2), Step("stub", 0)>>,
    <<Step("webhook", 0), Step("unknown", 0), Step("webhook", 0)>>,
    <<Step("invalid", 0), Step("branch_and_pr", 0), Step("direct_commit", 0)>> }
=============================================================================
