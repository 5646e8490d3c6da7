---------------------------- MODULE MCCaseHolds ----------------------------
(* Two actions of finance.biz, under that pack's rules or looser ones. *)
EXTENDS CaseHolds

MCNeedsOf == [post_payment |-> 2, reimburse_over_threshold |-> 1]
MCRulePacks ==
  {[ceiling |-> 1, noMoney |-> TRUE, threshold |-> 2],
   [ceiling |-> 2, noMoney |-> FALSE, threshold |-> None]}
MCAmounts == {1, 2}
=============================================================================
