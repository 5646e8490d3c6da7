SPECIFICATION Spec
CONSTANTS
  Actions = {"post_payment", "reimburse_over_threshold"}
  NeedsOf <- MCNeedsOf
  MovesMoney = {"post_payment"}
  AmountGated = {"reimburse_over_threshold"}
  RulePacks <- MCRulePacks
  Amounts <- MCAmounts
  MaxRuns = 2
  None = None
INVARIANTS StateFollowsHolds MoneyIsApproved ChangesAreProved
CHECK_DEADLOCK FALSE
