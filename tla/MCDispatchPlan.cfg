SPECIFICATION Spec
CONSTANTS
  Plans <- MCPlans
  MaxFiles = 2
  MaxAttempts = 3
INVARIANTS
  DispatchedMeansDone
  PrsAreComplete
  OnceAnAttempt
PROPERTIES
  PlanEnds
