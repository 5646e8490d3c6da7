SPECIFICATION Spec
CONSTANTS
  RecordsRequests = {prr}
  AccessRequests = {access}
  MaxRetries = 2
  BatchSize = 2
  Passes = {p1, p2}
  MaxCrashes = 1
INVARIANTS TrailAgrees HeldOnce NoTryUncounted
PROPERTIES DeliveredIsFinal NotesSettle
CHECK_DEADLOCK FALSE
