SPECIFICATION Spec
CONSTANTS
  Tenants = {t1, t2}
  MaxDepth = 3
  MaxEvents = 4
INVARIANTS
  GapsAreDetected
