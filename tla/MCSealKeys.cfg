SPECIFICATION Spec
CONSTANTS
  Tenants = {town}
  MaxKeys = 4
  MaxStarts = 4
INVARIANTS SealsVerify OneKeyPerId ServedKeySigns
CHECK_DEADLOCK FALSE
