SPECIFICATION Spec
CONSTANTS
  RequestIds = {q1}
  Payloads = {p1, p2}
  SchemaVersions = {1, 2}
  Calls = {c1, c2, c3}
  Conflict = Conflict
  SchemaMismatch = SchemaMismatch
  Failed = Failed
  NoRow = NoRow
  NoPayload = NoPayload
  NoRequest = NoRequest
  Unresolved = Unresolved
INVARIANTS
  OneEvaluation
  OwnAnswers
  JoinedHaveAnOwner
PROPERTIES
  StoredResultsStand
  VerdictsAreOnRecord
  CallsSettle
