SPECIFICATION SyncSpec
CONSTANTS
  Records = {x, y}
  Sinks <- MCSinks
  Unconfigured = {"kahana"}
  MaxChanges = 2
  MaxJobs = 2
  MaxSyncCrashes = 1
CHECK_DEADLOCK FALSE
INVARIANTS
  NothingMissed
  UndeliveredHasACause
  SinksFollowStore
PROPERTIES
  JobsEnd
