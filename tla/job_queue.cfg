SPECIFICATION FairSpec
CONSTANTS
  w1 = w1 w2 = w2
  Jobs = {1, 2}
  Workers = {w1, w2}
  SyncWorkers = {w2}
  Serves <- TenantFilter
  Handled = {1}
  Results <- AllResults
  MaxAttempts <- Attempts
  MayPanic = TRUE
  MayCancel = TRUE
  MaxRequeues = 1
INVARIANTS
  OneExecutorPerJob
  NoJobLost
  RunsBounded
  SucceedsOnce
PROPERTY EveryJobSettles
CHECK_DEADLOCK FALSE
