SPECIFICATION WorkerSpec
CONSTANTS
  None = None
  TaskName = {"t"}
  TaskVersion = {1}
  IdempotencyKey = {}
  NodeKey = {"a"}
  Descendants <- MCDescendants
  MaxAttempts = {1}
  NodeAttempts = {2}
  Delays = {0}
  Inputs <- MCInputs
  Limits = {1}
  Lease = 1
  MaxTime = 14
  MaxExecutions = 1
  MaxRuns = 1
  MaxEvents = 8
  MaxRevision = 0
  l1 = l1
  l2 = l2
  Worker = {l1, l2}
  WorkerOf <- MCOwnWorker
  Timeouts = TRUE
  MaxConsecutiveErrors = 1
  MaxBeats = 1
  MaxFailures = 1
  MaxDisturbances = 1
INVARIANTS WorkerTypeOK HeldByItsLoop NoLoopLost
PROPERTIES LeaseProtects WorkFinishes EndsAreAdvanced
CHECK_DEADLOCK FALSE
