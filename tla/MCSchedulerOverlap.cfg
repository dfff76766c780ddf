SPECIFICATION SchedulerSpec
CONSTANTS
  None = None
  TaskName = {"t"}
  TaskVersion = {1}
  IdempotencyKey <- MCIdempotencyKey
  NodeKey = {}
  Descendants <- MCDescendants
  MaxAttempts = {2}
  NodeAttempts = {2}
  Delays = {0}
  Inputs <- MCInputs
  Limits = {1}
  Lease = 1
  MaxTime = 2
  MaxExecutions = 6
  MaxRuns = 6
  MaxEvents = 5
  MaxRevision = 2
  Instance = {s1}
  Configurations <- MCOverlapOnly
  MaxCrashes = 0
PROPERTIES OverlapSkipHolds
CHECK_DEADLOCK FALSE
