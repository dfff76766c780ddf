SPECIFICATION FairSchedulerSpec
CONSTANTS
  None = None
  TaskName = {"t"}
  TaskVersion = {1}
  IdempotencyKey <- MCIdempotencyKey
  NodeKey = {}
  Descendants <- MCDescendants
  MaxAttempts = {1}
  NodeAttempts = {1}
  Delays = {0}
  Inputs <- MCInputs
  Limits = {1}
  Lease = 1
  MaxTime = 3
  MaxExecutions = 6
  MaxRuns = 6
  MaxEvents = 3
  MaxRevision = 2
  Instance = {s1, s2}
  Configurations <- MCPolicies
  MaxCrashes = 1
INVARIANTS SchedulerTypeOK OneExecutionPerOccurrence NoOccurrenceLost
PROPERTIES CatchesUp
CHECK_DEADLOCK FALSE
