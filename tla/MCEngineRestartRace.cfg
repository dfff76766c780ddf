SPECIFICATION EngineSpec
CONSTANTS
  None = None
  TaskName = {"t"}
  TaskVersion = {1}
  Shape = "chain"
  RawKey <- MCRawKey
  Trim <- MCTrim
  EmptyKey = ""
  IdempotencyKey = {}
  NodeKey <- MCNodeKey
  Nodes <- MCNodes
  Dependencies <- MCDependencies
  Descendants <- MCDescendants
  NodeTask <- MCNodeTask
  BrokenMappers = {}
  RestartFrom = {"succeeded", "failed", "cancelled"}
  Coordinator = {c1, c2}
  MaxAttempts = {1}
  NodeAttempts = {1}
  Delays = {0}
  Inputs <- MCInputs
  Limits = {1}
  Lease = 1
  MaxTime = 1
  MaxExecutions = 3
  MaxRuns = 1
  MaxEvents = 10
  MaxRevision = 10
  MaxDisturbances = 2
  c1 = c1
  c2 = c2
INVARIANTS BlockedUntilRebuilt
CHECK_DEADLOCK FALSE
