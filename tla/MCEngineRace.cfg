SPECIFICATION EngineSpec
CONSTANTS
  None = None
  TaskName = {"t"}
  TaskVersion = {1}
  Shape = "join"
  RawKey <- MCRawKey
  Trim <- MCTrim
  EmptyKey = ""
  IdempotencyKey = {}
  NodeKey <- MCNodeKey
  Nodes <- MCNodes
  Dependencies <- MCDependencies
  Descendants <- MCDescendants
  NodeTask <- MCNodeTask
  BrokenMappers = {"c"}
  RestartFrom = {"succeeded", "cancelled"}
  Coordinator = {c1, c2}
  MaxAttempts = {1}
  NodeAttempts = {1}
  Delays = {0}
  Inputs <- MCInputs
  Limits = {1}
  Lease = 1
  MaxTime = 1
  MaxExecutions = 3
  MaxRuns = 1
  MaxEvents = 7
  MaxRevision = 5
  MaxDisturbances = 2
  c1 = c1
  c2 = c2
INVARIANTS EngineTypeOK RunStatusEarned NodesFollowDependencies
PROPERTIES OutcomeKept PurgedRunsWereFinished
CHECK_DEADLOCK FALSE
SYMMETRY MCSymmetry
