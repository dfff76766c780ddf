SPECIFICATION RedisSpec
CONSTANTS
  None = None
  TaskName = {"t"}
  TaskVersion = {1}
  IdempotencyKey = {}
  NodeKey = {"a"}
  Descendants <- MCDescendants
  MaxAttempts = {2}
  NodeAttempts = {2}
  Delays = {0}
  Inputs <- MCInputs
  Limits = {1}
  Lease = 1
  Resolution = 3
  Window = 2
  MaxTime = 3
  MaxExecutions = 1
  MaxRuns = 0
  MaxEvents = 4
  MaxRevision = 2
  w1 = w1
  w2 = w2
  o1 = o1
  o2 = o2
  Worker = {}
  Operator = {o1}

PROPERTIES PurgeTakesOnlyTerminal

