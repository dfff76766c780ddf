SPECIFICATION RedisSpec
CONSTANTS
  None = None
  TaskName = {"t"}
  TaskVersion = {1}
  IdempotencyKey = {}
  NodeKey = {"a", "b"}
  Descendants <- MCDescendants
  MaxAttempts = {1}
  NodeAttempts = {1}
  Delays = {}
  Inputs <- MCInputs
  Limits = {2}
  Lease = 1
  Resolution = 3
  Window = 2
  MaxTime = 2
  MaxExecutions = 2
  MaxRuns = 1
  MaxEvents = 3
  MaxRevision = 2
  w1 = w1
  w2 = w2
  o1 = o1
  o2 = o2
  Worker = {}
  Operator = {o1}
INVARIANTS IndexesFindWork DerivedExactly


