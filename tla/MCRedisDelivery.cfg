SPECIFICATION RedisSpec
CONSTANTS
  None = None
  TaskName = {"t"}
  TaskVersion = {1}
  IdempotencyKey = {}
  NodeKey = {"a"}
  Descendants <- MCDescendants
  MaxAttempts = {0, 2}
  NodeAttempts = {0, 2}
  Delays = {0}
  Inputs <- MCInputs
  Limits = {2}
  Lease = 1
  Resolution = 3
  Window = 2
  MaxTime = 2
  MaxExecutions = 2
  MaxRuns = 0
  MaxEvents = 3
  MaxRevision = 2
  w1 = w1
  w2 = w2
  o1 = o1
  o2 = o2
  Worker = {w1, w2}
  Operator = {}
INVARIANTS RedisTypeOK IndexesFindWork DerivedExactly
PROPERTIES ImplementsContract
SYMMETRY MCSymmetry
