SPECIFICATION Spec
CONSTANTS
  None = None
  TaskName = {"t"}
  TaskVersion = {1}
  IdempotencyKey <- MCIdempotencyKey
  NodeKey = {"a", "b"}
  Descendants <- MCDescendants
  MaxAttempts = {2}
  NodeAttempts = {0}
  Delays = {0}
  Inputs <- MCInputs
  Limits = {0}
  Lease = 1
  MaxTime = 2
  MaxExecutions = 2
  MaxRuns = 1
  MaxEvents = 4
  MaxRevision = 1
INVARIANTS TypeOK LogReplaysToState ResultOfNewestDelivery NeverStranded IndexesAgree
PROPERTIES TerminalIsFinal LostLeaseStaysLost PurgeTakesOnlyTerminal ImplementsContract
CHECK_DEADLOCK FALSE
