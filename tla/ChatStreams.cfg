SPECIFICATION Spec
CONSTANTS
  Requests <- TwoRequests
  MaxRetries = 2
INVARIANTS
  SuccessIsEarned
  EffortBounded
  NoTaskLeftBehind
PROPERTIES
  KeepsThePromise
  RunsDown
CHECK_DEADLOCK FALSE
