SPECIFICATION Spec
CONSTANTS
  Codes = {"ok", "denied"}
  NULL = NULL
INVARIANTS
  TimeoutMeansUnanswered
CHECK_DEADLOCK FALSE
