SPECIFICATION FairSpec
CONSTANTS
  NULL = NULL
  MaxSignals = 1
PROPERTIES
  ClosedSessionEndsWait
CHECK_DEADLOCK FALSE
