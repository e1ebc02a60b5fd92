SPECIFICATION FairSpec
CONSTANTS
  NULL = NULL
  MaxSignals = 3
INVARIANTS
  CleanedUp
PROPERTIES
  FirstOutcomeWins
  IsWait
  WaitEnds
CHECK_DEADLOCK FALSE
