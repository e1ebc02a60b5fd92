SPECIFICATION FairSpec
CONSTANTS
  Codes = {"ok", "denied"}
  NULL = NULL
INVARIANTS
  CleanedUp
  AnswerHeard
PROPERTIES
  FirstReplyWins
  IsRoundTrip
  Ends
CHECK_DEADLOCK FALSE
