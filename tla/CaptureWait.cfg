SPECIFICATION FairSpec
CONSTANTS
  MaxCalls = 3
  MaxId = 1
  MaxZone = 1
PROPERTIES
  WaitEndsWithCapture
CHECK_DEADLOCK FALSE
