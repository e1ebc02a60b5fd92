SPECIFICATION SourceSpec
CONSTANTS
  BusNames = {"default", "alternate"}
  DefaultName = "default"
  Fds = {f1, f2, f3}
  MaxUnknown = 2
  NULL = NULL
INVARIANTS
  FailureEndsSession
  CloseEndsSession
  EisFdClosedByOwner
  FileStaysOpen
  TokenKept
  ConnectedHasFd
PROPERTIES
  EndIsReported
CHECK_DEADLOCK FALSE
