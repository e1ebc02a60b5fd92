SPECIFICATION FairSpec
CONSTANTS
  Loops = {l1, l2}
  Pointers = {p1, p2}
  Pings = {i1}
  Types = {"SYNC", "KEYBOARD_KEY"}
  Getters = {"key_event", "pong"}
  MaxEvents = 4
  NULL = NULL
INVARIANTS
  EachEventOnce
  HeldByItsLoop
  OwnEventFreed
  PingRefs
  ReadsOwnPayload
PROPERTIES
  SyncAnswered
CHECK_DEADLOCK FALSE
