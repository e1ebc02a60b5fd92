SPECIFICATION MCSpec
CONSTANTS
  Threads = {t1, t2}
  Pointers = {p1, p2}
  Wrappers = {w1, w2}
  NULL = NULL
  HasRef = TRUE
  Wrappable = TRUE
  MaxGen = 2
INVARIANTS
  RefBalance
  NoStaleWrapper
  OneWrapper
  CallsOnLive
  CacheValid
PROPERTIES
  Reclaimed
  KeepsIdentity
CHECK_DEADLOCK FALSE
