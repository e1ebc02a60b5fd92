SPECIFICATION Spec
CONSTANTS
  NULL = NULL
  Regions = {"r1", "r2", "r3"}
  MaxRegions = 2
  MaxCalls = 2
  Fds = {1, 2, 3, 4}
  Readers = {"u1", "u2"}
  Chunks = 2
  Threads = {t1, t2}
  Devices = {d1, d2}
  Modulus = 4
  Explicit = {3}
  MaxDraws = 9
INVARIANTS
  RegionsSettle
  KeymapIntact
  NumbersDiffer
PROPERTIES
  DefaultsGoUp
CHECK_DEADLOCK FALSE
