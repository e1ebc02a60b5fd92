SPECIFICATION Spec
CONSTANTS
  MaxCalls = 4
  MaxId = 2
  MaxZone = 2
PROPERTIES
  ReportsInOrder
  FreshLayout
  ReleasesOwn
CHECK_DEADLOCK FALSE
