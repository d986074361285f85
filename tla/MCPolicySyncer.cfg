SPECIFICATION SyncSpec
CONSTANTS
  Interval = 3
  FetchTimeout = 2
  StaleAfter = 8
  Versions = {"v1", "v2"}
  Horizon = 24
INVARIANTS
  SyncTypeOK
  StaleMeansOutage
PROPERTIES
  StopEnds
CHECK_DEADLOCK FALSE
