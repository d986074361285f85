SPECIFICATION FrontSpec
CONSTANTS
  Tasks = {t1}
  CacheSize = 1
  Inputs <- NoInputs
  RustConfigs <- PlainConfigs
  Lockfiles <- OddLockfiles
  ScanConfigs <- MCScanConfigs
  MatcherConfigs <- MCMatcherConfigs
INVARIANT ScanChecksAll
CHECK_DEADLOCK FALSE
