SPECIFICATION FrontSpec
CONSTANTS
  Tasks = {t1, t2}
  CacheSize = 1
  Inputs <- MCInputs
  RustConfigs <- MCRustConfigs
  Lockfiles <- MCLockfiles
  ScanConfigs <- MCScanConfigs
  MatcherConfigs <- MCMatcherConfigs
INVARIANTS
  FrontTypeOK
  RustFailsClosed
  AuditOnlyObserves
  
  SameQuestion
PROPERTY FlushedReport
SYMMETRY Symmetry
CHECK_DEADLOCK FALSE
