SPECIFICATION BypassSpec
CONSTANTS
  Installs = {i1, i2}
INVARIANTS
  BypassTypeOK
  NeverCountedTwice
  LinesAccounted
  RecordedBeforeRun
PROPERTIES
  LinesSurface
