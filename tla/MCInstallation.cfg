SPECIFICATION Spec
CONSTANTS
  Procs = {p1, p2}
  Words = {"telemetry", "sensor"}
  Texts <- MCTexts
  Managers = 2
  MaxCommands = 3
INVARIANTS
  InstallTypeOK
  ConfigAsIntended
  ShimsAsConfigured
  CAFailureExplained
  ServedIsTrusted
  IssuedKeyKept
  OutageBlocks
CONSTRAINT OneExcuse
SYMMETRY Symmetry
CHECK_DEADLOCK FALSE
