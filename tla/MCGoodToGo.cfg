SPECIFICATION Spec
CONSTANTS
  Procs = {p1}
  Words = {"telemetry", "sensor"}
  Texts <- MCTexts
  Managers = 1
  MaxCommands = 1
PROPERTY GoodToGo
CHECK_DEADLOCK FALSE
