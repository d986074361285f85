SPECIFICATION ProcSpec
CONSTANTS
  Requests = {r1, r2}
  Unwritten = Unwritten
INVARIANTS
  ProcTypeOK
  OutputsAgree
  BlockFailsBuild
  ReportComplete
PROPERTIES
  SignalEnds
CHECK_DEADLOCK FALSE
