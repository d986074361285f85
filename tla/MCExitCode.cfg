SPECIFICATION ProcSpec
CONSTANTS
  Requests = {r1, r2}
  Unwritten = Unwritten
INVARIANTS
  CIExitCode
CHECK_DEADLOCK FALSE
