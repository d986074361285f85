SPECIFICATION Spec
CONSTANTS
  r1 = r1
  r2 = r2
  r3 = r3
  p1 = p1
  p2 = p2
  other = other
  NoVerdict = NoVerdict
  Unmatched = other
  Actions <- MCActions
  Results <- Result
  MaxSize = 1
  TTL = 1
  Timeout = 1
  Requests <- MCRequests
  Keys <- BothPackages
  Configs <- MCConfigs
  StaleAfter = 0
  Horizon = 3
INVARIANTS TypeOK EnforcedPass FeedBlocks ReportAgrees OnlyVerdictsCached
PROPERTIES GateHolds FreshAnswer EveryRequestAnswered
CONSTRAINT ThirdFollows
CHECK_DEADLOCK FALSE
