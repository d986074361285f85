SPECIFICATION BypassSpec
CONSTANTS
  Installs = {i1}
INVARIANTS
  AppendsLandFresh
