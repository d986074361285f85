SPECIFICATION HSpec
CONSTANTS
  k1 = k1
  k2 = k2
  k3 = k3
  allow = allow
  block = block
  Keys <- MCKeys
  Results <- MCResults
  MaxSize = 2
  TTL = 1
  Horizon = 3
INVARIANTS HTypeOK Coherent Bounded
PROPERTIES EvictsLeastRecent KeepsPromise
