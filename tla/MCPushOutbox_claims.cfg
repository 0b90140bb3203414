SPECIFICATION RegisteredSpec
CONSTANTS
  a1 = a1
  d1 = d1
  d2 = d2
  k1 = k1
  k2 = k2
  Articles <- OneArticle
  Devices <- OneDevice
  Dispatchers <- TwoDispatchers
  RetryLimit = 2
  MaxEras = 2
  MaxSyncs = 1
  MaxTaps = 0
  MaxLapses = 1
  MaxFaults = 1
  MaxChanges = 1
INVARIANTS
  ClaimOnce
  NoBackfill
PROPERTIES
  KeepsLedger
  EverySettled
\* Every delivery may have ended, and the bounds be reached.
CHECK_DEADLOCK FALSE
