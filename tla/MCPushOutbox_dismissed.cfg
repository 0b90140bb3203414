SPECIFICATION ActiveSpec
CONSTANTS
  a1 = a1
  d1 = d1
  d2 = d2
  k1 = k1
  k2 = k2
  Articles <- OneArticle
  Devices <- TwoDevices
  Dispatchers <- OneDispatcher
  RetryLimit = 2
  MaxEras = 1
  MaxSyncs = 1
  MaxTaps = 2
  MaxLapses = 0
  MaxFaults = 1
  MaxChanges = 0
INVARIANTS
  DismissedQuiet
  OneCommand
  DismissDurable
\* Every delivery may have ended, and the bounds be reached.
CHECK_DEADLOCK FALSE
