SPECIFICATION FairSpec
CONSTANTS
  agent = agent
  once = once
  k1 = k1
  k2 = k2
  x = x
  y = y
  Bridges <- OneBridge
  Keys <- TwoKeys
  Vals <- TwoVals
  SyncIds <- Ids
  MaxEdits = 3
  MaxAborts = 2
  Absent = Absent
  None = None
PROPERTIES
  KeepsMirror
  FullSyncExact
  CatchesUp
