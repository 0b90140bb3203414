SPECIFICATION FairSpec
CONSTANTS
  t1 = t1
  t2 = t2
  web = web
  bridge = bridge
  run1 = run1
  run2 = run2
  catch1 = catch1
  Threads <- TwoThreads
  Launchd = Launchd
  HasSchedule = TRUE
  Desks <- BothDesks
  ScanRow = ScanRow
  CatchUpRow = CatchUpRow
  RunRows <- OneRun
  CatchRows <- OneCatchUp
  MaxCalls = 1
  MaxCrashes = 1
  None = None
INVARIANTS
  FollowedUp
PROPERTIES
  KeepsBatches
  QueueDrains
  ScanFollows
