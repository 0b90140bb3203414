SPECIFICATION FairSpec
CONSTANTS
  agent = agent
  ok = ok
  error = error
  Bridges <- OneBridge
  Cmds <- TwoCommands
  Results <- OkOrError
  Refusals <- Errors
  HistoryLimit = 1
  Batch = 2
  MaxAborts = 1
  MaxCrashes = 1
  MaxUnwritten = 1
  None = None
  Expired = Expired
INVARIANTS
  ExpiredNeverRun
PROPERTIES
  KeepsOrders
  RecentNeverRerun
  AnsweredInTime
