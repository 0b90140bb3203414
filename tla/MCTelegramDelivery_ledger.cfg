SPECIFICATION FairSpec
CONSTANTS
  team = team
  forum = forum
  Chats <- Groups
  None = None
  MaxEvents = 2
  NTopics = 2
  Malformed <- Second
  PerRun = 2
  PageSize = 2
  MaxSetups = 3
  MaxFaults = 2
  MaxCrashes = 1
INVARIANTS
  SendsOnlyNew
  RefusedOnce
PROPERTIES
  KeepsLedger
  EverySettled
\* Delivery may be off for good.
CHECK_DEADLOCK FALSE
