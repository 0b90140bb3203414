SPECIFICATION FairSpec
CONSTANTS
  c1 = c1
  NItems = 2
  Cli <- OneCall
  MaxVersions = 3
  MaxViews = 1
  MaxDeaths = 1
INVARIANTS
  DraftsAfterSearch
  ShellsOpen
  OnlyRevivedOverlap
PROPERTIES
  KeepsDesk
  EveryRequestEnds
\* Every request may be settled and every thread gone.
CHECK_DEADLOCK FALSE
