SPECIFICATION Spec
CONSTANTS
  p1 = p1
  p2 = p2
  Procs <- OneProc
  Steady = {}
  NJobs = 1
  MaxQuestions = 1
  MaxCalls = 1
  None = None
INVARIANTS
  SameTurn
\* Every job may be finished and no process left.
CHECK_DEADLOCK FALSE
