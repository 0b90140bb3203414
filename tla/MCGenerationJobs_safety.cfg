SPECIFICATION EarlierSpec
CONSTANTS
  p1 = p1
  p2 = p2
  Procs <- TwoProcs
  Steady <- OneProc
  NJobs = 2
  MaxQuestions = 1
  MaxCalls = 2
  None = None
INVARIANTS
  SingleDriver
  QuestionIsHeld
  SessionWatched
  TurnsOwed
PROPERTIES
  KeepsLifecycle
  OrphansSettled
  SessionsReleased
  QueuedTaken
\* Every job may be finished and no process left.
CHECK_DEADLOCK FALSE
