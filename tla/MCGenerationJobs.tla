-------------------------- MODULE MCGenerationJobs --------------------------
(* GenerationJobs on small sets of processes, for TLC.                     *)
EXTENDS GenerationJobs

CONSTANTS p1, p2

OneProc  == {p1}
TwoProcs == {p1, p2}

\* The first job was cancelled while it was queued; its text can be
\* edited while the second one runs.
EarlierInit ==
  /\ status = [j \in Jobs |-> IF j = 1 THEN "cancelled" ELSE "absent"]
  /\ owner = [j \in Jobs |-> None]
  /\ lease = [j \in Jobs |-> FALSE]
  /\ response = [j \in Jobs |-> 0]
  /\ asked = [j \in Jobs |-> 0]
  /\ alive = Procs
  /\ session = [p \in Procs |-> [j \in Jobs |-> 0]]
  /\ pending = [p \in Procs |-> {}]
  /\ at = [p \in Procs |-> Free]
  /\ job = [p \in Procs |-> None]
  /\ via = [p \in Procs |-> "queue"]
  /\ holds = {}
  /\ cancels = {}
  /\ replies = {}
  /\ turns = [j \in Jobs |-> 0]
  /\ starters = [j \in Jobs |-> {}]
  /\ early = [j \in Jobs |-> 0]

EarlierSpec == EarlierInit /\ [][Next]_vars /\ Fairness
=============================================================================
