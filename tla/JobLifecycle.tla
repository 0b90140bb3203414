---------------------------- MODULE JobLifecycle ----------------------------
(***************************************************************************)
(* What the generation queue promises for a job, without processes,        *)
(* leases, sessions or locks: the phases its owner can see it go through,  *)
(* and who pays for it.  A job is taken once, by one payer; a question is  *)
(* answered before the job goes on; a finished job stays finished, and     *)
(* nothing but an answer takes a job back to the queue.                    *)
(***************************************************************************)
CONSTANTS Jobs, Payers

VARIABLES
  phase,   \* what the owner is shown of a job
  payers   \* who requested its billable turn

vars == <<phase, payers>>

Ended  == {"completed", "failed", "cancelled"}
Phases == {"absent", "queued", "running", "needs_input", "answered"} \cup Ended

\* Jobs of an earlier life of the database have ended.
Init ==
  /\ phase \in [Jobs -> {"absent"} \cup Ended]
  /\ payers = [j \in Jobs |-> {}]

Becomes(j, later) == phase' = [phase EXCEPT ![j] = later]

\* A request is queued; an edit of an ended job's text is complete at once.
Create(j) ==
  /\ phase[j] = "absent"
  /\ \/ Becomes(j, "queued")
     \/ Becomes(j, "completed") /\ \E i \in Jobs : phase[i] \in Ended
  /\ UNCHANGED payers

\* A job is taken from the queue, or goes on with the answer it waited for.
Take(j) ==
  /\ phase[j] \in {"queued", "answered"} /\ Becomes(j, "running")
  /\ UNCHANGED payers

\* The turn is requested for a job that was taken, always by the same payer.
Bill(j) ==
  \E p \in Payers :
    /\ phase[j] \in {"running"} \cup Ended /\ payers[j] \subseteq {p}
    /\ payers' = [payers EXCEPT ![j] = {p}]

Pay(j) == Bill(j) /\ UNCHANGED phase

Pause(j)  == phase[j] = "running" /\ Becomes(j, "needs_input") /\ UNCHANGED payers
Answer(j) == phase[j] = "needs_input" /\ Becomes(j, "answered") /\ UNCHANGED payers

\* The turn ends; one that fails may have been paid for.
Finish(j) ==
  /\ phase[j] = "running"
  /\ \/ Becomes(j, "completed") /\ UNCHANGED payers
     \/ Becomes(j, "failed") /\ (Bill(j) \/ UNCHANGED payers)

\* Jobs that were taken and lost their process, or could not be held, fail.
Abandon(lost) ==
  /\ \A j \in lost : phase[j] \in {"running", "needs_input", "answered"}
  /\ phase' = [j \in Jobs |-> IF j \in lost THEN "failed" ELSE phase[j]]
  /\ UNCHANGED payers

\* The owner's cancellation overrides whatever became of the job.
Cancel(j) == phase[j] # "absent" /\ Becomes(j, "cancelled") /\ UNCHANGED payers

Next ==
  \/ \E j \in Jobs : \/ Create(j) \/ Take(j) \/ Pay(j) \/ Pause(j) \/ Answer(j)
                     \/ Finish(j) \/ Cancel(j)
  \/ \E lost \in SUBSET Jobs : Abandon(lost)

Spec == Init /\ [][Next]_vars
=============================================================================
