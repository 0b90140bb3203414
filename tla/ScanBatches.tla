---------------------------- MODULE ScanBatches ----------------------------
(***************************************************************************)
(* What the queue of scans promises, without workers, locks or triggers.   *)
(* Scans come one after the other.  Each serves everything that was queued *)
(* when it began, and everything it served ends as it did: a request that  *)
(* is reported done had a whole scan to itself, begun after it was queued. *)
(* A request may be queued at any time but not while it is served, when it *)
(* is part of that scan.  Only a death leaves a request without an end.    *)
(***************************************************************************)
EXTENDS Naturals

CONSTANT Requests

VARIABLES
  request,  \* what is recorded of each request
  scan,     \* "idle", "scanning", or how the scan ended that is to be recorded
  served,   \* the requests it serves
  deaths    \* workers that died

vars == <<request, scan, served, deaths>>

Ends   == {"completed", "failed"}
Queued == {r \in Requests : request[r] = "queued"}

Init ==
  /\ request = [r \in Requests |-> "none"]
  /\ scan = "idle" /\ served = {} /\ deaths = 0

Queue(r) ==
  /\ request[r] \in {"none"} \cup Ends
  /\ request' = [request EXCEPT ![r] = "queued"]
  /\ UNCHANGED <<scan, served, deaths>>

Begin ==
  /\ scan = "idle" /\ scan' = "scanning"
  /\ served' = Queued
  /\ request' = [r \in Requests |-> IF r \in Queued THEN "running" ELSE request[r]]
  /\ UNCHANGED deaths

End ==
  /\ scan = "scanning" /\ scan' \in Ends
  /\ UNCHANGED <<request, served, deaths>>

\* All that was served ends as its scan did.
Record ==
  /\ scan \in Ends /\ scan' = "idle" /\ served' = {}
  /\ request' = [r \in Requests |-> IF r \in served THEN scan ELSE request[r]]
  /\ UNCHANGED deaths

\* A death may cut the scan short; what it served is left running.
Die ==
  /\ deaths' = deaths + 1
  /\ UNCHANGED <<scan, served>> \/ (scan' = "idle" /\ served' = {})
  /\ UNCHANGED request

Next == (\E r \in Requests : Queue(r)) \/ Begin \/ End \/ Record \/ Die

Spec == Init /\ [][Next]_vars
=============================================================================
