--------------------------- MODULE DeliveryLedger ---------------------------
(***************************************************************************)
(* What both delivery pipelines promise for each message, to a device or   *)
(* to a Telegram topic, without dispatchers, claims, leases, retries or    *)
(* locks.  The messages are independent of each other.  A message is shown *)
(* a first time, and once more for each time the sender could not know     *)
(* whether it was (a doubt); it is recorded as delivered only after it was *)
(* shown; and what is recorded at its end is never recorded otherwise.     *)
(***************************************************************************)
EXTENDS Naturals

CONSTANT Messages

VARIABLES
  outcome,  \* what is recorded of a message
  shown,    \* how often the recipient was shown it
  doubts    \* how often it may have been, and no one can tell

vars == <<outcome, shown, doubts>>

Unsettled == {"absent", "open"}
Outcomes  == Unsettled \cup {"delivered", "given up"}

Init ==
  /\ outcome = [m \in Messages |-> "absent"]
  /\ shown = [m \in Messages |-> 0]
  /\ doubts = [m \in Messages |-> 0]

\* A message is announced, delivered or given up; there is no way back.
Recorded(m) ==
  /\ outcome[m] \in Unsettled /\ outcome'[m] \in Outcomes \ {"absent"}
  /\ outcome'[m] = "delivered" => shown[m] > 0

Shown(m) == shown[m] <= doubts[m] /\ shown'[m] = shown[m] + 1

Step(m) ==
  /\ outcome'[m] = outcome[m] \/ Recorded(m)
  /\ shown'[m] = shown[m] \/ Shown(m)
  /\ doubts'[m] \in {doubts[m], doubts[m] + 1}

Next ==
  /\ outcome' \in [Messages -> Outcomes]
  /\ shown' \in [Messages -> Nat] /\ doubts' \in [Messages -> Nat]
  /\ \A m \in Messages : Step(m)

Spec == Init /\ [][Next]_vars
=============================================================================
