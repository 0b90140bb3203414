------------------------------ MODULE DraftDesk ------------------------------
(***************************************************************************)
(* What "create content" promises the owner of a story, without threads,   *)
(* searches, leases, retries and processes that end.  One request is asked *)
(* for at a time; the model answers it once, while it is open, or gives it *)
(* up; the owner may finish it by hand instead, and from then on only the  *)
(* owner changes the text.  Every change of the text is a new version, and *)
(* what it replaces is closed.                                             *)
(***************************************************************************)
EXTENDS Naturals

CONSTANT Requests

VARIABLES
  state,   \* where the owner sees each request
  answers, \* how many answers of the model were accepted for it
  texts,   \* the versions that are open: the current text, a shell to fill in
  newest   \* the number of the newest version

vars == <<state, answers, texts, newest>>

Init ==
  /\ state = [r \in Requests |-> "none"]
  /\ answers = [r \in Requests |-> 0]
  /\ texts = {} /\ newest = 0

Becomes(r, now) == state' = [state EXCEPT ![r] = now]

Text(r, status) == [version |-> newest + 1, status |-> status, item |-> r]
Written(r, status, kept) == newest' = newest + 1 /\ texts' = kept \cup {Text(r, status)}

\* The owner asks, when nothing else is open.
Ask(r) ==
  /\ state[r] = "none" /\ \A q \in Requests : state[q] # "open"
  /\ Becomes(r, "open") /\ UNCHANGED <<answers, texts, newest>>

\* A shell is laid out for a request that can still be finished by hand.
Offer(r) ==
  /\ state[r] \in {"open", "failed"} /\ Written(r, "Editable Shell", {})
  /\ UNCHANGED <<state, answers>>

\* The model's answer closes the request, and its shell with it.
Answer(r) ==
  /\ state[r] = "open" /\ answers[r] = 0
  /\ Becomes(r, "completed") /\ answers' = [answers EXCEPT ![r] = 1]
  /\ Written(r, "Current", {t \in texts : t.status = "Editable Shell" /\ t.item # r})

\* The owner fills the shell in, and the request is closed.
Finish(r) ==
  /\ state[r] \in {"open", "failed"}
  /\ \E t \in texts : t.status = "Editable Shell" /\ t.item = r
  /\ Becomes(r, "cancelled") /\ Written(r, "Current", {})
  /\ UNCHANGED answers

\* The owner edits the current text.
Revise(r) ==
  /\ \E t \in texts : t.status = "Current" /\ t.item = r
  /\ Written(r, "Current", {}) /\ UNCHANGED <<state, answers>>

\* The model gives an open request up, or takes up again one it gave up.
GiveUp(r) == state[r] = "open" /\ Becomes(r, "failed") /\ UNCHANGED <<answers, texts, newest>>
TakeUp(r) == state[r] = "failed" /\ Becomes(r, "open") /\ UNCHANGED <<answers, texts, newest>>

Next ==
  \E r \in Requests :
    \/ Ask(r) \/ Offer(r) \/ Answer(r) \/ Finish(r) \/ Revise(r) \/ GiveUp(r) \/ TakeUp(r)

Spec == Init /\ [][Next]_vars
=============================================================================
