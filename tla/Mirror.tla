------------------------------- MODULE Mirror -------------------------------
(***************************************************************************)
(* What copying a local projection to the hosted dashboard promises,       *)
(* without calls, identifiers, manifests or deltas.  A transfer carries    *)
(* the content read when it was opened; the rows shown change only to that *)
(* content; a digest is published when its transfer ends.  As long as      *)
(* nothing broke, every transfer runs to its end and what is published is  *)
(* then what is shown.  After a break a transfer may leave rows behind,    *)
(* but only rows its content shares with the one published before.         *)
(***************************************************************************)
CONSTANTS Keys, Vals, Absent, None

VARIABLES
  content,    \* the local content
  read,       \* the content being transferred, None between transfers
  published,  \* the content whose digest is published
  shown,      \* the rows the dashboard has
  broken      \* something was lost: a call, its answer, the bridge, its manifest

vars == <<content, read, published, shown, broken>>

Contents == [Keys -> Vals \cup {Absent}]

Init ==
  /\ content \in Contents
  /\ read = None /\ published = None
  /\ shown = [k \in Keys |-> Absent]
  /\ broken = FALSE

\* The local content changes, also during a transfer, which does not see it.
Edit ==
  /\ content' \in Contents
  /\ UNCHANGED <<read, published, shown, broken>>

\* Something is lost; the transfer may be over, its rows stay as they are.
Break ==
  /\ broken' = TRUE /\ read' \in {read, None}
  /\ UNCHANGED <<content, published, shown>>

Open ==
  /\ read = None /\ read' = content
  /\ UNCHANGED <<content, published, shown, broken>>

\* A row is replaced, inserted or deleted.
Move(k) ==
  /\ read # None /\ shown' = [shown EXCEPT ![k] = read[k]]
  /\ UNCHANGED <<content, read, published, broken>>

\* A transfer ends without publishing: there is nothing to publish, or rows
\* that an earlier break left behind do not add up.
Leave ==
  /\ read # None /\ (read = published \/ broken) /\ read' = None
  /\ UNCHANGED <<content, published, shown, broken>>

\* Rows a delta did not touch, because both contents agree on them.
LeftBehind ==
  /\ broken /\ published # None
  /\ \A k \in Keys : shown[k] # read[k] => read[k] = published[k]

Publish ==
  /\ read # None /\ published' = read /\ read' = None
  /\ shown' = read \/ (LeftBehind /\ UNCHANGED shown)
  /\ UNCHANGED <<content, broken>>

Next == Edit \/ Break \/ Open \/ (\E k \in Keys : Move(k)) \/ Leave \/ Publish

Spec == Init /\ [][Next]_vars
=============================================================================
