------------------------------ MODULE Newsroom ------------------------------
(***************************************************************************)
(* What collecting promises for the stories, without scans, validators,    *)
(* cached answers, networks, deadlines and deaths.  A source is called     *)
(* healthy, and its success renewed, by a reading and by nothing else; a   *)
(* reading takes everything the source publishes at that moment that is    *)
(* new or changed.  So no source is healthy while entries are left out     *)
(* because the page was thought to be known, or because an earlier reading *)
(* was lost half way.  An entry that comes back under another id is not    *)
(* new.  A story shows what was read last of its articles, and has another *)
(* revision exactly when it shows something else.                          *)
(***************************************************************************)
EXTENDS Naturals

CONSTANTS Sources, Articles, Stories, StoryOf, Pages, None

VARIABLES
  feed,     \* what each source publishes
  health,   \* what the owner is told of each source
  current,  \* its last success is younger than what it publishes
  known,    \* the entries read of each source
  shown,    \* what is shown of each article
  revision  \* of each story

vars == <<feed, health, current, known, shown, revision>>

Init ==
  /\ feed \in [Sources -> Pages]
  /\ health = [s \in Sources |-> "pending"]
  /\ current = [s \in Sources |-> FALSE]
  /\ known = [s \in Sources |-> [a \in Articles |-> None]]
  /\ shown = [a \in Articles |-> None]
  /\ revision = [t \in Stories |-> 0]

\* A success that came before the change says nothing of what is published now.
Publish ==
  /\ feed' \in [Sources -> Pages]
  /\ current' = [s \in Sources |-> current[s] /\ feed'[s] = feed[s]]
  /\ UNCHANGED <<health, known, shown, revision>>

\* A failure, or the owner's switch: no word of what the source publishes.
Doubt(s) ==
  /\ \E h \in {"pending", "degraded", "paused"} : health' = [health EXCEPT ![s] = h]
  /\ UNCHANGED <<feed, current, known, shown, revision>>

\* What a source publishes and was not read of it as it is now.
News(s) ==
  {a \in Articles : /\ feed[s][a] \notin {None, known[s][a]}
                    /\ known[s][a] # None => known[s][a].id = feed[s][a].id}

Changed(t) == {a \in Articles : StoryOf[a] = t /\ shown'[a] # shown[a]}

Read(s) ==
  /\ health' = [health EXCEPT ![s] = "healthy"]
  /\ current' = [current EXCEPT ![s] = TRUE]
  /\ known' = [known EXCEPT ![s] = [a \in Articles |->
       IF a \in News(s) THEN feed[s][a] ELSE known[s][a]]]
  /\ shown' = [a \in Articles |-> IF a \in News(s) THEN feed[s][a].text ELSE shown[a]]
  /\ revision' \in [Stories -> Nat]
  /\ \A t \in Stories :
       IF Changed(t) = {} THEN revision'[t] = revision[t] ELSE revision'[t] > revision[t]
  /\ UNCHANGED feed

Next == Publish \/ \E s \in Sources : Doubt(s) \/ Read(s)

Spec == Init /\ [][Next]_vars
=============================================================================
