-------------------------- MODULE Collector_proofs --------------------------
(***************************************************************************)
(* Theorems about Collector for every number of sources, articles and      *)
(* stories, and of every kind of event.                                    *)
(***************************************************************************)
EXTENDS Collector, FiniteSetTheorems, TLAPS

USE DEF external, sources, stored, outage, notices

\* Counting the changed articles of a story.
LEMMA GrownNat ==
  ASSUME NEW s \in Sources, NEW t \in Stories
  PROVE  /\ Grown(s, t) \in Nat
         /\ \A a \in Moved(s) : StoryOf[a] = t => Grown(s, t) > 0
         /\ (\A a \in Moved(s) : StoryOf[a] # t) => Grown(s, t) = 0
<1> DEFINE G == {a \in Moved(s) : StoryOf[a] = t}
<1>1. G \in SUBSET Articles
  BY DEF Moved, Observed, Incremental
<1>2. IsFiniteSet(Articles)
  BY CollectorAssumption
<1>3. IsFiniteSet(G)
  BY <1>1, <1>2, FS_Subset
<1>4. Cardinality(G) \in Nat
  BY <1>3, FS_CardinalityType
<1>5. Cardinality(G) = 0 <=> G = {}
  BY <1>3, FS_EmptySet
<1>6. Grown(s, t) = Cardinality(G)
  BY DEF Grown
<1>7. \A a \in Moved(s) : StoryOf[a] = t => G # {}
  OBVIOUS
<1>8. (\A a \in Moved(s) : StoryOf[a] # t) => G = {}
  OBVIOUS
<1> QED BY <1>4, <1>5, <1>6, <1>7, <1>8

\* A source is the only one that comes first.
LEMMA OneHead == ASSUME TypeOK, NEW s \in Sources, NEW t \in Sources, Head(s), Head(t) PROVE s = t
BY DEF TypeOK, Scans, Head, Sources

-----------------------------------------------------------------------------
(* Types                                                                   *)

\* Spending an event keeps the counters.
LEMMA SpendType == ASSUME TypeOK, NEW e \in Events, Spend(e) PROVE used' \in [Events -> Nat]
<1>1. used \in [Events -> Nat]
  BY DEF TypeOK
<1>2. used[e] + 1 \in Nat
  BY <1>1
<1> QED BY <1>1, <1>2 DEF Spend

\* A failure keeps the types of a source's state.
LEMMA FailedType ==
  ASSUME TypeOK, NEW s \in Sources, NEW immediate \in BOOLEAN, Failed(s, immediate)
  PROVE  /\ health' \in [Sources -> {"pending", "healthy", "degraded", "paused"}]
         /\ streak' \in [Sources -> Nat]
<1>1. streak[s] + 1 \in Nat
  BY DEF TypeOK
<1> QED BY <1>1 DEF TypeOK, Failed

\* The local variables keep their types.
LEMMA ScanType ==
  ASSUME scan \in Scans, NEW s \in Sources
  PROVE  /\ Idle \in Scans
         /\ \A p \in Places : [scan EXCEPT !.at = p] \in Scans
         /\ [scan EXCEPT !.todo = @ \ {s}] \in Scans
BY DEF Scans, Idle, Blank, Pages, Places

\* A scan begins with nothing counted.
LEMMA StartedScan ==
  ASSUME StartScan
  PROVE  /\ scan.at = "idle" /\ scan'.at = "next"
         /\ ~scan'.ok /\ ~scan'.bad /\ ~scan'.cut /\ ~scan'.seen /\ scan'.lost = {}
<1>1. PICK due \in SUBSET Sources : Start(due)
  BY DEF StartScan
<1>2. scan' = [Idle EXCEPT !.at = "next", !.todo = Listed, !.due = due]
  BY <1>1 DEF Start
<1>3. scan' = [at |-> "next", todo |-> Listed, due |-> due, page |-> Blank, body |-> FALSE,
               lost |-> {}, ok |-> FALSE, bad |-> FALSE, cut |-> FALSE, seen |-> FALSE]
  BY <1>2 DEF Idle
<1>4. scan.at = "idle"
  BY <1>1 DEF Start
<1>5. /\ scan'.at = "next" /\ scan'.ok = FALSE /\ scan'.bad = FALSE /\ scan'.cut = FALSE
      /\ scan'.seen = FALSE /\ scan'.lost = {}
  BY <1>3
<1> QED BY <1>4, <1>5

\* So does a worker that waits for the next one.
LEMMA IdleScan ==
  Idle.at = "idle" /\ ~Idle.ok /\ ~Idle.bad /\ ~Idle.cut /\ ~Idle.seen /\ Idle.lost = {}
BY DEF Idle

\* Every step keeps the types.
LEMMA TypeStep == TypeOK /\ [Next]_vars => TypeOK'
<1> SUFFICES ASSUME TypeOK, [Next]_vars PROVE TypeOK'
  OBVIOUS
<1> USE DEF Events
<1>1. ASSUME NEW s \in Sources, NEW a \in Articles, Edit(s, a) PROVE TypeOK'
  <2>1. used' \in [Events -> Nat]
    BY <1>1, SpendType DEF Edit
  <2>2. PICK e \in Entries \cup {None} : feed' = [feed EXCEPT ![s][a] = e]
    BY <1>1 DEF Edit
  <2>3. feed[s] \in Pages
    BY DEF TypeOK
  <2>4. [feed[s] EXCEPT ![a] = e] \in Pages
    BY <2>3 DEF Pages
  <2>5. feed' \in [Sources -> Pages]
    BY <2>2, <2>4 DEF TypeOK
  <2> QED BY <1>1, <2>1, <2>5 DEF Edit, TypeOK
<1>2. ASSUME GoOffline \/ GoOnline PROVE TypeOK'
  BY <1>2, SpendType DEF GoOffline, GoOnline, TypeOK
<1>3. ASSUME NEW s \in Sources, Toggle(s) PROVE TypeOK'
  BY <1>3, SpendType DEF Toggle, TypeOK
<1>4. ASSUME NEW due \in SUBSET Sources, Start(due) PROVE TypeOK'
  <2>1. scan' \in Scans
    BY <1>4 DEF Start, Idle, Scans, Places, Pages, Blank, Listed
  <2> QED BY <1>4, <2>1 DEF Start, TypeOK
<1>5. ASSUME NEW s \in Sources, Pass(s) PROVE TypeOK'
  BY <1>5, ScanType DEF Pass, TypeOK
<1>6. ASSUME Cut PROVE TypeOK'
  <2>1. scan' \in Scans
    BY <1>6 DEF Cut, TypeOK, Scans
  <2> QED BY <1>6, <2>1, SpendType DEF Cut, TypeOK
<1>7. ASSUME NEW s \in Sources, Answer(s) PROVE TypeOK'
  <2>1. scan' \in Scans
    BY <1>7 DEF Answer, Modified, TypeOK, Scans, Places
  <2> QED BY <1>7, <2>1 DEF Answer, TypeOK
<1>8. ASSUME NEW s \in Sources, Unreachable(s) PROVE TypeOK'
  <2>1. scan' \in Scans
    BY <1>8 DEF Unreachable, TypeOK, Scans
  <2>2. used' \in [Events -> Nat]
    BY <1>8, SpendType DEF Unreachable, TypeOK
  <2> QED BY <1>8, <2>1, <2>2 DEF Unreachable, TypeOK
<1>9. ASSUME NEW s \in Sources, Fails(s) PROVE TypeOK'
  <2>1. scan' \in Scans
    BY <1>9 DEF Fails, TypeOK, Scans, Places, Blank, Pages
  <2>2. PICK immediate \in BOOLEAN : Failed(s, immediate)
    BY <1>9 DEF Fails
  <2>3. used' \in [Events -> Nat]
    BY <1>9, SpendType DEF Fails
  <2>4. UNCHANGED <<external, enabled, current, stored, outage, notices>>
    BY <2>2 DEF Failed
  <2> QED BY <2>1, <2>2, <2>3, <2>4, FailedType DEF TypeOK
<1>10. ASSUME NEW s \in Sources, Record(s) PROVE TypeOK'
  <2>1. scan.page \in Pages
    BY DEF TypeOK, Scans
  <2>2. raw[s] \in Pages
    BY DEF TypeOK
  <2>3. [a \in Articles |-> IF a \in Observed(s) THEN scan.page[a] ELSE raw[s][a]] \in Pages
    BY <2>1, <2>2 DEF Pages
  <2>4. raw' \in [Sources -> Pages]
    BY <1>10, <2>3 DEF Record, TypeOK
  <2>5. \A a \in Moved(s) : scan.page[a].text \in Texts
    BY <2>1 DEF Moved, Observed, Incremental, Pages, Entries
  <2>6. item' \in [Articles -> Texts \cup {None}]
    BY <1>10, <2>5 DEF Record, TypeOK
  <2>7. \A t \in Stories : revision[t] + Grown(s, t) \in Nat
    BY GrownNat DEF TypeOK
  <2>8. revision' \in [Stories -> Nat]
    BY <1>10, <2>7 DEF Record
  <2>9. etag' \in [Sources -> Pages \cup {None}]
    BY <1>10, <2>1 DEF Record, Validator, TypeOK
  <2>10. scan' \in Scans
    BY <1>10 DEF Record, TypeOK, Scans, Places, Blank, Pages
  <2>11. health' \in [Sources -> {"pending", "healthy", "degraded", "paused"}] /\ streak' \in [Sources -> Nat]
    BY <1>10 DEF Record, TypeOK
  <2> QED BY <1>10, <2>4, <2>6, <2>8, <2>9, <2>10, <2>11 DEF Record, TypeOK
<1>11. ASSUME LoopEnds PROVE TypeOK'
  <2>1. scan' \in Scans
    BY <1>11 DEF LoopEnds, Goto, TypeOK, Scans, Places
  <2> QED BY <1>11, <2>1 DEF LoopEnds, TypeOK
<1>12. ASSUME NEW s \in Sources, SettleOne(s) PROVE TypeOK'
  <2>1. scan' \in Scans
    BY <1>12 DEF SettleOne, TypeOK, Scans
  <2>2. Failed(s, FALSE)
    BY <1>12 DEF SettleOne
  <2>3. UNCHANGED <<external, enabled, current, stored, outage, notices>>
    BY <2>2 DEF Failed
  <2> QED BY <1>12, <2>1, <2>2, <2>3, FailedType DEF SettleOne, TypeOK
<1>13. ASSUME Settled \/ Activate \/ MarkAlerted \/ ClearAlerted PROVE TypeOK'
  <2> DEFINE At(p) == [scan EXCEPT !.at = p]
  <2>1. Idle \in Scans /\ At("back") \in Scans /\ At("alert") \in Scans
    BY DEF TypeOK, Scans, Idle, Blank, Pages, Places
  <2>2. scan' \in {Idle, At("back"), At("alert")}
    BY <1>13 DEF Settled, Activate, MarkAlerted, ClearAlerted
  <2> QED BY <1>13, <2>1, <2>2 DEF Settled, Activate, MarkAlerted, ClearAlerted, TypeOK
<1>14. ASSUME TellOffline \/ TellOnline \/ Deactivate PROVE TypeOK'
  <2>1. scan' \in Scans
    BY <1>14 DEF TellOffline, TellOnline, Deactivate, Goto, TypeOK, Scans, Places
  <2>2. repeats + 1 \in Nat
    BY DEF TypeOK
  <2>3. last' \in {"offline", "online"} /\ repeats' \in Nat /\ active' \in BOOLEAN
    BY <1>14, <2>2 DEF TellOffline, TellOnline, Deactivate, Notice, TypeOK
  <2> QED BY <1>14, <2>1, <2>3 DEF TellOffline, TellOnline, Deactivate, TypeOK
<1>15. ASSUME Die PROVE TypeOK'
  <2>1. scan' \in Scans
    BY <1>15 DEF Die, Scans, Idle, Blank, Pages, Places
  <2> QED BY <1>15, <2>1, SpendType DEF Die, TypeOK
<1>16. CASE UNCHANGED vars
  BY <1>16 DEF vars, TypeOK
<1> QED BY <1>1, <1>2, <1>3, <1>4, <1>5, <1>6, <1>7, <1>8, <1>9, <1>10, <1>11, <1>12,
           <1>13, <1>14, <1>15, <1>16
     DEF Next, StartScan, Scanning, Loop, Verdict, Network, World

\* The initial state is typed and satisfies what the properties rest on.
LEMMA InitHolds == Init => TypeOK /\ CollectorInv
<1> SUFFICES ASSUME Init PROVE TypeOK /\ CollectorInv
  OBVIOUS
<1>1. TypeOK
  BY DEF Init, TypeOK, Idle, Scans, Blank, Pages, Places, Events
<1>2. PageInv /\ FreshInv /\ SeenInv
  BY DEF Init, Idle, PageInv, FreshInv, SeenInv
<1>3. NoticeInv
  <2>1. Clean
    BY DEF Init, Clean
  <2>2. scan.at = "idle"
    BY DEF Init, Idle
  <2>3. NoticesAlternate
    BY DEF Init, NoticesAlternate, Events
  <2> QED BY <2>1, <2>2, <2>3 DEF NoticeInv
<1>4. NothingSkipped
  BY DEF Init, NothingSkipped
<1>5. ShownIsStored
  BY DEF Init, ShownIsStored, Blank
<1> QED BY <1>1, <1>2, <1>3, <1>4, <1>5 DEF CollectorInv

\* Type correctness of the collector, for every number of sources and events.
THEOREM TypeCorrect == Spec => []TypeOK
<1>1. Init => TypeOK
  BY InitHolds
<1> QED BY <1>1, TypeStep, PTL DEF Spec

-----------------------------------------------------------------------------
(* What is stored                                                          *)

\* Only a page that was fetched changes what is stored.
LEMMA StoredStep == [Next]_vars => UNCHANGED stored \/ \E s \in Sources : Record(s)
<1> SUFFICES ASSUME [Next]_vars, ~\E s \in Sources : Record(s) PROVE UNCHANGED stored
  OBVIOUS
<1>1. ASSUME NEW s \in Sources, Loop(s) PROVE UNCHANGED stored
  BY <1>1 DEF Loop, Pass, Answer, Unreachable, Fails, Failed
<1>2. ASSUME Verdict \/ Network PROVE UNCHANGED stored
  BY <1>2 DEF Verdict, LoopEnds, SettleOne, Failed, Settled, Network, Activate, TellOffline,
              MarkAlerted, TellOnline, Deactivate, ClearAlerted
<1>3. ASSUME World \/ StartScan \/ Cut \/ Die PROVE UNCHANGED stored
  BY <1>3 DEF World, Edit, GoOffline, GoOnline, Toggle, StartScan, Start, Cut, Die
<1>4. CASE UNCHANGED vars
  BY <1>4 DEF vars
<1> QED BY <1>1, <1>2, <1>3, <1>4 DEF Next, Scanning

\* What one page changes in its source's entries.
LEMMA RecordRaw ==
  ASSUME TypeOK, NEW s \in Sources, Record(s), NEW a \in Articles
  PROVE  /\ \A r \in Sources : r # s => raw'[r][a] = raw[r][a]
         /\ a \in Observed(s) => raw'[s][a] = scan.page[a] /\ scan.page[a] \in Entries
         /\ a \notin Observed(s) => raw'[s][a] = raw[s][a]
<1>1. scan.page \in Pages /\ raw[s] \in Pages /\ raw \in [Sources -> Pages]
  BY DEF TypeOK, Scans
<1>2. raw' = [raw EXCEPT ![s] = [b \in Articles |->
        IF b \in Observed(s) THEN scan.page[b] ELSE raw[s][b]]]
  BY DEF Record
<1>3. a \in Observed(s) => scan.page[a] \in Entries
  BY <1>1 DEF Observed, Incremental, Pages
<1> QED BY <1>1, <1>2, <1>3

\* Nothing but the answer of a source puts a page before the scan.
LEMMA NoRecord ==
  ASSUME TypeOK, StartScan \/ Cut \/ Die \/ Verdict \/ Network
  PROVE  scan'.at # "record"
<1> SUFFICES ASSUME scan'.at = "record" PROVE FALSE
  OBVIOUS
<1>1. \A p \in Places : [scan EXCEPT !.at = p].at = p
  BY DEF TypeOK, Scans
<1>2. CASE StartScan \/ Die
  BY <1>2, StartedScan, IdleScan DEF Die
<1>3. CASE Cut
  BY <1>3 DEF Cut, TypeOK, Scans
<1>4. CASE LoopEnds
  BY <1>1, <1>4 DEF LoopEnds, Goto, Places
<1>5. ASSUME NEW r \in Sources, SettleOne(r) PROVE FALSE
  BY <1>5 DEF SettleOne, TypeOK, Scans
<1>6. CASE Settled \/ Activate \/ MarkAlerted \/ ClearAlerted
  BY <1>1, <1>6, IdleScan DEF Settled, Activate, MarkAlerted, ClearAlerted, Places
<1>7. CASE TellOffline \/ TellOnline \/ Deactivate
  BY <1>1, <1>7 DEF TellOffline, TellOnline, Deactivate, Goto, Places
<1> QED BY <1>2, <1>3, <1>4, <1>5, <1>6, <1>7 DEF Verdict, Network

\* A 304 is about the page the stored validator stands for.
LEMMA PageStep == TypeOK /\ PageInv /\ [Next]_vars => PageInv'
<1> SUFFICES ASSUME TypeOK, PageInv, [Next]_vars,
                    NEW s \in Sources, (scan.at = "record" /\ Head(s) /\ ~scan.body)'
             PROVE  etag'[s] = scan'.page
  BY DEF PageInv
<1>1. ASSUME NEW r \in Sources, Answer(r) PROVE etag'[s] = scan'.page
  <2>1. scan'.todo = scan.todo /\ scan'.page = feed[r] /\ scan'.body = Modified(r)
    BY <1>1 DEF Answer, TypeOK, Scans
  <2>2. r = s
    BY <1>1, <2>1, OneHead DEF Answer, Tries, Head
  <2> QED BY <1>1, <2>1, <2>2 DEF Answer, Modified
<1>2. ASSUME UNCHANGED <<scan, etag>> PROVE etag'[s] = scan'.page
  BY <1>2 DEF PageInv, Head
<1>3. ASSUME NEW r \in Sources, Loop(r), ~Answer(r) PROVE FALSE
  BY <1>3 DEF Loop, Pass, Unreachable, Fails, Record, Tries, TypeOK, Scans
<1>4. ASSUME StartScan \/ Cut \/ Die \/ Verdict \/ Network PROVE FALSE
  BY <1>4, NoRecord
<1>5. ASSUME World \/ UNCHANGED vars PROVE UNCHANGED <<scan, etag>>
  BY <1>5 DEF World, Edit, GoOffline, GoOnline, Toggle, vars
<1> QED BY <1>1, <1>2, <1>3, <1>4, <1>5 DEF Next, Scanning

\* Only a source that answers brings a page to store.
LEMMA FreshStep == TypeOK /\ FreshInv /\ [Next]_vars => FreshInv'
<1> SUFFICES ASSUME TypeOK, FreshInv, [Next]_vars,
                    NEW s \in Sources, (scan.at = "record" /\ Head(s))'
             PROVE  scan'.page = feed'[s]
  BY DEF FreshInv
<1>1. ASSUME NEW r \in Sources, Answer(r) PROVE scan'.page = feed'[s]
  <2>1. scan'.todo = scan.todo /\ scan'.page = feed[r] /\ feed' = feed
    BY <1>1 DEF Answer, TypeOK, Scans
  <2>2. r = s
    BY <1>1, <2>1, OneHead DEF Answer, Tries, Head
  <2> QED BY <2>1, <2>2
<1>2. ASSUME UNCHANGED <<scan, feed>> PROVE scan'.page = feed'[s]
  BY <1>2 DEF FreshInv, Head
<1>3. ASSUME NEW r \in Sources, Loop(r), ~Answer(r) PROVE FALSE
  BY <1>3 DEF Loop, Pass, Unreachable, Fails, Record, Tries, TypeOK, Scans
<1>4. ASSUME StartScan \/ Cut \/ Die \/ Verdict \/ Network PROVE FALSE
  BY <1>4, NoRecord
<1>5. ASSUME NEW r \in Sources, NEW a \in Articles, Edit(r, a) PROVE FALSE
  BY <1>5 DEF Edit
<1>6. ASSUME World \/ UNCHANGED vars PROVE UNCHANGED <<scan, feed>>
  BY <1>5, <1>6 DEF World, GoOffline, GoOnline, Toggle, vars
<1> QED BY <1>1, <1>2, <1>3, <1>4, <1>6 DEF Next, Scanning

\* The entries of a page are stored before its validator is.
LEMMA SkipStep == TypeOK /\ PageInv /\ NothingSkipped /\ [Next]_vars => NothingSkipped'
<1> SUFFICES ASSUME TypeOK, PageInv, NothingSkipped, [Next]_vars PROVE NothingSkipped'
  OBVIOUS
<1>1. CASE UNCHANGED stored
  BY <1>1 DEF NothingSkipped, Kept
<1>2. ASSUME NEW s \in Sources, Record(s) PROVE NothingSkipped'
  <2> SUFFICES ASSUME NEW r \in Sources, etag'[r] # None, NEW a \in Articles
               PROVE  Kept(r, a, etag[r][a])'
    BY DEF NothingSkipped
  <2>1. CASE r # s
    <3>1. etag'[r] = etag[r] /\ raw'[r][a] = raw[r][a]
      BY <1>2, <2>1, RecordRaw DEF Record, TypeOK
    <3> QED BY <3>1 DEF NothingSkipped, Kept
  <2>2. CASE r = s
    <3>1. etag'[s] = scan.page
      BY <1>2, <2>2 DEF Record, Validator, TypeOK
    <3>2. scan.page[a] = None \/ raw'[s][a] = scan.page[a]
            \/ (raw'[s][a] # None /\ raw'[s][a].id # scan.page[a].id)
      <4>1. CASE a \in Observed(s)
        BY <1>2, <4>1, RecordRaw
      <4>2. CASE a \notin Observed(s) /\ scan.body
        <5>1. raw'[s][a] = raw[s][a]
          BY <1>2, <4>2, RecordRaw
        <5> QED BY <4>2, <5>1 DEF Observed, Incremental
      <4>3. CASE ~scan.body
        <5>1. raw'[s][a] = raw[s][a]
          BY <1>2, <4>3, RecordRaw DEF Observed, Incremental
        <5>2. etag[s] = scan.page /\ scan.page \in Pages
          BY <1>2, <4>3 DEF PageInv, Record, TypeOK, Scans
        <5>3. etag[s] # None
          BY <5>2, NoneAssumption DEF Pages
        <5> QED BY <5>1, <5>2, <5>3 DEF NothingSkipped, Kept
      <4> QED BY <4>1, <4>2, <4>3
    <3> QED BY <2>2, <3>1, <3>2 DEF Kept
  <2> QED BY <2>1, <2>2
<1> QED BY <1>1, <1>2, StoredStep

\* A page changes a story's rows and revision together with its source's entries.
LEMMA ShownStep == TypeOK /\ ShownIsStored /\ [Next]_vars => ShownIsStored'
<1> SUFFICES ASSUME TypeOK, ShownIsStored, [Next]_vars PROVE ShownIsStored'
  OBVIOUS
<1>1. CASE UNCHANGED stored
  BY <1>1 DEF ShownIsStored
<1>2. ASSUME NEW s \in Sources, Record(s) PROVE ShownIsStored'
  <2> SUFFICES ASSUME NEW a \in Articles
               PROVE  /\ item'[a] # None =>
                           \E r \in Sources : raw'[r][a] # None /\ raw'[r][a].text = item'[a]
                      /\ (\E r \in Sources : raw'[r][a] # None) =>
                           item'[a] # None /\ revision'[StoryOf[a]] > 0
    BY DEF ShownIsStored
  <2> DEFINE t == StoryOf[a]
  <2>1. t \in Stories
    BY CollectorAssumption
  <2>2. /\ revision'[t] = revision[t] + Grown(s, t)
        /\ revision[t] \in Nat /\ Grown(s, t) \in Nat
        /\ a \in Moved(s) => Grown(s, t) > 0
    BY <1>2, <2>1, GrownNat DEF Record, TypeOK
  <2>3. item'[a] = IF a \in Moved(s) THEN scan.page[a].text ELSE item[a]
    BY <1>2 DEF Record
  <2>4. CASE a \in Observed(s)
    <3>1. raw'[s][a] = scan.page[a] /\ scan.page[a] \in Entries
      BY <1>2, <2>4, RecordRaw
    <3>2. raw'[s][a] # None /\ scan.page[a].text # None
      BY <3>1, NoneAssumption DEF Entries
    <3>3. item'[a] = scan.page[a].text
      BY <2>3, <2>4 DEF Moved
    <3>4. a \notin Moved(s) => item[a] # None
      BY <2>4, <3>2 DEF Moved
    <3>5. item[a] # None => revision[t] > 0
      BY DEF ShownIsStored
    <3>6. revision'[t] > 0
      BY <2>2, <3>4, <3>5
    <3> QED BY <3>1, <3>2, <3>3, <3>6
  <2>5. CASE a \notin Observed(s)
    <3>1. \A r \in Sources : raw'[r][a] = raw[r][a]
      BY <1>2, <2>5, RecordRaw
    <3>2. item'[a] = item[a]
      BY <2>3, <2>5 DEF Moved
    <3>3. revision[t] > 0 => revision'[t] > 0
      BY <2>2
    <3> QED BY <3>1, <3>2, <3>3 DEF ShownIsStored
  <2> QED BY <2>4, <2>5
<1> QED BY <1>1, <1>2, StoredStep

\* A story changes together with its revision and an entry of one source.
LEMMA FollowsStep ==
  ASSUME TypeOK, [Next]_vars, NEW a \in Articles, item'[a] # item[a]
  PROVE  /\ revision'[StoryOf[a]] > revision[StoryOf[a]]
         /\ \E s \in Sources : /\ raw'[s][a] # raw[s][a]
                               /\ raw[s][a] # None => raw'[s][a].id = raw[s][a].id
<1>1. PICK s \in Sources : Record(s)
  BY StoredStep
<1>2. a \in Moved(s)
  BY <1>1 DEF Record
<1>3. a \in Observed(s)
  BY <1>2 DEF Moved
<1>4. StoryOf[a] \in Stories
  BY CollectorAssumption
<1>5. revision'[StoryOf[a]] > revision[StoryOf[a]]
  BY <1>1, <1>2, <1>4, GrownNat DEF Record, TypeOK
<1>6. raw'[s][a] = scan.page[a]
  BY <1>1, <1>3, RecordRaw
<1> QED BY <1>3, <1>5, <1>6 DEF Observed, Incremental

-----------------------------------------------------------------------------
(* Whole pages                                                             *)

\* Feeds change by their publishers only.
LEMMA FeedStep ==
  [Next]_vars => UNCHANGED feed \/ \E s \in Sources, a \in Articles : Edit(s, a)
<1> SUFFICES ASSUME [Next]_vars, ~\E s \in Sources, a \in Articles : Edit(s, a)
             PROVE  UNCHANGED feed
  OBVIOUS
<1>1. ASSUME NEW s \in Sources, Loop(s) PROVE UNCHANGED feed
  BY <1>1 DEF Loop, Pass, Answer, Unreachable, Fails, Failed, Record
<1>2. ASSUME Verdict \/ Network PROVE UNCHANGED feed
  BY <1>2 DEF Verdict, LoopEnds, SettleOne, Failed, Settled, Network, Activate, TellOffline,
              MarkAlerted, TellOnline, Deactivate, ClearAlerted
<1>3. ASSUME World \/ StartScan \/ Cut \/ Die PROVE UNCHANGED feed
  BY <1>3 DEF World, GoOffline, GoOnline, Toggle, StartScan, Start, Cut, Die
<1>4. CASE UNCHANGED vars
  BY <1>4 DEF vars
<1> QED BY <1>1, <1>2, <1>3, <1>4 DEF Next, Scanning

\* What a scan stores of a page is all the news there are, also after a 304.
LEMMA NewsObserved ==
  ASSUME TypeOK, PageInv, FreshInv, NothingSkipped, NEW s \in Sources, Record(s)
  PROVE  Room!News(s) = Observed(s)
<1>1. scan.at = "record" /\ Head(s) /\ scan.page = feed[s]
  BY DEF Record, FreshInv
<1>2. CASE scan.body
  BY <1>1, <1>2 DEF Room!News, Observed, Incremental
<1>3. CASE ~scan.body
  <2>1. etag[s] = feed[s] /\ feed[s] # None
    BY <1>1, <1>3, NoneAssumption DEF PageInv, TypeOK
  <2>2. \A a \in Articles : Kept(s, a, feed[s][a])
    BY <2>1 DEF NothingSkipped
  <2> QED BY <1>3, <2>2 DEF Kept, Room!News, Observed, Incremental
<1> QED BY <1>2, <1>3

\* Only a failure, or the owner's switch, changes the health without a page, and
\* neither is a success.
LEMMA HealthStep ==
  [Next]_vars =>
    \/ UNCHANGED <<health, current>>
    \/ \E s \in Sources : Record(s)
    \/ \E s \in Sources, a \in Articles : Edit(s, a)
    \/ \E s \in Sources : Toggle(s) \/ \E immediate \in BOOLEAN : Failed(s, immediate)
<1> SUFFICES ASSUME [Next]_vars,
                    ~\E s \in Sources : Record(s),
                    ~\E s \in Sources, a \in Articles : Edit(s, a),
                    ~\E s \in Sources : Toggle(s),
                    ~\E s \in Sources, immediate \in BOOLEAN : Failed(s, immediate)
             PROVE  UNCHANGED <<health, current>>
  OBVIOUS
<1>1. ASSUME NEW s \in Sources, Loop(s) PROVE UNCHANGED <<health, current>>
  BY <1>1 DEF Loop, Pass, Answer, Unreachable, Fails
<1>2. ASSUME Verdict \/ Network PROVE UNCHANGED <<health, current>>
  BY <1>2 DEF Verdict, LoopEnds, SettleOne, Settled, Network, Activate, TellOffline,
              MarkAlerted, TellOnline, Deactivate, ClearAlerted
<1>3. ASSUME World \/ StartScan \/ Cut \/ Die PROVE UNCHANGED <<health, current>>
  BY <1>3 DEF World, GoOffline, GoOnline, StartScan, Start, Cut, Die
<1>4. CASE UNCHANGED vars
  BY <1>4 DEF vars
<1> QED BY <1>1, <1>2, <1>3, <1>4 DEF Next, Scanning

\* A failure and the owner's switch are doubts.
LEMMA DoubtStep ==
  ASSUME NEW s \in Sources, Toggle(s) \/ \E immediate \in BOOLEAN : Failed(s, immediate)
  PROVE  Room!Doubt(s)
<1>1. CASE Toggle(s)
  BY <1>1 DEF Toggle, Room!Doubt
<1>2. ASSUME NEW immediate \in BOOLEAN, Failed(s, immediate) PROVE Room!Doubt(s)
  BY <1>2 DEF Failed, Room!Doubt
<1> QED BY <1>1, <1>2

\* An edit makes the last success of its source old, and no other.
LEMMA EditPublishes ==
  ASSUME TypeOK, TypeOK', NEW s \in Sources, NEW a \in Articles, Edit(s, a)
  PROVE  Room!Publish
<1>1. PICK e \in (Entries \cup {None}) \ {feed[s][a]} : feed' = [feed EXCEPT ![s][a] = e]
  BY DEF Edit
<1>2. feed'[s][a] = e /\ \A r \in Sources \ {s} : feed'[r] = feed[r]
  BY <1>1 DEF TypeOK, Pages
<1>3. feed'[s] # feed[s]
  BY <1>1, <1>2
<1>4. current' = [r \in Sources |-> current[r] /\ feed'[r] = feed[r]]
  <2>1. current' = [current EXCEPT ![s] = FALSE] /\ current \in [Sources -> BOOLEAN]
    BY DEF Edit, TypeOK
  <2>2. \A r \in Sources : current'[r] = (current[r] /\ feed'[r] = feed[r])
    BY <1>2, <1>3, <2>1
  <2>3. current' = [r \in Sources |-> current'[r]]
    BY <2>1
  <2> QED BY <2>2, <2>3
<1> QED BY <1>4 DEF Edit, TypeOK, Room!Publish

\* Storing a page is reading the source.
LEMMA RecordReads ==
  ASSUME TypeOK, TypeOK', PageInv, FreshInv, NothingSkipped, NEW s \in Sources, Record(s)
  PROVE  Room!Read(s)
<1>1. scan.page = feed[s] /\ Room!News(s) = Observed(s)
  BY NewsObserved DEF Record, FreshInv
<1>2. raw' = [raw EXCEPT ![s] = [a \in Articles |->
        IF a \in Room!News(s) THEN feed[s][a] ELSE raw[s][a]]]
  BY <1>1 DEF Record
<1>3. item' = [a \in Articles |-> IF a \in Room!News(s) THEN feed[s][a].text ELSE item[a]]
  <2>1. item' = [a \in Articles |-> IF a \in Moved(s) THEN scan.page[a].text ELSE item[a]]
    BY DEF Record
  <2>2. \A a \in Articles : a \in Observed(s) /\ a \notin Moved(s) => item[a] = scan.page[a].text
    BY DEF Moved
  <2>3. \A a \in Articles : a \in Moved(s) => a \in Observed(s)
    BY DEF Moved
  <2> QED BY <1>1, <2>1, <2>2, <2>3
<1>4. \A a \in Articles : item'[a] # item[a] <=> a \in Moved(s)
  BY DEF Record, Moved
<1>5. ASSUME NEW t \in Stories
      PROVE  IF Room!Changed(t) = {} THEN revision'[t] = revision[t]
                                     ELSE revision'[t] > revision[t]
  <2>1. revision'[t] = revision[t] + Grown(s, t) /\ revision[t] \in Nat
    BY DEF Record, TypeOK
  <2>2. CASE Room!Changed(t) = {}
    <3>1. \A a \in Moved(s) : StoryOf[a] # t
      BY <1>4, <2>2 DEF Room!Changed, Moved, Observed, Incremental
    <3> QED BY <2>1, <2>2, <3>1, GrownNat
  <2>3. CASE Room!Changed(t) # {}
    <3>1. PICK a \in Moved(s) : StoryOf[a] = t
      BY <1>4, <2>3 DEF Room!Changed
    <3> QED BY <2>1, <2>3, <3>1, GrownNat
  <2> QED BY <2>2, <2>3
<1>6. revision' \in [Stories -> Nat] /\ feed' = feed
  BY DEF Record, TypeOK
<1>7. health' = [health EXCEPT ![s] = "healthy"] /\ current' = [current EXCEPT ![s] = TRUE]
  BY DEF Record
<1> QED BY <1>2, <1>3, <1>5, <1>6, <1>7 DEF Room!Read

\* Every step publishes, doubts, reads a whole page, or is not seen in the newsroom.
LEMMA RoomStep ==
  TypeOK /\ TypeOK' /\ CollectorInv /\ [Next]_vars => [Room!Next]_(Room!vars)
<1> SUFFICES ASSUME TypeOK, TypeOK', PageInv, FreshInv, NothingSkipped, [Next]_vars
             PROVE  [Room!Next]_(Room!vars)
  BY DEF CollectorInv
<1>1. ASSUME NEW s \in Sources, Record(s) PROVE Room!Next
  BY <1>1, RecordReads DEF Room!Next
<1>2. ASSUME NEW s \in Sources, NEW a \in Articles, Edit(s, a) PROVE Room!Next
  BY <1>2, EditPublishes DEF Room!Next
<1>3. ASSUME NEW s \in Sources, Toggle(s) \/ \E immediate \in BOOLEAN : Failed(s, immediate)
      PROVE  Room!Next
  BY <1>3, DoubtStep DEF Room!Next
<1>4. CASE UNCHANGED <<feed, stored, health, current>>
  BY <1>4 DEF Room!vars
<1> QED BY <1>1, <1>2, <1>3, <1>4, StoredStep, FeedStep, HealthStep

-----------------------------------------------------------------------------
(* What is said about the network                                          *)

\* Whatever counts against a source besides the network has been seen.
LEMMA SeenStep == TypeOK /\ SeenInv /\ [Next]_vars => SeenInv'
<1> SUFFICES ASSUME TypeOK, SeenInv, [Next]_vars PROVE SeenInv'
  OBVIOUS
<1> USE DEF SeenInv
<1>1. scan \in Scans
  BY DEF TypeOK
<1>2. ASSUME NEW s \in Sources, Loop(s) PROVE SeenInv'
  <2>1. CASE Pass(s)
    BY <1>1, <2>1 DEF Pass, Scans
  <2>2. CASE Answer(s)
    BY <1>1, <2>2 DEF Answer, Scans
  <2>3. CASE Unreachable(s)
    BY <1>1, <2>3 DEF Unreachable, Tries, Scans
  <2>4. CASE Fails(s)
    BY <1>1, <2>4 DEF Fails, Scans
  <2>5. CASE Record(s)
    BY <1>1, <2>5 DEF Record, Scans
  <2> QED BY <1>2, <2>1, <2>2, <2>3, <2>4, <2>5 DEF Loop
<1>3. CASE Cut
  BY <1>1, <1>3 DEF Cut, Scans
<1>4. CASE LoopEnds
  BY <1>1, <1>4 DEF LoopEnds, Goto, Offline, Scans
<1>5. ASSUME NEW s \in Sources, SettleOne(s) PROVE SeenInv'
  BY <1>1, <1>5 DEF SettleOne, Scans
<1>6. CASE StartScan \/ Die
  BY <1>6, StartedScan, IdleScan DEF Die
<1>7. CASE Settled \/ Network
  <2>1. scan' = Idle \/ \E p \in Places \ {"record", "settle"} : scan' = [scan EXCEPT !.at = p]
    BY <1>7 DEF Settled, Network, Activate, TellOffline, MarkAlerted, TellOnline, Deactivate,
                ClearAlerted, Goto, Places
  <2>2. CASE scan' = Idle
    BY <2>2 DEF Idle
  <2>3. ASSUME NEW p \in Places \ {"record", "settle"}, scan' = [scan EXCEPT !.at = p] PROVE SeenInv'
    BY <1>1, <2>3 DEF Scans
  <2> QED BY <2>1, <2>2, <2>3
<1>8. CASE World \/ UNCHANGED vars
  BY <1>8 DEF World, Edit, GoOffline, GoOnline, Toggle, vars
<1> QED BY <1>2, <1>3, <1>4, <1>5, <1>6, <1>7, <1>8 DEF Next, Scanning, Verdict

\* Only an error of a source's own, or a verdict, counts against a source.
LEMMA SparedStep ==
  ASSUME TypeOK, SeenInv, [Next]_vars, NEW s \in Sources, Worse(s)
  PROVE  scan'.seen \/ scan.cut
<1>1. streak[s] \in Nat /\ scan \in Scans
  BY DEF TypeOK
<1>2. ASSUME NEW r \in Sources, Loop(r) PROVE scan'.seen \/ scan.cut
  <2>1. CASE Pass(r) \/ Answer(r) \/ Unreachable(r)
    BY <1>1, <2>1 DEF Pass, Answer, Unreachable, Worse
  <2>2. CASE Fails(r)
    BY <1>1, <2>2 DEF Fails, Scans
  <2>3. CASE Record(r)
    <3>1. streak'[s] \in {streak[s], 0} /\ health'[s] \in {health[s], "healthy"}
      BY <2>3 DEF Record, TypeOK
    <3> QED BY <1>1, <3>1 DEF Worse
  <2> QED BY <1>2, <2>1, <2>2, <2>3 DEF Loop
<1>3. ASSUME NEW r \in Sources, SettleOne(r) PROVE scan'.seen \/ scan.cut
  BY <1>1, <1>3 DEF SettleOne, SeenInv, Scans
<1>4. ASSUME NEW r \in Sources, Toggle(r) PROVE FALSE
  <2>1. streak'[s] = streak[s] /\ health'[s] \in {health[s], "paused", "pending"}
    BY <1>4 DEF Toggle, TypeOK
  <2> QED BY <1>1, <2>1 DEF Worse
<1>5. ASSUME UNCHANGED <<health, streak>> PROVE FALSE
  BY <1>1, <1>5 DEF Worse
<1>6. ASSUME LoopEnds \/ Settled \/ Network \/ StartScan \/ Cut \/ Die \/ UNCHANGED vars
      PROVE  UNCHANGED <<health, streak>>
  BY <1>6 DEF LoopEnds, Settled, Network, Activate, TellOffline, MarkAlerted, TellOnline, Deactivate,
              ClearAlerted, StartScan, Start, Cut, Die, vars
<1>7. ASSUME World PROVE UNCHANGED <<health, streak>> \/ \E r \in Sources : Toggle(r)
  BY <1>7 DEF World, Edit, GoOffline, GoOnline
<1> QED BY <1>2, <1>3, <1>4, <1>5, <1>6, <1>7 DEF Next, Scanning, Verdict

\* The flags and the newest notice go together, or a death is owed for.
LEMMA NoticeStep == TypeOK /\ NoticeInv /\ [Next]_vars => NoticeInv'
<1> SUFFICES ASSUME TypeOK, NoticeInv, [Next]_vars PROVE NoticeInv'
  OBVIOUS
<1>1. /\ scan \in Scans /\ repeats \in Nat /\ used["death"] \in Nat
      /\ active \in BOOLEAN /\ alerted \in BOOLEAN /\ last \in {"offline", "online"}
  BY DEF TypeOK, Events
<1>2. scan.at \in Places
  BY <1>1 DEF Scans
<1> DEFINE Early == {"idle", "next", "record", "settle", "offline"}
<1>3. ASSUME scan.at \in Early, scan'.at \in Early, UNCHANGED <<outage, notices>>,
             used'["death"] >= used["death"], used'["death"] \in Nat
      PROVE  NoticeInv'
  BY <1>1, <1>3 DEF NoticeInv, NoticesAlternate, Clean, Owed
<1>4. \A e \in Events : Spend(e) => used'["death"] \in Nat /\ used'["death"] >= used["death"]
  BY <1>1 DEF Spend, TypeOK, Events
<1>5. ASSUME NEW s \in Sources, Loop(s) PROVE NoticeInv'
  <2>1. scan.at \in Early /\ scan'.at \in Early
    BY <1>1, <1>5 DEF Loop, Pass, Answer, Unreachable, Fails, Record, Tries, Scans
  <2>2. UNCHANGED <<outage, notices>>
    BY <1>5 DEF Loop, Pass, Answer, Unreachable, Fails, Failed, Record
  <2>3. used'["death"] \in Nat /\ used'["death"] >= used["death"]
    BY <1>1, <1>4, <1>5 DEF Loop, Pass, Answer, Unreachable, Fails, Record, Events
  <2> QED BY <1>3, <2>1, <2>2, <2>3
<1>6. ASSUME Cut \/ StartScan \/ LoopEnds \/ \E s \in Sources : SettleOne(s) PROVE NoticeInv'
  <2>1. scan.at \in Early /\ scan'.at \in Early
    BY <1>1, <1>6 DEF Cut, StartScan, Start, LoopEnds, SettleOne, Goto, Idle, Scans
  <2>2. UNCHANGED <<outage, notices>>
    BY <1>6 DEF Cut, StartScan, Start, LoopEnds, SettleOne, Failed
  <2>3. Spend("fault") \/ UNCHANGED used
    BY <1>6 DEF Cut, StartScan, Start, LoopEnds, SettleOne
  <2>4. used'["death"] \in Nat /\ used'["death"] >= used["death"]
    BY <1>1, <1>4, <2>3 DEF Events
  <2> QED BY <1>3, <2>1, <2>2, <2>4
<1>7. CASE Settled
  <2>1. CASE scan.ok /\ active
    <3>1. scan'.at = "back"
      BY <1>1, <1>7, <2>1 DEF Settled, Scans
    <3> QED BY <1>1, <1>7, <2>1, <3>1 DEF Settled, NoticeInv, NoticesAlternate, Clean, Owed
  <2>2. CASE ~(scan.ok /\ active)
    <3>1. scan'.at = "idle"
      BY <1>7, <2>2 DEF Settled, Idle
    <3> QED BY <1>1, <1>3, <1>7, <3>1 DEF Settled
  <2> QED BY <2>1, <2>2
<1>8. CASE Activate
  <2>1. CASE alerted
    <3>1. scan'.at = "idle"
      BY <1>8, <2>1 DEF Activate, Idle
    <3> QED BY <1>1, <1>8, <2>1, <3>1 DEF Activate, NoticeInv, NoticesAlternate, Clean, Owed
  <2>2. CASE ~alerted
    <3>1. scan'.at = "alert"
      BY <1>1, <1>8, <2>2 DEF Activate, Scans
    <3> QED BY <1>1, <1>8, <2>2, <3>1 DEF Activate, NoticeInv, NoticesAlternate, Clean, Owed
  <2> QED BY <2>1, <2>2
<1>9. CASE TellOffline
  <2>1. scan'.at = "alerted"
    BY <1>1, <1>9 DEF TellOffline, Goto, Scans
  <2> QED BY <1>1, <1>9, <2>1 DEF TellOffline, Notice, NoticeInv, NoticesAlternate, Owed
<1>10. CASE MarkAlerted
  <2>1. scan'.at = "idle"
    BY <1>10 DEF MarkAlerted, Idle
  <2> QED BY <1>1, <1>10, <2>1 DEF MarkAlerted, NoticeInv, NoticesAlternate, Clean, Owed
<1>11. CASE TellOnline
  <2>1. scan'.at = "inactive"
    BY <1>1, <1>11 DEF TellOnline, Goto, Scans
  <2> QED BY <1>1, <1>11, <2>1 DEF TellOnline, Notice, NoticeInv, NoticesAlternate, Owed
<1>12. CASE Deactivate
  <2>1. scan'.at = "unalerted"
    BY <1>1, <1>12 DEF Deactivate, Goto, Scans
  <2> QED BY <1>1, <1>12, <2>1 DEF Deactivate, NoticeInv, NoticesAlternate, Owed
<1>13. CASE ClearAlerted
  <2>1. scan'.at = "idle"
    BY <1>13 DEF ClearAlerted, Idle
  <2> QED BY <1>1, <1>13, <2>1 DEF ClearAlerted, NoticeInv, NoticesAlternate, Clean, Owed
<1>14. CASE Die
  <2>1. scan'.at = "idle" /\ UNCHANGED <<outage, notices>>
    BY <1>14 DEF Die, Idle
  <2>2. used'["death"] = used["death"] + 1
    BY <1>14 DEF Die, Spend, TypeOK, Events
  <2>3. repeats <= used["death"]
    BY DEF NoticeInv, NoticesAlternate
  <2>4. repeats' < used'["death"]
    BY <1>1, <2>1, <2>2, <2>3
  <2> QED BY <1>1, <2>1, <2>4, <2>2 DEF NoticeInv, NoticesAlternate, Owed
<1>15. CASE World \/ UNCHANGED vars
  <2>1. UNCHANGED <<scan, outage, notices>>
    BY <1>15 DEF World, Edit, GoOffline, GoOnline, Toggle, vars
  <2>2. used'["death"] \in Nat /\ used'["death"] >= used["death"]
    BY <1>1, <1>4, <1>15 DEF World, Edit, GoOffline, GoOnline, Toggle, vars, Events
  <2> QED BY <1>1, <2>1, <2>2 DEF NoticeInv, NoticesAlternate, Clean, Owed
<1> QED BY <1>5, <1>6, <1>7, <1>8, <1>9, <1>10, <1>11, <1>12, <1>13, <1>14, <1>15
        DEF Next, Scanning, Verdict, Network

-----------------------------------------------------------------------------
(* The theorems                                                            *)

\* What the properties rest on holds at every step.
THEOREM CollectorCorrect == Spec => [](TypeOK /\ CollectorInv)
<1>1. Init => TypeOK /\ CollectorInv
  BY InitHolds
<1>2. TypeOK /\ CollectorInv /\ [Next]_vars => (TypeOK /\ CollectorInv)'
  <2> SUFFICES ASSUME TypeOK, CollectorInv, [Next]_vars PROVE TypeOK' /\ CollectorInv'
    OBVIOUS
  <2>1. TypeOK'
    BY TypeStep
  <2>2. PageInv' /\ FreshInv' /\ SeenInv' /\ NoticeInv'
    BY PageStep, FreshStep, SeenStep, NoticeStep DEF CollectorInv
  <2>3. NothingSkipped' /\ ShownIsStored'
    BY SkipStep, ShownStep DEF CollectorInv
  <2> QED BY <2>1, <2>2, <2>3 DEF CollectorInv
<1> QED BY <1>1, <1>2, PTL DEF Spec

\* collector.py:700-1007: a validator is stored only together with its page, so
\* that no later 304 hides an entry, for every number of sources and failures.
THEOREM NothingSkippedHolds == Spec => []NothingSkipped
<1>1. TypeOK /\ CollectorInv => NothingSkipped
  BY DEF CollectorInv
<1> QED BY <1>1, CollectorCorrect, PTL

\* collector.py:1668-1760: a story shows what some source's newest entry says.
THEOREM ShownIsStoredHolds == Spec => []ShownIsStored
<1>1. TypeOK /\ CollectorInv => ShownIsStored
  BY DEF CollectorInv
<1> QED BY <1>1, CollectorCorrect, PTL

\* collector.py:262-305: a repeated notice about the network is owed to a death.
THEOREM NoticesAlternateHolds == Spec => []NoticesAlternate
<1>1. TypeOK /\ CollectorInv => NoticesAlternate
  BY DEF CollectorInv, NoticeInv
<1> QED BY <1>1, CollectorCorrect, PTL

\* collector.py:731-735, 1387-1460: a story that changes has a new revision, and
\* an entry that comes back under another id changes none.
THEOREM StoryFollowsHolds == Spec => StoryFollows
<1>1. TypeOK /\ CollectorInv /\ [Next]_vars =>
        [\A a \in Articles : item'[a] # item[a] =>
           /\ revision'[StoryOf[a]] > revision[StoryOf[a]]
           /\ \E s \in Sources : /\ raw'[s][a] # raw[s][a]
                                 /\ raw[s][a] # None => raw'[s][a].id = raw[s][a].id]_vars
  BY FollowsStep
<1> QED BY <1>1, CollectorCorrect, PTL DEF Spec, StoryFollows

\* collector.py:164-231, :700-1007: with its validators, failures and deaths the
\* collector implements Newsroom: a step that calls a source healthy or renews its
\* last success stores all that the source publishes, also after a 304.
THEOREM NewsroomKept == Spec => KeepsNewsroom
<1>1. Init => Room!Init
  BY DEF Init, Blank, Room!Init
<1>2. TypeOK /\ TypeOK' /\ CollectorInv /\ [Next]_vars => [Room!Next]_(Room!vars)
  BY RoomStep
<1> QED
  BY <1>1, <1>2, CollectorCorrect, PTL DEF Spec, KeepsNewsroom, Room!Spec

\* collector.py:234-249: an outage of the Mac counts against no source, unless
\* the deadline cut the scan off.
THEOREM SparedOfflineHolds == Spec => SparedOffline
<1>1. TypeOK /\ CollectorInv /\ [Next]_vars =>
        [(\E s \in Sources : Worse(s)) => scan'.seen \/ scan.cut]_vars
  BY SparedStep DEF CollectorInv
<1> QED BY <1>1, CollectorCorrect, PTL DEF Spec, SparedOffline
=============================================================================
