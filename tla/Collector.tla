------------------------------ MODULE Collector ------------------------------
(***************************************************************************)
(* One scan after the other: collector.py, source_registry.py              *)
(* The worker that has the scan lock (module ScanWorker) fetches every     *)
(* enabled source that is due, in a fixed order, stores what is new in one *)
(* transaction for each source, and then decides whether the sources or    *)
(* the Mac were unreachable.  An outage is announced and ended in single   *)
(* statements, and the process may die between any two of them.            *)
(*                                                                         *)
(* A feed is a page: the entry of each article, known by its canonical     *)
(* URL, is the id the publisher gave it and its editorial text.  Dates,    *)
(* metrics and relevance are left out; every article here is relevant.     *)
(***************************************************************************)
EXTENDS Naturals, FiniteSets

CONSTANTS
  NSources,   \* sources in the order of family and id
  Tagging,    \* sources whose responses carry a validator
  Articles, Ids, Texts, Stories,
  StoryOf,    \* the story of an article: articles of like headlines share one
  Threshold,  \* failures in a row that degrade a source: 3
  Limit,      \* bound: events of each kind that Spend counts
  MaxEvents,  \* bound: all of them
  None

Events == {"edit", "toggle", "outage", "fault", "death"}

ASSUME CollectorAssumption ==
  /\ NSources \in Nat /\ Threshold \in Nat \ {0}
  /\ IsFiniteSet(Articles)
  /\ StoryOf \in [Articles -> Stories]
  /\ Limit \in [Events -> Nat] /\ MaxEvents \in Nat

Sources == 1..NSources
Entries == [id : Ids, text : Texts]
Pages   == [Articles -> Entries \cup {None}]

ASSUME NoneAssumption == None \notin Entries /\ None \notin Pages /\ None \notin Texts

Blank == [a \in Articles |-> None]

VARIABLES
  feed,     \* what each source publishes
  online,   \* the Mac has a network
  enabled, health, streak,  \* source_state
  current,  \* its last_success_at is younger than what the source publishes
  etag,     \* the validator stored for a source: the page it stands for
  raw,      \* raw_observation: the entry stored for a source and an article
  item,     \* source_item.title and passage, one row for an article of a story
  revision, \* story_revision, 0 while there is no such story
  active, alerted,  \* network_offline_active, network_offline_alerted
  scan,     \* the scan under way
  last,     \* history: the newest notice about the network
  repeats,  \* history: notices that said what the one before them had said
  used      \* events of each kind so far

external == <<feed, online>>
sources  == <<enabled, health, streak, current>>
stored   == <<etag, raw, item, revision>>
outage   == <<active, alerted>>
notices  == <<last, repeats>>
vars     == <<external, sources, stored, outage, scan, notices, used>>

Places == {"idle", "next", "record", "settle",
           "offline", "alert", "alerted", "back", "inactive", "unalerted"}

\* The local variables of scan(); seen is a history of the network.
Scans == [at : Places,
          todo : SUBSET Sources,   \* sources[index:]
          due : SUBSET Sources,
          page : Pages,            \* fetched
          body : BOOLEAN,          \* not fetched.not_modified
          lost : SUBSET Sources,   \* network_failures
          ok : BOOLEAN,            \* successes > 0
          bad : BOOLEAN,           \* failures > 0
          cut : BOOLEAN,           \* backlog > 0
          seen : BOOLEAN]          \* the Mac was online when a source was tried

Idle == [at |-> "idle", todo |-> {}, due |-> {}, page |-> Blank, body |-> FALSE,
         lost |-> {}, ok |-> FALSE, bad |-> FALSE, cut |-> FALSE, seen |-> FALSE]

TypeOK ==
  /\ feed \in [Sources -> Pages] /\ online \in BOOLEAN
  /\ enabled \in [Sources -> BOOLEAN]
  /\ health \in [Sources -> {"pending", "healthy", "degraded", "paused"}]
  /\ streak \in [Sources -> Nat] /\ current \in [Sources -> BOOLEAN]
  /\ etag \in [Sources -> Pages \cup {None}]
  /\ raw \in [Sources -> Pages]
  /\ item \in [Articles -> Texts \cup {None}]
  /\ revision \in [Stories -> Nat]
  /\ active \in BOOLEAN /\ alerted \in BOOLEAN
  /\ scan \in Scans
  /\ last \in {"offline", "online"} /\ repeats \in Nat
  /\ used \in [Events -> Nat]

Init ==
  /\ feed \in [Sources -> Pages] /\ online = TRUE
  /\ enabled = [s \in Sources |-> TRUE]
  /\ health = [s \in Sources |-> "pending"] /\ streak = [s \in Sources |-> 0]
  /\ current = [s \in Sources |-> FALSE]
  /\ etag = [s \in Sources |-> None]
  /\ raw = [s \in Sources |-> Blank]
  /\ item = [a \in Articles |-> None] /\ revision = [t \in Stories |-> 0]
  /\ active = FALSE /\ alerted = FALSE
  /\ scan = Idle
  /\ last = "online" /\ repeats = 0
  /\ used = [e \in Events |-> 0]

Spent == used["edit"] + used["toggle"] + used["outage"] + used["fault"] + used["death"]

Spend(e) ==
  /\ used[e] < Limit[e] /\ Spent < MaxEvents
  /\ used' = [used EXCEPT ![e] = @ + 1]

-----------------------------------------------------------------------------
(* The world around the collector                                          *)

\* A publisher adds, changes, republishes or drops an entry.  A scan reads a page
\* once: a change while one is under way is as good as one before it or after it.
Edit(s, a) ==
  /\ scan.at = "idle" /\ Spend("edit")
  /\ \E e \in (Entries \cup {None}) \ {feed[s][a]} : feed' = [feed EXCEPT ![s][a] = e]
  /\ current' = [current EXCEPT ![s] = FALSE]
  /\ UNCHANGED <<online, enabled, health, streak, stored, outage, scan, notices>>

\* The network matters to a scan only while it tries its sources.
GoOffline ==
  /\ online /\ scan.at \in {"idle", "next"} /\ Spend("outage")
  /\ online' = FALSE
  /\ UNCHANGED <<feed, sources, stored, outage, scan, notices>>

GoOnline ==
  /\ ~online
  /\ online' = TRUE
  /\ UNCHANGED <<feed, sources, stored, outage, scan, notices, used>>

\* set_source_enabled() takes no notice of the scan.
Toggle(s) ==
  /\ Spend("toggle")
  /\ enabled' = [enabled EXCEPT ![s] = ~@]
  /\ health' = [health EXCEPT ![s] = IF enabled[s] THEN "paused" ELSE "pending"]
  /\ UNCHANGED <<external, streak, current, stored, outage, scan, notices>>

-----------------------------------------------------------------------------
(* scan(): the loop over the sources                                       *)

Listed == {s \in Sources : enabled[s]}
Goto(place) == scan' = [scan EXCEPT !.at = place]

\* Mutant of Start: a degraded source is left alone.
StartHealthy(due) ==
  /\ scan.at = "idle" /\ due \subseteq {s \in Listed : health[s] # "degraded"}
  /\ scan' = [Idle EXCEPT !.at = "next", !.todo = Listed, !.due = due]
  /\ UNCHANGED <<external, sources, stored, outage, notices, used>>

\* A scheduled scan tries the sources whose minimum interval is over, which the
\* model leaves open; every other scan tries all of them.
Start(due) ==
  /\ scan.at = "idle" /\ due \subseteq Listed
  /\ scan' = [Idle EXCEPT !.at = "next", !.todo = Listed, !.due = due]
  /\ UNCHANGED <<external, sources, stored, outage, notices, used>>

Head(s) == s \in scan.todo /\ \A t \in scan.todo : s <= t
Tries(s) == scan.at = "next" /\ ~scan.cut /\ Head(s) /\ s \in scan.due

Pass(s) ==
  /\ scan.at = "next" /\ ~scan.cut /\ Head(s) /\ s \notin scan.due
  /\ scan' = [scan EXCEPT !.todo = @ \ {s}]
  /\ UNCHANGED <<external, sources, stored, outage, notices, used>>

\* The deadline passed before a source was tried, or while it was.
Cut ==
  /\ scan.at = "next" /\ ~scan.cut /\ scan.todo # {}
  /\ Spend("fault")
  /\ scan' = [scan EXCEPT !.cut = TRUE, !.seen = @ \/ online]
  /\ UNCHANGED <<external, sources, stored, outage, notices>>

\* A page that is the one the validator stands for is answered with 304.
Modified(s) == etag[s] # feed[s]

\* Mutant of Answer: the validator is stored as soon as it has come.
AnswerStores(s) ==
  /\ Tries(s) /\ online
  /\ scan' = [scan EXCEPT !.at = "record", !.page = feed[s], !.body = Modified(s), !.seen = TRUE]
  /\ etag' = [etag EXCEPT ![s] = feed[s]]
  /\ UNCHANGED <<external, sources, raw, item, revision, outage, notices, used>>

Answer(s) ==
  /\ Tries(s) /\ online
  /\ scan' = [scan EXCEPT !.at = "record", !.page = feed[s], !.body = Modified(s), !.seen = TRUE]
  /\ UNCHANGED <<external, sources, stored, outage, notices, used>>

\* NetworkUnavailable: of the Mac, or of this host.
Unreachable(s) ==
  /\ Tries(s)
  /\ IF online THEN Spend("fault") ELSE UNCHANGED used
  /\ scan' = [scan EXCEPT !.todo = @ \ {s}, !.lost = @ \cup {s}, !.seen = @ \/ online]
  /\ UNCHANGED <<external, sources, stored, outage, notices>>

\* _record_failure()
Failed(s, immediate) ==
  /\ streak' = [streak EXCEPT ![s] = @ + 1]
  /\ health' = [health EXCEPT ![s] =
       IF immediate \/ streak[s] + 1 >= Threshold THEN "degraded" ELSE "pending"]
  /\ UNCHANGED <<external, enabled, current, stored, outage, notices>>

\* Any other error: an unsafe or refused answer, a page that cannot be parsed,
\* a transaction that was rolled back.
Fails(s) ==
  /\ (Tries(s) /\ online) \/ (scan.at = "record" /\ Head(s))
  /\ Spend("fault")
  /\ \E immediate \in BOOLEAN : Failed(s, immediate)
  /\ scan' = [scan EXCEPT !.at = "next", !.todo = @ \ {s}, !.bad = TRUE, !.seen = TRUE,
                          !.page = Blank, !.body = FALSE]

\* Entries that are not stored as they are, whatever the age of their articles.
Incremental(s) ==
  {a \in Articles : scan.body /\ scan.page[a] # None /\ raw[s][a] # scan.page[a]}

\* if prior_row and prior_row["external_id"] != observation.external_id: continue
Observed(s) == {a \in Incremental(s) : raw[s][a] # None => raw[s][a].id = scan.page[a].id}

\* Articles whose row in source_item changes, and with it the story's signature.
Moved(s) == {a \in Observed(s) : item[a] # scan.page[a].text}

\* A story is created with its first article; every other change counts.
Grown(s, t) == Cardinality({a \in Moved(s) : StoryOf[a] = t})

\* The etag header of a response, if the source sends one.
Validator(s) == IF s \in Tagging THEN scan.page ELSE None

Record(s) ==
  /\ scan.at = "record" /\ Head(s)
  /\ raw' = [raw EXCEPT ![s] = [a \in Articles |->
       IF a \in Observed(s) THEN scan.page[a] ELSE raw[s][a]]]
  /\ item' = [a \in Articles |-> IF a \in Moved(s) THEN scan.page[a].text ELSE item[a]]
  /\ revision' = [t \in Stories |-> revision[t] + Grown(s, t)]
  /\ etag' = [etag EXCEPT ![s] = Validator(s)]
  /\ health' = [health EXCEPT ![s] = "healthy"]
  /\ streak' = [streak EXCEPT ![s] = 0]
  /\ current' = [current EXCEPT ![s] = TRUE]
  /\ scan' = [scan EXCEPT !.at = "next", !.todo = @ \ {s}, !.ok = TRUE,
                          !.page = Blank, !.body = FALSE]
  /\ UNCHANGED <<external, enabled, outage, notices, used>>

-----------------------------------------------------------------------------
(* scan(): what is said about the network                                  *)

\* Mutant of Offline: an outage that was announced is no outage any more.
OfflineOnce == scan.lost # {} /\ ~scan.ok /\ ~scan.bad /\ ~scan.cut /\ ~alerted

Offline == scan.lost # {} /\ ~scan.ok /\ ~scan.bad /\ ~scan.cut

\* if offline: ... else: ...
LoopEnds ==
  /\ scan.at = "next" /\ (scan.todo = {} \/ scan.cut)
  /\ Goto(IF Offline THEN "offline" ELSE "settle")
  /\ UNCHANGED <<external, sources, stored, outage, notices, used>>

\* One transaction for each source that could not be reached.
SettleOne(s) ==
  /\ scan.at = "settle" /\ s \in scan.lost /\ \A t \in scan.lost : s <= t
  /\ Failed(s, FALSE)
  /\ scan' = [scan EXCEPT !.lost = @ \ {s}, !.bad = TRUE]
  /\ UNCHANGED used

Settled ==
  /\ scan.at = "settle" /\ scan.lost = {}
  /\ scan' = IF scan.ok /\ active THEN [scan EXCEPT !.at = "back"] ELSE Idle
  /\ UNCHANGED <<external, sources, stored, outage, notices, used>>

Activate ==
  /\ scan.at = "offline"
  /\ active' = TRUE
  /\ scan' = IF alerted THEN Idle ELSE [scan EXCEPT !.at = "alert"]
  /\ UNCHANGED <<external, sources, stored, alerted, notices, used>>

Notice(what) ==
  /\ last' = what
  /\ repeats' = IF last = what THEN repeats + 1 ELSE repeats

TellOffline ==
  /\ scan.at = "alert"
  /\ Notice("offline") /\ Goto("alerted")
  /\ UNCHANGED <<external, sources, stored, outage, used>>

MarkAlerted ==
  /\ scan.at = "alerted"
  /\ alerted' = TRUE /\ scan' = Idle
  /\ UNCHANGED <<external, sources, stored, active, notices, used>>

TellOnline ==
  /\ scan.at = "back"
  /\ Notice("online") /\ Goto("inactive")
  /\ UNCHANGED <<external, sources, stored, outage, used>>

Deactivate ==
  /\ scan.at = "inactive"
  /\ active' = FALSE /\ Goto("unalerted")
  /\ UNCHANGED <<external, sources, stored, alerted, notices, used>>

\* Mutant of ClearAlerted: the second reset is forgotten.
KeepAlerted ==
  /\ scan.at = "unalerted"
  /\ scan' = Idle
  /\ UNCHANGED <<external, sources, stored, outage, notices, used>>

ClearAlerted ==
  /\ scan.at = "unalerted"
  /\ alerted' = FALSE /\ scan' = Idle
  /\ UNCHANGED <<external, sources, stored, active, notices, used>>

Die ==
  /\ scan.at # "idle" /\ Spend("death")
  /\ scan' = Idle
  /\ UNCHANGED <<external, sources, stored, outage, notices>>

-----------------------------------------------------------------------------
Loop(s)  == Pass(s) \/ Answer(s) \/ Unreachable(s) \/ Fails(s) \/ Record(s)
Verdict  == LoopEnds \/ (\E s \in Sources : SettleOne(s)) \/ Settled
Network  == Activate \/ TellOffline \/ MarkAlerted \/ TellOnline \/ Deactivate \/ ClearAlerted
Scanning == (\E s \in Sources : Loop(s)) \/ Verdict \/ Network
World    == (\E s \in Sources, a \in Articles : Edit(s, a)) \/ GoOffline \/ GoOnline
              \/ (\E s \in Sources : Toggle(s))

StartScan == \E due \in SUBSET Sources : Start(due)

Next == World \/ StartScan \/ Scanning \/ Cut \/ Die

\* launchd starts a scan every half hour, intervals pass, so that a source is due
\* again and again; a scan goes on, and an outage ends.  Nothing is asked of
\* publishers or of the owner.
Fairness ==
  /\ WF_vars(Scanning) /\ WF_vars(GoOnline)
  /\ \A s \in Sources : SF_vars(\E due \in SUBSET Sources : s \in due /\ Start(due))

Spec     == Init /\ [][Next]_vars
FairSpec == Spec /\ Fairness

-----------------------------------------------------------------------------
(* Properties                                                              *)

\* A source that republished an article under another id keeps the first entry.
Kept(s, a, e) == e = None \/ raw[s][a] = e \/ (raw[s][a] # None /\ raw[s][a].id # e.id)

\* The validator of a page is stored only together with all of the page: a later
\* 304 never hides an entry, whatever failed, was cut off or died in between.
NothingSkipped ==
  \A s \in Sources : etag[s] # None => \A a \in Articles : Kept(s, a, etag[s][a])

\* What a story shows of an article is what some source's newest stored entry
\* says, and an article some source has stored belongs to a story.
ShownIsStored ==
  \A a \in Articles :
    /\ item[a] # None => \E s \in Sources : raw[s][a] # None /\ raw[s][a].text = item[a]
    /\ (\E s \in Sources : raw[s][a] # None) => item[a] # None /\ revision[StoryOf[a]] > 0

\* A story that shows something else has another revision, and nothing but an
\* entry new to its source or changed under its first id moves it: a headline
\* that comes back under another id replays neither story nor evidence.
StoryFollows ==
  [][\A a \in Articles : item'[a] # item[a] =>
       /\ revision'[StoryOf[a]] > revision[StoryOf[a]]
       /\ \E s \in Sources : /\ raw'[s][a] # raw[s][a]
                             /\ raw[s][a] # None => raw'[s][a].id = raw[s][a].id]_vars

\* A step that calls a source healthy, or renews its last success, stores everything
\* the source publishes that is new or changed, also if the answer was 304 and no
\* page came; and nothing else changes entries, articles or stories, whatever fails,
\* is cut off or dies (collector.py:164-231, :700-1007).
Room == INSTANCE Newsroom WITH known <- raw, shown <- item

KeepsNewsroom == Room!Spec

\* A scan that never had a network advances no streak and degrades no source,
\* unless the deadline cut it off before it had tried them all.
Worse(s) == streak'[s] > streak[s] \/ (health'[s] = "degraded" /\ health[s] # "degraded")
SparedOffline ==
  [][(\E s \in Sources : Worse(s)) => scan'.seen \/ scan.cut]_vars

\* Notices of an outage and of its end alternate; every repetition is owed to a
\* death between two of the statements that announce and reset it.
NoticesAlternate == repeats <= used["death"]

\* What an enabled source publishes for good is stored in the end, through
\* outages, failures, scans cut off and deaths.
Collected(s) == \A a \in Articles : Kept(s, a, feed[s][a])
EverythingCollected == \A s \in Sources : <>[](enabled[s] => Collected(s))

-----------------------------------------------------------------------------
(* What the properties rest on                                             *)

\* A 304 was given for the very page the validator stands for.
PageInv ==
  \A s \in Sources :
    scan.at = "record" /\ Head(s) /\ ~scan.body => etag[s] = scan.page

\* The page a scan stores is the one its source still publishes.
FreshInv == \A s \in Sources : scan.at = "record" /\ Head(s) => scan.page = feed[s]

\* Sources are judged one by one only if something besides the Mac's network
\* can be at fault.
SeenInv ==
  /\ scan.at = "record" \/ scan.ok \/ scan.bad => scan.seen \/ scan.cut
  /\ scan.at = "settle" /\ scan.lost # {} => scan.seen \/ scan.cut

\* Between scans the two flags agree with the newest notice, or a death is owed
\* for; inside the announcements one of them is ahead.
Clean == active = alerted /\ last = (IF active THEN "offline" ELSE "online")
Owed  == repeats < used["death"]
NoticeInv ==
  /\ NoticesAlternate
  /\ scan.at \in {"idle", "next", "record", "settle", "offline"} => Clean \/ Owed
  /\ scan.at = "alert" => active /\ (last = "online" \/ Owed)
  /\ scan.at = "alerted" => active /\ last = "offline"
  /\ scan.at = "back" => last = "offline" \/ Owed
  /\ scan.at = "inactive" => last = "online"
  /\ scan.at = "unalerted" => ~active /\ last = "online"

CollectorInv == PageInv /\ FreshInv /\ SeenInv /\ NoticeInv /\ NothingSkipped /\ ShownIsStored
=============================================================================
