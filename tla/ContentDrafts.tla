---------------------------- MODULE ContentDrafts ----------------------------
(***************************************************************************)
(* "Create content" for one story: services.py, research.py, assistance.py *)
(* A request is a work item of its own, a source search it waits for, and  *)
(* an editable shell the owner may finish by hand.  A background thread    *)
(* searches and then drafts; `assistance run-pending` may draft as well.   *)
(* Drafting is a claim with a lease of six minutes, a turn of the model,   *)
(* and an outcome stored if the claim is still the newest.                 *)
(*                                                                         *)
(* Every transaction and every single statement is a step.  Checks made    *)
(* before a transaction and again inside it are modelled by the latter.    *)
(***************************************************************************)
EXTENDS Naturals, FiniteSets

CONSTANTS
  NItems,       \* requests the model makes, one after the other
  Cli,          \* calls of `assistance run-pending`
  MaxVersions,  \* bound: versions up to which the owner edits a Current draft
  MaxViews,     \* bound: pages that found no draft and are about to make a shell
  MaxDeaths     \* bound: threads that die

ASSUME ConstantsAssumption ==
  /\ NItems \in Nat /\ MaxVersions \in Nat /\ MaxViews \in Nat /\ MaxDeaths \in Nat
  /\ Cli \cap (1..NItems) = {}

Items   == 1..NItems
Workers == Items \cup Cli   \* the thread of each request, and the calls

\* The statuses that save_draft() and create_content() tell apart.
Underway == {"waiting", "queued", "generating"}
Settled  == {"completed", "cancelled"}
Statuses == {"none", "failed"} \cup Underway \cup Settled

VARIABLES
  work,      \* status of each content item
  due,       \* its available_at is NULL or past: the lease, or the delay, is over
  attempts,  \* its attempt_count
  search,    \* status of the search item it names, and of the research attempt
  drafts,    \* versions of the draft that are Current or an Editable Shell
  version,   \* MAX(version)
  archived,  \* the story is archived or withdrawn
  views,     \* items whose page found no draft and did not yet make the shell
  results,   \* accepted assistance_result rows of each item
  at,        \* where each worker is
  item,      \* the item it works on, 0 for none
  seen,      \* attempt_count of the row it claimed
  revived,   \* history: items put back in the queue after they had failed
  deaths     \* history: threads that died

rows   == <<work, due, attempts, search>>
story  == <<drafts, version, archived>>
worker == <<at, item, seen>>
vars   == <<rows, story, views, results, worker, revived, deaths>>

Drafts == [version : Nat, status : {"Current", "Editable Shell"}, item : Items]

\* Where a request's thread is before it drafts, and any worker while it does.
Searching == {"shell", "look", "search"}
Drafting  == {"start", "ensure", "defer", "claim", "turn", "retry"}
Places    == {"idle", "requeue", "done"} \cup Searching \cup Drafting

TypeOK ==
  /\ work \in [Items -> Statuses]
  /\ due \in [Items -> BOOLEAN]
  /\ attempts \in [Items -> Nat]
  /\ search \in [Items -> {"none", "queued", "running", "completed"}]
  /\ drafts \in SUBSET Drafts
  /\ version \in Nat
  /\ archived \in BOOLEAN
  /\ views \in SUBSET Items
  /\ results \in [Items -> Nat]
  /\ at \in [Workers -> Places]
  /\ item \in [Workers -> Items \cup {0}]
  /\ seen \in [Workers -> Nat]
  /\ revived \in SUBSET Items
  /\ deaths \in Nat

Init ==
  /\ work = [i \in Items |-> "none"]
  /\ due = [i \in Items |-> FALSE]
  /\ attempts = [i \in Items |-> 0]
  /\ search = [i \in Items |-> "none"]
  /\ drafts = {} /\ version = 0
  /\ archived = FALSE
  /\ views = {}
  /\ results = [i \in Items |-> 0]
  /\ at = [w \in Workers |-> "idle"]
  /\ item = [w \in Workers |-> 0]
  /\ seen = [w \in Workers |-> 0]
  /\ revived = {}
  /\ deaths = 0

-----------------------------------------------------------------------------
(* The owner: create_content(), draft_status(), save_draft(), review().    *)

Goes(w, place)  == at' = [at EXCEPT ![w] = place]
Becomes(i, now) == work' = [work EXCEPT ![i] = now]

\* The same with available_at = NULL, or now.
Rests(i, now) == Becomes(i, now) /\ due' = [due EXCEPT ![i] = TRUE]

Drafted(status) == {d \in drafts : d.status = status}
ShellOf(i)      == {d \in Drafted("Editable Shell") : d.item = i}

\* The next version replaces some of those that are open.
Replace(old, status, i) ==
  /\ version' = version + 1
  /\ drafts' = (drafts \ old) \cup {[version |-> version + 1, status |-> status, item |-> i]}

\* Mutant of Busy: an item the model is working on is forgotten in the list.
BusyInQueue(i) == work[i] \in {"waiting", "queued"}

\* SELECT 1 FROM work_item WHERE ... status IN ('pending', 'queued', 'waiting', ...)
Busy(i) == work[i] \in Underway

\* The first transaction: a search, and the item that waits for it.
Create(i) ==
  /\ work[i] = "none" /\ \A j \in Items : j < i => work[j] # "none"
  /\ ~archived /\ \A j \in Items : ~Busy(j)
  /\ Rests(i, "waiting")
  /\ search' = [search EXCEPT ![i] = "queued"]
  /\ Goes(i, "shell") /\ item' = [item EXCEPT ![i] = i]
  /\ UNCHANGED <<attempts, story, views, results, seen, revived, deaths>>

\* _create_editable_draft_shell(): an item that has begun or ended gets none.
Shellable(i) == work[i] \in {"waiting", "queued", "failed"}

MakeShell(i) ==
  IF Shellable(i)
  THEN Replace(drafts, "Editable Shell", i)
  ELSE UNCHANGED <<drafts, version>>

\* The second transaction of create_content(), and its thread starts; without a
\* shell (the owner saw one before, and finished it) there is a RuntimeError instead.
Shell(i) ==
  /\ at[i] = "shell" /\ MakeShell(i)
  /\ Goes(i, IF Shellable(i) THEN "look" ELSE "done")
  /\ UNCHANGED <<rows, archived, views, results, item, seen, revived, deaths>>

\* draft_status(), when a page shows a request of a story that has no draft yet ...
View(i) ==
  /\ version = 0 /\ work[i] \in {"waiting", "queued", "failed"}
  /\ \A j \in Items : j > i => work[j] = "none"
  /\ i \notin views /\ Cardinality(views) < MaxViews
  /\ views' = views \cup {i}
  /\ UNCHANGED <<rows, story, results, worker, revived, deaths>>

\* ... makes the shell, in a transaction of its own.
ViewShell(i) ==
  /\ i \in views /\ views' = views \ {i} /\ MakeShell(i)
  /\ UNCHANGED <<rows, archived, results, worker, revived, deaths>>

\* Mutant of Save: the version saved replaces the Current one only.
SaveOverCurrent(d) ==
  /\ d \in drafts
  /\ IF d.status = "Editable Shell"
     THEN work[d.item] \in {"failed"} \cup Underway /\ Rests(d.item, "cancelled")
          /\ archived' = FALSE
     ELSE version < MaxVersions /\ UNCHANGED <<work, due, archived>>
  /\ Replace(Drafted("Current"), "Current", d.item)
  /\ UNCHANGED <<attempts, search, views, results, worker, revived, deaths>>

\* save_draft(): finishing a shell by hand cancels its request, whoever is at it.
Save(d) ==
  /\ d \in drafts
  /\ IF d.status = "Editable Shell"
     THEN work[d.item] \in {"failed"} \cup Underway /\ Rests(d.item, "cancelled")
          /\ archived' = FALSE
     ELSE version < MaxVersions /\ UNCHANGED <<work, due, archived>>
  /\ Replace(drafts, "Current", d.item)
  /\ UNCHANGED <<attempts, search, views, results, worker, revived, deaths>>

\* review("archive") or review("withdraw").
Archive ==
  /\ ~archived /\ archived' = TRUE
  /\ UNCHANGED <<rows, drafts, version, views, results, worker, revived, deaths>>

-----------------------------------------------------------------------------
(* run_content_pipeline(): the search, then the draft.                     *)

\* process_next() marks the search running, unless the story is gone.
Look(i) ==
  /\ at[i] = "look"
  /\ \/ /\ ~archived
        /\ search' = [search EXCEPT ![i] = "running"] /\ Goes(i, "search")
        /\ UNCHANGED <<work, due>>
     \/ /\ archived /\ Goes(i, "requeue")
        /\ search' = [search EXCEPT ![i] = "completed"]
        /\ IF work[i] = "waiting" THEN Rests(i, "queued") ELSE UNCHANGED <<work, due>>
  /\ UNCHANGED <<attempts, story, views, results, item, seen, revived, deaths>>

\* _finish(), whatever the search found: the item that waits for it is queued.
Found(i) ==
  /\ at[i] = "search" /\ Goes(i, "requeue")
  /\ search' = [search EXCEPT ![i] = "completed"]
  /\ IF work[i] = "waiting" THEN Rests(i, "queued") ELSE UNCHANGED <<work, due>>
  /\ UNCHANGED <<attempts, story, views, results, item, seen, revived, deaths>>

\* The item is queued with the story's present revision, whoever has it by now.
Requeue(i) ==
  /\ at[i] = "requeue"
  /\ IF work[i] \in Settled
     THEN Goes(i, "done") /\ UNCHANGED <<work, due, revived>>
     ELSE /\ Rests(i, "queued")
          /\ revived' = IF work[i] = "failed" THEN revived \cup {i} ELSE revived
          /\ Goes(i, "start")
  /\ UNCHANGED <<attempts, search, story, views, results, item, seen, deaths>>

-----------------------------------------------------------------------------
(* run_assistance_work() and AssistanceService.                            *)

\* Mutant of Claimable: a content item that waits for its search is due as well.
ClaimableWaiting(i) == due[i] /\ work[i] \in Underway

Claimable(i) == due[i] /\ work[i] \in {"queued", "generating"}

\* `assistance run-pending` selects an item by itself.
Pick(w) ==
  /\ w \in Cli /\ at[w] = "idle"
  /\ \E i \in Items : Claimable(i) /\ item' = [item EXCEPT ![w] = i]
  /\ Goes(w, "start")
  /\ UNCHANGED <<rows, story, views, results, seen, revived, deaths>>

\* The target is read and the model's command looked for; without it the item
\* fails, if its row is still the one that was read.
Start(w) ==
  LET i == item[w] IN
  /\ at[w] = "start"
  /\ \/ Claimable(i) /\ Goes(w, "ensure") /\ UNCHANGED <<work, due>>
     \/ Claimable(i) /\ Goes(w, "done") /\ Rests(i, "failed")
     \/ ~Claimable(i) /\ Goes(w, "done") /\ UNCHANGED <<work, due>>
  /\ UNCHANGED <<attempts, search, story, views, results, item, seen, revived, deaths>>

\* _ensure_available(): the isolation check is current and assistance enabled, or not.
Ensure(w) ==
  /\ at[w] = "ensure" /\ (Goes(w, "claim") \/ Goes(w, "defer"))
  /\ UNCHANGED <<rows, story, views, results, item, seen, revived, deaths>>

\* _mark_waiting(): whoever has the item by now.
Defer(w) ==
  /\ at[w] = "defer" /\ Goes(w, "done")
  /\ IF work[item[w]] \in Underway
     THEN Rests(item[w], "waiting")
     ELSE UNCHANGED <<work, due>>
  /\ UNCHANGED <<attempts, search, story, views, results, item, seen, revived, deaths>>

\* _claim_work(): a lease, and the number that fences the outcome.
Claim(w) ==
  LET i == item[w] IN
  /\ at[w] = "claim"
  /\ IF Claimable(i)
     THEN /\ Becomes(i, "generating") /\ due' = [due EXCEPT ![i] = FALSE]
          /\ attempts' = [attempts EXCEPT ![i] = @ + 1]
          /\ seen' = [seen EXCEPT ![w] = attempts[i] + 1]
          /\ Goes(w, "turn")
     ELSE Goes(w, "done") /\ UNCHANGED <<work, due, attempts, seen>>
  /\ UNCHANGED <<search, story, views, results, item, revived, deaths>>

\* WHERE status = 'generating' AND attempt_count = ?
Owns(w) == work[item[w]] = "generating" /\ attempts[item[w]] = seen[w]

\* Mutant of Store: the result is inserted before the claim is looked at.
StoreFirst(w) ==
  LET i == item[w] IN
  /\ at[w] = "turn" /\ Goes(w, "done")
  /\ results' = [results EXCEPT ![i] = @ + 1]
  /\ IF Owns(w)
     THEN /\ Replace(Drafted("Current") \cup ShellOf(i), "Current", i)
          /\ Rests(i, "completed") /\ archived' = FALSE
     ELSE UNCHANGED <<drafts, version, work, due, archived>>
  /\ UNCHANGED <<attempts, search, views, item, seen, revived, deaths>>

\* _store_result(): the result, the draft, the story and the item in one
\* transaction; AssistanceLeaseLost for a worker that no longer owns the item.
Store(w) ==
  LET i == item[w] IN
  /\ at[w] = "turn" /\ Goes(w, "done")
  /\ IF Owns(w)
     THEN /\ results' = [results EXCEPT ![i] = @ + 1]
          /\ Replace(Drafted("Current") \cup ShellOf(i), "Current", i)
          /\ Rests(i, "completed") /\ archived' = FALSE
     ELSE UNCHANGED <<results, drafts, version, work, due, archived>>
  /\ UNCHANGED <<attempts, search, views, item, seen, revived, deaths>>

\* Mutant of Retry: the retry waits for its time as other items wait for theirs.
RetryWaiting(w) ==
  LET i == item[w] IN
  /\ at[w] = "turn" /\ seen[w] < 2 /\ Goes(w, "retry")
  /\ IF Owns(w) THEN Becomes(i, "waiting") /\ due' = [due EXCEPT ![i] = FALSE]
                ELSE UNCHANGED <<work, due>>
  /\ UNCHANGED <<attempts, search, story, views, results, item, seen, revived, deaths>>

\* _queue_retry() after a first transient error; the worker sleeps, owner or not.
Retry(w) ==
  LET i == item[w] IN
  /\ at[w] = "turn" /\ seen[w] < 2 /\ Goes(w, "retry")
  /\ IF Owns(w) THEN Becomes(i, "queued") /\ due' = [due EXCEPT ![i] = FALSE]
                ELSE UNCHANGED <<work, due>>
  /\ UNCHANGED <<attempts, search, story, views, results, item, seen, revived, deaths>>

\* It sleeps for as long as the retry is delayed, and processes the item again.
Wake(w) ==
  /\ at[w] = "retry" /\ Goes(w, "ensure")
  /\ due' = [due EXCEPT ![item[w]] = @ \/ work[item[w]] = "queued"]
  /\ UNCHANGED <<work, attempts, search, story, views, results, item, seen, revived, deaths>>

\* _mark_failed(): an invalid result, a second transient error, anything else.
Fail(w) ==
  /\ at[w] = "turn" /\ Goes(w, "done")
  /\ IF Owns(w) THEN Rests(item[w], "failed") ELSE UNCHANGED <<work, due>>
  /\ UNCHANGED <<attempts, search, story, views, results, item, seen, revived, deaths>>

\* AssistanceDeferred out of the turn: a login or a usage reset is missing.
TurnDeferred(w) ==
  /\ at[w] = "turn" /\ Goes(w, "defer")
  /\ UNCHANGED <<rows, story, views, results, item, seen, revived, deaths>>

-----------------------------------------------------------------------------
\* The delay of a retry passes, or a lease runs out under a slow turn.
Elapse(i) ==
  /\ ~due[i] /\ work[i] \in {"queued", "generating"} /\ due' = [due EXCEPT ![i] = TRUE]
  /\ UNCHANGED <<work, attempts, search, story, views, results, worker, revived, deaths>>

\* The dashboard, the bridge or the command ends in the middle of it.
Die(w) ==
  /\ at[w] \notin {"idle", "done"} /\ deaths < MaxDeaths
  /\ deaths' = deaths + 1 /\ Goes(w, "done")
  /\ UNCHANGED <<rows, story, views, results, item, seen, revived>>

Draft(w) ==
  \/ Start(w) \/ Ensure(w) \/ Defer(w) \/ Claim(w)
  \/ Store(w) \/ Retry(w) \/ Wake(w) \/ Fail(w) \/ TurnDeferred(w)

Pipeline(i) == Shell(i) \/ Look(i) \/ Found(i) \/ Requeue(i)

Next ==
  \/ \E i \in Items : \/ Create(i) \/ View(i) \/ ViewShell(i) \/ Elapse(i)
                      \/ Pipeline(i)
  \/ \E d \in drafts : Save(d)
  \/ Archive
  \/ \E w \in Workers : Pick(w) \/ Draft(w) \/ Die(w)

Spec == Init /\ [][Next]_vars

\* A thread that lives goes on: the search has its budget and the turn a timeout.
\* Nothing is assumed of the owner, of the clock, or of the command line.
Fairness ==
  /\ \A i \in Items : WF_vars(Pipeline(i))
  /\ \A w \in Workers : WF_vars(Draft(w))

FairSpec == Spec /\ Fairness

-----------------------------------------------------------------------------
(* Properties.                                                             *)

\* What the owner finished by hand, or the model once, stays so: no thread that
\* comes late, no search that ends and no lease that ran out opens it again.
SettledStays ==
  [][\A i \in Items : work[i] \in Settled => work'[i] = work[i]]_vars

\* Threads, searches, leases, retries and deaths together keep the desk: one
\* request at a time, one answer while it is open, and none over what the owner
\* finished by hand (services.py:1938-2010, assistance.py:1890-2060).
State(i) ==
  CASE work[i] \in Underway -> "open"
    [] OTHER               -> work[i]

Desk == INSTANCE DraftDesk
          WITH Requests <- Items, state <- [i \in Items |-> State(i)],
               answers <- results, texts <- drafts, newest <- version

KeepsDesk == Desk!Spec

\* An item has one accepted result if it is completed and none otherwise,
\* whatever the claims that overlapped: a request the owner finished by hand
\* never gets the model's text as well.
OneResult ==
  \A i \in Items : results[i] = IF work[i] = "completed" THEN 1 ELSE 0

\* The model never drafts before the request's own search has ended
\* (research.py:500-502), although other workers look for items all the time.
DraftsAfterSearch ==
  \A i \in Items : work[i] \in {"queued", "generating", "completed"} => search[i] = "completed"

\* At most one version is Current and one is a shell; the newest is open; and a
\* shell can still be saved: its request has not been completed or cancelled.
ShellsOpen ==
  /\ \A c, d \in drafts : c.status = d.status => c = d
  /\ version > 0 => \E d \in drafts : d.version = version
  /\ \A d \in Drafted("Editable Shell") : work[d.item] \notin Settled \cup {"none"}

\* Two requests for one story are under way only if one of them had failed
\* and was put back in the queue by its thread (services.py:1977).
OnlyRevivedOverlap ==
  \A i, j \in Items \ revived : Busy(i) /\ Busy(j) => i = j

\* Every request ends, completed, failed or finished by hand, unless a thread
\* dies or assistance is not available.
Undisturbed == deaths = 0 /\ \A w \in Workers : at[w] # "defer"

EveryRequestEnds ==
  []Undisturbed => \A i \in Items : work[i] \in Underway ~> work[i] \notin Underway
-----------------------------------------------------------------------------
\* A request's thread works on its request, the command line only drafts, and
\* who drafts has an item (research.py:590, assistance.py:2171).
Placed ==
  /\ \A i \in Items : (at[i] = "idle" <=> work[i] = "none") /\ (at[i] # "idle" => item[i] = i)
  /\ \A w \in Cli : at[w] \in {"idle", "done"} \cup Drafting
  /\ \A w \in Workers : at[w] \in Drafting => item[w] \in Items

\* The search has ended when the thread comes to queue its request, and not before.
Searched ==
  \A i \in Items :
    /\ at[i] \in {"shell", "look"} => search[i] # "completed"
    /\ at[i] = "requeue" => search[i] = "completed"

\* What every step keeps, and the theorems start from.
ContentInv == TypeOK /\ Placed /\ Searched
=============================================================================
