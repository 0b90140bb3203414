----------------------------- MODULE ScanWorker -----------------------------
(***************************************************************************)
(* Scans and the queue of requests for them.                               *)
(*   src/src/open_source_ai_news_wire/runner.py, services.py:2374-2475     *)
(* launchd, the command line and threads of the dashboards run the same    *)
(* worker.  One of them has the file lock: it claims every queued request, *)
(* scans the sources, and settles what it claimed.  A worker that finds    *)
(* the lock taken merges its trigger into one row for each kind of         *)
(* trigger.  The dashboards insert rows of their own.                      *)
(***************************************************************************)
EXTENDS Naturals, FiniteSets

CONSTANTS
  Threads,      \* workers of the command line and of the dashboards
  Launchd,      \* the worker launchd starts every half hour
  HasSchedule,  \* the launch agent is loaded
  Desks,        \* dashboards: the local one, the hosted one's bridge
  ScanRow,      \* the row with the key coalesced-scout-scan
  CatchUpRow,   \* the row with the key coalesced-catch-up
  RunRows,      \* rows of "run now"; their number is a bound
  CatchRows,    \* rows of catch-ups asked for in a dashboard; so is theirs
  MaxCalls,     \* bound: scans from the command line
  MaxCrashes,   \* bound: workers that die
  None

Workers == Threads \cup {Launchd}
ScoutRows == RunRows \cup {ScanRow, CatchUpRow}  \* work_item.kind = 'scout_scan'
Rows == ScoutRows \cup CatchRows

ASSUME ScanAssumption ==
  /\ HasSchedule \in BOOLEAN
  /\ MaxCalls \in Nat /\ MaxCrashes \in Nat
  /\ None \notin Workers /\ Launchd \notin Threads

VARIABLES
  row,      \* work_item.status, "none" if there is no such row yet
  lock,     \* the worker that has scan.lock
  pc,       \* where each worker is
  merged,   \* the row a worker without the lock merges its trigger into
  mine,     \* the rows a worker claimed
  desk,     \* whether a dashboard has looked for requests and will insert one
  owed,     \* a trigger has come since a scan was under way last
  dropped,  \* and nothing is left of it
  calls, crashes  \* bounds

state == <<row, lock, pc, merged, mine, desk>>
vars  == <<state, owed, dropped, calls, crashes>>

Held == {"ready", "scanning", "completed", "failed", "post"}

TypeOK ==
  /\ row \in [Rows -> {"none", "queued", "running", "completed", "failed"}]
  /\ lock \in Workers \cup {None}
  /\ pc \in [Workers -> {"idle", "call", "merge"} \cup Held]
  /\ merged \in [Workers -> {ScanRow, CatchUpRow}]
  /\ mine \in [Workers -> SUBSET Rows]
  /\ desk \in [Desks -> BOOLEAN]
  /\ owed \in BOOLEAN /\ dropped \in BOOLEAN
  /\ calls \in 0..MaxCalls /\ crashes \in 0..MaxCrashes

Init ==
  /\ row = [r \in Rows |-> "none"]
  /\ lock = None
  /\ pc = [w \in Workers |-> "idle"]
  /\ merged = [w \in Workers |-> ScanRow]
  /\ mine = [w \in Workers |-> {}]
  /\ desk = [d \in Desks |-> FALSE]
  /\ owed = FALSE /\ dropped = FALSE
  /\ calls = 0 /\ crashes = 0

Scanning == \E w \in Workers : pc[w] = "scanning"
Queued == {r \in Rows : row[r] = "queued"}
Goto(w, place) == pc' = [pc EXCEPT ![w] = place]

\* A trigger is folded into the scan under way, if there is one.
Trigger ==
  /\ owed' = (owed \/ ~Scanning)
  /\ UNCHANGED dropped

-----------------------------------------------------------------------------
\* A scan or a catch-up from the command line.
Call(w, r) ==
  /\ pc[w] = "idle" /\ w # Launchd
  /\ calls < MaxCalls /\ calls' = calls + 1
  /\ Goto(w, "call")
  /\ merged' = [merged EXCEPT ![w] = r]
  /\ Trigger
  /\ UNCHANGED <<row, lock, mine, desk, crashes>>

\* launchd does not start a job that is running.
Tick ==
  /\ HasSchedule
  /\ pc[Launchd] = "idle"
  /\ Goto(Launchd, "call")
  /\ Trigger
  /\ UNCHANGED <<row, lock, merged, mine, desk, calls, crashes>>

\* schedule_action("run_now") looks for a request that is not finished.
Pending == {r \in ScoutRows : row[r] \in {"queued", "running"}}

\* Bound: every dashboard that asks finds a row to insert.
Unused == {r \in RunRows : row[r] = "none"}

Ask(d) ==
  /\ ~desk[d] /\ Cardinality({e \in Desks : desk[e]}) < Cardinality(Unused)
  /\ Pending = {}
  /\ desk' = [desk EXCEPT ![d] = TRUE]
  /\ Trigger
  /\ UNCHANGED <<row, lock, pc, merged, mine, calls, crashes>>

AskAgain(d) ==
  /\ ~desk[d]
  /\ Pending # {}
  /\ owed' = (owed \/ ~Scanning)
  /\ dropped' = (dropped \/ (owed' /\ \A r \in Pending : row[r] = "running"))
  /\ UNCHANGED <<state, calls, crashes>>

\* It inserts one in a statement of its own, and calls for a worker.
Insert(d, r, w) ==
  /\ desk[d]
  /\ row[r] = "none" /\ pc[w] = "idle"
  /\ desk' = [desk EXCEPT ![d] = FALSE]
  /\ row' = [row EXCEPT ![r] = "queued"]
  /\ Goto(w, "call")
  /\ merged' = [merged EXCEPT ![w] = ScanRow]
  /\ UNCHANGED <<lock, mine, owed, dropped, calls, crashes>>

\* queue_extended_catchup(): the next scan will find it.
AskCatchUp(r) ==
  /\ row[r] = "none"
  /\ row' = [row EXCEPT ![r] = "queued"]
  /\ UNCHANGED <<lock, pc, merged, mine, desk, owed, dropped, calls, crashes>>

-----------------------------------------------------------------------------
Acquire(w) ==
  /\ pc[w] = "call" /\ lock = None
  /\ lock' = w
  /\ Goto(w, "ready")
  /\ merged' = [merged EXCEPT ![w] = ScanRow]
  /\ UNCHANGED <<row, mine, desk, owed, dropped, calls, crashes>>

Miss(w) ==
  /\ pc[w] = "call" /\ lock # None
  /\ Goto(w, "merge")
  /\ UNCHANGED <<row, lock, merged, mine, desk, owed, dropped, calls, crashes>>

\* Mutant of Merge: only a new row is queued.
MergeOnce(w) ==
  /\ pc[w] = "merge"
  /\ LET r == merged[w]
     IN /\ row' = [row EXCEPT ![r] = IF @ = "none" THEN "queued" ELSE @]
        /\ dropped' = (dropped \/ (owed /\ row[r] = "running"))
  /\ Goto(w, "idle")
  /\ merged' = [merged EXCEPT ![w] = ScanRow]
  /\ UNCHANGED <<lock, mine, desk, owed, calls, crashes>>

\* _coalesce(): a running row stays as it is.
Merge(w) ==
  /\ pc[w] = "merge"
  /\ LET r == merged[w]
     IN /\ row' = [row EXCEPT ![r] = IF @ = "running" THEN @ ELSE "queued"]
        /\ dropped' = (dropped \/ (owed /\ row[r] = "running"))
  /\ Goto(w, "idle")
  /\ merged' = [merged EXCEPT ![w] = ScanRow]
  /\ UNCHANGED <<lock, mine, desk, owed, calls, crashes>>

\* Mutant of Claim: the rows of catch-ups are forgotten.
ClaimScout(w) ==
  /\ pc[w] = "ready"
  /\ mine' = [mine EXCEPT ![w] = Queued \ CatchRows]
  /\ row' = [r \in Rows |-> IF r \in mine'[w] THEN "running" ELSE row[r]]
  /\ Goto(w, "scanning")
  /\ owed' = FALSE /\ dropped' = FALSE
  /\ UNCHANGED <<lock, merged, desk, calls, crashes>>

\* _claim_trigger_work(), and the collector begins.  Nobody else takes a row
\* out of the queue, so the query and the update are one step.
Claim(w) ==
  /\ pc[w] = "ready"
  /\ mine' = [mine EXCEPT ![w] = Queued]
  /\ row' = [r \in Rows |-> IF r \in Queued THEN "running" ELSE row[r]]
  /\ Goto(w, "scanning")
  /\ owed' = FALSE /\ dropped' = FALSE
  /\ UNCHANGED <<lock, merged, desk, calls, crashes>>

\* The collector returns or raises.  A scan that is degraded, offline or blocked
\* by a full disk returns like any other.
Scanned(w) ==
  /\ pc[w] = "scanning"
  /\ \E outcome \in {"completed", "failed"} : Goto(w, outcome)
  /\ UNCHANGED <<row, lock, merged, mine, desk, owed, dropped, calls, crashes>>

\* Mutant of Finish: a scan that failed leaves its rows.
FinishIfCompleted(w) ==
  /\ pc[w] \in {"completed", "failed"}
  /\ row' = [r \in Rows |-> IF r \in mine[w] /\ pc[w] = "completed" THEN pc[w] ELSE row[r]]
  /\ mine' = [mine EXCEPT ![w] = {}]
  /\ Goto(w, "post")
  /\ UNCHANGED <<lock, merged, desk, owed, dropped, calls, crashes>>

\* _finish_trigger_work().
Finish(w) ==
  /\ pc[w] \in {"completed", "failed"}
  /\ row' = [r \in Rows |-> IF r \in mine[w] THEN pc[w] ELSE row[r]]
  /\ mine' = [mine EXCEPT ![w] = {}]
  /\ Goto(w, "post")
  /\ UNCHANGED <<lock, merged, desk, owed, dropped, calls, crashes>>

\* Generation and notifications come first; a scan that failed skips them.
Release(w) ==
  /\ pc[w] = "post"
  /\ lock' = None
  /\ Goto(w, "idle")
  /\ UNCHANGED <<row, merged, mine, desk, owed, dropped, calls, crashes>>

\* Mutant of Crash: the lock stays, as a pid file would.
CrashLocked(w) ==
  /\ pc[w] # "idle"
  /\ crashes < MaxCrashes /\ crashes' = crashes + 1
  /\ Goto(w, "idle")
  /\ mine' = [mine EXCEPT ![w] = {}]
  /\ merged' = [merged EXCEPT ![w] = ScanRow]
  /\ dropped' = (dropped \/ (owed /\ pc[w] \in {"call", "merge", "ready"}))
  /\ UNCHANGED <<row, lock, desk, owed, calls>>

\* A worker dies: it is killed by launchctl (bootout when the schedule is paused
\* or installed, kickstart -k), the process of its thread ends, or an exception
\* leaves run().  The lock goes with its file handle.
Crash(w) ==
  /\ pc[w] # "idle"
  /\ crashes < MaxCrashes /\ crashes' = crashes + 1
  /\ lock' = IF lock = w THEN None ELSE lock
  /\ Goto(w, "idle")
  /\ mine' = [mine EXCEPT ![w] = {}]
  /\ merged' = [merged EXCEPT ![w] = ScanRow]
  /\ dropped' = (dropped \/ (owed /\ pc[w] \in {"call", "merge", "ready"}))
  /\ UNCHANGED <<row, desk, owed, calls>>

Run(w) ==
  \/ Acquire(w) \/ Miss(w) \/ Merge(w)
  \/ Claim(w) \/ Scanned(w) \/ Finish(w) \/ Release(w)

Next ==
  \/ Tick
  \/ \E w \in Workers : Run(w) \/ Crash(w) \/ \E r \in {ScanRow, CatchUpRow} : Call(w, r)
  \/ \E d \in Desks : Ask(d) \/ AskAgain(d)
                      \/ \E r \in RunRows, w \in Threads : Insert(d, r, w)
  \/ \E r \in CatchRows : AskCatchUp(r)

Spec == Init /\ [][Next]_vars

\* launchd keeps starting its worker; a run ends, since it has a deadline.
FairSpec == Spec /\ WF_vars(Tick) /\ \A w \in Workers : WF_vars(Run(w))
-----------------------------------------------------------------------------
\* Only the worker that has the lock scans or settles, one at a time; what it
\* claimed stays running until it settles it (runner.py:64, CONTEXT.md:104).
LockInv ==
  /\ \A w \in Workers : pc[w] \in Held <=> lock = w
  /\ \A w \in Workers : pc[w] \notin {"scanning", "completed", "failed"} => mine[w] = {}
  /\ \A w \in Workers : \A r \in mine[w] : row[r] = "running"

\* A row that is running was claimed by the worker that has the lock, or by one
\* that died: each death can leave behind what it claimed, nothing else can
\* (runner.py:98-108).
Claimed == UNION {mine[w] : w \in Workers}
NoneLeftBehind == crashes = 0 => \A r \in Rows : row[r] = "running" => r \in Claimed

\* However workers, triggers and dashboards meet, the queue is served in batches,
\* one scan at a time: a row that ended had a scan begun after it was queued, and
\* ended as that scan did (runner.py:80-123, :248-304).
Scan == IF lock # None /\ pc[lock] \in {"scanning", "completed", "failed"}
        THEN pc[lock] ELSE "idle"

Batches == INSTANCE ScanBatches
             WITH Requests <- Rows, request <- row, scan <- Scan, served <- Claimed,
                  deaths <- crashes

KeepsBatches == Batches!Spec

\* A trigger that no scan has served yet is queued, or about to be, or has a worker
\* about to scan; only a row that is still running when its scan is over can
\* swallow it, or the death of its worker (CONTEXT.md:104).
Coming ==
  \/ Queued # {}
  \/ \E w \in Workers : pc[w] \in {"call", "merge", "ready"}
  \/ \E d \in Desks : desk[d]
FollowedUp == owed /\ ~dropped => Coming

\* A trigger during active work is folded into the scan or into a pending
\* follow-up (CONTEXT.md:104).
NothingDropped == ~dropped

\* While the schedule is loaded, a request leaves the queue and a scan begins after
\* every trigger, whoever dies (docs/operator-guide.md:5, :14).
QueueDrains == \A r \in Rows : row[r] = "queued" ~> row[r] # "queued"
ScanFollows == owed ~> ~owed
=============================================================================
