--------------------------- MODULE GenerationJobs ---------------------------
(***************************************************************************)
(* The durable generation queue: src/src/open_source_ai_news_wire/         *)
(* generation.py.  Rows of generation_job are shared by every process that *)
(* opened the database (dashboard, hosted bridge, scheduled worker); each  *)
(* process keeps, in memory, one worker lock and a table of live Codex     *)
(* sessions (_Runtime).  A question pauses a turn; any process may store   *)
(* the answer, but only the process that holds the session can deliver it. *)
(*                                                                         *)
(* Every access to the database is one step: each execute() or one() opens *)
(* its own connection, and transaction() is BEGIN IMMEDIATE ... COMMIT.    *)
(* Between two such steps every other thread and process may move.         *)
(***************************************************************************)
EXTENDS Naturals, FiniteSets

CONSTANTS
  Procs,         \* operating-system processes; a restart is a new member
  Steady,        \* the processes that never crash (for liveness only)
  NJobs,         \* rows the model may create, in created_at order
  MaxQuestions,  \* bound: questions the provider asks per job
  MaxCalls,      \* bound: cancel() and respond() calls in flight at once
  None

ASSUME ConstantsAssumption ==
  /\ Steady \subseteq Procs
  /\ None \notin Procs
  /\ NJobs \in Nat
  /\ MaxQuestions \in Nat
  /\ MaxCalls \in Nat

Jobs == 1..NJobs

Active   == {"queued", "running", "needs_input"}
Finished == {"completed", "failed", "cancelled"}
Status   == {"absent"} \cup Active \cup Finished

\* Where the thread that holds a process's worker_lock is.
Free   == "free"                          \* nobody holds the lock
InRun  == {"run", "turn", "consume", "finally"}
Places == {Free, "recover", "claim", "holdclaim"} \cup InRun

VARIABLES
  status,    \* generation_job.status
  owner,     \* lease_owner, its pid part
  lease,     \* lease_expires_at is set and in the future
  response,  \* response_json: 0 is NULL, k an answer written for question k
  asked,     \* question_json: the number of the last question stored
  alive,     \* processes that run
  session,   \* _Runtime.sessions of a process: 0, or the session's number
  pending,   \* the sessions of a process that wait for an answer
  at,        \* place of the thread that holds worker_lock
  job,       \* the job that thread works on
  via,       \* how it came: run_pending or _hold_input_session
  holds,     \* the _hold_input_session threads
  cancels,   \* cancel() calls that read an active row and did not yet write
  replies,   \* respond() calls that passed their checks and did not yet write
  turns,     \* history: turn/start requests made for a job
  starters,  \* history: the processes that made them
  early      \* history: answers a job had when _run()'s finally block read it

rows    == <<status, owner, lease, response, asked>>
memory  == <<session, pending>>
worker  == <<at, job, via>>
calls   == <<cancels, replies>>
history == <<turns, starters, early>>
vars    == <<rows, alive, memory, worker, holds, calls, history>>

Holds   == [proc : Procs, job : Jobs, session : Nat, question : Nat,
            place : {"top", "checked", "locked", "done"}]
Replies == [proc : Procs, job : Jobs, answer : Nat \ {0}]

TypeOK ==
  /\ status \in [Jobs -> Status]
  /\ owner \in [Jobs -> Procs \cup {None}]
  /\ lease \in [Jobs -> BOOLEAN]
  /\ response \in [Jobs -> Nat]
  /\ asked \in [Jobs -> Nat]
  /\ alive \in SUBSET Procs
  /\ session \in [Procs -> [Jobs -> Nat]]
  /\ pending \in [Procs -> SUBSET Jobs]
  /\ at \in [Procs -> Places]
  /\ job \in [Procs -> Jobs \cup {None}]
  /\ via \in [Procs -> {"queue", "hold"}]
  /\ holds \in SUBSET Holds
  /\ cancels \in SUBSET (Procs \X Jobs)
  /\ replies \in SUBSET Replies
  /\ turns \in [Jobs -> Nat]
  /\ starters \in [Jobs -> SUBSET Procs]
  /\ early \in [Jobs -> Nat]

Init ==
  /\ status = [j \in Jobs |-> "absent"]
  /\ owner = [j \in Jobs |-> None]
  /\ lease = [j \in Jobs |-> FALSE]
  /\ response = [j \in Jobs |-> 0]
  /\ asked = [j \in Jobs |-> 0]
  /\ alive = Procs
  /\ session = [p \in Procs |-> [j \in Jobs |-> 0]]
  /\ pending = [p \in Procs |-> {}]
  /\ at = [p \in Procs |-> Free]
  /\ job = [p \in Procs |-> None]
  /\ via = [p \in Procs |-> "queue"]
  /\ holds = {}
  /\ cancels = {}
  /\ replies = {}
  /\ turns = [j \in Jobs |-> 0]
  /\ starters = [j \in Jobs |-> {}]
  /\ early = [j \in Jobs |-> 0]

-----------------------------------------------------------------------------
(* Helpers: a place of a process's worker, a row's outcome, its memory.    *)

\* p's worker thread is at `place`, working on j.
Works(p, place, j) == p \in alive /\ at[p] = place /\ job[p] = j
MoveTo(p, place)   == at' = [at EXCEPT ![p] = place]

\* UPDATE ... SET status=<outcome>, lease_owner=NULL, lease_expires_at=NULL
\* WHERE id=? AND status='running'
FinishRunning(j, outcome) ==
  IF status[j] = "running"
  THEN /\ status' = [status EXCEPT ![j] = outcome]
       /\ owner' = [owner EXCEPT ![j] = None]
       /\ lease' = [lease EXCEPT ![j] = FALSE]
  ELSE UNCHANGED <<status, owner, lease>>

\* The owner's answer waits for the process that asked.
Answered(j) == status[j] = "queued" /\ response[j] # 0

\* sessions.pop(job_id) and server.close()
DropSession(p, j) ==
  /\ session' = [session EXCEPT ![p][j] = 0]
  /\ pending' = [pending EXCEPT ![p] = @ \ {j}]

\* The thread that holds j's session in p for question q; j's session is the
\* one its last turn opened.
HoldOf(p, j, q, place) ==
  [proc |-> p, job |-> j, session |-> turns[j], question |-> q, place |-> place]

\* Mutant of Orphaned: a dead owner counts only once its lease ran out as well.
OrphanedAfterLease(p, j) ==
  /\ \/ status[j] \in {"running", "needs_input"}
     \/ status[j] = "queued" /\ response[j] # 0
  /\ session[p][j] = 0
  /\ ~lease[j] /\ owner[j] \notin alive

\* What recover(), called in p, fails: rows of another process, or of none,
\* whose lease ran out or whose pid is gone.
Orphaned(p, j) ==
  /\ \/ status[j] \in {"running", "needs_input"}
     \/ status[j] = "queued" /\ response[j] # 0
  /\ session[p][j] = 0
  /\ ~lease[j] \/ owner[j] \notin alive

\* Mutant of Recovered: the row is queued again instead of failed.
Requeued(p) ==
  [j \in Jobs |-> IF Orphaned(p, j) THEN "queued" ELSE status[j]]

Recovered(p) ==
  [j \in Jobs |-> IF Orphaned(p, j) THEN "failed" ELSE status[j]]

-----------------------------------------------------------------------------
(* Rows are created by enqueue(), retry() and save_text(); time; crashes.  *)

\* enqueue() and retry(): INSERT of a queued row with neither lease nor answer.
Submit(j) ==
  /\ status[j] = "absent"
  /\ \A i \in Jobs : i < j => status[i] # "absent"
  /\ status' = [status EXCEPT ![j] = "queued"]
  /\ UNCHANGED <<owner, lease, response, asked, alive, memory, worker, holds,
                 calls, history>>

\* save_text(): an edit of a finished job is a new row, completed from the start.
SaveText(j) ==
  /\ status[j] = "absent"
  /\ \A i \in Jobs : i < j => status[i] # "absent"
  /\ \E i \in Jobs : status[i] \in Finished
  /\ status' = [status EXCEPT ![j] = "completed"]
  /\ UNCHANGED <<owner, lease, response, asked, alive, memory, worker, holds,
                 calls, history>>

\* Wall-clock time passes lease_expires_at, for instance while the Mac sleeps.
Expire(j) ==
  /\ lease[j]
  /\ lease' = [lease EXCEPT ![j] = FALSE]
  /\ UNCHANGED <<status, owner, response, asked, alive, memory, worker, holds,
                 calls, history>>

\* The process dies: its sessions, threads and calls go, the rows stay.
Crash(p) ==
  /\ p \in alive \ Steady
  /\ alive' = alive \ {p}
  /\ session' = [session EXCEPT ![p] = [j \in Jobs |-> 0]]
  /\ pending' = [pending EXCEPT ![p] = {}]
  /\ at' = [at EXCEPT ![p] = Free]
  /\ job' = [job EXCEPT ![p] = None]
  /\ via' = [via EXCEPT ![p] = "queue"]
  /\ holds' = {h \in holds : h.proc # p}
  /\ cancels' = {c \in cancels : c[1] # p}
  /\ replies' = {r \in replies : r.proc # p}
  /\ UNCHANGED <<rows, history>>

-----------------------------------------------------------------------------
(* run_pending(): one thread per process, behind a non-blocking lock.      *)

StartWorker(p) ==
  /\ p \in alive /\ at[p] = Free
  /\ at' = [at EXCEPT ![p] = "recover"]
  /\ via' = [via EXCEPT ![p] = "queue"]
  /\ UNCHANGED <<rows, alive, memory, job, holds, calls, history>>

\* recover() at the head of run_pending().
Recover(p) ==
  /\ p \in alive /\ at[p] = "recover"
  /\ status' = Recovered(p)
  /\ MoveTo(p, "claim")
  /\ UNCHANGED <<owner, lease, response, asked, alive, memory, job, via, holds,
                 calls, history>>

\* Mutant of Claimable: an answered row is open to no process.
ClaimableIfNew(p, j) == status[j] = "queued" /\ response[j] = 0

\* A queued row is open to p unless it carries an answer for another process.
Claimable(p, j) == status[j] = "queued" /\ (response[j] = 0 \/ owner[j] = p)

\* The claiming transaction: the oldest open row becomes p's for five minutes.
Claim(p) ==
  /\ p \in alive /\ at[p] = "claim"
  /\ \E j \in Jobs :
       /\ Claimable(p, j)
       /\ \A i \in Jobs : Claimable(p, i) => j <= i
       /\ status' = [status EXCEPT ![j] = "running"]
       /\ owner' = [owner EXCEPT ![j] = p]
       /\ lease' = [lease EXCEPT ![j] = TRUE]
       /\ job' = [job EXCEPT ![p] = j]
  /\ MoveTo(p, "run")
  /\ UNCHANGED <<response, asked, alive, memory, via, holds, calls, history>>

\* No row left, the limit reached, or the deadline passed: release the lock.
Release(p) ==
  /\ p \in alive /\ at[p] = "claim"
  /\ at' = [at EXCEPT ![p] = Free]
  /\ job' = [job EXCEPT ![p] = None]
  /\ UNCHANGED <<rows, alive, memory, via, holds, calls, history>>

-----------------------------------------------------------------------------
(* _run() and _consume().                                                  *)

\* No session in this process: start an app server and register the session.
OpenSession(p) ==
  \E j \in Jobs :
    /\ Works(p, "run", j) /\ session[p][j] = 0
    /\ session' = [session EXCEPT ![p][j] = turns[j] + 1]
    /\ MoveTo(p, "turn")
    /\ UNCHANGED <<rows, alive, pending, job, via, holds, calls, history>>

\* turn/start, the billable request; it needs the server cancel() may have closed.
StartTurn(p) ==
  \E j \in Jobs :
    /\ Works(p, "turn", j) /\ session[p][j] # 0
    /\ turns' = [turns EXCEPT ![j] = @ + 1]
    /\ starters' = [starters EXCEPT ![j] = @ \cup {p}]
    /\ MoveTo(p, "consume")
    /\ UNCHANGED <<rows, alive, memory, job, via, holds, calls, early>>

\* The session's pending request gets the stored answer; the row is cleared.
Resume(p) ==
  \E j \in Jobs :
    /\ Works(p, "run", j) /\ session[p][j] # 0 /\ j \in pending[p]
    /\ pending' = [pending EXCEPT ![p] = @ \ {j}]
    /\ response' = [response EXCEPT ![j] = 0]
    /\ MoveTo(p, "consume")
    /\ UNCHANGED <<status, owner, lease, asked, alive, session, job, via, holds,
                   calls, history>>

\* Any exception in _run() or _consume(): no token, no server, no skill, a
\* failed or rerouted turn, a closed transport, a limit.  The UPDATE only
\* touches a running row.  A request that timed out may have started the turn.
RunFails(p) ==
  \E j \in Jobs :
    /\ \E place \in {"run", "turn", "consume"} : Works(p, place, j)
    /\ FinishRunning(j, "failed")
    /\ \/ UNCHANGED history
       \/ /\ at[p] = "turn" /\ session[p][j] # 0
          /\ turns' = [turns EXCEPT ![j] = @ + 1]
          /\ starters' = [starters EXCEPT ![j] = @ \cup {p}]
          /\ UNCHANGED early
    /\ MoveTo(p, "finally")
    /\ UNCHANGED <<response, asked, alive, memory, job, via, holds, calls>>

\* The poll at the head of the loop sees a row somebody else finished.
SeeStopped(p) ==
  \E j \in Jobs :
    /\ Works(p, "consume", j) /\ status[j] # "running"
    /\ MoveTo(p, "finally")
    /\ UNCHANGED <<rows, alive, memory, job, via, holds, calls, history>>

Heartbeat(p) ==
  \E j \in Jobs :
    /\ Works(p, "consume", j) /\ owner[j] = p /\ status[j] = "running"
    /\ lease' = [lease EXCEPT ![j] = TRUE]
    /\ UNCHANGED <<status, owner, response, asked, alive, memory, worker, holds,
                   calls, history>>

\* A question: the row waits if it still runs; a holding thread starts anyway.
Ask(p) ==
  \E j \in Jobs :
    /\ Works(p, "consume", j) /\ asked[j] < MaxQuestions
    /\ pending' = [pending EXCEPT ![p] =
                     IF session[p][j] # 0 THEN @ \cup {j} ELSE @]
    /\ IF status[j] = "running"
       THEN /\ status' = [status EXCEPT ![j] = "needs_input"]
            /\ lease' = [lease EXCEPT ![j] = TRUE]
            /\ asked' = [asked EXCEPT ![j] = @ + 1]
       ELSE UNCHANGED <<status, lease, asked>>
    /\ holds' = holds \cup {HoldOf(p, j, asked[j] + 1, "top")}
    /\ MoveTo(p, "finally")
    /\ UNCHANGED <<owner, response, alive, session, job, via, calls, history>>

\* turn/completed with the outputs the task needs.
Complete(p) ==
  \E j \in Jobs :
    /\ Works(p, "consume", j)
    /\ FinishRunning(j, "completed")
    /\ MoveTo(p, "finally")
    /\ UNCHANGED <<response, asked, alive, memory, job, via, holds, calls,
                   history>>

\* Mutant of Leave: the finally block closes the session of a paused row too.
LeaveAndClose(p) ==
  \E j \in Jobs :
    /\ Works(p, "finally", j)
    /\ DropSession(p, j)
    /\ MoveTo(p, IF via[p] = "hold" THEN Free ELSE "claim")
    /\ job' = [job EXCEPT ![p] = None]
    /\ holds' = IF via[p] = "hold" THEN holds \cup {HoldOf(p, j, asked[j], "done")}
                                   ELSE holds
    /\ early' = [early EXCEPT ![j] = IF Answered(j) THEN @ + 1 ELSE @]
    /\ UNCHANGED <<rows, alive, via, calls, turns, starters>>

\* The finally block: only a row that waits for input keeps its session.
Leave(p) ==
  \E j \in Jobs :
    /\ Works(p, "finally", j)
    /\ IF status[j] = "needs_input" THEN UNCHANGED memory ELSE DropSession(p, j)
    /\ MoveTo(p, IF via[p] = "hold" THEN Free ELSE "claim")
    /\ job' = [job EXCEPT ![p] = None]
    /\ holds' = IF via[p] = "hold" THEN holds \cup {HoldOf(p, j, asked[j], "done")} ELSE holds
    /\ early' = [early EXCEPT ![j] = IF Answered(j) THEN @ + 1 ELSE @]
    /\ UNCHANGED <<rows, alive, via, calls, turns, starters>>

-----------------------------------------------------------------------------
(* _hold_input_session(): one thread per question.                         *)

HoldMoves(h, place) == holds' = (holds \ {h}) \cup {[h EXCEPT !.place = place]}

\* sessions.get(job_id) is session, and the row still waits or is answered.
Held(h) ==
  /\ session[h.proc][h.job] = h.session
  /\ status[h.job] \in {"needs_input", "queued"}

\* One turn of the loop: renew the lease, and go for the lock once answered.
HoldCheck(h) ==
  /\ h.place = "top" /\ Held(h)
  /\ lease' = [lease EXCEPT ![h.job] = TRUE]
  /\ HoldMoves(h, IF Answered(h.job) THEN "checked" ELSE "top")
  /\ UNCHANGED <<status, owner, response, asked, alive, memory, worker, calls,
                 history>>

\* The non-blocking lock is busy: sleep and look again.
HoldBusy(h) ==
  /\ h.place = "checked" /\ at[h.proc] # Free
  /\ HoldMoves(h, "top")
  /\ UNCHANGED <<rows, alive, memory, worker, calls, history>>

HoldLock(h) ==
  /\ h.place = "checked" /\ at[h.proc] = Free
  /\ HoldMoves(h, "locked")
  /\ at' = [at EXCEPT ![h.proc] = "holdclaim"]
  /\ job' = [job EXCEPT ![h.proc] = h.job]
  /\ via' = [via EXCEPT ![h.proc] = "hold"]
  /\ UNCHANGED <<rows, alive, memory, calls, history>>

\* Mutant of HoldClaim: the row is claimed as it was read before the lock.
HoldClaimUnchecked(h) ==
  /\ h.place = "locked"
  /\ status' = [status EXCEPT ![h.job] = "running"]
  /\ owner' = [owner EXCEPT ![h.job] = h.proc]
  /\ lease' = [lease EXCEPT ![h.job] = TRUE]
  /\ MoveTo(h.proc, "run")
  /\ holds' = holds \ {h}
  /\ UNCHANGED <<response, asked, alive, memory, job, via, calls, history>>

\* The claiming transaction of the holding thread rechecks the row ...
HoldClaim(h) ==
  /\ h.place = "locked" /\ Answered(h.job)
  /\ status' = [status EXCEPT ![h.job] = "running"]
  /\ owner' = [owner EXCEPT ![h.job] = h.proc]
  /\ lease' = [lease EXCEPT ![h.job] = TRUE]
  /\ MoveTo(h.proc, "run")
  /\ holds' = holds \ {h}
  /\ UNCHANGED <<response, asked, alive, memory, job, via, calls, history>>

\* ... and lets go of the lock when the answer has been taken or withdrawn.
HoldRetry(h) ==
  /\ h.place = "locked" /\ ~Answered(h.job)
  /\ HoldMoves(h, "top")
  /\ MoveTo(h.proc, Free)
  /\ job' = [job EXCEPT ![h.proc] = None]
  /\ UNCHANGED <<rows, alive, memory, via, calls, history>>

\* Mutant of HoldEnd: the thread closes the app server of an unfinished row too.
HoldEndAll(h) ==
  /\ h.place = "done" \/ (h.place = "top" /\ ~Held(h))
  /\ holds' = holds \ {h}
  /\ DropSession(h.proc, h.job)
  /\ UNCHANGED <<rows, alive, worker, calls, history>>

\* Mutant of HoldEnd: the thread ends without closing the app server.
HoldEndOpen(h) ==
  /\ h.place = "done" \/ (h.place = "top" /\ ~Held(h))
  /\ holds' = holds \ {h}
  /\ UNCHANGED <<rows, alive, memory, worker, calls, history>>

\* The thread ends: a finished row's session is closed.
HoldEnd(h) ==
  /\ h.place = "done" \/ (h.place = "top" /\ ~Held(h))
  /\ holds' = holds \ {h}
  /\ IF status[h.job] \in Active THEN UNCHANGED memory
                                ELSE DropSession(h.proc, h.job)
  /\ UNCHANGED <<rows, alive, worker, calls, history>>

\* A database error in the loop: the lock is released, a paused row fails.
HoldError(h) ==
  /\ h.place \in {"top", "locked"}
  /\ status' = [status EXCEPT ![h.job] =
                  IF @ \in {"needs_input", "queued"} THEN "failed" ELSE @]
  /\ at' = [at EXCEPT ![h.proc] = IF h.place = "locked" THEN Free ELSE @]
  /\ job' = [job EXCEPT ![h.proc] = IF h.place = "locked" THEN None ELSE @]
  /\ HoldMoves(h, "done")
  /\ UNCHANGED <<owner, lease, response, asked, alive, memory, via, calls,
                 history>>

-----------------------------------------------------------------------------
(* cancel() and respond(), called from a request thread of any process.    *)

Room == Cardinality(cancels) + Cardinality(replies) < MaxCalls

CancelRead(p, j) ==
  /\ Room /\ p \in alive /\ status[j] \in Active
  /\ cancels' = cancels \cup {<<p, j>>}
  /\ UNCHANGED <<rows, alive, memory, worker, holds, replies, history>>

\* The UPDATE names only the id: whatever the row has become, it is cancelled.
CancelWrite(p, j) ==
  /\ <<p, j>> \in cancels
  /\ cancels' = cancels \ {<<p, j>>}
  /\ status' = [status EXCEPT ![j] = "cancelled"]
  /\ owner' = [owner EXCEPT ![j] = None]
  /\ lease' = [lease EXCEPT ![j] = FALSE]
  /\ DropSession(p, j)
  /\ UNCHANGED <<response, asked, alive, worker, holds, replies, history>>

\* The row waits for input; a process without its session runs recover() and
\* looks again.  The answer was written for a question the owner was shown,
\* which need not be the last one: the request names the job only.
RespondRead(p, j) ==
  /\ Room /\ p \in alive /\ status[j] = "needs_input"
  /\ status' = IF session[p][j] # 0 THEN status ELSE Recovered(p)
  /\ \/ /\ status'[j] = "needs_input"
        /\ \E k \in 1..asked[j] :
             replies' = replies \cup {[proc |-> p, job |-> j, answer |-> k]}
     \/ status'[j] # "needs_input" /\ UNCHANGED replies
  /\ UNCHANGED <<owner, lease, response, asked, alive, memory, worker, holds,
                 cancels, history>>

\* UPDATE ... SET status='queued',response_json=? WHERE status='needs_input'
RespondWrite(r) ==
  LET hit == status[r.job] = "needs_input" IN
  /\ replies' = replies \ {r}
  /\ status' = [status EXCEPT ![r.job] = IF hit THEN "queued" ELSE @]
  /\ response' = [response EXCEPT ![r.job] = IF hit THEN r.answer ELSE @]
  /\ UNCHANGED <<owner, lease, asked, alive, memory, worker, holds, cancels,
                 history>>

-----------------------------------------------------------------------------
Run(p) == OpenSession(p) \/ StartTurn(p) \/ Resume(p) \/ RunFails(p)

Settle(p) == SeeStopped(p) \/ Ask(p) \/ Complete(p) \/ RunFails(p)

Worker(p) ==
  \/ StartWorker(p) \/ Recover(p) \/ Claim(p) \/ Release(p)
  \/ Run(p) \/ Heartbeat(p) \/ Settle(p) \/ Leave(p)

Hold(h) ==
  \/ HoldCheck(h) \/ HoldBusy(h) \/ HoldLock(h) \/ HoldClaim(h)
  \/ HoldRetry(h) \/ HoldEnd(h) \/ HoldError(h)

Next ==
  \/ \E j \in Jobs : Submit(j) \/ SaveText(j) \/ Expire(j)
  \/ \E p \in Procs : Crash(p) \/ Worker(p)
  \/ \E h \in holds : Hold(h)
  \/ \E p \in Procs, j \in Jobs :
       CancelRead(p, j) \/ CancelWrite(p, j) \/ RespondRead(p, j)
  \/ \E r \in replies : RespondWrite(r)

Spec == Init /\ [][Next]_vars

\* Fairness: run_pending() is started again and again in every process that
\* lives (after each command and click, by every scan, when the bridge starts)
\* and, outside the scan's deadline, takes a row it finds; _consume() ends, at
\* the latest by its 30-minute limit; a holding thread loops every second.
\* Nothing is assumed of the owner, of the clock, or of a process's survival.
HoldLoop(p, j, q) ==
  \E h \in holds : /\ h.proc = p /\ h.job = j /\ h.question = q
                   /\ \/ HoldCheck(h) \/ HoldBusy(h) \/ HoldLock(h)
                      \/ HoldClaim(h) \/ HoldRetry(h) \/ HoldEnd(h)

Fairness ==
  /\ \A p \in Procs :
       /\ WF_vars(StartWorker(p)) /\ WF_vars(Recover(p))
       /\ SF_vars(Claim(p)) /\ WF_vars(Release(p))
       /\ WF_vars(Run(p)) /\ WF_vars(Settle(p)) /\ WF_vars(Leave(p))
  /\ \A p \in Procs, j \in Jobs, q \in 1..MaxQuestions :
       WF_vars(HoldLoop(p, j, q))

FairSpec == Spec /\ Fairness

-----------------------------------------------------------------------------
(* Properties.                                                             *)

\* p's worker thread is inside _run() for j.
Drives(p, j) == at[p] \in InRun /\ job[p] = j

\* Never do two processes run the same job, whatever leases expire, processes
\* crash, or answers arrive through another process: the claiming transactions
\* of run_pending() and _hold_input_session() exclude each other.
SingleDriver ==
  \A j \in Jobs : \A p, q \in Procs : Drives(p, j) /\ Drives(q, j) => p = q

\* A job's billable turn is only ever requested by one process: neither a crash
\* nor an expired lease nor an answer makes another process run it again.
OneStarter == \A j \in Jobs : Cardinality(starters[j]) <= 1

\* A question on display can be answered: while the process that asked it
\* lives, it keeps the session with the request pending, and a thread watches
\* that has not come to its end.
Watched(p, j) ==
  \E h \in holds : /\ h.proc = p /\ h.job = j /\ h.session = session[p][j]
                   /\ h.place # "done"

QuestionIsHeld ==
  \A j \in Jobs :
    status[j] = "needs_input" /\ owner[j] \in alive =>
      /\ session[owner[j]][j] # 0 /\ j \in pending[owner[j]]
      /\ Watched(owner[j], j)

\* No app server is left without a thread that will close it: while a session is
\* open, its process works on the job or a holding thread was started for it,
\* whatever is cancelled, answered or failed meanwhile (generation.py:339-432).
SessionWatched ==
  \A p \in Procs, j \in Jobs :
    session[p][j] # 0 =>
      \/ Drives(p, j)
      \/ \E h \in holds : h.proc = p /\ h.job = j /\ h.session = session[p][j]

\* A finished row is never put back to work by a late worker, a late answer or
\* a holding thread, and a cancelled one stays cancelled.
NeverReopened ==
  [][\A j \in Jobs :
       /\ status[j] \in Finished => status'[j] \in Finished
       /\ status[j] = "cancelled" => status'[j] = "cancelled"]_vars

\* The inductive invariant behind the first two: a process is tied to a job by
\* working on it, by having requested its turn, or by a thread that holds its
\* session.  One process at most is tied, an unfinished row names it, and a row
\* open to every process has none; a row under _run() runs or is finished; a
\* holding thread that has the lock is the one that took it.
Tied(p, j) ==
  \/ Drives(p, j)
  \/ p \in starters[j]
  \/ \E h \in holds : h.proc = p /\ h.job = j

OneHand ==
  \A j \in Jobs : \A p, q \in Procs : Tied(p, j) /\ Tied(q, j) => p = q

HandOwns ==
  \A j \in Jobs, p \in Procs :
    Tied(p, j) /\ status[j] \in Active => owner[j] = p

HandTakes ==
  \A j \in Jobs, p \in Procs :
    Tied(p, j) => /\ status[j] # "absent"
                  /\ status[j] = "queued" => response[j] # 0

DriverRow ==
  \A j \in Jobs, p \in Procs :
    Drives(p, j) /\ at[p] # "finally" => status[j] \in {"running"} \cup Finished

LockHeld ==
  /\ \A h \in holds : h.place = "locked" =>
       at[h.proc] = "holdclaim" /\ job[h.proc] = h.job
  /\ \A g, h \in holds :
       g.place = "locked" /\ h.place = "locked" /\ g.proc = h.proc => g = h

HandInv == OneHand /\ HandOwns /\ HandTakes /\ DriverRow /\ LockHeld

\* The answer resumes the turn that asked: no job requests a second turn.
\* (tests/test_generation.py:223)
SameTurn == \A j \in Jobs : turns[j] <= 1

\* What the code keeps of that: a job asks for one turn, and for one more with
\* each answer that came before the finally block of the turn that asked, which
\* then closes the session (generation.py:316-321).  Nothing else repeats a turn:
\* no crash, expired lease, busy lock or late thread.  A cancelled or failed job
\* is left out: its session may be closed between the claim of its answered row
\* and the look for the session (generation.py:264), which then opens another.
TurnsOwed ==
  \A j \in Jobs : status[j] \notin {"failed", "cancelled"} => turns[j] <= 1 + early[j]

\* The inductive invariant behind it: a job without a starter asked for no turn;
\* _run() finds its row running unless it failed or was cancelled, and leaves it
\* otherwise; a job that has had the turns it owes, and whose owner lives, still
\* has its session there; a worker about to ask for a turn owes it.
Counted == \A j \in Jobs : starters[j] = {} => turns[j] = 0

RunRow ==
  \A p \in Procs, j \in Jobs :
    Drives(p, j) =>
      IF at[p] = "finally" THEN status[j] # "running"
                           ELSE status[j] \in {"running", "failed", "cancelled"}

PaidKept ==
  \A j \in Jobs :
    status[j] \in Active /\ owner[j] \in alive /\ session[owner[j]][j] = 0 =>
      turns[j] <= early[j]

TurnOwed ==
  \A p \in Procs, j \in Jobs :
    Drives(p, j) /\ at[p] = "turn" /\ status[j] = "running" => turns[j] <= early[j]

TurnInv == Counted /\ RunRow /\ PaidKept /\ TurnOwed /\ TurnsOwed

\* A job that waits in the queue, new or answered, is taken or settled.
QueuedTaken == \A j \in Jobs : status[j] = "queued" ~> status[j] # "queued"

\* A job whose process died is reported finished by some other process.
OrphansSettled ==
  \A j \in Jobs :
    status[j] \in Active /\ owner[j] \in Procs \ alive ~> status[j] \in Finished

\* The app server of a finished job is closed in the process that runs it.
SessionsReleased ==
  \A p \in Procs, j \in Jobs :
    status[j] \in Finished /\ session[p][j] # 0 ~> session[p][j] = 0

-----------------------------------------------------------------------------
(* A job as its owner knows it: the row's status, except that a queued row *)
(* with an answer is not one that waits for its first turn.                *)

ShownPhase == [j \in Jobs |-> IF Answered(j) THEN "answered" ELSE status[j]]

Lifecycle == INSTANCE JobLifecycle
               WITH Payers <- Procs, phase <- ShownPhase, payers <- starters

\* With all its processes, leases, sessions and threads the queue does to a job
\* what JobLifecycle promises and nothing else: one payer, no turn before the
\* job is taken, no way back to the queue but an answer to its question.
KeepsLifecycle == Lifecycle!Spec
=============================================================================
