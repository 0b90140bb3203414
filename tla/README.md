# Verification of News Wire

TLA+ models, TLC configurations and TLAPS proofs for the parts of News Wire
whose correctness depends on interleaving, failure and time.  The reference is
the repository itself; every definition names the lines it stands for in the
`map` of `PROJECT.json`.

## The system

News Wire is a local-first Python program (`src/src/open_source_ai_news_wire`)
around one SQLite database, with a hosted dashboard
(`src/hosted-dashboard`, TypeScript on Cloudflare D1) that mirrors a safe
projection of it.  Several operating-system processes open the same database at
once: the scheduled scan worker, the local dashboard, the hosted bridge, and any
command-line call.

| Component | State it keeps | Operations | Interacts with | Hard behaviour | What makes it correct |
|---|---|---|---|---|---|
| Generation queue (`generation.py`) | `generation_job` rows; per process `_Runtime`: worker lock, live Codex sessions | enqueue, run_pending, recover, cancel, respond, retry, save_text, holding threads | every process; Codex app server over JSON-RPC | leases, crashes, threads that recheck, answers through another process | one driver, one billable turn, no finished row reopened, every job settled |
| Projection sync (`hosted_bridge.py`, `lib/dashboard/store.ts`) | local manifest file; hosted projection rows, digests, sync id | state, chunk and complete calls; abort and retry | HTTPS between bridge and worker | aborted delta, lost response, restart | the hosted rows equal the published digest |
| Owner commands (`hosted_bridge.py`, `store.ts`) | `dashboard_command` rows; durable `CommandHistory` | enqueue, claim, execute, record, report, expire | the local services | crash between execute and record, lost reports, re-claims | executed at most once after it is recorded, always reported |
| Scan worker (`runner.py`, `scheduler.py`) | `trigger` rows, scan lock, `operation` rows | trigger, coalesce, scan, finish | collector, launchd | triggers that arrive during a scan | every trigger is followed by a scan |
| Telegram delivery (`telegram.py`, `telegram_scheduler.py`) | delivery rows, dispatch lock, activation, cooldown | queue, send, record outcome, retry | Bot API | crash between send and record, rate limits | at-least-once, sticky outcomes, retries without a bound until an outcome settles |
| Push outbox (`lib/push/store.ts`, `dispatch.ts`) | releases, deliveries, subscriptions, action capabilities | release, claim, send, mark, retry, dismiss | Web Push services, the bridge, owner commands | claims that stall, functions cut off, devices revoked meanwhile | one attempt per claim, nothing from before the activation, one command per dismissed event |
| Content requests (`services.py`, `research.py`, `assistance.py`) | `work_item` rows with leases, versions of a story's draft, results | request, search, claim, draft, save by hand, archive | sandboxed model, source search, dashboards | a lease that runs out under a slow turn, an owner who is faster | one accepted result per request, none over the owner's own |
| Collector (`collector.py`, `source_registry.py`, `revisions.py`) | source state and validators, stored entries, stories and revisions, outage flags | scan, store, judge health, announce an outage | feeds, the scan lock, notifications | deaths between statements, a dead network taken for dead sources | nothing a validator stands for is missing, each change makes a revision |
| Evidence inspection (`evidence.py`, `assistance_broker.py`) | inspected pages, spool of the sandbox | fetch, judge, broker | content requests | guarded input and output | one call at a time |
| Installer (`installer.py`) | release directories, `current` link | install, switch, roll back | launchd | crash between steps | `current` always names a whole release |

Not part of the models: the vendored `skills/last30days` engine, the Go wrapper
in `mcp/`, `telegram-handoff/`, `hooks/`, the web templates and the user
interface, source adapters, ranking and formatting.  They are pure functions,
generated code or I/O without shared state.

How the components meet: the scan worker runs the collector, then drains the
generation queue; the collector inserts relevance events and the rows of
Telegram topics; the dispatcher sends them.  The same events reach the hosted
dashboard with the sync, whose completing call releases them to the push outbox.  The hosted bridge polls: it uploads
the projections (BridgeSync), then fetches, executes and answers owner commands
(BridgeCommands), and a command may queue a generation job (GenerationJobs), a
scan (ScanWorker) or a content request (ContentDrafts).  A dismissal on a device
becomes such a command.  No component calls back into another under a lock; what they
share is rows, so each model ends at the rows it shares, and takes what the
others write there as an input that may come at any moment.

## Modules

`M.tla` models a component and states its properties, `M_proofs.tla` holds its
theorems, `MCM.tla` and `MCM_*.cfg` are the instances TLC checks.  An operator
called "mutant" in a comment is the definition below it with a plausible bug;
the runs must reject it.

### GenerationJobs: `generation.py`

One row of `generation_job` per job, with the columns that steer it (`status`,
`lease_owner`, whether the lease is still running, `response_json`,
`question_json`), and for each process the in-memory `_Runtime`: the worker lock,
the live sessions, the sessions that wait for an answer.  A process has one
thread inside `run_pending()` or `_hold_input_session()` with the lock (`at`,
`job`, `via`) and any number of holding threads (`holds`).  Every access to the
database is a step, because `execute()` and `one()` open a connection of their
own; `transaction()` is one step.  `cancel()` and `respond()` are two steps, the
read and the write.  Leases are a flag that `Expire` lowers at any moment.

Ghost state: `turns` and `starters` record the requests for a billable turn,
`early` the answers that were stored before the `finally` block of the turn that
asked, which closes the session for them.

`JobLifecycle` is what the queue promises without processes, leases, sessions or
locks: the phases the owner can see a job go through, one payer for its turn, a
question that is answered before the job goes on.  `KeepsLifecycle` says that
GenerationJobs implements it: `phase` is `status` with an answered row told from
a new one by its stored response, and `payers` are the `starters`.  Steps on
leases, locks, sessions and holds are stutters of it.  `SessionWatched` is about
what JobLifecycle leaves out: an open app server always has a thread of its
process that will close it.

### BridgeSync: `hosted_bridge.py` sync, `store.ts` handlers

One projection of several; stories and resources run the same protocol.  A
digest is the content it is computed from.  A request carries one row, which is
the finest split of the chunks the code sends, and each database call of a
handler is a step.  `Abort` stands for everything that ends a sync early: a
refused or lost request, a timeout, a death of the bridge; the next poll starts
over.  The digest is published by a step of its own (`Publish`), so that an
`Abort` after it is a completing call whose answer was lost.  A simplification: an
`Abort` ends the server's handler with the call; a handler that goes on without
its caller is left out.

`Mirror` is the promise: a transfer carries the content read when it was opened,
rows change only to that content, and publishing it shows exactly it, as long as
nothing broke; after a break, a transfer may leave wrong only rows on which its
content and the one published before agree.  `KeepsMirror` maps a transfer to the
bundle of the one bridge, from the call for the state to `Publish`.

### BridgeCommands: `hosted_bridge.py` commands, `store.ts` command queue

Rows of `command_queue`, the handlers of GET and of the result call split at
their database calls, and the bridge's loop: execute, record, post.  The history
is modelled with its insertion order in memory and its sorted order on disk,
because `record()` forgets by order and the file is written with `sort_keys`.
Time is two flags a command may raise at any moment, "expired" and "claimed over
two minutes ago".

`OwnerOrders` is what the owner is promised: an order is carried out only while it
is open, once, and once more at most for each death of the bridge until the history
overflows; one that was never carried out may expire; any other is closed with its
last result, and that is final.  `KeepsOrders` maps the status of a command to its
phase and the overflow of the history (`Overfull`) to `spilled`.

### TelegramDelivery: `telegram.py`, `telegram_topics.py`, `telegram_scheduler.py`

Rows `<<event, topic>>` with topic 0 for the group as a whole, the settings the
owner changes, and one dispatcher under the file lock, split at its calls and
its transactions.  The owner's actions are each one transaction under the same
lock, so they interleave with runs of the dispatcher, not with its steps; the
collector inserts without the lock, so `Detect` interleaves with everything.
Left out: the pacing slot (it delays a message and never decides whether it is
sent), the wording of messages, and the order of topics, which is that of their
numbers.

`DeliveryLedger` is what this module and PushOutbox promise for each message: it
is shown once, and once more only for each time nobody could know whether it was
shown; it is recorded as delivered only after it was shown; what is recorded at
its end stays.  `KeepsLedger` in both modules maps their statuses to four outcomes,
and what a bot or a push service accepted to what was shown.

### PushOutbox: `lib/push/store.ts`, `dispatch.ts`

A delivery is an article and a device.  The completing call of the bridge
releases articles in its batches (`SyncSubs`, `SyncEvents`, `SyncDeliver`); each
request to the worker starts a dispatcher (`Sweep`, `Select`, `Take`, `Post`,
`Accept`, and one action for each way an attempt ends), so that several run at
once and each can be cut off between any two of its calls (`Die`); a device
dismisses an event in four statements (`TapInsert` to `TapComplete`).  Changes
of the runtime mode number the activations (`era`).  Time is flags: an attempt is
due, a claim's lease of five minutes runs, a delivery or an article is 72 hours
old.  Left out: informational events and their follow-ups, the end of a
capability after 72 hours, the limits of a batch (20 and 50), payloads that do not
parse, which nothing writes, and that a batch reads the clock once per call.

### ContentDrafts: `services.py`, `research.py`, `assistance.py`

"Create content" for one story.  A request is a work item, the source search it
waits for, and a shell the owner may fill in and save; its thread runs
`create_content` to the end of the drafting turn (`Create`, `Shell`, `Look`,
`Found`, `Requeue`, then the steps of `run_assistance_work`), and a call of
`assistance run-pending` (`Cli`) may take any item that is due.  A claim is fenced
by `attempt_count`, and so are all outcomes but one (`Defer`), as in the code.
If the owner has finished a request by hand before `Shell`, no shell is made and no
thread starts.
`Elapse` is a lease or delay that runs out, `Die` a process that ends.

`DraftDesk` is what the owner of the story is promised: one request is asked for
at a time, the model answers it once and only while it is open, or gives it up, and
the owner may finish it by hand, after which only the owner changes the text; every
change is a new version and closes what it replaces.  `KeepsDesk` maps an item
with its search and leases to where the owner sees it (`State`).

Left out: the items of earlier versions (draft, research, semantic), the packets
and the sandbox, and the review states of a saved draft.

### Collector: `collector.py`, `source_registry.py`

One scan after the other, under the lock of ScanWorker.  A feed is a page of
entries, an id and a text; the validator a source sends stands for its page, so
that a 304 is an equality.  The transaction that stores a page (`Record`) is one
step, and so is each single statement of the health of a source and of the
notices of an outage (`Activate` to `ClearAlerted`); `Die` comes between any two.
Whether an interval is over is left open: a scan may find any set of sources
due.  Publishers edit between scans only, since a page is read once in a scan;
for the same reason an outage starts or ends between sources.  Left out: dates,
metrics, relevance and scores, notices about single sources, leads found in
pages, changed URLs, upgrades of hashes, a full disk, and recovery intervals.

`current` stands for the column `last_success_at` of a source, as far as it can be
told apart here: whether the last success is younger than the last change of what
the source publishes.

`Newsroom` is the same without scans, validators, networks, deadlines and deaths:
a source is read as a whole, each reading takes all that is new or changed at
that moment, and a story has another revision exactly when it shows something
else.  It sees `health` and `current` as well: only a reading makes a source
healthy or its success current, a failure or the owner's switch (`Doubt`) only
casts doubt on it, and a change of the page (`Publish`) makes its success old.
`KeepsNewsroom` maps what was read to the stored entries; a page stored (`Record`),
also after a 304 that brought no page, is a reading.  It is a stutter only if
the source was healthy and current already and nothing is new: a source that is
called healthy on a 304 for a page whose entries were never stored breaks
`KeepsNewsroom`, and the mutant that stores the validator before the page does
just that.

### ScanWorker: `runner.py`, `services.py`, `scheduler.py`

The rows of `work_item` with kind `scout_scan` or `catch_up`: the two that
coalesced triggers share, one for each "run now", one for each catch-up asked
for in a dashboard.  A worker is launchd's process, a command, or a thread of a
dashboard.  `Acquire`, `Miss` and `Merge` are the non-blocking lock and
`_coalesce()`; `Claim`, `Scanned`, `Finish` and `Release` are the run; `Crash` is
a death anywhere in it.  `Ask` and `Insert` are the two statements of "run now".
`owed` and `dropped` are ghost: a trigger that no scan has answered, and whether
anything still stands for it.

`ScanBatches` is the queue without workers and locks: one scan after the other,
each serving everything that was queued when it began, and everything served
ending as its scan did.  `KeepsBatches` maps the scan to the place of the worker
that has the lock, and what it serves to what is claimed.

The recovery interval, the 25-minute deadline and the commands that install or
pause the schedule are not modelled.

## What the runs check

| Run | Bounds | What it shows |
|---|---|---|
| `generation_safety` | 2 processes of which 1 may die, 2 jobs of which 1 was cancelled earlier (its text can be edited), 1 question, 2 owner calls | one driver per job, a displayed question has a session and a thread behind it, an open app server has a thread that will close it (`SessionWatched`), a job asks for no more turns than it owes (`TurnsOwed`), the queue implements JobLifecycle (one payer, finished stays finished); the job of the dead process is reported, every app server is closed, a queued row is taken |
| `generation_same_turn` | 1 process, 1 job, 1 question | **violation**: an answer stored before the `finally` block costs the session and starts a second turn |
| `sync_faithful` | 1 bridge, 2 keys, 2 values, 3 edits, 2 failures | the upload implements Mirror (`KeepsMirror`: what is published is what was read, with failures up to rows both contents share), a published full upload is exact, the copy catches up |
| `sync_stuck` | the same, 1 failure | **violation**: one abandoned delta can make every later sync fail, and no command is fetched any more |
| `cmd_safety` | 1 bridge, 2 commands, 2 results, a history of 1, 1 lost call, 1 death, 1 unwritable file | the queue implements OwnerOrders (`KeepsOrders`: answers are final and the last result, only a death or an overflow repeats an execution), a recorded command is executed again only when the history had to forget it, nothing runs after it expired, every command is answered unless it expires |
| `telegram_ledger` | 2 events, 2 topics, 2 groups, 3 setups, 2 failed calls, 1 death | nothing is replayed or redirected, the rows implement DeliveryLedger (`KeepsLedger`: nothing repeats without a doubt about it, an outcome stays), a refusing channel is left alone, what is due is settled |
| `scan_queue` | launchd, 2 threads, 2 dashboards with 1 new row for "run now", 4 rows, 1 command, 1 death | the queue implements ScanBatches (`KeepsBatches`: what is reported done had a scan begun after it was asked for, only a death leaves rows running), each trigger is followed by a scan and each row leaves the queue |
| `scan_dropped` | the same with 5 rows, no death | **violation**: a trigger between the end of a scan and the settling of its rows is answered and forgotten |
| `push_claims` | 1 article, 1 device, 2 dispatchers, 2 attempts, and 1 each of: a change of mode, a lease that runs out, a call cut off or an answer lost, a device revoked | no attempt is made twice, nothing from before the activation is pushed, the deliveries implement DeliveryLedger (`KeepsLedger`), everything ends |
| `push_dismissed` | 1 article, 2 devices, 2 dismissals, 1 dispatcher, 1 call cut off | one command results, nothing new is sent after it, a confirmed dismissal is durable |
| `content_requests` | 2 requests and 1 command-line call for one story, 3 versions, 1 open page, 1 death | the requests implement DraftDesk (`KeepsDesk`: one accepted result per request and none over the owner's own, settled stays settled), no draft before its search, a shell that can be saved, every request ends |
| `collector_scans` | 2 sources of which 1 sends validators, 2 articles of one story, 2 ids, 2 texts, a threshold of 2, and any 3 of: 1 edit, 1 switch, 2 outages, 1 fault, 2 deaths | the collector implements Newsroom (`KeepsNewsroom`: a source is called healthy, or its success renewed, only by a step that stores all it publishes, also on a 304; a story has another revision exactly when it changed), nothing a validator stands for is missing, an outage spares the sources, notices alternate, what stays published is collected |

Each module also states a type invariant and the strengthening behind its
properties (`HandInv`, `SyncInv`, `FaithInv`, `DeltaInv`, `CommandInv`,
`DeliveryInv`, `LockInv`, `ContentInv`, `CollectorInv`), and a few properties
that follow from others the runs check: `OneStarter` and `NeverReopened` from
`KeepsLifecycle`, `DeltaOnPublished` and `HostedFaithful` beside `KeepsMirror`,
`RunsOnlyClaimed`, `RepeatsOwed` and `OwnerSeesLastRun` from `KeepsOrders`,
`OneMode`, `OnlyDoubtsRepeat` and the outbox's `SettledStays` from
`KeepsLedger`, `NoneLeftBehind` beside `KeepsBatches`, `SettledStays` and
`OneResult` of content from `KeepsDesk`, `StoryFollows` from `KeepsNewsroom`,
and `ShownIsStored`. TLC agreed with each before it was proved; since they are
theorems for every instance, the runs do not repeat them.

Why these bounds.  The hazards are races between two parties over one row: two
processes over a job, a handler and a bridge over a command, an upload and an
edit, a worker and a late trigger.  One contested row with two actors and one
or two faults reaches every place at which either can be interrupted, and a
second row or key is there only where a property relates two (counts of rows,
pages of the dispatcher, the order of a history).  Counters that the code does
not bound (edits, failures, calls) are bounded by a constant that a guard names;
the theorems have no such bounds.  Two processes suffice for the queue since
every guard of a claim speaks of one row and one other holder; the theorems
confirm it for any number.

A threshold of 2 for 3 failures, and 2 attempts for 6, keep the step before the
limit, the limit, and the reset, which are the cases the code tells apart.

Deadlock is checked for the bridge, scan and collector modules.  It is off for the
queue and for content requests (every job may be finished and every thread gone),
for Telegram (delivery may be off for good), and for the outbox (every delivery
may have ended).

### Fairness

Every liveness property assumes only that what the code loops on goes on.

- Queue: `run_pending()` is called again and again in each process that lives
  (after each command and click, by each scan, at the start of the bridge), a
  turn ends at the latest by its 30-minute limit, a holding thread looks every
  second.  `Claim` is strongly fair: the lock is free again and again, and the
  thread that finds it busy is not the last one.  Nothing is assumed of the
  owner, of the clock or of a process's survival, except that of `Steady`.
- Bridge: `run_forever()` polls; a step of a sync is taken if it can be.  Failures
  are bounded by `MaxAborts`, so each property is about what holds once they stop.
- Commands: the same, and two minutes pass after a claim.
- Telegram: launchd starts a dispatcher every minute and its 50 seconds leave time
  for a first message; backoffs and cooldowns run out.
- Push: requests to the worker keep coming, so that a dispatcher that ended is
  followed by another; a call to a push service ends; three days pass for every
  delivery.  Nothing is assumed of the bridge, the devices, the mode or leases.
- Content: the thread of a request and any worker that drafts go on, since the
  search has its budget and the turn its timeout.  Nothing is assumed of the owner,
  of the clock or of the command line; `EveryRequestEnds` excludes deaths and
  deferrals, after which nothing goes on (see below).
- Collector: a scan goes on and an outage ends; a scan in which a source is due
  starts again and again (launchd is half-hourly, intervals pass), strongly fair
  because a scan can start only between scans.  Nothing is assumed of publishers
  or of the owner, and cut off scans and deaths are bounded.
- Scan: launchd starts its worker while the agent is loaded, and a run ends because
  it has a deadline.

## What is proved

TLAPS checks these for every value of the constants that the named assumptions
allow; nothing is assumed beyond those.

- **GenerationJobs_proofs**: `TypeOK`, `HandInv`, `SingleDriver`, `OneStarter`,
  `NeverReopened`, `QuestionIsHeld`, `SessionWatched`, `TurnsOwed` and the refinement
  `KeepsLifecycle`, for any number of processes, jobs, questions and calls.
  `SingleDriver` is not inductive: a second driver may come from a holding thread
  or from the row itself.  `HandInv` says that at most one process is *tied* to a
  job (it drives it, requested its turn, or holds its session), that an unfinished
  row names that process, that a row open to all is tied to none, and that a
  holding thread with the lock is the one that took it.  `QuestionIsHeld` rests on
  two more facts: a session was opened for the turn its process requested last, or
  is about to, unless that failed and it is being closed (`SessionInv`), and a
  turn of a running row is consumed from a session (`ConsumeInv`).
  `SessionWatched` needs three of its own: a dead process has no thread
  (`DeadGone`), a running row of a living process is driven by it
  (`RunningDriven`), and an answer that waits to be sent has a holding thread that
  will find it (`AnswerHeld`).  `TurnsOwed` bounds what the finding `SameTurn` costs:
  a job that neither failed nor was cancelled has had one turn, and one more for each
  answer in `early`.  Its invariant `TurnInv` says that a worker finds its row running
  unless it failed or was cancelled (`RunRow`), that an unfinished job of a living
  owner that lost its session is owed a turn (`PaidKept`), and that a worker about to
  ask for one owes it (`TurnOwed`).
- **BridgeSync_proofs**: types for any number of bridges; with one bridge
  `SyncInv`, `DeltaOnPublished`, `FullSyncExact`, `FaithInv`, `HostedFaithful`
  until something fails, and the refinement `KeepsMirror`.  `SyncInv` says what a
  bridge in the middle of an upload knows: the digest it saw is still published, its
  identifier is current and tags the rows it uploaded and no others.  `FaithInv`
  accounts for each row during a delta as old or new.  The refinement uses both, the
  theorem `NeverRefused` (the count the completing call checks is right until
  something fails, so that a transfer is never left for that reason), and `DeltaInv`,
  which holds through every failure: a row a delta has dealt with is in place, so
  that only rows on which manifest and bundle agree can be wrong when it is published.
- **BridgeCommands_proofs**: with any number of bridges, that an expired command
  never ran; with one bridge, whatever its history holds and however often it
  overflows, that only claimed commands are executed, `RepeatsOwed`,
  `RecentNeverRerun`, `OwnerSeesLastRun` and the refinement `KeepsOrders`.  `CommandInv` relates what the server
  has claimed, what the bridge was given, and the history in memory and on disk:
  the keys of the dictionary are those in its order, what it has is the last result,
  what the file would bring back is not older than what the bridge knows
  (`LastInv`), a result recorded recently has a place in the order that its age
  bounds, so that forgetting the first key never takes it (`ForgetInv`), and what was
  executed since the last death is in the dictionary or about to be (`RepeatInv`).
- **TelegramDelivery_proofs**: `TypeOK`, `DeliveryInv` and from it `SendsOnlyNew`,
  `OneMode`, `OnlyDoubtsRepeat`, `RefusedOnce` and the refinement `KeepsLedger`.
  The inductive invariant is `DeliveryInv` with `OneMode`: what the dispatcher has
  read is current, rows of topics of this activation go to the present group, an
  event of this activation has rows in the present mode only, and the count of
  messages agrees with the ledger up to the doubts.
- **ScanWorker_proofs**: `TypeOK`, `LockInv`, `NoneLeftBehind`, `FollowedUp` and the
  refinement `KeepsBatches` for any number of workers, dashboards, requests and
  deaths, with the agent loaded or not.  The refinement rests on `LockInv`: what is
  claimed is claimed by the one worker that has the lock, stays running until it
  settles it, and nothing is claimed by a worker that has no scan under way.
- **PushOutbox_proofs**: `TypeOK`, `ClaimOnce`, `NoBackfill`, `OnlyDoubtsRepeat`,
  `SettledStays`, `DismissedQuiet`, `OneCommand`, `DismissDurable` and the refinement
  `KeepsLedger`, for any number of articles, devices and dispatchers.  A claim
  carries the number of its attempt; no two claims of one row have the same, none is
  ahead of the row's count, and each taken send is accounted for by the row's status
  or by a doubt; a dispatcher that marks a row delivered had its send accepted.
- **ContentDrafts_proofs**: `TypeOK`, `SettledStays`, `OneResult`,
  `DraftsAfterSearch`, `ShellsOpen`, `OnlyRevivedOverlap` and the refinement
  `KeepsDesk`, for any number of requests and command-line calls, from `ContentInv`:
  a request's thread works on its request, and its search has ended when, and not
  before, it queues it.
- **Collector_proofs**: `TypeOK`, `NothingSkipped`, `ShownIsStored`,
  `NoticesAlternate`, `StoryFollows`, `SparedOffline` and the refinement
  `KeepsNewsroom`, for any number of sources,
  articles, stories and any threshold, from `CollectorInv`: a 304 was given for the
  page the validator stands for (`PageInv`), the page about to be stored is the one
  the source publishes (`FreshInv`; with `PageInv` and `NothingSkipped`, a 304 hides
  nothing, which is what the refinement needs: a step that makes a source healthy or
  its success current is a reading of all it publishes, and the steps that change
  its health otherwise are doubts), sources are judged one by one only
  when the network was seen (`SeenInv`), and the flags agree with the newest notice
  except inside an announcement or after a death (`NoticeInv`).

Each of the eight modelled components thus has an abstract specification and a
theorem that it implements it: JobLifecycle, Mirror, OwnerOrders, DeliveryLedger
(twice), DraftDesk, ScanBatches and Newsroom.

The shape is the same in each: a lemma that the initial state satisfies the
invariant, one lemma per invariant with one step per action, and a theorem that
combines them by temporal logic.  A refinement adds a lemma that the initial state
maps to an initial one and a lemma that each step maps to a step or a stutter,
again with one step per action.

Only model-checked: every liveness property (`QueuedTaken`, `OrphansSettled`,
`SessionsReleased`, `CatchesUp`, `AnsweredInTime`, the
`EverySettled` of Telegram and of the outbox, `QueueDrains`, `ScanFollows`,
`EveryRequestEnds`, `EverythingCollected`), because the prover has neither fairness
nor ENABLED.  No module declares a recursive operator, so that each can be proved
about.

## What the models found

Three disagreements between what the repository says and what its code does are
runs of their own, with the quoted line in `findings` of `PROJECT.json`: a second
billable turn after an early answer (generation), a sync that never completes
again after an abandoned delta and with it all owner commands (bridge), and a
trigger that no scan follows (runner).

Behaviour of the code that the models show or that the reading found, without a
run of its own:

- *Generation.*  Permission prompts all carry the id `decision`, and
  `tests/test_generation.py:295` keeps it, so that an answer sent for one question
  and read late is taken for the next (`generation.py:545`).  An answered row that is
  cancelled, or fails because its lease ran out, between its claim and the look for
  its session (`generation.py:264`) may have lost the session by then: the worker
  opens another and asks for a turn of a job that is over.  `TurnsOwed` leaves out
  these jobs and holds for all others.
- *Commands.*  A claimed command that expires is never settled.  A full history
  forgets by order in memory, and by name after a restart, because the file is
  sorted; a recent command it forgot is executed again.
- *Content.*  An item that was deferred is `waiting`, which no claim takes, though
  `services.py:1233` says that it can resume after a reset.  A death during the
  search leaves it `running` and the story blocked.  `research.py:608` queues a
  request again without looking at its status: one that failed meanwhile is revived
  next to its successor (`OnlyRevivedOverlap` says that this is the only overlap).
  A late result makes an archived story `content_ready`.  `_mark_waiting()`
  (`assistance.py:1881`) is not fenced: a worker that lost its lease can mark the
  item waiting under the one that has it.
- *Collector.*  An offline scan cut by the deadline advances streaks, which
  `tests/news_wire/test_collection.py:1701` intends and
  `docs/source-registry-validation.md` does not.  One dead source that is the only
  one due is judged an outage of the whole Mac.  A death between the two resets
  (`collector.py:304-305`) swallows the next notice.  A source switched off during
  its fetch is "healthy" and disabled.  A source degraded at once becomes "pending"
  with one more ordinary failure and recovers without a notice (`collector.py:1340`).
  The order is fixed, so that scans cut at the same place never reach the last
  sources; a captive portal degrades every source at once; and a change of filters
  keeps the validator (`source_registry.py:24-104`), so that an unchanged page is
  not read again.

What the conditions of the other properties keep out, so that they are not read
as more than they say:

- The counterexample of `KeepsServing` needs an abandoned upload; edits alone do not
  keep the bridge from its commands.
- `HostedFaithful` and `FaithInv` stop at the first failure, after which Mirror
  lets a delta leave rows behind: an upload that is
  abandoned leaves rows of the new content under the old digest, and if the
  content changes back nothing removes them until the next full upload.
- The bridge theorems assume one bridge.  `hosted-bridge once` next to the agent is two:
  their uploads delete each other's rows, and each has a history that it read
  once, at its start, so that either may execute what the other recorded.
- A bridge that dies after it executed a command and before it recorded it executes
  it again.  This is inherent: `RepeatsOwed` allows one repetition for each death and
  nothing else until the history overflows, and `RecentNeverRerun` speaks of
  recorded commands.
- `RepeatsOwed` and half of `OwnerSeesLastRun` end when more commands were executed
  than the history holds (500 in the code); `RecentNeverRerun` says what holds then.
- `FollowedUp` has `dropped` on its left side: it says that a row still running, or a
  death, is the *only* way to lose a trigger.  `ScanFollows` shows that the schedule
  repairs it, half an hour later, unless the agent is not loaded.
- `NoneLeftBehind` ends at the first death, and ScanBatches allows a death to leave
  what the scan served running: nothing resets the rows of a worker that
  died, and "run now" answers `already_queued` from then on.

Seen while reading and not stated as properties: the 24-hour rule of
`docs/operator-guide.md:70-72` has no counterpart in the selection of pending
rows; `docs/operator-guide.md:149` advises `hosted-bridge once`, which is a second
bridge when the agent still runs; and `last_scan_at`,
the start of a recovery, is also set by a scan that found the machine offline,
where `docs/operator-guide.md:5` speaks of the last successful scan.  A lease
names a process by its pid, which the system may use again; the models give every
process a name of its own.

## Not modelled, and the plan

Known and without a property: `_persist_outputs()` writes by id whatever the
row's status is (`generation.py:513`); the check for a repeated request runs
outside the inserting transaction (`generation.py:175`); two bridges at once
(`store.ts:295`); a history read once (`hosted_bridge.py:577`); one refused result
that ends the sync (`hosted_bridge.py:1174`); a paused schedule with a queued row
(`services.py:2446`); the two renames of a release (`installer.py:545`); a registry
that changes between scans (`source_registry.py:116`).

What is left, in this order:

1. **ReleaseSwitch**, `installer.py:352-555`: migrate, switch, roll back, with a
   death between any two steps.
2. The request ids of `enqueue()` and `retry()`, the native notifier as another
   consumer of the relevance events, and `GenerationJobs` composed with
   `ScanWorker`, whose runs drain the queue under the scan lock.

Left aside for good: the vendored engine and companion tools, the source adapters,
ranking, hashing, templates, the command line and the hosted pages are functions of
their input or rows shown to one user; the sandbox, the network guards, the
sign-in and the app server's transport have one request under way at a time and
no shared state of their own.  They are most of the repository's lines, and the
reason why the map covers a small share of them.

A run is kept for each question and no more; when a module of the plan arrives,
runs of the same component that differ by a bound only are merged.
