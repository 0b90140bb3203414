--------------------------- MODULE BridgeCommands ---------------------------
(***************************************************************************)
(* How a command of the owner travels from the hosted dashboard to the     *)
(* laptop and its result back.                                             *)
(*   src/hosted-dashboard/lib/dashboard/store.ts         command_queue     *)
(*   src/src/open_source_ai_news_wire/hosted_bridge.py   sync_once()       *)
(* A bridge claims commands with GET, executes each one it has no result   *)
(* for in its history, records the result in the history file, and posts   *)
(* it.  A claim older than two minutes may be made again, as long as the   *)
(* command has not expired.  Every call may fail, at either end, and a     *)
(* bridge may die at any point and be started again.                       *)
(*                                                                         *)
(* Time is two flags a command may raise at any moment: its expires_at has *)
(* passed (late), its claim is over two minutes old (stale).  Each         *)
(* statement of the claiming handler is a step.  A result is one of a few  *)
(* values: an operation may answer otherwise when it is executed again.    *)
(***************************************************************************)
EXTENDS Naturals, Sequences, FiniteSets

CONSTANTS
  Bridges,        \* processes that run sync_once(): the agent, hosted-bridge once
  Cmds,           \* commands; their order is that of their identifiers
  Results,        \* what execute() can return, errors included
  Refusals,       \* those of them that are errors
  HistoryLimit,   \* entries CommandHistory keeps: 500 in the code
  Batch,          \* commands one GET claims: 10 in the code
  MaxAborts,      \* bound: failed requests
  MaxCrashes,     \* bound: deaths and stops of bridges
  MaxUnwritten,   \* bound: history files that could not be written
  None, Expired   \* no result; the error of expireCommands()

ASSUME CommandAssumption ==
  /\ IsFiniteSet(Cmds) /\ Cmds \subseteq Nat
  /\ Refusals \subseteq Results
  /\ None \notin Results /\ Expired \notin Results /\ None # Expired
  /\ HistoryLimit \in Nat \ {0} /\ Batch \in Nat \ {0}
  /\ MaxAborts \in Nat /\ MaxCrashes \in Nat /\ MaxUnwritten \in Nat

VARIABLES
  status,   \* command_queue.status, "none" before the owner's request
  answer,   \* its result or error
  late,     \* commands whose expires_at has passed
  stale,    \* commands claimed more than two minutes ago
  handler,  \* where the GET of each bridge is on the server
  rows,     \* the rows its SELECT found and its loop has not reached
  old,      \* those of them whose claim was stale then, and still is that claim
  mine,     \* the rows it claimed
  pc,       \* where each bridge is
  list,     \* the commands it was given and has not finished
  cmd,      \* the one it works on
  got,      \* the result it got last
  memory,   \* CommandHistory._entries
  order,    \* the order of its keys
  disk,     \* the history file
  runs,     \* how often each command was executed
  last,     \* the result of its last execution
  log,      \* the commands recorded on disk, in that order
  aborts, crashes, unwritten   \* faults so far

server  == <<status, answer>>
times   == <<late, stale>>
claim   == <<handler, rows, old, mine>>
bridge  == <<pc, list, cmd, got>>
history == <<memory, order, disk, log>>
effects == <<runs, last>>
faults  == <<aborts, crashes, unwritten>>
vars    == <<server, times, claim, bridge, history, effects, faults>>

Open    == {"pending", "claimed"}
Settled == {"completed", "failed"}

Nothing == [c \in Cmds |-> None]

TypeOK ==
  /\ status \in [Cmds -> {"none"} \cup Open \cup Settled]
  /\ answer \in [Cmds -> Results \cup {None, Expired}]
  /\ late \subseteq Cmds /\ stale \subseteq Cmds
  /\ handler \in [Bridges -> {"idle", "expire", "select", "claim"}]
  /\ rows \in [Bridges -> SUBSET Cmds]
  /\ old \in [Bridges -> SUBSET Cmds]
  /\ mine \in [Bridges -> SUBSET Cmds]
  /\ pc \in [Bridges -> {"down", "idle", "wait", "work", "record", "post", "done", "refused"}]
  /\ list \in [Bridges -> SUBSET Cmds]
  /\ cmd \in [Bridges -> Cmds \cup {None}]
  /\ got \in [Bridges -> Results \cup {None}]
  /\ memory \in [Bridges -> [Cmds -> Results \cup {None}]]
  /\ order \in [Bridges -> Seq(Cmds)]
  /\ disk \in [Cmds -> Results \cup {None}]
  /\ runs \in [Cmds -> Nat]
  /\ last \in [Cmds -> Results \cup {None}]
  /\ log \in Seq(Cmds)
  /\ aborts \in 0..MaxAborts /\ crashes \in 0..MaxCrashes /\ unwritten \in 0..MaxUnwritten

Init ==
  /\ status = [c \in Cmds |-> "none"]
  /\ answer = Nothing
  /\ late = {} /\ stale = {}
  /\ handler = [b \in Bridges |-> "idle"]
  /\ rows = [b \in Bridges |-> {}]
  /\ old = [b \in Bridges |-> {}]
  /\ mine = [b \in Bridges |-> {}]
  /\ pc = [b \in Bridges |-> "down"]
  /\ list = [b \in Bridges |-> {}]
  /\ cmd = [b \in Bridges |-> None]
  /\ got = [b \in Bridges |-> None]
  /\ memory = [b \in Bridges |-> Nothing]
  /\ order = [b \in Bridges |-> <<>>]
  /\ disk = Nothing
  /\ runs = [c \in Cmds |-> 0]
  /\ last = Nothing
  /\ log = <<>>
  /\ aborts = 0 /\ crashes = 0 /\ unwritten = 0

-----------------------------------------------------------------------------
\* The owner asks for c.  A second request for the same alert is ignored.
Enqueue(c) ==
  /\ status[c] = "none"
  /\ status' = [status EXCEPT ![c] = "pending"]
  /\ UNCHANGED <<answer, times, claim, bridge, history, effects, faults>>

Late(c) ==
  /\ status[c] \in Open /\ c \notin late
  /\ late' = late \cup {c}
  /\ UNCHANGED <<server, stale, claim, bridge, history, effects, faults>>

Stale(c) ==
  /\ status[c] = "claimed" /\ c \notin stale
  /\ stale' = stale \cup {c}
  /\ UNCHANGED <<server, late, claim, bridge, history, effects, faults>>

\* Mutant of Expirable: a claimed command expires too.
ExpirableOpen(c) == status[c] \in Open /\ c \in late

Expirable(c) == status[c] = "pending" /\ c \in late

\* expireCommands()
Expire ==
  /\ status' = [c \in Cmds |-> IF Expirable(c) THEN "failed" ELSE status[c]]
  /\ answer' = [c \in Cmds |-> IF Expirable(c) THEN Expired ELSE answer[c]]

\* The owner opens a page that lists the commands.
ListCommands ==
  /\ \E c \in Cmds : Expirable(c)
  /\ Expire
  /\ UNCHANGED <<times, claim, bridge, history, effects, faults>>

-----------------------------------------------------------------------------
Elements(s) == {s[i] : i \in DOMAIN s}

\* The increasing sequence of the elements of S.
Sortings(S) ==
  {s \in [1..Cardinality(S) -> S] :
     Elements(s) = S /\ \A i, j \in DOMAIN s : i < j => s[i] < s[j]}

\* The process starts and loads the history file, which has its keys sorted.
Start(b) ==
  /\ pc[b] = "down"
  /\ pc' = [pc EXCEPT ![b] = "idle"]
  /\ memory' = [memory EXCEPT ![b] = disk]
  /\ \E s \in Sortings({c \in Cmds : disk[c] # None}) :
       order' = [order EXCEPT ![b] = s]
  /\ UNCHANGED <<server, times, claim, list, cmd, got, disk, log, effects, faults>>

\* The process dies or is stopped.
Crash(b) ==
  /\ crashes < MaxCrashes /\ pc[b] # "down"
  /\ crashes' = crashes + 1
  /\ pc' = [pc EXCEPT ![b] = "down"]
  /\ list' = [list EXCEPT ![b] = {}]
  /\ cmd' = [cmd EXCEPT ![b] = None]
  /\ got' = [got EXCEPT ![b] = None]
  /\ memory' = [memory EXCEPT ![b] = Nothing]
  /\ order' = [order EXCEPT ![b] = <<>>]
  /\ UNCHANGED <<server, times, claim, disk, log, effects, aborts, unwritten>>

\* sync_once() ends with an exception, or after its last command.
Rest(b) ==
  /\ pc' = [pc EXCEPT ![b] = "idle"]
  /\ list' = [list EXCEPT ![b] = {}]
  /\ cmd' = [cmd EXCEPT ![b] = None]
  /\ got' = got

\* A request or its answer is lost; so is a result that was not recorded.
Abort(b) ==
  /\ aborts < MaxAborts /\ pc[b] \in {"wait", "post", "done"}
  /\ aborts' = aborts + 1
  /\ Rest(b)
  /\ UNCHANGED <<server, times, claim, history, effects, crashes, unwritten>>

\* GET /api/bridge/commands, when the server has done with an earlier one.
Ask(b) ==
  /\ pc[b] = "idle" /\ handler[b] = "idle"
  /\ pc' = [pc EXCEPT ![b] = "wait"]
  /\ handler' = [handler EXCEPT ![b] = "expire"]
  /\ UNCHANGED <<server, times, rows, old, mine, list, cmd, got, history, effects, faults>>

ClaimExpire(b) ==
  /\ handler[b] = "expire"
  /\ handler' = [handler EXCEPT ![b] = "select"]
  /\ Expire
  /\ UNCHANGED <<times, rows, old, mine, bridge, history, effects, faults>>

\* Mutant of Claimable: a command is claimed once.
ClaimableOnce(c) == c \notin late /\ status[c] = "pending"

Claimable(c) ==
  /\ c \notin late
  /\ status[c] = "pending" \/ (status[c] = "claimed" /\ c \in stale)

\* The SELECT: at most Batch rows.  Which ones depends on created_at.
ClaimSelect(b) ==
  /\ handler[b] = "select"
  /\ \E S \in SUBSET {c \in Cmds : Claimable(c)} :
       /\ \/ S = {c \in Cmds : Claimable(c)} /\ Cardinality(S) <= Batch
          \/ Cardinality(S) = Batch
       /\ rows' = [rows EXCEPT ![b] = S]
       /\ old' = [old EXCEPT ![b] = S \cap stale]
  /\ handler' = [handler EXCEPT ![b] = "claim"]
  /\ UNCHANGED <<server, times, mine, bridge, history, effects, faults>>

\* The guarded UPDATE of one row, with the clock of the SELECT.
ClaimRow(b) ==
  /\ handler[b] = "claim"
  /\ \E c \in rows[b] :
       /\ rows' = [rows EXCEPT ![b] = @ \ {c}]
       /\ IF status[c] = "pending" \/ (status[c] = "claimed" /\ c \in old[b])
          THEN /\ status' = [status EXCEPT ![c] = "claimed"]
               /\ stale' = stale \ {c}
               /\ old' = [x \in Bridges |-> old[x] \ {c}]
               /\ mine' = [mine EXCEPT ![b] = @ \cup {c}]
          ELSE UNCHANGED <<status, stale, old, mine>>
  /\ UNCHANGED <<answer, late, handler, bridge, history, effects, faults>>

\* The GET is over: the bridge has the claimed commands, or has given up.
Receive(b) ==
  /\ handler[b] = "claim" /\ rows[b] = {}
  /\ handler' = [handler EXCEPT ![b] = "idle"]
  /\ old' = [old EXCEPT ![b] = {}]
  /\ mine' = [mine EXCEPT ![b] = {}]
  /\ IF pc[b] = "wait"
     THEN /\ pc' = [pc EXCEPT ![b] = "work"]
          /\ list' = [list EXCEPT ![b] = mine[b]]
     ELSE UNCHANGED <<pc, list>>
  /\ UNCHANGED <<server, times, rows, cmd, got, history, effects, faults>>

\* A statement of the handler fails; a bridge that waits is told so.
ClaimFails(b) ==
  /\ aborts < MaxAborts /\ handler[b] # "idle"
  /\ aborts' = aborts + 1
  /\ handler' = [handler EXCEPT ![b] = "idle"]
  /\ rows' = [rows EXCEPT ![b] = {}]
  /\ old' = [old EXCEPT ![b] = {}]
  /\ mine' = [mine EXCEPT ![b] = {}]
  /\ IF pc[b] = "wait" THEN Rest(b) ELSE UNCHANGED bridge
  /\ UNCHANGED <<server, times, history, effects, crashes, unwritten>>

-----------------------------------------------------------------------------
\* A command of the list has no result in the history: execute it.
Execute(b) ==
  /\ pc[b] = "work"
  /\ \E c \in list[b], r \in Results :
       /\ memory[b][c] = None
       /\ cmd' = [cmd EXCEPT ![b] = c]
       /\ got' = [got EXCEPT ![b] = r]
       /\ runs' = [runs EXCEPT ![c] = @ + 1]
       /\ last' = [last EXCEPT ![c] = r]
  /\ pc' = [pc EXCEPT ![b] = "record"]
  /\ UNCHANGED <<server, times, claim, list, history, faults>>

\* It has one: post it.
Cached(b) ==
  /\ pc[b] = "work"
  /\ \E c \in list[b] : memory[b][c] # None /\ cmd' = [cmd EXCEPT ![b] = c]
  /\ pc' = [pc EXCEPT ![b] = "post"]
  /\ UNCHANGED <<server, times, claim, list, got, history, effects, faults>>

\* Mutant of Forget: [:500].
ForgetNewest(s) == SubSeq(s, 1, Len(s) - 1)

\* [-500:] when there is one key too many.
Forget(s) == Tail(s)

\* The keys with the new one, and those of them that record() keeps.
Keys(b) == Append(order[b], cmd[b])
Full(b) == Cardinality({c \in Cmds : memory[b][c] # None} \cup {cmd[b]}) > HistoryLimit
Kept(b) == IF Full(b) THEN Forget(Keys(b)) ELSE Keys(b)

Entries(b) ==
  [c \in Cmds |->
     IF c \notin Elements(Kept(b)) THEN None
     ELSE IF c = cmd[b] THEN got[b] ELSE memory[b][c]]

\* The dictionary of record().
Remember(b) ==
  /\ memory' = [memory EXCEPT ![b] = Entries(b)]
  /\ order' = [order EXCEPT ![b] = Kept(b)]

Written(b) == Entries(b)

\* record(): the dictionary, and the file that replaces the earlier one.
Record(b) ==
  /\ pc[b] = "record"
  /\ Remember(b)
  /\ disk' = Written(b)
  /\ log' = Append(log, cmd[b])
  /\ pc' = [pc EXCEPT ![b] = "post"]
  /\ UNCHANGED <<server, times, claim, list, cmd, got, effects, faults>>

\* Mutant of RecordFails: the dictionary is changed once the file is written.
RecordFailsFirst(b) ==
  /\ unwritten < MaxUnwritten /\ pc[b] = "record"
  /\ unwritten' = unwritten + 1
  /\ Rest(b)
  /\ UNCHANGED <<server, times, claim, history, effects, aborts, crashes>>

\* The file cannot be written: OSError, and the sync is over.
RecordFails(b) ==
  /\ unwritten < MaxUnwritten /\ pc[b] = "record"
  /\ unwritten' = unwritten + 1
  /\ Remember(b)
  /\ Rest(b)
  /\ UNCHANGED <<server, times, claim, disk, log, effects, aborts, crashes>>

Posted(b) == memory[b][cmd[b]]

Outcome(r) == IF r \in Refusals THEN "failed" ELSE "completed"

\* POST .../result: completeCommand() changes a claimed row, or nothing.
Post(b) ==
  /\ pc[b] = "post"
  /\ LET c == cmd[b] IN
     IF status[c] = "claimed"
     THEN /\ status' = [status EXCEPT ![c] = Outcome(Posted(b))]
          /\ answer' = [answer EXCEPT ![c] = Posted(b)]
          /\ pc' = [pc EXCEPT ![b] = "done"]
     ELSE /\ pc' = [pc EXCEPT ![b] = "refused"]
          /\ UNCHANGED server
  /\ UNCHANGED <<times, claim, list, cmd, got, history, effects, faults>>

\* Answered 200: the next command.
Done(b) ==
  /\ pc[b] = "done"
  /\ pc' = [pc EXCEPT ![b] = "work"]
  /\ list' = [list EXCEPT ![b] = @ \ {cmd[b]}]
  /\ cmd' = [cmd EXCEPT ![b] = None]
  /\ UNCHANGED <<server, times, claim, got, history, effects, faults>>

\* Answered 409, or no command is left: the sync is over.
Over(b) ==
  /\ pc[b] = "refused" \/ (pc[b] = "work" /\ list[b] = {})
  /\ Rest(b)
  /\ UNCHANGED <<server, times, claim, history, effects, faults>>

-----------------------------------------------------------------------------
Handler(b) == ClaimExpire(b) \/ ClaimSelect(b) \/ ClaimRow(b) \/ Receive(b)

Sync(b) ==
  \/ Start(b) \/ Ask(b) \/ Execute(b) \/ Cached(b) \/ Record(b)
  \/ Post(b) \/ Done(b) \/ Over(b)

Faults(b) == Crash(b) \/ Abort(b) \/ ClaimFails(b) \/ RecordFails(b)

Next ==
  \/ \E c \in Cmds : Enqueue(c) \/ Late(c) \/ Stale(c)
  \/ ListCommands
  \/ \E b \in Bridges : Handler(b) \/ Sync(b) \/ Faults(b)

Spec == Init /\ [][Next]_vars

\* run_forever() and launchd keep a bridge polling; two minutes pass.
FairSpec ==
  /\ Spec
  /\ \A b \in Bridges : WF_vars(Handler(b)) /\ WF_vars(Sync(b))
  /\ \A c \in Cmds : WF_vars(Stale(c))

-----------------------------------------------------------------------------
\* A command the owner was told "expired before the laptop accepted it" was
\* never executed, and no bridge has it or will be given it (store.ts:490).
ExpiredNeverRun ==
  \A c \in Cmds : answer[c] = Expired =>
    /\ runs[c] = 0
    /\ \A b \in Bridges : c \notin mine[b] \cup list[b]

\* More commands were executed than the history holds.
Overfull == Cardinality({c \in Cmds : runs[c] > 0}) > HistoryLimit

\* The result the owner sees is the result of the last execution, also when a
\* first one was lost, recorded or not (hosted_bridge.py:1155-1168).  It takes a
\* restart, a history file that could not be written and more commands than the
\* history holds, all three, to bring back a result that was replaced since.
Reliable == crashes = 0 \/ unwritten = 0 \/ ~Overfull
OwnerSeesLastRun ==
  Reliable => \A c \in Cmds : answer[c] \in Results => answer[c] = last[c]

\* A command is executed only while it is claimed: not after the owner was told
\* how it ended (store.ts:587, hosted_bridge.py:1158).
RunsClaimed == \A c \in Cmds : runs'[c] # runs[c] => status[c] = "claimed"
RunsOnlyClaimed == [][RunsClaimed]_vars

\* At least HistoryLimit results were recorded after the i-th on disk, counting
\* those the file could not take.
Older(i) == i + HistoryLimit <= Len(log) + unwritten

\* A command whose result was recorded is executed again only if the history has
\* had to forget it, else its recorded result is posted again.  A bridge that was
\* never restarted forgets the oldest results first; a restart sorts them by
\* identifier, after which nothing is sure once there are too many
\* (hosted_bridge.py:594, 1155: record() keeps the last 500).
RerunsOld ==
  \A c \in Cmds : runs'[c] # runs[c] =>
    \A i \in {i \in DOMAIN log : log[i] = c} : Overfull /\ (crashes = 0 => Older(i))
RecentNeverRerun == [][RerunsOld]_vars

\* Only a death repeats a command: whatever calls are lost, claims repeated or
\* files left unwritten, a command was executed once, and once more for each time
\* its bridge died, until the history had to forget (hosted_bridge.py:590-600,
\* 1155: record() changes the dictionary before it writes the file).
RepeatsOwed == ~Overfull => \A c \in Cmds : runs[c] <= 1 + crashes

\* What the owner can know of a command.
Phase(c) ==
  IF status[c] = "none" THEN "none" ELSE IF status[c] \in Open THEN "open" ELSE "closed"

Phases == [c \in Cmds |-> Phase(c)]

Orders == INSTANCE OwnerOrders
            WITH Orders <- Cmds, phase <- Phases, told <- answer,
                 times <- runs, spilled <- Overfull, deaths <- crashes,
                 unkept <- unwritten

\* Claims, histories, lost calls and restarts of one bridge keep what the owner is
\* promised: no order is carried out once it is answered, none expires once it was
\* carried out, an answer is the last result and final, and only a death repeats
\* an order the history still holds (store.ts:490-600, hosted_bridge.py:1147-1169).
KeepsOrders == Orders!Spec

\* A command is answered in spite of lost calls and restarts, unless its time
\* runs out first (store.ts:562-566).
AnsweredInTime ==
  \A c \in Cmds : status[c] \in Open ~> status[c] \in Settled \/ c \in late

-----------------------------------------------------------------------------
\* A bridge that executes, records or posts works on some command.
Working == {"record", "post", "done"}
CmdInv == \A b \in Bridges : pc[b] \in Working => cmd[b] \in Cmds

\* A command that was executed, or given to a bridge, was claimed and did not
\* expire; one that expired failed (any number of bridges).
GivenInv ==
  \A c \in Cmds :
    /\ runs[c] > 0 \/ (\E b \in Bridges : c \in mine[b] \cup list[b]) =>
         status[c] \in {"claimed"} \cup Settled /\ answer[c] # Expired
    /\ answer[c] = Expired => status[c] = "failed"

\* While a GET is under way the bridge has no commands, and what it has is
\* claimed, but for the one it has just posted (one bridge).
Away == {"down", "idle", "wait"}
ClaimInv ==
  \A b \in Bridges :
    /\ handler[b] # "idle" => pc[b] \in Away
    /\ handler[b] = "idle" => mine[b] = {}
    /\ pc[b] \in Away => list[b] = {}
    /\ pc[b] \in Working => cmd[b] \in list[b]
    /\ \A c \in mine[b] : status[c] = "claimed"
    /\ \A c \in list[b] : status[c] = "claimed" \/ (pc[b] = "done" /\ c = cmd[b])

\* What is in a history was executed; the keys of the dictionary are those in
\* order; a result is recorded once and posted while it is known; a command that
\* is not settled has no answer.
EntryInv ==
  /\ \A c \in Cmds : /\ status[c] \notin Settled => answer[c] = None
                     /\ disk[c] # None => runs[c] > 0
  /\ \A b \in Bridges, c \in Cmds :
       /\ memory[b][c] # None => runs[c] > 0
       /\ (memory[b][c] # None) <=> (c \in Elements(order[b]))
  /\ \A b \in Bridges :
       /\ pc[b] = "record" => /\ got[b] = last[cmd[b]] /\ got[b] \in Results
                              /\ memory[b][cmd[b]] = None /\ runs[cmd[b]] > 0
       /\ pc[b] = "post" => memory[b][cmd[b]] # None

\* What the owner was answered, and what the bridge would answer, is the last
\* result; what the file would bring back is, as long as nothing is missing there
\* that the running bridge knows (one bridge).
LastInv ==
  /\ Reliable => \A c \in Cmds :
       /\ answer[c] \in Results => answer[c] = last[c]
       /\ \A b \in Bridges : memory[b][c] # None => memory[b][c] = last[c]
  /\ unwritten = 0 \/ ~Overfull => \A c \in Cmds :
       /\ disk[c] # None => disk[c] = last[c]
       /\ \A b \in Bridges : pc[b] # "down" /\ disk[c] # None => memory[b][c] # None

\* A recorded result is still on disk, or there were too many; a bridge that was
\* never restarted has it at the place in its order that its age gives it.
Aged(b, i, k) ==
  /\ order[b][k] = log[i] /\ Len(order[b]) - k <= Len(log) + unwritten - i

ForgetInv ==
  /\ ~Overfull => \A i \in DOMAIN log : disk[log[i]] # None
  /\ crashes = 0 => \A b \in Bridges :
       /\ pc[b] = "down" => log = <<>> /\ disk = Nothing
       /\ \A i \in DOMAIN log : ~Older(i) => \E k \in DOMAIN order[b] : Aged(b, i, k)

\* What was executed since the last death is in the dictionary, or about to be;
\* a bridge that is down has none (one bridge).
Knows(b, c) == memory[b][c] # None \/ (pc[b] = "record" /\ cmd[b] = c)
RepeatInv ==
  \A b \in Bridges :
    /\ pc[b] = "down" => memory[b] = Nothing
    /\ ~Overfull => \A c \in Cmds :
         runs[c] <= 1 + crashes /\ (~Knows(b, c) => runs[c] <= crashes)

HistoryInv == EntryInv /\ LastInv /\ ForgetInv

\* What one bridge keeps true, whatever fails (hosted_bridge.py:1147-1169).
CommandInv == CmdInv /\ GivenInv /\ ClaimInv /\ HistoryInv /\ RepeatInv
=============================================================================
