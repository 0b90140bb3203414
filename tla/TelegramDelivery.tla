-------------------------- MODULE TelegramDelivery --------------------------
(***************************************************************************)
(* Delivery of relevance events to a private Telegram group.               *)
(*   src/src/open_source_ai_news_wire/telegram.py                          *)
(* The collector inserts events.  The owner pairs a group, or binds the    *)
(* topics of a forum, tests it and enables delivery.  A dispatcher that    *)
(* launchd starts every minute sends what is due under one file lock, and  *)
(* records the outcome of each message in a ledger.  In "single" mode an   *)
(* event is one message to the group and its ledger row appears with its   *)
(* first outcome; in "topics" mode the collector inserts a row for each    *)
(* topic that matches, with the group of that moment.                      *)
(*                                                                         *)
(* A row is <<event, topic>>; topic 0 is the group as a whole.  Time is a  *)
(* set of rows whose next attempt is not due yet, and a cooldown flag.     *)
(* Everything the owner does takes the dispatcher's lock first.            *)
(***************************************************************************)
EXTENDS Naturals, FiniteSets

CONSTANTS
  MaxEvents,    \* bound: relevance events
  NTopics,      \* topics of a forum: 3 in the code
  Chats,        \* groups
  Malformed,    \* events without a headline, publisher or usable link
  PerRun,       \* MAX_SENDS_PER_RUN: 12 in the code
  PageSize,     \* MAX_PENDING_ROWS: 100 in the code
  MaxSetups,    \* bound: pairings, configurations and stops by the owner
  MaxFaults,    \* bound: errors answered by Telegram, lost calls, no token
  MaxCrashes,   \* bound: deaths of the dispatcher
  None

ASSUME TelegramAssumption ==
  /\ MaxEvents \in Nat /\ NTopics \in Nat
  /\ None \notin Chats
  /\ Malformed \subseteq 1..MaxEvents
  /\ PerRun \in Nat \ {0} /\ PageSize \in Nat \ {0}
  /\ MaxSetups \in Nat /\ MaxFaults \in Nat /\ MaxCrashes \in Nat

VARIABLES
  enabled, tested, blocked,   \* telegram_enabled, _test_passed, _blocked_reason
  mode,        \* telegram_routing_mode
  chat,        \* telegram_chat_id; in topics mode the routes are its topics
  activation,  \* telegram_activation_event_id
  cooling,     \* telegram_cooldown_until is in the future
  events,      \* MAX(id) of relevance_notification_event
  row,         \* status of each delivery, "none" if it has no row
  dest,        \* chat_id of the rows of topics
  waiting,     \* rows whose next_attempt_at is in the future
  pc,          \* where the dispatcher is; it has the lock unless "idle"
  page,        \* rows read and not handled yet
  full,        \* the last page was full
  handled,     \* the last row taken from a page
  sends,       \* messages attempted in this run
  received,    \* how often a message appeared in Telegram
  doubts,      \* how often it did and the ledger could not know
  mark,        \* MAX(id) when delivery was enabled last
  refusals,    \* refusals of the whole channel since then
  setups, faults, crashes   \* bounds

config  == <<enabled, tested, blocked, mode, chat, activation, cooling>>
ledger  == <<row, dest, waiting>>
run     == <<pc, page, full, handled, sends>>
history == <<received, doubts, mark, refusals>>
vars    == <<config, events, ledger, run, history, setups, faults, crashes>>

Events  == 1..MaxEvents
Rows    == Events \X (0..NTopics)
Open    == {"pending", "failed"}
Settled == {"delivered", "skipped", "dead_lettered"}
Nowhere == <<0, 0>>

\* Places where the dispatcher has the answer to a message, or waits for it.
Calling == {"call", "accepted", "unsure", "limited", "dead", "refused"}
Places  == Calling \cup {"idle", "next", "cool", "block"}

TypeOK ==
  /\ enabled \in BOOLEAN /\ tested \in BOOLEAN /\ blocked \in BOOLEAN
  /\ mode \in {"single", "topics"} /\ chat \in Chats \cup {None}
  /\ activation \in 0..MaxEvents /\ cooling \in BOOLEAN
  /\ events \in 0..MaxEvents
  /\ row \in [Rows -> {"none"} \cup Open \cup Settled]
  /\ dest \in [Rows -> Chats \cup {None}] /\ waiting \subseteq Rows
  /\ pc \in Places /\ page \subseteq Rows /\ full \in BOOLEAN
  /\ handled \in Rows \cup {Nowhere} /\ sends \in 0..PerRun
  /\ received \in [Rows -> Nat] /\ doubts \in [Rows -> Nat]
  /\ mark \in 0..MaxEvents /\ refusals \in Nat
  /\ setups \in 0..MaxSetups /\ faults \in 0..MaxFaults /\ crashes \in 0..MaxCrashes

Init ==
  /\ enabled = FALSE /\ tested = FALSE /\ blocked = FALSE
  /\ mode = "single" /\ chat = None
  /\ activation = 0 /\ cooling = FALSE
  /\ events = 0
  /\ row = [r \in Rows |-> "none"]
  /\ dest = [r \in Rows |-> None] /\ waiting = {}
  /\ pc = "idle" /\ page = {} /\ full = FALSE /\ handled = Nowhere /\ sends = 0
  /\ received = [r \in Rows |-> 0] /\ doubts = [r \in Rows |-> 0]
  /\ mark = 0 /\ refusals = 0
  /\ setups = 0 /\ faults = 0 /\ crashes = 0

-----------------------------------------------------------------------------
\* The collector inserts an event and, in topics mode, a row for each topic in
\* T, in one transaction.  It does not take the lock.
Detect(T) ==
  /\ events < MaxEvents
  /\ events' = events + 1
  /\ LET new == {r \in Rows : r[1] = events + 1 /\ r[2] \in T /\ mode = "topics"}
     IN /\ row' = [r \in Rows |-> IF r \in new THEN "pending" ELSE row[r]]
        /\ dest' = [r \in Rows |-> IF r \in new THEN chat ELSE dest[r]]
  /\ UNCHANGED <<config, waiting, run, history, setups, faults, crashes>>

\* Time passes: a backoff, the cooldown.
Elapse(r) ==
  /\ r \in waiting
  /\ waiting' = waiting \ {r}
  /\ UNCHANGED <<config, events, row, dest, run, history, setups, faults, crashes>>

CoolDown ==
  /\ cooling
  /\ cooling' = FALSE
  /\ UNCHANGED <<enabled, tested, blocked, mode, chat, activation, events, ledger,
                 run, history, setups, faults, crashes>>

-----------------------------------------------------------------------------
\* The owner, with the lock.
Setup ==
  /\ setups < MaxSetups /\ pc = "idle"
  /\ setups' = setups + 1
  /\ UNCHANGED <<events, ledger, run, history, faults, crashes>>

Pair(c) ==
  /\ Setup
  /\ enabled' = FALSE /\ tested' = FALSE /\ blocked' = FALSE /\ cooling' = FALSE
  /\ mode' = "single" /\ chat' = c
  /\ activation' = 0

\* configure_topics() leaves remaining work to the group it was meant for.
Remaining == {r \in Rows : r[2] # 0 /\ row[r] \in Open /\ r[1] > activation}

Configure(c) ==
  /\ Setup
  /\ chat # None /\ Remaining = {}
  /\ enabled' = FALSE /\ tested' = FALSE /\ blocked' = FALSE /\ cooling' = FALSE
  /\ mode' = "topics" /\ chat' = c
  /\ activation' = events

Disable ==
  /\ Setup
  /\ enabled' = FALSE
  /\ tested' \in {tested, FALSE}
  /\ UNCHANGED <<blocked, mode, chat, activation, cooling>>

Unpair ==
  /\ Setup
  /\ enabled' = FALSE /\ tested' = FALSE /\ blocked' = FALSE /\ cooling' = FALSE
  /\ mode' = "single" /\ chat' = None
  /\ activation' = 0

\* A test message was acknowledged.
MarkTested ==
  /\ pc = "idle" /\ chat # None
  /\ tested' = TRUE /\ blocked' = FALSE
  /\ UNCHANGED <<enabled, mode, chat, activation, cooling, events, ledger, run,
                 history, setups, faults, crashes>>

\* Mutant of Watermark: enabling resumes where delivery stopped.
WatermarkResumed == activation

Watermark == events

\* enable() starts at the present: what is open in topics mode is skipped.
Enable ==
  /\ pc = "idle" /\ chat # None /\ tested
  /\ enabled' = TRUE /\ blocked' = FALSE /\ cooling' = FALSE
  /\ activation' = Watermark
  /\ row' = [r \in Rows |->
       IF mode = "topics" /\ r[2] # 0 /\ r[1] <= Watermark /\ row[r] \in Open
       THEN "skipped" ELSE row[r]]
  /\ mark' = events /\ refusals' = 0
  /\ UNCHANGED <<tested, mode, chat, events, dest, waiting, run, received, doubts,
                 setups, faults, crashes>>

-----------------------------------------------------------------------------
Before(r, s) == r[1] < s[1] \/ (r[1] = s[1] /\ r[2] < s[2])

\* Mutant of Due: a row with an outcome is due again.
DueAgain(r) ==
  /\ activation < r[1] /\ r[1] <= events
  /\ IF mode = "topics" THEN r[2] # 0 /\ row[r] # "none" ELSE r[2] = 0
  /\ row[r] \notin {"skipped", "dead_lettered"} /\ r \notin waiting

\* Mutant of Due: a failed row is not due again.
DueOnce(r) ==
  /\ activation < r[1] /\ r[1] <= events
  /\ IF mode = "topics" THEN r[2] # 0 /\ row[r] = "pending" ELSE r[2] = 0 /\ row[r] = "none"

\* pending(): in single mode an event without a row is due.
Due(r) ==
  /\ activation < r[1] /\ r[1] <= events
  /\ \/ row[r] = IF mode = "topics" THEN "pending" ELSE "none"
     \/ row[r] = "failed" /\ r \notin waiting
  /\ (r[2] # 0) = (mode = "topics")

\* The first rows of S, in the order of their identifiers.
FirstOf(S, n) == {r \in S : Cardinality({s \in S : Before(s, r)}) < n}

\* dispatch() has the lock and every check passes.
Begin ==
  /\ pc = "idle"
  /\ enabled /\ chat # None /\ tested /\ ~blocked /\ ~cooling
  /\ pc' = "next" /\ page' = {} /\ full' = TRUE /\ handled' = Nowhere /\ sends' = 0
  /\ UNCHANGED <<config, events, ledger, history, setups, faults, crashes>>

\* _events(): the next page, after the last row of the one before.
ReadPage ==
  /\ pc = "next" /\ sends < PerRun /\ page = {} /\ full
  /\ page' = FirstOf({r \in Rows : Due(r) /\ Before(handled, r)}, PageSize)
  /\ full' = (Cardinality(page') = PageSize)
  /\ UNCHANGED <<config, events, ledger, pc, handled, sends, history, setups,
                 faults, crashes>>

\* The lock is released and what the run knew is gone.
Rest ==
  /\ pc' = "idle" /\ page' = {} /\ full' = FALSE /\ handled' = Nowhere /\ sends' = 0

\* The run is over: no row is left, or it sent enough, or its time is up.
End ==
  /\ pc = "next"
  /\ (page = {} /\ ~full) \/ handled # Nowhere
  /\ Rest
  /\ UNCHANGED <<config, events, ledger, history, setups, faults, crashes>>

First(r) == r \in page /\ \A s \in page : s = r \/ Before(r, s)

\* There is no token in the keychain.
NoToken ==
  /\ pc = "next" /\ sends = 0
  /\ \E r \in page : First(r) /\ r[1] \notin Malformed
  /\ faults < MaxFaults /\ faults' = faults + 1
  /\ Rest
  /\ UNCHANGED <<config, events, ledger, history, setups, crashes>>

\* The next row of the page.
Take(r) ==
  /\ pc = "next" /\ sends < PerRun /\ First(r)
  /\ page' = page \ {r} /\ handled' = r

\* record(), record_topic(): a settled row stays as it is.
Outcome(r, s) == row' = IF row[r] \in Settled THEN row ELSE [row EXCEPT ![r] = s]

\* No message can be made of the event.
Skip(r) ==
  /\ Take(r) /\ r[1] \in Malformed
  /\ Outcome(r, "dead_lettered")
  /\ UNCHANGED <<config, events, dest, waiting, pc, full, sends, history, setups,
                 faults, crashes>>

\* The pacing slot is stored, the message is under way.
Send(r) ==
  /\ Take(r) /\ r[1] \notin Malformed
  /\ pc' = "call" /\ sends' = sends + 1
  /\ UNCHANGED <<config, events, ledger, full, history, setups, faults, crashes>>

-----------------------------------------------------------------------------
\* Telegram has the message and says so.
Accept ==
  /\ pc = "call"
  /\ pc' = "accepted"
  /\ received' = [received EXCEPT ![handled] = @ + 1]
  /\ UNCHANGED <<config, events, ledger, page, full, handled, sends, doubts, mark,
                 refusals, setups, faults, crashes>>

\* The call fails; Telegram may have the message all the same.
Lose ==
  /\ pc = "call"
  /\ faults < MaxFaults /\ faults' = faults + 1
  /\ pc' = "unsure"
  /\ \/ UNCHANGED <<received, doubts>>
     \/ /\ received' = [received EXCEPT ![handled] = @ + 1]
        /\ doubts' = [doubts EXCEPT ![handled] = @ + 1]
  /\ UNCHANGED <<config, events, ledger, page, full, handled, sends, mark, refusals,
                 setups, crashes>>

\* Telegram refuses: too many messages, this message, or the whole channel.
Refuse ==
  /\ pc = "call"
  /\ faults < MaxFaults /\ faults' = faults + 1
  /\ pc' \in {"limited", "dead", "refused"}
  /\ refusals' = IF pc' = "refused" THEN refusals + 1 ELSE refusals
  /\ UNCHANGED <<config, events, ledger, page, full, handled, sends, received,
                 doubts, mark, setups, crashes>>

Record(s) ==
  /\ Outcome(handled, s)
  /\ UNCHANGED <<config, events, dest, page, full, handled, sends, history, setups,
                 faults, crashes>>

RecordDelivered ==
  /\ pc = "accepted" /\ pc' = "next"
  /\ Record("delivered")
  /\ waiting' = waiting \ {handled}

\* The row is due again after a backoff; a 429 stops the run as well.
RecordFailed ==
  /\ pc \in {"unsure", "limited"}
  /\ pc' = IF pc = "limited" THEN "cool" ELSE "next"
  /\ Record("failed")
  /\ waiting' = waiting \cup {handled}

RecordDead ==
  /\ pc \in {"dead", "refused"}
  /\ pc' = IF pc = "refused" THEN "block" ELSE "next"
  /\ Record("dead_lettered")
  /\ waiting' = waiting \ {handled}

\* A transaction of its own, after the outcome of the row.
Cool ==
  /\ pc = "cool"
  /\ cooling' = TRUE
  /\ Rest
  /\ UNCHANGED <<enabled, tested, blocked, mode, chat, activation, events, ledger,
                 history, setups, faults, crashes>>

\* Mutant of Block: the run ends and nothing else.
BlockNothing ==
  /\ pc = "block"
  /\ Rest
  /\ UNCHANGED <<config, events, ledger, history, setups, faults, crashes>>

\* So is this one: the owner has to enable delivery again.
Block ==
  /\ pc = "block"
  /\ enabled' = FALSE /\ blocked' = TRUE
  /\ Rest
  /\ UNCHANGED <<tested, mode, chat, activation, cooling, events, ledger, history,
                 setups, faults, crashes>>

\* The dispatcher dies, and its lock with it.
Crash ==
  /\ pc # "idle"
  /\ crashes < MaxCrashes /\ crashes' = crashes + 1
  /\ doubts' = IF pc = "accepted" THEN [doubts EXCEPT ![handled] = @ + 1] ELSE doubts
  /\ Rest
  /\ UNCHANGED <<config, events, ledger, received, mark, refusals, setups, faults>>

Dispatch ==
  \/ Begin \/ ReadPage \/ End \/ (\E r \in Rows : Skip(r) \/ Send(r))
  \/ Accept \/ RecordDelivered \/ RecordFailed \/ RecordDead \/ Cool \/ Block

Owner ==
  \/ \E c \in Chats : Pair(c) \/ Configure(c)
  \/ Disable \/ Unpair \/ MarkTested \/ Enable

Next ==
  \/ \E T \in SUBSET (1..NTopics) : Detect(T)
  \/ \E r \in Rows : Elapse(r)
  \/ CoolDown
  \/ Owner \/ Dispatch
  \/ NoToken \/ Lose \/ Refuse \/ Crash

Spec == Init /\ [][Next]_vars

\* launchd starts a dispatcher every minute, and each of its steps ends; the
\* deadline of 50 seconds leaves time for a first message, paced four seconds
\* after the last one.  Backoffs and cooldowns run out.
FairSpec ==
  /\ Spec
  /\ WF_vars(Dispatch) /\ WF_vars(CoolDown) /\ WF_vars(\E r \in Rows : Elapse(r))
-----------------------------------------------------------------------------
\* Where a message for r goes.
Target(r) == IF r[2] = 0 THEN chat ELSE dest[r]

\* A message under way is for an event detected since delivery was enabled last,
\* not settled yet, and goes to the group that is paired now: switching it on, or
\* to another group, replays and redirects nothing (telegram.py:372-376, :417).
SendsOnlyNew ==
  pc \in Calling =>
    /\ row[handled] \notin Settled
    /\ mark < handled[1]
    /\ Target(handled) = chat /\ chat # None

\* An event appears in Telegram as one message to the group or as messages to
\* its topics, never both, however often the mode changes (telegram.py:340-440).
OneMode ==
  \A e \in Events, t \in 1..NTopics : received[<<e, 0>>] = 0 \/ received[<<e, t>>] = 0

\* A message appears twice only if the ledger could not know that it had, and
\* one that is reported delivered did appear: at-least-once, no more
\* (docs/operator-guide.md:74-77).
OnlyDoubtsRepeat ==
  \A r \in Rows : /\ received[r] <= doubts[r] + 1
                  /\ row[r] = "delivered" => received[r] > 0

\* Pages, backoffs, switches of the mode and deaths together keep the ledger that
\* web push keeps too: a repeat only for a doubt, "delivered" only after the message
\* appeared, and one end (telegram.py:483-525, :660-795).
Recorded(r) ==
  CASE row[r] = "none"      -> "absent"
    [] row[r] \in Open      -> "open"
    [] row[r] = "delivered" -> "delivered"
    [] OTHER                -> "given up"

Ledger == INSTANCE DeliveryLedger
            WITH Messages <- Rows, outcome <- [r \in Rows |-> Recorded(r)],
                 shown <- received

KeepsLedger == Ledger!Spec

\* A channel that refused is left alone until the owner enables delivery again:
\* only a dispatcher that died before it said so can cost another message
\* (telegram.py:744-748).
RefusedOnce == refusals <= 1 + crashes

\* Every message of an event is settled, delivered or given up, unless delivery is
\* switched off or on again first (telegram_scheduler.py:125, telegram.py:483-525).
Awaited(e) ==
  /\ enabled /\ activation < e /\ e <= events
  /\ IF mode = "topics" THEN \E t \in 1..NTopics : row[<<e, t>>] \in Open
                        ELSE row[<<e, 0>>] \notin Settled

EverySettled == \A e \in Events : Awaited(e) ~> ~Awaited(e)
-----------------------------------------------------------------------------
\* r belongs to the present activation and mode, and is not settled.
Current(r) ==
  /\ activation < r[1] /\ r[1] <= events
  /\ row[r] \in IF mode = "topics" THEN Open ELSE Open \cup {"none"}
  /\ (r[2] # 0) = (mode = "topics")

\* While the dispatcher runs delivery is enabled; what it read from a page and
\* what it is sending is current, and nothing is read twice.
RunInv ==
  /\ pc # "idle" => enabled
  /\ enabled => chat # None /\ activation = mark
  /\ pc = "idle" => page = {}
  /\ \A r \in page : Current(r) /\ r # handled
  /\ pc \in Calling => handled \in Rows /\ Current(handled)

\* Only events have rows and messages.  The open rows of topics of this activation
\* go to the present group.
RowInv ==
  /\ \A r \in Rows : r[1] > events => row[r] = "none" /\ received[r] = 0
  /\ mode = "topics" => \A r \in Rows :
       r[2] # 0 /\ r[1] > activation /\ row[r] \in Open => dest[r] = chat

\* A message to a topic has a row; an event of this activation has rows, or was
\* sent, in the present mode only.
ModeInv ==
  /\ \A r \in Rows : r[2] # 0 /\ row[r] = "none" => received[r] = 0
  /\ enabled => \A r \in Rows : r[1] > activation =>
       /\ mode = "single" /\ r[2] # 0 => row[r] = "none"
       /\ mode = "topics" /\ r[2] = 0 => received[r] = 0

\* What is in Telegram, and what the ledger makes of it.
Acknowledged(r) == row[r] = "delivered" \/ (pc = "accepted" /\ handled = r)
CountInv ==
  \A r \in Rows : /\ Acknowledged(r) => 0 < received[r] /\ received[r] <= doubts[r] + 1
                  /\ ~Acknowledged(r) => received[r] <= doubts[r]

RefusalInv ==
  /\ refusals <= crashes + 1
  /\ enabled /\ pc \notin {"refused", "block"} => refusals <= crashes

\* What the ledger, the settings and the dispatcher keep true of each other
\* through every switch, failure and death (telegram.py:340-525, :660-795).
DeliveryInv == RunInv /\ RowInv /\ ModeInv /\ CountInv /\ RefusalInv
=============================================================================
