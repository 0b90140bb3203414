----------------------------- MODULE PushOutbox -----------------------------
(***************************************************************************)
(* Web push: src/hosted-dashboard/lib/push/store.ts and dispatch.ts.       *)
(* The bridge releases articles as events with one delivery per device;    *)
(* every request to the worker starts a dispatcher in the background       *)
(* (worker/index.ts), so that several run at once and each may be cut off  *)
(* at any point; a device answers a notification by dismissing its event.  *)
(*                                                                         *)
(* Every statement and every batch sent to D1 is one step.  Time is three  *)
(* flags of a delivery: its next attempt is due, the lease of its claim    *)
(* runs, it is 72 hours old; and one of an article: it is 72 hours old.    *)
(*                                                                         *)
(* Left out: events the owner is only informed of (no capability), the 72  *)
(* hours after which a capability expires, the limit of a claimed batch,   *)
(* and stored payloads that do not parse, which nothing writes.            *)
(***************************************************************************)
EXTENDS Naturals, FiniteSets

CONSTANTS
  Articles, Devices,
  Dispatchers,  \* background calls of dispatchPendingNotifications() at once
  RetryLimit,   \* attempts after which markPushDeliveryRetry() gives up: six
  MaxEras,      \* bound: changes of the runtime mode, plus one
  MaxSyncs,     \* bound: completing calls of the bridge
  MaxTaps,      \* bound: dismissals asked for
  MaxLapses,    \* bound: leases that run out under a living dispatcher
  MaxFaults,    \* bound: calls that are cut off, answers that are lost
  MaxChanges    \* bound: devices registered or revoked

ASSUME ConstantsAssumption ==
  /\ IsFiniteSet(Dispatchers)
  /\ RetryLimit \in Nat \ {0} /\ MaxEras \in Nat \ {0}
  /\ {MaxSyncs, MaxTaps, MaxLapses, MaxFaults, MaxChanges} \subseteq Nat

Rows  == Articles \X Devices
Eras  == 1..MaxEras
Taps  == 1..MaxTaps
Open  == {"pending", "retry", "sending"}
Ended == {"delivered", "failed", "expired"}

VARIABLES
  era,      \* the number of the present activation_watermark
  live,     \* the eras in which the mode is or was "active"
  born,     \* the era an article was detected in; 0 before that
  old,      \* articles detected 72 hours ago
  active,   \* devices whose subscription is enabled and current
  event,    \* notification_event.resolution of an article
  sync,     \* the completing call under way
  syncs,    \* completing calls so far
  status,   \* push_delivery.status
  tries,    \* push_delivery.attempt_count
  due,      \* deliveries whose next_attempt_at has passed
  leased,   \* deliveries claimed less than five minutes ago
  aged,     \* deliveries created 72 hours ago
  at,       \* place of a dispatcher
  late,     \* rows whose next_attempt_at lies after the dispatcher's "now"
  todo,     \* what its SELECT returned and it has not yet tried to claim
  hand,     \* its claims, [row, n, step]; n is the attempt it believes to make
  intent,   \* dismiss capabilities devices were sent, [row, n]
  used,     \* the completed ones
  global,   \* the tap whose command id notification_global_action holds; 0
  commands, \* command_queue: <<article, tap>>
  tap,      \* performPushAction() calls
  shown,    \* history: times the push service took a delivery
  doubts,   \* history: times a delivery may have been taken unrecorded
  escaped,  \* history: rows in flight at a dismissal, or created after it
  faults, lapses, changes  \* what happened so far, for the bounds

release == <<era, live, born, old, event, sync, syncs>>
rows    == <<status, tries, due, leased, aged>>
disp    == <<at, late, todo, hand>>
taps    == <<intent, used, global, commands, tap>>
history == <<shown, doubts, escaped>>
counts  == <<faults, lapses, changes>>
vars    == <<release, active, rows, disp, taps, history, counts>>

Claims    == [row : Rows, n : Nat \ {0}, step : {"held", "posted", "accepted"}]
Capabilities == [row : Rows, n : Nat \ {0}]
NoSync    == [place |-> "none", era |-> 0, arts |-> {}, rows |-> {}]
FreeTap   == [place |-> "free", row |-> <<>>, n |-> 0, cmd |-> 0]
EndedTap  == [FreeTap EXCEPT !.place = "done"]
TapPlaces == {"insert", "command", "close", "complete"}
Dismissals == [place : TapPlaces, row : Rows, n : Nat \ {0}, cmd : 0..MaxTaps]

TypeOK ==
  /\ era \in Eras /\ live \subseteq Eras
  /\ born \in [Articles -> 0..MaxEras] /\ old \subseteq Articles
  /\ active \subseteq Devices
  /\ event \in [Articles -> {"none", "open", "dismissed"}]
  /\ sync \in [place : {"none", "subs", "events", "deliver"}, era : 0..MaxEras,
               arts : SUBSET Articles, rows : SUBSET Rows]
  /\ syncs \in Nat
  /\ status \in [Rows -> {"none"} \cup Open \cup Ended]
  /\ tries \in [Rows -> Nat]
  /\ due \subseteq Rows /\ leased \subseteq Rows /\ aged \subseteq Rows
  /\ at \in [Dispatchers -> {"idle", "select", "claim", "send"}]
  /\ late \in [Dispatchers -> SUBSET Rows]
  /\ todo \in [Dispatchers -> SUBSET (Rows \X Nat)]
  /\ hand \in [Dispatchers -> SUBSET Claims]
  /\ intent \subseteq Capabilities /\ used \subseteq Capabilities
  /\ global \in [Articles -> 0..MaxTaps]
  /\ commands \subseteq Articles \X (0..MaxTaps)
  /\ tap \in [Taps -> {FreeTap, EndedTap} \cup Dismissals]
  /\ shown \in [Rows -> Nat] /\ doubts \in [Rows -> Nat] /\ escaped \subseteq Rows
  /\ faults \in Nat /\ lapses \in Nat /\ changes \in Nat

Start(eras, D) ==
  /\ era = 1 /\ live = eras
  /\ born = [a \in Articles |-> 0] /\ old = {}
  /\ active = D
  /\ event = [a \in Articles |-> "none"]
  /\ sync = NoSync /\ syncs = 0
  /\ status = [r \in Rows |-> "none"]
  /\ tries = [r \in Rows |-> 0]
  /\ due = {} /\ leased = {} /\ aged = {}
  /\ at = [k \in Dispatchers |-> "idle"]
  /\ late = [k \in Dispatchers |-> {}]
  /\ todo = [k \in Dispatchers |-> {}]
  /\ hand = [k \in Dispatchers |-> {}]
  /\ intent = {} /\ used = {}
  /\ global = [a \in Articles |-> 0]
  /\ commands = {}
  /\ tap = [t \in Taps |-> FreeTap]
  /\ shown = [r \in Rows |-> 0] /\ doubts = [r \in Rows |-> 0] /\ escaped = {}
  /\ faults = 0 /\ lapses = 0 /\ changes = 0

\* The tables are created: shadow mode, and no device.
Init == Start({}, {})

-----------------------------------------------------------------------------
(* Time, the owner's settings, and the devices.                            *)

Elapse(r) ==
  /\ status[r] = "retry" /\ r \notin due
  /\ due' = due \cup {r}
  /\ UNCHANGED <<release, active, status, tries, leased, aged, disp, taps,
                 history, counts>>

Holders(r) == {k \in Dispatchers : \E c \in hand[k] : c.row = r}

\* Five minutes after a claim, whether or not its dispatcher still works.
Lapse(r) ==
  /\ status[r] = "sending" /\ r \in leased
  /\ leased' = leased \ {r}
  /\ IF Holders(r) = {} THEN UNCHANGED lapses
                        ELSE lapses < MaxLapses /\ lapses' = lapses + 1
  /\ UNCHANGED <<release, active, status, tries, due, aged, disp, taps, history,
                 faults, changes>>

Age(r) ==
  /\ status[r] \in Open /\ r \notin aged
  /\ aged' = aged \cup {r}
  /\ UNCHANGED <<release, active, status, tries, due, leased, disp, taps,
                 history, counts>>

\* An article is detected on the Mac ...
Detect(a) ==
  /\ born[a] = 0
  /\ born' = [born EXCEPT ![a] = era]
  /\ UNCHANGED <<era, live, old, event, sync, syncs, active, rows, disp, taps,
                 history, counts>>

\* ... and reaches the server later, up to 72 hours or more.
GrowOld(a) ==
  /\ born[a] # 0 /\ a \notin old
  /\ old' = old \cup {a}
  /\ UNCHANGED <<era, live, born, event, sync, syncs, active, rows, disp, taps,
                 history, counts>>

\* setPushRuntimeMode(): every change sets a fresh watermark.
SetMode(on) ==
  /\ era < MaxEras
  /\ era' = era + 1
  /\ live' = IF on THEN live \cup {era + 1} ELSE live
  /\ UNCHANGED <<born, old, event, sync, syncs, active, rows, disp, taps,
                 history, counts>>

\* registerPushSubscription() enables a device, new or known.
Register(d) ==
  /\ d \notin active /\ changes < MaxChanges
  /\ active' = active \cup {d}
  /\ changes' = changes + 1
  /\ UNCHANGED <<release, rows, disp, taps, history, faults, lapses>>

\* revokePushSubscriptions(), and a password rotation: the rows stay.
Revoke(D) ==
  /\ D \cap active # {} /\ changes < MaxChanges
  /\ active' = active \ D
  /\ changes' = changes + 1
  /\ UNCHANGED <<release, rows, disp, taps, history, faults, lapses>>

-----------------------------------------------------------------------------
(* completeNotificationArticleSync(): articles become events, and events   *)
(* of the present activation get a delivery for each device.               *)

\* The staged rows and the runtime state are read.
SyncRead(A) ==
  /\ sync.place = "none" /\ syncs < MaxSyncs
  /\ A # {} /\ \A a \in A : born[a] # 0
  /\ sync' = [place |-> "subs", era |-> era, arts |-> A, rows |-> {}]
  /\ syncs' = syncs + 1
  /\ UNCHANGED <<era, live, born, old, event, active, rows, disp, taps, history,
                 counts>>

\* Mutant of Released: nobody asks when the article was detected.
ReleasedAll(a) == sync.era \in live /\ a \notin old

\* The mode was active, the article is not from before it and not too old.
Released(a) == sync.era \in live /\ born[a] >= sync.era /\ a \notin old

\* The devices are read, and the deliveries to insert computed.
SyncSubs ==
  /\ sync.place = "subs"
  /\ sync' = [sync EXCEPT !.place = "events",
                          !.rows = {r \in Rows : /\ r[1] \in sync.arts
                                                 /\ r[2] \in active
                                                 /\ Released(r[1])}]
  /\ UNCHANGED <<era, live, born, old, event, syncs, active, rows, disp, taps,
                 history, counts>>

\* INSERT OR IGNORE of the events.
SyncEvents ==
  /\ sync.place = "events"
  /\ event' = [a \in Articles |->
                 IF a \in sync.arts /\ event[a] = "none" THEN "open" ELSE event[a]]
  /\ sync' = [sync EXCEPT !.place = "deliver"]
  /\ UNCHANGED <<era, live, born, old, syncs, active, rows, disp, taps, history,
                 counts>>

\* INSERT OR IGNORE of the deliveries: a device has one for an event.
SyncDeliver ==
  LET new == {r \in sync.rows : status[r] = "none"} IN
  /\ sync.place = "deliver"
  /\ status' = [r \in Rows |-> IF r \in new THEN "pending" ELSE status[r]]
  /\ due' = due \cup new
  /\ escaped' = escaped \cup {r \in new : event[r[1]] = "dismissed"}
  /\ sync' = NoSync
  /\ UNCHANGED <<era, live, born, old, event, syncs, active, tries, leased, aged,
                 disp, taps, shown, doubts, counts>>

\* The function is cut off; the bridge sends the projection again.
SyncDies ==
  /\ sync.place # "none" /\ faults < MaxFaults
  /\ faults' = faults + 1
  /\ sync' = NoSync
  /\ UNCHANGED <<era, live, born, old, event, syncs, active, rows, disp, taps,
                 history, lapses, changes>>

-----------------------------------------------------------------------------
(* claimPushDeliveries().                                                  *)

\* Mutant of Reaped: a claim is taken back whatever its age.
ReapedAny == {r \in Rows : status[r] = "sending"}

\* Claims older than the lease, which are put up for retry ...
Reaped == {r \in Rows : status[r] = "sending" /\ r \notin leased}

\* Mutant of Expired: what waits for a retry is left alone.
ExpiredUnlessRetry == {r \in aged : status[r] \in {"pending", "sending"} /\ r \notin Reaped}

\* ... and deliveries older than 72 hours, which end.
Expired == {r \in aged : status[r] \in Open}

Sweep(k) ==
  /\ at[k] = "idle"
  /\ status' = [r \in Rows |-> IF r \in Expired THEN "expired"
                               ELSE IF r \in Reaped THEN "retry" ELSE status[r]]
  /\ due' = due \cup Reaped
  /\ late' = [l \in Dispatchers |-> IF l = k THEN Rows \ due' ELSE late[l] \cup Reaped]
  /\ doubts' = [r \in Rows |-> IF r \in Reaped \ leased /\ Holders(r) # {}
                             THEN doubts[r] + 1 ELSE doubts[r]]
  /\ at' = [at EXCEPT ![k] = "select"]
  /\ UNCHANGED <<release, active, tries, leased, aged, todo, hand, taps, shown,
                 escaped, counts>>

Claimable(k, r) == status[r] \in {"pending", "retry"} /\ r \notin late[k]

Select(k) ==
  /\ at[k] = "select"
  /\ todo' = [todo EXCEPT ![k] =
                {<<r, tries[r]>> : r \in {q \in Rows : Claimable(k, q) /\ q[2] \in active}}]
  /\ at' = [at EXCEPT ![k] = "claim"]
  /\ UNCHANGED <<release, active, rows, late, hand, taps, history, counts>>

\* Mutant of Take: what was selected is claimed without looking at the row.
TakeBlindly(k, x) ==
  /\ at[k] = "claim" /\ x \in todo[k]
  /\ todo' = [todo EXCEPT ![k] = @ \ {x}]
  /\ status' = [status EXCEPT ![x[1]] = "sending"]
  /\ tries' = [tries EXCEPT ![x[1]] = @ + 1]
  /\ leased' = leased \cup {x[1]}
  /\ hand' = [hand EXCEPT ![k] = @ \cup {[row |-> x[1], n |-> x[2] + 1, step |-> "held"]}]
  /\ UNCHANGED <<release, active, due, aged, at, late, taps, history, counts>>

\* The UPDATE that claims one row, or changes none.
Take(k, x) ==
  /\ at[k] = "claim" /\ x \in todo[k]
  /\ todo' = [todo EXCEPT ![k] = @ \ {x}]
  /\ IF Claimable(k, x[1])
     THEN /\ status' = [status EXCEPT ![x[1]] = "sending"]
          /\ tries' = [tries EXCEPT ![x[1]] = @ + 1]
          /\ leased' = leased \cup {x[1]}
          /\ hand' = [hand EXCEPT ![k] = @ \cup
                        {[row |-> x[1], n |-> x[2] + 1, step |-> "held"]}]
     ELSE UNCHANGED <<status, tries, leased, hand>>
  /\ UNCHANGED <<release, active, due, aged, at, late, taps, history, counts>>

Claimed(k) ==
  /\ at[k] = "claim" /\ todo[k] = {}
  /\ at' = [at EXCEPT ![k] = IF hand[k] = {} THEN "idle" ELSE "send"]
  /\ UNCHANGED <<release, active, rows, late, todo, hand, taps, history, counts>>

-----------------------------------------------------------------------------
(* dispatchPendingNotifications(): the claims one after another.           *)

\* c is done with: the loop goes on, or ends.
Drop(k, c) ==
  /\ hand' = [hand EXCEPT ![k] = @ \ {c}]
  /\ at' = [at EXCEPT ![k] = IF hand[k] = {c} THEN "idle" ELSE "send"]
  /\ UNCHANGED <<late, todo>>

\* UPDATE ... SET status=<outcome> WHERE id=? AND status='sending'
Marked(r, outcome) ==
  [status EXCEPT ![r] = IF @ = "sending" THEN outcome ELSE @]

\* markPushDeliveryRetry(): six attempts, then it fails.
MarkRetry(c) ==
  LET again == c.n < RetryLimit /\ status[c.row] = "sending" IN
  /\ status' = Marked(c.row, IF again THEN "retry" ELSE "failed")
  /\ due' = IF again THEN due \ {c.row} ELSE due

\* What a retry means to the dispatchers that took their "now" before it.
Postponed(r) ==
  late' = IF r \in due /\ r \notin due' THEN [l \in Dispatchers |-> late[l] \cup {r}]
                                        ELSE late

\* disablePushSubscription(): the device and all that waits for it.
Disable(d) ==
  /\ active' = active \ {d}
  /\ status' = [r \in Rows |-> IF r[2] = d /\ status[r] \in Open THEN "failed"
                                                                ELSE status[r]]

\* The capability of this attempt is stored and the request goes out.
Post(k, c) ==
  /\ at[k] = "send" /\ c \in hand[k] /\ c.step = "held"
  /\ \A b \in hand[k] : b.step = "held"
  /\ hand' = [hand EXCEPT ![k] = (@ \ {c}) \cup {[c EXCEPT !.step = "posted"]}]
  /\ UNCHANGED <<release, active, rows, at, late, todo, taps, history, counts>>

\* The push service takes it, and the device has the capability.
Accept(k, c) ==
  /\ c \in hand[k] /\ c.step = "posted"
  /\ shown' = [shown EXCEPT ![c.row] = @ + 1]
  /\ intent' = intent \cup {[row |-> c.row, n |-> c.n]}
  /\ hand' = [hand EXCEPT ![k] = (@ \ {c}) \cup {[c EXCEPT !.step = "accepted"]}]
  /\ UNCHANGED <<release, active, rows, at, late, todo, used, global, commands,
                 tap, doubts, escaped, counts>>

\* 2xx: markPushDeliveryDelivered().
Delivered(k, c) ==
  /\ c \in hand[k] /\ c.step = "accepted"
  /\ status' = Marked(c.row, "delivered")
  /\ Drop(k, c)
  /\ UNCHANGED <<release, active, tries, due, leased, aged, taps, history, counts>>

\* 408, 425, 429, 5xx, or no connection: nothing was taken.
Transient(k, c) ==
  /\ c \in hand[k] /\ c.step = "posted"
  /\ MarkRetry(c)
  /\ hand' = [hand EXCEPT ![k] = @ \ {c}]
  /\ at' = [at EXCEPT ![k] = IF hand[k] = {c} THEN "idle" ELSE "send"]
  /\ Postponed(c.row)
  /\ UNCHANGED <<release, active, tries, leased, aged, todo, taps, history, counts>>

\* The answer is lost, or recording it fails: the catch block retries.
Doubt(k, c) ==
  /\ c \in hand[k] /\ c.step = "accepted" /\ faults < MaxFaults
  /\ faults' = faults + 1
  /\ doubts' = [doubts EXCEPT ![c.row] = @ + 1]
  /\ MarkRetry(c)
  /\ hand' = [hand EXCEPT ![k] = @ \ {c}]
  /\ at' = [at EXCEPT ![k] = IF hand[k] = {c} THEN "idle" ELSE "send"]
  /\ Postponed(c.row)
  /\ UNCHANGED <<release, active, tries, leased, aged, todo, taps, shown, escaped,
                 lapses, changes>>

\* Any other answer, a payload too large, keys that are invalid.
Refuse(k, c) ==
  /\ c \in hand[k] /\ c.step = "posted"
  /\ status' = Marked(c.row, "failed")
  /\ Drop(k, c)
  /\ UNCHANGED <<release, active, tries, due, leased, aged, taps, history, counts>>

\* 404 or 410; or the stored subscription cannot be decrypted.
Gone(k, c) ==
  /\ at[k] = "send" /\ c \in hand[k] /\ c.step \in {"held", "posted"}
  /\ c.step = "held" => \A b \in hand[k] : b.step = "held"
  /\ Disable(c.row[2])
  /\ Drop(k, c)
  /\ UNCHANGED <<release, tries, due, leased, aged, taps, history, counts>>

\* The runtime cuts the background work off.
Die(k) ==
  /\ at[k] # "idle" /\ faults < MaxFaults
  /\ faults' = faults + 1
  /\ doubts' = [r \in Rows |->
                  IF \E c \in hand[k] : c.row = r /\ c.step = "accepted"
                  THEN doubts[r] + 1 ELSE doubts[r]]
  /\ at' = [at EXCEPT ![k] = "idle"]
  /\ late' = [late EXCEPT ![k] = {}]
  /\ todo' = [todo EXCEPT ![k] = {}]
  /\ hand' = [hand EXCEPT ![k] = {}]
  /\ UNCHANGED <<release, active, rows, taps, shown, escaped, lapses, changes>>

Outcome(k, c) ==
  \/ Accept(k, c) \/ Delivered(k, c) \/ Transient(k, c)
  \/ Doubt(k, c) \/ Refuse(k, c) \/ Gone(k, c)

-----------------------------------------------------------------------------
(* performPushAction(): a device dismisses the event it was shown.         *)

TapGoes(t, place) == tap' = [tap EXCEPT ![t].place = place]

\* The capability and its event are read: a completed one ends the call.
TapRead(t, i) ==
  /\ tap[t] = FreeTap /\ \A u \in Taps : u < t => tap[u] # FreeTap
  /\ i \notin used
  /\ tap' = [tap EXCEPT ![t] = [place |-> "insert", row |-> i.row, n |-> i.n, cmd |-> 0]]
  /\ UNCHANGED <<release, active, rows, disp, intent, used, global, commands, history,
                 counts>>

\* Mutant of Agreed: each tap uses the command id it made up.
AgreedOwn(t, a) == t

\* INSERT OR IGNORE of the action, and what the row says then.
Agreed(t, a) == IF global[a] = 0 THEN t ELSE global[a]

TapInsert(t) ==
  /\ tap[t].place = "insert"
  /\ LET a == tap[t].row[1] IN
       /\ global' = [global EXCEPT ![a] = IF @ = 0 THEN t ELSE @]
       /\ tap' = [tap EXCEPT ![t].place = "command", ![t].cmd = Agreed(t, a)]
  /\ UNCHANGED <<release, active, rows, disp, intent, used, commands, history, counts>>

\* ensureArticleAlertCommand(): INSERT OR IGNORE by the command's id.
TapCommand(t) ==
  /\ tap[t].place = "command"
  /\ commands' = commands \cup {<<tap[t].row[1], tap[t].cmd>>}
  /\ TapGoes(t, "close")
  /\ UNCHANGED <<release, active, rows, disp, intent, used, global, history, counts>>

\* Mutant of Closed: only what has not been tried yet is closed.
ClosedNew(a) == {r \in Rows : r[1] = a /\ status[r] = "pending"}

\* The deliveries a dismissal ends: not the ones being sent.
Closed(a) == {r \in Rows : r[1] = a /\ status[r] \in {"pending", "retry"}}

TapClose(t) ==
  /\ tap[t].place = "close"
  /\ LET a == tap[t].row[1] IN
       /\ event' = [event EXCEPT ![a] = IF @ = "open" THEN "dismissed" ELSE @]
       /\ status' = [r \in Rows |-> IF r \in Closed(a) THEN "failed" ELSE status[r]]
       /\ escaped' = escaped \cup {r \in Rows : r[1] = a /\ status[r] = "sending"}
  /\ TapGoes(t, "complete")
  /\ UNCHANGED <<era, live, born, old, sync, syncs, active, tries, due, leased, aged,
                 disp, intent, used, global, commands, shown, doubts, counts>>

Used(t) == used \cup {[row |-> tap[t].row, n |-> tap[t].n]}

TapComplete(t) ==
  /\ tap[t].place = "complete"
  /\ used' = Used(t)
  /\ tap' = [tap EXCEPT ![t] = EndedTap]
  /\ UNCHANGED <<release, active, rows, disp, intent, global, commands, history, counts>>

\* The request is cut off; the device may tap again.
TapDies(t) ==
  /\ tap[t].place \notin {"free", "done"} /\ faults < MaxFaults
  /\ faults' = faults + 1
  /\ tap' = [tap EXCEPT ![t] = EndedTap]
  /\ UNCHANGED <<release, active, rows, disp, intent, used, global, commands, history,
                 lapses, changes>>

\* Mutant of TapSteps: the capability is used up before the event is closed.
TapStepsHasty(t) ==
  \/ TapInsert(t) \/ TapClose(t) \/ TapDies(t)
  \/ /\ tap[t].place = "command"
     /\ used' = Used(t)
     /\ TapGoes(t, "close")
     /\ UNCHANGED <<release, active, rows, disp, intent, global, commands, history, counts>>

TapSteps(t) ==
  TapInsert(t) \/ TapCommand(t) \/ TapClose(t) \/ TapComplete(t) \/ TapDies(t)

-----------------------------------------------------------------------------
Claim(k) == Sweep(k) \/ Select(k) \/ Claimed(k) \/ \E x \in todo[k] : Take(k, x)

Dispatch(k) == Claim(k) \/ \E c \in hand[k] : Post(k, c) \/ Outcome(k, c)

Sync == SyncSubs \/ SyncEvents \/ SyncDeliver \/ SyncDies

Next ==
  \/ \E r \in Rows : Elapse(r) \/ Lapse(r) \/ Age(r)
  \/ \E a \in Articles : Detect(a) \/ GrowOld(a)
  \/ \E on \in BOOLEAN : SetMode(on)
  \/ \E d \in Devices : Register(d)
  \/ \E D \in SUBSET Devices : Revoke(D)
  \/ \E A \in SUBSET Articles : SyncRead(A)
  \/ Sync
  \/ \E k \in Dispatchers : Dispatch(k) \/ Die(k)
  \/ \E t \in Taps : TapSteps(t) \/ \E i \in intent : TapRead(t, i)

Spec == Init /\ [][Next]_vars

\* Requests keep coming, so that each dispatcher that ended is followed by
\* another; a request to a push service ends; three days pass.
Fairness ==
  /\ \A k \in Dispatchers : WF_vars(Dispatch(k))
  /\ \A r \in Rows : WF_vars(Age(r))

FairSpec == Spec /\ Fairness

-----------------------------------------------------------------------------
(* Properties.                                                             *)

\* No two dispatchers hold the same attempt of a delivery, and none believes
\* in an attempt that was not counted: what markPushDeliveryRetry() compares
\* with its limit is right although it was read before the claim.
ClaimOnce ==
  /\ \A k \in Dispatchers : \A c \in hand[k] : c.n <= tries[c.row]
  /\ \A k, l \in Dispatchers : \A c \in hand[k], b \in hand[l] :
       c.row = b.row /\ c.n = b.n => k = l /\ c = b

\* Nothing detected before an activation, or in shadow mode, is ever pushed,
\* also when the mode changes while a sync is under way.
\* (store.ts:138 "Historical/shadow events are never released retroactively.")
NoBackfill == \A r \in Rows : status[r] # "none" => born[r[1]] \in live

\* After a dismissal nothing waits to be sent any more but what was being sent
\* at that moment, or was created afterwards for a device that had no delivery.
DismissedQuiet ==
  \A r \in Rows : event[r[1]] = "dismissed" /\ status[r] \in {"pending", "retry"}
                    => r \in escaped

\* However many devices dismiss an event at once, the Mac gets one command.
OneCommand == \A x, y \in commands : x[1] = y[1] => x = y

\* A device that was told its dismissal is done can rely on it: the command is
\* queued and the event resolved, whatever was cut off in between.
DismissDurable ==
  \A i \in used :
    /\ event[i.row[1]] = "dismissed"
    /\ <<i.row[1], global[i.row[1]]>> \in commands

\* A device is shown an event again only when it may not have been: an answer
\* was lost, a dispatcher died after it, or a lease ran out under one.
OnlyDoubtsRepeat == \A r \in Rows : shown[r] <= 1 + doubts[r]

\* What was accepted was shown, also when the claim has lost its lease.
AcceptedShown ==
  \A k \in Dispatchers : \A c \in hand[k] : c.step = "accepted" => shown[c.row] > 0

\* Claims, leases, retries, expiry and dismissals together keep the ledger that
\* the Telegram pipeline keeps too: a repeat only for a doubt, "delivered" only
\* after a showing, and one end (store.ts:318-480).
Recorded(r) ==
  CASE status[r] = "none"      -> "absent"
    [] status[r] \in Open      -> "open"
    [] status[r] = "delivered" -> "delivered"
    [] OTHER                   -> "given up"

Ledger == INSTANCE DeliveryLedger
            WITH Messages <- Rows, outcome <- [r \in Rows |-> Recorded(r)]

KeepsLedger == Ledger!Spec

\* A delivery that ended stays as it ended, whatever late dispatchers report.
SettledStays ==
  [][\A r \in Rows : status[r] \in Ended => status'[r] = status[r]]_vars

\* Every delivery ends, also to a device that was revoked, also when each of
\* its dispatchers dies.
EverySettled == \A r \in Rows : status[r] \in Open ~> status[r] \in Ended
=============================================================================
