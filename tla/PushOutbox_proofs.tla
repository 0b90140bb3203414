-------------------------- MODULE PushOutbox_proofs --------------------------
(***************************************************************************)
(* Theorems about PushOutbox for every set of articles, devices and        *)
(* dispatchers and every bound.                                            *)
(***************************************************************************)
EXTENDS PushOutbox, FiniteSetTheorems, TLAPS

USE DEF release, rows, disp, taps, history, counts

\* A row is an article and a device.
LEMMA RowParts == ASSUME NEW r \in Rows PROVE r[1] \in Articles /\ r[2] \in Devices
BY DEF Rows

\* Recording an outcome keeps the statuses typed.
LEMMA MarkedType ==
  ASSUME TypeOK, NEW r \in Rows, NEW outcome \in Open \cup Ended
  PROVE  Marked(r, outcome) \in [Rows -> {"none"} \cup Open \cup Ended]
BY DEF TypeOK, Marked

\* A request in progress is about a row.
LEMMA TapType ==
  ASSUME TypeOK, NEW t \in Taps, tap[t].place \notin {"free", "done"}
  PROVE  /\ tap[t] \in Dismissals
         /\ tap[t].row \in Rows /\ tap[t].row[1] \in Articles
<1>1. tap[t] \in {FreeTap, EndedTap} \cup Dismissals
  BY DEF TypeOK
<1>2. tap[t] # FreeTap /\ tap[t] # EndedTap
  BY DEF FreeTap, EndedTap
<1>3. tap[t] \in Dismissals
  BY <1>1, <1>2
<1> QED
  BY <1>3, RowParts DEF Dismissals

\* The initial state is typed.
LEMMA TypeInit == Init => TypeOK
BY ConstantsAssumption DEF Init, Start, TypeOK, NoSync, Eras

\* Every action keeps the types.
LEMMA TypeStep == TypeOK /\ [Next]_vars => TypeOK'
<1> SUFFICES ASSUME TypeOK, [Next]_vars PROVE TypeOK'
  OBVIOUS
<1> USE ConstantsAssumption
<1>1. ASSUME NEW r \in Rows, Elapse(r) \/ Age(r) PROVE TypeOK'
  BY <1>1 DEF Elapse, Age, TypeOK
<1>2. ASSUME NEW r \in Rows, Lapse(r) PROVE TypeOK'
  BY <1>2 DEF Lapse, TypeOK
<1>3. ASSUME NEW a \in Articles, Detect(a) PROVE TypeOK'
  BY <1>3 DEF Detect, TypeOK, Eras
<1>4. ASSUME NEW a \in Articles, GrowOld(a) PROVE TypeOK'
  BY <1>4 DEF GrowOld, TypeOK
<1>5. ASSUME NEW on \in BOOLEAN, SetMode(on) PROVE TypeOK'
  BY <1>5 DEF SetMode, TypeOK, Eras
<1>6. ASSUME NEW d \in Devices, Register(d) PROVE TypeOK'
  BY <1>6 DEF Register, TypeOK
<1>7. ASSUME NEW D \in SUBSET Devices, Revoke(D) PROVE TypeOK'
  BY <1>7 DEF Revoke, TypeOK
<1>8. ASSUME NEW A \in SUBSET Articles, SyncRead(A) PROVE TypeOK'
  BY <1>8 DEF SyncRead, TypeOK, Eras
<1>9. CASE SyncSubs
  BY <1>9 DEF SyncSubs, TypeOK
<1>10. CASE SyncEvents
  BY <1>10 DEF SyncEvents, TypeOK
<1>11. CASE SyncDeliver
  BY <1>11 DEF SyncDeliver, TypeOK, NoSync, Open
<1>12. CASE SyncDies
  BY <1>12 DEF SyncDies, TypeOK, NoSync
<1>13. ASSUME NEW k \in Dispatchers, Sweep(k) PROVE TypeOK'
  <2>1. Reaped \subseteq Rows /\ Expired \subseteq Rows
    BY DEF Reaped, Expired, TypeOK
  <2>2. status' \in [Rows -> {"none"} \cup Open \cup Ended]
    BY <1>13, <2>1 DEF Sweep, TypeOK, Open, Ended
  <2>3. doubts' \in [Rows -> Nat]
    BY <1>13 DEF Sweep, TypeOK
  <2>4. due' \subseteq Rows /\ late' \in [Dispatchers -> SUBSET Rows]
    BY <1>13, <2>1 DEF Sweep, TypeOK
  <2> QED BY <1>13, <2>2, <2>3, <2>4 DEF Sweep, TypeOK
<1>14. ASSUME NEW k \in Dispatchers, Select(k) PROVE TypeOK'
  BY <1>14 DEF Select, TypeOK
<1>15. ASSUME NEW k \in Dispatchers, Claimed(k) PROVE TypeOK'
  BY <1>15 DEF Claimed, TypeOK
<1>16. ASSUME NEW k \in Dispatchers, NEW x \in todo[k], Take(k, x) PROVE TypeOK'
  <2>1. x \in Rows \X Nat /\ x[1] \in Rows /\ x[2] \in Nat
    BY DEF TypeOK
  <2>2. /\ status' \in [Rows -> {"none"} \cup Open \cup Ended]
        /\ tries' \in [Rows -> Nat]
        /\ leased' \subseteq Rows
        /\ hand' \in [Dispatchers -> SUBSET Claims]
    <3>1. CASE Claimable(k, x[1])
      BY <1>16, <2>1, <3>1 DEF Take, TypeOK, Open, Claims
    <3>2. CASE ~Claimable(k, x[1])
      BY <1>16, <2>1, <3>2 DEF Take, TypeOK
    <3> QED BY <3>1, <3>2
  <2>3. todo' \in [Dispatchers -> SUBSET (Rows \X Nat)]
    BY <1>16 DEF Take, TypeOK
  <2> QED BY <1>16, <2>2, <2>3 DEF Take, TypeOK
<1>17. ASSUME NEW k \in Dispatchers, NEW c \in hand[k], Post(k, c) PROVE TypeOK'
  BY <1>17 DEF Post, TypeOK, Claims
<1>18. ASSUME NEW k \in Dispatchers, NEW c \in hand[k], Accept(k, c) PROVE TypeOK'
  <2>1. c \in Claims
    BY DEF TypeOK
  <2>2. hand' \in [Dispatchers -> SUBSET Claims]
    BY <1>18, <2>1 DEF Accept, TypeOK, Claims
  <2>3. intent' \subseteq Capabilities /\ shown' \in [Rows -> Nat]
    BY <1>18, <2>1 DEF Accept, TypeOK, Claims, Capabilities
  <2> QED BY <1>18, <2>2, <2>3 DEF Accept, TypeOK
<1>19. ASSUME NEW k \in Dispatchers, NEW c \in hand[k],
              Delivered(k, c) \/ Refuse(k, c) \/ Gone(k, c)
       PROVE  TypeOK'
  <2>1. c \in Claims /\ c.row \in Rows
    BY DEF TypeOK, Claims
  <2>2. status' \in [Rows -> {"none"} \cup Open \cup Ended]
    BY <1>19, <2>1, MarkedType DEF Delivered, Refuse, Gone, Disable, Ended, TypeOK
  <2>3. active' \subseteq Devices
    BY <1>19 DEF Delivered, Refuse, Gone, Disable, TypeOK
  <2>4. /\ hand' \in [Dispatchers -> SUBSET Claims]
        /\ at' \in [Dispatchers -> {"idle", "select", "claim", "send"}]
    BY <1>19 DEF Delivered, Refuse, Gone, Drop, TypeOK
  <2> QED BY <1>19, <2>2, <2>3, <2>4 DEF Delivered, Refuse, Gone, Drop, TypeOK
<1>20. ASSUME NEW k \in Dispatchers, NEW c \in hand[k], Transient(k, c) \/ Doubt(k, c)
       PROVE  TypeOK'
  <2>1. c \in Claims /\ c.row \in Rows
    BY DEF TypeOK, Claims
  <2>2. status' \in [Rows -> {"none"} \cup Open \cup Ended]
    BY <1>20, <2>1, MarkedType DEF Transient, Doubt, MarkRetry, Open, Ended
  <2>3. due' \subseteq Rows
    BY <1>20 DEF Transient, Doubt, MarkRetry, TypeOK
  <2>4. late' \in [Dispatchers -> SUBSET Rows]
    BY <1>20, <2>1 DEF Transient, Doubt, Postponed, TypeOK
  <2>5. /\ hand' \in [Dispatchers -> SUBSET Claims]
        /\ at' \in [Dispatchers -> {"idle", "select", "claim", "send"}]
    BY <1>20 DEF Transient, Doubt, TypeOK
  <2>6. faults' \in Nat /\ doubts' \in [Rows -> Nat]
    BY <1>20, <2>1 DEF Transient, Doubt, TypeOK
  <2> QED BY <1>20, <2>2, <2>3, <2>4, <2>5, <2>6 DEF Transient, Doubt, TypeOK
<1>21. ASSUME NEW k \in Dispatchers, Die(k) PROVE TypeOK'
  <2>1. doubts' \in [Rows -> Nat]
    BY <1>21 DEF Die, TypeOK
  <2> QED BY <1>21, <2>1 DEF Die, TypeOK
<1>22. ASSUME NEW t \in Taps, NEW i \in intent, TapRead(t, i) PROVE TypeOK'
  BY <1>22 DEF TapRead, TypeOK, Capabilities, TapPlaces, Dismissals
<1>23. ASSUME NEW t \in Taps, TapInsert(t) PROVE TypeOK'
  <2>1. tap[t] \in Dismissals /\ tap[t].row[1] \in Articles
    BY <1>23, TapType DEF TapInsert
  <2>2. global' \in [Articles -> 0..MaxTaps]
    <3>1. global \in [Articles -> 0..MaxTaps] /\ t \in 0..MaxTaps
      BY DEF TypeOK, Taps
    <3>2. \E a \in Articles :
            global' = [global EXCEPT ![a] = IF @ = 0 THEN t ELSE @]
      BY <1>23, <2>1 DEF TapInsert
    <3> QED BY <3>1, <3>2
  <2>3. Agreed(t, tap[t].row[1]) \in 0..MaxTaps
    BY <2>1 DEF Agreed, TypeOK, Taps
  <2>4. tap' \in [Taps -> {FreeTap, EndedTap} \cup Dismissals]
    BY <1>23, <2>1, <2>3 DEF TapInsert, TypeOK, Dismissals, TapPlaces
  <2> QED BY <1>23, <2>2, <2>4 DEF TapInsert, TypeOK
<1>24. ASSUME NEW t \in Taps, TapCommand(t) PROVE TypeOK'
  <2>1. tap[t] \in Dismissals /\ tap[t].row[1] \in Articles
    BY <1>24, TapType DEF TapCommand
  <2>2. commands' \subseteq Articles \X (0..MaxTaps)
    BY <1>24, <2>1 DEF TapCommand, TypeOK, Dismissals
  <2>3. tap' \in [Taps -> {FreeTap, EndedTap} \cup Dismissals]
    BY <1>24, <2>1 DEF TapCommand, TapGoes, TypeOK, Dismissals, TapPlaces
  <2> QED BY <1>24, <2>2, <2>3 DEF TapCommand, TypeOK
<1>25. ASSUME NEW t \in Taps, TapClose(t) PROVE TypeOK'
  <2>1. /\ tap[t] \in Dismissals
        /\ tap[t].row[1] \in Articles
    BY <1>25, TapType DEF TapClose
  <2>2. event' \in [Articles -> {"none", "open", "dismissed"}]
    BY <1>25, <2>1 DEF TapClose, TypeOK
  <2>3. status' \in [Rows -> {"none"} \cup Open \cup Ended] /\ escaped' \subseteq Rows
    BY <1>25 DEF TapClose, TypeOK, Ended
  <2>4. tap' \in [Taps -> {FreeTap, EndedTap} \cup Dismissals]
    BY <1>25, <2>1 DEF TapClose, TapGoes, TapPlaces, Dismissals, TypeOK
  <2> QED BY <1>25, <2>2, <2>3, <2>4 DEF TapClose, TypeOK
<1>26. ASSUME NEW t \in Taps, TapComplete(t) PROVE TypeOK'
  <2>1. tap[t] \in Dismissals
    BY <1>26, TapType DEF TapComplete
  <2> QED BY <1>26, <2>1 DEF TapComplete, TypeOK, Used, Capabilities, Dismissals
<1>27. ASSUME NEW t \in Taps, TapDies(t) PROVE TypeOK'
  BY <1>27 DEF TapDies, TypeOK
<1>28. CASE UNCHANGED vars
  BY <1>28 DEF vars, TypeOK
<1> QED
  BY <1>1, <1>2, <1>3, <1>4, <1>5, <1>6, <1>7, <1>8, <1>9, <1>10, <1>11, <1>12, <1>13,
     <1>14, <1>15, <1>16, <1>17, <1>18, <1>19, <1>20, <1>21, <1>22, <1>23, <1>24, <1>25,
     <1>26, <1>27, <1>28
  DEF Next, Sync, Dispatch, Claim, Outcome, TapSteps

\* Type correctness.
THEOREM TypeCorrect == Spec => []TypeOK
BY TypeInit, TypeStep, PTL DEF Spec

-----------------------------------------------------------------------------
(* What ended stays ended.                                                 *)

\* No step changes the status of a delivery that ended.
LEMMA SettledStep ==
  ASSUME TypeOK, [Next]_vars, NEW r \in Rows, status[r] \in Ended
  PROVE  status'[r] = status[r]
<1> USE DEF TypeOK, Ended, Open
<1>1. CASE SyncDeliver
  BY <1>1 DEF SyncDeliver
<1>2. ASSUME NEW k \in Dispatchers, Sweep(k) PROVE status'[r] = status[r]
  BY <1>2 DEF Sweep, Reaped, Expired
<1>3. ASSUME NEW k \in Dispatchers, NEW x \in todo[k], Take(k, x)
      PROVE  status'[r] = status[r]
  BY <1>3 DEF Take, Claimable
<1>4. ASSUME NEW k \in Dispatchers, NEW c \in hand[k], Outcome(k, c)
      PROVE  status'[r] = status[r]
  BY <1>4 DEF Outcome, Accept, Delivered, Transient, Doubt, Refuse, Gone, MarkRetry,
              Marked, Disable
<1>5. ASSUME NEW t \in Taps, TapClose(t) PROVE status'[r] = status[r]
  BY <1>5 DEF TapClose, Closed
<1>6. CASE UNCHANGED status
  BY <1>6
<1> HIDE DEF TypeOK, Ended, Open
<1>7. ASSUME NEW k \in Dispatchers, Dispatch(k) PROVE status'[r] = status[r]
  BY <1>2, <1>3, <1>4, <1>6, <1>7 DEF Dispatch, Claim, Select, Claimed, Post, rows
<1>8. ASSUME NEW t \in Taps, TapSteps(t) \/ \E i \in intent : TapRead(t, i)
      PROVE  status'[r] = status[r]
  BY <1>5, <1>6, <1>8
  DEF TapSteps, TapRead, TapInsert, TapCommand, TapComplete, TapDies, rows
<1>9. CASE Sync \/ \E A \in SUBSET Articles : SyncRead(A)
  BY <1>1, <1>6, <1>9 DEF Sync, SyncRead, SyncSubs, SyncEvents, SyncDies, rows
<1>10. CASE UNCHANGED vars
  BY <1>6, <1>10 DEF vars, rows
<1> QED
  BY <1>6, <1>7, <1>8, <1>9, <1>10
  DEF Next, Elapse, Lapse, Age, Detect, GrowOld, SetMode, Register, Revoke, Die, rows

\* A delivery that ended stays as it ended, whatever late dispatchers report.
THEOREM SettledStaysHolds == Spec => SettledStays
<1>1. TypeOK /\ [Next]_vars => [\A r \in Rows : status[r] \in Ended => status'[r] = status[r]]_vars
  BY SettledStep
<1> QED
  BY <1>1, TypeCorrect, PTL DEF Spec, SettledStays

-----------------------------------------------------------------------------
(* What a sync releases.                                                   *)

\* The articles of a sync were detected by the time its mode was read, and
\* what it computed belongs to an active era, as does every delivery.
ReleaseInv ==
  /\ \A a \in Articles : born[a] <= era
  /\ sync.place # "none" => \A a \in sync.arts : born[a] \in 1..sync.era
  /\ \A r \in sync.rows : born[r[1]] \in live
  /\ NoBackfill

LEMMA ReleaseInit == Init => ReleaseInv
BY ConstantsAssumption DEF Init, Start, NoSync, ReleaseInv, NoBackfill

LEMMA ReleaseStep == TypeOK /\ ReleaseInv /\ [Next]_vars => ReleaseInv'
<1> SUFFICES ASSUME TypeOK, ReleaseInv, [Next]_vars PROVE ReleaseInv'
  OBVIOUS
<1> USE RowParts, ConstantsAssumption DEF TypeOK, ReleaseInv, NoBackfill
<1>1. ASSUME NEW a \in Articles, Detect(a) PROVE ReleaseInv'
  <2>1. /\ \A b \in Articles : born[b] # 0 => born'[b] = born[b]
        /\ \A b \in Articles : born'[b] <= era'
    BY <1>1 DEF Detect, Eras
  <2>2. \A b \in Articles : born[b] \in live => born[b] # 0
    BY DEF Eras
  <2> QED BY <1>1, <2>1, <2>2 DEF Detect
<1>2. ASSUME NEW on \in BOOLEAN, SetMode(on) PROVE ReleaseInv'
  <2>1. live \subseteq live' /\ \A a \in Articles : born[a] <= era'
    BY <1>2 DEF SetMode, Eras
  <2> QED BY <1>2, <2>1 DEF SetMode
<1>3. ASSUME NEW A \in SUBSET Articles, SyncRead(A) PROVE ReleaseInv'
  <2>1. \A a \in A : born[a] \in 1..era
    BY <1>3 DEF SyncRead, Eras
  <2> QED BY <1>3, <2>1 DEF SyncRead
<1>4. CASE SyncSubs
  <2>1. sync'.rows = {r \in Rows : /\ r[1] \in sync.arts /\ r[2] \in active
                                   /\ Released(r[1])}
    BY <1>4 DEF SyncSubs
  <2>2. \A a \in sync.arts : Released(a) => born[a] \in live
    <3> SUFFICES ASSUME NEW a \in sync.arts, Released(a) PROVE born[a] \in live
      OBVIOUS
    <3>1. born[a] >= sync.era /\ born[a] \in 1..sync.era /\ sync.era \in live
      BY <1>4 DEF SyncSubs, Released
    <3>2. sync.era \in Nat
      OBVIOUS
    <3> HIDE DEF TypeOK, ReleaseInv, NoBackfill
    <3>3. born[a] = sync.era
      BY <3>1, <3>2
    <3> QED BY <3>1, <3>3
  <2> QED BY <1>4, <2>1, <2>2 DEF SyncSubs
<1>5. CASE SyncEvents
  BY <1>5 DEF SyncEvents
<1>6. CASE SyncDeliver
  BY <1>6 DEF SyncDeliver, NoSync
<1>7. CASE SyncDies
  BY <1>7 DEF SyncDies, NoSync
<1>8. ASSUME NEW k \in Dispatchers, Sweep(k) PROVE ReleaseInv'
  BY <1>8 DEF Sweep, Reaped, Expired, Open
<1>9. ASSUME NEW k \in Dispatchers, NEW x \in todo[k], Take(k, x) PROVE ReleaseInv'
  BY <1>9 DEF Take, Claimable
<1>10. ASSUME NEW k \in Dispatchers, NEW c \in hand[k], Outcome(k, c) PROVE ReleaseInv'
  BY <1>10 DEF Outcome, Accept, Delivered, Transient, Doubt, Refuse, Gone, MarkRetry,
               Marked, Disable, Open
<1>11. ASSUME NEW t \in Taps, TapClose(t) PROVE ReleaseInv'
  BY <1>11 DEF TapClose, Closed
<1>12. CASE UNCHANGED <<era, sync, born, live, status>>
  BY <1>12
<1> HIDE DEF TypeOK, ReleaseInv, NoBackfill
<1>13. ASSUME NEW k \in Dispatchers, Dispatch(k) PROVE ReleaseInv'
  BY <1>8, <1>9, <1>10, <1>12, <1>13
  DEF Dispatch, Claim, Select, Claimed, Post, rows, release
<1>14. ASSUME NEW t \in Taps, TapSteps(t) \/ \E i \in intent : TapRead(t, i)
       PROVE  ReleaseInv'
  BY <1>11, <1>12, <1>14
  DEF TapSteps, TapRead, TapInsert, TapCommand, TapComplete, TapDies, rows, release
<1>15. CASE Sync \/ \E A \in SUBSET Articles : SyncRead(A)
  BY <1>3, <1>4, <1>5, <1>6, <1>7, <1>15 DEF Sync
<1>16. CASE UNCHANGED vars
  BY <1>12, <1>16 DEF vars, rows, release
<1> QED
  BY <1>1, <1>2, <1>12, <1>13, <1>14, <1>15, <1>16
  DEF Next, Elapse, Lapse, Age, GrowOld, Register, Revoke, Die, rows, release

\* Nothing from before an activation, or of shadow mode, is ever pushed.
THEOREM NoBackfillHolds == Spec => []NoBackfill
<1>1. ReleaseInv => NoBackfill
  BY DEF ReleaseInv
<1> QED
  BY <1>1, TypeCorrect, ReleaseInit, ReleaseStep, PTL DEF Spec

-----------------------------------------------------------------------------
(* What a dismissal promises.                                              *)

\* Events exist before their deliveries, claims and dismissals; a dismissal
\* uses the command id that is stored for its event, and goes step by step.
DismissInv ==
  /\ \A r \in Rows : status[r] # "none" => event[r[1]] # "none"
  /\ sync.rows \subseteq sync.arts \X Devices
  /\ sync.place = "deliver" => \A a \in sync.arts : event[a] # "none"
  /\ \A k \in Dispatchers :
       /\ \A x \in todo[k] : event[x[1][1]] # "none"
       /\ \A c \in hand[k] : event[c.row[1]] # "none"
  /\ \A i \in intent : event[i.row[1]] # "none"
  /\ \A t \in Taps : tap[t].place \in TapPlaces => event[tap[t].row[1]] # "none"
  /\ \A t \in Taps : tap[t].place \in {"command", "close", "complete"} =>
       tap[t].cmd = global[tap[t].row[1]] /\ tap[t].cmd # 0
  /\ \A t \in Taps : tap[t].place \in {"close", "complete"} =>
       <<tap[t].row[1], tap[t].cmd>> \in commands
  /\ \A t \in Taps : tap[t].place = "complete" => event[tap[t].row[1]] = "dismissed"
  /\ \A x \in commands : x[2] = global[x[1]] /\ x[2] # 0
  /\ DismissDurable
  /\ \A r \in Rows : event[r[1]] = "dismissed" /\ status[r] \in Open => r \in escaped

LEMMA DismissInit == Init => DismissInv
<1> SUFFICES ASSUME Init PROVE DismissInv
  OBVIOUS
<1>1. \A t \in Taps : tap[t].place = "free"
  BY DEF Init, Start, FreeTap
<1>2. \A r \in Rows : status[r] = "none"
  BY DEF Init, Start
<1>3. \A k \in Dispatchers : todo[k] = {} /\ hand[k] = {}
  BY DEF Init, Start
<1>4. sync.place = "none" /\ sync.rows = {}
  BY DEF Init, Start, NoSync
<1>5. intent = {} /\ used = {} /\ commands = {}
  BY DEF Init, Start
<1> QED
  BY <1>1, <1>2, <1>3, <1>4, <1>5 DEF TapPlaces, DismissInv, DismissDurable, Open

LEMMA DismissStep == TypeOK /\ DismissInv /\ [Next]_vars => DismissInv'
<1> SUFFICES ASSUME TypeOK, DismissInv, [Next]_vars PROVE DismissInv'
  OBVIOUS
<1> USE RowParts DEF TypeOK, DismissInv, DismissDurable, TapPlaces
<1>1. CASE SyncSubs
  BY <1>1 DEF SyncSubs, Rows
<1>2. ASSUME NEW A \in SUBSET Articles, SyncRead(A) PROVE DismissInv'
  BY <1>2 DEF SyncRead
<1>3. CASE SyncEvents
  <2>1. \A a \in Articles : /\ event[a] # "none" => event'[a] = event[a]
                            /\ event'[a] = "dismissed" => event[a] = "dismissed"
                            /\ a \in sync.arts => event'[a] # "none"
    BY <1>3 DEF SyncEvents
  <2>2. sync'.rows = sync.rows /\ sync'.arts = sync.arts /\ sync'.place = "deliver"
    BY <1>3 DEF SyncEvents
  <2>3. UNCHANGED <<status, todo, hand, intent, used, global, commands, tap, escaped>>
    BY <1>3 DEF SyncEvents
  <2>4. \A k \in Dispatchers : /\ \A x \in todo[k] : x[1][1] \in Articles
                               /\ \A c \in hand[k] : c.row[1] \in Articles
    BY DEF Claims
  <2>5. \A i \in intent \cup used : i.row[1] \in Articles
    BY DEF Capabilities
  <2>6. \A t \in Taps : tap[t].place \in TapPlaces => tap[t].row[1] \in Articles
    BY TapType
  <2>7. sync.arts \subseteq Articles
    OBVIOUS
  <2> HIDE DEF TypeOK
  <2>8. DismissDurable'
    BY <2>1, <2>3, <2>5
  <2> HIDE DEF DismissDurable
  <2> QED BY <2>1, <2>2, <2>3, <2>4, <2>5, <2>6, <2>7, <2>8 DEF Open
<1>4. CASE SyncDeliver
  BY <1>4 DEF SyncDeliver, NoSync
<1>5. CASE SyncDies
  BY <1>5 DEF SyncDies, NoSync
<1>6. ASSUME NEW k \in Dispatchers, Sweep(k) PROVE DismissInv'
  BY <1>6 DEF Sweep, Reaped, Expired, Open
<1>7. ASSUME NEW k \in Dispatchers, Select(k) PROVE DismissInv'
  BY <1>7 DEF Select, Claimable
<1>8. ASSUME NEW k \in Dispatchers, NEW x \in todo[k], Take(k, x) PROVE DismissInv'
  BY <1>8 DEF Take, Claimable, Open
<1>9. ASSUME NEW k \in Dispatchers, NEW c \in hand[k], Post(k, c) PROVE DismissInv'
  <2>1. c \in Claims /\ [c EXCEPT !.step = "posted"].row = c.row
    BY DEF Claims
  <2>2. \A l \in Dispatchers : \A b \in hand'[l] : event[b.row[1]] # "none"
    <3>1. /\ hand'[k] = (hand[k] \ {c}) \cup {[c EXCEPT !.step = "posted"]}
          /\ \A l \in Dispatchers \ {k} : hand'[l] = hand[l]
      BY <1>9 DEF Post
    <3>2. \A b \in hand[k] : event[b.row[1]] # "none"
      OBVIOUS
    <3>3. ASSUME NEW b \in hand'[k] PROVE event[b.row[1]] # "none"
      <4>1. b \in hand[k] \/ b = [c EXCEPT !.step = "posted"]
        BY <3>1
      <4>2. b \in hand[k] \/ b.row = c.row
        BY <2>1, <4>1
      <4> QED BY <3>2, <4>2
    <3> QED BY <3>1, <3>3
  <2>3. UNCHANGED <<event, sync, status, todo, intent, used, global, commands, tap, escaped>>
    BY <1>9 DEF Post
  <2> QED BY <2>2, <2>3
<1>10. ASSUME NEW k \in Dispatchers, NEW c \in hand[k], Accept(k, c) PROVE DismissInv'
  <2>1. c \in Claims /\ [c EXCEPT !.step = "accepted"].row = c.row
    BY DEF Claims
  <2>2. \A l \in Dispatchers : \A b \in hand'[l] : event[b.row[1]] # "none"
    <3>1. /\ hand'[k] = (hand[k] \ {c}) \cup {[c EXCEPT !.step = "accepted"]}
          /\ \A l \in Dispatchers \ {k} : hand'[l] = hand[l]
      BY <1>10 DEF Accept
    <3>2. \A b \in hand[k] : event[b.row[1]] # "none"
      OBVIOUS
    <3>3. ASSUME NEW b \in hand'[k] PROVE event[b.row[1]] # "none"
      <4>1. b \in hand[k] \/ b = [c EXCEPT !.step = "accepted"]
        BY <3>1
      <4>2. b \in hand[k] \/ b.row = c.row
        BY <2>1, <4>1
      <4> QED BY <3>2, <4>2
    <3> QED BY <3>1, <3>3
  <2>3. \A i \in intent' : event[i.row[1]] # "none"
    BY <1>10 DEF Accept
  <2>4. UNCHANGED <<event, sync, status, todo, used, global, commands, tap, escaped>>
    BY <1>10 DEF Accept
  <2> QED BY <2>2, <2>3, <2>4
<1>11. ASSUME NEW k \in Dispatchers, NEW c \in hand[k],
              Delivered(k, c) \/ Transient(k, c) \/ Doubt(k, c) \/ Refuse(k, c) \/ Gone(k, c)
       PROVE  DismissInv'
  <2>1. \A r \in Rows : /\ status'[r] # "none" => status[r] # "none"
                        /\ status'[r] \in Open => status[r] \in Open
    BY <1>11 DEF Delivered, Transient, Doubt, Refuse, Gone, MarkRetry, Marked, Disable, Open
  <2>2. \A l \in Dispatchers : hand'[l] \subseteq hand[l] /\ todo'[l] = todo[l]
    BY <1>11 DEF Delivered, Transient, Doubt, Refuse, Gone, Drop
  <2>3. UNCHANGED <<event, sync, intent, used, global, commands, tap, escaped>>
    BY <1>11 DEF Delivered, Transient, Doubt, Refuse, Gone, Drop
  <2> QED BY <2>1, <2>2, <2>3
<1>12. ASSUME NEW k \in Dispatchers, Die(k) PROVE DismissInv'
  BY <1>12 DEF Die
<1>13. ASSUME NEW t \in Taps, NEW i \in intent, TapRead(t, i) PROVE DismissInv'
  BY <1>13 DEF TapRead
<1>14. ASSUME NEW t \in Taps, TapInsert(t) PROVE DismissInv'
  <2> DEFINE a == tap[t].row[1]
  <2>1. tap[t] \in Dismissals /\ a \in Articles
    BY <1>14, TapType DEF TapInsert
  <2>2. \A b \in Articles : global[b] # 0 => global'[b] = global[b]
    BY <1>14, <2>1 DEF TapInsert
  <2>3. global'[a] = Agreed(t, a) /\ Agreed(t, a) # 0
    BY <1>14, <2>1 DEF TapInsert, Agreed, Taps
  <2>4. /\ tap'[t].place = "command" /\ tap'[t].cmd = Agreed(t, a)
        /\ tap'[t].row = tap[t].row
        /\ \A u \in Taps \ {t} : tap'[u] = tap[u]
    BY <1>14, <2>1 DEF TapInsert, Dismissals
  <2>5. UNCHANGED <<event, sync, status, todo, hand, intent, used, commands, escaped>>
    BY <1>14 DEF TapInsert
  <2>6. \A x \in commands : x[1] \in Articles /\ global'[x[1]] = global[x[1]]
    BY <2>2
  <2>7. \A u \in Taps : tap[u].place \in TapPlaces => tap[u].row[1] \in Articles
    BY TapType
  <2>8. \A i \in used : i.row[1] \in Articles
    BY DEF Capabilities
  <2> HIDE DEF TypeOK, a
  <2>9. \A i \in used : global'[i.row[1]] = global[i.row[1]]
    BY <2>2, <2>6, <2>8
  <2>10. DismissDurable'
    BY <2>5, <2>9
  <2> HIDE DEF DismissDurable
  <2>11. \A u \in Taps : tap'[u].place \in {"command", "close", "complete"} =>
           tap'[u].cmd = global'[tap'[u].row[1]] /\ tap'[u].cmd # 0
    BY <2>2, <2>3, <2>4, <2>7 DEF a
  <2>12. \A u \in Taps : tap'[u].place \in TapPlaces => event[tap'[u].row[1]] # "none"
    <3>1. tap[t].place = "insert" /\ event[a] # "none"
      BY <1>14 DEF TapInsert, a
    <3> QED BY <2>4, <3>1 DEF a
  <2>13. \A u \in Taps : tap'[u].place \in {"close", "complete"} => tap'[u] = tap[u]
    BY <2>4
  <2> QED BY <2>2, <2>5, <2>6, <2>10, <2>11, <2>12, <2>13
<1>15. ASSUME NEW t \in Taps, TapCommand(t) PROVE DismissInv'
  <2>1. tap[t] \in Dismissals /\ tap[t].place = "command"
    BY <1>15, TapType DEF TapCommand
  <2>2. /\ tap'[t] = [tap[t] EXCEPT !.place = "close"]
        /\ \A u \in Taps \ {t} : tap'[u] = tap[u]
    BY <1>15 DEF TapCommand, TapGoes
  <2>3. /\ tap'[t].place = "close" /\ tap'[t].row = tap[t].row
        /\ tap'[t].cmd = tap[t].cmd
    BY <2>1, <2>2 DEF Dismissals
  <2>4. /\ commands' = commands \cup {<<tap[t].row[1], tap[t].cmd>>}
        /\ UNCHANGED <<event, sync, status, todo, hand, intent, used, global, escaped>>
    BY <1>15 DEF TapCommand, release, rows, disp, history
  <2>5. DismissDurable'
    BY <2>4
  <2>6. /\ tap[t].cmd = global[tap[t].row[1]] /\ tap[t].cmd # 0
        /\ event[tap[t].row[1]] # "none"
    BY <2>1
  <2>7. \A x \in commands' : x[2] = global[x[1]] /\ x[2] # 0
    BY <2>4, <2>6
  <2>8. \A u \in Taps :
          /\ tap'[u].place \in TapPlaces => event[tap'[u].row[1]] # "none"
          /\ tap'[u].place \in {"command", "close", "complete"} =>
               tap'[u].cmd = global[tap'[u].row[1]] /\ tap'[u].cmd # 0
          /\ tap'[u].place \in {"close", "complete"} =>
               <<tap'[u].row[1], tap'[u].cmd>> \in commands'
          /\ tap'[u].place = "complete" => event[tap'[u].row[1]] = "dismissed"
    <3> TAKE u \in Taps
    <3>1. CASE u = t
      BY <2>3, <2>4, <2>6, <3>1
    <3>2. CASE u # t
      <4>1. tap'[u] = tap[u]
        BY <2>2, <3>2
      <4> QED BY <2>4, <4>1
    <3> QED BY <3>1, <3>2
  <2> HIDE DEF TypeOK, DismissDurable
  <2> QED BY <2>4, <2>5, <2>7, <2>8
<1>16. ASSUME NEW t \in Taps, TapClose(t) PROVE DismissInv'
  <2> DEFINE a == tap[t].row[1]
  <2>1. tap[t] \in Dismissals /\ a \in Articles /\ tap[t].place = "close"
    BY <1>16, TapType DEF TapClose
  <2>2. event' = [event EXCEPT ![a] = IF @ = "open" THEN "dismissed" ELSE @]
    BY <1>16 DEF TapClose
  <2>3. event'[a] = "dismissed" /\ \A b \in Articles \ {a} : event'[b] = event[b]
    <3>1. event[a] # "none"
      BY <2>1 DEF TapPlaces
    <3> QED BY <2>1, <2>2, <3>1
  <2>4. \A b \in Articles : event[b] # "none" => event'[b] # "none"
    BY <2>3
  <2>5. \A r \in Rows : status'[r] = IF r \in Closed(a) THEN "failed" ELSE status[r]
    BY <1>16 DEF TapClose
  <2>6. /\ tap'[t] = [tap[t] EXCEPT !.place = "complete"]
        /\ \A u \in Taps \ {t} : tap'[u] = tap[u]
    BY <1>16 DEF TapClose, TapGoes
  <2>7. escaped' = escaped \cup {r \in Rows : r[1] = a /\ status[r] = "sending"}
    BY <1>16 DEF TapClose
  <2>8. UNCHANGED <<sync, todo, hand, intent, used, commands, global>>
    BY <1>16 DEF TapClose, disp
  <2>9. /\ tap'[t].place = "complete" /\ tap'[t].row = tap[t].row
        /\ tap'[t].cmd = tap[t].cmd
    BY <2>1, <2>6 DEF Dismissals
  <2>10. \A r \in Rows : r[1] \in Articles
    BY RowParts
  <2>11. \A r \in Rows : event'[r[1]] = "dismissed" /\ status'[r] \in Open => r \in escaped'
    <3> SUFFICES ASSUME NEW r \in Rows, event'[r[1]] = "dismissed", status'[r] \in Open
                 PROVE  r \in escaped'
      OBVIOUS
    <3>1. status'[r] = status[r]
      BY <2>5 DEF Open
    <3>2. CASE r[1] = a
      BY <2>5, <2>7, <3>1, <3>2 DEF Open, Closed
    <3>3. CASE r[1] # a
      BY <2>3, <2>7, <2>10, <3>1, <3>3
    <3> QED BY <3>2, <3>3
  <2>12. \A r \in Rows : status'[r] # "none" => event'[r[1]] # "none"
    <3>1. \A r \in Rows : r \in Closed(a) => r[1] = a
      BY DEF Closed
    <3> QED BY <2>3, <2>4, <2>5, <2>10, <3>1
  <2>13. \A u \in Taps : tap'[u].place \in TapPlaces => event'[tap'[u].row[1]] # "none"
    <3> SUFFICES ASSUME NEW u \in Taps, tap'[u].place \in TapPlaces
                 PROVE  event'[tap'[u].row[1]] # "none"
      OBVIOUS
    <3>1. CASE u = t
      BY <2>3, <2>9, <3>1
    <3>2. CASE u # t
      <4>1. tap'[u] = tap[u] /\ tap[u].row[1] \in Articles
        BY <2>6, <3>2, TapType
      <4> QED BY <2>4, <4>1
    <3> QED BY <3>1, <3>2
  <2>14. \A u \in Taps : tap'[u].place = "complete" => event'[tap'[u].row[1]] = "dismissed"
    <3> SUFFICES ASSUME NEW u \in Taps, tap'[u].place = "complete"
                 PROVE  event'[tap'[u].row[1]] = "dismissed"
      OBVIOUS
    <3>1. CASE u = t
      BY <2>3, <2>9, <3>1
    <3>2. CASE u # t
      <4>1. tap'[u] = tap[u] /\ tap[u].row[1] \in Articles
        BY <2>6, <3>2, TapType DEF TapPlaces
      <4> QED BY <2>3, <4>1
    <3> QED BY <3>1, <3>2
  <2>15. /\ sync'.place = "deliver" => \A b \in sync'.arts : event'[b] # "none"
         /\ \A k \in Dispatchers :
              /\ \A x \in todo'[k] : event'[x[1][1]] # "none"
              /\ \A c \in hand'[k] : event'[c.row[1]] # "none"
         /\ \A i \in intent' : event'[i.row[1]] # "none"
    <3>1. /\ \A k \in Dispatchers : /\ \A x \in todo[k] : x[1][1] \in Articles
                                   /\ \A c \in hand[k] : c.row[1] \in Articles
          /\ \A i \in intent : i.row[1] \in Articles
      BY DEF Claims, Capabilities
    <3>2. sync.arts \subseteq Articles
      OBVIOUS
    <3> HIDE DEF TypeOK, a
    <3> QED BY <2>4, <2>8, <3>1, <3>2
  <2>16. DismissDurable'
    BY <1>16 DEF TapClose
  <2>17. \A u \in Taps : tap'[u].place \in {"command", "close", "complete"} =>
           /\ tap'[u].cmd = global[tap'[u].row[1]] /\ tap'[u].cmd # 0
           /\ tap'[u].place # "command" => <<tap'[u].row[1], tap'[u].cmd>> \in commands
    <3> SUFFICES ASSUME NEW u \in Taps, tap'[u].place \in {"command", "close", "complete"}
                 PROVE  /\ tap'[u].cmd = global[tap'[u].row[1]] /\ tap'[u].cmd # 0
                        /\ tap'[u].place # "command" =>
                             <<tap'[u].row[1], tap'[u].cmd>> \in commands
      OBVIOUS
    <3>1. CASE u = t
      BY <2>1, <2>9, <3>1
    <3>2. CASE u # t
      <4>1. tap'[u] = tap[u]
        BY <2>6, <3>2
      <4> QED BY <4>1
    <3> QED BY <3>1, <3>2
  <2> HIDE DEF TypeOK, DismissDurable, a
  <2> QED BY <2>8, <2>11, <2>12, <2>13, <2>14, <2>15, <2>16, <2>17
<1>17. ASSUME NEW t \in Taps, TapComplete(t) PROVE DismissInv'
  <2>1. tap'[t].place = "done" /\ \A u \in Taps \ {t} : tap'[u] = tap[u]
    BY <1>17 DEF TapComplete, EndedTap, FreeTap
  <2>2. \A i \in used' : i \in used \/ i.row = tap[t].row
    BY <1>17 DEF TapComplete, Used
  <2>3. UNCHANGED <<event, sync, status, todo, hand, intent, global, commands, escaped>>
    BY <1>17 DEF TapComplete
  <2>4. /\ event[tap[t].row[1]] = "dismissed"
        /\ <<tap[t].row[1], global[tap[t].row[1]]>> \in commands
    BY <1>17 DEF TapComplete
  <2>5. DismissDurable'
    BY <2>2, <2>3, <2>4
  <2> HIDE DEF TypeOK, DismissDurable
  <2> QED BY <2>1, <2>3, <2>5
<1>18. ASSUME NEW t \in Taps, TapDies(t) PROVE DismissInv'
  BY <1>18 DEF TapDies, EndedTap, FreeTap
<1>19. CASE UNCHANGED <<event, sync, status, todo, hand, intent, used, global, commands,
                        tap, escaped>>
  BY <1>19
<1> HIDE DEF TypeOK, DismissInv, DismissDurable, TapPlaces
<1>20. ASSUME NEW k \in Dispatchers, Dispatch(k) PROVE DismissInv'
  BY <1>6, <1>7, <1>8, <1>9, <1>10, <1>11, <1>19, <1>20 DEF Dispatch, Claim, Claimed, Outcome
<1>21. ASSUME NEW t \in Taps, TapSteps(t) \/ \E i \in intent : TapRead(t, i)
       PROVE  DismissInv'
  BY <1>13, <1>14, <1>15, <1>16, <1>17, <1>18, <1>21 DEF TapSteps
<1>22. CASE Sync \/ \E A \in SUBSET Articles : SyncRead(A)
  BY <1>1, <1>2, <1>3, <1>4, <1>5, <1>22 DEF Sync
<1>23. ASSUME NEW a \in Articles, Detect(a) \/ GrowOld(a) PROVE DismissInv'
  BY <1>19, <1>23 DEF Detect, GrowOld
<1>24. CASE UNCHANGED vars
  BY <1>19, <1>24 DEF vars
<1> QED
  BY <1>12, <1>19, <1>20, <1>21, <1>22, <1>23, <1>24
  DEF Next, Elapse, Lapse, Age, SetMode, Register, Revoke


LEMMA DismissCorrect == Spec => []DismissInv
BY TypeCorrect, DismissInit, DismissStep, PTL DEF Spec

\* After a dismissal only what was being sent is sent.
THEOREM DismissedQuietHolds == Spec => []DismissedQuiet
<1>1. DismissInv => DismissedQuiet
  BY DEF DismissInv, DismissedQuiet, Open
<1> QED
  BY <1>1, DismissCorrect, PTL

\* An event yields one command, however many devices dismiss it.
THEOREM OneCommandHolds == Spec => []OneCommand
<1>1. TypeOK /\ DismissInv => OneCommand
  BY DEF TypeOK, DismissInv, OneCommand
<1> QED
  BY <1>1, TypeCorrect, DismissCorrect, PTL

\* A confirmed dismissal has its command queued and its event resolved.
THEOREM DismissDurableHolds == Spec => []DismissDurable
<1>1. DismissInv => DismissDurable
  BY DEF DismissInv
<1> QED
  BY <1>1, DismissCorrect, PTL

-----------------------------------------------------------------------------
(* Claims and repeats.                                                     *)

\* A dispatcher that is claiming sees no delivery whose next attempt lies
\* ahead; what it has selected and can still claim, nobody has claimed since.
ClaimInv ==
  /\ \A r \in Rows : status[r] = "sending" => r \in due
  /\ \A k \in Dispatchers :
       /\ at[k] \in {"select", "claim"} => Rows \ due \subseteq late[k]
       /\ at[k] # "claim" => todo[k] = {}
       /\ at[k] \in {"idle", "select"} => hand[k] = {}
       /\ at[k] = "claim" => \A c \in hand[k] : c.step = "held"
       /\ \A x \in todo[k] : /\ x[2] <= tries[x[1]] /\ status[x[1]] # "none"
                             /\ Claimable(k, x[1]) => x[2] = tries[x[1]]
       /\ \A x, y \in todo[k] : x[1] = y[1] => x = y
       /\ \A x \in todo[k], c \in hand[k] : x[1] # c.row
       /\ \A b, c \in hand[k] : b.row = c.row => b = c
       /\ \A c \in hand[k] : c.n <= tries[c.row]
  /\ \A k, l \in Dispatchers : \A c \in hand[k], b \in hand[l] :
       c.row = b.row /\ c.n = b.n => k = l

\* Dispatchers that hold a claim on r its push service has not yet accepted.
Waiting(r) == {k \in Dispatchers : \E c \in hand[k] : c.row = r /\ c.step # "accepted"}

\* What was shown and what may still be shown is paid for by doubts, but for
\* the delivery's one regular showing, which is spent when it ends.
Paid(r) ==
  LET spent == shown[r] + Cardinality(Waiting(r)) IN
    /\ status[r] = "none" => spent = 0
    /\ status[r] \in {"pending", "retry"} => spent <= doubts[r]
    /\ status[r] = "sending" /\ Holders(r) = {} => spent <= doubts[r]
    /\ spent <= doubts[r] + 1

DoubtInv == \A r \in Rows : Paid(r)

LEMMA ClaimInit == Init => ClaimInv
<1> SUFFICES ASSUME Init PROVE ClaimInv
  OBVIOUS
<1>1. \A k \in Dispatchers : at[k] = "idle" /\ todo[k] = {} /\ hand[k] = {}
  BY DEF Init, Start
<1>2. \A r \in Rows : status[r] = "none"
  BY DEF Init, Start
<1> QED
  BY <1>1, <1>2 DEF ClaimInv

LEMMA ClaimStep == TypeOK /\ ClaimInv /\ [Next]_vars => ClaimInv'
<1> SUFFICES ASSUME TypeOK, ClaimInv, [Next]_vars PROVE ClaimInv'
  OBVIOUS
<1> USE DEF TypeOK, ClaimInv, Claimable
<1>1. ASSUME NEW r \in Rows, Elapse(r) PROVE ClaimInv'
  BY <1>1 DEF Elapse
<1>2. CASE SyncDeliver
  BY <1>2 DEF SyncDeliver
<1>3. ASSUME NEW k \in Dispatchers, Sweep(k) PROVE ClaimInv'
  <2>1. \A r \in Rows : /\ status'[r] = "sending" => status[r] = "sending"
                        /\ status'[r] = "none" => status[r] = "none"
                        /\ status'[r] \in {"pending", "retry"} =>
                             status[r] \in {"pending", "retry"} \/ r \in Reaped
    BY <1>3 DEF Sweep
  <2>2. due \subseteq due' /\ late'[k] = Rows \ due'
    BY <1>3 DEF Sweep
  <2>3. \A l \in Dispatchers \ {k} : late'[l] = late[l] \cup Reaped /\ at'[l] = at[l]
    BY <1>3 DEF Sweep
  <2>4. at'[k] = "select" /\ todo[k] = {} /\ hand[k] = {}
    <3>1. at[k] = "idle" /\ at' = [at EXCEPT ![k] = "select"]
      BY <1>3 DEF Sweep
    <3> QED BY <3>1
  <2>5. UNCHANGED <<todo, hand, tries>>
    BY <1>3 DEF Sweep
  <2>6. \A l \in Dispatchers : \A x \in todo[l] :
          x[1] \in Rows /\ (Claimable(l, x[1])' => Claimable(l, x[1]))
    BY <2>1, <2>3, <2>4
  <2>7. \A l \in Dispatchers : at'[l] \in {"select", "claim"} => Rows \ due' \subseteq late'[l]
    BY <2>2, <2>3, <2>4
  <2>8. \A r \in Rows : status'[r] = "sending" => r \in due'
    BY <2>1, <2>2
  <2>9. \A l \in Dispatchers : \A x \in todo[l] : status'[x[1]] # "none"
    BY <2>1
  <2>10. \A l \in Dispatchers : /\ at'[l] # "claim" => todo[l] = {}
                                /\ at'[l] \in {"idle", "select"} => hand[l] = {}
    BY <2>3, <2>4
  <2>11. \A l \in Dispatchers : \A x \in todo[l] : x[2] <= tries[x[1]]
    OBVIOUS
  <2>12. \A l \in Dispatchers : \A x \in todo[l] : Claimable(l, x[1])' => x[2] = tries[x[1]]
    BY <2>6
  <2>13. \A l \in Dispatchers : at'[l] = "claim" => at[l] = "claim"
    BY <2>3, <2>4
  <2>14. /\ \A l \in Dispatchers :
              /\ \A x, y \in todo[l] : x[1] = y[1] => x = y
              /\ \A x \in todo[l], b \in hand[l] : x[1] # b.row
              /\ \A a, b \in hand[l] : a.row = b.row => a = b
              /\ \A b \in hand[l] : b.n <= tries[b.row]
              /\ at[l] = "claim" => \A b \in hand[l] : b.step = "held"
         /\ \A l, m \in Dispatchers : \A a \in hand[l], b \in hand[m] :
              a.row = b.row /\ a.n = b.n => l = m
    OBVIOUS
  <2> HIDE DEF TypeOK, ClaimInv, Claimable
  <2>15. \A r \in Rows : status'[r] = "sending" => r \in due'
    BY <2>8
  <2>16. \A l \in Dispatchers : \A x \in todo'[l] :
           /\ x[2] <= tries'[x[1]] /\ status'[x[1]] # "none"
           /\ Claimable(l, x[1])' => x[2] = tries'[x[1]]
    BY <2>5, <2>9, <2>11, <2>12
  <2> QED BY <2>5, <2>7, <2>8, <2>9, <2>10, <2>11, <2>12, <2>13, <2>14, <2>15, <2>16 DEF ClaimInv
<1>4. ASSUME NEW k \in Dispatchers, Select(k) PROVE ClaimInv'
  <2>1. /\ at' = [at EXCEPT ![k] = "claim"] /\ at[k] = "select" /\ hand[k] = {}
        /\ \A l \in Dispatchers \ {k} : todo'[l] = todo[l]
        /\ todo'[k] = {<<r, tries[r]>> : r \in {q \in Rows : Claimable(k, q) /\ q[2] \in active}}
        /\ UNCHANGED <<status, tries, due, late, hand>>
    BY <1>4 DEF Select
  <2>2. \A x \in todo'[k] : /\ x[1] \in Rows /\ x = <<x[1], tries[x[1]]>>
                            /\ tries[x[1]] \in Nat /\ status[x[1]] # "none"
    BY <2>1
  <2>3. \A x, y \in todo'[k] : x[1] = y[1] => x = y
    BY <2>2
  <2>4. \A x \in todo'[k] : x[2] <= tries[x[1]] /\ x[2] = tries[x[1]]
    BY <2>2
  <2> QED BY <2>1, <2>2, <2>3, <2>4
<1>5. ASSUME NEW k \in Dispatchers, Claimed(k) PROVE ClaimInv'
  BY <1>5 DEF Claimed
<1>6. ASSUME NEW k \in Dispatchers, NEW x \in todo[k], Take(k, x) PROVE ClaimInv'
  <2>1. x[1] \in Rows /\ x[2] \in Nat
    OBVIOUS
  <2>2. /\ todo'[k] = todo[k] \ {x} /\ at[k] = "claim"
        /\ \A l \in Dispatchers \ {k} : todo'[l] = todo[l]
        /\ UNCHANGED <<at, due, late>>
    BY <1>6 DEF Take
  <2>3. CASE ~Claimable(k, x[1])
    <3>1. UNCHANGED <<status, tries, hand>>
      BY <1>6, <2>3 DEF Take
    <3>2. \A l \in Dispatchers : todo'[l] \subseteq todo[l]
      BY <2>2
    <3> QED BY <2>2, <3>1, <3>2
  <2>4. CASE Claimable(k, x[1])
    <3> DEFINE new == [row |-> x[1], n |-> x[2] + 1, step |-> "held"]
    <3>1. /\ hand'[k] = hand[k] \cup {new}
          /\ \A l \in Dispatchers \ {k} : hand'[l] = hand[l]
          /\ status'[x[1]] = "sending" /\ tries'[x[1]] = tries[x[1]] + 1
          /\ \A r \in Rows \ {x[1]} : status'[r] = status[r] /\ tries'[r] = tries[r]
      BY <1>6, <2>1, <2>4 DEF Take
    <3>2. x[2] = tries[x[1]] /\ x[1] \in due
      BY <2>1, <2>2, <2>4
    <3>3. new.row = x[1] /\ new.n = tries'[x[1]]
      BY <3>1, <3>2
    <3>4. \A l \in Dispatchers : \A c \in hand[l] :
            c.row \in Rows /\ c.n \in Nat /\ c.n <= tries[c.row]
      BY DEF Claims
    <3>5. \A l \in Dispatchers : \A c \in hand[l] : c.n <= tries'[c.row]
      BY <3>1, <3>4
    <3>6. \A l \in Dispatchers : \A c \in hand[l] : c.row = x[1] => c.n # new.n
      BY <3>1, <3>3, <3>4
    <3>7. \A l \in Dispatchers : \A y \in todo[l] :
            /\ y[1] \in Rows /\ y[2] <= tries'[y[1]] /\ status'[y[1]] # "none"
            /\ Claimable(l, y[1])' => y[2] = tries'[y[1]]
      BY <2>2, <3>1
    <3>8. \A y \in todo'[k] : y[1] # x[1] /\ y \in todo[k]
      BY <2>2
    <3>9. new.n <= tries'[x[1]]
      BY <2>1, <3>1, <3>3
    <3>10. \A c \in hand[k] : c.row # x[1]
      OBVIOUS
    <3> HIDE DEF new, TypeOK, Claimable
    <3>11. \A l \in Dispatchers : \A y \in todo'[l] : y \in todo[l]
      BY <2>2, <3>8
    <3>12. \A l, m \in Dispatchers : \A c \in hand'[l], b \in hand'[m] :
             c.row = b.row /\ c.n = b.n => l = m
      BY <3>1, <3>3, <3>6
    <3>13. \A c \in hand'[k] : c.n <= tries'[c.row]
      BY <3>1, <3>3, <3>5, <3>9
    <3>14. /\ \A y \in todo'[k], c \in hand'[k] : y[1] # c.row
           /\ \A b, c \in hand'[k] : b.row = c.row => b = c
      BY <3>1, <3>3, <3>8, <3>10
    <3>15. \A r \in Rows : status'[r] = "sending" => r \in due'
      BY <2>2, <3>1, <3>2
    <3>16. \A c \in hand'[k] : c.step = "held"
      BY <2>2, <3>1 DEF new
    <3> QED BY <2>2, <3>1, <3>5, <3>7, <3>11, <3>12, <3>13, <3>14, <3>15, <3>16
  <2> QED BY <2>3, <2>4
<1>7. ASSUME NEW k \in Dispatchers, NEW c \in hand[k], Post(k, c) \/ Accept(k, c)
      PROVE  ClaimInv'
  <2>1. PICK d : /\ d.row = c.row /\ d.n = c.n
                 /\ hand'[k] = (hand[k] \ {c}) \cup {d}
                 /\ \A l \in Dispatchers \ {k} : hand'[l] = hand[l]
    <3>1. c \in Claims
      OBVIOUS
    <3>2. CASE Post(k, c)
      <4> WITNESS [c EXCEPT !.step = "posted"]
      <4> QED BY <3>1, <3>2 DEF Post, Claims
    <3>3. CASE Accept(k, c)
      <4> WITNESS [c EXCEPT !.step = "accepted"]
      <4> QED BY <3>1, <3>3 DEF Accept, Claims
    <3> QED BY <1>7, <3>2, <3>3
  <2>2. UNCHANGED <<at, todo, late, due, tries, status>>
    BY <1>7 DEF Post, Accept
  <2>3. \A b \in hand'[k] : \E a \in hand[k] : a.row = b.row /\ a.n = b.n
    BY <2>1
  <2> HIDE DEF TypeOK
  <2>4. \A a, b \in hand'[k] : a.row = b.row => a = b
    BY <2>1
  <2>5. \A l, m \in Dispatchers : \A a \in hand'[l], b \in hand'[m] :
          a.row = b.row /\ a.n = b.n => l = m
    BY <2>1, <2>3
  <2>6. hand[k] # {} /\ at[k] # "claim"
    BY <1>7 DEF Post, Accept
  <2>7. \A b \in hand'[k] : b.n <= tries[b.row] /\ \A x \in todo[k] : x[1] # b.row
    BY <2>3
  <2> HIDE DEF Claimable
  <2> QED BY <2>1, <2>2, <2>4, <2>5, <2>6, <2>7 DEF Claimable
<1>8. ASSUME NEW k \in Dispatchers, NEW c \in hand[k],
             Delivered(k, c) \/ Refuse(k, c) \/ Gone(k, c) \/ Transient(k, c) \/ Doubt(k, c)
      PROVE  ClaimInv'
  <2>1. /\ c.row \in Rows /\ at[k] # "idle" /\ at[k] # "select"
        /\ at[k] # "claim" /\ todo[k] = {}
    BY <1>8 DEF Claims, Delivered, Refuse, Gone, Transient, Doubt
  <2>2. /\ hand'[k] = hand[k] \ {c} /\ \A l \in Dispatchers \ {k} : hand'[l] = hand[l]
        /\ UNCHANGED <<todo, tries>>
        /\ at' = [at EXCEPT ![k] = IF hand[k] = {c} THEN "idle" ELSE "send"]
    BY <1>8 DEF Delivered, Refuse, Gone, Transient, Doubt, Drop
  <2>3. \A l \in Dispatchers : /\ hand'[l] \subseteq hand[l]
                               /\ at'[l] \in {"select", "claim"} => at'[l] = at[l]
                               /\ at'[l] # "claim" => todo[l] = {}
                               /\ at'[l] \in {"idle", "select"} => hand'[l] = {}
    BY <2>1, <2>2
  <2>4. \A r \in Rows : /\ status'[r] = "sending" => status[r] = "sending"
                        /\ status'[r] = "none" => status[r] = "none"
    BY <1>8, <2>1 DEF Delivered, Refuse, Gone, Transient, Doubt, Marked, MarkRetry, Disable
  <2>5. \A r \in Rows : status[r] \notin {"pending", "retry"}
                          /\ status'[r] \in {"pending", "retry"}
                          => \A l \in Dispatchers : r \in late'[l]
    BY <1>8, <2>1 DEF Delivered, Refuse, Gone, Transient, Doubt, Marked, MarkRetry, Disable,
                      Drop, Postponed
  <2>6. \A l \in Dispatchers : late[l] \subseteq late'[l]
    BY <1>8, <2>1 DEF Delivered, Refuse, Gone, Transient, Doubt, Drop, Postponed
  <2>7. \A r \in Rows : r \notin due' =>
          /\ r \notin due \/ \A l \in Dispatchers : r \in late'[l]
          /\ status'[r] # "sending"
    BY <1>8, <2>1 DEF Delivered, Refuse, Gone, Transient, Doubt, Marked, MarkRetry, Disable,
                      Drop, Postponed
  <2>8. \A l \in Dispatchers : at'[l] \in {"select", "claim"} => Rows \ due' \subseteq late'[l]
    <3> SUFFICES ASSUME NEW l \in Dispatchers, at'[l] \in {"select", "claim"},
                        NEW r \in Rows, r \notin due'
                 PROVE  r \in late'[l]
      OBVIOUS
    <3>1. at'[l] = at[l]
      BY <2>3
    <3>2. r \notin due => r \in late[l]
      BY <3>1
    <3> QED BY <2>6, <2>7, <3>2
  <2>9. \A l \in Dispatchers : \A x \in todo[l] :
          x[1] \in Rows /\ (Claimable(l, x[1])' => Claimable(l, x[1]))
    BY <2>5, <2>6
  <2>10. \A l \in Dispatchers : \A x \in todo[l] :
           Claimable(l, x[1])' => x[2] = tries[x[1]]
    BY <2>9
  <2>11. \A l \in Dispatchers : \A x \in todo[l] : x[2] <= tries[x[1]] /\ status'[x[1]] # "none"
    BY <2>4
  <2>12. /\ \A l \in Dispatchers :
              /\ \A x, y \in todo[l] : x[1] = y[1] => x = y
              /\ \A x \in todo[l], b \in hand[l] : x[1] # b.row
              /\ \A a, b \in hand[l] : a.row = b.row => a = b
              /\ \A b \in hand[l] : b.n <= tries[b.row]
              /\ at[l] = "claim" => \A b \in hand[l] : b.step = "held"
         /\ \A l, m \in Dispatchers : \A a \in hand[l], b \in hand[m] :
              a.row = b.row /\ a.n = b.n => l = m
    OBVIOUS
  <2> HIDE DEF TypeOK, ClaimInv, Claimable
  <2>13. \A r \in Rows : status'[r] = "sending" => r \in due'
    BY <2>7
  <2>14. \A l \in Dispatchers : \A x \in todo'[l] :
           /\ x[2] <= tries'[x[1]] /\ status'[x[1]] # "none"
           /\ Claimable(l, x[1])' => x[2] = tries'[x[1]]
    BY <2>2, <2>10, <2>11
  <2> QED BY <2>2, <2>3, <2>7, <2>8, <2>10, <2>11, <2>12, <2>13, <2>14 DEF ClaimInv
<1>9. ASSUME NEW k \in Dispatchers, Die(k) PROVE ClaimInv'
  BY <1>9 DEF Die
<1>10. ASSUME NEW t \in Taps, TapClose(t) PROVE ClaimInv'
  BY <1>10 DEF TapClose, Closed
<1>11. CASE UNCHANGED <<status, tries, due, at, late, todo, hand>>
  BY <1>11
<1> HIDE DEF TypeOK, ClaimInv, Claimable
<1>12. ASSUME NEW k \in Dispatchers, Dispatch(k) PROVE ClaimInv'
  BY <1>3, <1>4, <1>5, <1>6, <1>7, <1>8, <1>12 DEF Dispatch, Claim, Outcome
<1>13. ASSUME NEW t \in Taps, TapSteps(t) \/ \E i \in intent : TapRead(t, i)
       PROVE  ClaimInv'
  BY <1>10, <1>11, <1>13
  DEF TapSteps, TapRead, TapInsert, TapCommand, TapComplete, TapDies, rows, disp
<1>14. CASE Sync \/ \E A \in SUBSET Articles : SyncRead(A)
  BY <1>2, <1>11, <1>14 DEF Sync, SyncRead, SyncSubs, SyncEvents, SyncDies, rows, disp
<1>15. CASE UNCHANGED vars
  BY <1>11, <1>15 DEF vars, rows, disp
<1> QED
  BY <1>1, <1>9, <1>11, <1>12, <1>13, <1>14, <1>15
  DEF Next, Lapse, Age, Detect, GrowOld, SetMode, Register, Revoke, rows, disp

LEMMA ClaimCorrect == Spec => []ClaimInv
BY TypeCorrect, ClaimInit, ClaimStep, PTL DEF Spec

\* No two dispatchers hold the same attempt of a delivery.
THEOREM ClaimOnceHolds == Spec => []ClaimOnce
<1>1. ClaimInv => ClaimOnce
  BY DEF ClaimInv, ClaimOnce
<1> QED
  BY <1>1, ClaimCorrect, PTL

\* The dispatchers are finitely many, and so are those that wait.
LEMMA WaitingSize ==
  ASSUME NEW r, NEW k
  PROVE  /\ Cardinality(Waiting(r)) \in Nat
         /\ k \in Waiting(r) =>
              /\ Cardinality(Waiting(r) \ {k}) = Cardinality(Waiting(r)) - 1
              /\ Cardinality(Waiting(r)) >= 1
         /\ Cardinality(Waiting(r) \cup {k}) <= Cardinality(Waiting(r)) + 1
<1>1. IsFiniteSet(Waiting(r))
  BY ConstantsAssumption, FS_Subset DEF Waiting
<1>2. Cardinality(Waiting(r)) \in Nat
  BY <1>1, FS_CardinalityType
<1>3. Cardinality(Waiting(r) \ {k}) \in Nat
  BY <1>1, FS_RemoveElement, FS_CardinalityType
<1> QED
  BY <1>1, <1>2, <1>3, FS_AddElement, FS_RemoveElement

\* A dispatcher that lets go of a claim waits for that row no longer.
LEMMA LetGo ==
  ASSUME ClaimInv, NEW k \in Dispatchers, NEW c \in hand[k], NEW r \in Rows,
         hand'[k] = hand[k] \ {c}, \A l \in Dispatchers \ {k} : hand'[l] = hand[l]
  PROVE  /\ r # c.row => Waiting(r)' = Waiting(r) /\ Holders(r)' = Holders(r)
         /\ r = c.row /\ c.step = "accepted" => Waiting(r)' = Waiting(r)
         /\ r = c.row /\ c.step # "accepted" =>
              k \in Waiting(r) /\ Waiting(r)' = Waiting(r) \ {k}
<1>1. \A b \in hand[k] : b.row = c.row => b = c
  BY DEF ClaimInv
<1>2. hand'[k] \subseteq hand[k] /\ \A b \in hand[k] : b # c => b \in hand'[k]
  OBVIOUS
<1> HIDE DEF ClaimInv
<1>3. \A b \in hand[k] : b.row # c.row => b \in hand'[k]
  BY <1>2
<1>4. \A b \in hand'[k] : b.row # c.row
  BY <1>1
<1> QED
  BY <1>1, <1>2, <1>3, <1>4 DEF Waiting, Holders

LEMMA DoubtInit == Init => DoubtInv
<1> SUFFICES ASSUME Init, NEW r \in Rows PROVE Paid(r)
  BY DEF DoubtInv
<1>1. Waiting(r) = {}
  BY DEF Init, Start, Waiting
<1>2. shown[r] = 0 /\ doubts[r] = 0 /\ status[r] = "none"
  BY DEF Init, Start
<1> QED
  BY <1>1, <1>2, FS_EmptySet DEF Paid

LEMMA DoubtStep == TypeOK /\ ClaimInv /\ DoubtInv /\ [Next]_vars => DoubtInv'
<1> SUFFICES ASSUME TypeOK, ClaimInv, DoubtInv, [Next]_vars, NEW r \in Rows
             PROVE  Paid(r)'
  BY DEF DoubtInv
<1> DEFINE W == Cardinality(Waiting(r))
<1>a. /\ shown[r] \in Nat /\ doubts[r] \in Nat /\ W \in Nat
      /\ status[r] \in {"none"} \cup Open \cup Ended
  BY WaitingSize DEF TypeOK
<1>b. /\ status[r] = "none" => shown[r] + W = 0
      /\ status[r] \in {"pending", "retry"} => shown[r] + W <= doubts[r]
      /\ status[r] = "sending" /\ Holders(r) = {} => shown[r] + W <= doubts[r]
      /\ shown[r] + W <= doubts[r] + 1
  BY DEF DoubtInv, Paid
<1>c. ASSUME hand' = hand
      PROVE  Waiting(r)' = Waiting(r) /\ Holders(r)' = Holders(r) /\ Cardinality(Waiting(r))' = W
  BY <1>c DEF Waiting, Holders
<1> HIDE DEF W
<1>1. CASE SyncDeliver
  <2>1. UNCHANGED <<hand, shown, doubts>>
    BY <1>1 DEF SyncDeliver
  <2>2. status'[r] = status[r] \/ (status[r] = "none" /\ status'[r] = "pending")
    BY <1>1 DEF SyncDeliver, TypeOK
  <2>3. shown'[r] + Cardinality(Waiting(r))' = shown[r] + W /\ doubts'[r] = doubts[r]
    BY <1>c, <2>1
  <2>4. CASE status'[r] = status[r]
    BY <1>a, <1>b, <1>c, <2>1, <2>3, <2>4 DEF Paid
  <2>5. CASE status[r] = "none" /\ status'[r] = "pending"
    BY <1>a, <1>b, <2>3, <2>5 DEF Paid
  <2> QED BY <2>2, <2>4, <2>5
<1>2. ASSUME NEW k \in Dispatchers, Sweep(k) PROVE Paid(r)'
  <2>1. UNCHANGED <<hand, shown>>
    BY <1>2 DEF Sweep
  <2>2. doubts'[r] = IF r \in Reaped \ leased /\ Holders(r) # {} THEN doubts[r] + 1
                                                              ELSE doubts[r]
    BY <1>2 DEF Sweep
  <2>3. r \in Reaped <=> status[r] = "sending" /\ r \notin leased
    BY DEF Reaped
  <2>4. \/ status'[r] = "expired"
        \/ r \in Reaped /\ status'[r] = "retry"
        \/ r \notin Reaped /\ status'[r] = status[r]
    BY <1>2 DEF Sweep
  <2> QED BY <1>a, <1>b, <1>c, <2>1, <2>2, <2>3, <2>4 DEF Paid
<1>3. ASSUME NEW k \in Dispatchers, NEW x \in todo[k], Take(k, x) PROVE Paid(r)'
  <2>1. UNCHANGED <<shown, doubts>> /\ x[1] \in Rows
    BY <1>3 DEF Take, TypeOK
  <2>2. CASE ~Claimable(k, x[1])
    BY <1>3, <1>a, <1>b, <1>c, <2>1, <2>2 DEF Take, Paid
  <2>3. CASE Claimable(k, x[1])
    <3> DEFINE new == [row |-> x[1], n |-> x[2] + 1, step |-> "held"]
    <3>1. /\ hand'[k] = hand[k] \cup {new}
          /\ \A l \in Dispatchers \ {k} : hand'[l] = hand[l]
          /\ status'[x[1]] = "sending"
          /\ r # x[1] => status'[r] = status[r]
      BY <1>3, <2>1, <2>3 DEF Take, TypeOK
    <3>2. CASE r # x[1]
      <4>1. Waiting(r)' = Waiting(r) /\ Holders(r)' = Holders(r)
        BY <3>1, <3>2 DEF Waiting, Holders
      <4> QED BY <1>a, <1>b, <2>1, <3>1, <3>2, <4>1 DEF Paid, W
    <3>3. CASE r = x[1]
      <4>1. Waiting(r)' = Waiting(r) \cup {k} /\ k \in Holders(r)'
        <5>1. new.row = r /\ new.step # "accepted" /\ new \in hand'[k]
          BY <3>1, <3>3
        <5>2. \A b \in hand'[k] : b \in hand[k] \/ b = new
          BY <3>1
        <5> HIDE DEF new
        <5> QED BY <3>1, <5>1, <5>2 DEF Waiting, Holders
      <4>2. Cardinality(Waiting(r))' <= W + 1 /\ Cardinality(Waiting(r))' \in Nat
        <5>1. Cardinality(Waiting(r) \cup {k}) <= W + 1
          BY WaitingSize DEF W
        <5>2. IsFiniteSet(Waiting(r) \cup {k})
          BY ConstantsAssumption, FS_Subset DEF Waiting
        <5> QED BY <4>1, <5>1, <5>2, FS_CardinalityType
      <4>3. shown[r] + W <= doubts[r]
        BY <1>b, <2>3, <3>3 DEF Claimable
      <4> QED BY <1>a, <2>1, <3>1, <3>3, <4>1, <4>2, <4>3 DEF Paid
    <3> QED BY <3>2, <3>3
  <2> QED BY <2>2, <2>3
<1>4. ASSUME NEW k \in Dispatchers, NEW c \in hand[k], Post(k, c) PROVE Paid(r)'
  <2>1. UNCHANGED <<shown, doubts, status>>
    BY <1>4 DEF Post
  <2>2. PICK d : /\ d.row = c.row /\ d.step # "accepted" /\ c.step # "accepted"
                 /\ hand'[k] = (hand[k] \ {c}) \cup {d}
                 /\ \A l \in Dispatchers \ {k} : hand'[l] = hand[l]
    <3> WITNESS [c EXCEPT !.step = "posted"]
    <3> QED BY <1>4 DEF Post, Claims, TypeOK
  <2>3. Waiting(r)' = Waiting(r) /\ Holders(r)' = Holders(r)
    BY <2>2 DEF Waiting, Holders
  <2> QED BY <1>a, <1>b, <2>1, <2>3 DEF Paid, W
<1>5. ASSUME NEW k \in Dispatchers, NEW c \in hand[k], Accept(k, c) PROVE Paid(r)'
  <2>1. UNCHANGED <<doubts, status>> /\ c.row \in Rows
    BY <1>5 DEF Accept, TypeOK, Claims
  <2>2. PICK d : /\ d.row = c.row /\ d.step = "accepted" /\ c.step = "posted"
                 /\ hand'[k] = (hand[k] \ {c}) \cup {d}
                 /\ \A l \in Dispatchers \ {k} : hand'[l] = hand[l]
    <3> WITNESS [c EXCEPT !.step = "accepted"]
    <3> QED BY <1>5 DEF Accept, Claims, TypeOK
  <2>3. Holders(r)' = Holders(r)
    BY <2>2 DEF Holders
  <2>4. CASE r # c.row
    <3>1. Waiting(r)' = Waiting(r)
      BY <2>2, <2>4 DEF Waiting
    <3>2. shown'[r] = shown[r]
      BY <1>5, <2>1, <2>4 DEF Accept, TypeOK
    <3> QED BY <1>a, <1>b, <2>1, <2>3, <3>1, <3>2 DEF Paid, W
  <2>5. CASE r = c.row
    <3>1. k \in Waiting(r) /\ Waiting(r)' = Waiting(r) \ {k}
      <4>1. \A b \in hand[k] : b.row = c.row => b = c
        BY DEF ClaimInv
      <4>2. \A b \in hand'[k] : b.row = c.row => b.step = "accepted"
        BY <2>2, <4>1
      <4> QED BY <2>2, <2>5, <4>2 DEF Waiting
    <3>2. Cardinality(Waiting(r))' = W - 1
      BY <3>1, WaitingSize DEF W
    <3>3. shown'[r] = shown[r] + 1
      BY <1>5, <2>1, <2>5 DEF Accept, TypeOK
    <3> QED BY <1>a, <1>b, <2>1, <2>3, <3>2, <3>3 DEF Paid
  <2> QED BY <2>4, <2>5
<1>6. ASSUME NEW k \in Dispatchers, NEW c \in hand[k],
             Delivered(k, c) \/ Refuse(k, c) \/ Gone(k, c) \/ Transient(k, c) \/ Doubt(k, c)
      PROVE  Paid(r)'
  <2>1. /\ hand'[k] = hand[k] \ {c} /\ \A l \in Dispatchers \ {k} : hand'[l] = hand[l]
        /\ shown' = shown /\ c.row \in Rows
    BY <1>6 DEF Delivered, Refuse, Gone, Transient, Doubt, Drop, TypeOK, Claims
  <2>2. /\ r # c.row => Waiting(r)' = Waiting(r) /\ Holders(r)' = Holders(r)
        /\ r = c.row /\ c.step = "accepted" => Waiting(r)' = Waiting(r)
        /\ r = c.row /\ c.step # "accepted" =>
             k \in Waiting(r) /\ Waiting(r)' = Waiting(r) \ {k}
    BY <2>1, LetGo
  <2>3. /\ r # c.row => Cardinality(Waiting(r))' = W
        /\ r = c.row /\ c.step = "accepted" => Cardinality(Waiting(r))' = W
        /\ r = c.row /\ c.step # "accepted" => Cardinality(Waiting(r))' = W - 1
    BY <2>2, WaitingSize DEF W
  <2>4. CASE r # c.row
    <3>1. doubts'[r] = doubts[r]
      BY <1>6, <2>4 DEF Delivered, Refuse, Gone, Transient, Doubt, TypeOK
    <3>2. status'[r] = status[r] \/ (status'[r] = "failed" /\ status[r] # "none")
      <4>1. CASE Gone(k, c)
        BY <4>1 DEF Gone, Disable, Open
      <4>2. CASE ~Gone(k, c)
        BY <1>6, <2>4, <4>2 DEF Delivered, Refuse, Transient, Doubt, MarkRetry, Marked, TypeOK
      <4> QED BY <4>1, <4>2
    <3> QED BY <1>a, <1>b, <2>1, <2>2, <2>3, <2>4, <3>1, <3>2 DEF Paid
  <2>5. CASE r = c.row
    <3>1. status[r] # "sending" =>
            status'[r] = status[r] \/ (status'[r] = "failed" /\ status[r] # "none")
      <4>1. CASE Gone(k, c)
        BY <4>1 DEF Gone, Disable, Open
      <4>2. CASE ~Gone(k, c)
        BY <1>6, <2>1, <2>5, <4>2
        DEF Delivered, Refuse, Transient, Doubt, MarkRetry, Marked, TypeOK
      <4> QED BY <4>1, <4>2
    <3>2. status[r] = "sending" => status'[r] \in {"retry", "delivered", "failed"}
      BY <1>6, <2>1, <2>5 DEF Delivered, Refuse, Gone, Transient, Doubt, Disable, MarkRetry,
                              Marked, TypeOK, Open
    <3>3. CASE Delivered(k, c)
      <4>1. doubts' = doubts /\ c.step = "accepted"
        BY <3>3 DEF Delivered
      <4>2. status[r] = "sending" => status'[r] = "delivered"
        BY <2>1, <2>5, <3>3 DEF Delivered, Marked, TypeOK
      <4> QED BY <1>a, <1>b, <2>1, <2>3, <2>5, <3>1, <3>2, <4>1, <4>2 DEF Paid
    <3>4. CASE Refuse(k, c) \/ Gone(k, c) \/ Transient(k, c)
      <4>1. doubts' = doubts /\ c.step # "accepted"
        BY <3>4 DEF Refuse, Gone, Transient
      <4>2. W >= 1 /\ Cardinality(Waiting(r))' = W - 1
        BY <2>2, <2>3, <2>5, <4>1, WaitingSize DEF W
      <4>3. status[r] # "none"
        BY <1>a, <1>b, <4>2
      <4>4. CASE status[r] = "sending"
        BY <1>a, <1>b, <2>1, <3>2, <4>1, <4>2, <4>4 DEF Paid
      <4>5. CASE status[r] # "sending"
        BY <1>a, <1>b, <2>1, <3>1, <4>1, <4>2, <4>3, <4>5 DEF Paid
      <4> QED BY <4>4, <4>5
    <3>5. CASE Doubt(k, c)
      <4>1. doubts'[r] = doubts[r] + 1 /\ c.step = "accepted"
        BY <2>5, <3>5 DEF Doubt, TypeOK
      <4> QED BY <1>a, <1>b, <2>1, <2>3, <2>5, <3>1, <3>2, <4>1 DEF Paid
    <3> QED BY <1>6, <3>3, <3>4, <3>5
  <2> QED BY <2>4, <2>5
<1>7. ASSUME NEW k \in Dispatchers, Die(k) PROVE Paid(r)'
  <2>1. /\ hand'[k] = {} /\ \A l \in Dispatchers \ {k} : hand'[l] = hand[l]
        /\ UNCHANGED <<shown, status>>
    BY <1>7 DEF Die, TypeOK
  <2>2. doubts'[r] = IF \E c \in hand[k] : c.row = r /\ c.step = "accepted"
                     THEN doubts[r] + 1 ELSE doubts[r]
    BY <1>7 DEF Die
  <2>3. CASE k \notin Holders(r)
    <3>1. Waiting(r)' = Waiting(r) /\ Holders(r)' = Holders(r) /\ doubts'[r] = doubts[r]
      BY <2>1, <2>2, <2>3 DEF Waiting, Holders
    <3> QED BY <1>a, <1>b, <2>1, <3>1 DEF Paid, W
  <2>4. CASE k \in Holders(r)
    <3>1. PICK c \in hand[k] : c.row = r
      BY <2>4 DEF Holders
    <3>2. \A b \in hand[k] : b.row = r => b = c
      BY <3>1 DEF ClaimInv
    <3>3. CASE c.step = "accepted"
      <4>1. Waiting(r)' = Waiting(r)
        BY <2>1, <3>2, <3>3 DEF Waiting
      <4>2. doubts'[r] = doubts[r] + 1
        BY <2>2, <3>1, <3>3
      <4> QED BY <1>a, <1>b, <2>1, <4>1, <4>2 DEF Paid, W
    <3>4. CASE c.step # "accepted"
      <4>1. k \in Waiting(r) /\ Waiting(r)' = Waiting(r) \ {k}
        BY <2>1, <3>1, <3>4 DEF Waiting
      <4>2. Cardinality(Waiting(r))' = W - 1
        BY <4>1, WaitingSize DEF W
      <4>3. doubts'[r] = doubts[r]
        BY <2>2, <3>2, <3>4
      <4>4. status[r] # "none"
        <5>1. W >= 1
          BY <4>1, WaitingSize DEF W
        <5> QED BY <1>a, <1>b, <5>1
      <4> QED BY <1>a, <1>b, <2>1, <4>2, <4>3, <4>4 DEF Paid
    <3> QED BY <3>3, <3>4
  <2> QED BY <2>3, <2>4
<1>8. ASSUME NEW t \in Taps, TapClose(t) PROVE Paid(r)'
  <2>1. UNCHANGED <<hand, shown, doubts>>
    BY <1>8 DEF TapClose
  <2>2. status'[r] = status[r] \/ status'[r] = "failed"
    BY <1>8 DEF TapClose
  <2> QED BY <1>a, <1>b, <1>c, <2>1, <2>2 DEF Paid
<1>9. CASE UNCHANGED <<status, hand, shown, doubts>>
  BY <1>9, <1>a, <1>b, <1>c DEF Paid
<1>10. ASSUME NEW k \in Dispatchers, Dispatch(k) PROVE Paid(r)'
  BY <1>2, <1>3, <1>4, <1>5, <1>6, <1>9, <1>10 DEF Dispatch, Claim, Select, Claimed, Outcome
<1>11. ASSUME NEW t \in Taps, TapSteps(t) \/ \E i \in intent : TapRead(t, i)
       PROVE  Paid(r)'
  BY <1>8, <1>9, <1>11
  DEF TapSteps, TapRead, TapInsert, TapCommand, TapComplete, TapDies, rows, disp, history
<1>12. CASE Sync \/ \E A \in SUBSET Articles : SyncRead(A)
  BY <1>1, <1>9, <1>12
  DEF Sync, SyncRead, SyncSubs, SyncEvents, SyncDies, rows, disp, history
<1>13. CASE UNCHANGED vars
  BY <1>9, <1>13 DEF vars, rows, disp, history
<1> QED
  BY <1>1, <1>7, <1>9, <1>10, <1>11, <1>12, <1>13
  DEF Next, Elapse, Lapse, Age, Detect, GrowOld, SetMode, Register, Revoke, rows, disp, history

\* Each showing of an event beyond the first has a doubt of its own.
THEOREM OnlyDoubtsRepeatHolds == Spec => []OnlyDoubtsRepeat
<1>1. TypeOK /\ DoubtInv => OnlyDoubtsRepeat
  <2> SUFFICES ASSUME TypeOK, DoubtInv, NEW r \in Rows PROVE shown[r] <= 1 + doubts[r]
    BY DEF OnlyDoubtsRepeat
  <2>1. Paid(r) /\ shown[r] \in Nat /\ doubts[r] \in Nat
    BY DEF DoubtInv, TypeOK
  <2>2. Cardinality(Waiting(r)) \in Nat
    BY WaitingSize
  <2>3. shown[r] + Cardinality(Waiting(r)) <= doubts[r] + 1
    BY <2>1 DEF Paid
  <2> QED BY <2>1, <2>2, <2>3
<1> QED
  BY <1>1, TypeCorrect, ClaimCorrect, DoubtInit, DoubtStep, PTL DEF Spec

-----------------------------------------------------------------------------
(* The ledger.                                                             *)

\* What was shown was; what a step adds to the history of one delivery.
LEMMA HistoryStep ==
  ASSUME TypeOK, [Next]_vars, NEW r \in Rows
  PROVE  /\ shown'[r] = shown[r] \/ (shown'[r] = shown[r] + 1 /\ doubts'[r] = doubts[r])
         /\ doubts'[r] \in {doubts[r], doubts[r] + 1}
<1> USE DEF TypeOK
<1>1. ASSUME NEW k \in Dispatchers, Sweep(k) \/ Die(k)
      PROVE  shown' = shown /\ doubts'[r] \in {doubts[r], doubts[r] + 1}
  BY <1>1 DEF Sweep, Die
<1>2. ASSUME NEW k \in Dispatchers, NEW c \in hand[k], Accept(k, c)
      PROVE  shown'[r] \in {shown[r], shown[r] + 1} /\ doubts' = doubts
  BY <1>2 DEF Accept
<1>3. ASSUME NEW k \in Dispatchers, NEW c \in hand[k], Doubt(k, c)
      PROVE  shown' = shown /\ doubts'[r] \in {doubts[r], doubts[r] + 1}
  BY <1>3 DEF Doubt
<1>4. CASE UNCHANGED <<shown, doubts>>
  BY <1>4
<1>5. ASSUME NEW k \in Dispatchers, Claim(k) \/ Die(k)
      PROVE  shown' = shown /\ doubts'[r] \in {doubts[r], doubts[r] + 1}
  BY <1>1, <1>5 DEF Claim, Select, Claimed, Take, history
<1>6. ASSUME NEW k \in Dispatchers, NEW c \in hand[k], Post(k, c) \/ Outcome(k, c)
      PROVE  \/ shown'[r] \in {shown[r], shown[r] + 1} /\ doubts' = doubts
             \/ shown' = shown /\ doubts'[r] \in {doubts[r], doubts[r] + 1}
  <2>1. CASE Post(k, c) \/ Delivered(k, c) \/ Transient(k, c) \/ Refuse(k, c) \/ Gone(k, c)
    BY <2>1 DEF Post, Delivered, Transient, Refuse, Gone, history
  <2> QED BY <1>2, <1>3, <1>6, <2>1 DEF Outcome
<1>7. ASSUME NEW t \in Taps, TapSteps(t) \/ \E i \in intent : TapRead(t, i)
      PROVE  UNCHANGED <<shown, doubts>>
  BY <1>7 DEF TapSteps, TapRead, TapInsert, TapCommand, TapClose, TapComplete, TapDies, history
<1>8. ASSUME Sync \/ \E A \in SUBSET Articles : SyncRead(A)
      PROVE  UNCHANGED <<shown, doubts>>
  BY <1>8 DEF Sync, SyncRead, SyncSubs, SyncEvents, SyncDeliver, SyncDies, history
<1> QED
  BY <1>4, <1>5, <1>6, <1>7, <1>8
  DEF Next, Elapse, Lapse, Age, Detect, GrowOld, SetMode, Register, Revoke, Dispatch, vars,
      history

\* Nothing is shown less often.
LEMMA ShownGrows ==
  ASSUME TypeOK, [Next]_vars, NEW r \in Rows, shown[r] > 0
  PROVE  shown'[r] > 0
BY HistoryStep DEF TypeOK

\* A claim that is in hand as accepted was so before, or is accepted now.
LEMMA AcceptedStep == TypeOK /\ AcceptedShown /\ [Next]_vars => AcceptedShown'
<1> SUFFICES ASSUME TypeOK, AcceptedShown, [Next]_vars,
                    NEW l \in Dispatchers, NEW b \in hand'[l], b.step = "accepted"
             PROVE  shown'[b.row] > 0
  BY DEF AcceptedShown
<1> USE DEF TypeOK
<1>1. ASSUME b \in hand[l] PROVE shown'[b.row] > 0
  <2>1. b.row \in Rows /\ shown[b.row] > 0
    BY <1>1 DEF AcceptedShown, Claims
  <2> QED BY <2>1, ShownGrows
<1>2. ASSUME NEW k \in Dispatchers, NEW x \in todo[k], Take(k, x)
      PROVE  b \in hand[l]
  BY <1>2 DEF Take
<1>3. ASSUME NEW k \in Dispatchers, NEW c \in hand[k], Accept(k, c)
      PROVE  shown'[b.row] > 0
  <2>1. c \in Claims /\ c.row \in Rows
    BY DEF Claims
  <2>2. b \in hand[l] \/ b = [c EXCEPT !.step = "accepted"]
    BY <1>3 DEF Accept
  <2>3. CASE b = [c EXCEPT !.step = "accepted"]
    <3>1. b.row = c.row
      BY <2>1, <2>3 DEF Claims
    <3> QED BY <1>3, <2>1, <3>1 DEF Accept
  <2> QED BY <1>1, <2>2, <2>3
<1>4. ASSUME NEW k \in Dispatchers, NEW c \in hand[k], Post(k, c)
      PROVE  b \in hand[l]
  <2>1. b \in hand[l] \/ b = [c EXCEPT !.step = "posted"]
    BY <1>4 DEF Post
  <2>2. c \in Claims
    OBVIOUS
  <2>3. [c EXCEPT !.step = "posted"].step = "posted"
    BY <2>2 DEF Claims
  <2> QED BY <2>1, <2>3
<1>5. ASSUME NEW k \in Dispatchers, NEW c \in hand[k],
             Delivered(k, c) \/ Transient(k, c) \/ Doubt(k, c) \/ Refuse(k, c) \/ Gone(k, c)
      PROVE  b \in hand[l]
  BY <1>5 DEF Delivered, Transient, Doubt, Refuse, Gone, Drop
<1>6. ASSUME NEW k \in Dispatchers, Die(k) PROVE b \in hand[l]
  BY <1>6 DEF Die
<1>7. CASE hand' = hand
  BY <1>1, <1>7
<1> HIDE DEF TypeOK
<1>8. ASSUME NEW k \in Dispatchers, Dispatch(k) PROVE shown'[b.row] > 0
  BY <1>1, <1>2, <1>3, <1>4, <1>5, <1>7, <1>8
  DEF Dispatch, Claim, Sweep, Select, Claimed, Outcome
<1>9. ASSUME NEW t \in Taps, TapSteps(t) \/ \E i \in intent : TapRead(t, i)
      PROVE  shown'[b.row] > 0
  BY <1>7, <1>9
  DEF TapSteps, TapRead, TapInsert, TapCommand, TapClose, TapComplete, TapDies, disp
<1>10. CASE Sync \/ \E A \in SUBSET Articles : SyncRead(A)
  BY <1>7, <1>10 DEF Sync, SyncRead, SyncSubs, SyncEvents, SyncDeliver, SyncDies, disp
<1>11. CASE UNCHANGED vars
  BY <1>7, <1>11 DEF vars, disp
<1> QED
  BY <1>1, <1>6, <1>7, <1>8, <1>9, <1>10, <1>11
  DEF Next, Elapse, Lapse, Age, Detect, GrowOld, SetMode, Register, Revoke, disp

\* Only an acknowledged claim makes a delivery delivered, and no delivery goes
\* back to before its event was released.
LEMMA DeliveredStep ==
  ASSUME TypeOK, AcceptedShown, [Next]_vars, NEW r \in Rows, status'[r] # status[r]
  PROVE  status'[r] # "none" /\ (status'[r] = "delivered" => shown[r] > 0)
<1> USE DEF Ended, Open
<1> DEFINE Marks == {"pending", "retry", "sending", "failed", "expired"}
<1>1. CASE SyncDeliver
  BY <1>1 DEF SyncDeliver
<1>2. ASSUME NEW k \in Dispatchers, Sweep(k) PROVE status'[r] \in Marks
  BY <1>2 DEF Sweep
<1>3. ASSUME NEW k \in Dispatchers, NEW x \in todo[k], Take(k, x)
      PROVE  status'[r] \in Marks
  BY <1>3 DEF Take, TypeOK
<1>4. ASSUME NEW k \in Dispatchers, NEW c \in hand[k], Delivered(k, c)
      PROVE  status'[r] = "delivered" /\ shown[r] > 0
  <2>1. c.row = r /\ status'[r] = "delivered"
    BY <1>4 DEF Delivered, Marked, TypeOK
  <2>2. shown[c.row] > 0
    BY <1>4 DEF Delivered, AcceptedShown
  <2> QED BY <2>1, <2>2
<1>5. ASSUME NEW k \in Dispatchers, NEW c \in hand[k],
             Transient(k, c) \/ Doubt(k, c) \/ Refuse(k, c) \/ Gone(k, c)
      PROVE  status'[r] \in Marks
  BY <1>5 DEF Transient, Doubt, Refuse, Gone, MarkRetry, Marked, Disable, TypeOK
<1>6. ASSUME NEW t \in Taps, TapClose(t) PROVE status'[r] \in Marks
  BY <1>6 DEF TapClose
<1>7. ASSUME NEW k \in Dispatchers, Dispatch(k) \/ Die(k)
      PROVE  status'[r] \in Marks \/ (status'[r] = "delivered" /\ shown[r] > 0)
  BY <1>2, <1>3, <1>4, <1>5, <1>7
  DEF Dispatch, Claim, Select, Claimed, Outcome, Accept, Post, Die, rows
<1>8. ASSUME NEW t \in Taps, TapSteps(t) \/ \E i \in intent : TapRead(t, i)
      PROVE  status'[r] \in Marks
  BY <1>6, <1>8 DEF TapSteps, TapRead, TapInsert, TapCommand, TapComplete, TapDies, rows
<1>9. ASSUME Sync \/ \E A \in SUBSET Articles : SyncRead(A)
      PROVE  status'[r] # "none" /\ (status'[r] = "delivered" => shown[r] > 0)
  BY <1>1, <1>9 DEF Sync, SyncRead, SyncSubs, SyncEvents, SyncDies, rows
<1>10. CASE UNCHANGED status
  BY <1>10
<1> QED
  BY <1>7, <1>8, <1>9, <1>10
  DEF Next, Elapse, Lapse, Age, Detect, GrowOld, SetMode, Register, Revoke, vars, rows

\* Every showing so far was the first or owed to a doubt, so the next is too.
LEMMA LedgerStep ==
  ASSUME TypeOK, TypeOK', AcceptedShown, OnlyDoubtsRepeat', [Next]_vars
  PROVE  [Ledger!Next]_(Ledger!vars)
<1>1. ASSUME NEW r \in Rows PROVE Recorded(r) \in Ledger!Outcomes
  BY DEF Recorded, Ledger!Outcomes, Ledger!Unsettled
<1>2. ASSUME NEW r \in Rows PROVE Recorded(r)' \in Ledger!Outcomes
  BY DEF Recorded, Ledger!Outcomes, Ledger!Unsettled
<1>3. ASSUME NEW r \in Rows, Recorded(r)' # Recorded(r)
      PROVE  /\ Recorded(r) \in Ledger!Unsettled
             /\ Recorded(r)' # "absent"
             /\ Recorded(r)' = "delivered" => shown[r] > 0
  <2>1. status'[r] # status[r]
    BY <1>3 DEF Recorded
  <2>2. status[r] \notin Ended
    BY <2>1, SettledStep
  <2>3. status'[r] # "none" /\ (status'[r] = "delivered" => shown[r] > 0)
    BY <2>1, DeliveredStep
  <2>4. status[r] \in {"none"} \cup Open /\ status'[r] \in {"none"} \cup Open \cup Ended
    BY <2>2 DEF TypeOK
  <2>5. Recorded(r) \in Ledger!Unsettled
    BY <2>4 DEF Recorded, Ledger!Unsettled, Open
  <2>6. Recorded(r)' # "absent" /\ (Recorded(r)' = "delivered" => status'[r] = "delivered")
    BY <2>3, <2>4 DEF Recorded, Open, Ended
  <2> QED BY <2>3, <2>5, <2>6
<1>4. ASSUME NEW r \in Rows PROVE shown'[r] = shown[r] \/ Ledger!Shown(r)
  <2>1. shown'[r] <= 1 + doubts'[r] /\ shown[r] \in Nat /\ doubts[r] \in Nat
    BY DEF OnlyDoubtsRepeat, TypeOK
  <2> QED BY <2>1, HistoryStep DEF Ledger!Shown
<1>5. ASSUME NEW r \in Rows PROVE Ledger!Step(r)
  BY <1>2, <1>3, <1>4, HistoryStep DEF Ledger!Step, Ledger!Recorded
<1>6. /\ [r \in Rows |-> Recorded(r)]' \in [Rows -> Ledger!Outcomes]
      /\ shown' \in [Rows -> Nat] /\ doubts' \in [Rows -> Nat]
  BY <1>2 DEF TypeOK
<1> QED BY <1>5, <1>6 DEF Ledger!Next

\* Any number of dispatchers, leases, retries, expiries and dismissals implement
\* the ledger.
THEOREM LedgerKept == Spec => KeepsLedger
<1>1. Init => Ledger!Init
  <2> SUFFICES ASSUME Init PROVE Ledger!Init
    OBVIOUS
  <2>1. ASSUME NEW r \in Rows PROVE Recorded(r) = "absent"
    <3>1. status[r] = "none"
      BY DEF Init, Start
    <3> QED BY <3>1 DEF Recorded, Open
  <2>2. [r \in Rows |-> Recorded(r)] = [r \in Rows |-> "absent"]
    BY <2>1
  <2>3. shown = [r \in Rows |-> 0] /\ doubts = [r \in Rows |-> 0]
    BY DEF Init, Start
  <2> QED BY <2>2, <2>3 DEF Ledger!Init
<1>2. Init => AcceptedShown
  BY DEF Init, Start, AcceptedShown
<1>3. TypeOK /\ TypeOK' /\ AcceptedShown /\ OnlyDoubtsRepeat' /\ [Next]_vars
        => [Ledger!Next]_(Ledger!vars)
  BY LedgerStep
<1> QED
  BY <1>1, <1>2, <1>3, TypeCorrect, AcceptedStep, OnlyDoubtsRepeatHolds, PTL
  DEF Spec, KeepsLedger, Ledger!Spec
=============================================================================
