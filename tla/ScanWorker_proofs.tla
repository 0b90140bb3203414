-------------------------- MODULE ScanWorker_proofs --------------------------
(***************************************************************************)
(* Theorems about ScanWorker for every number of workers, dashboards,      *)
(* requests and deaths, with the launch agent loaded or not.               *)
(***************************************************************************)
EXTENDS ScanWorker, TLAPS

\* The initial state satisfies every invariant.
LEMMA InitHolds == Init => TypeOK /\ LockInv /\ NoneLeftBehind /\ FollowedUp
<1> SUFFICES ASSUME Init PROVE TypeOK /\ LockInv /\ NoneLeftBehind /\ FollowedUp
  OBVIOUS
<1>1. TypeOK
  <2>1. row \in [Rows -> {"none", "queued", "running", "completed", "failed"}]
    BY DEF Init
  <2>2. /\ pc \in [Workers -> {"idle", "call", "merge"} \cup Held]
        /\ merged \in [Workers -> {ScanRow, CatchUpRow}]
        /\ mine \in [Workers -> SUBSET Rows]
        /\ desk \in [Desks -> BOOLEAN]
    BY DEF Init
  <2>3. owed \in BOOLEAN /\ dropped \in BOOLEAN
    BY DEF Init
  <2>4. lock \in Workers \cup {None} /\ calls \in 0..MaxCalls /\ crashes \in 0..MaxCrashes
    BY ScanAssumption DEF Init
  <2> QED BY <2>1, <2>2, <2>3, <2>4 DEF TypeOK
<1>2. LockInv
  BY ScanAssumption DEF Init, LockInv, Held
<1>3. NoneLeftBehind
  BY DEF Init, NoneLeftBehind
<1>4. FollowedUp
  BY DEF Init, FollowedUp
<1> QED BY <1>1, <1>2, <1>3, <1>4

\* Every action keeps the types.
LEMMA TypeStep == TypeOK /\ [Next]_vars => TypeOK'
<1> SUFFICES ASSUME TypeOK, [Next]_vars PROVE TypeOK'
  OBVIOUS
<1> USE ScanAssumption DEF TypeOK, Held, Goto
<1>1. CASE Tick
  BY <1>1 DEF Tick, Trigger, Workers
<1>2. ASSUME NEW w \in Workers, NEW r \in {ScanRow, CatchUpRow}, Call(w, r) PROVE TypeOK'
  BY <1>2 DEF Call, Trigger
<1>3. ASSUME NEW w \in Workers, Acquire(w) \/ Miss(w) \/ Scanned(w) \/ Release(w) \/ Crash(w)
      PROVE  TypeOK'
  BY <1>3 DEF Acquire, Miss, Scanned, Release, Crash
<1>4. ASSUME NEW w \in Workers, Merge(w) PROVE TypeOK'
  BY <1>4 DEF Merge
<1>5. ASSUME NEW w \in Workers, Claim(w) PROVE TypeOK'
  <2>1. Queued \in SUBSET Rows
    BY DEF Queued
  <2> QED BY <1>5, <2>1 DEF Claim
<1>6. ASSUME NEW w \in Workers, Finish(w) PROVE TypeOK'
  BY <1>6 DEF Finish
<1>7. ASSUME NEW d \in Desks, Ask(d) \/ AskAgain(d) PROVE TypeOK'
  <2>1. (\A r \in Pending : row[r] = "running") \in BOOLEAN
    OBVIOUS
  <2> QED BY <1>7, <2>1 DEF Ask, AskAgain, Trigger, state
<1>8. ASSUME NEW d \in Desks, NEW r \in RunRows, NEW w \in Threads, Insert(d, r, w)
      PROVE  TypeOK'
  BY <1>8 DEF Insert, Rows, ScoutRows, Workers
<1>9. ASSUME NEW r \in CatchRows, AskCatchUp(r) PROVE TypeOK'
  BY <1>9 DEF AskCatchUp, Rows
<1>10. CASE UNCHANGED vars
  BY <1>10 DEF vars, state
<1> QED
  BY <1>1, <1>2, <1>3, <1>4, <1>5, <1>6, <1>7, <1>8, <1>9, <1>10 DEF Next, Run

\* Nobody but the worker that has the lock has claimed anything.
LEMMA OneClaims ==
  ASSUME LockInv, NEW w \in Workers, pc[w] \in Held, NEW v \in Workers, v # w
  PROVE  mine[v] = {} /\ pc[v] \notin Held
BY DEF LockInv, Held

\* Every action keeps the lock exclusive and what is claimed running.
LEMMA LockStep == TypeOK /\ LockInv /\ [Next]_vars => LockInv'
<1> SUFFICES ASSUME TypeOK, LockInv, [Next]_vars PROVE LockInv'
  OBVIOUS
<1> USE ScanAssumption DEF TypeOK, LockInv, Held, Goto
<1>1. CASE Tick
  BY <1>1 DEF Tick, Workers
<1>2. ASSUME NEW w \in Workers, NEW r \in {ScanRow, CatchUpRow}, Call(w, r) PROVE LockInv'
  BY <1>2 DEF Call
<1>3. ASSUME NEW w \in Workers, Acquire(w) \/ Miss(w) \/ Scanned(w) PROVE LockInv'
  BY <1>3 DEF Acquire, Miss, Scanned
<1>4. ASSUME NEW w \in Workers, Merge(w) PROVE LockInv'
  BY <1>4 DEF Merge
<1>5. ASSUME NEW w \in Workers, Claim(w) PROVE LockInv'
  <2>1. \A v \in Workers : v # w => mine[v] = {}
    BY <1>5, OneClaims DEF Claim
  <2>2. \A r \in Rows : r \in Queued => row'[r] = "running"
    BY <1>5 DEF Claim
  <2>3. mine'[w] = Queued /\ \A v \in Workers : v # w => mine'[v] = {}
    BY <1>5, <2>1 DEF Claim
  <2> QED BY <1>5, <2>2, <2>3 DEF Claim, Queued
<1>6. ASSUME NEW w \in Workers, Finish(w) PROVE LockInv'
  <2>1. \A v \in Workers : v # w => mine[v] = {}
    BY <1>6, OneClaims DEF Finish
  <2>2. \A v \in Workers : mine'[v] = {}
    BY <1>6, <2>1 DEF Finish
  <2> QED BY <1>6, <2>2 DEF Finish
<1>7. ASSUME NEW w \in Workers, Release(w) PROVE LockInv'
  BY <1>7 DEF Release
<1>8. ASSUME NEW w \in Workers, Crash(w) PROVE LockInv'
  BY <1>8 DEF Crash
<1>9. ASSUME NEW d \in Desks, Ask(d) \/ AskAgain(d) PROVE LockInv'
  BY <1>9 DEF Ask, AskAgain, state
<1>10. ASSUME NEW d \in Desks, NEW r \in RunRows, NEW w \in Threads, Insert(d, r, w)
       PROVE  LockInv'
  BY <1>10 DEF Insert, Rows, ScoutRows, Workers
<1>11. ASSUME NEW r \in CatchRows, AskCatchUp(r) PROVE LockInv'
  BY <1>11 DEF AskCatchUp, Rows
<1>12. CASE UNCHANGED vars
  BY <1>12 DEF vars, state
<1> QED
  BY <1>1, <1>2, <1>3, <1>4, <1>5, <1>6, <1>7, <1>8, <1>9, <1>10, <1>11, <1>12 DEF Next, Run

\* Only a death leaves a row running.
LEMMA LeftStep == TypeOK /\ LockInv /\ NoneLeftBehind /\ [Next]_vars => NoneLeftBehind'
<1> SUFFICES ASSUME TypeOK, LockInv, NoneLeftBehind, [Next]_vars, crashes' = 0,
                    NEW r \in Rows, row'[r] = "running"
             PROVE  \E v \in Workers : r \in mine'[v]
  BY DEF NoneLeftBehind, Claimed
<1>0. crashes = 0 /\ ~\E w \in Workers : Crash(w)
  <2>1. ASSUME NEW w \in Workers, Crash(w) PROVE FALSE
    BY <2>1 DEF TypeOK, Crash
  <2>2. ASSUME NEW d \in Desks, Ask(d) PROVE crashes' = crashes
    BY <2>2 DEF Ask
  <2>3. crashes' = crashes
    BY <2>1, <2>2 DEF Next, Run, Tick, Call, Acquire, Miss, Merge, Claim, Scanned,
       Finish, Release, AskAgain, Insert, AskCatchUp, vars, state
  <2> QED BY <2>1, <2>3
<1>1. row[r] = "running" => \E v \in Workers : r \in mine[v]
  BY <1>0 DEF NoneLeftBehind, Claimed
<1>2. ASSUME NEW w \in Workers, Claim(w) PROVE \E v \in Workers : r \in mine'[v]
  <2>1. CASE r \in Queued
    BY <1>2, <2>1 DEF Claim, TypeOK
  <2>2. CASE r \notin Queued
    <3>1. PICK v \in Workers : r \in mine[v]
      BY <1>1, <1>2, <2>2 DEF Claim
    <3>2. v # w
      BY <3>1, <1>2 DEF Claim, LockInv
    <3> QED BY <1>2, <3>1, <3>2 DEF Claim, TypeOK
  <2> QED BY <2>1, <2>2
<1>3. ASSUME NEW w \in Workers, Finish(w) PROVE \E v \in Workers : r \in mine'[v]
  <2>1. r \notin mine[w] /\ row[r] = "running"
    BY <1>3 DEF Finish
  <2>2. PICK v \in Workers : r \in mine[v]
    BY <1>1, <2>1
  <2> QED BY <1>3, <2>1, <2>2 DEF Finish, TypeOK
<1>4. ASSUME NEW w \in Workers, Merge(w) PROVE \E v \in Workers : r \in mine'[v]
  BY <1>4, <1>1 DEF Merge, TypeOK
<1>5. ASSUME NEW q \in Rows, row' = [row EXCEPT ![q] = "queued"], UNCHANGED mine
      PROVE  \E v \in Workers : r \in mine'[v]
  BY <1>5, <1>1 DEF TypeOK
<1>6. CASE UNCHANGED <<row, mine>>
  BY <1>6, <1>1
<1> QED
  BY <1>0, <1>2, <1>3, <1>4, <1>5, <1>6
  DEF Next, Run, Tick, Call, Acquire, Miss, Scanned, Release, Ask, AskAgain, Insert,
      AskCatchUp, Rows, ScoutRows, vars, state

\* What is queued stays queued until a worker claims it.
LEMMA QueueKept ==
  ASSUME TypeOK, LockInv, [Next]_vars, \A w \in Workers : ~Claim(w), NEW r \in Queued
  PROVE  r \in Queued'
<1> USE DEF TypeOK, Queued
<1>1. r \in Rows /\ row[r] = "queued"
  OBVIOUS
<1>2. ASSUME NEW w \in Workers, Finish(w) PROVE row'[r] = "queued"
  BY <1>1, <1>2 DEF Finish, LockInv
<1>3. ASSUME NEW w \in Workers, Merge(w) PROVE row'[r] = "queued"
  BY <1>1, <1>3 DEF Merge
<1>4. ASSUME NEW q \in Rows, row' = [row EXCEPT ![q] = "queued"] PROVE row'[r] = "queued"
  BY <1>1, <1>4
<1>5. CASE UNCHANGED row
  BY <1>1, <1>5
<1> QED
  BY <1>1, <1>2, <1>3, <1>4, <1>5
  DEF Next, Run, Tick, Call, Acquire, Miss, Scanned, Release, Crash, Ask, AskAgain, Insert,
      AskCatchUp, Rows, ScoutRows, vars, state

\* Every action keeps a way to the next scan for a trigger that is not dropped.
LEMMA FollowStep == TypeOK /\ LockInv /\ FollowedUp /\ [Next]_vars => FollowedUp'
<1> SUFFICES ASSUME TypeOK, LockInv, FollowedUp, [Next]_vars, owed', ~dropped'
             PROVE  Coming'
  BY DEF FollowedUp
<1> USE DEF Goto
<1>1. CASE Tick
  <2>1. pc'[Launchd] = "call" /\ Launchd \in Workers
    BY <1>1 DEF Tick, TypeOK, Workers
  <2> QED BY <2>1 DEF Coming
<1>2. ASSUME NEW w \in Workers, NEW r \in {ScanRow, CatchUpRow}, Call(w, r) PROVE Coming'
  BY <1>2 DEF Call, TypeOK, Coming
<1>3. ASSUME NEW w \in Workers, Acquire(w) \/ Miss(w) PROVE Coming'
  BY <1>3 DEF Acquire, Miss, TypeOK, Coming
<1>4. ASSUME NEW w \in Workers, Merge(w) PROVE Coming'
  <2>1. merged[w] \in Rows /\ row[merged[w]] # "running"
    BY <1>4 DEF Merge, TypeOK, Rows, ScoutRows
  <2>2. row'[merged[w]] = "queued"
    BY <1>4, <2>1 DEF Merge, TypeOK
  <2> QED BY <2>1, <2>2 DEF Coming, Queued
<1>5. ASSUME NEW w \in Workers, Claim(w) PROVE Coming'
  BY <1>5 DEF Claim
<1>6. ASSUME NEW w \in Workers, Scanned(w) \/ Finish(w) \/ Release(w) \/ Crash(w)
      PROVE  Coming'
  <2>1. owed /\ ~dropped /\ UNCHANGED desk /\ pc[w] \notin {"call", "merge", "ready"}
    BY <1>6 DEF Scanned, Finish, Release, Crash, TypeOK
  <2>2. Coming
    BY <2>1 DEF FollowedUp
  <2>3. \A v \in Workers : v # w => pc'[v] = pc[v]
    BY <1>6 DEF Scanned, Finish, Release, Crash, TypeOK
  <2>4. \A v \in Workers : ~Claim(v)
    BY <1>6, OneClaims DEF Scanned, Finish, Release, Crash, Claim, Held, TypeOK
  <2>5. CASE Queued # {}
    BY <2>4, <2>5, QueueKept DEF Coming
  <2>6. CASE Queued = {}
    BY <2>1, <2>2, <2>3, <2>6 DEF Coming
  <2> QED BY <2>5, <2>6
<1>7. ASSUME NEW d \in Desks, Ask(d) PROVE Coming'
  BY <1>7 DEF Ask, TypeOK, Coming
<1>8. ASSUME NEW d \in Desks, AskAgain(d) PROVE Coming'
  <2>1. PICK r \in Pending : row[r] # "running"
    BY <1>8 DEF AskAgain
  <2>2. r \in Rows /\ row'[r] = "queued"
    BY <1>8, <2>1 DEF AskAgain, Pending, Rows, state
  <2> QED BY <2>2 DEF Coming, Queued
<1>9. ASSUME NEW d \in Desks, NEW r \in RunRows, NEW w \in Threads, Insert(d, r, w)
      PROVE  Coming'
  <2>1. pc'[w] = "call" /\ w \in Workers
    BY <1>9 DEF Insert, TypeOK, Workers
  <2> QED BY <2>1 DEF Coming
<1>10. ASSUME NEW r \in CatchRows, AskCatchUp(r) PROVE Coming'
  <2>1. r \in Rows /\ row'[r] = "queued"
    BY <1>10 DEF AskCatchUp, TypeOK, Rows
  <2> QED BY <2>1 DEF Coming, Queued
<1>11. CASE UNCHANGED vars
  BY <1>11 DEF vars, state, FollowedUp, Coming, Queued
<1> QED
  BY <1>1, <1>2, <1>3, <1>4, <1>5, <1>6, <1>7, <1>8, <1>9, <1>10, <1>11 DEF Next, Run

\* The state is always typed.
THEOREM TypeCorrect == Spec => []TypeOK
BY InitHolds, TypeStep, PTL DEF Spec

\* Only the worker that has the lock scans and settles, and what it claimed is
\* running until it settles it (runner.py:36-57, 276-304).
THEOREM LockCorrect == Spec => []LockInv
BY InitHolds, TypeStep, LockStep, PTL DEF Spec

\* No row is left running as long as no worker dies (runner.py:98-108).
THEOREM LeftCorrect == Spec => []NoneLeftBehind
BY InitHolds, TypeStep, LockStep, LeftStep, PTL DEF Spec

\* A trigger that was not dropped is on its way to a scan (CONTEXT.md:104).
THEOREM FollowCorrect == Spec => []FollowedUp
BY InitHolds, TypeStep, LockStep, FollowStep, PTL DEF Spec

\* What is claimed is what the worker with the lock has claimed.
LEMMA ClaimedByOne ==
  ASSUME TypeOK, LockInv, NEW w \in Workers, lock = w
  PROVE  Claimed = mine[w]
<1>1. \A v \in Workers : v # w => mine[v] = {}
  BY DEF LockInv, Held, TypeOK
<1> QED BY <1>1 DEF Claimed

\* Between scans nothing is claimed.
LEMMA NothingClaimed ==
  ASSUME LockInv, Scan = "idle"
  PROVE  Claimed = {}
<1>1. ASSUME NEW w \in Workers PROVE mine[w] = {}
  <2>1. CASE pc[w] \in {"scanning", "completed", "failed"}
    <3>1. lock = w /\ lock # None
      BY <2>1, ScanAssumption DEF LockInv, Held
    <3> QED BY <2>1, <3>1 DEF Scan
  <2>2. CASE pc[w] \notin {"scanning", "completed", "failed"}
    BY <2>2 DEF LockInv
  <2> QED BY <2>1, <2>2
<1> QED BY <1>1 DEF Claimed

\* A worker that does not have the lock moves without being seen.
LEMMA ScanStays ==
  ASSUME TypeOK, LockInv, NEW w \in Workers, NEW place, UNCHANGED <<lock, mine>>,
         lock # w \/ (pc[w] = "ready" /\ place = "ready"),
         pc' = [pc EXCEPT ![w] = place]
  PROVE  Scan' = Scan /\ Claimed' = Claimed
BY DEF Scan, Claimed, TypeOK

\* A row that is not running is put in the queue, or is there already.
LEMMA QueueMoves ==
  ASSUME TypeOK, NEW r \in Rows, row[r] # "running", row' = [row EXCEPT ![r] = "queued"],
         Scan' = Scan, Claimed' = Claimed, crashes' = crashes
  PROVE  Batches!Queue(r) \/ UNCHANGED Batches!vars
<1>1. CASE row[r] = "queued"
  BY <1>1 DEF TypeOK, Batches!vars
<1>2. CASE row[r] # "queued"
  BY <1>2 DEF TypeOK, Batches!Queue, Batches!Ends
<1> QED BY <1>1, <1>2

\* Every step is a step of the batches, or is not seen there.
LEMMA BatchStep ==
  TypeOK /\ TypeOK' /\ LockInv /\ LockInv' /\ [Next]_vars => [Batches!Next]_(Batches!vars)
<1> SUFFICES ASSUME TypeOK, TypeOK', LockInv, LockInv', [Next]_vars
             PROVE  [Batches!Next]_(Batches!vars)
  OBVIOUS
<1> USE DEF Goto
<1>n. None \notin Workers /\ Threads \subseteq Workers /\ Launchd \in Workers
  BY ScanAssumption DEF Workers
<1>h. \A w \in Workers : lock = w <=> pc[w] \in Held
  BY DEF LockInv
<1>1. CASE Tick
  <2>1. lock # Launchd
    BY <1>1, <1>n, <1>h DEF Tick, Held
  <2>2. Scan' = Scan /\ Claimed' = Claimed
    BY <1>1, <1>n, <2>1, ScanStays DEF Tick
  <2> QED BY <1>1, <2>2 DEF Tick, Batches!vars
<1>2. ASSUME NEW w \in Workers, NEW r \in {ScanRow, CatchUpRow}, Call(w, r)
      PROVE  UNCHANGED Batches!vars
  <2>1. lock # w
    BY <1>2, <1>h DEF Call, Held
  <2>2. Scan' = Scan /\ Claimed' = Claimed
    BY <1>2, <2>1, ScanStays DEF Call
  <2> QED BY <1>2, <2>2 DEF Call, Batches!vars
<1>3. ASSUME NEW w \in Workers, Acquire(w) PROVE UNCHANGED Batches!vars
  <2>1. Scan = "idle" /\ Scan' = "idle"
    BY <1>3 DEF Acquire, Scan, TypeOK
  <2>2. Claimed' = Claimed
    BY <1>3 DEF Acquire, Claimed
  <2> QED BY <1>3, <2>1, <2>2 DEF Acquire, Batches!vars
<1>4. ASSUME NEW w \in Workers, Miss(w) PROVE UNCHANGED Batches!vars
  <2>1. lock # w
    BY <1>4, <1>h DEF Miss, Held
  <2>2. Scan' = Scan /\ Claimed' = Claimed
    BY <1>4, <2>1, ScanStays DEF Miss
  <2> QED BY <1>4, <2>2 DEF Miss, Batches!vars
<1>5. ASSUME NEW w \in Workers, Merge(w)
      PROVE  UNCHANGED Batches!vars \/ \E r \in Rows : Batches!Queue(r)
  <2>1. lock # w
    BY <1>5, <1>h DEF Merge, Held
  <2>2. Scan' = Scan /\ Claimed' = Claimed
    BY <1>5, <2>1, ScanStays DEF Merge
  <2>3. merged[w] \in Rows
    BY DEF TypeOK, Rows, ScoutRows
  <2>4. CASE row[merged[w]] = "running"
    BY <1>5, <2>2, <2>3, <2>4 DEF Merge, TypeOK, Batches!vars
  <2>5. CASE row[merged[w]] # "running"
    <3>1. row' = [row EXCEPT ![merged[w]] = "queued"] /\ crashes' = crashes
      BY <1>5, <2>3, <2>5 DEF Merge
    <3> QED BY <2>2, <2>3, <2>5, <3>1, QueueMoves
  <2> QED BY <2>4, <2>5
<1>6. ASSUME NEW w \in Workers, Claim(w) PROVE Batches!Begin
  <2>1. lock = w /\ lock' = w /\ pc'[w] = "scanning"
    BY <1>6, <1>h DEF Claim, Held, TypeOK
  <2>2. Scan = "idle" /\ Scan' = "scanning"
    BY <1>6, <1>n, <2>1 DEF Claim, Scan
  <2>3. Claimed' = mine'[w]
    <3>1. \A v \in Workers : v # w => mine'[v] = {}
      BY <1>6, OneClaims DEF Claim, Held, TypeOK
    <3> QED BY <3>1 DEF Claimed
  <2>4. mine'[w] = Queued
    BY <1>6 DEF Claim, TypeOK
  <2>5. Queued = Batches!Queued
    BY DEF Queued, Batches!Queued
  <2>6. row' = [r \in Rows |-> IF r \in Queued THEN "running" ELSE row[r]] /\ crashes' = crashes
    BY <1>6 DEF Claim
  <2> QED BY <2>2, <2>3, <2>4, <2>5, <2>6 DEF Batches!Begin
<1>7. ASSUME NEW w \in Workers, Scanned(w) PROVE Batches!End
  <2>1. lock = w
    BY <1>7, <1>h DEF Scanned, Held
  <2>2. Scan = "scanning" /\ Scan' \in {"completed", "failed"}
    BY <1>7, <1>n, <2>1 DEF Scanned, Scan, TypeOK
  <2> QED BY <1>7, <2>2 DEF Scanned, Claimed, Batches!End, Batches!Ends
<1>8. ASSUME NEW w \in Workers, Finish(w) PROVE Batches!Record
  <2>1. lock = w /\ lock' = w
    BY <1>8, <1>h DEF Finish, Held
  <2>2. Scan = pc[w] /\ Scan' = "idle" /\ pc[w] \in {"completed", "failed"}
    BY <1>8, <1>n, <2>1 DEF Finish, Scan, TypeOK
  <2>3. Claimed = mine[w]
    BY <2>1, ClaimedByOne
  <2>4. Claimed' = {}
    <3>1. \A v \in Workers : mine'[v] = {}
      BY <1>8, OneClaims DEF Finish, Held, TypeOK
    <3> QED BY <3>1 DEF Claimed
  <2> QED BY <1>8, <2>2, <2>3, <2>4 DEF Finish, Batches!Record, Batches!Ends
<1>9. ASSUME NEW w \in Workers, Release(w) PROVE UNCHANGED Batches!vars
  <2>1. lock = w /\ pc[w] = "post" /\ lock' = None
    BY <1>9, <1>h DEF Release, Held
  <2>2. Scan = "idle" /\ Scan' = "idle"
    BY <2>1 DEF Scan
  <2> QED BY <1>9, <2>2 DEF Release, Claimed, Batches!vars
<1>10. ASSUME NEW w \in Workers, Crash(w) PROVE Batches!Die
  <2>1. row' = row /\ crashes' = crashes + 1
    BY <1>10 DEF Crash
  <2>2. CASE lock = w
    <3>1. Scan' = "idle"
      BY <1>10, <2>2 DEF Crash, Scan
    <3>2. Claimed' = {}
      BY <3>1, NothingClaimed, <1>10, <2>2, ClaimedByOne DEF Claimed, Crash, TypeOK, LockInv, Held
    <3> QED BY <2>1, <3>1, <3>2 DEF Batches!Die
  <2>3. CASE lock # w
    <3>1. mine' = mine /\ lock' = lock
      BY <1>10, <1>h, <2>3 DEF Crash, LockInv, Held, TypeOK
    <3>2. Scan' = Scan /\ Claimed' = Claimed
      BY <1>10, <2>3, <3>1, ScanStays DEF Crash
    <3> QED BY <2>1, <3>2 DEF Batches!Die
  <2> QED BY <2>2, <2>3
<1>11. ASSUME NEW d \in Desks, Ask(d) \/ AskAgain(d) PROVE UNCHANGED Batches!vars
  BY <1>11 DEF Ask, AskAgain, state, Scan, Claimed, Batches!vars
<1>12. ASSUME NEW d \in Desks, NEW r \in RunRows, NEW w \in Threads, Insert(d, r, w)
       PROVE  UNCHANGED Batches!vars \/ \E q \in Rows : Batches!Queue(q)
  <2>1. lock # w
    BY <1>12, <1>n, <1>h DEF Insert, Held
  <2>2. Scan' = Scan /\ Claimed' = Claimed
    BY <1>12, <1>n, <2>1, ScanStays DEF Insert
  <2>3. r \in Rows /\ row[r] # "running" /\ row' = [row EXCEPT ![r] = "queued"]
        /\ crashes' = crashes
    BY <1>12 DEF Insert, Rows, ScoutRows
  <2> QED BY <2>2, <2>3, QueueMoves
<1>13. ASSUME NEW r \in CatchRows, AskCatchUp(r)
       PROVE  UNCHANGED Batches!vars \/ \E q \in Rows : Batches!Queue(q)
  <2>1. Scan' = Scan /\ Claimed' = Claimed
    BY <1>13 DEF AskCatchUp, Scan, Claimed
  <2>2. r \in Rows /\ row[r] # "running" /\ row' = [row EXCEPT ![r] = "queued"]
        /\ crashes' = crashes
    BY <1>13 DEF AskCatchUp, Rows
  <2> QED BY <2>1, <2>2, QueueMoves
<1>14. CASE UNCHANGED vars
  BY <1>14 DEF vars, state, Scan, Claimed, Batches!vars
<1> QED
  BY <1>1, <1>2, <1>3, <1>4, <1>5, <1>6, <1>7, <1>8, <1>9, <1>10, <1>11, <1>12, <1>13, <1>14
  DEF Next, Run, Batches!Next

\* Any number of workers, triggers, dashboards and deaths serve the queue as
\* ScanBatches says: scan after scan, each for all that was queued when it began
\* (runner.py:80-123, 248-304).
THEOREM BatchesKept == Spec => KeepsBatches
<1>1. Init => Batches!Init
  BY DEF Init, Scan, Claimed, Batches!Init
<1> QED BY <1>1, BatchStep, TypeCorrect, LockCorrect, PTL DEF Spec, KeepsBatches, Batches!Spec
=============================================================================
