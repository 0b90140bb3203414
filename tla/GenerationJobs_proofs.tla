----------------------- MODULE GenerationJobs_proofs ------------------------
(***************************************************************************)
(* Theorems about GenerationJobs, for every set of processes and every     *)
(* bound.                                                                  *)
(***************************************************************************)
EXTENDS GenerationJobs, FiniteSetTheorems, TLAPS

\* The initial state is typed.
LEMMA TypeInit == Init => TypeOK
BY ConstantsAssumption DEF Init, TypeOK, Status, Active, Finished, Places, InRun,
   Free, Jobs

\* A guarded UPDATE that finishes a running row keeps the three columns typed.
LEMMA FinishTypes ==
  ASSUME TypeOK, NEW j \in Jobs, NEW o \in Status, FinishRunning(j, o)
  PROVE  /\ status' \in [Jobs -> Status]
         /\ owner' \in [Jobs -> Procs \cup {None}]
         /\ lease' \in [Jobs -> BOOLEAN]
<1>1. CASE status[j] = "running"
  BY <1>1 DEF FinishRunning, TypeOK
<1>2. CASE status[j] # "running"
  BY <1>2 DEF FinishRunning, TypeOK
<1> QED
  BY <1>1, <1>2

\* A thread that goes on to another place is the same thread.
LEMMA HoldPlaced ==
  ASSUME NEW h \in Holds, NEW place \in {"top", "checked", "locked", "done"}
  PROVE  [h EXCEPT !.place = place] \in Holds
BY DEF Holds

\* Closing a session keeps a process's memory typed.
LEMMA DropTypes ==
  ASSUME TypeOK, NEW p \in Procs, NEW j \in Jobs,
         DropSession(p, j) \/ UNCHANGED memory
  PROVE  /\ session' \in [Procs -> [Jobs -> Nat]]
         /\ pending' \in [Procs -> SUBSET Jobs]
<1>1. CASE DropSession(p, j)
  <2>1. session' \in [Procs -> [Jobs -> Nat]]
    BY <1>1 DEF DropSession, TypeOK
  <2>2. pending' \in [Procs -> SUBSET Jobs]
    BY <1>1 DEF DropSession, TypeOK
  <2> QED BY <2>1, <2>2
<1>2. CASE UNCHANGED memory
  BY <1>2 DEF memory, TypeOK
<1> QED
  BY <1>1, <1>2

\* Closing a session takes it, and the request it waits for, from the memory of
\* its process and nothing else.
LEMMA DropOnly ==
  ASSUME TypeOK, NEW p \in Procs, NEW j \in Jobs, DropSession(p, j),
         NEW q \in Procs, NEW i \in Jobs
  PROVE  /\ session'[q][i] = IF q = p /\ i = j THEN 0 ELSE session[q][i]
         /\ i \in pending'[q] <=> i \in pending[q] /\ ~(q = p /\ i = j)
<1>1. session'[q][i] = IF q = p /\ i = j THEN 0 ELSE session[q][i]
  BY DEF DropSession, TypeOK
<1>2. i \in pending'[q] <=> i \in pending[q] /\ ~(q = p /\ i = j)
  BY DEF DropSession, TypeOK
<1> QED
  BY <1>1, <1>2

\* Every action keeps the types.
LEMMA TypeStep == TypeOK /\ [Next]_vars => TypeOK'
<1> SUFFICES ASSUME TypeOK, [Next]_vars PROVE TypeOK'
  OBVIOUS
<1> USE ConstantsAssumption DEF TypeOK, Status, Active, Finished, Places, InRun, Free,
        vars, rows, memory, worker, calls, history, Holds, Replies
<1>1. ASSUME NEW j \in Jobs, Submit(j) PROVE TypeOK'
  BY <1>1 DEF Submit
<1>2. ASSUME NEW j \in Jobs, Expire(j) PROVE TypeOK'
  BY <1>2 DEF Expire
<1>3. ASSUME NEW p \in Procs, Crash(p) PROVE TypeOK'
  BY <1>3 DEF Crash
<1>4. ASSUME NEW p \in Procs, StartWorker(p) PROVE TypeOK'
  BY <1>4 DEF StartWorker
<1>5. ASSUME NEW p \in Procs, Recover(p) PROVE TypeOK'
  BY <1>5 DEF Recover, Recovered, MoveTo
<1>6. ASSUME NEW p \in Procs, Claim(p) PROVE TypeOK'
  BY <1>6 DEF Claim, MoveTo
<1>7. ASSUME NEW p \in Procs, Release(p) PROVE TypeOK'
  BY <1>7 DEF Release
<1>8. ASSUME NEW p \in Procs, OpenSession(p) PROVE TypeOK'
  BY <1>8 DEF OpenSession, Works, MoveTo
<1>9. ASSUME NEW p \in Procs, StartTurn(p) PROVE TypeOK'
  BY <1>9 DEF StartTurn, Works, MoveTo
<1>10. ASSUME NEW p \in Procs, Resume(p) PROVE TypeOK'
  BY <1>10 DEF Resume, Works, MoveTo
<1>11. ASSUME NEW p \in Procs, RunFails(p) PROVE TypeOK'
  <2> PICK j \in Jobs : RunFails(p)!(j)
    BY <1>11 DEF RunFails
  <2>1. /\ status' \in [Jobs -> Status]
        /\ owner' \in [Jobs -> Procs \cup {None}]
        /\ lease' \in [Jobs -> BOOLEAN]
    BY FinishTypes
  <2>2. turns' \in [Jobs -> Nat] /\ starters' \in [Jobs -> SUBSET Procs]
    <3>1. CASE UNCHANGED history
      BY <3>1
    <3>2. CASE /\ turns' = [turns EXCEPT ![j] = @ + 1]
               /\ starters' = [starters EXCEPT ![j] = @ \cup {p}]
      BY <3>2
    <3> QED BY <3>1, <3>2
  <2> QED BY <2>1, <2>2 DEF MoveTo
<1>12. ASSUME NEW p \in Procs, SeeStopped(p) PROVE TypeOK'
  BY <1>12 DEF SeeStopped, Works, MoveTo
<1>13. ASSUME NEW p \in Procs, Heartbeat(p) PROVE TypeOK'
  BY <1>13 DEF Heartbeat, Works
<1>14. ASSUME NEW p \in Procs, Ask(p) PROVE TypeOK'
  <2> PICK j \in Jobs : Ask(p)!(j)
    BY <1>14 DEF Ask
  <2>1. /\ status' \in [Jobs -> Status] /\ lease' \in [Jobs -> BOOLEAN]
        /\ asked' \in [Jobs -> Nat]
    <3>1. CASE /\ status' = [status EXCEPT ![j] = "needs_input"]
               /\ lease' = [lease EXCEPT ![j] = TRUE]
               /\ asked' = [asked EXCEPT ![j] = @ + 1]
      BY <3>1
    <3>2. CASE UNCHANGED <<status, lease, asked>>
      BY <3>2
    <3> QED BY <3>1, <3>2
  <2>2. pending' \in [Procs -> SUBSET Jobs]
    OBVIOUS
  <2>3. holds' \in SUBSET Holds
    BY DEF HoldOf
  <2> QED BY <2>1, <2>2, <2>3 DEF MoveTo
<1>15. ASSUME NEW p \in Procs, Complete(p) PROVE TypeOK'
  <2> PICK j \in Jobs : Complete(p)!(j)
    BY <1>15 DEF Complete
  <2>1. /\ status' \in [Jobs -> Status]
        /\ owner' \in [Jobs -> Procs \cup {None}]
        /\ lease' \in [Jobs -> BOOLEAN]
    BY FinishTypes
  <2> QED BY <2>1 DEF MoveTo
<1>16. ASSUME NEW p \in Procs, Leave(p) PROVE TypeOK'
  <2> PICK j \in Jobs : Leave(p)!(j)
    BY <1>16 DEF Leave
  <2>1. session' \in [Procs -> [Jobs -> Nat]] /\ pending' \in [Procs -> SUBSET Jobs]
    BY DropTypes
  <2>2. holds' \in SUBSET Holds
    BY DEF HoldOf
  <2>3. at' \in [Procs -> Places] /\ job' \in [Procs -> Jobs \cup {None}]
    BY DEF MoveTo
  <2> QED BY <2>1, <2>2, <2>3
<1>17. ASSUME NEW h \in holds, HoldCheck(h) PROVE TypeOK'
  BY <1>17 DEF HoldCheck, HoldMoves
<1>18. ASSUME NEW h \in holds, HoldBusy(h) PROVE TypeOK'
  <2>1. holds' \in SUBSET Holds
    BY <1>18, HoldPlaced DEF HoldBusy, HoldMoves
  <2> QED BY <1>18, <2>1 DEF HoldBusy
<1>19. ASSUME NEW h \in holds, HoldLock(h) PROVE TypeOK'
  <2>1. holds' \in SUBSET Holds
    <3>1. holds' = (holds \ {h}) \cup {[h EXCEPT !.place = "locked"]}
      BY <1>19 DEF HoldLock, HoldMoves
    <3>2. [h EXCEPT !.place = "locked"] \in Holds
      BY HoldPlaced
    <3> QED BY <3>1, <3>2
  <2>2. at' \in [Procs -> Places] /\ job' \in [Procs -> Jobs \cup {None}]
    BY <1>19 DEF HoldLock
  <2> QED BY <1>19, <2>1, <2>2 DEF HoldLock
<1>20. ASSUME NEW h \in holds, HoldClaim(h) PROVE TypeOK'
  BY <1>20 DEF HoldClaim, MoveTo
<1>21. ASSUME NEW h \in holds, HoldRetry(h) PROVE TypeOK'
  BY <1>21 DEF HoldRetry, MoveTo, HoldMoves
<1>22. ASSUME NEW h \in holds, HoldEnd(h) PROVE TypeOK'
  <2>1. h.proc \in Procs /\ h.job \in Jobs
    OBVIOUS
  <2>2. session' \in [Procs -> [Jobs -> Nat]] /\ pending' \in [Procs -> SUBSET Jobs]
    BY <1>22, <2>1, DropTypes DEF HoldEnd
  <2> QED BY <1>22, <2>2 DEF HoldEnd
<1>23. ASSUME NEW h \in holds, HoldError(h) PROVE TypeOK'
  BY <1>23 DEF HoldError, HoldMoves
<1>24. ASSUME NEW p \in Procs, NEW j \in Jobs, CancelRead(p, j) PROVE TypeOK'
  BY <1>24 DEF CancelRead
<1>25. ASSUME NEW p \in Procs, NEW j \in Jobs, CancelWrite(p, j) PROVE TypeOK'
  BY <1>25 DEF CancelWrite, DropSession
<1>26. ASSUME NEW p \in Procs, NEW j \in Jobs, RespondRead(p, j) PROVE TypeOK'
  BY <1>26 DEF RespondRead, Recovered
<1>27. ASSUME NEW r \in replies, RespondWrite(r) PROVE TypeOK'
  BY <1>27 DEF RespondWrite
<1>29. ASSUME NEW j \in Jobs, SaveText(j) PROVE TypeOK'
  BY <1>29 DEF SaveText
<1>28. CASE UNCHANGED vars
  BY <1>28
<1> QED
  BY <1>1, <1>2, <1>3, <1>4, <1>5, <1>6, <1>7, <1>8, <1>9, <1>10, <1>11, <1>12, <1>13, <1>14, <1>15, <1>16, <1>17, <1>18, <1>19, <1>20, <1>21, <1>22, <1>23, <1>24, <1>25, <1>26, <1>27, <1>28, <1>29 DEF Next, Worker, Run, Settle, Hold

\* Rows keep their hand when no process becomes newly tied to a job, and a row
\* with a tied process is unfinished only if it was before, with the same owner.
LEMMA HandKept ==
  ASSUME OneHand, HandOwns, HandTakes,
         \A p \in Procs, j \in Jobs : Tied(p, j)' => Tied(p, j),
         \A p \in Procs, j \in Jobs : Tied(p, j) =>
           /\ status'[j] \in Active => status[j] \in Active /\ owner'[j] = owner[j]
           /\ status'[j] # "absent"
           /\ status'[j] = "queued" => response'[j] # 0
  PROVE  OneHand' /\ HandOwns' /\ HandTakes'
BY DEF OneHand, HandOwns, HandTakes

\* A holding thread that goes on to another place ties its process as before.
LEMMA MovedTies ==
  ASSUME TypeOK, NEW h \in holds, NEW place, HoldMoves(h, place), UNCHANGED starters,
         \A p \in Procs, j \in Jobs : Drives(p, j)' => Drives(p, j)
  PROVE  \A p \in Procs, j \in Jobs : Tied(p, j)' => Tied(p, j)
<1>1. ASSUME NEW g \in holds' PROVE \E k \in holds : k.proc = g.proc /\ k.job = g.job
  <2>1. CASE g \in holds
    BY <2>1
  <2>2. CASE g = [h EXCEPT !.place = place]
    BY <2>2 DEF TypeOK, Holds
  <2> QED BY <1>1, <2>1, <2>2 DEF HoldMoves
<1> QED BY <1>1 DEF Tied

\* Every action keeps the hand invariant: at most one process is tied to a job,
\* an unfinished row with a tied process names it, and the holding thread that
\* has the worker lock is the one that took it.
LEMMA HandStep == TypeOK /\ TypeOK' /\ HandInv /\ [Next]_vars => HandInv'
<1> SUFFICES ASSUME TypeOK, TypeOK', HandInv, [Next]_vars PROVE HandInv'
  OBVIOUS
<1> USE DEF HandInv, InRun, Free, rows, memory, worker, calls, history
<1>1. ASSUME NEW j \in Jobs, Submit(j) PROVE HandInv'
  <2>1. \A pp \in Procs, jj \in Jobs : Tied(pp, jj)' => Tied(pp, jj)
    BY <1>1 DEF Submit, Tied, Drives, TypeOK, Holds
  <2>2. \A pp \in Procs, jj \in Jobs : Tied(pp, jj) =>
          /\ status'[jj] \in Active => status[jj] \in Active /\ owner'[jj] = owner[jj]
          /\ status'[jj] # "absent"
          /\ status'[jj] = "queued" => response'[jj] # 0
    BY <1>1 DEF Submit, HandOwns, HandTakes, DriverRow, Drives, TypeOK, Replies, Active, Finished
  <2>3. OneHand' /\ HandOwns' /\ HandTakes'
    BY <2>1, <2>2, HandKept
  <2>4. DriverRow'
    BY <1>1 DEF Submit, DriverRow, HandTakes, OneHand, Tied, Drives, TypeOK, Active, Finished, Status, Holds, Replies
  <2>5. LockHeld'
    BY <1>1 DEF Submit, LockHeld, TypeOK, Holds
  <2> QED BY <2>3, <2>4, <2>5
<1>2. ASSUME NEW j \in Jobs, Expire(j) PROVE HandInv'
  <2>1. \A pp \in Procs, jj \in Jobs : Tied(pp, jj)' => Tied(pp, jj)
    BY <1>2 DEF Expire, Tied, Drives, TypeOK, Holds
  <2>2. \A pp \in Procs, jj \in Jobs : Tied(pp, jj) =>
          /\ status'[jj] \in Active => status[jj] \in Active /\ owner'[jj] = owner[jj]
          /\ status'[jj] # "absent"
          /\ status'[jj] = "queued" => response'[jj] # 0
    BY <1>2 DEF Expire, HandOwns, HandTakes, DriverRow, Drives, TypeOK, Replies, Active, Finished
  <2>3. OneHand' /\ HandOwns' /\ HandTakes'
    BY <2>1, <2>2, HandKept
  <2>4. DriverRow'
    BY <1>2 DEF Expire, DriverRow, HandTakes, OneHand, Tied, Drives, TypeOK, Active, Finished, Status, Holds, Replies
  <2>5. LockHeld'
    BY <1>2 DEF Expire, LockHeld, TypeOK, Holds
  <2> QED BY <2>3, <2>4, <2>5
<1>3. ASSUME NEW p \in Procs, Crash(p) PROVE HandInv'
  <2>1. \A pp \in Procs, jj \in Jobs : Tied(pp, jj)' => Tied(pp, jj)
    BY <1>3 DEF Crash, Tied, Drives, TypeOK, Holds
  <2>2. \A pp \in Procs, jj \in Jobs : Tied(pp, jj) =>
          /\ status'[jj] \in Active => status[jj] \in Active /\ owner'[jj] = owner[jj]
          /\ status'[jj] # "absent"
          /\ status'[jj] = "queued" => response'[jj] # 0
    BY <1>3 DEF Crash, HandOwns, HandTakes, DriverRow, Drives, TypeOK, Replies, Active, Finished
  <2>3. OneHand' /\ HandOwns' /\ HandTakes'
    BY <2>1, <2>2, HandKept
  <2>4. DriverRow'
    BY <1>3 DEF Crash, DriverRow, HandTakes, OneHand, Tied, Drives, TypeOK, Active, Finished, Status, Holds, Replies
  <2>5. LockHeld'
    BY <1>3 DEF Crash, LockHeld, TypeOK, Holds
  <2> QED BY <2>3, <2>4, <2>5
<1>4. ASSUME NEW p \in Procs, StartWorker(p) PROVE HandInv'
  <2>1. \A pp \in Procs, jj \in Jobs : Tied(pp, jj)' => Tied(pp, jj)
    BY <1>4 DEF StartWorker, Tied, Drives, TypeOK, Holds
  <2>2. \A pp \in Procs, jj \in Jobs : Tied(pp, jj) =>
          /\ status'[jj] \in Active => status[jj] \in Active /\ owner'[jj] = owner[jj]
          /\ status'[jj] # "absent"
          /\ status'[jj] = "queued" => response'[jj] # 0
    BY <1>4 DEF StartWorker, HandOwns, HandTakes, DriverRow, Drives, TypeOK, Replies, Active, Finished
  <2>3. OneHand' /\ HandOwns' /\ HandTakes'
    BY <2>1, <2>2, HandKept
  <2>4. DriverRow'
    BY <1>4 DEF StartWorker, DriverRow, HandTakes, OneHand, Tied, Drives, TypeOK, Active, Finished, Status, Holds, Replies
  <2>5. LockHeld'
    BY <1>4 DEF StartWorker, LockHeld, TypeOK, Holds
  <2> QED BY <2>3, <2>4, <2>5
<1>5. ASSUME NEW p \in Procs, Recover(p) PROVE HandInv'
  <2>1. \A pp \in Procs, jj \in Jobs : Tied(pp, jj)' => Tied(pp, jj)
    BY <1>5 DEF Recover, Recovered, Orphaned, MoveTo, Tied, Drives, TypeOK, Holds
  <2>2. \A pp \in Procs, jj \in Jobs : Tied(pp, jj) =>
          /\ status'[jj] \in Active => status[jj] \in Active /\ owner'[jj] = owner[jj]
          /\ status'[jj] # "absent"
          /\ status'[jj] = "queued" => response'[jj] # 0
    BY <1>5 DEF Recover, Recovered, Orphaned, MoveTo, HandOwns, HandTakes, DriverRow, Drives, TypeOK, Replies, Active, Finished
  <2>3. OneHand' /\ HandOwns' /\ HandTakes'
    BY <2>1, <2>2, HandKept
  <2>4. DriverRow'
    BY <1>5 DEF Recover, Recovered, Orphaned, MoveTo, DriverRow, HandTakes, OneHand, Tied, Drives, TypeOK, Active, Finished, Status, Holds, Replies
  <2>5. LockHeld'
    BY <1>5 DEF Recover, Recovered, Orphaned, MoveTo, LockHeld, TypeOK, Holds
  <2> QED BY <2>3, <2>4, <2>5
<1>6. ASSUME NEW p \in Procs, Claim(p) PROVE HandInv'
  <2> PICK j \in Jobs : Claim(p)!2!(j)
    BY <1>6 DEF Claim
  <2>1. /\ status' = [status EXCEPT ![j] = "running"]
        /\ owner' = [owner EXCEPT ![j] = p]
        /\ job' = [job EXCEPT ![p] = j] /\ at' = [at EXCEPT ![p] = "run"]
        /\ at[p] = "claim" /\ UNCHANGED <<response, holds, starters>>
    BY <1>6 DEF Claim, MoveTo
  <2>2. \A pp \in Procs, jj \in Jobs :
          Tied(pp, jj)' => Tied(pp, jj) \/ (pp = p /\ jj = j)
    BY <2>1 DEF Tied, Drives, TypeOK
  <2>3. \A pp \in Procs : Tied(pp, j) => pp = p
    BY DEF Claimable, HandTakes, HandOwns, Active
  <2>4. OneHand'
    BY <2>2, <2>3 DEF OneHand
  <2>5. HandOwns'
    BY <2>1, <2>2, <2>3 DEF HandOwns, TypeOK, Active
  <2>6. HandTakes'
    BY <2>1, <2>2 DEF HandTakes, TypeOK
  <2>7. DriverRow'
    BY <2>1 DEF DriverRow, Drives, TypeOK
  <2>8. LockHeld'
    BY <2>1 DEF LockHeld, TypeOK, Holds
  <2> QED BY <2>4, <2>5, <2>6, <2>7, <2>8
<1>7. ASSUME NEW p \in Procs, Release(p) PROVE HandInv'
  <2>1. \A pp \in Procs, jj \in Jobs : Tied(pp, jj)' => Tied(pp, jj)
    BY <1>7 DEF Release, Tied, Drives, TypeOK, Holds
  <2>2. \A pp \in Procs, jj \in Jobs : Tied(pp, jj) =>
          /\ status'[jj] \in Active => status[jj] \in Active /\ owner'[jj] = owner[jj]
          /\ status'[jj] # "absent"
          /\ status'[jj] = "queued" => response'[jj] # 0
    BY <1>7 DEF Release, HandOwns, HandTakes, DriverRow, Drives, TypeOK, Replies, Active, Finished
  <2>3. OneHand' /\ HandOwns' /\ HandTakes'
    BY <2>1, <2>2, HandKept
  <2>4. DriverRow'
    BY <1>7 DEF Release, DriverRow, HandTakes, OneHand, Tied, Drives, TypeOK, Active, Finished, Status, Holds, Replies
  <2>5. LockHeld'
    BY <1>7 DEF Release, LockHeld, TypeOK, Holds
  <2> QED BY <2>3, <2>4, <2>5
<1>8. ASSUME NEW p \in Procs, OpenSession(p) PROVE HandInv'
  <2>1. \A pp \in Procs, jj \in Jobs : Tied(pp, jj)' => Tied(pp, jj)
    BY <1>8 DEF OpenSession, Works, MoveTo, Tied, Drives, TypeOK, Holds
  <2>2. \A pp \in Procs, jj \in Jobs : Tied(pp, jj) =>
          /\ status'[jj] \in Active => status[jj] \in Active /\ owner'[jj] = owner[jj]
          /\ status'[jj] # "absent"
          /\ status'[jj] = "queued" => response'[jj] # 0
    BY <1>8 DEF OpenSession, Works, MoveTo, HandOwns, HandTakes, DriverRow, Drives, TypeOK, Replies, Active, Finished
  <2>3. OneHand' /\ HandOwns' /\ HandTakes'
    BY <2>1, <2>2, HandKept
  <2>4. DriverRow'
    BY <1>8 DEF OpenSession, Works, MoveTo, DriverRow, HandTakes, OneHand, Tied, Drives, TypeOK, Active, Finished, Status, Holds, Replies
  <2>5. LockHeld'
    BY <1>8 DEF OpenSession, Works, MoveTo, LockHeld, TypeOK, Holds
  <2> QED BY <2>3, <2>4, <2>5
<1>9. ASSUME NEW p \in Procs, StartTurn(p) PROVE HandInv'
  <2>1. \A pp \in Procs, jj \in Jobs : Tied(pp, jj)' => Tied(pp, jj)
    BY <1>9 DEF StartTurn, Works, MoveTo, Tied, Drives, TypeOK, Holds
  <2>2. \A pp \in Procs, jj \in Jobs : Tied(pp, jj) =>
          /\ status'[jj] \in Active => status[jj] \in Active /\ owner'[jj] = owner[jj]
          /\ status'[jj] # "absent"
          /\ status'[jj] = "queued" => response'[jj] # 0
    BY <1>9 DEF StartTurn, Works, MoveTo, HandOwns, HandTakes, DriverRow, Drives, TypeOK, Replies, Active, Finished
  <2>3. OneHand' /\ HandOwns' /\ HandTakes'
    BY <2>1, <2>2, HandKept
  <2>4. DriverRow'
    BY <1>9 DEF StartTurn, Works, MoveTo, DriverRow, HandTakes, OneHand, Tied, Drives, TypeOK, Active, Finished, Status, Holds, Replies
  <2>5. LockHeld'
    BY <1>9 DEF StartTurn, Works, MoveTo, LockHeld, TypeOK, Holds
  <2> QED BY <2>3, <2>4, <2>5
<1>10. ASSUME NEW p \in Procs, Resume(p) PROVE HandInv'
  <2>1. \A pp \in Procs, jj \in Jobs : Tied(pp, jj)' => Tied(pp, jj)
    BY <1>10 DEF Resume, Works, MoveTo, Tied, Drives, TypeOK, Holds
  <2>2. \A pp \in Procs, jj \in Jobs : Tied(pp, jj) =>
          /\ status'[jj] \in Active => status[jj] \in Active /\ owner'[jj] = owner[jj]
          /\ status'[jj] # "absent"
          /\ status'[jj] = "queued" => response'[jj] # 0
    <3>1. PICK j \in Jobs : Resume(p)!(j)
      BY <1>10 DEF Resume
    <3>2. UNCHANGED <<status, owner>> /\ \A jj \in Jobs \ {j} : response'[jj] = response[jj]
      BY <3>1 DEF TypeOK
    <3>3. Drives(p, j) /\ at[p] # "finally"
      BY <3>1 DEF Works, Drives, InRun
    <3>4. status[j] # "queued"
      BY <3>3 DEF DriverRow, Finished
    <3> QED BY <3>2, <3>4 DEF HandOwns, HandTakes, Active
  <2>3. OneHand' /\ HandOwns' /\ HandTakes'
    BY <2>1, <2>2, HandKept
  <2>4. DriverRow'
    BY <1>10 DEF Resume, Works, MoveTo, DriverRow, HandTakes, OneHand, Tied, Drives, TypeOK, Active, Finished, Status, Holds, Replies
  <2>5. LockHeld'
    BY <1>10 DEF Resume, Works, MoveTo, LockHeld, TypeOK, Holds
  <2> QED BY <2>3, <2>4, <2>5
<1>11. ASSUME NEW p \in Procs, RunFails(p) PROVE HandInv'
  <2>1. \A pp \in Procs, jj \in Jobs : Tied(pp, jj)' => Tied(pp, jj)
    BY <1>11 DEF RunFails, Works, FinishRunning, MoveTo, Tied, Drives, TypeOK, Holds
  <2>2. \A pp \in Procs, jj \in Jobs : Tied(pp, jj) =>
          /\ status'[jj] \in Active => status[jj] \in Active /\ owner'[jj] = owner[jj]
          /\ status'[jj] # "absent"
          /\ status'[jj] = "queued" => response'[jj] # 0
    BY <1>11 DEF RunFails, Works, FinishRunning, MoveTo, HandOwns, HandTakes, DriverRow, Drives, TypeOK, Replies, Active, Finished
  <2>3. OneHand' /\ HandOwns' /\ HandTakes'
    BY <2>1, <2>2, HandKept
  <2>4. DriverRow'
    BY <1>11 DEF RunFails, Works, FinishRunning, MoveTo, DriverRow, HandTakes, OneHand, Tied, Drives, TypeOK, Active, Finished, Status, Holds, Replies
  <2>5. LockHeld'
    BY <1>11 DEF RunFails, Works, FinishRunning, MoveTo, LockHeld, TypeOK, Holds
  <2> QED BY <2>3, <2>4, <2>5
<1>12. ASSUME NEW p \in Procs, SeeStopped(p) PROVE HandInv'
  <2>1. \A pp \in Procs, jj \in Jobs : Tied(pp, jj)' => Tied(pp, jj)
    BY <1>12 DEF SeeStopped, Works, MoveTo, Tied, Drives, TypeOK, Holds
  <2>2. \A pp \in Procs, jj \in Jobs : Tied(pp, jj) =>
          /\ status'[jj] \in Active => status[jj] \in Active /\ owner'[jj] = owner[jj]
          /\ status'[jj] # "absent"
          /\ status'[jj] = "queued" => response'[jj] # 0
    BY <1>12 DEF SeeStopped, Works, MoveTo, HandOwns, HandTakes, DriverRow, Drives, TypeOK, Replies, Active, Finished
  <2>3. OneHand' /\ HandOwns' /\ HandTakes'
    BY <2>1, <2>2, HandKept
  <2>4. DriverRow'
    BY <1>12 DEF SeeStopped, Works, MoveTo, DriverRow, HandTakes, OneHand, Tied, Drives, TypeOK, Active, Finished, Status, Holds, Replies
  <2>5. LockHeld'
    BY <1>12 DEF SeeStopped, Works, MoveTo, LockHeld, TypeOK, Holds
  <2> QED BY <2>3, <2>4, <2>5
<1>13. ASSUME NEW p \in Procs, Heartbeat(p) PROVE HandInv'
  <2>1. \A pp \in Procs, jj \in Jobs : Tied(pp, jj)' => Tied(pp, jj)
    BY <1>13 DEF Heartbeat, Works, Tied, Drives, TypeOK, Holds
  <2>2. \A pp \in Procs, jj \in Jobs : Tied(pp, jj) =>
          /\ status'[jj] \in Active => status[jj] \in Active /\ owner'[jj] = owner[jj]
          /\ status'[jj] # "absent"
          /\ status'[jj] = "queued" => response'[jj] # 0
    BY <1>13 DEF Heartbeat, Works, HandOwns, HandTakes, DriverRow, Drives, TypeOK, Replies, Active, Finished
  <2>3. OneHand' /\ HandOwns' /\ HandTakes'
    BY <2>1, <2>2, HandKept
  <2>4. DriverRow'
    BY <1>13 DEF Heartbeat, Works, DriverRow, HandTakes, OneHand, Tied, Drives, TypeOK, Active, Finished, Status, Holds, Replies
  <2>5. LockHeld'
    BY <1>13 DEF Heartbeat, Works, LockHeld, TypeOK, Holds
  <2> QED BY <2>3, <2>4, <2>5
<1>14. ASSUME NEW p \in Procs, Ask(p) PROVE HandInv'
  <2>1. \A pp \in Procs, jj \in Jobs : Tied(pp, jj)' => Tied(pp, jj)
    BY <1>14 DEF Ask, Works, HoldOf, MoveTo, Tied, Drives, TypeOK, Holds
  <2>2. \A pp \in Procs, jj \in Jobs : Tied(pp, jj) =>
          /\ status'[jj] \in Active => status[jj] \in Active /\ owner'[jj] = owner[jj]
          /\ status'[jj] # "absent"
          /\ status'[jj] = "queued" => response'[jj] # 0
    BY <1>14 DEF Ask, Works, HoldOf, MoveTo, HandOwns, HandTakes, DriverRow, Drives, TypeOK, Replies, Active, Finished
  <2>3. OneHand' /\ HandOwns' /\ HandTakes'
    BY <2>1, <2>2, HandKept
  <2>4. DriverRow'
    BY <1>14 DEF Ask, Works, HoldOf, MoveTo, DriverRow, HandTakes, OneHand, Tied, Drives, TypeOK, Active, Finished, Status, Holds, Replies
  <2>5. LockHeld'
    BY <1>14 DEF Ask, Works, HoldOf, MoveTo, LockHeld, TypeOK, Holds
  <2> QED BY <2>3, <2>4, <2>5
<1>15. ASSUME NEW p \in Procs, Complete(p) PROVE HandInv'
  <2>1. \A pp \in Procs, jj \in Jobs : Tied(pp, jj)' => Tied(pp, jj)
    BY <1>15 DEF Complete, Works, FinishRunning, MoveTo, Tied, Drives, TypeOK, Holds
  <2>2. \A pp \in Procs, jj \in Jobs : Tied(pp, jj) =>
          /\ status'[jj] \in Active => status[jj] \in Active /\ owner'[jj] = owner[jj]
          /\ status'[jj] # "absent"
          /\ status'[jj] = "queued" => response'[jj] # 0
    BY <1>15 DEF Complete, Works, FinishRunning, MoveTo, HandOwns, HandTakes, DriverRow, Drives, TypeOK, Replies, Active, Finished
  <2>3. OneHand' /\ HandOwns' /\ HandTakes'
    BY <2>1, <2>2, HandKept
  <2>4. DriverRow'
    BY <1>15 DEF Complete, Works, FinishRunning, MoveTo, DriverRow, HandTakes, OneHand, Tied, Drives, TypeOK, Active, Finished, Status, Holds, Replies
  <2>5. LockHeld'
    BY <1>15 DEF Complete, Works, FinishRunning, MoveTo, LockHeld, TypeOK, Holds
  <2> QED BY <2>3, <2>4, <2>5
<1>16. ASSUME NEW p \in Procs, Leave(p) PROVE HandInv'
  <2>1. \A pp \in Procs, jj \in Jobs : Tied(pp, jj)' => Tied(pp, jj)
    BY <1>16 DEF Leave, Works, HoldOf, MoveTo, Tied, Drives, TypeOK, Holds
  <2>2. \A pp \in Procs, jj \in Jobs : Tied(pp, jj) =>
          /\ status'[jj] \in Active => status[jj] \in Active /\ owner'[jj] = owner[jj]
          /\ status'[jj] # "absent"
          /\ status'[jj] = "queued" => response'[jj] # 0
    BY <1>16 DEF Leave, Works, HoldOf, MoveTo, HandOwns, HandTakes, DriverRow, Drives, TypeOK, Replies, Active, Finished
  <2>3. OneHand' /\ HandOwns' /\ HandTakes'
    BY <2>1, <2>2, HandKept
  <2>4. DriverRow'
    BY <1>16 DEF Leave, Works, HoldOf, MoveTo, DriverRow, HandTakes, OneHand, Tied, Drives, TypeOK, Active, Finished, Status, Holds, Replies
  <2>5. LockHeld'
    BY <1>16 DEF Leave, Works, HoldOf, MoveTo, LockHeld, TypeOK, Holds
  <2> QED BY <2>3, <2>4, <2>5
<1>17. ASSUME NEW h \in holds, HoldCheck(h) PROVE HandInv'
  <2>1. \A pp \in Procs, jj \in Jobs : Tied(pp, jj)' => Tied(pp, jj)
    BY <1>17 DEF HoldCheck, HoldMoves, Tied, Drives, TypeOK, Holds
  <2>2. \A pp \in Procs, jj \in Jobs : Tied(pp, jj) =>
          /\ status'[jj] \in Active => status[jj] \in Active /\ owner'[jj] = owner[jj]
          /\ status'[jj] # "absent"
          /\ status'[jj] = "queued" => response'[jj] # 0
    BY <1>17 DEF HoldCheck, HoldMoves, HandOwns, HandTakes, DriverRow, Drives, TypeOK, Replies, Active, Finished
  <2>3. OneHand' /\ HandOwns' /\ HandTakes'
    BY <2>1, <2>2, HandKept
  <2>4. DriverRow'
    BY <1>17 DEF HoldCheck, HoldMoves, DriverRow, HandTakes, OneHand, Tied, Drives, TypeOK, Active, Finished, Status, Holds, Replies
  <2>5. LockHeld'
    BY <1>17 DEF HoldCheck, HoldMoves, LockHeld, TypeOK, Holds
  <2> QED BY <2>3, <2>4, <2>5
<1>18. ASSUME NEW h \in holds, HoldBusy(h) PROVE HandInv'
  <2>1. \A pp \in Procs, jj \in Jobs : Tied(pp, jj)' => Tied(pp, jj)
    <3>1. \A pp \in Procs, jj \in Jobs : Drives(pp, jj)' => Drives(pp, jj)
      BY <1>18 DEF HoldBusy, Drives
    <3> QED BY <1>18, <3>1, MovedTies DEF HoldBusy
  <2>2. \A pp \in Procs, jj \in Jobs : Tied(pp, jj) =>
          /\ status'[jj] \in Active => status[jj] \in Active /\ owner'[jj] = owner[jj]
          /\ status'[jj] # "absent"
          /\ status'[jj] = "queued" => response'[jj] # 0
    BY <1>18 DEF HoldBusy, HoldMoves, HandOwns, HandTakes, DriverRow, Drives, TypeOK, Replies, Active, Finished
  <2>3. OneHand' /\ HandOwns' /\ HandTakes'
    BY <2>1, <2>2, HandKept
  <2>4. DriverRow'
    BY <1>18 DEF HoldBusy, HoldMoves, DriverRow, HandTakes, OneHand, Tied, Drives, TypeOK, Active, Finished, Status, Holds, Replies
  <2>5. LockHeld'
    BY <1>18 DEF HoldBusy, HoldMoves, LockHeld, TypeOK, Holds
  <2> QED BY <2>3, <2>4, <2>5
<1>19. ASSUME NEW h \in holds, HoldLock(h) PROVE HandInv'
  <2>1. \A pp \in Procs, jj \in Jobs : Tied(pp, jj)' => Tied(pp, jj)
    <3>1. \A pp \in Procs, jj \in Jobs : Drives(pp, jj)' => Drives(pp, jj)
      BY <1>19 DEF HoldLock, Drives, TypeOK, Holds
    <3>2. \A g \in holds' : \E f \in holds : f.proc = g.proc /\ f.job = g.job
      BY <1>19 DEF HoldLock, HoldMoves, TypeOK, Holds
    <3> QED BY <1>19, <3>1, <3>2 DEF HoldLock, Tied
  <2>2. \A pp \in Procs, jj \in Jobs : Tied(pp, jj) =>
          /\ status'[jj] \in Active => status[jj] \in Active /\ owner'[jj] = owner[jj]
          /\ status'[jj] # "absent"
          /\ status'[jj] = "queued" => response'[jj] # 0
    BY <1>19 DEF HoldLock, HoldMoves, HandOwns, HandTakes, DriverRow, Drives, TypeOK, Replies, Active, Finished
  <2>3. OneHand' /\ HandOwns' /\ HandTakes'
    BY <2>1, <2>2, HandKept
  <2>4. DriverRow'
    BY <1>19 DEF HoldLock, HoldMoves, DriverRow, HandTakes, OneHand, Tied, Drives, TypeOK, Active, Finished, Status, Holds, Replies
  <2>5. LockHeld'
    BY <1>19 DEF HoldLock, HoldMoves, LockHeld, TypeOK, Holds
  <2> QED BY <2>3, <2>4, <2>5
<1>20. ASSUME NEW h \in holds, HoldClaim(h) PROVE HandInv'
  <2> DEFINE q == h.proc
             j == h.job
  <2>1. q \in Procs /\ j \in Jobs /\ at[q] = "holdclaim" /\ job[q] = j
    BY <1>20 DEF HoldClaim, LockHeld, TypeOK, Holds
  <2>2. /\ status[j] = "queued" /\ response[j] # 0
        /\ status' = [status EXCEPT ![j] = "running"]
        /\ owner' = [owner EXCEPT ![j] = q]
        /\ at' = [at EXCEPT ![q] = "run"]
        /\ holds' = holds \ {h}
        /\ UNCHANGED <<response, job, starters>>
    BY <1>20 DEF HoldClaim, Answered, MoveTo
  <2>3. Tied(q, j) /\ owner[j] = q
    BY <2>1, <2>2 DEF Tied, HandOwns, Active
  <2> HIDE DEF q, j
  <2>4. \A pp \in Procs, jj \in Jobs : Tied(pp, jj)' => Tied(pp, jj)
    BY <2>1, <2>2, <2>3 DEF Tied, Drives, TypeOK
  <2>5. \A pp \in Procs, jj \in Jobs : Tied(pp, jj) =>
          /\ status'[jj] \in Active => status[jj] \in Active /\ owner'[jj] = owner[jj]
          /\ status'[jj] # "absent"
          /\ status'[jj] = "queued" => response'[jj] # 0
    BY <2>1, <2>2, <2>3 DEF HandTakes, TypeOK, Active
  <2>6. OneHand' /\ HandOwns' /\ HandTakes'
    BY <2>4, <2>5, HandKept
  <2>7. DriverRow'
    BY <2>1, <2>2 DEF DriverRow, Drives, TypeOK
  <2>8. LockHeld'
    BY <1>20, <2>1, <2>2 DEF HoldClaim, LockHeld, TypeOK, Holds, q
  <2> QED BY <2>6, <2>7, <2>8
<1>21. ASSUME NEW h \in holds, HoldRetry(h) PROVE HandInv'
  <2>1. \A pp \in Procs, jj \in Jobs : Tied(pp, jj)' => Tied(pp, jj)
    <3>1. \A pp \in Procs, jj \in Jobs : Drives(pp, jj)' => Drives(pp, jj)
      BY <1>21 DEF HoldRetry, MoveTo, Drives, TypeOK
    <3> QED BY <1>21, <3>1, MovedTies DEF HoldRetry
  <2>2. \A pp \in Procs, jj \in Jobs : Tied(pp, jj) =>
          /\ status'[jj] \in Active => status[jj] \in Active /\ owner'[jj] = owner[jj]
          /\ status'[jj] # "absent"
          /\ status'[jj] = "queued" => response'[jj] # 0
    BY <1>21 DEF HoldRetry, Answered, MoveTo, HoldMoves, HandOwns, HandTakes, DriverRow, Drives, TypeOK, Replies, Active, Finished
  <2>3. OneHand' /\ HandOwns' /\ HandTakes'
    BY <2>1, <2>2, HandKept
  <2>4. DriverRow'
    BY <1>21 DEF HoldRetry, Answered, MoveTo, HoldMoves, DriverRow, HandTakes, OneHand, Tied, Drives, TypeOK, Active, Finished, Status, Holds, Replies
  <2>5. LockHeld'
    BY <1>21 DEF HoldRetry, Answered, MoveTo, HoldMoves, LockHeld, TypeOK, Holds
  <2> QED BY <2>3, <2>4, <2>5
<1>22. ASSUME NEW h \in holds, HoldEnd(h) PROVE HandInv'
  <2>1. \A pp \in Procs, jj \in Jobs : Tied(pp, jj)' => Tied(pp, jj)
    BY <1>22 DEF HoldEnd, Tied, Drives, TypeOK, Holds
  <2>2. \A pp \in Procs, jj \in Jobs : Tied(pp, jj) =>
          /\ status'[jj] \in Active => status[jj] \in Active /\ owner'[jj] = owner[jj]
          /\ status'[jj] # "absent"
          /\ status'[jj] = "queued" => response'[jj] # 0
    BY <1>22 DEF HoldEnd, HandOwns, HandTakes, DriverRow, Drives, TypeOK, Replies, Active, Finished
  <2>3. OneHand' /\ HandOwns' /\ HandTakes'
    BY <2>1, <2>2, HandKept
  <2>4. DriverRow'
    BY <1>22 DEF HoldEnd, DriverRow, HandTakes, OneHand, Tied, Drives, TypeOK, Active, Finished, Status, Holds, Replies
  <2>5. LockHeld'
    BY <1>22 DEF HoldEnd, LockHeld, TypeOK, Holds
  <2> QED BY <2>3, <2>4, <2>5
<1>23. ASSUME NEW h \in holds, HoldError(h) PROVE HandInv'
  <2>1. \A pp \in Procs, jj \in Jobs : Tied(pp, jj)' => Tied(pp, jj)
    BY <1>23 DEF HoldError, HoldMoves, Tied, Drives, TypeOK, Holds
  <2>2. \A pp \in Procs, jj \in Jobs : Tied(pp, jj) =>
          /\ status'[jj] \in Active => status[jj] \in Active /\ owner'[jj] = owner[jj]
          /\ status'[jj] # "absent"
          /\ status'[jj] = "queued" => response'[jj] # 0
    BY <1>23 DEF HoldError, HoldMoves, HandOwns, HandTakes, DriverRow, Drives, TypeOK, Replies, Active, Finished
  <2>3. OneHand' /\ HandOwns' /\ HandTakes'
    BY <2>1, <2>2, HandKept
  <2>4. DriverRow'
    BY <1>23 DEF HoldError, HoldMoves, DriverRow, HandTakes, OneHand, Tied, Drives, TypeOK, Active, Finished, Status, Holds, Replies
  <2>5. LockHeld'
    BY <1>23 DEF HoldError, HoldMoves, LockHeld, TypeOK, Holds
  <2> QED BY <2>3, <2>4, <2>5
<1>24. ASSUME NEW p \in Procs, NEW j \in Jobs, CancelRead(p, j) PROVE HandInv'
  <2>1. \A pp \in Procs, jj \in Jobs : Tied(pp, jj)' => Tied(pp, jj)
    BY <1>24 DEF CancelRead, Tied, Drives, TypeOK, Holds
  <2>2. \A pp \in Procs, jj \in Jobs : Tied(pp, jj) =>
          /\ status'[jj] \in Active => status[jj] \in Active /\ owner'[jj] = owner[jj]
          /\ status'[jj] # "absent"
          /\ status'[jj] = "queued" => response'[jj] # 0
    BY <1>24 DEF CancelRead, HandOwns, HandTakes, DriverRow, Drives, TypeOK, Replies, Active, Finished
  <2>3. OneHand' /\ HandOwns' /\ HandTakes'
    BY <2>1, <2>2, HandKept
  <2>4. DriverRow'
    BY <1>24 DEF CancelRead, DriverRow, HandTakes, OneHand, Tied, Drives, TypeOK, Active, Finished, Status, Holds, Replies
  <2>5. LockHeld'
    BY <1>24 DEF CancelRead, LockHeld, TypeOK, Holds
  <2> QED BY <2>3, <2>4, <2>5
<1>25. ASSUME NEW p \in Procs, NEW j \in Jobs, CancelWrite(p, j) PROVE HandInv'
  <2>1. \A pp \in Procs, jj \in Jobs : Tied(pp, jj)' => Tied(pp, jj)
    BY <1>25 DEF CancelWrite, Tied, Drives, TypeOK, Holds
  <2>2. \A pp \in Procs, jj \in Jobs : Tied(pp, jj) =>
          /\ status'[jj] \in Active => status[jj] \in Active /\ owner'[jj] = owner[jj]
          /\ status'[jj] # "absent"
          /\ status'[jj] = "queued" => response'[jj] # 0
    BY <1>25 DEF CancelWrite, HandOwns, HandTakes, DriverRow, Drives, TypeOK, Replies, Active, Finished
  <2>3. OneHand' /\ HandOwns' /\ HandTakes'
    BY <2>1, <2>2, HandKept
  <2>4. DriverRow'
    BY <1>25 DEF CancelWrite, DriverRow, HandTakes, OneHand, Tied, Drives, TypeOK, Active, Finished, Status, Holds, Replies
  <2>5. LockHeld'
    BY <1>25 DEF CancelWrite, LockHeld, TypeOK, Holds
  <2> QED BY <2>3, <2>4, <2>5
<1>26. ASSUME NEW p \in Procs, NEW j \in Jobs, RespondRead(p, j) PROVE HandInv'
  <2>1. \A pp \in Procs, jj \in Jobs : Tied(pp, jj)' => Tied(pp, jj)
    BY <1>26 DEF RespondRead, Recovered, Orphaned, Tied, Drives, TypeOK, Holds
  <2>2. \A pp \in Procs, jj \in Jobs : Tied(pp, jj) =>
          /\ status'[jj] \in Active => status[jj] \in Active /\ owner'[jj] = owner[jj]
          /\ status'[jj] # "absent"
          /\ status'[jj] = "queued" => response'[jj] # 0
    BY <1>26 DEF RespondRead, Recovered, Orphaned, HandOwns, HandTakes, DriverRow, Drives, TypeOK, Replies, Active, Finished
  <2>3. OneHand' /\ HandOwns' /\ HandTakes'
    BY <2>1, <2>2, HandKept
  <2>4. DriverRow'
    BY <1>26 DEF RespondRead, Recovered, Orphaned, DriverRow, HandTakes, OneHand, Tied, Drives, TypeOK, Active, Finished, Status, Holds, Replies
  <2>5. LockHeld'
    BY <1>26 DEF RespondRead, Recovered, Orphaned, LockHeld, TypeOK, Holds
  <2> QED BY <2>3, <2>4, <2>5
<1>27. ASSUME NEW r \in replies, RespondWrite(r) PROVE HandInv'
  <2>1. \A pp \in Procs, jj \in Jobs : Tied(pp, jj)' => Tied(pp, jj)
    BY <1>27 DEF RespondWrite, Tied, Drives, TypeOK, Holds
  <2>2. \A pp \in Procs, jj \in Jobs : Tied(pp, jj) =>
          /\ status'[jj] \in Active => status[jj] \in Active /\ owner'[jj] = owner[jj]
          /\ status'[jj] # "absent"
          /\ status'[jj] = "queued" => response'[jj] # 0
    BY <1>27 DEF RespondWrite, HandOwns, HandTakes, DriverRow, Drives, TypeOK, Replies, Active, Finished
  <2>3. OneHand' /\ HandOwns' /\ HandTakes'
    BY <2>1, <2>2, HandKept
  <2>4. DriverRow'
    BY <1>27 DEF RespondWrite, DriverRow, HandTakes, OneHand, Tied, Drives, TypeOK, Active, Finished, Status, Holds, Replies
  <2>5. LockHeld'
    BY <1>27 DEF RespondWrite, LockHeld, TypeOK, Holds
  <2> QED BY <2>3, <2>4, <2>5
<1>29. ASSUME NEW j \in Jobs, SaveText(j) PROVE HandInv'
  <2>1. \A pp \in Procs, jj \in Jobs : Tied(pp, jj)' => Tied(pp, jj)
    BY <1>29 DEF SaveText, Tied, Drives, TypeOK, Holds
  <2>2. \A pp \in Procs, jj \in Jobs : Tied(pp, jj) =>
          /\ status'[jj] \in Active => status[jj] \in Active /\ owner'[jj] = owner[jj]
          /\ status'[jj] # "absent"
          /\ status'[jj] = "queued" => response'[jj] # 0
    BY <1>29 DEF SaveText, HandOwns, HandTakes, DriverRow, Drives, TypeOK, Replies, Active, Finished
  <2>3. OneHand' /\ HandOwns' /\ HandTakes'
    BY <2>1, <2>2, HandKept
  <2>4. DriverRow'
    BY <1>29 DEF SaveText, DriverRow, HandTakes, OneHand, Tied, Drives, TypeOK, Active, Finished, Status, Holds, Replies
  <2>5. LockHeld'
    BY <1>29 DEF SaveText, LockHeld, TypeOK, Holds
  <2> QED BY <2>3, <2>4, <2>5
<1>28. CASE UNCHANGED vars
  BY <1>28 DEF vars, OneHand, HandOwns, HandTakes, DriverRow, LockHeld, Tied, Drives
<1> QED
  BY <1>1, <1>2, <1>3, <1>4, <1>5, <1>6, <1>7, <1>8, <1>9, <1>10, <1>11, <1>12, <1>13, <1>14, <1>15, <1>16, <1>17, <1>18, <1>19, <1>20, <1>21, <1>22, <1>23, <1>24, <1>25, <1>26, <1>27, <1>28, <1>29 DEF Next, Worker, Run, Settle, Hold

\* A finished row is never reopened and a cancelled one stays cancelled, in
\* every step; only the types of the rows are needed.
LEMMA ReopenStep ==
  TypeOK /\ [Next]_vars =>
    \A j \in Jobs :
      /\ status[j] \in Finished => status'[j] \in Finished
      /\ status[j] = "cancelled" => status'[j] = "cancelled"
<1> SUFFICES ASSUME TypeOK, [Next]_vars, NEW i \in Jobs
             PROVE  /\ status[i] \in Finished => status'[i] \in Finished
                    /\ status[i] = "cancelled" => status'[i] = "cancelled"
  OBVIOUS
<1> USE DEF TypeOK, Finished, rows, memory, worker, calls, history
<1>1. ASSUME NEW j \in Jobs, Submit(j)
       PROVE  /\ status[i] \in Finished => status'[i] \in Finished
              /\ status[i] = "cancelled" => status'[i] = "cancelled"
  BY <1>1 DEF Submit, Active
<1>2. ASSUME NEW j \in Jobs, Expire(j)
       PROVE  /\ status[i] \in Finished => status'[i] \in Finished
              /\ status[i] = "cancelled" => status'[i] = "cancelled"
  BY <1>2 DEF Expire, Active
<1>3. ASSUME NEW p \in Procs, Crash(p)
       PROVE  /\ status[i] \in Finished => status'[i] \in Finished
              /\ status[i] = "cancelled" => status'[i] = "cancelled"
  BY <1>3 DEF Crash, Active
<1>4. ASSUME NEW p \in Procs, StartWorker(p)
       PROVE  /\ status[i] \in Finished => status'[i] \in Finished
              /\ status[i] = "cancelled" => status'[i] = "cancelled"
  BY <1>4 DEF StartWorker, Active
<1>5. ASSUME NEW p \in Procs, Recover(p)
       PROVE  /\ status[i] \in Finished => status'[i] \in Finished
              /\ status[i] = "cancelled" => status'[i] = "cancelled"
  BY <1>5 DEF Recover, Recovered, Orphaned, Active
<1>6. ASSUME NEW p \in Procs, Claim(p)
       PROVE  /\ status[i] \in Finished => status'[i] \in Finished
              /\ status[i] = "cancelled" => status'[i] = "cancelled"
  BY <1>6 DEF Claim, Claimable, Active
<1>7. ASSUME NEW p \in Procs, Release(p)
       PROVE  /\ status[i] \in Finished => status'[i] \in Finished
              /\ status[i] = "cancelled" => status'[i] = "cancelled"
  BY <1>7 DEF Release, Active
<1>8. ASSUME NEW p \in Procs, OpenSession(p)
       PROVE  /\ status[i] \in Finished => status'[i] \in Finished
              /\ status[i] = "cancelled" => status'[i] = "cancelled"
  BY <1>8 DEF OpenSession, Works, Active
<1>9. ASSUME NEW p \in Procs, StartTurn(p)
       PROVE  /\ status[i] \in Finished => status'[i] \in Finished
              /\ status[i] = "cancelled" => status'[i] = "cancelled"
  BY <1>9 DEF StartTurn, Works, Active
<1>10. ASSUME NEW p \in Procs, Resume(p)
       PROVE  /\ status[i] \in Finished => status'[i] \in Finished
              /\ status[i] = "cancelled" => status'[i] = "cancelled"
  BY <1>10 DEF Resume, Works, Active
<1>11. ASSUME NEW p \in Procs, RunFails(p)
       PROVE  /\ status[i] \in Finished => status'[i] \in Finished
              /\ status[i] = "cancelled" => status'[i] = "cancelled"
  BY <1>11 DEF RunFails, Works, FinishRunning, Active
<1>12. ASSUME NEW p \in Procs, SeeStopped(p)
       PROVE  /\ status[i] \in Finished => status'[i] \in Finished
              /\ status[i] = "cancelled" => status'[i] = "cancelled"
  BY <1>12 DEF SeeStopped, Works, Active
<1>13. ASSUME NEW p \in Procs, Heartbeat(p)
       PROVE  /\ status[i] \in Finished => status'[i] \in Finished
              /\ status[i] = "cancelled" => status'[i] = "cancelled"
  BY <1>13 DEF Heartbeat, Works, Active
<1>14. ASSUME NEW p \in Procs, Ask(p)
       PROVE  /\ status[i] \in Finished => status'[i] \in Finished
              /\ status[i] = "cancelled" => status'[i] = "cancelled"
  BY <1>14 DEF Ask, Works, HoldOf, Active
<1>15. ASSUME NEW p \in Procs, Complete(p)
       PROVE  /\ status[i] \in Finished => status'[i] \in Finished
              /\ status[i] = "cancelled" => status'[i] = "cancelled"
  BY <1>15 DEF Complete, Works, FinishRunning, Active
<1>16. ASSUME NEW p \in Procs, Leave(p)
       PROVE  /\ status[i] \in Finished => status'[i] \in Finished
              /\ status[i] = "cancelled" => status'[i] = "cancelled"
  BY <1>16 DEF Leave, Works, HoldOf, Active
<1>17. ASSUME NEW h \in holds, HoldCheck(h)
       PROVE  /\ status[i] \in Finished => status'[i] \in Finished
              /\ status[i] = "cancelled" => status'[i] = "cancelled"
  BY <1>17 DEF HoldCheck, Active, Holds
<1>18. ASSUME NEW h \in holds, HoldBusy(h)
       PROVE  /\ status[i] \in Finished => status'[i] \in Finished
              /\ status[i] = "cancelled" => status'[i] = "cancelled"
  BY <1>18 DEF HoldBusy, Active, Holds
<1>19. ASSUME NEW h \in holds, HoldLock(h)
       PROVE  /\ status[i] \in Finished => status'[i] \in Finished
              /\ status[i] = "cancelled" => status'[i] = "cancelled"
  BY <1>19 DEF HoldLock, Active, Holds
<1>20. ASSUME NEW h \in holds, HoldClaim(h)
       PROVE  /\ status[i] \in Finished => status'[i] \in Finished
              /\ status[i] = "cancelled" => status'[i] = "cancelled"
  BY <1>20 DEF HoldClaim, Answered, Active, Holds
<1>21. ASSUME NEW h \in holds, HoldRetry(h)
       PROVE  /\ status[i] \in Finished => status'[i] \in Finished
              /\ status[i] = "cancelled" => status'[i] = "cancelled"
  BY <1>21 DEF HoldRetry, Answered, Active, Holds
<1>22. ASSUME NEW h \in holds, HoldEnd(h)
       PROVE  /\ status[i] \in Finished => status'[i] \in Finished
              /\ status[i] = "cancelled" => status'[i] = "cancelled"
  BY <1>22 DEF HoldEnd, Active, Holds
<1>23. ASSUME NEW h \in holds, HoldError(h)
       PROVE  /\ status[i] \in Finished => status'[i] \in Finished
              /\ status[i] = "cancelled" => status'[i] = "cancelled"
  BY <1>23 DEF HoldError, Active, Holds
<1>24. ASSUME NEW p \in Procs, NEW j \in Jobs, CancelRead(p, j)
       PROVE  /\ status[i] \in Finished => status'[i] \in Finished
              /\ status[i] = "cancelled" => status'[i] = "cancelled"
  BY <1>24 DEF CancelRead, Active
<1>25. ASSUME NEW p \in Procs, NEW j \in Jobs, CancelWrite(p, j)
       PROVE  /\ status[i] \in Finished => status'[i] \in Finished
              /\ status[i] = "cancelled" => status'[i] = "cancelled"
  BY <1>25 DEF CancelWrite, Active
<1>26. ASSUME NEW p \in Procs, NEW j \in Jobs, RespondRead(p, j)
       PROVE  /\ status[i] \in Finished => status'[i] \in Finished
              /\ status[i] = "cancelled" => status'[i] = "cancelled"
  BY <1>26 DEF RespondRead, Recovered, Orphaned, Active
<1>27. ASSUME NEW r \in replies, RespondWrite(r)
       PROVE  /\ status[i] \in Finished => status'[i] \in Finished
              /\ status[i] = "cancelled" => status'[i] = "cancelled"
  BY <1>27 DEF RespondWrite, Active, Replies
<1>29. ASSUME NEW j \in Jobs, SaveText(j)
       PROVE  /\ status[i] \in Finished => status'[i] \in Finished
              /\ status[i] = "cancelled" => status'[i] = "cancelled"
  BY <1>29 DEF SaveText, Active
<1>28. CASE UNCHANGED vars
  BY <1>28 DEF vars
<1> QED
  BY <1>1, <1>2, <1>3, <1>4, <1>5, <1>6, <1>7, <1>8, <1>9, <1>10, <1>11, <1>12, <1>13, <1>14, <1>15, <1>16, <1>17, <1>18, <1>19, <1>20, <1>21, <1>22, <1>23, <1>24, <1>25, <1>26, <1>27, <1>28, <1>29 DEF Next, Worker, Run, Settle, Hold

-----------------------------------------------------------------------------

\* Type correctness of the queue.
THEOREM TypeCorrect == Spec => []TypeOK
BY TypeInit, TypeStep, PTL DEF Spec

\* One process at most is tied to a job and an unfinished row names it: the
\* inductive invariant of the queue.
THEOREM HandCorrect == Spec => []HandInv
<1>1. Init => HandInv
  BY ConstantsAssumption DEF Init, HandInv, OneHand, HandOwns, HandTakes, DriverRow,
     LockHeld, Tied, Drives, InRun, Free
<1> QED
  BY <1>1, TypeCorrect, HandStep, PTL DEF Spec

\* Two processes never run the same job, however many processes there are and
\* whenever they crash or their leases expire.
THEOREM SingleDriverHolds == Spec => []SingleDriver
<1>1. HandInv => SingleDriver
  BY DEF HandInv, OneHand, Tied, SingleDriver
<1> QED
  BY <1>1, HandCorrect, PTL

\* Only one process ever requests the billable turn of a job.
THEOREM OneStarterHolds == Spec => []OneStarter
<1>1. TypeOK /\ HandInv => OneStarter
  <2> SUFFICES ASSUME TypeOK, HandInv, NEW j \in Jobs
               PROVE  Cardinality(starters[j]) <= 1
    BY DEF OneStarter
  <2>1. CASE starters[j] = {}
    BY <2>1, FS_EmptySet
  <2>2. CASE starters[j] # {}
    <3>1. PICK p \in starters[j] : TRUE
      BY <2>2
    <3>2. \A q \in starters[j] : q = p
      BY <3>1 DEF HandInv, OneHand, Tied, TypeOK
    <3>3. starters[j] = {p}
      BY <3>1, <3>2
    <3> QED BY <3>3, FS_Singleton
  <2> QED BY <2>1, <2>2
<1> QED
  BY <1>1, TypeCorrect, HandCorrect, PTL

\* A finished job is never put back to work, and a cancelled one stays cancelled.
THEOREM NeverReopenedHolds == Spec => NeverReopened
<1>1. TypeOK /\ [Next]_vars =>
        [\A j \in Jobs :
           /\ status[j] \in Finished => status'[j] \in Finished
           /\ status[j] = "cancelled" => status'[j] = "cancelled"]_vars
  BY ReopenStep
<1> QED
  BY <1>1, TypeCorrect, PTL DEF Spec, NeverReopened

-----------------------------------------------------------------------------
(* The queue implements JobLifecycle.                                      *)

\* A cancellation in flight was read from a row, and a row that is not there
\* yet has no answer.
RowsKnown ==
  /\ \A c \in cancels : status[c[2]] # "absent"
  /\ \A j \in Jobs : status[j] = "absent" => response[j] = 0

\* What the owner is shown changes only with the status or the answer of a row.
LEMMA PhaseKept ==
  ASSUME UNCHANGED <<status, response>> PROVE UNCHANGED ShownPhase
BY DEF ShownPhase, Answered

\* A step that stores a status and touches no other row moves one phase.
LEMMA PhaseMoves ==
  ASSUME TypeOK, NEW j \in Jobs, NEW later,
         status' = [status EXCEPT ![j] = later], UNCHANGED response
  PROVE  Lifecycle!Becomes(j, IF later = "queued" /\ response[j] # 0
                              THEN "answered" ELSE later)
BY DEF ShownPhase, Answered, Lifecycle!Becomes, TypeOK

\* A step of the queue is a step of the lifecycle, or none.
LEMMA LifecycleStep ==
  TypeOK /\ HandInv /\ RowsKnown /\ [Next]_vars => [Lifecycle!Next]_(Lifecycle!vars)
<1> SUFFICES ASSUME TypeOK, HandInv, RowsKnown, [Next]_vars
             PROVE  Lifecycle!Next \/ UNCHANGED <<ShownPhase, starters>>
  BY DEF Lifecycle!vars
<1>a. \A j \in Jobs : ShownPhase[j] = IF Answered(j) THEN "answered" ELSE status[j]
  BY DEF ShownPhase
<1>b. ASSUME NEW p \in Procs, NEW j \in Jobs, Works(p, at[p], j), at[p] \in InRun
      PROVE  /\ starters[j] \subseteq {p}
             /\ at[p] # "finally" => status[j] \in {"running"} \cup Finished
  <2>1. Tied(p, j) /\ Drives(p, j)
    BY <1>b DEF Tied, Drives, Works
  <2>2. \A q \in starters[j] : Tied(q, j) /\ q \in Procs
    BY DEF Tied, TypeOK
  <2> QED BY <2>1, <2>2 DEF HandInv, OneHand, DriverRow
<1>c. ASSUME UNCHANGED <<status, response, starters>>
      PROVE  UNCHANGED <<ShownPhase, starters>>
  BY <1>c, PhaseKept
<1>1. ASSUME NEW j \in Jobs, Submit(j) \/ SaveText(j) PROVE Lifecycle!Create(j)
  <2>1. CASE Submit(j)
    <3>1. Lifecycle!Becomes(j, IF response[j] # 0 THEN "answered" ELSE "queued")
      BY <2>1, PhaseMoves DEF Submit
    <3> QED
      BY <1>a, <2>1, <3>1 DEF Submit, Answered, RowsKnown, Lifecycle!Create, history
  <2>2. CASE SaveText(j)
    <3>1. Lifecycle!Becomes(j, "completed")
      BY <2>2, PhaseMoves DEF SaveText
    <3> QED
      BY <1>a, <2>2, <3>1 DEF SaveText, Answered, Finished, Lifecycle!Create, Lifecycle!Ended,
                              history
  <2> QED BY <1>1, <2>1, <2>2
<1>2. ASSUME NEW p \in Procs, Recover(p) PROVE \E lost \in SUBSET Jobs : Lifecycle!Abandon(lost)
  <2> WITNESS {j \in Jobs : Orphaned(p, j)} \in SUBSET Jobs
  <2> QED
    BY <1>2, <1>a DEF Recover, Recovered, Orphaned, Answered, ShownPhase, Lifecycle!Abandon,
                      history
<1>3. ASSUME NEW p \in Procs, Claim(p) PROVE \E j \in Jobs : Lifecycle!Take(j)
  <2>1. PICK j \in Jobs : status[j] = "queued" /\ status' = [status EXCEPT ![j] = "running"]
    BY <1>3 DEF Claim, Claimable
  <2>2. Lifecycle!Becomes(j, "running")
    BY <1>3, <2>1, PhaseMoves DEF Claim
  <2> WITNESS j \in Jobs
  <2> QED BY <1>3, <1>a, <2>1, <2>2 DEF Claim, Answered, Lifecycle!Take, history
<1>4. ASSUME NEW p \in Procs, StartTurn(p) PROVE \E j \in Jobs : Lifecycle!Pay(j)
  <2>1. PICK j \in Jobs : /\ Works(p, "turn", j)
                          /\ starters' = [starters EXCEPT ![j] = @ \cup {p}]
    BY <1>4 DEF StartTurn
  <2>2. starters[j] \subseteq {p} /\ status[j] \in {"running"} \cup Finished
    BY <1>b, <2>1 DEF Works, InRun
  <2>3. starters' = [starters EXCEPT ![j] = {p}]
    BY <2>1, <2>2
  <2> WITNESS j \in Jobs
  <2> QED BY <1>4, <1>a, <2>2, <2>3, PhaseKept
          DEF StartTurn, rows, Answered, Finished, Lifecycle!Pay, Lifecycle!Bill, Lifecycle!Ended
<1>5. ASSUME NEW p \in Procs, Resume(p) PROVE UNCHANGED <<ShownPhase, starters>>
  <2>1. PICK j \in Jobs : Works(p, "run", j) /\ response' = [response EXCEPT ![j] = 0]
    BY <1>5 DEF Resume
  <2>2. status[j] # "queued"
    BY <1>b, <2>1 DEF Works, InRun, Finished
  <2> QED BY <1>5, <2>1, <2>2 DEF Resume, ShownPhase, Answered, history, TypeOK
<1>6. ASSUME NEW p \in Procs, RunFails(p)
      PROVE  Lifecycle!Next \/ UNCHANGED <<ShownPhase, starters>>
  <2>1. PICK j \in Jobs :
          /\ \E place \in {"run", "turn", "consume"} : Works(p, place, j)
          /\ FinishRunning(j, "failed")
          /\ \/ UNCHANGED history
             \/ starters' = [starters EXCEPT ![j] = @ \cup {p}]
    BY <1>6 DEF RunFails
  <2>2. starters[j] \subseteq {p} /\ status[j] \in {"running"} \cup Finished
    BY <1>b, <2>1 DEF Works, InRun
  <2>3. \/ UNCHANGED starters
        \/ starters' = [starters EXCEPT ![j] = {p}]
    BY <2>1, <2>2 DEF history
  <2>4. starters' = [starters EXCEPT ![j] = {p}] => Lifecycle!Bill(j)
    BY <1>a, <2>2 DEF Answered, Finished, Lifecycle!Bill, Lifecycle!Ended
  <2>5. UNCHANGED response
    BY <1>6 DEF RunFails
  <2>6. CASE status[j] = "running"
    <3>1. Lifecycle!Becomes(j, "failed")
      BY <2>1, <2>5, <2>6, PhaseMoves DEF FinishRunning
    <3>2. Lifecycle!Finish(j)
      BY <1>a, <2>3, <2>4, <2>6, <3>1 DEF Answered, Lifecycle!Finish
    <3> QED BY <3>2 DEF Lifecycle!Next
  <2>7. CASE status[j] # "running"
    <3>1. UNCHANGED ShownPhase
      BY <2>1, <2>5, <2>7, PhaseKept DEF FinishRunning
    <3>2. Lifecycle!Pay(j) \/ UNCHANGED starters
      BY <2>3, <2>4, <3>1 DEF Lifecycle!Pay
    <3> QED BY <3>1, <3>2 DEF Lifecycle!Next
  <2> QED BY <2>6, <2>7
<1>7. ASSUME NEW p \in Procs, Ask(p)
      PROVE  Lifecycle!Next \/ UNCHANGED <<ShownPhase, starters>>
  <2>1. PICK j \in Jobs :
          IF status[j] = "running" THEN status' = [status EXCEPT ![j] = "needs_input"]
                                   ELSE UNCHANGED status
    BY <1>7 DEF Ask
  <2>2. UNCHANGED <<response, starters>>
    BY <1>7 DEF Ask, history
  <2>3. CASE status[j] = "running"
    <3>1. Lifecycle!Becomes(j, "needs_input")
      BY <2>1, <2>2, <2>3, PhaseMoves
    <3>2. Lifecycle!Pause(j)
      BY <1>a, <2>2, <2>3, <3>1 DEF Answered, Lifecycle!Pause
    <3> QED BY <3>2 DEF Lifecycle!Next
  <2>4. CASE status[j] # "running"
    BY <1>c, <2>1, <2>2, <2>4
  <2> QED BY <2>3, <2>4
<1>8. ASSUME NEW p \in Procs, Complete(p)
      PROVE  Lifecycle!Next \/ UNCHANGED <<ShownPhase, starters>>
  <2>1. PICK j \in Jobs : FinishRunning(j, "completed")
    BY <1>8 DEF Complete
  <2>2. UNCHANGED <<response, starters>>
    BY <1>8 DEF Complete, history
  <2>3. CASE status[j] = "running"
    <3>1. Lifecycle!Becomes(j, "completed")
      BY <2>1, <2>2, <2>3, PhaseMoves DEF FinishRunning
    <3>2. Lifecycle!Finish(j)
      BY <1>a, <2>2, <2>3, <3>1 DEF Answered, Lifecycle!Finish
    <3> QED BY <3>2 DEF Lifecycle!Next
  <2>4. CASE status[j] # "running"
    BY <1>c, <2>1, <2>2, <2>4 DEF FinishRunning
  <2> QED BY <2>3, <2>4
<1>9. ASSUME NEW h \in holds, HoldClaim(h) PROVE Lifecycle!Take(h.job) /\ h.job \in Jobs
  <2>1. h.job \in Jobs
    BY DEF TypeOK, Holds
  <2>2. Lifecycle!Becomes(h.job, "running")
    BY <1>9, <2>1, PhaseMoves DEF HoldClaim
  <2> QED BY <1>9, <1>a, <2>1, <2>2 DEF HoldClaim, Lifecycle!Take, history
<1>10. ASSUME NEW h \in holds, HoldError(h)
       PROVE  \E lost \in SUBSET Jobs : Lifecycle!Abandon(lost)
  <2>1. h.job \in Jobs /\ h.proc \in Procs /\ Tied(h.proc, h.job)
    BY DEF TypeOK, Holds, Tied
  <2>2. status[h.job] = "queued" => Answered(h.job)
    BY <2>1 DEF HandInv, HandTakes, Answered
  <2> DEFINE lost == {j \in {h.job} : status[j] \in {"needs_input", "queued"}}
  <2>4. lost \in SUBSET Jobs
    BY <2>1
  <2> WITNESS lost \in SUBSET Jobs
  <2>3. status' = [status EXCEPT ![h.job] = IF @ \in {"needs_input", "queued"} THEN "failed" ELSE @]
        /\ UNCHANGED <<response, starters>>
    BY <1>10 DEF HoldError, history
  <2> QED BY <1>a, <2>1, <2>2, <2>3 DEF ShownPhase, Answered, Lifecycle!Abandon, TypeOK
<1>11. ASSUME NEW p \in Procs, NEW j \in Jobs, CancelWrite(p, j) PROVE Lifecycle!Cancel(j)
  <2>1. status[j] # "absent"
    BY <1>11 DEF CancelWrite, RowsKnown
  <2>2. Lifecycle!Becomes(j, "cancelled")
    BY <1>11, PhaseMoves DEF CancelWrite
  <2> QED BY <1>11, <1>a, <2>1, <2>2 DEF CancelWrite, Lifecycle!Cancel, history
<1>12. ASSUME NEW p \in Procs, NEW j \in Jobs, RespondRead(p, j)
       PROVE  Lifecycle!Next \/ UNCHANGED <<ShownPhase, starters>>
  <2>1. UNCHANGED <<response, starters>>
    BY <1>12 DEF RespondRead, history
  <2>2. CASE status' = status
    BY <1>c, <2>1, <2>2
  <2>3. CASE status' = Recovered(p)
    <3>1. Lifecycle!Abandon({i \in Jobs : Orphaned(p, i)})
      BY <1>a, <2>1, <2>3 DEF Recovered, Orphaned, Answered, ShownPhase, Lifecycle!Abandon
    <3> QED BY <3>1 DEF Lifecycle!Next
  <2> QED BY <1>12, <2>2, <2>3 DEF RespondRead
<1>13. ASSUME NEW r \in replies, RespondWrite(r)
       PROVE  Lifecycle!Next \/ UNCHANGED <<ShownPhase, starters>>
  <2>1. r.job \in Jobs /\ r.answer # 0
    BY DEF TypeOK, Replies
  <2>2. CASE status[r.job] = "needs_input"
    <3>1. /\ status' = [status EXCEPT ![r.job] = "queued"]
          /\ response' = [response EXCEPT ![r.job] = r.answer]
          /\ UNCHANGED starters
      BY <1>13, <2>2 DEF RespondWrite, history
    <3>2. Lifecycle!Becomes(r.job, "answered")
      BY <2>1, <3>1 DEF ShownPhase, Answered, Lifecycle!Becomes, TypeOK
    <3>3. Lifecycle!Answer(r.job)
      BY <1>a, <2>1, <2>2, <3>1, <3>2 DEF Answered, Lifecycle!Answer
    <3> QED BY <2>1, <3>3 DEF Lifecycle!Next
  <2>3. CASE status[r.job] # "needs_input"
    <3>1. UNCHANGED <<status, response, starters>>
      BY <1>13, <2>1, <2>3 DEF RespondWrite, history, TypeOK
    <3> QED BY <1>c, <3>1
  <2> QED BY <2>2, <2>3
<1>14. ASSUME NEW p \in Procs,
              StartWorker(p) \/ Release(p) \/ OpenSession(p) \/ SeeStopped(p) \/ Heartbeat(p)
                \/ Leave(p) \/ Crash(p)
       PROVE  UNCHANGED <<status, response, starters>>
  BY <1>14 DEF StartWorker, Release, OpenSession, SeeStopped, Heartbeat, Leave, Crash, rows,
               history
<1>15. ASSUME NEW h \in holds,
              HoldCheck(h) \/ HoldBusy(h) \/ HoldLock(h) \/ HoldRetry(h) \/ HoldEnd(h)
       PROVE  UNCHANGED <<status, response, starters>>
  BY <1>15 DEF HoldCheck, HoldBusy, HoldLock, HoldRetry, HoldEnd, rows, history
<1>16. ASSUME NEW p \in Procs, NEW j \in Jobs, Expire(j) \/ CancelRead(p, j)
       PROVE  UNCHANGED <<status, response, starters>>
  BY <1>16 DEF Expire, CancelRead, rows, history
<1>17. CASE UNCHANGED vars
  BY <1>c, <1>17 DEF vars, rows, history
<1>18. ASSUME NEW j \in Jobs, Expire(j) PROVE UNCHANGED <<status, response, starters>>
  BY <1>18 DEF Expire, history
<1> QED
  BY <1>1, <1>2, <1>3, <1>4, <1>5, <1>6, <1>7, <1>8, <1>9, <1>10, <1>11, <1>12, <1>13, <1>14,
     <1>15, <1>16, <1>17, <1>18, <1>c
  DEF Next, Worker, Run, Settle, Hold, Lifecycle!Next

\* A row that exists stays, so a cancellation in flight has a row to write, and
\* only a row that exists gets an answer.
LEMMA KnownStep ==
  TypeOK /\ HandInv /\ RowsKnown /\ [Next]_vars => RowsKnown'
<1> SUFFICES ASSUME TypeOK, HandInv, RowsKnown, [Next]_vars PROVE RowsKnown'
  OBVIOUS
<1>1. \A j \in Jobs : status[j] # "absent" => status'[j] # "absent"
  <2> SUFFICES ASSUME NEW j \in Jobs, ShownPhase[j] # "absent"
               PROVE  ShownPhase'[j] # "absent"
    BY DEF ShownPhase, Answered
  <2> QED
    BY LifecycleStep
    DEF Lifecycle!vars, Lifecycle!Next, Lifecycle!Create, Lifecycle!Take, Lifecycle!Pay,
        Lifecycle!Pause, Lifecycle!Answer, Lifecycle!Finish, Lifecycle!Abandon,
        Lifecycle!Cancel, Lifecycle!Becomes, ShownPhase
<1>2. \A c \in cancels' : c \in cancels \/ (c \in Procs \X Jobs /\ status[c[2]] \in Active)
  <2>1. ASSUME NEW p \in Procs, NEW j \in Jobs, CancelRead(p, j)
        PROVE  cancels' \subseteq cancels \cup {<<p, j>>} /\ status[j] \in Active
    BY <2>1 DEF CancelRead
  <2>2. ASSUME NEW p \in Procs, Worker(p) PROVE UNCHANGED cancels
    BY <2>2 DEF Worker, StartWorker, Recover, Claim, Release, Run, OpenSession, StartTurn, Resume,
                RunFails, Heartbeat, Settle, SeeStopped, Ask, Complete, Leave, calls
  <2>3. ASSUME NEW h \in holds, Hold(h) PROVE UNCHANGED cancels
    BY <2>3 DEF Hold, HoldCheck, HoldBusy, HoldLock, HoldClaim, HoldRetry, HoldEnd, HoldError,
                calls
  <2>4. ASSUME NEW p \in Procs, NEW j \in Jobs, CancelWrite(p, j) \/ RespondRead(p, j)
        PROVE  cancels' \subseteq cancels
    BY <2>4 DEF CancelWrite, RespondRead
  <2>6. ASSUME NEW p \in Procs, Crash(p) PROVE cancels' \subseteq cancels
    BY <2>6 DEF Crash
  <2>7. ASSUME NEW j \in Jobs, Submit(j) \/ SaveText(j) \/ Expire(j) PROVE UNCHANGED cancels
    BY <2>7 DEF Submit, SaveText, Expire, calls
  <2>5. ASSUME NEW r \in replies, RespondWrite(r) PROVE UNCHANGED cancels
    BY <2>5 DEF RespondWrite
  <2>8. CASE UNCHANGED vars
    BY <2>8 DEF vars, calls
  <2> QED BY <2>1, <2>2, <2>3, <2>4, <2>5, <2>6, <2>7, <2>8 DEF Next
<1>3. \A j \in Jobs : status[j] = "absent" => response'[j] = response[j] \/ response'[j] = 0
  <2>1. ASSUME NEW r \in replies, RespondWrite(r)
        PROVE  \A j \in Jobs : status[j] = "absent" => response'[j] = response[j]
    BY <2>1 DEF RespondWrite, TypeOK, Replies
  <2>2. ASSUME NEW p \in Procs, Resume(p)
        PROVE  \A j \in Jobs : response'[j] = response[j] \/ response'[j] = 0
    BY <2>2 DEF Resume, TypeOK
  <2>3. ASSUME NEW p \in Procs, Worker(p), ~Resume(p) PROVE UNCHANGED response
    BY <2>3 DEF Worker, StartWorker, Recover, Claim, Release, Run, OpenSession, StartTurn,
                RunFails, Heartbeat, Settle, SeeStopped, Ask, Complete, Leave, rows
  <2>4. ASSUME NEW h \in holds, Hold(h) PROVE UNCHANGED response
    BY <2>4 DEF Hold, HoldCheck, HoldBusy, HoldLock, HoldClaim, HoldRetry, HoldEnd, HoldError,
                rows
  <2>5. ASSUME NEW p \in Procs, NEW j \in Jobs,
               CancelRead(p, j) \/ CancelWrite(p, j) \/ RespondRead(p, j)
        PROVE  UNCHANGED response
    BY <2>5 DEF CancelRead, CancelWrite, RespondRead, rows
  <2>6. ASSUME NEW p \in Procs, Crash(p) PROVE UNCHANGED response
    BY <2>6 DEF Crash, rows
  <2>7. ASSUME NEW j \in Jobs, Submit(j) \/ SaveText(j) \/ Expire(j) PROVE UNCHANGED response
    BY <2>7 DEF Submit, SaveText, Expire
  <2>8. CASE UNCHANGED vars
    BY <2>8 DEF vars, rows
  <2> QED BY <2>1, <2>2, <2>3, <2>4, <2>5, <2>6, <2>7, <2>8 DEF Next
<1> QED BY <1>1, <1>2, <1>3 DEF RowsKnown, TypeOK, Active

\* So both are known of every row that can be reached.
LEMMA KnownHolds == Spec => []RowsKnown
<1>1. Init => RowsKnown
  BY DEF Init, RowsKnown
<1> QED
  BY <1>1, KnownStep, TypeCorrect, HandCorrect, PTL DEF Spec

\* The queue, with any number of processes that crash and leases that expire,
\* implements the lifecycle of a job.
THEOREM KeepsLifecycleHolds == Spec => KeepsLifecycle
<1>1. Init => Lifecycle!Init
  BY DEF Init, Lifecycle!Init, Lifecycle!Ended, ShownPhase, Answered
<1>2. Spec => []RowsKnown
  BY KnownHolds
<1> QED
  BY <1>1, <1>2, LifecycleStep, TypeCorrect, HandCorrect, PTL DEF Spec, KeepsLifecycle,
     Lifecycle!Spec

-----------------------------------------------------------------------------
(* A question on display can be answered.                                  *)

\* A session was opened for the turn that its process requested last, or is
\* about to request, unless that request failed and the session is being closed.
Opening(p, j) == at[p] = "turn" /\ job[p] = j
Closing(p, j) == at[p] = "finally" /\ job[p] = j /\ status[j] \in Finished

SessionInv ==
  \A p \in Procs, j \in Jobs :
    session[p][j] # 0 =>
      IF Opening(p, j) THEN session[p][j] = turns[j] + 1
      ELSE Closing(p, j) \/ (session[p][j] = turns[j] /\ p \in starters[j])

\* A turn of a running row is consumed from a session.
ConsumeInv ==
  \A p \in Procs, j \in Jobs :
    at[p] = "consume" /\ job[p] = j /\ status[j] = "running" => session[p][j] # 0

\* Sessions stay as they are known when no turn is requested, none appears or
\* changes its number, and no thread comes to the place of an opened session.
LEMMA SessionKept ==
  ASSUME SessionInv, UNCHANGED <<turns, starters>>,
         \A p \in Procs, j \in Jobs : session'[p][j] # 0 =>
           /\ session'[p][j] = session[p][j]
           /\ Opening(p, j)' <=> Opening(p, j)
           /\ Closing(p, j) => Closing(p, j)'
  PROVE  SessionInv'
BY DEF SessionInv

\* Every action keeps what is known of the sessions.
LEMMA SessionStep ==
  TypeOK /\ TypeOK' /\ HandInv /\ SessionInv /\ [Next]_vars => SessionInv'
<1> SUFFICES ASSUME TypeOK, TypeOK', HandInv, SessionInv, [Next]_vars PROVE SessionInv'
  OBVIOUS
<1> USE DEF InRun, Free, Finished, history, Opening, Closing
<1>1. ASSUME NEW j \in Jobs, Submit(j) \/ SaveText(j) \/ Expire(j) PROVE SessionInv'
  BY <1>1, SessionKept DEF Submit, SaveText, Expire, memory, worker, TypeOK
<1>3. ASSUME NEW p \in Procs, Crash(p) PROVE SessionInv'
  BY <1>3, SessionKept DEF Crash, rows, TypeOK
<1>4. ASSUME NEW p \in Procs,
             StartWorker(p) \/ Release(p) \/ Recover(p) \/ Resume(p) \/ Heartbeat(p)
               \/ SeeStopped(p)
      PROVE  SessionInv'
  <2>1. UNCHANGED <<session, history>>
    BY <1>4 DEF StartWorker, Release, Recover, Resume, Heartbeat, SeeStopped, memory
  <2>2. at[p] \notin {"turn", "finally"} /\ at'[p] # "turn"
    BY <1>4 DEF StartWorker, Release, Recover, Resume, Heartbeat, SeeStopped, Works, MoveTo,
                worker, TypeOK
  <2>3. \A q \in Procs : q # p => at'[q] = at[q] /\ job'[q] = job[q]
    BY <1>4 DEF StartWorker, Release, Recover, Resume, Heartbeat, SeeStopped, MoveTo, worker,
                TypeOK
  <2>4. \A j \in Jobs : status[j] \in Finished => status'[j] = status[j]
    BY <1>4 DEF StartWorker, Release, Recover, Recovered, Orphaned, Resume, Heartbeat,
                SeeStopped, rows
  <2> QED BY <2>1, <2>2, <2>3, <2>4, SessionKept
<1>5. ASSUME NEW p \in Procs, Claim(p) PROVE SessionInv'
  <2>1. PICK j \in Jobs : status[j] = "queued" /\ status' = [status EXCEPT ![j] = "running"]
    BY <1>5 DEF Claim, Claimable
  <2>2. UNCHANGED <<session, history>> /\ at[p] = "claim" /\ at'[p] = "run"
    BY <1>5 DEF Claim, MoveTo, memory, TypeOK
  <2>3. \A q \in Procs : q # p => at'[q] = at[q] /\ job'[q] = job[q]
    BY <1>5 DEF Claim, MoveTo, TypeOK
  <2>4. \A i \in Jobs : status[i] \in Finished => status'[i] = status[i]
    BY <2>1 DEF TypeOK
  <2> QED BY <2>2, <2>3, <2>4, SessionKept
<1>6. ASSUME NEW p \in Procs, OpenSession(p) PROVE SessionInv'
  <2>1. PICK j \in Jobs : /\ Works(p, "run", j) /\ session[p][j] = 0
                          /\ session' = [session EXCEPT ![p][j] = turns[j] + 1]
    BY <1>6 DEF OpenSession
  <2> QED BY <1>6, <2>1 DEF OpenSession, Works, MoveTo, rows, history, SessionInv, TypeOK
<1>7. ASSUME NEW p \in Procs, StartTurn(p) PROVE SessionInv'
  <2>1. PICK j \in Jobs : /\ Works(p, "turn", j) /\ session[p][j] # 0
                          /\ turns' = [turns EXCEPT ![j] = @ + 1]
                          /\ starters' = [starters EXCEPT ![j] = @ \cup {p}]
    BY <1>7 DEF StartTurn
  <2>2. \A q \in Procs : session[q][j] # 0 => q = p
    <3>1. Tied(p, j)
      BY <2>1 DEF Tied, Drives, Works
    <3>2. \A q \in Procs : session[q][j] # 0 => Tied(q, j)
      BY DEF SessionInv, Tied, Drives
    <3> QED BY <3>1, <3>2 DEF HandInv, OneHand
  <2> QED BY <1>7, <2>1, <2>2 DEF StartTurn, Works, MoveTo, rows, memory, SessionInv, TypeOK
<1>8. ASSUME NEW p \in Procs, RunFails(p) PROVE SessionInv'
  <2>1. PICK j \in Jobs :
          /\ \E place \in {"run", "turn", "consume"} : Works(p, place, j)
          /\ FinishRunning(j, "failed")
          /\ \/ UNCHANGED history
             \/ /\ at[p] = "turn" /\ session[p][j] # 0
                /\ turns' = [turns EXCEPT ![j] = @ + 1]
                /\ starters' = [starters EXCEPT ![j] = @ \cup {p}]
    BY <1>8 DEF RunFails
  <2>2. /\ UNCHANGED <<session, job>> /\ at' = [at EXCEPT ![p] = "finally"]
        /\ job[p] = j /\ at[p] \in {"run", "turn", "consume"}
    BY <1>8, <2>1 DEF RunFails, MoveTo, memory, Works
  <2>3. status'[j] \in Finished /\ \A i \in Jobs : i # j => status'[i] = status[i]
    BY <2>1, <2>2 DEF FinishRunning, HandInv, DriverRow, Drives, TypeOK
  <2>4. Closing(p, j)'
    BY <2>2, <2>3 DEF TypeOK
  <2>5. \A q \in Procs : session[q][j] # 0 => q = p
    <3>1. Tied(p, j)
      BY <2>2 DEF Tied, Drives
    <3>2. \A q \in Procs : session[q][j] # 0 => Tied(q, j)
      BY DEF SessionInv, Tied, Drives
    <3> QED BY <3>1, <3>2 DEF HandInv, OneHand
  <2>6. \A i \in Jobs : i # j => turns'[i] = turns[i] /\ starters'[i] = starters[i]
    BY <2>1 DEF history, TypeOK
  <2> SUFFICES ASSUME NEW q \in Procs, NEW i \in Jobs, session[q][i] # 0
               PROVE  IF Opening(q, i)' THEN session[q][i] = turns'[i] + 1
                      ELSE \/ Closing(q, i)'
                           \/ session[q][i] = turns'[i] /\ q \in starters'[i]
    BY <2>2 DEF SessionInv
  <2>7. CASE i = j
    BY <2>2, <2>4, <2>5, <2>7 DEF TypeOK
  <2>8. CASE i # j
    BY <2>2, <2>3, <2>6, <2>8 DEF SessionInv, TypeOK
  <2> QED BY <2>7, <2>8
<1>9. ASSUME NEW p \in Procs, Ask(p) PROVE SessionInv'
  <2>1. PICK j \in Jobs : /\ Works(p, "consume", j)
                          /\ IF status[j] = "running"
                             THEN status' = [status EXCEPT ![j] = "needs_input"]
                             ELSE UNCHANGED status
    BY <1>9 DEF Ask
  <2> QED BY <1>9, <2>1, SessionKept DEF Ask, Works, MoveTo, TypeOK
<1>10. ASSUME NEW p \in Procs, Complete(p) PROVE SessionInv'
  <2>1. PICK j \in Jobs : Works(p, "consume", j) /\ FinishRunning(j, "completed")
    BY <1>10 DEF Complete
  <2> QED BY <1>10, <2>1, SessionKept DEF Complete, Works, MoveTo, FinishRunning, memory, TypeOK
<1>11. ASSUME NEW p \in Procs, Leave(p) PROVE SessionInv'
  <2>1. PICK j \in Jobs :
          /\ Works(p, "finally", j)
          /\ IF status[j] = "needs_input" THEN UNCHANGED memory ELSE DropSession(p, j)
    BY <1>11 DEF Leave
  <2>2. UNCHANGED <<status, turns, starters>> /\ at[p] = "finally" /\ job[p] = j
    BY <1>11, <2>1 DEF Leave, Works, rows
  <2>3. /\ at'[p] \notin {"turn", "finally"}
        /\ \A q \in Procs : q # p => at'[q] = at[q] /\ job'[q] = job[q]
    BY <1>11 DEF Leave, MoveTo, TypeOK
  <2>4. \A q \in Procs, i \in Jobs : session'[q][i] # 0 =>
          /\ session'[q][i] = session[q][i]
          /\ q = p /\ i = j => status[j] = "needs_input"
    BY <2>1 DEF DropSession, memory, TypeOK
  <2> QED BY <2>2, <2>3, <2>4, SessionKept
<1>12. ASSUME NEW h \in holds, Hold(h) PROVE SessionInv'
  <2>1. h.proc \in Procs /\ h.job \in Jobs
    BY DEF TypeOK, Holds
  <2>2. UNCHANGED history
    BY <1>12 DEF Hold, HoldCheck, HoldBusy, HoldLock, HoldClaim, HoldRetry, HoldEnd, HoldError
  <2>3. \A q \in Procs, i \in Jobs : session'[q][i] # 0 => session'[q][i] = session[q][i]
    <3>1. UNCHANGED session \/ DropSession(h.proc, h.job)
      BY <1>12 DEF Hold, HoldCheck, HoldBusy, HoldLock, HoldClaim, HoldRetry, HoldEnd, HoldError,
                   memory
    <3> QED BY <2>1, <3>1, DropOnly
  <2>4. h.place = "locked" => at[h.proc] = "holdclaim"
    BY DEF HandInv, LockHeld
  <2>5. \/ UNCHANGED <<at, job>>
        \/ /\ at[h.proc] \notin {"turn", "finally"} /\ at'[h.proc] \notin {"turn", "finally"}
           /\ \A q \in Procs : q # h.proc => at'[q] = at[q] /\ job'[q] = job[q]
    <3>1. CASE HoldCheck(h) \/ HoldBusy(h) \/ HoldEnd(h)
      BY <3>1 DEF HoldCheck, HoldBusy, HoldEnd, worker
    <3>2. CASE HoldLock(h)
      BY <2>1, <3>2 DEF HoldLock, TypeOK
    <3>3. CASE HoldClaim(h) \/ HoldRetry(h)
      BY <2>1, <2>4, <3>3 DEF HoldClaim, HoldRetry, MoveTo, TypeOK
    <3>4. CASE HoldError(h)
      BY <2>1, <2>4, <3>4 DEF HoldError, TypeOK
    <3> QED BY <1>12, <3>1, <3>2, <3>3, <3>4 DEF Hold
  <2>6. \A i \in Jobs : status[i] \in Finished => status'[i] = status[i]
    BY <1>12, <2>1 DEF Hold, HoldCheck, HoldBusy, HoldLock, HoldClaim, HoldRetry, HoldEnd,
                       HoldError, Answered, rows, TypeOK
  <2> QED BY <2>2, <2>3, <2>5, <2>6, SessionKept
<1>13. ASSUME NEW p \in Procs, NEW j \in Jobs, CancelRead(p, j) \/ RespondRead(p, j)
       PROVE  SessionInv'
  BY <1>13, SessionKept DEF CancelRead, RespondRead, Recovered, Orphaned, rows, memory, worker,
                            TypeOK
<1>14. ASSUME NEW p \in Procs, NEW j \in Jobs, CancelWrite(p, j) PROVE SessionInv'
  BY <1>14, SessionKept DEF CancelWrite, DropSession, worker, TypeOK
<1>15. ASSUME NEW r \in replies, RespondWrite(r) PROVE SessionInv'
  BY <1>15, SessionKept DEF RespondWrite, memory, worker, TypeOK, Replies
<1>16. CASE UNCHANGED vars
  BY <1>16, SessionKept DEF vars, rows, memory, worker
<1> QED
  BY <1>1, <1>3, <1>4, <1>5, <1>6, <1>7, <1>8, <1>9, <1>10, <1>11, <1>12, <1>13, <1>14, <1>15,
     <1>16
  DEF Next, Worker, Run, Settle

\* Only the thread at the place of an opened session goes on to consume a turn,
\* or one that resumes it; and a session under it stays while its row runs.
LEMMA ConsumeStep ==
  TypeOK /\ TypeOK' /\ HandInv /\ ConsumeInv /\ [Next]_vars => ConsumeInv'
<1> SUFFICES ASSUME TypeOK, TypeOK', HandInv, ConsumeInv, [Next]_vars,
                    NEW p \in Procs, NEW j \in Jobs,
                    at'[p] = "consume", job'[p] = j, status'[j] = "running"
             PROVE  session'[p][j] # 0
  BY DEF ConsumeInv
<1> USE DEF InRun, Free, Finished
<1>a. at[p] = "consume" /\ job[p] = j /\ status[j] = "running" => session[p][j] # 0
  BY DEF ConsumeInv
<1>b. at[p] = "consume" /\ job[p] = j => status[j] \in {"running"} \cup Finished
  BY DEF HandInv, DriverRow, Drives
<1>1. ASSUME NEW i \in Jobs, Submit(i) \/ SaveText(i) \/ Expire(i) PROVE session'[p][j] # 0
  BY <1>1, <1>a, <1>b DEF Submit, SaveText, Expire, memory, worker, TypeOK
<1>2. ASSUME NEW q \in Procs, Crash(q) PROVE session'[p][j] # 0
  BY <1>2, <1>a DEF Crash, rows, TypeOK
<1>3. ASSUME NEW q \in Procs,
             StartWorker(q) \/ Recover(q) \/ Claim(q) \/ Release(q) \/ OpenSession(q)
               \/ RunFails(q) \/ SeeStopped(q) \/ Heartbeat(q) \/ Ask(q) \/ Complete(q)
      PROVE  session'[p][j] # 0
  <2>1. q # p \/ Heartbeat(q)
    BY <1>3 DEF StartWorker, Recover, Claim, Release, OpenSession, RunFails, SeeStopped, Ask,
                Complete, MoveTo, TypeOK
  <2>2. at[p] = "consume" /\ job[p] = j
    BY <1>3, <2>1 DEF StartWorker, Recover, Claim, Release, OpenSession, RunFails, SeeStopped,
                      Heartbeat, Ask, Complete, MoveTo, worker, TypeOK
  <2>3. status[j] = "running"
    BY <1>3, <1>b, <2>2 DEF StartWorker, Recover, Recovered, Orphaned, Claim, Claimable, Release,
                            OpenSession, RunFails, SeeStopped, Heartbeat, Ask, Complete,
                            FinishRunning, rows, TypeOK
  <2>4. session'[p][j] = session[p][j] \/ OpenSession(q)
    BY <1>3 DEF StartWorker, Recover, Claim, Release, RunFails, SeeStopped, Heartbeat, Ask,
                Complete, memory
  <2>5. OpenSession(q) => session'[p][j] = session[p][j]
    BY <2>1 DEF OpenSession, Heartbeat, Works, TypeOK
  <2> QED BY <1>a, <2>2, <2>3, <2>4, <2>5
<1>4. ASSUME NEW q \in Procs, StartTurn(q) \/ Resume(q) PROVE session'[p][j] # 0
  <2>1. UNCHANGED <<session, job, status>>
    BY <1>4 DEF StartTurn, Resume, memory, rows
  <2>2. CASE q = p
    BY <1>4, <2>1, <2>2 DEF StartTurn, Resume, Works
  <2>3. CASE q # p
    BY <1>4, <1>a, <2>1, <2>3 DEF StartTurn, Resume, MoveTo, TypeOK
  <2> QED BY <2>2, <2>3
<1>5. ASSUME NEW q \in Procs, Leave(q) PROVE session'[p][j] # 0
  <2>1. q # p /\ at[p] = "consume" /\ job[p] = j /\ UNCHANGED status
    BY <1>5 DEF Leave, MoveTo, rows, TypeOK
  <2>2. session'[p] = session[p]
    BY <1>5, <2>1 DEF Leave, DropSession, memory, TypeOK
  <2> QED BY <1>a, <2>1, <2>2
<1>6. ASSUME NEW h \in holds, Hold(h) PROVE session'[p][j] # 0
  <2>1. h.proc \in Procs /\ h.job \in Jobs
    BY DEF TypeOK, Holds
  <2>2. at[p] = "consume" /\ job[p] = j
    BY <1>6, <2>1 DEF Hold, HoldCheck, HoldBusy, HoldLock, HoldClaim, HoldRetry, HoldEnd,
                      HoldError, MoveTo, worker, HandInv, LockHeld, TypeOK
  <2>3. status[j] = "running"
    BY <1>6, <1>b, <2>1, <2>2 DEF Hold, HoldCheck, HoldBusy, HoldLock, HoldClaim, HoldRetry,
                                  HoldEnd, HoldError, Answered, rows, TypeOK
  <2>4. UNCHANGED session \/ (status[h.job] \notin Active /\ DropSession(h.proc, h.job))
    BY <1>6 DEF Hold, HoldCheck, HoldBusy, HoldLock, HoldClaim, HoldRetry, HoldEnd, HoldError,
                memory
  <2>5. session'[p][j] = session[p][j]
    BY <2>1, <2>3, <2>4, DropOnly DEF Active
  <2> QED BY <1>a, <2>2, <2>3, <2>5
<1>7. ASSUME NEW q \in Procs, NEW i \in Jobs, CancelRead(q, i) \/ RespondRead(q, i)
      PROVE  session'[p][j] # 0
  BY <1>7, <1>a DEF CancelRead, RespondRead, Recovered, Orphaned, rows, memory, worker, TypeOK
<1>8. ASSUME NEW q \in Procs, NEW i \in Jobs, CancelWrite(q, i) PROVE session'[p][j] # 0
  <2>1. i # j /\ UNCHANGED <<at, job>> /\ status[j] = "running"
    BY <1>8 DEF CancelWrite, worker, TypeOK
  <2> QED BY <1>8, <1>a, <2>1 DEF CancelWrite, DropSession, TypeOK
<1>9. ASSUME NEW r \in replies, RespondWrite(r) PROVE session'[p][j] # 0
  BY <1>9, <1>a DEF RespondWrite, memory, worker, TypeOK, Replies
<1>10. CASE UNCHANGED vars
  BY <1>10, <1>a DEF vars, rows, memory, worker
<1> QED
  BY <1>1, <1>2, <1>3, <1>4, <1>5, <1>6, <1>7, <1>8, <1>9, <1>10 DEF Next, Worker, Run, Settle

\* A question that was on display stays answerable when its session, the request
\* that is pending there and a thread that watches stay.
LEMMA HeldKept ==
  ASSUME QuestionIsHeld, owner \in [Jobs -> Procs \cup {None}],
         \A j \in Jobs : status'[j] = "needs_input" /\ owner'[j] \in alive' =>
           /\ status[j] = "needs_input" /\ owner'[j] = owner[j] /\ owner[j] \in alive
           /\ session'[owner[j]][j] = session[owner[j]][j]
           /\ j \in pending[owner[j]] => j \in pending'[owner[j]],
         \A p \in Procs, j \in Jobs :
           status'[j] = "needs_input" /\ p \in alive' /\ Watched(p, j) => Watched(p, j)',
         alive \subseteq Procs
  PROVE  QuestionIsHeld'
BY DEF QuestionIsHeld

\* Every action keeps the question on display answerable: it is Ask that
\* displays it, with the session of a running row, and it is not in the
\* finally block, nor by a holding thread, that a waiting row's session goes.
LEMMA HeldStep ==
  /\ TypeOK /\ TypeOK' /\ HandInv /\ SessionInv /\ ConsumeInv /\ QuestionIsHeld
  /\ [Next]_vars
  => QuestionIsHeld'
<1> SUFFICES ASSUME TypeOK, TypeOK', HandInv, SessionInv, ConsumeInv, QuestionIsHeld,
                    [Next]_vars
             PROVE  QuestionIsHeld'
  OBVIOUS
<1> USE DEF InRun, Free
<1>a. owner \in [Jobs -> Procs \cup {None}] /\ alive \subseteq Procs
  BY DEF TypeOK
<1>b. \A p \in Procs, j \in Jobs :
        job[p] = j /\ at[p] \in {"run", "turn", "consume"} => status[j] # "needs_input"
  BY DEF HandInv, DriverRow, Drives, Finished
<1>w. ASSUME UNCHANGED <<holds, session>>
      PROVE  \A p \in Procs, j \in Jobs : Watched(p, j) => Watched(p, j)'
  BY <1>w DEF Watched
<1>1. ASSUME NEW j \in Jobs, Submit(j) \/ SaveText(j) \/ Expire(j) PROVE QuestionIsHeld'
  BY <1>1, <1>a, <1>w, HeldKept DEF Submit, SaveText, Expire, memory, TypeOK
<1>2. ASSUME NEW p \in Procs, Crash(p) PROVE QuestionIsHeld'
  <2>1. \A q \in Procs, j \in Jobs : q \in alive' /\ Watched(q, j) => Watched(q, j)'
    BY <1>2 DEF Crash, Watched, TypeOK
  <2> QED BY <1>2, <1>a, <2>1, HeldKept DEF Crash, rows, TypeOK
<1>3. ASSUME NEW p \in Procs, StartWorker(p) \/ Release(p) \/ Recover(p) \/ Claim(p)
      PROVE  QuestionIsHeld'
  <2>1. UNCHANGED <<holds, memory, alive>>
    BY <1>3 DEF StartWorker, Release, Recover, Claim
  <2>2. \A j \in Jobs : status'[j] = "needs_input" =>
                          status[j] = "needs_input" /\ owner'[j] = owner[j]
    BY <1>3 DEF StartWorker, Release, Recover, Recovered, Orphaned, Claim, rows, TypeOK
  <2> QED BY <1>a, <1>w, <2>1, <2>2, HeldKept DEF memory
<1>4. ASSUME NEW p \in Procs,
             StartTurn(p) \/ RunFails(p) \/ SeeStopped(p) \/ Heartbeat(p) \/ Complete(p)
      PROVE  QuestionIsHeld'
  <2>1. UNCHANGED <<holds, memory, alive>>
    BY <1>4 DEF StartTurn, RunFails, SeeStopped, Heartbeat, Complete
  <2>2. \A j \in Jobs : status'[j] = "needs_input" =>
                          status[j] = "needs_input" /\ owner'[j] = owner[j]
    BY <1>4 DEF StartTurn, RunFails, FinishRunning, SeeStopped, Heartbeat, Complete, rows, TypeOK
  <2> QED BY <1>a, <1>w, <2>1, <2>2, HeldKept DEF memory
<1>5. ASSUME NEW p \in Procs, OpenSession(p) \/ Resume(p) PROVE QuestionIsHeld'
  <2>1. PICK j \in Jobs :
          /\ Works(p, "run", j)
          /\ session' = [session EXCEPT ![p][j] = turns[j] + 1] \/ UNCHANGED session
          /\ pending' = [pending EXCEPT ![p] = @ \ {j}] \/ UNCHANGED pending
    BY <1>5 DEF OpenSession, Resume
  <2>2. UNCHANGED <<status, owner, alive, holds>> /\ status[j] # "needs_input"
    BY <1>5, <1>b, <2>1 DEF OpenSession, Resume, Works, rows
  <2>3. \A q \in Procs, i \in Jobs : i # j =>
          session'[q][i] = session[q][i] /\ (i \in pending[q] => i \in pending'[q])
    BY <2>1 DEF TypeOK
  <2>4. \A q \in Procs, i \in Jobs : i # j /\ Watched(q, i) => Watched(q, i)'
    BY <2>2, <2>3 DEF Watched
  <2> QED BY <1>a, <2>2, <2>3, <2>4, HeldKept
<1>6. ASSUME NEW p \in Procs, Ask(p) PROVE QuestionIsHeld'
  <2>1. PICK j \in Jobs :
          /\ Works(p, "consume", j)
          /\ pending' = [pending EXCEPT ![p] = IF session[p][j] # 0 THEN @ \cup {j} ELSE @]
          /\ IF status[j] = "running"
             THEN status' = [status EXCEPT ![j] = "needs_input"]
             ELSE UNCHANGED status
          /\ holds' = holds \cup {HoldOf(p, j, asked[j] + 1, "top")}
    BY <1>6 DEF Ask
  <2>2. UNCHANGED <<session, owner, alive>>
    BY <1>6 DEF Ask
  <2>3. \A q \in Procs, i \in Jobs : /\ Watched(q, i) => Watched(q, i)'
                                     /\ i \in pending[q] => i \in pending'[q]
    BY <2>1, <2>2 DEF Watched, TypeOK
  <2>4. CASE status[j] = "running"
    <3>1. owner[j] = p
      BY <2>1, <2>4 DEF Works, HandInv, HandOwns, Tied, Drives, Active
    <3>2. session[p][j] # 0 /\ session[p][j] = turns[j]
      BY <2>1, <2>4 DEF Works, ConsumeInv, SessionInv, Opening, Closing
    <3>3. Watched(p, j)'
      <4> DEFINE h == HoldOf(p, j, asked[j] + 1, "top")
      <4>1. h \in holds' /\ h.proc = p /\ h.job = j /\ h.session = session'[p][j]
            /\ h.place = "top"
        BY <2>1, <2>2, <3>2 DEF HoldOf
      <4> HIDE DEF h
      <4> QED BY <4>1 DEF Watched
    <3>4. j \in pending'[p]
      BY <2>1, <3>2 DEF TypeOK
    <3>5. \A i \in Jobs : i # j => status'[i] = status[i]
      BY <2>1, <2>4 DEF TypeOK
    <3> SUFFICES ASSUME NEW i \in Jobs, status'[i] = "needs_input", owner[i] \in alive
                 PROVE  /\ session[owner[i]][i] # 0 /\ i \in pending'[owner[i]]
                        /\ Watched(owner[i], i)'
      BY <2>2 DEF QuestionIsHeld
    <3>6. CASE i = j
      BY <2>2, <3>1, <3>2, <3>3, <3>4, <3>6
    <3>7. CASE i # j
      BY <1>a, <2>2, <2>3, <3>5, <3>7 DEF QuestionIsHeld
    <3> QED BY <3>6, <3>7
  <2>5. CASE status[j] # "running"
    BY <1>a, <2>1, <2>2, <2>3, <2>5, HeldKept
  <2> QED BY <2>4, <2>5
<1>7. ASSUME NEW p \in Procs, Leave(p) PROVE QuestionIsHeld'
  <2>1. PICK j \in Jobs :
          IF status[j] = "needs_input" THEN UNCHANGED memory ELSE DropSession(p, j)
    BY <1>7 DEF Leave
  <2>2. UNCHANGED <<status, owner, alive>> /\ holds \subseteq holds'
    BY <1>7 DEF Leave, rows
  <2>3. \A q \in Procs, i \in Jobs : status[i] = "needs_input" =>
          session'[q][i] = session[q][i] /\ (i \in pending[q] => i \in pending'[q])
    BY <2>1, DropOnly DEF memory
  <2>4. \A q \in Procs, i \in Jobs :
          status[i] = "needs_input" /\ Watched(q, i) => Watched(q, i)'
    BY <2>2, <2>3 DEF Watched
  <2> QED BY <1>a, <2>2, <2>3, <2>4, HeldKept
<1>8. ASSUME NEW h \in holds, Hold(h) PROVE QuestionIsHeld'
  <2>1. h.proc \in Procs /\ h.job \in Jobs /\ h \in Holds
    BY DEF TypeOK, Holds
  <2>2. UNCHANGED alive
    BY <1>8 DEF Hold, HoldCheck, HoldBusy, HoldLock, HoldClaim, HoldRetry, HoldEnd, HoldError
  <2>3. \A i \in Jobs : status'[i] = "needs_input" =>
                          status[i] = "needs_input" /\ owner'[i] = owner[i]
    BY <1>8, <2>1 DEF Hold, HoldCheck, HoldBusy, HoldLock, HoldClaim, HoldRetry, HoldEnd,
                      HoldError, rows, TypeOK
  <2>4. UNCHANGED memory \/ (status[h.job] \notin Active /\ DropSession(h.proc, h.job))
    BY <1>8 DEF Hold, HoldCheck, HoldBusy, HoldLock, HoldClaim, HoldRetry, HoldEnd, HoldError
  <2>5. \A q \in Procs, i \in Jobs : status[i] = "needs_input" =>
          session'[q][i] = session[q][i] /\ (i \in pending[q] => i \in pending'[q])
    BY <2>1, <2>4, DropOnly DEF Active, memory
  <2>6. \/ \E place \in {"top", "checked", "locked"} : HoldMoves(h, place)
        \/ status'[h.job] # "needs_input" /\ holds \ {h} \subseteq holds'
        \/ holds' = holds \ {h} /\ (h.place = "done" \/ ~Held(h))
    <3>1. CASE HoldCheck(h) \/ HoldBusy(h) \/ HoldLock(h) \/ HoldRetry(h)
      BY <3>1 DEF HoldCheck, HoldBusy, HoldLock, HoldRetry
    <3>2. CASE HoldClaim(h) \/ HoldError(h)
      BY <2>1, <3>2 DEF HoldClaim, HoldError, HoldMoves, TypeOK
    <3>3. CASE HoldEnd(h)
      BY <3>3 DEF HoldEnd
    <3> QED BY <1>8, <3>1, <3>2, <3>3 DEF Hold
  <2>7. ASSUME NEW q \in Procs, NEW i \in Jobs, status'[i] = "needs_input", Watched(q, i)
        PROVE  Watched(q, i)'
    <3>1. PICK g \in holds : /\ g.proc = q /\ g.job = i /\ g.session = session[q][i]
                             /\ g.place # "done"
      BY <2>7 DEF Watched
    <3>2. status[i] = "needs_input" /\ session'[q][i] = session[q][i]
      BY <2>3, <2>5, <2>7
    <3>3. CASE g \in holds'
      BY <3>1, <3>2, <3>3 DEF Watched
    <3>4. CASE g \notin holds'
      <4>1. g = h
        BY <2>6, <3>4 DEF HoldMoves
      <4>2. Held(h)
        BY <3>1, <3>2, <4>1 DEF Held
      <4>3. PICK place \in {"top", "checked", "locked"} : HoldMoves(h, place)
        BY <2>6, <2>7, <3>1, <4>1, <4>2
      <4> DEFINE k == [h EXCEPT !.place = place]
      <4>4. /\ k \in holds' /\ k.proc = q /\ k.job = i /\ k.session = session'[q][i]
            /\ k.place # "done"
        BY <2>1, <3>1, <3>2, <4>1, <4>3 DEF HoldMoves, Holds
      <4> HIDE DEF k
      <4> QED BY <4>4 DEF Watched
    <3> QED BY <3>3, <3>4
  <2> QED BY <1>a, <2>2, <2>3, <2>5, <2>7, HeldKept
<1>9. ASSUME NEW p \in Procs, NEW j \in Jobs, CancelRead(p, j) \/ RespondRead(p, j)
      PROVE  QuestionIsHeld'
  <2>1. UNCHANGED <<holds, memory, alive, owner>>
    BY <1>9 DEF CancelRead, RespondRead, rows
  <2>2. \A i \in Jobs : status'[i] = "needs_input" => status[i] = "needs_input"
    BY <1>9 DEF CancelRead, RespondRead, Recovered, rows
  <2> QED BY <1>a, <1>w, <2>1, <2>2, HeldKept DEF memory
<1>10. ASSUME NEW p \in Procs, NEW j \in Jobs, CancelWrite(p, j) PROVE QuestionIsHeld'
  <2>1. /\ UNCHANGED <<holds, alive>> /\ status'[j] # "needs_input" /\ DropSession(p, j)
        /\ \A i \in Jobs : i # j => status'[i] = status[i] /\ owner'[i] = owner[i]
    BY <1>10 DEF CancelWrite, TypeOK
  <2>2. \A q \in Procs, i \in Jobs : i # j =>
          session'[q][i] = session[q][i] /\ (i \in pending[q] => i \in pending'[q])
    BY <2>1, DropOnly
  <2>3. \A q \in Procs, i \in Jobs : i # j /\ Watched(q, i) => Watched(q, i)'
    BY <2>1, <2>2 DEF Watched
  <2> QED BY <1>a, <2>1, <2>2, <2>3, HeldKept
<1>11. ASSUME NEW r \in replies, RespondWrite(r) PROVE QuestionIsHeld'
  BY <1>11, <1>a, <1>w, HeldKept DEF RespondWrite, memory, TypeOK, Replies
<1>12. CASE UNCHANGED vars
  BY <1>12, <1>a, <1>w, HeldKept DEF vars, rows, memory
<1> QED
  BY <1>1, <1>2, <1>3, <1>4, <1>5, <1>6, <1>7, <1>8, <1>9, <1>10, <1>11, <1>12
  DEF Next, Worker, Run, Settle

\* A question on display can be answered, however many processes look after the
\* queue: its asker keeps the session, the pending request and a thread.
THEOREM QuestionIsHeldHolds == Spec => []QuestionIsHeld
<1>1. Init => SessionInv /\ ConsumeInv /\ QuestionIsHeld
  BY DEF Init, SessionInv, ConsumeInv, QuestionIsHeld, Free
<1> QED
  BY <1>1, TypeCorrect, HandCorrect, SessionStep, ConsumeStep, HeldStep, PTL DEF Spec

-----------------------------------------------------------------------------
(* No session is left without a thread.                                    *)

\* A process that died has no thread.
DeadGone == \A p \in Procs \ alive : at[p] = Free /\ \A h \in holds : h.proc # p

\* A running row of a living process is driven, and not on its way out.
RunningDriven ==
  \A j \in Jobs : status[j] = "running" /\ owner[j] \in alive =>
    Drives(owner[j], j) /\ at[owner[j]] # "finally"

\* An answer that its session still waits for has a thread that watches for it.
AnswerHeld ==
  \A j \in Jobs : Answered(j) /\ owner[j] \in alive /\ session[owner[j]][j] # 0 =>
    Watched(owner[j], j)

\* Only a living process has steps that start a thread.
LEMMA DeadStep == TypeOK /\ HandInv /\ DeadGone /\ [Next]_vars => DeadGone'
<1> SUFFICES ASSUME TypeOK, HandInv, DeadGone, [Next]_vars,
                    NEW q \in Procs, q \notin alive'
             PROVE  at'[q] = Free /\ \A h \in holds' : h.proc # q
  BY DEF DeadGone
<1> USE DEF Free
<1>1. q \notin alive => at[q] = Free /\ \A h \in holds : h.proc # q
  BY DEF DeadGone
<1>2. CASE UNCHANGED <<alive, at, holds>>
  BY <1>1, <1>2
<1>3. ASSUME NEW p \in Procs, Crash(p) PROVE at'[q] = Free /\ \A h \in holds' : h.proc # q
  BY <1>1, <1>3 DEF Crash, TypeOK
<1>4. ASSUME NEW p \in Procs, Worker(p) PROVE at'[q] = Free /\ \A h \in holds' : h.proc # q
  <2>1. p \in alive /\ UNCHANGED alive
    BY <1>4 DEF Worker, StartWorker, Recover, Claim, Release, Run, OpenSession, StartTurn, Resume,
                RunFails, Heartbeat, Settle, SeeStopped, Ask, Complete, Leave, Works
  <2>2. at'[q] = at[q]
    BY <1>4, <2>1 DEF Worker, StartWorker, Recover, Claim, Release, Run, OpenSession, StartTurn,
                      Resume, RunFails, Heartbeat, Settle, SeeStopped, Ask, Complete, Leave,
                      MoveTo, worker, TypeOK
  <2>3. \A h \in holds' : h \in holds \/ h.proc = p
    BY <1>4 DEF Worker, StartWorker, Recover, Claim, Release, Run, OpenSession, StartTurn,
                Resume, RunFails, Heartbeat, Settle, SeeStopped, Ask, Complete, Leave, HoldOf
  <2> QED BY <1>1, <2>1, <2>2, <2>3
<1>5. ASSUME NEW h \in holds, Hold(h) PROVE at'[q] = Free /\ \A g \in holds' : g.proc # q
  <2>1. h \in Holds /\ h.proc \in Procs /\ UNCHANGED alive
    BY <1>5 DEF Hold, HoldCheck, HoldBusy, HoldLock, HoldClaim, HoldRetry, HoldEnd, HoldError,
                TypeOK, Holds
  <2>2. h.proc # q
    BY <1>1, <2>1
  <2>3. at'[q] = at[q]
    BY <1>5, <2>1, <2>2 DEF Hold, HoldCheck, HoldBusy, HoldLock, HoldClaim, HoldRetry, HoldEnd,
                            HoldError, MoveTo, worker, TypeOK
  <2>4. \A g \in holds' : g \in holds \/ \E place \in {"top", "checked", "locked", "done"} :
                                            g = [h EXCEPT !.place = place]
    BY <1>5 DEF Hold, HoldCheck, HoldBusy, HoldLock, HoldClaim, HoldRetry, HoldEnd, HoldError,
                HoldMoves
  <2>5. \A g \in holds' : g \in holds \/ g.proc = h.proc
    BY <2>1, <2>4 DEF Holds
  <2> QED BY <1>1, <2>1, <2>2, <2>3, <2>5
<1>6. ASSUME NEW p \in Procs, NEW j \in Jobs,
             CancelRead(p, j) \/ CancelWrite(p, j) \/ RespondRead(p, j)
      PROVE  UNCHANGED <<alive, at, holds>>
  BY <1>6 DEF CancelRead, CancelWrite, RespondRead, worker
<1>7. ASSUME NEW r \in replies, RespondWrite(r) PROVE UNCHANGED <<alive, at, holds>>
  BY <1>7 DEF RespondWrite, worker
<1>8. ASSUME NEW j \in Jobs, Submit(j) \/ SaveText(j) \/ Expire(j)
      PROVE  UNCHANGED <<alive, at, holds>>
  BY <1>8 DEF Submit, SaveText, Expire, worker
<1> QED
  BY <1>2, <1>3, <1>4, <1>5, <1>6, <1>7, <1>8 DEF Next, vars, worker

\* Running rows stay driven when none starts to run and their workers go on.
LEMMA DrivenKept ==
  ASSUME TypeOK, RunningDriven, alive' \subseteq alive,
         \A j \in Jobs : status'[j] = "running" =>
           status[j] = "running" /\ owner'[j] = owner[j],
         \A p \in Procs, j \in Jobs :
           p \in alive' /\ status'[j] = "running" /\ Drives(p, j) /\ at[p] # "finally" =>
             Drives(p, j)' /\ at'[p] # "finally"
  PROVE  RunningDriven'
BY DEF RunningDriven, TypeOK

\* A row runs from its claim until the worker that claimed it gives it up.
LEMMA DrivenStep ==
  TypeOK /\ TypeOK' /\ HandInv /\ RunningDriven /\ [Next]_vars => RunningDriven'
<1> SUFFICES ASSUME TypeOK, TypeOK', HandInv, RunningDriven, [Next]_vars
             PROVE  RunningDriven'
  OBVIOUS
<1> USE DEF InRun, Free
<1>1. ASSUME NEW j \in Jobs, Submit(j) \/ SaveText(j) \/ Expire(j) PROVE RunningDriven'
  <2>1. UNCHANGED <<alive, at, job, owner>>
    BY <1>1 DEF Submit, SaveText, Expire, worker
  <2>2. \A i \in Jobs : status'[i] = "running" => status[i] = "running"
    BY <1>1 DEF Submit, SaveText, Expire, TypeOK
  <2> QED BY <2>1, <2>2, DrivenKept DEF Drives
<1>2. ASSUME NEW p \in Procs, Crash(p) PROVE RunningDriven'
  <2>1. UNCHANGED <<status, owner>> /\ alive' = alive \ {p}
    BY <1>2 DEF Crash, rows
  <2>2. \A q \in Procs : q # p => at'[q] = at[q] /\ job'[q] = job[q]
    BY <1>2 DEF Crash, TypeOK
  <2> QED BY <2>1, <2>2, DrivenKept DEF Drives
<1>3. ASSUME NEW p \in Procs,
             StartWorker(p) \/ Recover(p) \/ Release(p) \/ Heartbeat(p) \/ OpenSession(p)
               \/ StartTurn(p) \/ Resume(p) \/ Leave(p)
      PROVE  RunningDriven'
  <2>1. UNCHANGED <<alive, owner>> /\ \A i \in Jobs : status'[i] = "running" => status[i] = "running"
    BY <1>3 DEF StartWorker, Recover, Recovered, Release, Heartbeat, OpenSession, StartTurn,
                Resume, Leave, rows
  <2>2. \A q \in Procs : q # p => at'[q] = at[q] /\ job'[q] = job[q]
    BY <1>3 DEF StartWorker, Recover, Release, Heartbeat, OpenSession, StartTurn, Resume, Leave,
                MoveTo, worker, TypeOK
  <2>3. CASE StartWorker(p) \/ Recover(p) \/ Release(p) \/ Leave(p)
    <3>1. at[p] \notin InRun \/ at[p] = "finally"
      BY <2>3 DEF StartWorker, Recover, Release, Leave, Works
    <3> QED BY <2>1, <2>2, <3>1, DrivenKept DEF Drives
  <2>4. CASE Heartbeat(p) \/ OpenSession(p) \/ StartTurn(p) \/ Resume(p)
    <3>1. job'[p] = job[p] /\ at'[p] \in InRun \ {"finally"}
      BY <2>4 DEF Heartbeat, OpenSession, StartTurn, Resume, Works, MoveTo, worker, TypeOK
    <3> QED BY <2>1, <2>2, <3>1, DrivenKept DEF Drives
  <2> QED BY <1>3, <2>3, <2>4
<1>4. ASSUME NEW p \in Procs, Claim(p) PROVE RunningDriven'
  <2>1. PICK j \in Jobs : /\ status' = [status EXCEPT ![j] = "running"]
                          /\ owner' = [owner EXCEPT ![j] = p]
                          /\ job' = [job EXCEPT ![p] = j]
    BY <1>4 DEF Claim
  <2>2. at[p] = "claim" /\ at' = [at EXCEPT ![p] = "run"] /\ UNCHANGED alive
    BY <1>4 DEF Claim, MoveTo
  <2>3. Drives(p, j)' /\ at'[p] # "finally" /\ owner'[j] = p
    BY <2>1, <2>2 DEF Drives, TypeOK
  <2> SUFFICES ASSUME NEW i \in Jobs, status'[i] = "running", owner'[i] \in alive, i # j
               PROVE  (Drives(owner[i], i) /\ at[owner[i]] # "finally")'
    BY <2>2, <2>3 DEF RunningDriven
  <2>4. status[i] = "running" /\ owner'[i] = owner[i]
    BY <2>1 DEF TypeOK
  <2>5. Drives(owner[i], i) /\ at[owner[i]] # "finally" /\ owner[i] \in Procs
    BY <2>4 DEF RunningDriven, TypeOK
  <2>6. owner[i] # p
    BY <2>2, <2>5 DEF Drives
  <2> QED BY <2>1, <2>2, <2>4, <2>5, <2>6 DEF Drives, TypeOK
<1>5. ASSUME NEW p \in Procs, RunFails(p) \/ SeeStopped(p) \/ Ask(p) \/ Complete(p)
      PROVE  RunningDriven'
  <2>1. PICK j \in Jobs :
          /\ at[p] \in {"run", "turn", "consume"} /\ job[p] = j
          /\ \/ \E o \in Finished : FinishRunning(j, o)
             \/ status' = [status EXCEPT ![j] = "needs_input"] /\ UNCHANGED owner
             \/ UNCHANGED <<status, owner>> /\ status[j] # "running"
    BY <1>5 DEF RunFails, SeeStopped, Ask, Complete, Works, Finished, rows
  <2>2. /\ status'[j] # "running"
        /\ \A i \in Jobs : i # j => status'[i] = status[i] /\ owner'[i] = owner[i]
    BY <2>1 DEF FinishRunning, Finished, TypeOK
  <2>3. UNCHANGED <<alive, job>> /\ at' = [at EXCEPT ![p] = "finally"]
    BY <1>5 DEF RunFails, SeeStopped, Ask, Complete, MoveTo, worker
  <2> QED BY <2>1, <2>2, <2>3, DrivenKept DEF Drives, TypeOK
<1>6. ASSUME NEW h \in holds, Hold(h) PROVE RunningDriven'
  <2>1. h.proc \in Procs /\ h.job \in Jobs
    BY DEF TypeOK, Holds
  <2>2. h.place = "locked" => at[h.proc] = "holdclaim" /\ job[h.proc] = h.job
    BY DEF HandInv, LockHeld
  <2>3. CASE HoldClaim(h)
    <3>1. /\ status' = [status EXCEPT ![h.job] = "running"]
          /\ owner' = [owner EXCEPT ![h.job] = h.proc]
          /\ at' = [at EXCEPT ![h.proc] = "run"] /\ UNCHANGED <<job, alive>>
          /\ at[h.proc] = "holdclaim" /\ job[h.proc] = h.job
      BY <2>2, <2>3 DEF HoldClaim, MoveTo
    <3>2. Drives(h.proc, h.job)' /\ at'[h.proc] # "finally" /\ owner'[h.job] = h.proc
      BY <2>1, <3>1 DEF Drives, TypeOK
    <3> SUFFICES ASSUME NEW i \in Jobs, status'[i] = "running", owner'[i] \in alive, i # h.job
                 PROVE  (Drives(owner[i], i) /\ at[owner[i]] # "finally")'
      BY <3>1, <3>2 DEF RunningDriven
    <3>3. status[i] = "running" /\ owner'[i] = owner[i]
      BY <2>1, <3>1 DEF TypeOK
    <3>4. Drives(owner[i], i) /\ at[owner[i]] # "finally" /\ owner[i] \in Procs
      BY <3>3 DEF RunningDriven, TypeOK
    <3>5. owner[i] # h.proc
      BY <3>1, <3>4 DEF Drives
    <3> QED BY <2>1, <3>1, <3>3, <3>4, <3>5 DEF Drives, TypeOK
  <2>4. CASE ~HoldClaim(h)
    <3>1. UNCHANGED <<alive, owner>> /\ \A i \in Jobs : status'[i] = "running" => status[i] = "running"
      BY <1>6, <2>1, <2>4 DEF Hold, HoldCheck, HoldBusy, HoldLock, HoldRetry, HoldEnd, HoldError,
                              rows, TypeOK
    <3>2. \/ UNCHANGED <<at, job>>
          \/ /\ at[h.proc] \notin InRun
             /\ \A q \in Procs : q # h.proc => at'[q] = at[q] /\ job'[q] = job[q]
      BY <1>6, <2>1, <2>2, <2>4 DEF Hold, HoldCheck, HoldBusy, HoldLock, HoldRetry, HoldEnd,
                                    HoldError, MoveTo, worker, TypeOK
    <3> QED BY <3>1, <3>2, DrivenKept DEF Drives
  <2> QED BY <2>3, <2>4
<1>7. ASSUME NEW p \in Procs, NEW j \in Jobs,
             CancelRead(p, j) \/ CancelWrite(p, j) \/ RespondRead(p, j)
      PROVE  RunningDriven'
  <2>1. UNCHANGED <<alive, at, job>>
    BY <1>7 DEF CancelRead, CancelWrite, RespondRead, worker
  <2>2. \A i \in Jobs : status'[i] = "running" => status[i] = "running" /\ owner'[i] = owner[i]
    BY <1>7 DEF CancelRead, CancelWrite, RespondRead, Recovered, rows, TypeOK
  <2> QED BY <2>1, <2>2, DrivenKept DEF Drives
<1>8. ASSUME NEW r \in replies, RespondWrite(r) PROVE RunningDriven'
  <2>1. UNCHANGED <<alive, at, job, owner>>
    BY <1>8 DEF RespondWrite, worker
  <2>2. \A i \in Jobs : status'[i] = "running" => status[i] = "running"
    BY <1>8 DEF RespondWrite, TypeOK, Replies
  <2> QED BY <2>1, <2>2, DrivenKept DEF Drives
<1>9. CASE UNCHANGED vars
  BY <1>9, DrivenKept DEF vars, rows, worker, Drives
<1> QED
  BY <1>1, <1>2, <1>3, <1>4, <1>5, <1>6, <1>7, <1>8, <1>9 DEF Next, Worker, Run, Settle

\* An answer stays watched for when its session and a thread that watches stay.
LEMMA AnswerKept ==
  ASSUME AnswerHeld, owner \in [Jobs -> Procs \cup {None}], alive \subseteq Procs,
         \A j \in Jobs : Answered(j)' /\ owner'[j] \in alive' =>
           Answered(j) /\ owner'[j] = owner[j] /\ owner[j] \in alive,
         \A p \in Procs, j \in Jobs : Answered(j)' /\ p \in alive' /\ session'[p][j] # 0 =>
           session[p][j] # 0 /\ (Watched(p, j) => Watched(p, j)')
  PROVE  AnswerHeld'
BY DEF AnswerHeld

\* What a holding thread does to the threads of its process, and to a session.
LEMMA HoldStepIs ==
  ASSUME TypeOK, NEW h \in holds, Hold(h)
  PROVE  /\ \/ \E place \in {"top", "checked", "locked"} : HoldMoves(h, place)
            \/ HoldClaim(h) \/ HoldEnd(h) \/ HoldError(h)
         /\ UNCHANGED memory \/ (status[h.job] \notin Active /\ DropSession(h.proc, h.job))
<1>1. CASE HoldCheck(h) \/ HoldBusy(h) \/ HoldLock(h) \/ HoldRetry(h)
  BY <1>1 DEF HoldCheck, HoldBusy, HoldLock, HoldRetry
<1>2. CASE HoldClaim(h) \/ HoldError(h) \/ HoldEnd(h)
  BY <1>2 DEF HoldClaim, HoldError, HoldEnd
<1> QED BY <1>1, <1>2 DEF Hold

\* An answer that was stored while its question was on display is watched for
\* until its row is claimed, cancelled or failed.
LEMMA AnswerStep ==
  /\ TypeOK /\ TypeOK' /\ HandInv /\ RowsKnown /\ QuestionIsHeld /\ AnswerHeld
  /\ [Next]_vars
  => AnswerHeld'
<1> SUFFICES ASSUME TypeOK, TypeOK', HandInv, RowsKnown, QuestionIsHeld, AnswerHeld,
                    [Next]_vars
             PROVE  AnswerHeld'
  OBVIOUS
<1> USE DEF InRun, Free, Answered
<1>a. owner \in [Jobs -> Procs \cup {None}] /\ alive \subseteq Procs
  BY DEF TypeOK
<1>b. \A p \in Procs, j \in Jobs :
        job[p] = j /\ at[p] \in {"run", "turn", "consume"} => status[j] # "queued"
  BY DEF HandInv, DriverRow, Drives, Finished
<1>w. ASSUME UNCHANGED <<holds, session>>
      PROVE  \A p \in Procs, j \in Jobs : Watched(p, j) => Watched(p, j)'
  BY <1>w DEF Watched
<1>1. ASSUME NEW j \in Jobs, Submit(j) \/ SaveText(j) \/ Expire(j) PROVE AnswerHeld'
  <2>1. UNCHANGED <<holds, session, alive, owner, response>>
    BY <1>1 DEF Submit, SaveText, Expire, memory
  <2>2. \A i \in Jobs : Answered(i)' => Answered(i)
    BY <1>1, <2>1 DEF Submit, SaveText, Expire, RowsKnown, TypeOK
  <2> QED BY <1>a, <1>w, <2>1, <2>2, AnswerKept
<1>2. ASSUME NEW p \in Procs, Crash(p) PROVE AnswerHeld'
  <2>1. UNCHANGED <<status, owner, response>> /\ alive' = alive \ {p}
    BY <1>2 DEF Crash, rows
  <2>2. \A q \in Procs, j \in Jobs : q \in alive' =>
          session'[q][j] = session[q][j] /\ (Watched(q, j) => Watched(q, j)')
    BY <1>2 DEF Crash, Watched, TypeOK
  <2> QED BY <1>a, <2>1, <2>2, AnswerKept
<1>3. ASSUME NEW p \in Procs,
             StartWorker(p) \/ Release(p) \/ Recover(p) \/ Claim(p) \/ StartTurn(p)
               \/ RunFails(p) \/ SeeStopped(p) \/ Heartbeat(p) \/ Complete(p)
      PROVE  AnswerHeld'
  <2>1. UNCHANGED <<holds, session, alive, response>>
    BY <1>3 DEF StartWorker, Release, Recover, Claim, StartTurn, RunFails, SeeStopped, Heartbeat,
                Complete, memory, rows
  <2>2. \A j \in Jobs : status'[j] = "queued" => status[j] = "queued" /\ owner'[j] = owner[j]
    BY <1>3 DEF StartWorker, Release, Recover, Recovered, Claim, StartTurn, RunFails, SeeStopped,
                Heartbeat, Complete, FinishRunning, rows, TypeOK
  <2> QED BY <1>a, <1>w, <2>1, <2>2, AnswerKept
<1>4. ASSUME NEW p \in Procs, OpenSession(p) \/ Resume(p) PROVE AnswerHeld'
  <2>1. PICK j \in Jobs :
          /\ Works(p, "run", j)
          /\ session' = [session EXCEPT ![p][j] = turns[j] + 1] \/ UNCHANGED session
          /\ response' = [response EXCEPT ![j] = 0] \/ UNCHANGED response
    BY <1>4 DEF OpenSession, Resume, rows
  <2>2. UNCHANGED <<status, owner, alive, holds>> /\ status[j] # "queued"
    BY <1>4, <1>b, <2>1 DEF OpenSession, Resume, Works, rows
  <2>3. \A q \in Procs, i \in Jobs : i # j =>
          session'[q][i] = session[q][i] /\ response'[i] = response[i]
    <3>1. \A q \in Procs, i \in Jobs : i # j => session'[q][i] = session[q][i]
      <4>1. CASE UNCHANGED session
        BY <4>1
      <4>2. CASE session' = [session EXCEPT ![p][j] = turns[j] + 1]
        BY <4>2 DEF TypeOK
      <4> QED BY <2>1, <4>1, <4>2
    <3>2. \A i \in Jobs : i # j => response'[i] = response[i]
      BY <2>1 DEF TypeOK
    <3> QED BY <3>1, <3>2
  <2>4. \A q \in Procs, i \in Jobs : i # j /\ Watched(q, i) => Watched(q, i)'
    BY <2>2, <2>3 DEF Watched
  <2> QED BY <1>a, <2>2, <2>3, <2>4, AnswerKept
<1>5. ASSUME NEW p \in Procs, Ask(p) \/ Leave(p) PROVE AnswerHeld'
  <2>1. UNCHANGED <<owner, alive, response>> /\ holds \subseteq holds'
    BY <1>5 DEF Ask, Leave, rows
  <2>2. \A j \in Jobs : status'[j] = "queued" => status[j] = "queued"
    BY <1>5 DEF Ask, Leave, rows, TypeOK
  <2>3. \A q \in Procs, i \in Jobs : session'[q][i] # 0 => session'[q][i] = session[q][i]
    <3>1. UNCHANGED session \/ \E j \in Jobs : DropSession(p, j)
      BY <1>5 DEF Ask, Leave, memory
    <3> QED BY <3>1, DropOnly
  <2>4. \A q \in Procs, i \in Jobs :
          session'[q][i] # 0 /\ Watched(q, i) => Watched(q, i)'
    BY <2>1, <2>3 DEF Watched
  <2> QED BY <1>a, <2>1, <2>2, <2>3, <2>4, AnswerKept
<1>6. ASSUME NEW h \in holds, Hold(h) PROVE AnswerHeld'
  <2>1. h.proc \in Procs /\ h.job \in Jobs /\ h \in Holds
    BY DEF TypeOK, Holds
  <2>2. UNCHANGED <<alive, response>>
    BY <1>6 DEF Hold, HoldCheck, HoldBusy, HoldLock, HoldClaim, HoldRetry, HoldEnd, HoldError,
                rows
  <2>3. \A i \in Jobs : status'[i] = "queued" => status[i] = "queued" /\ owner'[i] = owner[i]
    BY <1>6, <2>1 DEF Hold, HoldCheck, HoldBusy, HoldLock, HoldClaim, HoldRetry, HoldEnd,
                      HoldError, rows, TypeOK
  <2>4. \A q \in Procs, i \in Jobs : session'[q][i] # 0 => session'[q][i] = session[q][i]
    BY <1>6, <2>1, HoldStepIs, DropOnly DEF memory
  <2>5. ASSUME NEW q \in Procs, NEW i \in Jobs, Answered(i)', session'[q][i] # 0, Watched(q, i)
        PROVE  Watched(q, i)'
    <3>1. ASSUME NEW g \in holds, g.place # "done", g \notin holds', g.proc = q, g.job = i
          PROVE  \/ \E place \in {"top", "checked", "locked"} : HoldMoves(g, place)
                 \/ g.session # session[q][i]
      <4>1. g = h
        BY <1>6, <3>1 DEF Hold, HoldCheck, HoldBusy, HoldLock, HoldClaim, HoldRetry, HoldEnd,
                         HoldError, HoldMoves
      <4>2. ~HoldClaim(h) /\ ~HoldError(h)
        BY <2>1, <2>5, <3>1, <4>1 DEF HoldClaim, HoldError, TypeOK
      <4>3. HoldEnd(h) => g.session # session[q][i]
        BY <2>3, <2>5, <3>1, <4>1 DEF HoldEnd, Held
      <4> QED BY <1>6, <4>1, <4>2, <4>3, HoldStepIs
    <3>2. PICK g \in holds : /\ g.proc = q /\ g.job = i /\ g.session = session[q][i]
                             /\ g.place # "done"
      BY <2>5 DEF Watched
    <3>3. session'[q][i] = session[q][i]
      BY <2>4, <2>5
    <3>4. CASE g \in holds'
      BY <3>2, <3>3, <3>4 DEF Watched
    <3>5. CASE g \notin holds'
      <4>1. PICK place \in {"top", "checked", "locked"} : HoldMoves(g, place)
        BY <3>1, <3>2, <3>5
      <4> DEFINE k == [g EXCEPT !.place = place]
      <4>2. /\ k \in holds' /\ k.proc = q /\ k.job = i /\ k.session = session'[q][i]
            /\ k.place # "done"
        BY <3>2, <3>3, <4>1 DEF HoldMoves, TypeOK, Holds
      <4> HIDE DEF k
      <4> QED BY <4>2 DEF Watched
    <3> QED BY <3>4, <3>5
  <2> QED BY <1>a, <2>2, <2>3, <2>4, <2>5, AnswerKept
<1>7. ASSUME NEW p \in Procs, NEW j \in Jobs, CancelRead(p, j) \/ RespondRead(p, j)
      PROVE  AnswerHeld'
  <2>1. UNCHANGED <<holds, session, alive, owner, response>>
    BY <1>7 DEF CancelRead, RespondRead, rows, memory
  <2>2. \A i \in Jobs : status'[i] = "queued" => status[i] = "queued"
    BY <1>7 DEF CancelRead, RespondRead, Recovered, rows
  <2> QED BY <1>a, <1>w, <2>1, <2>2, AnswerKept
<1>8. ASSUME NEW p \in Procs, NEW j \in Jobs, CancelWrite(p, j) PROVE AnswerHeld'
  <2>1. /\ UNCHANGED <<holds, alive, response>> /\ status'[j] # "queued" /\ DropSession(p, j)
        /\ \A i \in Jobs : i # j => status'[i] = status[i] /\ owner'[i] = owner[i]
    BY <1>8 DEF CancelWrite, TypeOK
  <2>2. \A q \in Procs, i \in Jobs : i # j => session'[q][i] = session[q][i]
    BY <2>1, DropOnly
  <2>3. \A q \in Procs, i \in Jobs : i # j /\ Watched(q, i) => Watched(q, i)'
    BY <2>1, <2>2 DEF Watched
  <2> QED BY <1>a, <2>1, <2>2, <2>3, AnswerKept
<1>9. ASSUME NEW r \in replies, RespondWrite(r) PROVE AnswerHeld'
  <2>1. r.job \in Jobs /\ UNCHANGED <<holds, session, alive, owner>>
    BY <1>9 DEF RespondWrite, memory, TypeOK, Replies
  <2>2. \A i \in Jobs : Answered(i)' => Answered(i) \/ status[i] = "needs_input"
    BY <1>9, <2>1 DEF RespondWrite, TypeOK
  <2> SUFFICES ASSUME NEW i \in Jobs, Answered(i)', owner[i] \in alive, session[owner[i]][i] # 0
               PROVE  Watched(owner[i], i)'
    BY <2>1 DEF AnswerHeld
  <2>3. Watched(owner[i], i)
    BY <2>2 DEF AnswerHeld, QuestionIsHeld
  <2> QED BY <1>a, <1>w, <2>1, <2>3
<1>10. CASE UNCHANGED vars
  BY <1>10, <1>a, <1>w, AnswerKept DEF vars, rows, memory
<1> QED
  BY <1>1, <1>2, <1>3, <1>4, <1>5, <1>6, <1>7, <1>8, <1>9, <1>10
  DEF Next, Worker, Run, Settle

\* A thread was started for p's session of j, and has not left.
Kept(p, j) == \E h \in holds : h.proc = p /\ h.job = j /\ h.session = session[p][j]

\* Sessions stay in hand when none appears and their workers and threads stay.
LEMMA InHandKept ==
  ASSUME SessionWatched,
         \A p \in Procs, j \in Jobs : session'[p][j] # 0 =>
           /\ session[p][j] # 0
           /\ Drives(p, j) => Drives(p, j)' \/ Kept(p, j)'
           /\ Kept(p, j) => Drives(p, j)' \/ Kept(p, j)'
  PROVE  SessionWatched'
BY DEF SessionWatched, Kept

\* A worker leaves a session only to the thread that watches the question on
\* display, and the last thread leaves it to the worker, or closes it.
LEMMA InHandStep ==
  /\ TypeOK /\ TypeOK' /\ HandInv /\ DeadGone /\ QuestionIsHeld
  /\ RunningDriven /\ AnswerHeld /\ SessionWatched /\ [Next]_vars
  => SessionWatched'
<1> SUFFICES ASSUME TypeOK, TypeOK', HandInv, DeadGone, QuestionIsHeld, RunningDriven,
                    AnswerHeld, SessionWatched, [Next]_vars
             PROVE  SessionWatched'
  OBVIOUS
<1> USE DEF InRun, Free
<1>k. ASSUME UNCHANGED <<holds, session>>
      PROVE  \A p \in Procs, j \in Jobs : Kept(p, j) => Kept(p, j)'
  BY <1>k DEF Kept
<1>1. ASSUME UNCHANGED <<holds, session, at, job>> PROVE SessionWatched'
  BY <1>1, <1>k, InHandKept DEF Drives
<1>2. ASSUME NEW p \in Procs, Crash(p) PROVE SessionWatched'
  <2>1. \A q \in Procs, j \in Jobs : session'[q][j] # 0 =>
          /\ session'[q][j] = session[q][j]
          /\ at'[q] = at[q] /\ job'[q] = job[q] /\ q # p
    BY <1>2 DEF Crash, TypeOK
  <2>2. \A h \in holds : h.proc # p => h \in holds'
    BY <1>2 DEF Crash
  <2> QED BY <2>1, <2>2, InHandKept DEF Drives, Kept
<1>3. ASSUME NEW p \in Procs,
             StartWorker(p) \/ Release(p) \/ Recover(p) \/ Claim(p) \/ StartTurn(p) \/ Resume(p)
               \/ RunFails(p) \/ SeeStopped(p) \/ Heartbeat(p) \/ Complete(p)
      PROVE  SessionWatched'
  <2>1. UNCHANGED <<holds, session>>
    BY <1>3 DEF StartWorker, Release, Recover, Claim, StartTurn, Resume, RunFails, SeeStopped,
                Heartbeat, Complete, memory
  <2>2. \A q \in Procs : q # p => at'[q] = at[q] /\ job'[q] = job[q]
    BY <1>3 DEF StartWorker, Release, Recover, Claim, StartTurn, Resume, RunFails, SeeStopped,
                Heartbeat, Complete, MoveTo, worker, TypeOK
  <2>3. at[p] \notin InRun \/ (at'[p] \in InRun /\ job'[p] = job[p])
    BY <1>3 DEF StartWorker, Release, Recover, Claim, StartTurn, Resume, RunFails, SeeStopped,
                Heartbeat, Complete, MoveTo, Works, worker, TypeOK
  <2> QED BY <1>k, <2>1, <2>2, <2>3, InHandKept DEF Drives
<1>4. ASSUME NEW p \in Procs, OpenSession(p) PROVE SessionWatched'
  <2>1. PICK j \in Jobs : Works(p, "run", j) /\ session' = [session EXCEPT ![p][j] = turns[j] + 1]
    BY <1>4 DEF OpenSession
  <2>2. at' = [at EXCEPT ![p] = "turn"] /\ UNCHANGED <<job, holds>>
    BY <1>4 DEF OpenSession, MoveTo
  <2>3. \A q \in Procs, i \in Jobs : Drives(q, i) => Drives(q, i)'
    BY <2>1, <2>2 DEF Drives, Works, TypeOK
  <2>4. Drives(p, j)'
    BY <2>1, <2>3 DEF Drives, Works
  <2>5. \A q \in Procs, i \in Jobs : q # p \/ i # j => session'[q][i] = session[q][i]
    BY <2>1 DEF TypeOK
  <2> QED BY <2>2, <2>3, <2>4, <2>5 DEF SessionWatched
<1>5. ASSUME NEW p \in Procs, Ask(p) PROVE SessionWatched'
  <2>1. UNCHANGED <<session, job>> /\ holds \subseteq holds'
    BY <1>5 DEF Ask
  <2>2. \A q \in Procs, i \in Jobs : Drives(q, i) => Drives(q, i)'
    BY <1>5 DEF Ask, MoveTo, Drives, TypeOK
  <2> QED BY <2>1, <2>2, InHandKept DEF Kept
<1>6. ASSUME NEW p \in Procs, Leave(p) PROVE SessionWatched'
  <2>1. PICK j \in Jobs :
          /\ Works(p, "finally", j)
          /\ IF status[j] = "needs_input" THEN UNCHANGED memory ELSE DropSession(p, j)
    BY <1>6 DEF Leave
  <2>2. /\ holds \subseteq holds'
        /\ \A q \in Procs : q # p => at'[q] = at[q] /\ job'[q] = job[q]
    BY <1>6 DEF Leave, MoveTo, TypeOK
  <2>3. \A q \in Procs, i \in Jobs : session'[q][i] # 0 => session'[q][i] = session[q][i]
    BY <2>1, DropOnly DEF memory
  <2>4. \A i \in Jobs : Drives(p, i) => i = j
    BY <2>1 DEF Drives, Works
  <2>5. ASSUME session'[p][j] # 0 PROVE Kept(p, j)
    <3>1. status[j] = "needs_input"
      BY <2>1, <2>5, DropOnly
    <3>2. owner[j] = p
      BY <2>1, <3>1 DEF Works, Drives, Tied, HandInv, HandOwns, Active
    <3>3. Watched(p, j)
      BY <2>1, <3>1, <3>2 DEF Works, QuestionIsHeld
    <3> QED BY <3>3 DEF Watched, Kept
  <2>6. \A q \in Procs, i \in Jobs : session'[q][i] # 0 /\ Kept(q, i) => Kept(q, i)'
    BY <2>2, <2>3 DEF Kept
  <2> QED BY <2>2, <2>3, <2>4, <2>5, <2>6, InHandKept DEF Drives
<1>7. ASSUME NEW h \in holds, Hold(h) PROVE SessionWatched'
  <2>1. h.proc \in Procs /\ h.job \in Jobs /\ h \in Holds
    BY DEF TypeOK, Holds
  <2>2. h.place = "locked" => at[h.proc] = "holdclaim" /\ job[h.proc] = h.job
    BY DEF HandInv, LockHeld
  <2>3. \A q \in Procs, i \in Jobs : session'[q][i] # 0 => session'[q][i] = session[q][i]
    BY <1>7, <2>1, HoldStepIs, DropOnly DEF memory
  <2>4. \A q \in Procs, i \in Jobs : Drives(q, i) => Drives(q, i)'
    BY <1>7, <2>1, <2>2 DEF Hold, HoldCheck, HoldBusy, HoldLock, HoldClaim, HoldRetry, HoldEnd,
                            HoldError, MoveTo, worker, Drives, TypeOK
  <2>5. ASSUME NEW q \in Procs, NEW i \in Jobs, session'[q][i] # 0, Kept(q, i)
        PROVE  Drives(q, i)' \/ Kept(q, i)'
    <3>1. PICK g \in holds : g.proc = q /\ g.job = i /\ g.session = session[q][i]
      BY <2>5 DEF Kept
    <3>2. session'[q][i] = session[q][i]
      BY <2>3, <2>5
    <3>3. CASE g # h
      <4>1. g \in holds'
        BY <1>7, <3>3 DEF Hold, HoldCheck, HoldBusy, HoldLock, HoldClaim, HoldRetry, HoldEnd,
                         HoldError, HoldMoves
      <4> QED BY <3>1, <3>2, <4>1 DEF Kept
    <3>4. CASE g = h
      <4>1. ASSUME NEW place, HoldMoves(h, place) PROVE Kept(q, i)'
        <5> DEFINE k == [h EXCEPT !.place = place]
        <5>1. k \in holds' /\ k.proc = q /\ k.job = i /\ k.session = session'[q][i]
          BY <2>1, <3>1, <3>2, <3>4, <4>1 DEF HoldMoves, Holds
        <5> HIDE DEF k
        <5> QED BY <5>1 DEF Kept
      <4>2. CASE HoldClaim(h)
        BY <2>1, <2>2, <3>1, <3>4, <4>2 DEF HoldClaim, MoveTo, Drives, TypeOK
      <4>3. CASE HoldError(h)
        BY <4>1, <4>3 DEF HoldError
      <4>4. CASE HoldEnd(h)
        <5>1. status[i] \in Active
          BY <2>1, <2>5, <3>1, <3>4, <4>4, DropOnly DEF HoldEnd
        <5>2. owner[i] = q /\ (status[i] = "queued" => Answered(i))
          BY <3>1, <5>1 DEF Tied, HandInv, HandOwns, HandTakes, Answered
        <5>3. CASE q \notin alive
          BY <3>1, <5>3 DEF DeadGone
        <5>4. CASE status[i] = "running" /\ q \in alive
          <6>1. Drives(q, i)
            BY <5>2, <5>4 DEF RunningDriven
          <6> QED BY <2>4, <6>1
        <5>5. CASE status[i] \in {"needs_input", "queued"} /\ q \in alive
          <6>1. Watched(q, i)
            BY <2>5, <3>2, <5>2, <5>5 DEF QuestionIsHeld, AnswerHeld
          <6>2. h.place = "done"
            BY <3>1, <3>4, <4>4, <5>5 DEF HoldEnd, Held
          <6>3. PICK g2 \in holds : /\ g2.proc = q /\ g2.job = i /\ g2.session = session[q][i]
                                    /\ g2.place # "done"
            BY <6>1 DEF Watched
          <6>4. g2 \in holds'
            BY <4>4, <6>2, <6>3 DEF HoldEnd
          <6> QED BY <3>2, <6>3, <6>4 DEF Kept
        <5> QED BY <5>1, <5>3, <5>4, <5>5 DEF Active
      <4> QED BY <1>7, <4>1, <4>2, <4>3, <4>4, HoldStepIs
    <3> QED BY <3>3, <3>4
  <2> QED BY <2>3, <2>4, <2>5, InHandKept
<1>8. ASSUME NEW p \in Procs, NEW j \in Jobs, CancelWrite(p, j) PROVE SessionWatched'
  <2>1. UNCHANGED <<holds, at, job>> /\ DropSession(p, j)
    BY <1>8 DEF CancelWrite, worker
  <2>2. \A q \in Procs, i \in Jobs : session'[q][i] # 0 => session'[q][i] = session[q][i]
    BY <2>1, DropOnly
  <2> QED BY <2>1, <2>2, InHandKept DEF Drives, Kept
<1>9. ASSUME NEW p \in Procs, NEW j \in Jobs, CancelRead(p, j) \/ RespondRead(p, j)
      PROVE  SessionWatched'
  BY <1>1, <1>9 DEF CancelRead, RespondRead, memory, worker
<1>10. ASSUME NEW r \in replies, RespondWrite(r) PROVE SessionWatched'
  BY <1>1, <1>10 DEF RespondWrite, memory, worker
<1>11. ASSUME NEW j \in Jobs, Submit(j) \/ SaveText(j) \/ Expire(j) PROVE SessionWatched'
  BY <1>1, <1>11 DEF Submit, SaveText, Expire, memory, worker
<1>12. CASE UNCHANGED vars
  BY <1>1, <1>12 DEF vars, memory, worker
<1> QED
  BY <1>2, <1>3, <1>4, <1>5, <1>6, <1>7, <1>8, <1>9, <1>10, <1>11, <1>12
  DEF Next, Worker, Run, Settle

\* Every open session is in hand, whatever is cancelled, answered or failed.
THEOREM SessionWatchedHolds == Spec => []SessionWatched
<1>1. Init => DeadGone /\ RunningDriven /\ AnswerHeld /\ SessionWatched
  BY DEF Init, DeadGone, RunningDriven, AnswerHeld, Answered, SessionWatched
<1> QED
  BY <1>1, TypeCorrect, HandCorrect, KnownHolds, QuestionIsHeldHolds, DeadStep, DrivenStep,
     AnswerStep, InHandStep, PTL DEF Spec

-----------------------------------------------------------------------------
(* The turns a job asks for.                                               *)

\* A worker's row stays as RunRow says when the worker stays where it was and
\* the row is only failed or cancelled.
LEMMA RunRowKept ==
  ASSUME RunRow,
         \A p \in Procs, j \in Jobs : Drives(p, j)' =>
           /\ Drives(p, j)
           /\ at'[p] = "finally" <=> at[p] = "finally"
           /\ \/ status'[j] \in {status[j], "failed", "cancelled"}
              \/ at[p] = "finally" /\ status'[j] # "running"
  PROVE  RunRow'
BY DEF RunRow

\* A step that takes a row for p's worker, and no other worker has that row.
LEMMA RunRowTaken ==
  ASSUME TypeOK, RunRow, NEW p \in Procs, NEW j \in Jobs,
         status' = [status EXCEPT ![j] = "running"],
         at' = [at EXCEPT ![p] = "run"],
         \A q \in Procs : q # p => job'[q] = job[q],
         job'[p] = j, \A q \in Procs \ {p} : ~Drives(q, j)
  PROVE  RunRow'
BY DEF RunRow, Drives, TypeOK

\* A worker finds its row running unless it failed or was cancelled, and leaves
\* it when it does not run.
LEMMA RunRowStep == TypeOK /\ TypeOK' /\ HandInv /\ RunRow /\ [Next]_vars => RunRow'
<1> SUFFICES ASSUME TypeOK, TypeOK', HandInv, RunRow, [Next]_vars PROVE RunRow'
  OBVIOUS
<1> USE DEF InRun, Free
<1>a. \A p, q \in Procs, j \in Jobs : Drives(p, j) /\ Tied(q, j) => p = q
  BY DEF HandInv, OneHand, Tied
<1>1. ASSUME NEW j \in Jobs, Submit(j) \/ SaveText(j) \/ Expire(j) PROVE RunRow'
  <2>1. /\ UNCHANGED <<at, job>>
        /\ \A i \in Jobs : status[i] # "absent" => status'[i] = status[i]
    BY <1>1 DEF Submit, SaveText, Expire, worker, TypeOK
  <2>2. \A p \in Procs, i \in Jobs : Drives(p, i) => status[i] # "absent"
    BY DEF HandInv, HandTakes, Tied
  <2> QED BY <2>1, <2>2, RunRowKept DEF Drives
<1>2. ASSUME NEW p \in Procs, Crash(p) PROVE RunRow'
  <2>1. /\ UNCHANGED status /\ at'[p] = Free
        /\ \A q \in Procs : q # p => at'[q] = at[q] /\ job'[q] = job[q]
    BY <1>2 DEF Crash, rows, TypeOK
  <2> QED BY <2>1, RunRowKept DEF Drives
<1>3. ASSUME NEW p \in Procs,
             StartWorker(p) \/ Recover(p) \/ Release(p) \/ Leave(p)
      PROVE  RunRow'
  <2>1. /\ at'[p] \notin InRun
        /\ \A q \in Procs : q # p => at'[q] = at[q] /\ job'[q] = job[q]
    BY <1>3 DEF StartWorker, Recover, Release, Leave, MoveTo, TypeOK
  <2>2. \A i \in Jobs : status'[i] \in {status[i], "failed"}
    BY <1>3 DEF StartWorker, Recover, Recovered, Release, Leave, rows
  <2> QED BY <2>1, <2>2, RunRowKept DEF Drives
<1>4. ASSUME NEW p \in Procs,
             Heartbeat(p) \/ OpenSession(p) \/ StartTurn(p) \/ Resume(p)
      PROVE  RunRow'
  <2>1. /\ at[p] \in InRun \ {"finally"} /\ at'[p] \in InRun \ {"finally"}
        /\ UNCHANGED <<status, job>> /\ \A q \in Procs : q # p => at'[q] = at[q]
    BY <1>4 DEF Heartbeat, OpenSession, StartTurn, Resume, Works, MoveTo, worker, rows, TypeOK
  <2> QED BY <2>1, RunRowKept DEF Drives
<1>5. ASSUME NEW p \in Procs, Claim(p) PROVE RunRow'
  <2>1. PICK j \in Jobs : /\ Claimable(p, j)
                          /\ status' = [status EXCEPT ![j] = "running"]
                          /\ job' = [job EXCEPT ![p] = j]
    BY <1>5 DEF Claim
  <2>2. at[p] = "claim" /\ at' = [at EXCEPT ![p] = "run"]
    BY <1>5 DEF Claim, MoveTo
  <2>3. \A q \in Procs : Drives(q, j) => at[q] = "finally" /\ owner[j] = q /\ response[j] # 0
    BY <2>1 DEF Claimable, HandInv, HandTakes, HandOwns, DriverRow, Tied, Active, Finished
  <2>4. \A q \in Procs : ~Drives(q, j)
    BY <2>1, <2>2, <2>3 DEF Claimable
  <2>5. job'[p] = j /\ \A q \in Procs : q # p => job'[q] = job[q]
    BY <2>1 DEF TypeOK
  <2> QED BY <2>1, <2>2, <2>4, <2>5, RunRowTaken
<1>6. ASSUME NEW p \in Procs, RunFails(p) \/ SeeStopped(p) \/ Ask(p) \/ Complete(p)
      PROVE  RunRow'
  <2>1. PICK j \in Jobs :
          /\ at[p] \in {"run", "turn", "consume"} /\ job[p] = j
          /\ \/ \E o \in Finished : FinishRunning(j, o)
             \/ status' = [status EXCEPT ![j] = "needs_input"] /\ UNCHANGED owner
             \/ UNCHANGED <<status, owner>> /\ status[j] # "running"
    BY <1>6 DEF RunFails, SeeStopped, Ask, Complete, Works, Finished, rows
  <2>2. /\ status'[j] # "running"
        /\ \A i \in Jobs : i # j => status'[i] = status[i]
    BY <2>1 DEF FinishRunning, Finished, TypeOK
  <2>3. UNCHANGED job /\ at' = [at EXCEPT ![p] = "finally"]
    BY <1>6 DEF RunFails, SeeStopped, Ask, Complete, MoveTo, worker
  <2>4. Drives(p, j)
    BY <2>1 DEF Drives
  <2>5. \A q \in Procs : Drives(q, j) => q = p
    BY <1>a, <2>4 DEF Tied
  <2> QED BY <2>1, <2>2, <2>3, <2>5 DEF RunRow, Drives, TypeOK
<1>7. ASSUME NEW h \in holds, Hold(h) PROVE RunRow'
  <2>1. h.proc \in Procs /\ h.job \in Jobs
    BY DEF TypeOK, Holds
  <2>2. h.place = "locked" => at[h.proc] = "holdclaim" /\ job[h.proc] = h.job
    BY DEF HandInv, LockHeld
  <2>3. CASE HoldClaim(h)
    <3>1. /\ status' = [status EXCEPT ![h.job] = "running"]
          /\ at' = [at EXCEPT ![h.proc] = "run"] /\ UNCHANGED job
          /\ at[h.proc] = "holdclaim" /\ job[h.proc] = h.job
      BY <2>2, <2>3 DEF HoldClaim, MoveTo
    <3>2. \A q \in Procs : Drives(q, h.job) => q = h.proc
      BY <1>a, <2>1 DEF Tied
    <3> QED BY <2>1, <3>1, <3>2, RunRowTaken
  <2>4. CASE ~HoldClaim(h)
    <3>1. \A i \in Jobs : status'[i] \in {status[i], "failed"}
      BY <1>7, <2>1, <2>4 DEF Hold, HoldCheck, HoldBusy, HoldLock, HoldRetry, HoldEnd, HoldError,
                              rows, TypeOK
    <3>2. \/ UNCHANGED <<at, job>>
          \/ /\ at'[h.proc] \notin InRun
             /\ \A q \in Procs : q # h.proc => at'[q] = at[q] /\ job'[q] = job[q]
      BY <1>7, <2>1, <2>4 DEF Hold, HoldCheck, HoldBusy, HoldLock, HoldRetry, HoldEnd,
                              HoldError, MoveTo, worker, TypeOK
    <3> QED BY <2>1, <3>1, <3>2, RunRowKept DEF Drives
  <2> QED BY <2>3, <2>4
<1>8. ASSUME NEW p \in Procs, NEW j \in Jobs,
             CancelRead(p, j) \/ CancelWrite(p, j) \/ RespondRead(p, j)
      PROVE  RunRow'
  <2>1. UNCHANGED <<at, job>>
    BY <1>8 DEF CancelRead, CancelWrite, RespondRead, worker
  <2>2. \A i \in Jobs : status'[i] \in {status[i], "failed", "cancelled"}
    BY <1>8 DEF CancelRead, CancelWrite, RespondRead, Recovered, rows, TypeOK
  <2> QED BY <2>1, <2>2, RunRowKept DEF Drives
<1>9. ASSUME NEW r \in replies, RespondWrite(r) PROVE RunRow'
  <2>1. UNCHANGED <<at, job>>
    BY <1>9 DEF RespondWrite, worker
  <2>2. \A i \in Jobs :
          status'[i] = status[i] \/ (status[i] = "needs_input" /\ status'[i] = "queued")
    BY <1>9 DEF RespondWrite, TypeOK, Replies
  <2>3. \A p \in Procs, i \in Jobs :
          Drives(p, i) /\ status[i] = "needs_input" => at[p] = "finally"
    BY DEF RunRow
  <2> QED BY <2>1, <2>2, <2>3, RunRowKept DEF Drives
<1>10. CASE UNCHANGED vars
  BY <1>10, RunRowKept DEF vars, rows, worker, Drives
<1> QED
  BY <1>1, <1>2, <1>3, <1>4, <1>5, <1>6, <1>7, <1>8, <1>9, <1>10 DEF Next, Worker, Run, Settle

\* The turns a job was owed.
TurnCount == Counted /\ PaidKept /\ TurnOwed /\ TurnsOwed

\* The count stays right when no turn is asked for, no failed or cancelled job
\* comes back, and a job that could be asked for again is either owed its next
\* turn or could be asked for before.
LEMMA CountKept ==
  ASSUME TypeOK, TypeOK', TurnCount, UNCHANGED <<turns, starters>>,
         \A j \in Jobs : early[j] <= early'[j],
         \A j \in Jobs : status'[j] \notin {"failed", "cancelled"} =>
           status[j] \notin {"failed", "cancelled"},
         \A j \in Jobs :
           status'[j] \in Active /\ owner'[j] \in alive' /\ session'[owner'[j]][j] = 0 =>
             \/ turns[j] <= early'[j]
             \/ status[j] \in Active /\ owner[j] \in alive /\ session[owner[j]][j] = 0,
         \A p \in Procs, j \in Jobs :
           Drives(p, j)' /\ at'[p] = "turn" /\ status'[j] = "running" =>
             \/ turns[j] <= early'[j]
             \/ Drives(p, j) /\ at[p] = "turn" /\ status[j] = "running"
  PROVE  TurnCount'
<1>1. \A j \in Jobs : turns[j] \in Nat /\ early[j] \in Nat /\ early'[j] \in Nat
  BY DEF TypeOK
<1>2. Counted'
  BY DEF TurnCount, Counted
<1>3. PaidKept'
  BY <1>1 DEF TurnCount, PaidKept
<1>4. TurnOwed'
  BY <1>1 DEF TurnCount, TurnOwed
<1>5. TurnsOwed'
  BY <1>1 DEF TurnCount, TurnsOwed
<1> QED BY <1>2, <1>3, <1>4, <1>5 DEF TurnCount

\* A job whose row nobody has taken yet asked for no turn.
LEMMA NewRow ==
  ASSUME TypeOK, HandInv, Counted, NEW j \in Jobs,
         status[j] = "absent" \/ (status[j] = "queued" /\ response[j] = 0)
  PROVE  turns[j] <= early[j]
<1>1. starters[j] = {}
  BY DEF HandInv, HandTakes, Tied, TypeOK
<1>2. turns[j] = 0
  BY <1>1 DEF Counted
<1> QED BY <1>2 DEF TypeOK

\* The steps of a worker that ask for no turn.
LEMMA WorkerCount ==
  ASSUME TypeOK, TypeOK', HandInv, RunRow, TurnCount, NEW p \in Procs,
         \/ StartWorker(p) \/ Recover(p) \/ Release(p) \/ Heartbeat(p) \/ Resume(p)
         \/ Ask(p) \/ SeeStopped(p) \/ Complete(p) \/ (RunFails(p) /\ UNCHANGED history)
         \/ OpenSession(p) \/ Claim(p) \/ Leave(p)
  PROVE  TurnCount'
<1> USE DEF InRun, Free
<1>a. \A j \in Jobs : early[j] \in Nat /\ early[j] <= early[j]
  BY DEF TypeOK
<1>1. CASE \/ StartWorker(p) \/ Recover(p) \/ Release(p) \/ Heartbeat(p) \/ Resume(p)
           \/ Ask(p) \/ SeeStopped(p) \/ Complete(p) \/ (RunFails(p) /\ UNCHANGED history)
  <2>1. /\ UNCHANGED <<turns, starters, early, alive, session>>
    BY <1>1 DEF StartWorker, Recover, Release, Heartbeat, Resume, Ask, SeeStopped, Complete,
                RunFails, memory, history
  <2>2. \A i \in Jobs :
          \/ status'[i] = status[i] /\ owner'[i] = owner[i]
          \/ status'[i] = "failed"
          \/ status[i] = "running" /\ status'[i] = "completed"
          \/ status[i] = "running" /\ status'[i] = "needs_input" /\ owner'[i] = owner[i]
    BY <1>1 DEF StartWorker, Recover, Recovered, Release, Heartbeat, Resume, Ask, SeeStopped,
                Complete, RunFails, FinishRunning, rows, TypeOK
  <2>3. /\ at'[p] = "turn" => at[p] = "turn" /\ job'[p] = job[p]
        /\ \A q \in Procs : q # p => at'[q] = at[q] /\ job'[q] = job[q]
    BY <1>1 DEF StartWorker, Recover, Release, Heartbeat, Resume, Ask, SeeStopped, Complete,
                RunFails, MoveTo, worker, TypeOK
  <2>4. \A i \in Jobs : status'[i] \notin {"failed", "cancelled"} =>
                          status[i] \notin {"failed", "cancelled"}
    BY <2>2
  <2>5. \A i \in Jobs :
          status'[i] \in Active /\ owner'[i] \in alive' /\ session'[owner'[i]][i] = 0 =>
            status[i] \in Active /\ owner[i] \in alive /\ session[owner[i]][i] = 0
    BY <2>1, <2>2 DEF Active
  <2>6. \A q \in Procs, i \in Jobs :
          Drives(q, i)' /\ at'[q] = "turn" /\ status'[i] = "running" =>
            Drives(q, i) /\ at[q] = "turn" /\ status[i] = "running"
    BY <2>2, <2>3 DEF Drives
  <2> QED BY <1>a, <2>1, <2>4, <2>5, <2>6, CountKept
<1>2. CASE OpenSession(p)
  <2>1. PICK j \in Jobs : /\ Works(p, "run", j) /\ session[p][j] = 0
                          /\ session' = [session EXCEPT ![p][j] = turns[j] + 1]
    BY <1>2 DEF OpenSession
  <2>2. /\ UNCHANGED <<turns, starters, early, status, owner, alive, job>>
        /\ at' = [at EXCEPT ![p] = "turn"]
    BY <1>2 DEF OpenSession, MoveTo, rows, history
  <2>3. \A q \in Procs, i \in Jobs : session'[q][i] = 0 => session[q][i] = 0
    BY <2>1 DEF TypeOK
  <2>4. status[j] = "running" => turns[j] <= early[j]
    <3>1. Tied(p, j)
      BY <2>1 DEF Works, Tied, Drives
    <3>2. status[j] = "running" => owner[j] = p
      BY <3>1 DEF HandInv, HandOwns, Active
    <3> QED BY <2>1, <3>2 DEF Works, TurnCount, PaidKept, Active
  <2>5. \A q \in Procs, i \in Jobs :
          Drives(q, i)' /\ at'[q] = "turn" /\ status'[i] = "running" =>
            turns[i] <= early'[i] \/ (Drives(q, i) /\ at[q] = "turn" /\ status[i] = "running")
    BY <2>1, <2>2, <2>4 DEF Drives, Works, TypeOK
  <2>6. \A i \in Jobs : owner[i] \in alive => owner[i] \in Procs
    BY DEF TypeOK
  <2> QED BY <1>a, <2>2, <2>3, <2>5, <2>6, CountKept
<1>3. CASE Claim(p)
  <2>1. PICK j \in Jobs : /\ Claimable(p, j)
                          /\ status' = [status EXCEPT ![j] = "running"]
                          /\ owner' = [owner EXCEPT ![j] = p]
                          /\ job' = [job EXCEPT ![p] = j]
    BY <1>3 DEF Claim
  <2>2. /\ UNCHANGED <<turns, starters, early, alive, session>> /\ p \in alive
        /\ at' = [at EXCEPT ![p] = "run"]
    BY <1>3 DEF Claim, MoveTo, memory, history
  <2>3. \A i \in Jobs : i # j => status'[i] = status[i] /\ owner'[i] = owner[i]
    BY <2>1 DEF TypeOK
  <2>4. status'[j] = "running" /\ owner'[j] = p /\ status[j] = "queued"
    BY <2>1 DEF Claimable, TypeOK
  <2>5. session[p][j] = 0 => turns[j] <= early[j]
    <3>1. CASE response[j] = 0
      BY <2>4, <3>1, NewRow DEF TurnCount
    <3>2. CASE response[j] # 0
      <4>1. owner[j] = p
        BY <2>1, <3>2 DEF Claimable
      <4> QED BY <2>2, <2>4, <4>1 DEF TurnCount, PaidKept, Active
    <3> QED BY <3>1, <3>2
  <2>6. \A i \in Jobs :
          status'[i] \in Active /\ owner'[i] \in alive' /\ session'[owner'[i]][i] = 0 =>
            \/ turns[i] <= early'[i]
            \/ status[i] \in Active /\ owner[i] \in alive /\ session[owner[i]][i] = 0
    BY <2>2, <2>3, <2>4, <2>5
  <2>7. \A q \in Procs : Drives(q, j) => at[q] = "finally"
    BY <2>4 DEF RunRow
  <2>8. \A q \in Procs, i \in Jobs :
          Drives(q, i)' /\ at'[q] = "turn" /\ status'[i] = "running" =>
            Drives(q, i) /\ at[q] = "turn" /\ status[i] = "running"
    BY <2>1, <2>2, <2>3, <2>7 DEF Drives, TypeOK
  <2>9. \A i \in Jobs : status'[i] \notin {"failed", "cancelled"} =>
                          status[i] \notin {"failed", "cancelled"}
    BY <2>3, <2>4
  <2> QED BY <1>a, <2>2, <2>6, <2>8, <2>9, CountKept
<1>4. CASE Leave(p)
  <2>1. PICK j \in Jobs :
          /\ Works(p, "finally", j)
          /\ IF status[j] = "needs_input" THEN UNCHANGED memory ELSE DropSession(p, j)
          /\ early' = [early EXCEPT ![j] = IF Answered(j) THEN @ + 1 ELSE @]
    BY <1>4 DEF Leave
  <2>2. /\ UNCHANGED <<turns, starters, status, owner, response, alive>>
        /\ at'[p] # "turn"
        /\ \A q \in Procs : q # p => at'[q] = at[q] /\ job'[q] = job[q]
    BY <1>4 DEF Leave, MoveTo, rows, TypeOK
  <2>3. \A i \in Jobs : early[i] <= early'[i]
    BY <2>1 DEF TypeOK
  <2>4. \A q \in Procs, i \in Jobs : i # j => session'[q][i] = session[q][i]
    BY <2>1, DropOnly DEF memory
  <2>5. Drives(p, j)
    BY <2>1 DEF Works, Drives
  <2>6. status[j] \in Active => status[j] = "needs_input" \/ Answered(j)
    BY <2>1, <2>5 DEF RunRow, Works, HandInv, HandTakes, Tied, Answered, Active
  <2>7. CASE Answered(j)
    <3>1. turns[j] <= early'[j]
      <4>1. early'[j] = early[j] + 1 /\ turns[j] \in Nat /\ early[j] \in Nat
        BY <2>1, <2>7 DEF TypeOK
      <4>2. turns[j] <= 1 + early[j]
        BY <2>7 DEF TurnCount, TurnsOwed, Answered
      <4> QED BY <4>1, <4>2
    <3>2. \A i \in Jobs :
            status'[i] \in Active /\ owner'[i] \in alive' /\ session'[owner'[i]][i] = 0 =>
              \/ turns[i] <= early'[i]
              \/ status[i] \in Active /\ owner[i] \in alive /\ session[owner[i]][i] = 0
      BY <2>2, <2>4, <3>1 DEF TypeOK
    <3>3. \A q \in Procs, i \in Jobs :
            Drives(q, i)' /\ at'[q] = "turn" /\ status'[i] = "running" =>
              Drives(q, i) /\ at[q] = "turn" /\ status[i] = "running"
      BY <2>2 DEF Drives
    <3> QED BY <2>2, <2>3, <3>2, <3>3, CountKept
  <2>8. CASE ~Answered(j)
    <3>1. status[j] \in Active => UNCHANGED session
      BY <2>1, <2>6, <2>8 DEF memory
    <3>2. \A i \in Jobs :
            status'[i] \in Active /\ owner'[i] \in alive' /\ session'[owner'[i]][i] = 0 =>
              status[i] \in Active /\ owner[i] \in alive /\ session[owner[i]][i] = 0
      BY <2>2, <2>4, <3>1 DEF TypeOK
    <3>3. \A q \in Procs, i \in Jobs :
            Drives(q, i)' /\ at'[q] = "turn" /\ status'[i] = "running" =>
              Drives(q, i) /\ at[q] = "turn" /\ status[i] = "running"
      BY <2>2 DEF Drives
    <3> QED BY <2>2, <2>3, <3>2, <3>3, CountKept
  <2> QED BY <2>7, <2>8
<1> QED BY <1>1, <1>2, <1>3, <1>4

\* A turn is asked for by the one worker of a job that is owed it, or of a job
\* that failed or was cancelled, and the session stays for its answer.
LEMMA PaidCount ==
  ASSUME TypeOK, TypeOK', HandInv, RunRow, TurnCount, NEW p \in Procs, NEW j \in Jobs,
         Works(p, "turn", j), session[p][j] # 0,
         turns' = [turns EXCEPT ![j] = @ + 1],
         starters' = [starters EXCEPT ![j] = @ \cup {p}],
         UNCHANGED <<early, alive, memory, job>>,
         MoveTo(p, "consume") \/ MoveTo(p, "finally"),
         UNCHANGED <<status, owner>> \/ FinishRunning(j, "failed")
  PROVE  TurnCount'
<1>1. Drives(p, j)
  BY DEF Works, Drives, InRun
<1>2. status[j] \in {"running", "failed", "cancelled"}
  BY <1>1 DEF RunRow, Works
<1>3. status[j] = "running" => turns[j] <= early[j] /\ owner[j] = p
  BY <1>1 DEF Works, TurnCount, TurnOwed, HandInv, HandOwns, Tied, Active
<1>4. \A q \in Procs : Drives(q, j) => q = p
  BY <1>1 DEF HandInv, OneHand, Tied
<1>5. /\ \A i \in Jobs : i # j => /\ status'[i] = status[i] /\ owner'[i] = owner[i]
                                  /\ turns'[i] = turns[i] /\ starters'[i] = starters[i]
      /\ turns'[j] = turns[j] + 1 /\ p \in starters'[j]
  BY DEF FinishRunning, TypeOK
<1>6. status'[j] \in {"failed", "cancelled"} \/ (status[j] = "running" /\ UNCHANGED <<status, owner>>)
  BY <1>2 DEF FinishRunning, TypeOK
<1>7. \A q \in Procs, i \in Jobs : Drives(q, i)' /\ at'[q] = "turn" => q # p /\ Drives(q, i) /\ at[q] = "turn"
  BY DEF MoveTo, Drives, TypeOK
<1>8. UNCHANGED session
  BY DEF memory
<1>9. Counted'
  BY <1>5 DEF TurnCount, Counted
<1>10. PaidKept'
  BY <1>3, <1>5, <1>6, <1>8 DEF TurnCount, PaidKept, Active
<1>11. TurnOwed'
  BY <1>4, <1>5, <1>7 DEF TurnCount, TurnOwed
<1>12. TurnsOwed'
  BY <1>3, <1>5, <1>6 DEF TurnCount, TurnsOwed, TypeOK
<1> QED BY <1>9, <1>10, <1>11, <1>12 DEF TurnCount

\* Holding threads, cancellations and answers ask for no turn and lose no session
\* of a row that goes on.
LEMMA TurnStep ==
  TypeOK /\ TypeOK' /\ HandInv /\ RunRow /\ TurnCount /\ [Next]_vars => TurnCount'
<1> SUFFICES ASSUME TypeOK, TypeOK', HandInv, RunRow, TurnCount, [Next]_vars
             PROVE  TurnCount'
  OBVIOUS
<1> USE DEF InRun, Free
<1>a. \A j \in Jobs : early[j] \in Nat /\ early[j] <= early[j]
  BY DEF TypeOK
<1>1. ASSUME NEW j \in Jobs, Submit(j) \/ SaveText(j) \/ Expire(j) PROVE TurnCount'
  <2>1. UNCHANGED <<turns, starters, early, owner, alive, session, at, job>>
    BY <1>1 DEF Submit, SaveText, Expire, memory, worker, history
  <2>2. \A i \in Jobs : status'[i] = status[i] \/ status[i] = "absent"
    BY <1>1 DEF Submit, SaveText, Expire, TypeOK
  <2>3. \A i \in Jobs : status[i] = "absent" => turns[i] <= early[i]
    BY NewRow DEF TurnCount
  <2> QED BY <1>a, <2>1, <2>2, <2>3, CountKept DEF Drives
<1>2. ASSUME NEW p \in Procs, Crash(p) PROVE TurnCount'
  <2>1. /\ UNCHANGED <<turns, starters, early, status, owner>>
        /\ alive' = alive \ {p} /\ at'[p] # "turn"
    BY <1>2 DEF Crash, rows, history, TypeOK
  <2>2. \A q \in Procs : q # p =>
          at'[q] = at[q] /\ job'[q] = job[q] /\ session'[q] = session[q]
    BY <1>2 DEF Crash, TypeOK
  <2>3. \A i \in Jobs : owner[i] \in alive' => owner[i] \in Procs \ {p}
    BY <2>1 DEF TypeOK
  <2> QED BY <1>a, <2>1, <2>2, <2>3, CountKept DEF Drives
<1>3. ASSUME NEW p \in Procs,
             \/ StartWorker(p) \/ Recover(p) \/ Release(p) \/ Heartbeat(p) \/ OpenSession(p)
             \/ Resume(p) \/ Ask(p) \/ SeeStopped(p) \/ Complete(p) \/ Leave(p) \/ Claim(p)
      PROVE  TurnCount'
  BY <1>3, WorkerCount
<1>4. ASSUME NEW p \in Procs, StartTurn(p) PROVE TurnCount'
  <2>1. PICK j \in Jobs : StartTurn(p)!(j)
    BY <1>4 DEF StartTurn
  <2> QED BY <2>1, PaidCount DEF rows
<1>5. ASSUME NEW p \in Procs, RunFails(p) PROVE TurnCount'
  <2>1. CASE UNCHANGED history
    BY <1>5, <2>1, WorkerCount
  <2>2. CASE ~UNCHANGED history
    <3>1. PICK j \in Jobs :
            /\ \E place \in {"run", "turn", "consume"} : Works(p, place, j)
            /\ FinishRunning(j, "failed") /\ at[p] = "turn" /\ session[p][j] # 0
            /\ turns' = [turns EXCEPT ![j] = @ + 1]
            /\ starters' = [starters EXCEPT ![j] = @ \cup {p}]
            /\ MoveTo(p, "finally") /\ UNCHANGED <<early, alive, memory, job>>
      BY <1>5, <2>2 DEF RunFails
    <3>2. Works(p, "turn", j)
      BY <3>1 DEF Works
    <3> QED BY <3>1, <3>2, PaidCount
  <2> QED BY <2>1, <2>2
<1>6. ASSUME NEW h \in holds, Hold(h) PROVE TurnCount'
  <2>1. h.proc \in Procs /\ h.job \in Jobs
    BY DEF TypeOK, Holds
  <2>2. UNCHANGED <<turns, starters, early, alive>>
    BY <1>6 DEF Hold, HoldCheck, HoldBusy, HoldLock, HoldClaim, HoldRetry, HoldEnd, HoldError,
                history
  <2>3. /\ \A q \in Procs : at'[q] = "turn" => at[q] = "turn" /\ job'[q] = job[q]
    BY <1>6, <2>1 DEF Hold, HoldCheck, HoldBusy, HoldLock, HoldClaim, HoldRetry, HoldEnd,
                      HoldError, MoveTo, worker, TypeOK, HandInv, LockHeld
  <2>4. \A i \in Jobs :
          \/ status'[i] = status[i] /\ owner'[i] = owner[i]
          \/ status'[i] = "failed"
          \/ i = h.job /\ HoldClaim(h)
    BY <1>6, <2>1 DEF Hold, HoldCheck, HoldBusy, HoldLock, HoldClaim, HoldRetry, HoldEnd,
                      HoldError, rows, TypeOK
  <2>5. HoldClaim(h) => /\ status[h.job] = "queued" /\ owner[h.job] = h.proc
                        /\ owner'[h.job] = h.proc
    BY <2>1 DEF HoldClaim, Answered, HandInv, HandOwns, Tied, Active, TypeOK
  <2>6. \A q \in Procs, i \in Jobs : status[i] \in Active => session'[q][i] = session[q][i]
    BY <1>6, <2>1, HoldStepIs, DropOnly DEF memory
  <2>7. \A i \in Jobs :
          status'[i] \in Active /\ owner'[i] \in alive' /\ session'[owner'[i]][i] = 0 =>
            status[i] \in Active /\ owner[i] \in alive /\ session[owner[i]][i] = 0
    BY <2>1, <2>2, <2>4, <2>5, <2>6 DEF Active, TypeOK
  <2>8. \A i \in Jobs : status'[i] \notin {"failed", "cancelled"} =>
                          status[i] \notin {"failed", "cancelled"}
    BY <2>4, <2>5
  <2>9. \A q \in Procs : Drives(q, h.job) /\ at[q] = "turn" => ~HoldClaim(h)
    BY <2>1, <2>5 DEF RunRow
  <2>10. \A q \in Procs, i \in Jobs :
           Drives(q, i)' /\ at'[q] = "turn" /\ status'[i] = "running" =>
             Drives(q, i) /\ at[q] = "turn" /\ status[i] = "running"
    BY <2>3, <2>4, <2>9 DEF Drives
  <2> QED BY <1>a, <2>2, <2>7, <2>8, <2>10, CountKept
<1>7. ASSUME NEW p \in Procs, NEW j \in Jobs,
             CancelRead(p, j) \/ CancelWrite(p, j) \/ RespondRead(p, j)
      PROVE  TurnCount'
  <2>1. UNCHANGED <<turns, starters, early, alive, at, job>>
    BY <1>7 DEF CancelRead, CancelWrite, RespondRead, worker, history
  <2>2. \A i \in Jobs :
          \/ status'[i] \in {"failed", "cancelled"}
          \/ status'[i] = status[i] /\ owner'[i] = owner[i]
    BY <1>7 DEF CancelRead, CancelWrite, RespondRead, Recovered, rows, TypeOK
  <2>3. \A q \in Procs, i \in Jobs :
          session'[q][i] = session[q][i] \/ status'[i] = "cancelled"
    <3>1. CASE CancelWrite(p, j)
      BY <3>1, DropOnly DEF CancelWrite, TypeOK
    <3>2. CASE CancelRead(p, j) \/ RespondRead(p, j)
      BY <3>2 DEF CancelRead, RespondRead, memory
    <3> QED BY <1>7, <3>1, <3>2
  <2>4. ASSUME NEW i \in Jobs, status'[i] \in Active, owner'[i] \in alive',
               session'[owner'[i]][i] = 0
        PROVE  status[i] \in Active /\ owner[i] \in alive /\ session[owner[i]][i] = 0
    <3>1. status'[i] = status[i] /\ owner'[i] = owner[i]
      BY <2>2, <2>4 DEF Active
    <3>2. owner[i] \in Procs /\ status'[i] # "cancelled"
      BY <2>1, <2>4, <3>1 DEF Active, TypeOK
    <3> QED BY <2>1, <2>3, <2>4, <3>1, <3>2
  <2>5. \A q \in Procs, i \in Jobs :
          Drives(q, i)' /\ at'[q] = "turn" /\ status'[i] = "running" =>
            Drives(q, i) /\ at[q] = "turn" /\ status[i] = "running"
    BY <2>1, <2>2 DEF Drives
  <2>6. \A i \in Jobs : status'[i] \notin {"failed", "cancelled"} =>
                          status[i] \notin {"failed", "cancelled"}
    BY <2>2
  <2> QED BY <1>a, <2>1, <2>4, <2>5, <2>6, CountKept
<1>8. ASSUME NEW r \in replies, RespondWrite(r) PROVE TurnCount'
  <2>1. UNCHANGED <<turns, starters, early, owner, alive, session, at, job>>
    BY <1>8 DEF RespondWrite, memory, worker, history
  <2>2. \A i \in Jobs :
          status'[i] = status[i] \/ (status[i] = "needs_input" /\ status'[i] = "queued")
    BY <1>8 DEF RespondWrite, TypeOK, Replies
  <2> QED BY <1>a, <2>1, <2>2, CountKept DEF Active, Drives
<1>9. CASE UNCHANGED vars
  BY <1>9, <1>a, CountKept DEF vars, rows, memory, worker, history, Drives
<1> QED
  BY <1>1, <1>2, <1>3, <1>4, <1>5, <1>6, <1>7, <1>8, <1>9 DEF Next, Worker, Run, Settle

\* A job that neither failed nor was cancelled asks for one turn, and for one more
\* with each answer that was there before the turn that asked had ended: no crash,
\* expired lease, second process or late thread makes it pay again.
THEOREM TurnsOwedHolds == Spec => []TurnsOwed
<1>1. Init => RunRow /\ TurnCount
  BY DEF Init, RunRow, Drives, InRun, Free, TurnCount, Counted, PaidKept, TurnOwed, TurnsOwed, Active
<1>2. TurnCount => TurnsOwed
  BY DEF TurnCount
<1> QED
  BY <1>1, <1>2, TypeCorrect, HandCorrect, RunRowStep, TurnStep, PTL DEF Spec
=============================================================================
