------------------------ MODULE BridgeCommands_proofs ------------------------
(***************************************************************************)
(* Theorems about BridgeCommands for every set of commands and results,    *)
(* every size of the history and every number of failures.  That an        *)
(* expired command never ran holds for any number of bridges; the theorems *)
(* about executions and results assume one bridge.                         *)
(***************************************************************************)
EXTENDS BridgeCommands, FiniteSetTheorems, TLAPS

\* The initial state is typed.
LEMMA TypeInit == Init => TypeOK /\ CmdInv
BY CommandAssumption DEF Init, TypeOK, CmdInv, Working, Nothing, Open, Settled

\* The keys of a history are commands.
LEMMA KeysType ==
  ASSUME TypeOK, NEW b \in Bridges, cmd[b] \in Cmds
  PROVE  /\ Kept(b) \in Seq(Cmds)
         /\ Entries(b) \in [Cmds -> Results \cup {None}]
<1>1. Keys(b) \in Seq(Cmds) /\ Keys(b) # <<>>
  <2>1. order[b] \in Seq(Cmds)
    BY DEF TypeOK
  <2> QED BY <2>1 DEF Keys
<1>2. Kept(b) \in Seq(Cmds)
  BY <1>1 DEF Kept, Forget
<1>3. Entries(b) \in [Cmds -> Results \cup {None}]
  BY DEF Entries, TypeOK
<1> QED BY <1>2, <1>3

\* The keys of the history file are a sequence of commands.
LEMMA SortingsType ==
  ASSUME NEW S \in SUBSET Cmds, NEW s \in Sortings(S)
  PROVE  s \in Seq(Cmds)
<1>1. Cardinality(S) \in Nat
  BY CommandAssumption, FS_Subset, FS_CardinalityType
<1>2. s \in [1..Cardinality(S) -> Cmds]
  BY DEF Sortings
<1> QED BY <1>1, <1>2

\* Every action keeps the types.
LEMMA TypeStep == TypeOK /\ CmdInv /\ [Next]_vars => TypeOK' /\ CmdInv'
<1> SUFFICES ASSUME TypeOK, CmdInv, [Next]_vars PROVE TypeOK' /\ CmdInv'
  OBVIOUS
<1> USE CommandAssumption
    DEF TypeOK, CmdInv, Working, server, times, claim, bridge, history, effects, faults
<1>1. ASSUME NEW c \in Cmds, Enqueue(c) \/ Late(c) \/ Stale(c) PROVE TypeOK' /\ CmdInv'
  <2>1. CASE Enqueue(c)
    BY <2>1 DEF Enqueue, Open, Settled
  <2>2. CASE Late(c)
    BY <2>2 DEF Late
  <2>3. CASE Stale(c)
    BY <2>3 DEF Stale
  <2> QED BY <1>1, <2>1, <2>2, <2>3
<1>2. ASSUME Expire
      PROVE  /\ status' \in [Cmds -> {"none"} \cup Open \cup Settled]
             /\ answer' \in [Cmds -> Results \cup {None, Expired}]
  BY <1>2 DEF Expire, Open, Settled
<1>3. CASE ListCommands
  BY <1>2, <1>3 DEF ListCommands
<1>4. ASSUME NEW b \in Bridges, Handler(b) \/ Sync(b) \/ Faults(b) PROVE TypeOK' /\ CmdInv'
  <2>1. CASE ClaimExpire(b)
    BY <1>2, <2>1 DEF ClaimExpire
  <2>2. CASE ClaimSelect(b)
    BY <2>2 DEF ClaimSelect
  <2>3. CASE ClaimRow(b)
    <3>1. PICK c \in rows[b] : ClaimRow(b)!2!(c)
      BY <2>3 DEF ClaimRow
    <3>2. CASE status[c] = "pending" \/ (status[c] = "claimed" /\ c \in old[b])
      <4>1. c \in Cmds
        BY <3>1
      <4>2. status' \in [Cmds -> {"none"} \cup Open \cup Settled]
        BY <3>1, <3>2, <4>1 DEF Open, Settled
      <4>3. mine' \in [Bridges -> SUBSET Cmds]
        <5>1. mine[b] \cup {c} \in SUBSET Cmds
          BY <4>1
        <5>2. mine' = [mine EXCEPT ![b] = mine[b] \cup {c}]
          BY <3>1, <3>2
        <5> QED BY <5>1, <5>2
      <4>5. old' \in [Bridges -> SUBSET Cmds]
        BY <3>1, <3>2
      <4>4. rows' \in [Bridges -> SUBSET Cmds] /\ stale' \subseteq Cmds
        BY <3>1, <3>2, <4>1
      <4> QED BY <2>3, <4>2, <4>3, <4>4, <4>5 DEF ClaimRow
    <3>3. CASE ~(status[c] = "pending" \/ (status[c] = "claimed" /\ c \in old[b]))
      BY <2>3, <3>1, <3>3 DEF ClaimRow
    <3> QED BY <3>2, <3>3
  <2>4. CASE Receive(b)
    <3>1. CASE pc[b] = "wait"
      <4>1. mine[b] \in SUBSET Cmds
        OBVIOUS
      <4>2. list' \in [Bridges -> SUBSET Cmds]
        BY <2>4, <3>1, <4>1 DEF Receive
      <4>3. pc' = [pc EXCEPT ![b] = "work"]
        BY <2>4, <3>1 DEF Receive
      <4>4. \A x \in Bridges : pc'[x] \in Working => pc[x] \in Working
        BY <4>3
      <4> QED BY <2>4, <3>1, <4>2, <4>3, <4>4 DEF Receive
    <3>2. CASE pc[b] # "wait"
      BY <2>4, <3>2 DEF Receive
    <3> QED BY <3>1, <3>2
  <2>5. CASE ClaimFails(b)
    <3>1. CASE pc[b] = "wait"
      <4>1. Rest(b)
        BY <2>5, <3>1 DEF ClaimFails
      <4>2. \A x \in Bridges : pc'[x] \in Working => pc[x] \in Working /\ cmd'[x] = cmd[x]
        BY <4>1 DEF Rest
      <4>3. /\ pc' = [pc EXCEPT ![b] = "idle"]
            /\ list' \in [Bridges -> SUBSET Cmds]
            /\ cmd' = [cmd EXCEPT ![b] = None]
            /\ got' = got
        BY <4>1 DEF Rest
      <4>4. CmdInv'
        BY <4>2
      <4>5. TypeOK'
        BY <2>5, <4>3 DEF ClaimFails
      <4> QED BY <4>4, <4>5
    <3>2. CASE pc[b] # "wait"
      BY <2>5, <3>2 DEF ClaimFails
    <3> QED BY <3>1, <3>2
  <2>6. CASE Start(b)
    <3>1. order' \in [Bridges -> Seq(Cmds)]
      <4>1. PICK s \in Sortings({c \in Cmds : disk[c] # None}) : order' = [order EXCEPT ![b] = s]
        BY <2>6 DEF Start
      <4>2. s \in Seq(Cmds)
        BY SortingsType, {c \in Cmds : disk[c] # None} \in SUBSET Cmds
      <4> QED BY <4>1, <4>2
    <3> QED BY <2>6, <3>1 DEF Start
  <2>7. CASE Ask(b)
    BY <2>7 DEF Ask
  <2>8. CASE Execute(b)
    BY <2>8 DEF Execute
  <2>9. CASE Cached(b)
    <3>1. PICK c \in list[b] : cmd' = [cmd EXCEPT ![b] = c]
      BY <2>9 DEF Cached
    <3>2. c \in Cmds
      OBVIOUS
    <3>3. cmd' \in [Bridges -> Cmds \cup {None}] /\ cmd'[b] \in Cmds
      BY <3>1, <3>2
    <3>4. pc' = [pc EXCEPT ![b] = "post"]
      BY <2>9 DEF Cached
    <3>5. CmdInv'
      BY <3>1, <3>3, <3>4
    <3> QED BY <2>9, <3>3, <3>4, <3>5 DEF Cached
  <2>10. CASE Record(b)
    <3>1. cmd[b] \in Cmds
      BY <2>10 DEF Record
    <3>2. Kept(b) \in Seq(Cmds) /\ Entries(b) \in [Cmds -> Results \cup {None}]
      BY <3>1, KeysType
    <3>3. log' \in Seq(Cmds)
      BY <2>10, <3>1 DEF Record
    <3> QED BY <2>10, <3>1, <3>2, <3>3 DEF Record, Remember, Written
  <2>11. CASE RecordFails(b)
    <3>1. cmd[b] \in Cmds
      BY <2>11 DEF RecordFails
    <3>2. Kept(b) \in Seq(Cmds) /\ Entries(b) \in [Cmds -> Results \cup {None}]
      BY <3>1, KeysType
    <3> QED BY <2>11, <3>1, <3>2 DEF RecordFails, Remember, Rest
  <2>12. CASE Post(b)
    <3>1. cmd[b] \in Cmds
      BY <2>12 DEF Post
    <3>2. Posted(b) \in Results \cup {None}
      <4>1. memory[b] \in [Cmds -> Results \cup {None}]
        OBVIOUS
      <4> QED BY <3>1, <4>1 DEF Posted
    <3>5. Outcome(Posted(b)) \in Settled
      BY DEF Outcome, Settled
    <3>3. CASE status[cmd[b]] = "claimed"
      <4>1. status' \in [Cmds -> {"none"} \cup Open \cup Settled]
        <5>1. status' = [status EXCEPT ![cmd[b]] = Outcome(Posted(b))]
          BY <2>12, <3>3 DEF Post
        <5> QED BY <3>1, <3>5, <5>1
      <4>2. answer' \in [Cmds -> Results \cup {None, Expired}]
        <5>1. answer' = [answer EXCEPT ![cmd[b]] = Posted(b)]
          BY <2>12, <3>3 DEF Post
        <5> QED BY <3>1, <3>2, <5>1
      <4>3. pc' = [pc EXCEPT ![b] = "done"]
        BY <2>12, <3>3 DEF Post
      <4> QED BY <2>12, <3>1, <4>1, <4>2, <4>3 DEF Post
    <3>4. CASE status[cmd[b]] # "claimed"
      BY <2>12, <3>1, <3>4 DEF Post
    <3> QED BY <3>3, <3>4
  <2>13. CASE Done(b)
    BY <2>13 DEF Done
  <2>14. CASE Over(b)
    BY <2>14 DEF Over, Rest
  <2>15. CASE Crash(b)
    BY <2>15 DEF Crash, Nothing
  <2>16. CASE Abort(b)
    BY <2>16 DEF Abort, Rest
  <2> QED
    BY <1>4, <2>1, <2>2, <2>3, <2>4, <2>5, <2>6, <2>7, <2>8, <2>9, <2>10, <2>11, <2>12,
       <2>13, <2>14, <2>15, <2>16 DEF Handler, Sync, Faults
<1>5. CASE UNCHANGED vars
  BY <1>5 DEF vars
<1> QED
  BY <1>1, <1>3, <1>4, <1>5 DEF Next

\* Type correctness, for any number of bridges.
THEOREM TypeCorrect == Spec => [](TypeOK /\ CmdInv)
BY TypeInit, TypeStep, PTL DEF Spec

-----------------------------------------------------------------------------
\* What the steps below use of the types.
LEMMA GivenInit == Init => GivenInv
BY CommandAssumption DEF Init, GivenInv, Nothing

\* expireCommands() fails no command that was given to a bridge.
LEMMA ExpireGiven ==
  ASSUME TypeOK, GivenInv, Expire, UNCHANGED <<mine, list, runs>>
  PROVE  GivenInv'
<1> SUFFICES ASSUME NEW c \in Cmds
             PROVE  /\ runs[c] > 0 \/ (\E b \in Bridges : c \in mine[b] \cup list[b]) =>
                         status'[c] \in {"claimed"} \cup Settled /\ answer'[c] # Expired
                    /\ answer'[c] = Expired => status'[c] = "failed"
  BY DEF GivenInv
<1>1. CASE Expirable(c)
  BY <1>1 DEF Expire, Expirable, GivenInv, Settled
<1>2. CASE ~Expirable(c)
  BY <1>2 DEF Expire, GivenInv
<1> QED BY <1>1, <1>2

\* Every action keeps what was given and what expired apart.
LEMMA GivenStep == TypeOK /\ CmdInv /\ GivenInv /\ [Next]_vars => GivenInv'
<1> SUFFICES ASSUME TypeOK, CmdInv, GivenInv, [Next]_vars PROVE GivenInv'
  OBVIOUS
<1> USE CommandAssumption
    DEF TypeOK, Working, server, times, claim, bridge, history, effects, faults
<1>1. ASSUME NEW c \in Cmds, Enqueue(c) \/ Late(c) \/ Stale(c) PROVE GivenInv'
  <2>1. CASE Enqueue(c)
    BY <2>1 DEF GivenInv, Enqueue, Open, Settled
  <2>2. CASE Late(c) \/ Stale(c)
    BY <2>2 DEF GivenInv, Late, Stale
  <2> QED BY <1>1, <2>1, <2>2
<1>2. CASE ListCommands
  BY <1>2, ExpireGiven DEF ListCommands
<1>3. ASSUME NEW b \in Bridges, Handler(b) \/ Sync(b) \/ Faults(b) PROVE GivenInv'
  <2>1. CASE ClaimExpire(b)
    BY <2>1, ExpireGiven DEF ClaimExpire
  <2>2. ASSUME UNCHANGED <<server, runs>>,
               \A x \in Bridges : mine'[x] \cup list'[x] \subseteq mine[x] \cup list[x]
        PROVE  GivenInv'
    BY <2>2 DEF GivenInv
  <2>3. CASE ClaimSelect(b)
    BY <2>2, <2>3 DEF ClaimSelect
  <2>4. CASE ClaimRow(b)
    <3>1. PICK c \in rows[b] : ClaimRow(b)!2!(c)
      BY <2>4 DEF ClaimRow
    <3>2. CASE status[c] = "pending" \/ (status[c] = "claimed" /\ c \in old[b])
      <4>1. c \in Cmds /\ status' = [status EXCEPT ![c] = "claimed"]
        BY <3>1, <3>2
      <4>5. mine' = [mine EXCEPT ![b] = mine[b] \cup {c}]
        BY <3>1, <3>2
      <4>2. \A x \in Bridges : mine'[x] \subseteq mine[x] \cup {c}
        BY <4>5
      <4>3. UNCHANGED <<answer, list, runs>>
        BY <2>4 DEF ClaimRow
      <4>4. answer[c] # Expired
        BY <3>2, <4>1 DEF GivenInv
      <4> QED BY <4>1, <4>2, <4>3, <4>4 DEF GivenInv, Settled
    <3>3. CASE ~(status[c] = "pending" \/ (status[c] = "claimed" /\ c \in old[b]))
      BY <2>2, <2>4, <3>1, <3>3 DEF ClaimRow
    <3> QED BY <3>2, <3>3
  <2>5. CASE Receive(b)
    BY <2>2, <2>5 DEF Receive
  <2>6. CASE ClaimFails(b)
    <3>1. CASE pc[b] = "wait"
      BY <2>2, <2>6, <3>1 DEF ClaimFails, Rest
    <3>2. CASE pc[b] # "wait"
      BY <2>2, <2>6, <3>2 DEF ClaimFails
    <3> QED BY <3>1, <3>2
  <2>7. CASE Start(b)
    BY <2>2, <2>7 DEF Start
  <2>8. CASE Ask(b)
    BY <2>2, <2>8 DEF Ask
  <2>9. CASE Execute(b)
    <3>1. PICK c \in list[b], r \in Results : runs' = [runs EXCEPT ![c] = @ + 1]
      BY <2>9 DEF Execute
    <3>2. c \in Cmds /\ status[c] \in {"claimed"} \cup Settled /\ answer[c] # Expired
      BY <3>1 DEF GivenInv
    <3>3. \A x \in Cmds : x # c => runs'[x] = runs[x]
      BY <3>1
    <3> QED BY <2>9, <3>2, <3>3 DEF Execute, GivenInv
  <2>10. CASE Cached(b)
    BY <2>2, <2>10 DEF Cached
  <2>11. CASE Record(b)
    BY <2>2, <2>11 DEF Record
  <2>12. CASE RecordFails(b)
    BY <2>2, <2>12 DEF RecordFails, Rest
  <2>13. CASE Post(b)
    <3>1. cmd[b] \in Cmds
      BY <2>13 DEF Post, CmdInv
    <3>2. CASE status[cmd[b]] = "claimed"
      <4>1. memory[b] \in [Cmds -> Results \cup {None}]
        OBVIOUS
      <4>2. Posted(b) # Expired
        BY <3>1, <4>1 DEF Posted
      <4>3. Outcome(Posted(b)) \in Settled
        BY DEF Outcome, Settled
      <4>4. /\ status' = [status EXCEPT ![cmd[b]] = Outcome(Posted(b))]
            /\ answer' = [answer EXCEPT ![cmd[b]] = Posted(b)]
            /\ UNCHANGED <<mine, list, runs>>
        BY <2>13, <3>2 DEF Post
      <4> QED BY <3>1, <4>2, <4>3, <4>4 DEF GivenInv
    <3>3. CASE status[cmd[b]] # "claimed"
      BY <2>2, <2>13, <3>3 DEF Post
    <3> QED BY <3>2, <3>3
  <2>14. CASE Done(b)
    BY <2>2, <2>14 DEF Done
  <2>15. CASE Over(b)
    BY <2>2, <2>15 DEF Over, Rest
  <2>16. CASE Crash(b)
    BY <2>2, <2>16 DEF Crash
  <2>17. CASE Abort(b)
    BY <2>2, <2>17 DEF Abort, Rest
  <2> QED
    BY <1>3, <2>1, <2>3, <2>4, <2>5, <2>6, <2>7, <2>8, <2>9, <2>10, <2>11, <2>12,
       <2>13, <2>14, <2>15, <2>16, <2>17 DEF Handler, Sync, Faults
<1>4. CASE UNCHANGED vars
  BY <1>4 DEF vars, GivenInv
<1> QED
  BY <1>1, <1>2, <1>3, <1>4 DEF Next

\* An expired command was given to nobody, for any number of bridges.
LEMMA GivenExpired == TypeOK /\ GivenInv => ExpiredNeverRun
BY DEF TypeOK, GivenInv, ExpiredNeverRun

\* However claims, expiry and the owner's page interleave, a command reported
\* as expired before the laptop accepted it was never executed.
THEOREM ExpiredNeverRunHolds == Spec => []ExpiredNeverRun
BY TypeInit, TypeStep, GivenInit, GivenStep, GivenExpired, PTL DEF Spec

-----------------------------------------------------------------------------
\* expireCommands() changes no claimed command.
LEMMA ExpireClaimed ==
  ASSUME TypeOK, Expire, NEW c \in Cmds, status[c] = "claimed"
  PROVE  status'[c] = "claimed" /\ answer'[c] = answer[c]
BY DEF Expire, Expirable

\* Every action of a single bridge keeps its commands claimed.
LEMMA ClaimStep ==
  ASSUME NEW b \in Bridges, Bridges = {b}
  PROVE  TypeOK /\ CmdInv /\ ClaimInv /\ [Next]_vars => ClaimInv'
<1> SUFFICES ASSUME TypeOK, CmdInv, ClaimInv, [Next]_vars PROVE ClaimInv'
  OBVIOUS
<1> USE CommandAssumption
    DEF TypeOK, Working, Away, server, times, claim, bridge, history, effects, faults
<1>1. ASSUME NEW c \in Cmds, Enqueue(c) \/ Late(c) \/ Stale(c) PROVE ClaimInv'
  <2>1. \A x \in Cmds : status[x] = "claimed" => status'[x] = "claimed"
    BY <1>1 DEF Enqueue, Late, Stale
  <2>2. UNCHANGED <<claim, bridge>>
    BY <1>1 DEF Enqueue, Late, Stale
  <2> QED BY <2>1, <2>2 DEF ClaimInv
<1>2. ASSUME Expire, UNCHANGED <<mine, bridge>>,
             handler'[b] = "idle" => handler[b] = "idle",
             handler[b] = "idle" => handler'[b] = "idle"
      PROVE  ClaimInv'
  <2>1. \A c \in mine[b] \cup list[b] : status[c] = "claimed" => status'[c] = "claimed"
    BY <1>2, ExpireClaimed
  <2> QED BY <1>2, <2>1 DEF ClaimInv
<1>3. CASE ListCommands
  BY <1>2, <1>3 DEF ListCommands
<1>4. CASE ClaimExpire(b)
  BY <1>2, <1>4 DEF ClaimExpire
<1>5. CASE ClaimSelect(b)
  BY <1>5 DEF ClaimSelect, ClaimInv
<1>6. CASE ClaimRow(b)
  <2>1. PICK c \in rows[b] : ClaimRow(b)!2!(c)
    BY <1>6 DEF ClaimRow
  <2>2. CASE status[c] = "pending" \/ (status[c] = "claimed" /\ c \in old[b])
    <3>1. c \in Cmds /\ status' = [status EXCEPT ![c] = "claimed"]
      BY <2>1, <2>2
    <3>2. mine' = [mine EXCEPT ![b] = mine[b] \cup {c}]
      BY <2>1, <2>2
    <3>3. UNCHANGED <<handler, pc, list, cmd>> /\ handler[b] = "claim"
      BY <1>6 DEF ClaimRow
    <3>4. mine'[b] = mine[b] \cup {c}
      BY <3>2
    <3>6. \A x \in Cmds : x = c \/ status[x] = "claimed" => status'[x] = "claimed"
      BY <3>1
    <3>7. \A x \in mine[b] : x \in Cmds /\ status[x] = "claimed"
      BY DEF ClaimInv
    <3>5. \A x \in mine'[b] : status'[x] = "claimed"
      BY <3>1, <3>4, <3>6, <3>7
    <3> QED BY <3>1, <3>3, <3>5 DEF ClaimInv
  <2>3. CASE ~(status[c] = "pending" \/ (status[c] = "claimed" /\ c \in old[b]))
    <3>1. UNCHANGED <<status, mine, handler, pc, list, cmd>>
      BY <1>6, <2>1, <2>3 DEF ClaimRow
    <3> QED BY <3>1 DEF ClaimInv
  <2> QED BY <2>2, <2>3
<1>7. CASE Receive(b)
  <2>1. CASE pc[b] = "wait"
    <3>1. pc'[b] = "work" /\ list'[b] = mine[b] /\ mine'[b] = {} /\ handler'[b] = "idle"
      BY <1>7, <2>1 DEF Receive
    <3>2. UNCHANGED <<status, cmd>>
      BY <1>7 DEF Receive
    <3>3. \A c \in list'[b] : status'[c] = "claimed"
      BY <3>1, <3>2 DEF ClaimInv
    <3>4. pc'[b] \notin Away /\ pc'[b] \notin Working
      BY <3>1
    <3> QED BY ONLY Bridges = {b}, <3>1, <3>3, <3>4 DEF ClaimInv
  <2>2. CASE pc[b] # "wait"
    BY <1>7, <2>2 DEF Receive, ClaimInv
  <2> QED BY <2>1, <2>2
<1>8. CASE ClaimFails(b)
  <2>1. CASE pc[b] = "wait"
    BY <1>8, <2>1 DEF ClaimFails, Rest, ClaimInv
  <2>2. CASE pc[b] # "wait"
    BY <1>8, <2>2 DEF ClaimFails, ClaimInv
  <2> QED BY <2>1, <2>2
<1>9. CASE Start(b)
  BY <1>9 DEF Start, ClaimInv
<1>10. CASE Ask(b)
  BY <1>10 DEF Ask, ClaimInv
<1>11. CASE Execute(b)
  BY <1>11 DEF Execute, ClaimInv
<1>12. CASE Cached(b)
  BY <1>12 DEF Cached, ClaimInv
<1>13. CASE Record(b)
  BY <1>13 DEF Record, ClaimInv
<1>14. CASE RecordFails(b)
  BY <1>14 DEF RecordFails, Rest, ClaimInv
<1>15. CASE Post(b)
  <2>1. cmd[b] \in list[b] /\ status[cmd[b]] = "claimed" /\ handler[b] = "idle"
    BY <1>15 DEF Post, ClaimInv
  <2>2. /\ status' = [status EXCEPT ![cmd[b]] = Outcome(Posted(b))]
        /\ pc' = [pc EXCEPT ![b] = "done"]
        /\ UNCHANGED <<handler, mine, list, cmd>>
    BY <1>15, <2>1 DEF Post
  <2> QED BY <2>1, <2>2 DEF ClaimInv
<1>16. CASE Done(b)
  BY <1>16 DEF Done, ClaimInv
<1>17. CASE Over(b)
  BY <1>17 DEF Over, Rest, ClaimInv
<1>18. CASE Crash(b)
  BY <1>18 DEF Crash, ClaimInv
<1>19. CASE Abort(b)
  BY <1>19 DEF Abort, Rest, ClaimInv
<1>20. CASE UNCHANGED vars
  BY <1>20 DEF vars, ClaimInv
<1> QED
  BY <1>1, <1>3, <1>4, <1>5, <1>6, <1>7, <1>8, <1>9, <1>10, <1>11, <1>12, <1>13, <1>14,
     <1>15, <1>16, <1>17, <1>18, <1>19, <1>20 DEF Next, Handler, Sync, Faults

\* Initially nothing is claimed.
LEMMA ClaimInit == Init => ClaimInv
BY DEF Init, ClaimInv, Away, Working

\* Only Execute changes runs.
LEMMA RunsChange ==
  ASSUME [Next]_vars, runs' # runs
  PROVE  \E b \in Bridges : Execute(b)
<1> USE DEF server, times, claim, bridge, history, effects, faults
<1>1. ASSUME NEW c \in Cmds, Enqueue(c) \/ Late(c) \/ Stale(c) PROVE FALSE
  BY <1>1, runs' # runs DEF Enqueue, Late, Stale
<1>2. CASE ListCommands
  BY <1>2 DEF ListCommands
<1>3. ASSUME NEW b \in Bridges, Handler(b) PROVE FALSE
  BY <1>3 DEF Handler, ClaimExpire, ClaimSelect, ClaimRow, Receive
<1>4. ASSUME NEW b \in Bridges, Faults(b) PROVE FALSE
  BY <1>4 DEF Faults, Crash, Abort, ClaimFails, RecordFails
<1>5. ASSUME NEW b \in Bridges, Sync(b) PROVE Execute(b)
  BY <1>5 DEF Sync, Start, Ask, Cached, Record, Post, Done, Over
<1>6. CASE UNCHANGED vars
  BY <1>6 DEF vars
<1> QED
  BY <1>1, <1>2, <1>3, <1>4, <1>5, <1>6 DEF Next

\* What Execute does to one command.
LEMMA ExecuteOne ==
  ASSUME TypeOK, NEW b \in Bridges, Execute(b), NEW c \in Cmds, runs'[c] # runs[c]
  PROVE  c \in list[b] /\ memory[b][c] = None
<1>1. PICK d \in list[b], r \in Results :
        memory[b][d] = None /\ runs' = [runs EXCEPT ![d] = @ + 1]
  BY DEF Execute
<1>2. c = d
  BY <1>1 DEF TypeOK
<1> QED BY <1>1, <1>2

\* A single bridge executes what it has, and that is claimed.
LEMMA ClaimRuns ==
  ASSUME NEW b \in Bridges, Bridges = {b}
  PROVE  TypeOK /\ ClaimInv /\ [Next]_vars => RunsClaimed
<1> SUFFICES ASSUME TypeOK, ClaimInv, [Next]_vars, NEW c \in Cmds, runs'[c] # runs[c]
             PROVE  status[c] = "claimed"
  BY DEF RunsClaimed
<1>1. Execute(b)
  BY RunsChange
<1>2. pc[b] = "work"
  BY <1>1 DEF Execute
<1> QED BY <1>1, <1>2, ExecuteOne DEF ClaimInv

\* A single bridge never executes a command after the owner was told how it
\* ended.
THEOREM RunsOnlyClaimedHolds ==
  ASSUME NEW b \in Bridges, Bridges = {b}
  PROVE  Spec => RunsOnlyClaimed
<1>1. TypeOK /\ CmdInv /\ ClaimInv /\ [Next]_vars => ClaimInv'
  BY ClaimStep
<1>2. TypeOK /\ ClaimInv /\ [Next]_vars => RunsClaimed
  BY ClaimRuns
<1>3. UNCHANGED vars => (RunsClaimed \/ UNCHANGED vars)
  OBVIOUS
<1> QED BY <1>1, <1>2, TypeInit, TypeStep, ClaimInit, PTL DEF Spec, RunsOnlyClaimed

-----------------------------------------------------------------------------
\* A sequence has no more elements than places.
LEMMA ElementCount ==
  ASSUME NEW s \in Seq(Cmds)
  PROVE  IsFiniteSet(Elements(s)) /\ Cardinality(Elements(s)) <= Len(s)
<1>1. s \in Surjection(1..Len(s), Elements(s))
  BY DEF Elements, Surjection
<1>2. IsFiniteSet(1..Len(s)) /\ Cardinality(1..Len(s)) = Len(s)
  <2>1. Len(s) \in Nat
    OBVIOUS
  <2> QED BY <2>1, FS_Interval
<1> QED BY <1>1, <1>2, FS_Surjection

\* Once too many, commands stay too many; faults are counted upwards.
LEMMA Grows ==
  ASSUME TypeOK, [Next]_vars
  PROVE  /\ crashes' = 0 => crashes = 0
         /\ unwritten' = 0 => unwritten = 0
         /\ ~Overfull' => ~Overfull
         /\ Reliable' => Reliable
<1> USE CommandAssumption DEF TypeOK, server, times, claim, bridge, history, effects, faults
<1>1. \A c \in Cmds : runs'[c] # runs[c] => runs'[c] > 0
  <2>1. CASE runs' = runs
    BY <2>1
  <2>2. CASE runs' # runs
    <3>1. PICK b \in Bridges : Execute(b)
      BY <2>2, RunsChange
    <3> QED BY <3>1 DEF Execute
  <2> QED BY <2>1, <2>2
<1>2. {c \in Cmds : runs[c] > 0} \subseteq {c \in Cmds : runs'[c] > 0}
  BY <1>1
<1>3. ~Overfull' => ~Overfull
  <2> DEFINE R == {c \in Cmds : runs[c] > 0}
             Q == {c \in Cmds : runs'[c] > 0}
  <2>1. IsFiniteSet(Q) /\ R \subseteq Q
    BY <1>2, FS_Subset
  <2>2. Cardinality(R) <= Cardinality(Q) /\ Cardinality(R) \in Nat /\ Cardinality(Q) \in Nat
    BY <2>1, FS_Subset, FS_CardinalityType
  <2> QED BY <2>2 DEF Overfull
<1>4. (crashes' = 0 => crashes = 0) /\ (unwritten' = 0 => unwritten = 0)
  <2>1. ASSUME NEW c \in Cmds, Enqueue(c) \/ Late(c) \/ Stale(c)
        PROVE  UNCHANGED <<crashes, unwritten>>
    BY <2>1 DEF Enqueue, Late, Stale
  <2>2. CASE ListCommands
    BY <2>2 DEF ListCommands
  <2>3. ASSUME NEW b \in Bridges, Handler(b) PROVE UNCHANGED <<crashes, unwritten>>
    BY <2>3 DEF Handler, ClaimExpire, ClaimSelect, ClaimRow, Receive
  <2>4. ASSUME NEW b \in Bridges, Sync(b) PROVE UNCHANGED <<crashes, unwritten>>
    BY <2>4 DEF Sync, Start, Ask, Execute, Cached, Record, Post, Done, Over
  <2>5. ASSUME NEW b \in Bridges, Faults(b) PROVE crashes' >= crashes /\ unwritten' >= unwritten
    BY <2>5 DEF Faults, Crash, Abort, ClaimFails, RecordFails
  <2>6. CASE UNCHANGED vars
    BY <2>6 DEF vars
  <2> QED BY <2>1, <2>2, <2>3, <2>4, <2>5, <2>6 DEF Next
<1> QED BY <1>3, <1>4 DEF Reliable

\* The actions that leave histories, executions and processes as they are.
Quiet(b) ==
  /\ UNCHANGED <<history, effects, crashes, unwritten>>
  /\ pc'[b] = "down" <=> pc[b] = "down"
  /\ pc[b] = "record" => pc'[b] = "record" /\ cmd'[b] = cmd[b]

\* All but five actions of a single bridge do.
LEMMA QuietStep ==
  ASSUME NEW b \in Bridges, Bridges = {b}, TypeOK, [Next]_vars
  PROVE  \/ Quiet(b)
         \/ Start(b) \/ Execute(b) \/ Record(b) \/ RecordFails(b) \/ Crash(b)
<1> USE DEF TypeOK, server, times, claim, bridge, history, effects, faults, Quiet
<1>1. ASSUME NEW c \in Cmds, Enqueue(c) \/ Late(c) \/ Stale(c) PROVE Quiet(b)
  BY <1>1 DEF Enqueue, Late, Stale
<1>2. CASE ListCommands
  BY <1>2 DEF ListCommands
<1>3. CASE Handler(b)
  <2>1. CASE Receive(b)
    BY <2>1 DEF Receive
  <2> QED BY <1>3, <2>1 DEF Handler, ClaimExpire, ClaimSelect, ClaimRow
<1>4. CASE Ask(b) \/ Cached(b) \/ Done(b) \/ Over(b)
  BY <1>4 DEF Ask, Cached, Done, Over, Rest
<1>5. CASE Post(b)
  BY <1>5 DEF Post
<1>6. CASE Abort(b)
  BY <1>6 DEF Abort, Rest
<1>7. CASE ClaimFails(b)
  BY <1>7 DEF ClaimFails, Rest
<1>8. CASE UNCHANGED vars
  BY <1>8 DEF vars
<1> QED
  BY <1>1, <1>2, <1>3, <1>4, <1>5, <1>6, <1>7, <1>8 DEF Next, Sync, Faults

\* The commands a bridge knows, the one it records included.
LEMMA KnownRan ==
  ASSUME TypeOK, CmdInv, EntryInv, NEW b \in Bridges, pc[b] = "record"
  PROVE  /\ cmd[b] \in Cmds
         /\ {c \in Cmds : memory[b][c] # None} \cup {cmd[b]}
              \subseteq {c \in Cmds : runs[c] > 0}
         /\ {c \in Cmds : memory[b][c] # None} \cup {cmd[b]} \subseteq Elements(Keys(b))
         /\ Elements(order[b]) \subseteq Elements(Keys(b))
<1>1. cmd[b] \in Cmds
  BY DEF CmdInv, Working
<1>2. order[b] \in Seq(Cmds)
  BY DEF TypeOK
<1>3. \A c \in Elements(order[b]) \cup {cmd[b]} : c \in Elements(Keys(b))
  <2>1. /\ Len(Keys(b)) = Len(order[b]) + 1
        /\ Keys(b)[Len(order[b]) + 1] = cmd[b]
        /\ \A i \in 1..Len(order[b]) : Keys(b)[i] = order[b][i]
    BY <1>1, <1>2 DEF Keys
  <2>2. DOMAIN Keys(b) = 1..(Len(order[b]) + 1) /\ DOMAIN order[b] = 1..Len(order[b])
    BY <1>1, <1>2 DEF Keys
  <2>3. \A i \in 1..Len(order[b]) : i \in DOMAIN Keys(b) /\ Keys(b)[i] = order[b][i]
    BY <1>2, <2>1, <2>2
  <2> QED BY <1>2, <2>1, <2>2, <2>3 DEF Elements
<1> QED BY <1>1, <1>3 DEF EntryInv

\* As long as not too many commands were executed nothing is forgotten.
LEMMA NeverFull ==
  ASSUME TypeOK, CmdInv, EntryInv, NEW b \in Bridges, pc[b] = "record", ~Overfull
  PROVE  ~Full(b)
<1> DEFINE S == {c \in Cmds : memory[b][c] # None} \cup {cmd[b]}
           R == {c \in Cmds : runs[c] > 0}
<1>1. S \subseteq R /\ IsFiniteSet(R)
  BY KnownRan, CommandAssumption, FS_Subset
<1>2. Cardinality(S) <= Cardinality(R) /\ Cardinality(S) \in Nat /\ Cardinality(R) \in Nat
  BY <1>1, FS_Subset, FS_CardinalityType
<1> QED BY <1>2, CommandAssumption DEF Full, Overfull

\* A full history has at least HistoryLimit keys in its order.
LEMMA FullLength ==
  ASSUME TypeOK, CmdInv, EntryInv, NEW b \in Bridges, pc[b] = "record", Full(b)
  PROVE  Len(order[b]) >= HistoryLimit
<1> DEFINE S == {c \in Cmds : memory[b][c] # None} \cup {cmd[b]}
<1>1. cmd[b] \in Cmds /\ S \subseteq Elements(Keys(b))
  BY KnownRan
<1>2. order[b] \in Seq(Cmds)
  BY DEF TypeOK
<1>3. Keys(b) \in Seq(Cmds) /\ Len(Keys(b)) = Len(order[b]) + 1
  BY <1>1, <1>2 DEF Keys
<1>4. Cardinality(S) <= Cardinality(Elements(Keys(b))) /\ Cardinality(S) \in Nat
      /\ Cardinality(Elements(Keys(b))) \in Nat
  BY <1>1, <1>3, ElementCount, FS_Subset, FS_CardinalityType
<1>5. Cardinality(Elements(Keys(b))) <= Len(Keys(b))
  BY <1>3, ElementCount
<1>6. Cardinality(S) > HistoryLimit
  BY DEF Full
<1> QED BY <1>2, <1>3, <1>4, <1>5, <1>6, CommandAssumption

\* The keys that record() keeps are the earlier ones, but for the first if there
\* are too many, and the new one, which comes last.
LEMMA KeptKeys ==
  ASSUME TypeOK, CmdInv, EntryInv, NEW b \in Bridges, pc[b] = "record"
  PROVE  LET n == Len(order[b])
             m == IF Full(b) THEN 1 ELSE 0
         IN  /\ Kept(b) \in Seq(Cmds) /\ Len(Kept(b)) = n + 1 - m
             /\ Kept(b)[n + 1 - m] = cmd[b]
             /\ n + 1 - m >= 1
             /\ \A k \in 1..n : k > m => Kept(b)[k - m] = order[b][k]
<1> DEFINE n == Len(order[b])
<1>1. cmd[b] \in Cmds /\ order[b] \in Seq(Cmds) /\ n \in Nat
  BY KnownRan DEF TypeOK
<1>2. /\ Keys(b) \in Seq(Cmds) /\ Len(Keys(b)) = n + 1 /\ Keys(b)[n + 1] = cmd[b]
      /\ \A k \in 1..n : Keys(b)[k] = order[b][k]
  BY <1>1 DEF Keys
<1>3. CASE ~Full(b)
  BY <1>1, <1>2, <1>3 DEF Kept
<1>4. CASE Full(b)
  <2>1. n >= 1
    BY <1>1, <1>4, FullLength, CommandAssumption
  <2>2. /\ Kept(b) \in Seq(Cmds) /\ Len(Kept(b)) = n
        /\ \A k \in 1..n : Kept(b)[k] = Keys(b)[k + 1]
    BY <1>1, <1>2, <1>4, <2>1 DEF Kept, Forget
  <2>3. Kept(b)[n] = cmd[b]
    BY <1>1, <1>2, <2>1, <2>2
  <2>4. ASSUME NEW k \in 1..n, k > 1 PROVE Kept(b)[k - 1] = order[b][k]
    <3>1. k - 1 \in 1..n /\ (k - 1) + 1 = k
      BY <1>1, <2>4
    <3>2. Kept(b)[k - 1] = Keys(b)[(k - 1) + 1]
      BY <2>2, <3>1
    <3> QED BY <1>2, <3>1, <3>2
  <2> QED BY <1>1, <1>4, <2>1, <2>2, <2>3, <2>4
<1> QED BY <1>3, <1>4

\* What record() does to the dictionary.
LEMMA Recorded ==
  ASSUME TypeOK, CmdInv, EntryInv, NEW b \in Bridges, pc[b] = "record"
  PROVE  /\ cmd[b] \in Cmds /\ Entries(b)[cmd[b]] = got[b] /\ got[b] # None
         /\ \A c \in Cmds : c # cmd[b] => Entries(b)[c] \in {memory[b][c], None}
         /\ ~Full(b) => \A c \in Cmds : c # cmd[b] => Entries(b)[c] = memory[b][c]
         /\ \A c \in Cmds : (Entries(b)[c] # None) <=> (c \in Elements(Kept(b)))
<1>1. cmd[b] \in Cmds /\ got[b] # None /\ order[b] \in Seq(Cmds)
  BY KnownRan, CommandAssumption DEF EntryInv, TypeOK
<1>2. cmd[b] \in Elements(Kept(b))
  <2>1. Kept(b) \in Seq(Cmds) /\ Len(Kept(b)) >= 1 /\ Kept(b)[Len(Kept(b))] = cmd[b]
    BY KeptKeys
  <2>2. Len(Kept(b)) \in DOMAIN Kept(b)
    BY <2>1
  <2> QED BY <2>1, <2>2 DEF Elements
<1>3. Keys(b) \in Seq(Cmds) /\ Len(Keys(b)) = Len(order[b]) + 1
  BY <1>1 DEF Keys
<1>4. Elements(Kept(b)) \subseteq Elements(Keys(b))
  <2>1. \A i \in DOMAIN Tail(Keys(b)) :
          i + 1 \in DOMAIN Keys(b) /\ Tail(Keys(b))[i] = Keys(b)[i + 1]
    BY <1>1, <1>3
  <2> QED BY <2>1 DEF Kept, Forget, Elements
<1>5. Elements(Keys(b)) \subseteq Elements(order[b]) \cup {cmd[b]}
  BY <1>1 DEF Keys, Elements
<1>6. \A c \in Cmds : (memory[b][c] # None) <=> (c \in Elements(order[b]))
  BY DEF EntryInv
<1>7. ~Full(b) => Elements(order[b]) \subseteq Elements(Kept(b))
  BY KnownRan DEF Kept
<1>8. Entries(b)[cmd[b]] = got[b]
  BY <1>1, <1>2 DEF Entries
<1>9. ASSUME NEW c \in Cmds, c # cmd[b]
      PROVE  /\ Entries(b)[c] = IF c \in Elements(Kept(b)) THEN memory[b][c] ELSE None
             /\ c \in Elements(Kept(b)) => memory[b][c] # None
             /\ ~Full(b) /\ c \notin Elements(Kept(b)) => memory[b][c] = None
  BY <1>4, <1>5, <1>6, <1>7, <1>9 DEF Entries
<1> QED BY <1>1, <1>2, <1>8, <1>9

\* Initially there is no result anywhere.
LEMMA HistoryInit == Init => HistoryInv
BY CommandAssumption
DEF Init, HistoryInv, EntryInv, LastInv, ForgetInv, Nothing, Elements

\* expireCommands() answers commands that have no answer yet.
LEMMA ExpireAnswers ==
  ASSUME TypeOK, EntryInv, Expire, NEW c \in Cmds
  PROVE  /\ status'[c] \notin Settled => answer'[c] = None
         /\ answer'[c] \in {answer[c], Expired}
<1>1. CASE Expirable(c)
  BY <1>1 DEF Expire, Settled
<1>2. CASE ~Expirable(c)
  BY <1>2 DEF Expire, EntryInv
<1> QED BY <1>1, <1>2

\* Every action of a single bridge keeps the entries of its histories.
LEMMA EntryStep ==
  ASSUME NEW b \in Bridges, Bridges = {b}
  PROVE  TypeOK /\ CmdInv /\ ClaimInv /\ EntryInv /\ [Next]_vars => EntryInv'
<1> SUFFICES ASSUME TypeOK, CmdInv, ClaimInv, EntryInv, [Next]_vars PROVE EntryInv'
  OBVIOUS
<1> USE CommandAssumption DEF server, times, claim, bridge, history, effects, faults
<1>1. ASSUME NEW c \in Cmds, Enqueue(c) \/ Late(c) \/ Stale(c) PROVE EntryInv'
  <2>1. \A x \in Cmds : status'[x] = status[x] \/ status[x] = "none"
    BY <1>1 DEF Enqueue, Late, Stale, TypeOK
  <2>2. UNCHANGED <<answer, bridge, history, effects>>
    BY <1>1 DEF Enqueue, Late, Stale
  <2>3. "none" \notin Settled
    BY DEF Settled
  <2> QED BY <2>1, <2>2, <2>3 DEF EntryInv
<1>2. ASSUME Expire, UNCHANGED <<bridge, history, effects>> PROVE EntryInv'
  BY <1>2, ExpireAnswers DEF EntryInv
<1>3. CASE ListCommands \/ ClaimExpire(b)
  BY <1>2, <1>3 DEF ListCommands, ClaimExpire
<1>4. CASE ClaimSelect(b)
  BY <1>4 DEF ClaimSelect, EntryInv
<1>5. CASE ClaimRow(b)
  <2>1. PICK c \in rows[b] : ClaimRow(b)!2!(c)
    BY <1>5 DEF ClaimRow
  <2>2. UNCHANGED <<answer, bridge, history, effects>>
    BY <1>5 DEF ClaimRow
  <2>3. CASE status[c] = "pending" \/ (status[c] = "claimed" /\ c \in old[b])
    <3>1. \A x \in Cmds : status'[x] = status[x] \/ status[x] \in Open
      BY <2>1, <2>3 DEF TypeOK, Open
    <3> QED BY <2>2, <3>1 DEF EntryInv, Open, Settled
  <2>4. CASE ~(status[c] = "pending" \/ (status[c] = "claimed" /\ c \in old[b]))
    BY <2>1, <2>2, <2>4 DEF EntryInv
  <2> QED BY <2>3, <2>4
<1>6. CASE Receive(b)
  <2>1. UNCHANGED <<server, history, effects, cmd, got>> /\ pc[b] \notin {"record", "post"}
    BY <1>6 DEF Receive, ClaimInv, Away
  <2>2. (pc'[b] = "work" /\ pc[b] = "wait") \/ pc'[b] = pc[b]
    BY <1>6 DEF Receive, TypeOK
  <2> QED BY <2>1, <2>2 DEF EntryInv
<1>7. ASSUME Rest(b), UNCHANGED <<server, history, effects>> PROVE EntryInv'
  BY <1>7 DEF Rest, EntryInv, TypeOK
<1>8. CASE ClaimFails(b)
  <2>1. CASE pc[b] = "wait"
    BY <1>7, <1>8, <2>1 DEF ClaimFails
  <2>2. CASE pc[b] # "wait"
    BY <1>8, <2>2 DEF ClaimFails, EntryInv
  <2> QED BY <2>1, <2>2
<1>9. CASE Start(b)
  <2>1. /\ memory' = [memory EXCEPT ![b] = disk]
        /\ pc' = [pc EXCEPT ![b] = "idle"]
        /\ UNCHANGED <<server, effects, cmd, got, disk>>
    BY <1>9 DEF Start
  <2>2. PICK s \in Sortings({c \in Cmds : disk[c] # None}) : order' = [order EXCEPT ![b] = s]
    BY <1>9 DEF Start
  <2>3. memory'[b] = disk /\ pc'[b] = "idle" /\ order'[b] = s
    BY <2>1, <2>2 DEF TypeOK
  <2>4. Elements(s) = {c \in Cmds : disk[c] # None}
    BY DEF Sortings
  <2> QED BY <2>1, <2>3, <2>4 DEF EntryInv
<1>10. CASE Ask(b)
  BY <1>10 DEF Ask, EntryInv, TypeOK
<1>11. CASE Execute(b)
  <2>1. PICK c \in list[b], r \in Results :
          /\ memory[b][c] = None
          /\ cmd' = [cmd EXCEPT ![b] = c]
          /\ got' = [got EXCEPT ![b] = r]
          /\ runs' = [runs EXCEPT ![c] = @ + 1]
          /\ last' = [last EXCEPT ![c] = r]
    BY <1>11 DEF Execute
  <2>2. c \in Cmds /\ pc'[b] = "record"
    BY <1>11 DEF Execute, TypeOK
  <2>3. cmd'[b] = c /\ got'[b] = r /\ last'[c] = r /\ runs'[c] > 0
    BY <2>1, <2>2 DEF TypeOK
  <2>4. \A x \in Cmds : runs[x] > 0 => runs'[x] > 0
    BY <2>1, <2>2 DEF TypeOK
  <2>5. UNCHANGED <<server, history>>
    BY <1>11 DEF Execute
  <2> QED BY <2>1, <2>2, <2>3, <2>4, <2>5 DEF EntryInv
<1>12. CASE Cached(b)
  <2>1. PICK c \in list[b] : memory[b][c] # None /\ cmd' = [cmd EXCEPT ![b] = c]
    BY <1>12 DEF Cached
  <2>2. cmd'[b] = c /\ pc'[b] = "post"
    BY <1>12, <2>1 DEF Cached, TypeOK
  <2> QED BY <1>12, <2>1, <2>2 DEF Cached, EntryInv
<1>13. ASSUME pc[b] = "record", Remember(b)
       PROVE  /\ \A c \in Cmds : /\ memory'[b][c] # None => runs[c] > 0
                                 /\ (memory'[b][c] # None) <=> (c \in Elements(order'[b]))
              /\ memory'[b] = Entries(b)
              /\ cmd[b] \in Cmds /\ memory'[b][cmd[b]] # None
  <2>1. memory'[b] = Entries(b) /\ order'[b] = Kept(b)
    BY <1>13 DEF Remember, TypeOK
  <2> QED BY <1>13, <2>1, Recorded DEF EntryInv
<1>14. CASE Record(b)
  <2>1. /\ pc[b] = "record" /\ pc'[b] = "post" /\ disk' = Entries(b) /\ Remember(b)
        /\ UNCHANGED <<server, cmd, got, effects>>
    BY <1>14 DEF Record, Written, TypeOK
  <2> QED BY <1>13, <2>1 DEF EntryInv
<1>15. CASE RecordFails(b)
  <2>1. /\ pc[b] = "record" /\ pc'[b] = "idle" /\ Remember(b)
        /\ UNCHANGED <<server, disk, effects>>
    BY <1>15 DEF RecordFails, Rest, TypeOK
  <2> QED BY <1>13, <2>1 DEF EntryInv
<1>16. CASE Post(b)
  <2>1. cmd[b] \in Cmds /\ status[cmd[b]] = "claimed"
    BY <1>16 DEF Post, CmdInv, ClaimInv, Working
  <2>2. /\ status' = [status EXCEPT ![cmd[b]] = Outcome(Posted(b))]
        /\ answer' = [answer EXCEPT ![cmd[b]] = Posted(b)]
        /\ pc' = [pc EXCEPT ![b] = "done"]
        /\ UNCHANGED <<list, cmd, got, history, effects>>
    BY <1>16, <2>1 DEF Post
  <2>3. Outcome(Posted(b)) \in Settled
    BY DEF Outcome, Settled
  <2>4. \A c \in Cmds : status'[c] \notin Settled => answer'[c] = None
    BY <2>1, <2>2, <2>3 DEF EntryInv, TypeOK
  <2>5. pc'[b] = "done"
    BY <2>2 DEF TypeOK
  <2> QED BY <2>2, <2>4, <2>5 DEF EntryInv
<1>17. CASE Done(b)
  BY <1>17 DEF Done, EntryInv, TypeOK
<1>18. CASE Over(b)
  BY <1>7, <1>18 DEF Over
<1>19. CASE Crash(b)
  <2>1. /\ memory' = [memory EXCEPT ![b] = Nothing]
        /\ order' = [order EXCEPT ![b] = <<>>]
        /\ pc' = [pc EXCEPT ![b] = "down"]
        /\ UNCHANGED <<server, effects, disk>>
    BY <1>19 DEF Crash
  <2>2. memory'[b] = Nothing /\ order'[b] = <<>> /\ pc'[b] = "down"
    BY <2>1 DEF TypeOK
  <2> QED BY <2>1, <2>2 DEF EntryInv, Nothing, Elements
<1>20. CASE Abort(b)
  BY <1>7, <1>20 DEF Abort
<1>21. CASE UNCHANGED vars
  BY <1>21 DEF vars, EntryInv
<1> QED
  BY <1>1, <1>3, <1>4, <1>5, <1>6, <1>8, <1>9, <1>10, <1>11, <1>12, <1>14, <1>15,
     <1>16, <1>17, <1>18, <1>19, <1>20, <1>21 DEF Next, Handler, Sync, Faults

\* Only expireCommands() and a posted result answer a command.
LEMMA AnswerStep ==
  ASSUME NEW b \in Bridges, Bridges = {b}, TypeOK, CmdInv, EntryInv, LastInv, [Next]_vars,
         Reliable, NEW c \in Cmds, answer'[c] \in Results
  PROVE  answer'[c] = last[c]
<1> USE CommandAssumption
    DEF TypeOK, server, times, claim, bridge, history, effects, faults
<1>1. CASE answer'[c] = answer[c]
  BY <1>1 DEF LastInv
<1>2. ASSUME Expire PROVE answer'[c] = answer[c]
  BY <1>2, ExpireAnswers
<1>3. CASE Post(b)
  <2>1. cmd[b] \in Cmds /\ memory[b][cmd[b]] # None
    BY <1>3 DEF Post, CmdInv, Working, EntryInv
  <2>2. answer' = answer \/ answer' = [answer EXCEPT ![cmd[b]] = Posted(b)]
    BY <1>3 DEF Post
  <2> QED BY <1>1, <2>1, <2>2 DEF Posted, LastInv
<1>4. ASSUME NEW d \in Cmds, Enqueue(d) \/ Late(d) \/ Stale(d) PROVE answer' = answer
  BY <1>4 DEF Enqueue, Late, Stale
<1>5. CASE ListCommands \/ ClaimExpire(b)
  BY <1>1, <1>2, <1>5 DEF ListCommands, ClaimExpire
<1>6. ASSUME ClaimSelect(b) \/ ClaimRow(b) \/ Receive(b) PROVE answer' = answer
  BY <1>6 DEF ClaimSelect, ClaimRow, Receive
<1>7. ASSUME Start(b) \/ Ask(b) \/ Execute(b) \/ Cached(b) \/ Record(b) \/ Done(b) \/ Over(b)
      PROVE  answer' = answer
  BY <1>7 DEF Start, Ask, Execute, Cached, Record, Done, Over
<1>8. ASSUME Faults(b) PROVE answer' = answer
  BY <1>8 DEF Faults, Crash, Abort, ClaimFails, RecordFails
<1>9. CASE UNCHANGED vars
  BY <1>1, <1>9 DEF vars
<1> QED
  BY <1>1, <1>3, <1>4, <1>5, <1>6, <1>7, <1>8, <1>9 DEF Next, Handler, Sync

\* Every action of a single bridge keeps the results the last ones.
LEMMA LastStep ==
  ASSUME NEW b \in Bridges, Bridges = {b}
  PROVE  TypeOK /\ CmdInv /\ ClaimInv /\ HistoryInv /\ [Next]_vars => LastInv'
<1> SUFFICES ASSUME TypeOK, CmdInv, ClaimInv, EntryInv, LastInv, ForgetInv, [Next]_vars
             PROVE  LastInv'
  BY DEF HistoryInv
<1> DEFINE Sound == unwritten = 0 \/ ~Overfull
<1>1. (Reliable' => Reliable) /\ (Sound' => Sound)
  BY Grows
<1>2. \A c \in Cmds : Reliable' /\ answer'[c] \in Results => answer'[c] = last[c]
  BY <1>1, AnswerStep
<1> USE CommandAssumption DEF server, times, claim, bridge, history, effects, faults
<1>3. SUFFICES ASSUME NEW c \in Cmds
               PROVE  /\ Reliable' => /\ answer'[c] \in Results => answer'[c] = last'[c]
                                      /\ memory'[b][c] # None => memory'[b][c] = last'[c]
                      /\ Sound' => /\ disk'[c] # None => disk'[c] = last'[c]
                                   /\ pc'[b] # "down" /\ disk'[c] # None
                                        => memory'[b][c] # None
  BY DEF LastInv
<1>4. CASE Quiet(b)
  BY <1>1, <1>2, <1>4 DEF LastInv, Quiet
<1>5. CASE Start(b)
  <2>1. memory'[b] = disk /\ UNCHANGED <<last, disk>> /\ pc[b] = "down"
    BY <1>5 DEF Start, TypeOK
  <2>2. ASSUME Reliable', ~Sound PROVE disk = Nothing
    <3>1. crashes' = 0
      BY <1>5, <2>2 DEF Start, Reliable, Overfull
    <3>2. crashes = 0
      BY <3>1, Grows
    <3> QED BY <2>1, <3>2 DEF ForgetInv
  <2>3. ASSUME Reliable', disk[c] # None PROVE disk[c] = last[c]
    <3>1. Sound
      BY <2>2, <2>3 DEF Nothing
    <3> QED BY <2>3, <3>1 DEF LastInv
  <2> QED BY <1>1, <1>2, <2>1, <2>3 DEF LastInv
<1>6. CASE Execute(b)
  <2>1. PICK d \in list[b], r \in Results :
          memory[b][d] = None /\ last' = [last EXCEPT ![d] = r]
    BY <1>6 DEF Execute
  <2>2. d \in Cmds /\ status[d] = "claimed" /\ pc[b] = "work" /\ pc'[b] = "record"
    BY <1>6 DEF Execute, ClaimInv, TypeOK
  <2>3. answer[d] = None /\ UNCHANGED <<server, history>>
    BY <1>6, <2>2 DEF EntryInv, Settled, Execute
  <2>4. Sound => disk[d] = None
    BY <2>1, <2>2 DEF LastInv
  <2>5. CASE c = d
    BY <1>1, <2>1, <2>3, <2>4, <2>5
  <2>6. CASE c # d
    <3>1. last'[c] = last[c]
      BY <2>1, <2>6
    <3> QED BY <1>1, <1>2, <2>2, <2>3, <3>1 DEF LastInv
  <2> QED BY <2>5, <2>6
<1>7. ASSUME pc[b] = "record", Remember(b), last' = last
      PROVE  /\ Reliable' /\ memory'[b][c] # None => memory'[b][c] = last'[c]
             /\ ~Overfull /\ Sound /\ disk[c] # None => memory'[b][c] # None
             /\ memory'[b] = Entries(b)
  <2>1. memory'[b] = Entries(b)
    BY <1>7 DEF Remember, TypeOK
  <2>2. CASE c = cmd[b]
    <3>1. memory'[b][c] = last'[c] /\ memory'[b][c] # None
      BY <1>7, <2>1, <2>2, Recorded DEF EntryInv
    <3> QED BY <2>1, <3>1
  <2>3. CASE c # cmd[b]
    <3>1. memory'[b][c] \in {memory[b][c], None}
      BY <1>7, <2>1, <2>3, Recorded
    <3>2. ~Overfull => memory'[b][c] = memory[b][c]
      BY <1>7, <2>1, <2>3, Recorded, NeverFull
    <3> QED BY <1>1, <1>7, <2>1, <3>1, <3>2 DEF LastInv
  <2> QED BY <2>2, <2>3
<1>8. CASE Record(b)
  <2>1. /\ pc[b] = "record" /\ Remember(b) /\ disk' = Entries(b) /\ last' = last
        /\ runs' = runs /\ unwritten' = unwritten
    BY <1>8 DEF Record, Written
  <2>2. memory'[b] = disk'
    BY <1>7, <2>1
  <2>3. Sound' => Reliable'
    BY DEF Reliable
  <2> QED BY <1>1, <1>2, <1>7, <2>1, <2>2, <2>3
<1>9. CASE RecordFails(b)
  <2>1. /\ pc[b] = "record" /\ Remember(b) /\ UNCHANGED <<disk, last, runs>>
        /\ unwritten' = unwritten + 1
    BY <1>9 DEF RecordFails
  <2>2. Sound' => ~Overfull /\ Sound
    BY <1>1, <2>1 DEF Overfull, TypeOK
  <2> QED BY <1>2, <1>7, <2>1, <2>2 DEF LastInv
<1>10. CASE Crash(b)
  <2>1. memory'[b] = Nothing /\ pc'[b] = "down" /\ UNCHANGED <<last, disk>>
    BY <1>10 DEF Crash, TypeOK
  <2> QED BY <1>1, <1>2, <2>1 DEF LastInv, Nothing
<1> QED BY <1>4, <1>5, <1>6, <1>8, <1>9, <1>10, QuietStep

\* Where record() leaves a key that is not too old.
LEMMA KeptPlace ==
  ASSUME TypeOK, CmdInv, EntryInv, NEW b \in Bridges, pc[b] = "record",
         NEW k \in DOMAIN order[b], NEW d \in Nat, Len(order[b]) - k <= d,
         d + 1 < HistoryLimit
  PROVE  \E j \in DOMAIN Kept(b) :
           Kept(b)[j] = order[b][k] /\ Len(Kept(b)) - j <= d + 1
<1> DEFINE n == Len(order[b])
           m == IF Full(b) THEN 1 ELSE 0
<1>1. order[b] \in Seq(Cmds) /\ n \in Nat /\ k \in 1..n /\ m \in {0, 1}
  BY DEF TypeOK
<1>2. k > m
  <2>1. CASE Full(b)
    BY <1>1, <2>1, FullLength, CommandAssumption
  <2>2. CASE ~Full(b)
    BY <1>1, <2>2
  <2> QED BY <2>1, <2>2
<1>3. /\ Kept(b) \in Seq(Cmds) /\ Len(Kept(b)) = n + 1 - m
      /\ Kept(b)[k - m] = order[b][k]
  BY <1>1, <1>2, KeptKeys
<1>4. k - m \in 1..(n + 1 - m) /\ (n + 1 - m) - (k - m) <= d + 1
  <2>1. n - k <= d
    OBVIOUS
  <2> HIDE DEF m, n
  <2> QED BY <1>1, <1>2, <2>1
<1>5. k - m \in DOMAIN Kept(b)
  BY <1>3, <1>4
<1> QED BY <1>3, <1>4, <1>5

\* What record() leaves of the keys of a bridge that was never restarted, counted
\* from the newest, n being how many were recorded before.
LEMMA KeptAged ==
  ASSUME NEW b \in Bridges, Bridges = {b}, TypeOK, CmdInv, EntryInv, ForgetInv,
         crashes = 0, pc[b] = "record", NEW i \in DOMAIN log,
         i + HistoryLimit > Len(log) + unwritten + 1
  PROVE  \E j \in DOMAIN Kept(b) :
           /\ Kept(b)[j] = log[i]
           /\ Len(Kept(b)) - j <= Len(log) + unwritten + 1 - i
<1> DEFINE d == Len(log) + unwritten - i
<1>1. /\ log \in Seq(Cmds) /\ Len(log) \in Nat /\ i \in 1..Len(log) /\ unwritten \in Nat
      /\ HistoryLimit \in Nat
  BY CommandAssumption DEF TypeOK
<1>2. ~Older(i)
  BY <1>1 DEF Older
<1>3. PICK k \in DOMAIN order[b] : Aged(b, i, k)
  BY <1>2 DEF ForgetInv
<1>4. d \in Nat /\ d + 1 < HistoryLimit /\ Len(order[b]) - k <= d
  BY <1>1, <1>3 DEF Aged
<1>5. PICK j \in DOMAIN Kept(b) : Kept(b)[j] = order[b][k] /\ Len(Kept(b)) - j <= d + 1
  BY <1>4, KeptPlace
<1> QED BY <1>1, <1>3, <1>5 DEF Aged

\* Every action of a single bridge keeps what it must not forget.
LEMMA ForgetStep ==
  ASSUME NEW b \in Bridges, Bridges = {b}
  PROVE  TypeOK /\ CmdInv /\ HistoryInv /\ [Next]_vars => ForgetInv'
<1> SUFFICES ASSUME TypeOK, CmdInv, EntryInv, LastInv, ForgetInv, [Next]_vars
             PROVE  ForgetInv'
  BY DEF HistoryInv
<1>1. (~Overfull' => ~Overfull) /\ (crashes' = 0 => crashes = 0)
  BY Grows
<1>2. log \in Seq(Cmds) /\ unwritten \in Nat /\ HistoryLimit \in Nat /\ Len(log) \in Nat
  BY CommandAssumption DEF TypeOK
<1> USE DEF server, times, claim, bridge, history, effects, faults
<1>3. ASSUME UNCHANGED <<disk, log>>
      PROVE  ~Overfull' => \A i \in DOMAIN log' : disk'[log'[i]] # None
  BY <1>1, <1>3 DEF ForgetInv
<1>4. CASE Quiet(b)
  <2>1. /\ UNCHANGED <<history, unwritten, crashes>> /\ (pc'[b] = "down" => pc[b] = "down")
    BY <1>4 DEF Quiet
  <2> QED BY <1>3, <2>1 DEF ForgetInv, Aged, Older
<1>5. CASE Start(b)
  <2>1. pc'[b] = "idle" /\ pc[b] = "down" /\ UNCHANGED <<disk, log, crashes>>
    BY <1>5 DEF Start, TypeOK
  <2>2. crashes' = 0 => log = <<>>
    BY <2>1 DEF ForgetInv
  <2> QED BY <1>3, <2>1, <2>2 DEF ForgetInv
<1>6. CASE Execute(b)
  <2>1. UNCHANGED <<history, unwritten, crashes>> /\ pc'[b] # "down"
    BY <1>6 DEF Execute, TypeOK
  <2> QED BY <1>3, <2>1 DEF ForgetInv, Aged, Older
<1>7. CASE Record(b)
  <2>1. /\ pc[b] = "record" /\ pc'[b] = "post" /\ disk' = Entries(b) /\ order'[b] = Kept(b)
        /\ log' = Append(log, cmd[b]) /\ UNCHANGED <<crashes, unwritten, runs>>
    BY <1>7 DEF Record, Remember, Written, TypeOK
  <2>2. cmd[b] \in Cmds
    BY <2>1, KnownRan
  <2>3. /\ DOMAIN log' = 1..(Len(log) + 1) /\ Len(log') = Len(log) + 1
        /\ log'[Len(log) + 1] = cmd[b] /\ DOMAIN log = 1..Len(log)
        /\ \A i \in DOMAIN log : log'[i] = log[i]
    BY <1>2, <2>1, <2>2
  <2>4. ~Overfull' => \A i \in DOMAIN log' : disk'[log'[i]] # None
    <3> SUFFICES ASSUME ~Overfull', NEW i \in DOMAIN log' PROVE disk'[log'[i]] # None
      OBVIOUS
    <3>1. CASE log'[i] = cmd[b]
      BY <2>1, <3>1, Recorded
    <3>2. CASE log'[i] # cmd[b]
      <4>1. i \in DOMAIN log /\ log'[i] = log[i] /\ log[i] \in Cmds
        BY <1>2, <2>3, <3>2
      <4>2. disk[log[i]] # None
        BY <1>1, <4>1 DEF ForgetInv
      <4>3. memory[b][log[i]] # None
        BY <1>1, <2>1, <4>1, <4>2 DEF LastInv
      <4>4. ~Full(b)
        BY <1>1, <2>1, NeverFull
      <4> QED BY <2>1, <3>2, <4>1, <4>3, <4>4, Recorded
    <3> QED BY <3>1, <3>2
  <2>5. ASSUME crashes' = 0, NEW i \in DOMAIN log', ~Older(i)'
        PROVE  \E k \in DOMAIN order'[b] : Aged(b, i, k)'
    <3>1. i + HistoryLimit > Len(log) + 1 + unwritten
      BY <1>2, <2>1, <2>3, <2>5 DEF Older
    <3>2. CASE i \in DOMAIN log
      <4>1. i + HistoryLimit > Len(log) + unwritten + 1
        BY <1>2, <2>3, <3>1, <3>2
      <4>2. PICK j \in DOMAIN Kept(b) :
              /\ Kept(b)[j] = log[i]
              /\ Len(Kept(b)) - j <= Len(log) + unwritten + 1 - i
        BY <1>1, <2>1, <2>5, <3>2, <4>1, KeptAged
      <4> QED BY <1>2, <2>1, <2>3, <3>2, <4>2 DEF Aged
    <3>3. CASE i \notin DOMAIN log
      <4>1. i = Len(log) + 1
        BY <1>2, <2>3, <3>3
      <4>2. /\ Kept(b) \in Seq(Cmds) /\ Len(Kept(b)) >= 1
            /\ Kept(b)[Len(Kept(b))] = cmd[b]
        BY <2>1, KeptKeys
      <4>3. Len(Kept(b)) \in DOMAIN Kept(b) /\ Len(Kept(b)) \in Nat
        BY <4>2
      <4> QED BY <1>2, <2>1, <2>3, <4>1, <4>2, <4>3 DEF Aged
    <3> QED BY <3>2, <3>3
  <2> QED BY <2>1, <2>4, <2>5 DEF ForgetInv
<1>8. CASE RecordFails(b)
  <2>1. /\ pc[b] = "record" /\ pc'[b] = "idle" /\ order'[b] = Kept(b)
        /\ unwritten' = unwritten + 1 /\ UNCHANGED <<crashes, log, disk>>
    BY <1>8 DEF RecordFails, Rest, Remember, TypeOK
  <2>2. ASSUME crashes' = 0, NEW i \in DOMAIN log', ~Older(i)'
        PROVE  \E k \in DOMAIN order'[b] : Aged(b, i, k)'
    <3>1. i \in DOMAIN log /\ i + HistoryLimit > Len(log) + unwritten + 1
      BY <1>2, <2>1, <2>2 DEF Older
    <3>2. PICK j \in DOMAIN Kept(b) :
            /\ Kept(b)[j] = log[i]
            /\ Len(Kept(b)) - j <= Len(log) + unwritten + 1 - i
      BY <1>1, <2>1, <2>2, <3>1, KeptAged
    <3> QED BY <1>2, <2>1, <3>2 DEF Aged
  <2> QED BY <1>3, <2>1, <2>2 DEF ForgetInv
<1>9. CASE Crash(b)
  <2>1. crashes' # 0 /\ UNCHANGED <<disk, log>>
    BY <1>9, CommandAssumption DEF Crash, TypeOK
  <2> QED BY <1>3, <2>1 DEF ForgetInv
<1> QED BY <1>4, <1>5, <1>6, <1>7, <1>8, <1>9, QuietStep

\* What is executed again had to be forgotten.
LEMMA HistoryRuns ==
  ASSUME NEW b \in Bridges, Bridges = {b}
  PROVE  TypeOK /\ HistoryInv /\ [Next]_vars => RerunsOld
<1> SUFFICES ASSUME TypeOK, EntryInv, LastInv, ForgetInv, [Next]_vars,
                    NEW c \in Cmds, runs'[c] # runs[c],
                    NEW i \in DOMAIN log, log[i] = c
             PROVE  Overfull /\ (crashes = 0 => Older(i))
  BY DEF RerunsOld, HistoryInv
<1>1. Execute(b)
  BY RunsChange
<1>2. pc[b] # "down" /\ memory[b][c] = None
  BY <1>1, ExecuteOne DEF Execute
<1>3. Overfull
  BY <1>2 DEF LastInv, ForgetInv
<1>4. ASSUME crashes = 0, ~Older(i) PROVE FALSE
  <2>1. PICK k \in DOMAIN order[b] : order[b][k] = c
    BY <1>4 DEF ForgetInv, Aged
  <2>2. c \in Elements(order[b])
    BY <2>1 DEF Elements
  <2> QED BY <1>2, <2>2 DEF EntryInv
<1> QED BY <1>3, <1>4

\* Before anything happened nothing was executed or is known.
LEMMA RepeatInit == Init => RepeatInv
BY CommandAssumption DEF Init, RepeatInv, Knows, Nothing

\* Every action of a single bridge keeps repeated executions owed to its deaths.
LEMMA RepeatStep ==
  ASSUME NEW b \in Bridges, Bridges = {b}
  PROVE  TypeOK /\ CmdInv /\ EntryInv /\ RepeatInv /\ [Next]_vars => RepeatInv'
<1> SUFFICES ASSUME TypeOK, CmdInv, EntryInv, RepeatInv, [Next]_vars PROVE RepeatInv'
  OBVIOUS
<1>1. ~Overfull' => ~Overfull
  BY Grows
<1>2. crashes \in Nat /\ runs \in [Cmds -> Nat]
  BY CommandAssumption DEF TypeOK
<1> USE DEF server, times, claim, bridge, history, effects, faults
<1>3. SUFFICES /\ pc'[b] = "down" => memory'[b] = Nothing
               /\ ~Overfull' => \A c \in Cmds :
                    runs'[c] <= 1 + crashes' /\ (~Knows(b, c)' => runs'[c] <= crashes')
  BY DEF RepeatInv
<1>4. CASE Quiet(b)
  <2>1. \A c \in Cmds : Knows(b, c) => Knows(b, c)'
    BY <1>4 DEF Quiet, Knows
  <2> QED BY <1>1, <1>4, <2>1 DEF Quiet, RepeatInv
<1>5. CASE Start(b)
  <2>1. pc[b] = "down" /\ pc'[b] = "idle" /\ UNCHANGED <<runs, crashes>>
    BY <1>5 DEF Start, TypeOK
  <2>2. \A c \in Cmds : ~Knows(b, c)
    BY <2>1 DEF RepeatInv, Knows, Nothing
  <2> QED BY <1>1, <1>2, <2>1, <2>2 DEF RepeatInv
<1>6. CASE Execute(b)
  <2>1. PICK d \in list[b], r \in Results :
          /\ memory[b][d] = None /\ cmd' = [cmd EXCEPT ![b] = d]
          /\ runs' = [runs EXCEPT ![d] = @ + 1]
    BY <1>6 DEF Execute
  <2>2. /\ pc[b] = "work" /\ pc'[b] = "record" /\ cmd'[b] = d /\ d \in Cmds
        /\ UNCHANGED <<memory, crashes>>
    BY <1>6, <2>1 DEF Execute, TypeOK
  <2>3. ~Knows(b, d) /\ Knows(b, d)'
    BY <2>1, <2>2 DEF Knows
  <2>4. \A c \in Cmds : c # d => runs'[c] = runs[c] /\ (Knows(b, c) => Knows(b, c)')
    BY <2>1, <2>2 DEF Knows
  <2>5. runs'[d] = runs[d] + 1
    BY <1>2, <2>1, <2>2
  <2> QED BY <1>1, <1>2, <2>2, <2>3, <2>4, <2>5 DEF RepeatInv
<1>7. ASSUME pc[b] = "record", Remember(b), ~Overfull, NEW c \in Cmds, Knows(b, c)
      PROVE  memory'[b][c] # None
  <2>1. memory'[b] = Entries(b) /\ ~Full(b)
    BY <1>7, NeverFull DEF Remember, TypeOK
  <2> QED BY <1>7, <2>1, Recorded DEF Knows, EntryInv
<1>8. CASE Record(b) \/ RecordFails(b)
  <2>1. /\ pc[b] = "record" /\ pc'[b] # "down" /\ Remember(b)
        /\ UNCHANGED <<runs, crashes>>
    BY <1>8 DEF Record, RecordFails, Rest, TypeOK
  <2>2. ~Overfull' => \A c \in Cmds : Knows(b, c) => Knows(b, c)'
    BY <1>1, <1>7, <2>1 DEF Knows
  <2> QED BY <1>1, <2>1, <2>2 DEF RepeatInv
<1>9. CASE Crash(b)
  <2>1. /\ memory'[b] = Nothing /\ crashes' = crashes + 1 /\ runs' = runs
    BY <1>9 DEF Crash, TypeOK
  <2> QED BY <1>1, <1>2, <2>1 DEF RepeatInv
<1> QED BY <1>4, <1>5, <1>6, <1>8, <1>9, QuietStep

\* The owner's answer is part of the invariant.
LEMMA HistoryOwner == HistoryInv => OwnerSeesLastRun
BY DEF HistoryInv, LastInv, OwnerSeesLastRun

\* A single bridge keeps all of CommandInv, whatever fails and however many
\* commands its history has to forget.
THEOREM CommandCorrect ==
  ASSUME NEW b \in Bridges, Bridges = {b}
  PROVE  Spec => []CommandInv
<1>1. TypeOK /\ CmdInv /\ ClaimInv /\ [Next]_vars => ClaimInv'
  BY ClaimStep
<1>2. TypeOK /\ CmdInv /\ ClaimInv /\ HistoryInv /\ [Next]_vars => HistoryInv'
  BY EntryStep, LastStep, ForgetStep DEF HistoryInv
<1>3. TypeOK /\ CmdInv /\ HistoryInv /\ RepeatInv /\ [Next]_vars => RepeatInv'
  BY RepeatStep DEF HistoryInv
<1> QED
  BY <1>1, <1>2, <1>3, TypeInit, TypeStep, GivenInit, GivenStep, ClaimInit, HistoryInit,
     RepeatInit, PTL
  DEF Spec, CommandInv

\* It executes a command whose result it recorded again only when the history had
\* to forget it: never before more commands were executed than it holds, and, until
\* the first restart, never while the result is one of the last it recorded.
THEOREM RecentNeverRerunHolds ==
  ASSUME NEW b \in Bridges, Bridges = {b}
  PROVE  Spec => RecentNeverRerun
<1>1. TypeOK /\ HistoryInv /\ [Next]_vars => RerunsOld
  BY HistoryRuns
<1> QED
  BY <1>1, CommandCorrect, TypeCorrect, PTL DEF CommandInv, Spec, RecentNeverRerun

\* The bound on executions is part of the invariant.
LEMMA RepeatBound == (Bridges # {}) /\ RepeatInv => RepeatsOwed
BY DEF RepeatInv, RepeatsOwed

\* It executes no command more often than once and once for each of its deaths, as
\* long as its history holds the commands that were executed.
THEOREM RepeatsOwedHolds ==
  ASSUME NEW b \in Bridges, Bridges = {b}
  PROVE  Spec => []RepeatsOwed
<1>1. CommandInv => RepeatsOwed
  BY RepeatBound DEF CommandInv
<1> QED BY <1>1, CommandCorrect, PTL

\* The owner sees the result of the last execution, unless a restart, a history
\* file that could not be written and too many commands come together.
THEOREM OwnerSeesLastRunHolds ==
  ASSUME NEW b \in Bridges, Bridges = {b}
  PROVE  Spec => []OwnerSeesLastRun
BY CommandCorrect, HistoryOwner, PTL DEF CommandInv
-----------------------------------------------------------------------------
(* What the owner is promised.                                             *)

\* The phase of a command is that of its status.
LEMMA PhaseIs ==
  ASSUME NEW c \in Cmds
  PROVE  /\ Phases[c] = Phase(c)
         /\ status[c] = "none" => Phase(c) = "none"
         /\ status[c] \in Open => Phase(c) = "open"
         /\ status[c] \in Settled => Phase(c) = "closed"
BY DEF Phases, Phase, Open, Settled

\* A step that moves no command to another phase and executes nothing is not seen.
LEMMA Unseen ==
  ASSUME \A c \in Cmds : Phase(c)' = Phase(c),
         UNCHANGED <<answer, effects, crashes, unwritten>>
  PROVE  UNCHANGED Orders!vars
<1>1. Phases' = Phases
  BY DEF Phases
<1>2. Overfull' = Overfull
  BY DEF Overfull, effects
<1> QED BY <1>1, <1>2 DEF Orders!vars, effects

\* expireCommands() closes orders that were never carried out.
LEMMA ExpireSeen ==
  ASSUME TypeOK, GivenInv, Expire, UNCHANGED <<effects, crashes, unwritten>>
  PROVE  \E S \in SUBSET Cmds : Orders!Expire(S)
<1> DEFINE S == {c \in Cmds : Expirable(c)}
<1>1. \A c \in S : Phases[c] = "open" /\ runs[c] = 0
  <2> SUFFICES ASSUME NEW c \in S PROVE Phases[c] = "open" /\ runs[c] = 0
    OBVIOUS
  <2>1. status[c] = "pending"
    BY DEF Expirable
  <2>2. ~(runs[c] > 0) /\ runs[c] \in Nat
    BY <2>1 DEF GivenInv, TypeOK, Settled
  <2> QED BY <2>1, <2>2, PhaseIs DEF Open
<1>2. Phases' = [c \in Cmds |-> IF c \in S THEN "closed" ELSE Phases[c]]
  <2>1. \A c \in Cmds : Phase(c)' = IF c \in S THEN "closed" ELSE Phase(c)
    BY DEF Expire, Phase, Settled, Open
  <2> QED BY <2>1 DEF Phases
<1>3. answer' = [c \in Cmds |-> IF c \in S THEN Expired ELSE answer[c]]
  BY DEF Expire
<1>4. Overfull' = Overfull
  BY DEF Overfull, effects
<1>5. Orders!Expire(S)
  BY <1>1, <1>2, <1>3, <1>4 DEF Orders!Expire, effects
<1> QED BY <1>5

\* Executing a command of the list is carrying out an open order.
LEMMA ExecuteSeen ==
  ASSUME NEW b \in Bridges, TypeOK, TypeOK', ClaimInv, RepeatInv', [Next]_vars, Execute(b)
  PROVE  \E c \in Cmds : Orders!CarryOut(c)
<1>1. PICK c \in list[b], r \in Results :
        /\ runs' = [runs EXCEPT ![c] = @ + 1] /\ last' = [last EXCEPT ![c] = r]
  BY DEF Execute
<1>2. c \in Cmds /\ pc[b] = "work" /\ status[c] = "claimed"
  BY DEF Execute, ClaimInv, TypeOK
<1>3. Phases' = Phases /\ UNCHANGED <<answer, crashes, unwritten>>
  BY DEF Execute, server, faults, Phases, Phase
<1>4. Phases[c] = "open"
  BY <1>2, PhaseIs DEF Open
<1>5. ~Overfull' => runs[c] <= crashes
  <2>1. ~Overfull' => runs'[c] <= 1 + crashes'
    BY <1>2 DEF RepeatInv
  <2>2. runs'[c] = runs[c] + 1 /\ runs[c] \in Nat /\ crashes \in Nat
    BY <1>1, <1>2, CommandAssumption DEF TypeOK
  <2> QED BY <1>3, <2>1, <2>2
<1>6. Overfull' \in {Overfull, TRUE}
  <2>1. ~Overfull' => ~Overfull
    BY Grows
  <2>2. Overfull \in BOOLEAN /\ Overfull' \in BOOLEAN
    BY DEF Overfull
  <2> QED BY <2>1, <2>2
<1> QED BY <1>1, <1>2, <1>3, <1>4, <1>5, <1>6 DEF Orders!CarryOut

\* An accepted result closes an order that was carried out.
LEMMA PostSeen ==
  ASSUME NEW b \in Bridges, TypeOK, CmdInv, EntryInv, LastInv, Post(b)
  PROVE  UNCHANGED Orders!vars \/ \E c \in Cmds : Orders!Tell(c)
<1> DEFINE c == cmd[b]
<1>1. /\ c \in Cmds /\ memory[b][c] # None /\ runs[c] > 0
      /\ Posted(b) = memory[b][c] /\ Posted(b) \in Results
  BY DEF Post, CmdInv, Working, EntryInv, TypeOK, Posted
<1>2. UNCHANGED <<effects, crashes, unwritten>> /\ Overfull' = Overfull
  BY DEF Post, faults, Overfull, effects
<1>3. CASE status[c] # "claimed"
  <2>1. UNCHANGED server
    BY <1>3 DEF Post
  <2> QED BY <1>2, <2>1, Unseen DEF Phase, server
<1>4. CASE status[c] = "claimed"
  <2>1. /\ status' = [status EXCEPT ![c] = Outcome(Posted(b))]
        /\ answer' = [answer EXCEPT ![c] = Posted(b)]
    BY <1>4 DEF Post
  <2>2. Outcome(Posted(b)) \in Settled
    BY DEF Outcome, Settled
  <2>3. Phases' = [Phases EXCEPT ![c] = "closed"] /\ Phases[c] = "open"
    <3>1. \A d \in Cmds : Phase(d)' = IF d = c THEN "closed" ELSE Phase(d)
      BY <1>1, <2>1, <2>2 DEF Phase, TypeOK, Settled, Open
    <3> QED BY <1>1, <1>4, <3>1, PhaseIs DEF Phases, Open
  <2>4. Posted(b) = last[c] \/ Orders!Dated
    <3>1. CASE Reliable
      BY <1>1, <3>1 DEF LastInv
    <3>2. CASE ~Reliable
      BY <3>2, CommandAssumption DEF Reliable, Orders!Dated, TypeOK
    <3> QED BY <3>1, <3>2
  <2> HIDE DEF c
  <2>5. Orders!Tell(c)
    BY <1>1, <1>2, <2>1, <2>3, <2>4 DEF Orders!Tell, effects
  <2> QED BY <1>1, <2>5
<1> QED BY <1>3, <1>4

\* Every step is a step of the orders, or is not seen there.
LEMMA OrderStep ==
  ASSUME NEW b \in Bridges, Bridges = {b}
  PROVE  TypeOK /\ TypeOK' /\ CommandInv /\ CommandInv' /\ [Next]_vars
           => [Orders!Next]_(Orders!vars)
<1> SUFFICES ASSUME TypeOK, TypeOK', CmdInv, GivenInv, ClaimInv, EntryInv, LastInv,
                    RepeatInv', [Next]_vars
             PROVE  [Orders!Next]_(Orders!vars)
  BY DEF CommandInv, HistoryInv
<1> USE DEF server, times, claim, bridge, history, faults
<1>1. ASSUME NEW c \in Cmds, Enqueue(c) PROVE Orders!Give(c)
  <2>1. status[c] = "none" /\ status' = [status EXCEPT ![c] = "pending"]
    BY <1>1 DEF Enqueue
  <2>2. Phases' = [Phases EXCEPT ![c] = "open"] /\ Phases[c] = "none"
    <3>1. \A d \in Cmds : Phase(d)' = IF d = c THEN "open" ELSE Phase(d)
      BY <2>1 DEF Phase, TypeOK, Open
    <3> QED BY <2>1, <3>1, PhaseIs DEF Phases
  <2>3. Overfull' = Overfull
    BY <1>1 DEF Enqueue, Overfull, effects
  <2> QED BY <1>1, <2>2, <2>3 DEF Enqueue, effects, Orders!Give
<1>2. ASSUME NEW c \in Cmds, Late(c) \/ Stale(c) PROVE UNCHANGED Orders!vars
  BY <1>2, Unseen DEF Late, Stale, Phase
<1>3. CASE ListCommands \/ ClaimExpire(b)
  <2>1. \E S \in SUBSET Cmds : Orders!Expire(S)
    BY <1>3, ExpireSeen DEF ListCommands, ClaimExpire
  <2> QED BY <2>1 DEF Orders!Next
<1>4. CASE ClaimRow(b)
  <2>1. PICK c \in rows[b] : ClaimRow(b)!2!(c)
    BY <1>4 DEF ClaimRow
  <2>2. c \in Cmds
    BY <2>1 DEF TypeOK
  <2>3. \A d \in Cmds : Phase(d)' = Phase(d)
    <3>1. CASE status[c] = "pending" \/ (status[c] = "claimed" /\ c \in old[b])
      <4>1. status' = [status EXCEPT ![c] = "claimed"]
        BY <2>1, <3>1
      <4>2. status \in [Cmds -> {"none"} \cup Open \cup Settled]
        BY DEF TypeOK
      <4>3. status[c] \in Open /\ status'[c] \in Open
        BY <2>2, <3>1, <4>1, <4>2 DEF Open
      <4>4. \A d \in Cmds \ {c} : status'[d] = status[d]
        BY <4>1, <4>2
      <4>5. "none" \notin Open
        BY DEF Open
      <4> QED BY <4>3, <4>4, <4>5 DEF Phase
    <3>2. CASE ~(status[c] = "pending" \/ (status[c] = "claimed" /\ c \in old[b]))
      <4>1. status' = status
        BY <2>1, <3>2
      <4> QED BY <4>1 DEF Phase
    <3> QED BY <3>1, <3>2
  <2> QED BY <1>4, <2>3, Unseen DEF ClaimRow
<1>5. CASE ClaimSelect(b) \/ Receive(b)
  BY <1>5, Unseen DEF ClaimSelect, Receive, Phase
<1>6. CASE Execute(b)
  BY <1>6, ExecuteSeen DEF Orders!Next
<1>7. CASE Post(b)
  BY <1>7, PostSeen DEF Orders!Next
<1>8. CASE Start(b) \/ Ask(b) \/ Cached(b) \/ Record(b) \/ Done(b) \/ Over(b)
  BY <1>8, Unseen DEF Start, Ask, Cached, Record, Done, Over, Phase
<1>9. CASE Abort(b) \/ ClaimFails(b)
  BY <1>9, Unseen DEF Abort, ClaimFails, Phase
<1>10. ASSUME Crash(b) \/ RecordFails(b)
       PROVE  Phases' = Phases /\ Overfull' = Overfull /\ UNCHANGED <<answer, runs, last>>
  BY <1>10 DEF Crash, RecordFails, Phases, Phase, Overfull, effects
<1>11. CASE Crash(b)
  BY <1>10, <1>11 DEF Crash, Orders!Die, Orders!Next
<1>12. CASE RecordFails(b)
  BY <1>10, <1>12 DEF RecordFails, Orders!Lose, Orders!Next
<1>13. CASE UNCHANGED vars
  BY <1>13, Unseen DEF vars, Phase
<1> QED
  BY <1>1, <1>2, <1>3, <1>4, <1>5, <1>6, <1>7, <1>8, <1>9, <1>11, <1>12, <1>13
  DEF Next, Handler, Sync, Faults, Orders!Next

\* Before the owner's first request there is no order.
LEMMA OrderInit == Init => Orders!Init
<1> SUFFICES ASSUME Init PROVE Orders!Init
  OBVIOUS
<1>1. Phases = [c \in Cmds |-> "none"]
  BY DEF Init, Phases, Phase
<1>2. Overfull = FALSE
  <2>1. {c \in Cmds : runs[c] > 0} = {}
    BY DEF Init
  <2> QED BY <2>1, FS_EmptySet, CommandAssumption DEF Overfull
<1> QED BY <1>1, <1>2 DEF Init, Nothing, Orders!Init

\* One bridge, its history, its failures and the handlers of the hosted dashboard
\* implement OwnerOrders, whatever the size of the history.
THEOREM OrdersKept ==
  ASSUME NEW b \in Bridges, Bridges = {b}
  PROVE  Spec => KeepsOrders
<1>1. TypeOK /\ TypeOK' /\ CommandInv /\ CommandInv' /\ [Next]_vars
        => [Orders!Next]_(Orders!vars)
  BY OrderStep
<1> QED
  BY <1>1, OrderInit, TypeCorrect, CommandCorrect, PTL DEF Spec, KeepsOrders, Orders!Spec
=============================================================================
