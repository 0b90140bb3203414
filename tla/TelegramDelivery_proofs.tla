----------------------- MODULE TelegramDelivery_proofs -----------------------
(***************************************************************************)
(* Theorems about TelegramDelivery for every number of events, topics,     *)
(* groups, setups, faults and deaths of the dispatcher.                    *)
(***************************************************************************)
EXTENDS TelegramDelivery, TLAPS

USE DEF config, ledger, run, history

\* A row is an event and a topic.
LEMMA RowParts == ASSUME NEW r \in Rows PROVE r[1] \in Events /\ r[2] \in 0..NTopics
BY DEF Rows

\* Settling a row keeps the ledger typed.
LEMMA OutcomeType ==
  ASSUME TypeOK, NEW r \in Rows, NEW s \in Open \cup Settled, Outcome(r, s)
  PROVE  row' \in [Rows -> {"none"} \cup Open \cup Settled]
<1>1. CASE row[r] \in Settled
  BY <1>1 DEF Outcome, TypeOK
<1>2. CASE row[r] \notin Settled
  BY <1>2 DEF Outcome, TypeOK
<1> QED
  BY <1>1, <1>2

\* A page is a set of rows.
LEMMA PageType == ASSUME NEW S, NEW n PROVE FirstOf(S, n) \subseteq S
BY DEF FirstOf

\* The initial state is typed.
LEMMA TypeInit == Init => TypeOK
<1> SUFFICES ASSUME Init PROVE TypeOK
  OBVIOUS
<1>1. /\ enabled \in BOOLEAN /\ tested \in BOOLEAN /\ blocked \in BOOLEAN
      /\ cooling \in BOOLEAN /\ full \in BOOLEAN
  BY Zenon DEF Init
<1> QED
  BY <1>1, TelegramAssumption DEF Init, TypeOK, Places, Calling, Nowhere

\* Every action keeps the types; while a message is under way its row exists.
LEMMA TypeStep ==
  TypeOK /\ (pc \in Calling => handled \in Rows) /\ [Next]_vars => TypeOK'
<1> SUFFICES ASSUME TypeOK, pc \in Calling => handled \in Rows, [Next]_vars
             PROVE  TypeOK'
  OBVIOUS
<1> USE TelegramAssumption DEF TypeOK, Places, Calling, Setup, Rest, Take, Record, Nowhere
<1>1. ASSUME NEW T \in SUBSET (1..NTopics), Detect(T) PROVE TypeOK'
  <2>1. row' \in [Rows -> {"none"} \cup Open \cup Settled]
    BY <1>1 DEF Detect, Open
  <2>2. dest' \in [Rows -> Chats \cup {None}]
    BY <1>1 DEF Detect
  <2> QED BY <1>1, <2>1, <2>2 DEF Detect
<1>2. ASSUME NEW r \in Rows, Elapse(r) PROVE TypeOK'
  BY <1>2 DEF Elapse
<1>3. CASE CoolDown
  <2>1. cooling' \in BOOLEAN
    BY <1>3 DEF CoolDown
  <2> HIDE DEF Setup, Rest, Take, Record, Nowhere
  <2> QED BY <1>3, <2>1 DEF CoolDown
<1>4. ASSUME NEW c \in Chats, Pair(c) PROVE TypeOK'
  <2>1. /\ enabled' \in BOOLEAN /\ tested' \in BOOLEAN
        /\ blocked' \in BOOLEAN /\ cooling' \in BOOLEAN
    BY <1>4, Zenon DEF Pair
  <2> QED BY <1>4, <2>1 DEF Pair
<1>5. ASSUME NEW c \in Chats, Configure(c) PROVE TypeOK'
  <2>1. /\ enabled' \in BOOLEAN /\ tested' \in BOOLEAN
        /\ blocked' \in BOOLEAN /\ cooling' \in BOOLEAN
    BY <1>5, Zenon DEF Configure
  <2> QED BY <1>5, <2>1 DEF Configure
<1>6. CASE Disable
  <2>1. enabled' \in BOOLEAN /\ tested' \in BOOLEAN
    <3>1. enabled' \in BOOLEAN
      BY <1>6, Zenon DEF Disable
    <3>2. tested' \in BOOLEAN
      BY <1>6, Zenon DEF Disable
    <3> QED BY <3>1, <3>2
  <2> QED BY <1>6, <2>1 DEF Disable
<1>7. CASE Unpair
  <2>1. /\ enabled' \in BOOLEAN /\ tested' \in BOOLEAN
        /\ blocked' \in BOOLEAN /\ cooling' \in BOOLEAN
    BY <1>7, Zenon DEF Unpair
  <2> QED BY <1>7, <2>1 DEF Unpair
<1>8. CASE MarkTested
  BY <1>8 DEF MarkTested
<1>9. CASE Enable
  <2>1. row' \in [Rows -> {"none"} \cup Open \cup Settled]
    BY <1>9 DEF Enable, Settled
  <2> QED BY <1>9, <2>1 DEF Enable, Watermark
<1>10. CASE Begin
  BY <1>10 DEF Begin
<1>11. CASE ReadPage
  <2>1. page' \subseteq Rows
    BY <1>11, PageType DEF ReadPage
  <2>2. full' \in BOOLEAN
    BY <1>11, Zenon DEF ReadPage
  <2> QED BY <1>11, <2>1, <2>2 DEF ReadPage
<1>12. CASE End
  <2>1. full' \in BOOLEAN
    BY <1>12, Zenon DEF End
  <2> QED BY <1>12, <2>1 DEF End
<1>13. ASSUME NEW r \in Rows, Skip(r) PROVE TypeOK'
  <2>1. row' \in [Rows -> {"none"} \cup Open \cup Settled]
    BY <1>13, OutcomeType DEF Skip, Settled
  <2> QED BY <1>13, <2>1 DEF Skip
<1>14. ASSUME NEW r \in Rows, Send(r) PROVE TypeOK'
  BY <1>14 DEF Send, Take
<1>15. CASE Accept
  <2>1. handled \in Rows
    BY <1>15 DEF Accept
  <2> QED BY <1>15, <2>1 DEF Accept
<1>16. CASE RecordDelivered
  <2>1. handled \in Rows
    BY <1>16 DEF RecordDelivered
  <2>2. row' \in [Rows -> {"none"} \cup Open \cup Settled]
    BY <1>16, <2>1, OutcomeType DEF RecordDelivered, Open, Settled
  <2> QED BY <1>16, <2>1, <2>2 DEF RecordDelivered
<1>17. CASE RecordFailed
  <2>1. handled \in Rows
    BY <1>17 DEF RecordFailed
  <2>2. row' \in [Rows -> {"none"} \cup Open \cup Settled]
    BY <1>17, <2>1, OutcomeType DEF RecordFailed, Open, Settled
  <2> QED BY <1>17, <2>1, <2>2 DEF RecordFailed
<1>18. CASE RecordDead
  <2>1. handled \in Rows
    BY <1>18 DEF RecordDead
  <2>2. row' \in [Rows -> {"none"} \cup Open \cup Settled]
    BY <1>18, <2>1, OutcomeType DEF RecordDead, Open, Settled
  <2> QED BY <1>18, <2>1, <2>2 DEF RecordDead
<1>19. CASE Cool
  <2>1. full' \in BOOLEAN
    BY <1>19, Zenon DEF Cool
  <2> QED BY <1>19, <2>1 DEF Cool
<1>20. CASE Block
  <2>1. full' \in BOOLEAN /\ enabled' \in BOOLEAN
    BY <1>20, Zenon DEF Block
  <2> QED BY <1>20, <2>1 DEF Block
<1>21. CASE NoToken
  <2>1. full' \in BOOLEAN
    BY <1>21, Zenon DEF NoToken
  <2> QED BY <1>21, <2>1 DEF NoToken
<1>22. CASE Lose
  BY <1>22 DEF Lose
<1>23. CASE Refuse
  BY <1>23 DEF Refuse
<1>24. CASE Crash
  <2>1. full' \in BOOLEAN
    BY <1>24, Zenon DEF Crash
  <2> QED BY <1>24, <2>1 DEF Crash
<1>25. CASE UNCHANGED vars
  BY <1>25 DEF vars
<1> QED
  BY <1>1, <1>2, <1>3, <1>4, <1>5, <1>6, <1>7, <1>8, <1>9, <1>10, <1>11, <1>12, <1>13,
     <1>14, <1>15, <1>16, <1>17, <1>18, <1>19, <1>20, <1>21, <1>22, <1>23, <1>24, <1>25
  DEF Next, Owner, Dispatch

\* The first outcome of a row that is not settled is recorded as it is.
LEMMA OutcomeIs ==
  ASSUME NEW r \in Rows, NEW s, Outcome(r, s), row[r] \notin Settled
  PROVE  row' = [row EXCEPT ![r] = s]
BY DEF Outcome


\* What a run has read and is sending stays current until it is recorded.
LEMMA RunStep == TypeOK /\ RunInv /\ [Next]_vars => RunInv'
<1> SUFFICES ASSUME TypeOK, RunInv, [Next]_vars PROVE RunInv'
  OBVIOUS
<1>1. ASSUME NEW T \in SUBSET (1..NTopics), Detect(T) PROVE RunInv'
  <2>1. \A r \in Rows : r[1] <= events => row'[r] = row[r]
    BY <1>1, RowParts DEF Detect, TypeOK, Events
  <2>2. events' = events + 1 /\ UNCHANGED <<config, run, mark>>
    BY <1>1 DEF Detect
  <2>3. \A r \in Rows : Current(r) => Current(r)'
    BY <2>1, <2>2, RowParts DEF Current, TypeOK, Events
  <2> QED BY <2>2, <2>3 DEF RunInv, TypeOK
<1>2. ASSUME NEW r \in Rows, Elapse(r) PROVE RunInv'
  BY <1>2 DEF Elapse, RunInv, Current, Calling
<1>3. CASE CoolDown
  BY <1>3 DEF CoolDown, RunInv, Current, Calling
<1>4. ASSUME NEW c \in Chats, Pair(c) PROVE RunInv'
  <2>1. pc' = "idle" /\ page' = {}
    BY <1>4 DEF Pair, Setup, RunInv
  <2>2. enabled' => chat' # None /\ activation' = mark'
    BY <1>4 DEF Pair, Setup, RunInv, TypeOK
  <2> QED BY <2>1, <2>2 DEF RunInv, Calling
<1>5. ASSUME NEW c \in Chats, Configure(c) PROVE RunInv'
  <2>1. pc' = "idle" /\ page' = {}
    BY <1>5 DEF Configure, Setup, RunInv
  <2>2. enabled' => chat' # None /\ activation' = mark'
    BY <1>5 DEF Configure, Setup, RunInv, TypeOK
  <2> QED BY <2>1, <2>2 DEF RunInv, Calling
<1>6. CASE Disable
  <2>1. pc' = "idle" /\ page' = {}
    BY <1>6 DEF Disable, Setup, RunInv
  <2>2. enabled' => chat' # None /\ activation' = mark'
    BY <1>6 DEF Disable, Setup, RunInv, TypeOK
  <2> QED BY <2>1, <2>2 DEF RunInv, Calling
<1>7. CASE Unpair
  <2>1. pc' = "idle" /\ page' = {}
    BY <1>7 DEF Unpair, Setup, RunInv
  <2>2. enabled' => chat' # None /\ activation' = mark'
    BY <1>7 DEF Unpair, Setup, RunInv, TypeOK
  <2> QED BY <2>1, <2>2 DEF RunInv, Calling
<1>8. CASE MarkTested
  <2>1. pc' = "idle" /\ page' = {}
    BY <1>8 DEF MarkTested, RunInv
  <2>2. enabled' => chat' # None /\ activation' = mark'
    BY <1>8 DEF MarkTested, RunInv, TypeOK
  <2> QED BY <2>1, <2>2 DEF RunInv, Calling
<1>9. CASE Enable
  <2>1. pc' = "idle" /\ page' = {}
    BY <1>9 DEF Enable, Watermark, RunInv
  <2>2. enabled' => chat' # None /\ activation' = mark'
    BY <1>9 DEF Enable, Watermark, RunInv, TypeOK
  <2> QED BY <2>1, <2>2 DEF RunInv, Calling
<1>10. CASE Begin
  BY <1>10 DEF Begin, RunInv, Calling
<1>11. CASE ReadPage
  <2>1. \A r \in page' : r \in Rows /\ Due(r) /\ Before(handled, r)
    BY <1>11, PageType DEF ReadPage
  <2>2. \A r \in page' : Current(r) /\ r # handled
    <3> SUFFICES ASSUME NEW r \in page' PROVE Current(r) /\ r # handled
      OBVIOUS
    <3>1. Current(r)
      BY <2>1 DEF Due, Current, Open
    <3>2. r # handled
      BY <2>1, RowParts DEF Before, Events
    <3> QED BY <3>1, <3>2
  <2>3. UNCHANGED <<config, events, ledger, pc, handled, mark>> /\ pc = "next"
    BY <1>11 DEF ReadPage
  <2> QED BY <2>2, <2>3 DEF RunInv, Calling, Current
<1>12. CASE End
  <2>1. pc' = "idle" /\ page' = {}
    BY <1>12 DEF End, Rest
  <2>2. enabled' => chat' # None /\ activation' = mark'
    BY <1>12 DEF End, RunInv
  <2> QED BY <2>1, <2>2 DEF RunInv, Calling
<1>13. ASSUME NEW r \in Rows, Skip(r) PROVE RunInv'
  <2>1. r \in page /\ page' = page \ {r} /\ handled' = r /\ pc = "next"
    BY <1>13 DEF Skip, Take, First
  <2>2. row[r] \notin Settled
    BY <2>1 DEF RunInv, Current, Open, Settled
  <2>3. row' = [row EXCEPT ![r] = "dead_lettered"]
    BY <1>13, <2>2, OutcomeIs DEF Skip
  <2>4. UNCHANGED <<config, events, pc, mark>>
    BY <1>13 DEF Skip
  <2>5. \A s \in page' : row'[s] = row[s]
    BY <2>1, <2>3 DEF TypeOK
  <2> QED BY <2>1, <2>4, <2>5 DEF RunInv, Calling, Current
<1>14. ASSUME NEW r \in Rows, Send(r) PROVE RunInv'
  <2>1. r \in page /\ page' = page \ {r} /\ handled' = r /\ pc = "next"
    BY <1>14 DEF Send, Take, First
  <2>2. UNCHANGED <<config, events, ledger, mark>> /\ pc' = "call"
    BY <1>14 DEF Send
  <2> QED BY <2>1, <2>2 DEF RunInv, Calling, Current, TypeOK
<1>15. CASE Accept
  BY <1>15 DEF Accept, RunInv, Current, Calling
<1>16. CASE RecordDelivered
  <2>1. handled \in Rows /\ row[handled] \notin Settled
    BY <1>16 DEF RunInv, Calling, RecordDelivered, Current, Open, Settled
  <2>2. row' = [row EXCEPT ![handled] = "delivered"]
    BY <1>16, <2>1, OutcomeIs DEF RecordDelivered, Record
  <2>3. \A s \in page : row'[s] = row[s]
    BY <2>1, <2>2 DEF RunInv, TypeOK
  <2>4. UNCHANGED <<config, events, page, handled, mark>>
    BY <1>16 DEF RecordDelivered, Record
  <2>5. pc # "idle" /\ pc' # "idle" /\ pc' \notin Calling
    BY <1>16 DEF RecordDelivered, Calling
  <2> QED BY <2>3, <2>4, <2>5 DEF RunInv, Calling, Current
<1>17. CASE RecordFailed
  <2>1. handled \in Rows /\ row[handled] \notin Settled
    BY <1>17 DEF RunInv, Calling, RecordFailed, Current, Open, Settled
  <2>2. row' = [row EXCEPT ![handled] = "failed"]
    BY <1>17, <2>1, OutcomeIs DEF RecordFailed, Record
  <2>3. \A s \in page : row'[s] = row[s]
    BY <2>1, <2>2 DEF RunInv, TypeOK
  <2>4. UNCHANGED <<config, events, page, handled, mark>>
    BY <1>17 DEF RecordFailed, Record
  <2>5. pc # "idle" /\ pc' # "idle" /\ pc' \notin Calling
    BY <1>17 DEF RecordFailed, Calling
  <2> QED BY <2>3, <2>4, <2>5 DEF RunInv, Calling, Current
<1>18. CASE RecordDead
  <2>1. handled \in Rows /\ row[handled] \notin Settled
    BY <1>18 DEF RunInv, Calling, RecordDead, Current, Open, Settled
  <2>2. row' = [row EXCEPT ![handled] = "dead_lettered"]
    BY <1>18, <2>1, OutcomeIs DEF RecordDead, Record
  <2>3. \A s \in page : row'[s] = row[s]
    BY <2>1, <2>2 DEF RunInv, TypeOK
  <2>4. UNCHANGED <<config, events, page, handled, mark>>
    BY <1>18 DEF RecordDead, Record
  <2>5. pc # "idle" /\ pc' # "idle" /\ pc' \notin Calling
    BY <1>18 DEF RecordDead, Calling
  <2> QED BY <2>3, <2>4, <2>5 DEF RunInv, Calling, Current
<1>19. CASE Cool
  <2>1. pc' = "idle" /\ page' = {}
    BY <1>19 DEF Cool, Rest
  <2>2. enabled' => chat' # None /\ activation' = mark'
    BY <1>19 DEF Cool, RunInv
  <2> QED BY <2>1, <2>2 DEF RunInv, Calling
<1>20. CASE Block
  <2>1. pc' = "idle" /\ page' = {}
    BY <1>20 DEF Block, Rest
  <2>2. enabled' => chat' # None /\ activation' = mark'
    BY <1>20 DEF Block, RunInv
  <2> QED BY <2>1, <2>2 DEF RunInv, Calling
<1>21. CASE NoToken
  <2>1. pc' = "idle" /\ page' = {}
    BY <1>21 DEF NoToken, Rest
  <2>2. enabled' => chat' # None /\ activation' = mark'
    BY <1>21 DEF NoToken, RunInv
  <2> QED BY <2>1, <2>2 DEF RunInv, Calling
<1>22. CASE Lose
  BY <1>22 DEF Lose, RunInv, Current, Calling
<1>23. CASE Refuse
  BY <1>23 DEF Refuse, RunInv, Current, Calling
<1>24. CASE Crash
  <2>1. pc' = "idle" /\ page' = {}
    BY <1>24 DEF Crash, Rest
  <2>2. enabled' => chat' # None /\ activation' = mark'
    BY <1>24 DEF Crash, RunInv
  <2> QED BY <2>1, <2>2 DEF RunInv, Calling
<1>25. CASE UNCHANGED vars
  BY <1>25 DEF vars, RunInv, Current
<1> QED
  BY <1>1, <1>2, <1>3, <1>4, <1>5, <1>6, <1>7, <1>8, <1>9, <1>10, <1>11, <1>12, <1>13,
     <1>14, <1>15, <1>16, <1>17, <1>18, <1>19, <1>20, <1>21, <1>22, <1>23, <1>24, <1>25
  DEF Next, Owner, Dispatch

\* The open rows of an activation stay those of its group.
LEMMA RowStep == TypeOK /\ RunInv /\ RowInv /\ [Next]_vars => RowInv'
<1> SUFFICES ASSUME TypeOK, RunInv, RowInv, [Next]_vars PROVE RowInv'
  OBVIOUS
<1>1. ASSUME NEW T \in SUBSET (1..NTopics), Detect(T) PROVE RowInv'
  <2>1. /\ events' = events + 1 /\ mode' = mode /\ chat' = chat
        /\ activation' = activation /\ received' = received
    BY <1>1 DEF Detect
  <2>2. \A r \in Rows : /\ row'[r] = row[r] /\ dest'[r] = dest[r]
                        \/ /\ row'[r] = "pending" /\ dest'[r] = chat /\ r[1] = events + 1
    BY <1>1 DEF Detect, TypeOK
  <2>3. ASSUME NEW r \in Rows, r[1] > events' PROVE row'[r] = "none" /\ received'[r] = 0
    BY <2>1, <2>2, <2>3, RowParts DEF RowInv, TypeOK, Events
  <2>4. ASSUME mode' = "topics", NEW r \in Rows,
               r[2] # 0, r[1] > activation', row'[r] \in Open
        PROVE  dest'[r] = chat'
    BY <2>1, <2>2, <2>4 DEF RowInv
  <2> QED BY <2>3, <2>4 DEF RowInv
<1>2. ASSUME NEW r \in Rows, Elapse(r) PROVE RowInv'
  BY <1>2 DEF Elapse, RowInv
<1>3. CASE CoolDown
  BY <1>3 DEF CoolDown, RowInv
<1>4. ASSUME NEW c \in Chats, Pair(c) PROVE RowInv'
  BY <1>4 DEF Pair, Setup, RowInv
<1>5. ASSUME NEW c \in Chats, Configure(c) PROVE RowInv'
  <2>1. activation' = events /\ UNCHANGED <<events, row, dest, received>>
    BY <1>5 DEF Configure, Setup
  <2> QED BY <2>1 DEF RowInv, Open
<1>6. CASE Disable
  BY <1>6 DEF Disable, Setup, RowInv
<1>7. CASE Unpair
  BY <1>7 DEF Unpair, Setup, RowInv
<1>8. CASE MarkTested
  BY <1>8 DEF MarkTested, RowInv
<1>9. CASE Enable
  <2>1. activation' = events /\ UNCHANGED <<events, dest, received>>
    BY <1>9 DEF Enable, Watermark
  <2>2. \A r \in Rows : r[1] > events => row'[r] = "none"
    BY <1>9, RowParts DEF Enable, Watermark, RowInv, TypeOK, Events, Open
  <2> QED BY <2>1, <2>2 DEF RowInv, Open
<1>10. CASE Begin
  BY <1>10 DEF Begin, RowInv
<1>11. CASE ReadPage
  BY <1>11 DEF ReadPage, RowInv
<1>12. CASE End
  BY <1>12 DEF End, RowInv
<1>13. ASSUME NEW r \in Rows, Skip(r) PROVE RowInv'
  <2>1. r \in page /\ Current(r)
    BY <1>13 DEF Skip, Take, First, RunInv
  <2>2. row' = [row EXCEPT ![r] = "dead_lettered"]
    BY <1>13, <2>1, OutcomeIs DEF Skip, Current, Open, Settled
  <2>3. r[1] <= events /\ (mode = "topics" => row[r] \in Open)
    BY <2>1 DEF Current
  <2>4. UNCHANGED <<events, dest, received, mode, chat, activation>>
    BY <1>13 DEF Skip
  <2>5. \A s \in Rows : s # r => row'[s] = row[s]
    BY <2>2 DEF TypeOK
  <2>6. \A s \in Rows : s[1] > events => s # r
    BY <2>3, RowParts DEF TypeOK, Events
  <2> QED BY <2>3, <2>4, <2>5, <2>6 DEF RowInv
<1>14. ASSUME NEW r \in Rows, Send(r) PROVE RowInv'
  BY <1>14 DEF Send, RowInv
<1>15. CASE Accept
  <2>1. handled \in Rows /\ handled[1] <= events
    BY <1>15 DEF RunInv, Current, Calling, Accept
  <2>2. \A r \in Rows : r[1] > events => received'[r] = received[r]
    BY <1>15, <2>1, RowParts DEF Accept, TypeOK, Events
  <2>3. UNCHANGED <<events, row, dest, mode, chat, activation>>
    BY <1>15 DEF Accept
  <2> QED BY <2>2, <2>3 DEF RowInv
<1>16. CASE RecordDelivered
  <2>1. handled \in Rows /\ row[handled] \notin Settled
    BY <1>16 DEF RunInv, Calling, RecordDelivered, Current, Open, Settled
  <2>2. row' = [row EXCEPT ![handled] = "delivered"]
    BY <1>16, <2>1, OutcomeIs DEF RecordDelivered, Record
  <2>3. /\ handled[1] <= events
        /\ mode = "topics" => row[handled] \in Open
        /\ \A r \in Rows : r[1] > events => r # handled
    BY <1>16, <2>1, RowParts DEF RunInv, Current, Calling, RecordDelivered, Events, TypeOK
  <2>4. UNCHANGED <<events, dest, received, mode, chat, activation>>
    BY <1>16 DEF RecordDelivered, Record
  <2>5. \A r \in Rows : r # handled => row'[r] = row[r]
    BY <2>2 DEF TypeOK
  <2> QED BY <2>1, <2>3, <2>4, <2>5 DEF RowInv
<1>17. CASE RecordFailed
  <2>1. handled \in Rows /\ row[handled] \notin Settled
    BY <1>17 DEF RunInv, Calling, RecordFailed, Current, Open, Settled
  <2>2. row' = [row EXCEPT ![handled] = "failed"]
    BY <1>17, <2>1, OutcomeIs DEF RecordFailed, Record
  <2>3. /\ handled[1] <= events
        /\ mode = "topics" => row[handled] \in Open
        /\ \A r \in Rows : r[1] > events => r # handled
    BY <1>17, <2>1, RowParts DEF RunInv, Current, Calling, RecordFailed, Events, TypeOK
  <2>4. UNCHANGED <<events, dest, received, mode, chat, activation>>
    BY <1>17 DEF RecordFailed, Record
  <2>5. \A r \in Rows : r # handled => row'[r] = row[r]
    BY <2>2 DEF TypeOK
  <2> QED BY <2>1, <2>3, <2>4, <2>5 DEF RowInv
<1>18. CASE RecordDead
  <2>1. handled \in Rows /\ row[handled] \notin Settled
    BY <1>18 DEF RunInv, Calling, RecordDead, Current, Open, Settled
  <2>2. row' = [row EXCEPT ![handled] = "dead_lettered"]
    BY <1>18, <2>1, OutcomeIs DEF RecordDead, Record
  <2>3. /\ handled[1] <= events
        /\ mode = "topics" => row[handled] \in Open
        /\ \A r \in Rows : r[1] > events => r # handled
    BY <1>18, <2>1, RowParts DEF RunInv, Current, Calling, RecordDead, Events, TypeOK
  <2>4. UNCHANGED <<events, dest, received, mode, chat, activation>>
    BY <1>18 DEF RecordDead, Record
  <2>5. \A r \in Rows : r # handled => row'[r] = row[r]
    BY <2>2 DEF TypeOK
  <2> QED BY <2>1, <2>3, <2>4, <2>5 DEF RowInv
<1>19. CASE Cool
  BY <1>19 DEF Cool, RowInv
<1>20. CASE Block
  BY <1>20 DEF Block, RowInv
<1>21. CASE NoToken
  BY <1>21 DEF NoToken, RowInv
<1>22. CASE Lose
  <2>1. handled \in Rows /\ handled[1] <= events
    BY <1>22 DEF RunInv, Current, Calling, Lose
  <2>2. \A r \in Rows : r[1] > events => received'[r] = received[r]
    BY <1>22, <2>1, RowParts DEF Lose, TypeOK, Events
  <2>3. UNCHANGED <<events, row, dest, mode, chat, activation>>
    BY <1>22 DEF Lose
  <2> QED BY <2>2, <2>3 DEF RowInv
<1>23. CASE Refuse
  BY <1>23 DEF Refuse, RowInv
<1>24. CASE Crash
  BY <1>24 DEF Crash, RowInv
<1>25. CASE UNCHANGED vars
  BY <1>25 DEF vars, RowInv
<1> QED
  BY <1>1, <1>2, <1>3, <1>4, <1>5, <1>6, <1>7, <1>8, <1>9, <1>10, <1>11, <1>12, <1>13,
     <1>14, <1>15, <1>16, <1>17, <1>18, <1>19, <1>20, <1>21, <1>22, <1>23, <1>24, <1>25
  DEF Next, Owner, Dispatch

\* The events of an activation have rows, or were sent, in its mode only.
LEMMA ModeStep == TypeOK /\ RunInv /\ RowInv /\ ModeInv /\ [Next]_vars => ModeInv'
<1> SUFFICES ASSUME TypeOK, RunInv, RowInv, ModeInv, [Next]_vars PROVE ModeInv'
  OBVIOUS
<1>1. ASSUME NEW T \in SUBSET (1..NTopics), Detect(T) PROVE ModeInv'
  <2>1. UNCHANGED <<mode, enabled, activation, received>>
    BY <1>1 DEF Detect
  <2>2. \A r \in Rows : \/ row'[r] = row[r]
                        \/ row'[r] = "pending" /\ r[2] \in 1..NTopics /\ mode = "topics"
    BY <1>1 DEF Detect, TypeOK
  <2> QED BY <2>1, <2>2 DEF ModeInv, TypeOK
<1>2. ASSUME NEW r \in Rows, Elapse(r) PROVE ModeInv'
  BY <1>2 DEF Elapse, ModeInv
<1>3. CASE CoolDown
  BY <1>3 DEF CoolDown, ModeInv
<1>4. ASSUME NEW c \in Chats, Pair(c) PROVE ModeInv'
  BY <1>4 DEF Pair, Setup, ModeInv
<1>5. ASSUME NEW c \in Chats, Configure(c) PROVE ModeInv'
  BY <1>5 DEF Configure, Setup, ModeInv
<1>6. CASE Disable
  BY <1>6 DEF Disable, Setup, ModeInv
<1>7. CASE Unpair
  BY <1>7 DEF Unpair, Setup, ModeInv
<1>8. CASE MarkTested
  BY <1>8 DEF MarkTested, ModeInv
<1>9. CASE Enable
  <2>1. activation' = events /\ UNCHANGED <<mode, received>>
    BY <1>9 DEF Enable, Watermark
  <2>2. \A r \in Rows : row'[r] = "none" => row[r] = "none"
    BY <1>9 DEF Enable, TypeOK
  <2>3. \A r \in Rows : r[1] > events => row'[r] = "none" /\ received[r] = 0
    BY <1>9, RowParts DEF Enable, Watermark, RowInv, TypeOK, Events, Open
  <2> QED BY <2>1, <2>2, <2>3 DEF ModeInv
<1>10. CASE Begin
  BY <1>10 DEF Begin, ModeInv
<1>11. CASE ReadPage
  BY <1>11 DEF ReadPage, ModeInv
<1>12. CASE End
  BY <1>12 DEF End, ModeInv
<1>13. ASSUME NEW r \in Rows, Skip(r) PROVE ModeInv'
  <2>1. r \in page /\ Current(r)
    BY <1>13 DEF Skip, Take, First, RunInv
  <2>2. row' = [row EXCEPT ![r] = "dead_lettered"]
    BY <1>13, <2>1, OutcomeIs DEF Skip, Current, Open, Settled
  <2>3. r[2] # 0 => row[r] # "none" /\ mode = "topics"
    BY <2>1 DEF Current, Open, TypeOK
  <2>4. UNCHANGED <<received, mode, enabled, activation>>
    BY <1>13 DEF Skip
  <2>5. row'[r] # "none" /\ \A s \in Rows : s # r => row'[s] = row[s]
    BY <2>2 DEF TypeOK
  <2> QED BY <2>3, <2>4, <2>5 DEF ModeInv
<1>14. ASSUME NEW r \in Rows, Send(r) PROVE ModeInv'
  BY <1>14 DEF Send, ModeInv
<1>15. CASE Accept
  <2>1. handled \in Rows /\ Current(handled)
    BY <1>15 DEF RunInv, Calling, Accept
  <2>2. \A r \in Rows : r # handled => received'[r] = received[r]
    BY <1>15 DEF Accept, TypeOK
  <2>3. UNCHANGED <<row, mode, enabled, activation>>
    BY <1>15 DEF Accept
  <2>4. /\ handled[2] # 0 => row[handled] # "none" /\ mode = "topics"
        /\ handled[2] = 0 => mode = "single"
    BY <2>1 DEF Current, Open, TypeOK
  <2> QED BY <2>2, <2>3, <2>4 DEF ModeInv
<1>16. CASE RecordDelivered
  <2>1. handled \in Rows /\ row[handled] \notin Settled
    BY <1>16 DEF RunInv, Calling, RecordDelivered, Current, Open, Settled
  <2>2. row' = [row EXCEPT ![handled] = "delivered"]
    BY <1>16, <2>1, OutcomeIs DEF RecordDelivered, Record
  <2>3. handled[2] # 0 => row[handled] # "none" /\ mode = "topics"
    BY <1>16, <2>1 DEF RunInv, Current, Calling, RecordDelivered, TypeOK, Open
  <2>4. UNCHANGED <<received, mode, enabled, activation>>
    BY <1>16 DEF RecordDelivered, Record
  <2>5. /\ \A r \in Rows : r # handled => row'[r] = row[r]
        /\ row'[handled] # "none"
    BY <2>1, <2>2 DEF TypeOK
  <2> QED BY <2>1, <2>3, <2>4, <2>5 DEF ModeInv
<1>17. CASE RecordFailed
  <2>1. handled \in Rows /\ row[handled] \notin Settled
    BY <1>17 DEF RunInv, Calling, RecordFailed, Current, Open, Settled
  <2>2. row' = [row EXCEPT ![handled] = "failed"]
    BY <1>17, <2>1, OutcomeIs DEF RecordFailed, Record
  <2>3. handled[2] # 0 => row[handled] # "none" /\ mode = "topics"
    BY <1>17, <2>1 DEF RunInv, Current, Calling, RecordFailed, TypeOK, Open
  <2>4. UNCHANGED <<received, mode, enabled, activation>>
    BY <1>17 DEF RecordFailed, Record
  <2>5. /\ \A r \in Rows : r # handled => row'[r] = row[r]
        /\ row'[handled] # "none"
    BY <2>1, <2>2 DEF TypeOK
  <2> QED BY <2>1, <2>3, <2>4, <2>5 DEF ModeInv
<1>18. CASE RecordDead
  <2>1. handled \in Rows /\ row[handled] \notin Settled
    BY <1>18 DEF RunInv, Calling, RecordDead, Current, Open, Settled
  <2>2. row' = [row EXCEPT ![handled] = "dead_lettered"]
    BY <1>18, <2>1, OutcomeIs DEF RecordDead, Record
  <2>3. handled[2] # 0 => row[handled] # "none" /\ mode = "topics"
    BY <1>18, <2>1 DEF RunInv, Current, Calling, RecordDead, TypeOK, Open
  <2>4. UNCHANGED <<received, mode, enabled, activation>>
    BY <1>18 DEF RecordDead, Record
  <2>5. /\ \A r \in Rows : r # handled => row'[r] = row[r]
        /\ row'[handled] # "none"
    BY <2>1, <2>2 DEF TypeOK
  <2> QED BY <2>1, <2>3, <2>4, <2>5 DEF ModeInv
<1>19. CASE Cool
  BY <1>19 DEF Cool, ModeInv
<1>20. CASE Block
  BY <1>20 DEF Block, ModeInv
<1>21. CASE NoToken
  BY <1>21 DEF NoToken, ModeInv
<1>22. CASE Lose
  <2>1. handled \in Rows /\ Current(handled)
    BY <1>22 DEF RunInv, Calling, Lose
  <2>2. \A r \in Rows : r # handled => received'[r] = received[r]
    BY <1>22 DEF Lose, TypeOK
  <2>3. UNCHANGED <<row, mode, enabled, activation>>
    BY <1>22 DEF Lose
  <2>4. /\ handled[2] # 0 => row[handled] # "none" /\ mode = "topics"
        /\ handled[2] = 0 => mode = "single"
    BY <2>1 DEF Current, Open, TypeOK
  <2> QED BY <2>2, <2>3, <2>4 DEF ModeInv
<1>23. CASE Refuse
  BY <1>23 DEF Refuse, ModeInv
<1>24. CASE Crash
  BY <1>24 DEF Crash, ModeInv
<1>25. CASE UNCHANGED vars
  BY <1>25 DEF vars, ModeInv
<1> QED
  BY <1>1, <1>2, <1>3, <1>4, <1>5, <1>6, <1>7, <1>8, <1>9, <1>10, <1>11, <1>12, <1>13,
     <1>14, <1>15, <1>16, <1>17, <1>18, <1>19, <1>20, <1>21, <1>22, <1>23, <1>24, <1>25
  DEF Next, Owner, Dispatch

\* No event appears in a second mode.
LEMMA OneModeStep == TypeOK /\ RunInv /\ ModeInv /\ OneMode /\ [Next]_vars => OneMode'
<1> SUFFICES ASSUME TypeOK, RunInv, ModeInv, OneMode, [Next]_vars PROVE OneMode'
  OBVIOUS
<1>1. ASSUME NEW T \in SUBSET (1..NTopics), Detect(T) PROVE OneMode'
  BY <1>1 DEF Detect, OneMode
<1>2. ASSUME NEW r \in Rows, Elapse(r) PROVE OneMode'
  BY <1>2 DEF Elapse, OneMode
<1>3. CASE CoolDown
  BY <1>3 DEF CoolDown, OneMode
<1>4. ASSUME NEW c \in Chats, Pair(c) PROVE OneMode'
  BY <1>4 DEF Pair, Setup, OneMode
<1>5. ASSUME NEW c \in Chats, Configure(c) PROVE OneMode'
  BY <1>5 DEF Configure, Setup, OneMode
<1>6. CASE Disable
  BY <1>6 DEF Disable, Setup, OneMode
<1>7. CASE Unpair
  BY <1>7 DEF Unpair, Setup, OneMode
<1>8. CASE MarkTested
  BY <1>8 DEF MarkTested, OneMode
<1>9. CASE Enable
  BY <1>9 DEF Enable, OneMode
<1>10. CASE Begin
  BY <1>10 DEF Begin, OneMode
<1>11. CASE ReadPage
  BY <1>11 DEF ReadPage, OneMode
<1>12. CASE End
  BY <1>12 DEF End, OneMode
<1>13. ASSUME NEW r \in Rows, Skip(r) PROVE OneMode'
  BY <1>13 DEF Skip, OneMode
<1>14. ASSUME NEW r \in Rows, Send(r) PROVE OneMode'
  BY <1>14 DEF Send, OneMode
<1>15. CASE Accept
  <2>1. handled \in Rows /\ Current(handled) /\ enabled
    BY <1>15 DEF RunInv, Calling, Accept
  <2>2. \A r \in Rows : r # handled => received'[r] = received[r]
    BY <1>15 DEF Accept, TypeOK
  <2>3. ASSUME NEW e \in Events, NEW t \in 1..NTopics
        PROVE  received'[<<e, 0>>] = 0 \/ received'[<<e, t>>] = 0
    <3>1. <<e, 0>> \in Rows /\ <<e, t>> \in Rows
      BY TelegramAssumption DEF Rows
    <3>2. CASE handled = <<e, 0>>
      <4>1. mode = "single" /\ e > activation
        BY <2>1, <3>2 DEF Current, TypeOK, Events
      <4>2. row[<<e, t>>] = "none"
        BY <2>1, <3>1, <4>1 DEF ModeInv
      <4>3. received[<<e, t>>] = 0
        BY <3>1, <4>2 DEF ModeInv
      <4> QED BY <2>2, <3>1, <3>2, <4>3
    <3>3. CASE handled = <<e, t>>
      <4>1. mode = "topics" /\ e > activation
        BY <2>1, <3>3 DEF Current, TypeOK, Events
      <4>2. received[<<e, 0>>] = 0
        BY <2>1, <3>1, <4>1 DEF ModeInv
      <4> QED BY <2>2, <3>1, <3>3, <4>2
    <3>4. CASE handled # <<e, 0>> /\ handled # <<e, t>>
      BY <2>2, <3>1, <3>4 DEF OneMode
    <3> QED BY <3>2, <3>3, <3>4
  <2> QED BY <2>3 DEF OneMode
<1>16. CASE RecordDelivered
  BY <1>16 DEF RecordDelivered, Record, OneMode
<1>17. CASE RecordFailed
  BY <1>17 DEF RecordFailed, Record, OneMode
<1>18. CASE RecordDead
  BY <1>18 DEF RecordDead, Record, OneMode
<1>19. CASE Cool
  BY <1>19 DEF Cool, OneMode
<1>20. CASE Block
  BY <1>20 DEF Block, OneMode
<1>21. CASE NoToken
  BY <1>21 DEF NoToken, OneMode
<1>22. CASE Lose
  <2>1. handled \in Rows /\ Current(handled) /\ enabled
    BY <1>22 DEF RunInv, Calling, Lose
  <2>2. \A r \in Rows : r # handled => received'[r] = received[r]
    BY <1>22 DEF Lose, TypeOK
  <2>3. ASSUME NEW e \in Events, NEW t \in 1..NTopics
        PROVE  received'[<<e, 0>>] = 0 \/ received'[<<e, t>>] = 0
    <3>1. <<e, 0>> \in Rows /\ <<e, t>> \in Rows
      BY TelegramAssumption DEF Rows
    <3>2. CASE handled = <<e, 0>>
      <4>1. mode = "single" /\ e > activation
        BY <2>1, <3>2 DEF Current, TypeOK, Events
      <4>2. row[<<e, t>>] = "none"
        BY <2>1, <3>1, <4>1 DEF ModeInv
      <4>3. received[<<e, t>>] = 0
        BY <3>1, <4>2 DEF ModeInv
      <4> QED BY <2>2, <3>1, <3>2, <4>3
    <3>3. CASE handled = <<e, t>>
      <4>1. mode = "topics" /\ e > activation
        BY <2>1, <3>3 DEF Current, TypeOK, Events
      <4>2. received[<<e, 0>>] = 0
        BY <2>1, <3>1, <4>1 DEF ModeInv
      <4> QED BY <2>2, <3>1, <3>3, <4>2
    <3>4. CASE handled # <<e, 0>> /\ handled # <<e, t>>
      BY <2>2, <3>1, <3>4 DEF OneMode
    <3> QED BY <3>2, <3>3, <3>4
  <2> QED BY <2>3 DEF OneMode
<1>23. CASE Refuse
  BY <1>23 DEF Refuse, OneMode
<1>24. CASE Crash
  BY <1>24 DEF Crash, OneMode
<1>25. CASE UNCHANGED vars
  BY <1>25 DEF vars, OneMode
<1> QED
  BY <1>1, <1>2, <1>3, <1>4, <1>5, <1>6, <1>7, <1>8, <1>9, <1>10, <1>11, <1>12, <1>13,
     <1>14, <1>15, <1>16, <1>17, <1>18, <1>19, <1>20, <1>21, <1>22, <1>23, <1>24, <1>25
  DEF Next, Owner, Dispatch

\* No message is uncounted, and only a doubt repeats one.
LEMMA CountStep == TypeOK /\ RunInv /\ RowInv /\ CountInv /\ [Next]_vars => CountInv'
<1> SUFFICES ASSUME TypeOK, RunInv, RowInv, CountInv, [Next]_vars PROVE CountInv'
  OBVIOUS
<1>1. ASSUME NEW T \in SUBSET (1..NTopics), Detect(T) PROVE CountInv'
  <2>1. UNCHANGED <<pc, handled, received, doubts>>
    BY <1>1 DEF Detect
  <2>2. \A r \in Rows : row'[r] = "delivered" <=> row[r] = "delivered"
    BY <1>1, RowParts DEF Detect, RowInv, TypeOK, Events
  <2> QED BY <2>1, <2>2 DEF CountInv, Acknowledged
<1>2. ASSUME NEW r \in Rows, Elapse(r) PROVE CountInv'
  BY <1>2 DEF Elapse, CountInv, Acknowledged
<1>3. CASE CoolDown
  BY <1>3 DEF CoolDown, CountInv, Acknowledged
<1>4. ASSUME NEW c \in Chats, Pair(c) PROVE CountInv'
  BY <1>4 DEF Pair, Setup, CountInv, Acknowledged
<1>5. ASSUME NEW c \in Chats, Configure(c) PROVE CountInv'
  BY <1>5 DEF Configure, Setup, CountInv, Acknowledged
<1>6. CASE Disable
  BY <1>6 DEF Disable, Setup, CountInv, Acknowledged
<1>7. CASE Unpair
  BY <1>7 DEF Unpair, Setup, CountInv, Acknowledged
<1>8. CASE MarkTested
  BY <1>8 DEF MarkTested, CountInv, Acknowledged
<1>9. CASE Enable
  <2>1. UNCHANGED <<pc, handled, received, doubts>>
    BY <1>9 DEF Enable
  <2>2. \A r \in Rows : row'[r] = "delivered" <=> row[r] = "delivered"
    BY <1>9 DEF Enable, TypeOK, Open
  <2> QED BY <2>1, <2>2 DEF CountInv, Acknowledged
<1>10. CASE Begin
  BY <1>10 DEF Begin, CountInv, Acknowledged
<1>11. CASE ReadPage
  BY <1>11 DEF ReadPage, CountInv, Acknowledged
<1>12. CASE End
  <2>1. UNCHANGED <<row, received, doubts>> /\ pc # "accepted" /\ pc' = "idle"
    BY <1>12 DEF End, Rest
  <2> QED BY <2>1 DEF CountInv, Acknowledged
<1>13. ASSUME NEW r \in Rows, Skip(r) PROVE CountInv'
  <2>1. r \in page /\ Current(r)
    BY <1>13 DEF Skip, Take, First, RunInv
  <2>2. row[r] # "delivered" /\ row[r] \notin Settled
    BY <2>1 DEF Current, Open, Settled
  <2>3. row' = [row EXCEPT ![r] = "dead_lettered"]
    BY <1>13, <2>2, OutcomeIs DEF Skip
  <2>4. UNCHANGED <<pc, received, doubts>> /\ pc # "accepted"
    BY <1>13 DEF Skip, Take
  <2>5. row'[r] # "delivered" /\ \A s \in Rows : s # r => row'[s] = row[s]
    BY <2>3 DEF TypeOK
  <2> QED BY <2>2, <2>4, <2>5 DEF CountInv, Acknowledged
<1>14. ASSUME NEW r \in Rows, Send(r) PROVE CountInv'
  <2>1. UNCHANGED <<row, received, doubts>> /\ pc = "next" /\ pc' = "call"
    BY <1>14 DEF Send, Take
  <2> QED BY <2>1 DEF CountInv, Acknowledged
<1>15. CASE Accept
  <2>1. handled \in Rows /\ row[handled] # "delivered" /\ pc # "accepted"
    BY <1>15 DEF RunInv, Calling, Accept, Current, Open
  <2>2. received[handled] <= doubts[handled]
    BY <2>1 DEF CountInv, Acknowledged
  <2>3. /\ received'[handled] = received[handled] + 1
        /\ \A r \in Rows : r # handled => received'[r] = received[r]
    BY <1>15, <2>1 DEF Accept, TypeOK
  <2>4. UNCHANGED <<handled, row, doubts>> /\ pc' = "accepted"
    BY <1>15 DEF Accept
  <2>5. ASSUME NEW r \in Rows
        PROVE  /\ Acknowledged(r)' => 0 < received'[r] /\ received'[r] <= doubts'[r] + 1
               /\ ~Acknowledged(r)' => received'[r] <= doubts'[r]
    <3>1. CASE r = handled
      BY <2>1, <2>2, <2>3, <2>4, <3>1 DEF Acknowledged, TypeOK
    <3>2. CASE r # handled
      BY <2>1, <2>3, <2>4, <3>2 DEF Acknowledged, CountInv
    <3> QED BY <3>1, <3>2
  <2> QED BY <2>5 DEF CountInv
<1>16. CASE RecordDelivered
  <2>1. handled \in Rows /\ row[handled] \notin Settled
    BY <1>16 DEF RunInv, Calling, RecordDelivered, Current, Open, Settled
  <2>2. row' = [row EXCEPT ![handled] = "delivered"]
    BY <1>16, <2>1, OutcomeIs DEF RecordDelivered, Record
  <2>3. UNCHANGED <<handled, received, doubts>> /\ pc = "accepted" /\ pc' = "next"
    BY <1>16 DEF RecordDelivered, Record
  <2>4. /\ row'[handled] = "delivered"
        /\ \A r \in Rows : r # handled => row'[r] = row[r]
    BY <2>1, <2>2 DEF TypeOK
  <2> QED BY <2>1, <2>3, <2>4 DEF CountInv, Acknowledged
<1>17. CASE RecordFailed
  <2>1. handled \in Rows /\ row[handled] \notin Settled
    BY <1>17 DEF RunInv, Calling, RecordFailed, Current, Open, Settled
  <2>2. row' = [row EXCEPT ![handled] = "failed"]
    BY <1>17, <2>1, OutcomeIs DEF RecordFailed, Record
  <2>3. UNCHANGED <<handled, received, doubts>> /\ pc # "accepted" /\ pc' # "accepted"
    BY <1>17 DEF RecordFailed, Record
  <2>4. /\ row[handled] # "delivered" /\ row'[handled] # "delivered"
        /\ \A r \in Rows : r # handled => row'[r] = row[r]
    BY <2>1, <2>2 DEF TypeOK, Settled
  <2> QED BY <2>1, <2>3, <2>4 DEF CountInv, Acknowledged
<1>18. CASE RecordDead
  <2>1. handled \in Rows /\ row[handled] \notin Settled
    BY <1>18 DEF RunInv, Calling, RecordDead, Current, Open, Settled
  <2>2. row' = [row EXCEPT ![handled] = "dead_lettered"]
    BY <1>18, <2>1, OutcomeIs DEF RecordDead, Record
  <2>3. UNCHANGED <<handled, received, doubts>> /\ pc # "accepted" /\ pc' # "accepted"
    BY <1>18 DEF RecordDead, Record
  <2>4. /\ row[handled] # "delivered" /\ row'[handled] # "delivered"
        /\ \A r \in Rows : r # handled => row'[r] = row[r]
    BY <2>1, <2>2 DEF TypeOK, Settled
  <2> QED BY <2>1, <2>3, <2>4 DEF CountInv, Acknowledged
<1>19. CASE Cool
  <2>1. UNCHANGED <<row, received, doubts>> /\ pc # "accepted" /\ pc' = "idle"
    BY <1>19 DEF Cool, Rest
  <2> QED BY <2>1 DEF CountInv, Acknowledged
<1>20. CASE Block
  <2>1. UNCHANGED <<row, received, doubts>> /\ pc # "accepted" /\ pc' = "idle"
    BY <1>20 DEF Block, Rest
  <2> QED BY <2>1 DEF CountInv, Acknowledged
<1>21. CASE NoToken
  <2>1. UNCHANGED <<row, received, doubts>> /\ pc # "accepted" /\ pc' = "idle"
    BY <1>21 DEF NoToken, Rest
  <2> QED BY <2>1 DEF CountInv, Acknowledged
<1>22. CASE Lose
  <2>1. handled \in Rows /\ row[handled] # "delivered" /\ pc # "accepted" /\ pc' # "accepted"
    BY <1>22 DEF RunInv, Calling, Lose, Current, Open
  <2>2. UNCHANGED <<handled, row>>
    BY <1>22 DEF Lose
  <2>3. CASE UNCHANGED <<received, doubts>>
    BY <2>1, <2>2, <2>3 DEF CountInv, Acknowledged
  <2>4. CASE /\ received' = [received EXCEPT ![handled] = received[handled] + 1]
             /\ doubts' = [doubts EXCEPT ![handled] = doubts[handled] + 1]
    <3>1. /\ received'[handled] = received[handled] + 1
          /\ doubts'[handled] = doubts[handled] + 1
      BY <2>1, <2>4 DEF TypeOK
    <3>2. \A r \in Rows : r # handled => received'[r] = received[r]
      BY <2>4 DEF TypeOK
    <3>3. \A r \in Rows : r # handled => doubts'[r] = doubts[r]
      BY <2>4 DEF TypeOK
    <3>4. received[handled] \in Nat /\ doubts[handled] \in Nat
      BY <2>1 DEF TypeOK
    <3> QED BY <2>1, <2>2, <3>1, <3>2, <3>3, <3>4 DEF CountInv, Acknowledged
  <2>5. \/ UNCHANGED <<received, doubts>>
        \/ /\ received' = [received EXCEPT ![handled] = received[handled] + 1]
           /\ doubts' = [doubts EXCEPT ![handled] = doubts[handled] + 1]
    BY <1>22 DEF Lose
  <2> QED BY <2>3, <2>4, <2>5
<1>23. CASE Refuse
  BY <1>23 DEF Refuse, CountInv, Acknowledged
<1>24. CASE Crash
  <2>1. UNCHANGED <<row, received>> /\ pc' = "idle"
    BY <1>24 DEF Crash, Rest
  <2>2. CASE pc = "accepted"
    <3>1. handled \in Rows
      BY <2>2 DEF RunInv, Calling
    <3>2. /\ doubts'[handled] = doubts[handled] + 1
          /\ \A r \in Rows : r # handled => doubts'[r] = doubts[r]
      BY <1>24, <2>2, <3>1 DEF Crash, TypeOK
    <3>3. /\ received[handled] > 0 /\ received[handled] <= doubts[handled] + 1
          /\ row[handled] # "delivered"
      BY <2>2, <3>1 DEF CountInv, Acknowledged, RunInv, Calling, Current, Open
    <3> QED BY <2>1, <2>2, <3>1, <3>2, <3>3 DEF CountInv, Acknowledged
  <2>3. CASE pc # "accepted"
    BY <1>24, <2>1, <2>3 DEF CountInv, Acknowledged, Crash
  <2> QED BY <2>2, <2>3
<1>25. CASE UNCHANGED vars
  BY <1>25 DEF vars, CountInv, Acknowledged
<1> QED
  BY <1>1, <1>2, <1>3, <1>4, <1>5, <1>6, <1>7, <1>8, <1>9, <1>10, <1>11, <1>12, <1>13,
     <1>14, <1>15, <1>16, <1>17, <1>18, <1>19, <1>20, <1>21, <1>22, <1>23, <1>24, <1>25
  DEF Next, Owner, Dispatch

\* A refusal that a death hides is the only one that can be followed by another.
LEMMA RefusalStep == TypeOK /\ RunInv /\ RefusalInv /\ [Next]_vars => RefusalInv'
<1> SUFFICES ASSUME TypeOK, RunInv, RefusalInv, [Next]_vars PROVE RefusalInv'
  OBVIOUS
<1>1. ASSUME NEW T \in SUBSET (1..NTopics), Detect(T) PROVE RefusalInv'
  BY <1>1 DEF Detect, RefusalInv, TypeOK
<1>2. ASSUME NEW r \in Rows, Elapse(r) PROVE RefusalInv'
  BY <1>2 DEF Elapse, RefusalInv, TypeOK
<1>3. CASE CoolDown
  BY <1>3 DEF CoolDown, RefusalInv, TypeOK
<1>4. ASSUME NEW c \in Chats, Pair(c) PROVE RefusalInv'
  BY <1>4 DEF Pair, Setup, RefusalInv, TypeOK
<1>5. ASSUME NEW c \in Chats, Configure(c) PROVE RefusalInv'
  BY <1>5 DEF Configure, Setup, RefusalInv, TypeOK
<1>6. CASE Disable
  BY <1>6 DEF Disable, Setup, RefusalInv, TypeOK
<1>7. CASE Unpair
  BY <1>7 DEF Unpair, Setup, RefusalInv, TypeOK
<1>8. CASE MarkTested
  BY <1>8 DEF MarkTested, RefusalInv, TypeOK
<1>9. CASE Enable
  BY <1>9 DEF Enable, RefusalInv, TypeOK
<1>10. CASE Begin
  BY <1>10 DEF Begin, RefusalInv, TypeOK
<1>11. CASE ReadPage
  BY <1>11 DEF ReadPage, RefusalInv, TypeOK
<1>12. CASE End
  BY <1>12 DEF End, Rest, RefusalInv, TypeOK
<1>13. ASSUME NEW r \in Rows, Skip(r) PROVE RefusalInv'
  BY <1>13 DEF Skip, Take, RefusalInv, TypeOK
<1>14. ASSUME NEW r \in Rows, Send(r) PROVE RefusalInv'
  BY <1>14 DEF Send, Take, RefusalInv, TypeOK
<1>15. CASE Accept
  BY <1>15 DEF Accept, RefusalInv, TypeOK
<1>16. CASE RecordDelivered
  BY <1>16 DEF RecordDelivered, Record, RefusalInv, TypeOK
<1>17. CASE RecordFailed
  BY <1>17 DEF RecordFailed, Record, RefusalInv, TypeOK
<1>18. CASE RecordDead
  BY <1>18 DEF RecordDead, Record, RefusalInv, TypeOK
<1>19. CASE Cool
  BY <1>19 DEF Cool, Rest, RefusalInv, TypeOK
<1>20. CASE Block
  BY <1>20 DEF Block, Rest, RefusalInv, TypeOK
<1>21. CASE NoToken
  BY <1>21 DEF NoToken, Rest, RefusalInv, TypeOK
<1>22. CASE Lose
  BY <1>22 DEF Lose, RefusalInv, TypeOK
<1>23. CASE Refuse
  BY <1>23 DEF Refuse, RefusalInv, RunInv, TypeOK
<1>24. CASE Crash
  BY <1>24 DEF Crash, Rest, RefusalInv, TypeOK
<1>25. CASE UNCHANGED vars
  BY <1>25 DEF vars, RefusalInv
<1> QED
  BY <1>1, <1>2, <1>3, <1>4, <1>5, <1>6, <1>7, <1>8, <1>9, <1>10, <1>11, <1>12, <1>13,
     <1>14, <1>15, <1>16, <1>17, <1>18, <1>19, <1>20, <1>21, <1>22, <1>23, <1>24, <1>25
  DEF Next, Owner, Dispatch

\* Everything that is proved of a state at once.
IInv == TypeOK /\ DeliveryInv /\ OneMode

LEMMA InvInit == Init => IInv
<1> SUFFICES ASSUME Init PROVE IInv
  OBVIOUS
<1>1. TypeOK
  BY TypeInit
<1>2. RunInv
  BY DEF Init, RunInv, Calling
<1>3. RowInv /\ ModeInv /\ OneMode
  BY TelegramAssumption DEF Init, RowInv, ModeInv, OneMode, Rows, Open
<1>4. CountInv /\ RefusalInv
  BY DEF Init, CountInv, Acknowledged, RefusalInv
<1> QED
  BY <1>1, <1>2, <1>3, <1>4 DEF IInv, DeliveryInv

\* Every step keeps it.
LEMMA InvStep == IInv /\ [Next]_vars => IInv'
<1> SUFFICES ASSUME IInv, [Next]_vars PROVE IInv'
  OBVIOUS
<1> USE DEF IInv, DeliveryInv
<1>1. TypeOK'
  BY TypeStep DEF RunInv
<1>2. RunInv'
  BY RunStep
<1>3. RowInv' /\ ModeInv'
  BY RowStep, ModeStep
<1>4. CountInv' /\ RefusalInv'
  BY CountStep, RefusalStep
<1>5. OneMode'
  BY OneModeStep
<1> QED
  BY <1>1, <1>2, <1>3, <1>4, <1>5

LEMMA Inductive == Spec => []IInv
BY InvInit, InvStep, PTL DEF Spec

\* The settings, the ledger and the dispatcher have their types.
THEOREM TypeCorrect == Spec => []TypeOK
<1>1. IInv => TypeOK
  BY DEF IInv
<1> QED
  BY <1>1, Inductive, PTL

\* The settings, the ledger and the dispatcher agree through every switch,
\* failure and death (telegram.py:340-525, :660-795).
THEOREM DeliveryCorrect == Spec => []DeliveryInv
<1>1. IInv => DeliveryInv
  BY DEF IInv
<1> QED
  BY <1>1, Inductive, PTL

\* Only events detected since delivery was enabled last are sent, to the group
\* that is paired now, and nothing settled is sent again (telegram.py:372-376, :417).
THEOREM SendsOnlyNewHolds == Spec => []SendsOnlyNew
<1>1. IInv => SendsOnlyNew
  <2> SUFFICES ASSUME IInv, pc \in Calling
               PROVE  /\ row[handled] \notin Settled /\ mark < handled[1]
                      /\ Target(handled) = chat /\ chat # None
    BY DEF SendsOnlyNew
  <2>1. handled \in Rows /\ Current(handled) /\ pc # "idle"
    BY DEF IInv, DeliveryInv, RunInv, Calling
  <2>2. enabled /\ chat # None /\ activation = mark
    BY <2>1 DEF IInv, DeliveryInv, RunInv
  <2>3. row[handled] \notin Settled /\ mark < handled[1]
    BY <2>1, <2>2 DEF Current, Open, Settled
  <2>4. Target(handled) = chat
    BY <2>1, RowParts DEF IInv, DeliveryInv, RowInv, Current, Target, TypeOK, Events
  <2> QED BY <2>2, <2>3, <2>4
<1> QED
  BY <1>1, Inductive, PTL

\* An event appears in one mode only, however often the mode changes
\* (telegram.py:340-440).
THEOREM OneModeHolds == Spec => []OneMode
<1>1. IInv => OneMode
  BY DEF IInv
<1> QED
  BY <1>1, Inductive, PTL

\* Delivery is at-least-once, and repeats only what the ledger could not know
\* (docs/operator-guide.md:74-77).
THEOREM OnlyDoubtsRepeatHolds == Spec => []OnlyDoubtsRepeat
<1>1. IInv => OnlyDoubtsRepeat
  <2> SUFFICES ASSUME IInv, NEW r \in Rows
               PROVE  received[r] <= doubts[r] + 1 /\ (row[r] = "delivered" => received[r] > 0)
    BY DEF OnlyDoubtsRepeat
  <2>1. received[r] \in Nat /\ doubts[r] \in Nat
    BY DEF IInv, TypeOK
  <2> QED BY <2>1 DEF IInv, DeliveryInv, CountInv, Acknowledged
<1> QED
  BY <1>1, Inductive, PTL

\* A channel that refused is left alone until the owner enables delivery again,
\* but for a death before the block is stored (telegram.py:744-748).
THEOREM RefusedOnceHolds == Spec => []RefusedOnce
<1>1. IInv => RefusedOnce
  BY DEF IInv, DeliveryInv, RefusalInv, RefusedOnce, TypeOK
<1> QED
  BY <1>1, Inductive, PTL

-----------------------------------------------------------------------------
(* The ledger.                                                             *)

\* A message that appears was acknowledged never before.
LEMMA HistoryStep ==
  ASSUME IInv, [Next]_vars, NEW r \in Rows
  PROVE  /\ \/ received'[r] = received[r]
            \/ received'[r] = received[r] + 1 /\ received[r] <= doubts[r]
         /\ doubts'[r] \in {doubts[r], doubts[r] + 1}
<1> USE DEF IInv, TypeOK
<1>1. ASSUME pc = "call"
      PROVE  handled \in Rows /\ received[handled] <= doubts[handled]
  BY <1>1 DEF DeliveryInv, RunInv, Calling, Current, Open, CountInv, Acknowledged
<1>2. CASE Accept
  BY <1>1, <1>2 DEF Accept
<1>3. CASE Lose
  BY <1>1, <1>3 DEF Lose
<1>4. CASE Crash
  BY <1>4 DEF Crash
<1>5. CASE UNCHANGED <<received, doubts>>
  BY <1>5
<1>6. ASSUME Owner PROVE UNCHANGED <<received, doubts>>
  BY <1>6 DEF Owner, Pair, Configure, Disable, Unpair, Setup, MarkTested, Enable
<1>7. ASSUME Dispatch PROVE Accept \/ UNCHANGED <<received, doubts>>
  BY <1>7 DEF Dispatch, Begin, ReadPage, End, Skip, Send, RecordDelivered, RecordFailed,
              RecordDead, Record, Cool, Block
<1> QED
  BY <1>2, <1>3, <1>4, <1>5, <1>6, <1>7
  DEF Next, Detect, Elapse, CoolDown, NoToken, Refuse, vars

\* A row that is not settled gets an outcome, "delivered" only after the message
\* appeared; a settled one never does.
LEMMA RowMoves ==
  ASSUME IInv, [Next]_vars, NEW r \in Rows, row'[r] # row[r]
  PROVE  /\ row[r] \notin Settled /\ row'[r] # "none"
         /\ row'[r] = "delivered" => received[r] > 0
<1> USE DEF IInv, TypeOK
<1>1. ASSUME NEW T \in SUBSET (1..NTopics), Detect(T)
      PROVE  row[r] = "none" /\ row'[r] = "pending"
  <2>1. row'[r] = "pending" /\ r[1] = events + 1
    BY <1>1 DEF Detect
  <2>2. r[1] > events
    BY <2>1
  <2> QED BY <2>1, <2>2 DEF DeliveryInv, RowInv
<1>2. CASE Enable
  BY <1>2 DEF Enable, Open, Settled
<1>3. ASSUME NEW s \in Rows, Skip(s)
      PROVE  row[r] \notin Settled /\ row'[r] = "dead_lettered"
  BY <1>3 DEF Skip, Outcome
<1>4. ASSUME RecordFailed \/ RecordDead
      PROVE  row[r] \notin Settled /\ row'[r] \in {"failed", "dead_lettered"}
  BY <1>4 DEF RecordFailed, RecordDead, Record, Outcome
<1>5. CASE RecordDelivered
  <2>1. handled = r /\ row[r] \notin Settled /\ row'[r] = "delivered" /\ pc = "accepted"
    BY <1>5 DEF RecordDelivered, Record, Outcome
  <2>2. received[r] > 0
    BY <2>1 DEF DeliveryInv, CountInv, Acknowledged
  <2> QED BY <2>1, <2>2
<1>6. ASSUME Owner PROVE Enable
  BY <1>6 DEF Owner, Pair, Configure, Disable, Unpair, Setup, MarkTested
<1>7. ASSUME Dispatch
      PROVE  RecordDelivered \/ RecordFailed \/ RecordDead \/ \E s \in Rows : Skip(s)
  BY <1>7 DEF Dispatch, Begin, ReadPage, End, Send, Accept, Cool, Block
<1> QED
  BY <1>1, <1>2, <1>3, <1>4, <1>5, <1>6, <1>7
  DEF Next, Elapse, CoolDown, NoToken, Lose, Refuse, Crash, vars, Settled

\* Each step of the settings, the dispatcher or Telegram is one of the ledger.
LEMMA LedgerStep ==
  ASSUME IInv, IInv', [Next]_vars
  PROVE  [Ledger!Next]_(Ledger!vars)
<1>1. ASSUME NEW r \in Rows PROVE Recorded(r)' \in Ledger!Outcomes
  BY DEF Recorded, Ledger!Outcomes, Ledger!Unsettled
<1>2. ASSUME NEW r \in Rows, Recorded(r)' # Recorded(r)
      PROVE  /\ Recorded(r) \in Ledger!Unsettled
             /\ Recorded(r)' # "absent"
             /\ Recorded(r)' = "delivered" => received[r] > 0
  <2>1. row'[r] # row[r]
    BY <1>2 DEF Recorded
  <2>2. /\ row[r] \notin Settled /\ row'[r] # "none"
        /\ row'[r] = "delivered" => received[r] > 0
    BY <2>1, RowMoves
  <2>3. row[r] \in {"none"} \cup Open /\ row'[r] \in Open \cup Settled
    BY <2>2 DEF IInv, TypeOK
  <2>4. Recorded(r) \in Ledger!Unsettled
    BY <2>3 DEF Recorded, Ledger!Unsettled, Open
  <2>5. Recorded(r)' # "absent" /\ (Recorded(r)' = "delivered" => row'[r] = "delivered")
    BY <2>2, <2>3 DEF Recorded, Open, Settled
  <2> QED BY <2>2, <2>4, <2>5
<1>3. ASSUME NEW r \in Rows PROVE Ledger!Step(r)
  BY <1>1, <1>2, HistoryStep DEF Ledger!Step, Ledger!Recorded, Ledger!Shown
<1>4. /\ [r \in Rows |-> Recorded(r)]' \in [Rows -> Ledger!Outcomes]
      /\ received' \in [Rows -> Nat] /\ doubts' \in [Rows -> Nat]
  BY <1>1 DEF IInv, TypeOK
<1> QED BY <1>3, <1>4 DEF Ledger!Next

\* Pages, backoffs, modes, refusals and deaths implement the ledger that web push
\* implements too (telegram.py:483-525, :660-795).
THEOREM LedgerKept == Spec => KeepsLedger
<1>1. Init => Ledger!Init
  <2> SUFFICES ASSUME Init PROVE Ledger!Init
    OBVIOUS
  <2>1. ASSUME NEW r \in Rows PROVE Recorded(r) = "absent"
    <3>1. row[r] = "none"
      BY DEF Init
    <3> QED BY <3>1 DEF Recorded, Open
  <2>2. [r \in Rows |-> Recorded(r)] = [r \in Rows |-> "absent"]
    BY <2>1
  <2>3. received = [r \in Rows |-> 0] /\ doubts = [r \in Rows |-> 0]
    BY DEF Init
  <2> QED BY <2>2, <2>3 DEF Ledger!Init
<1>2. IInv /\ IInv' /\ [Next]_vars => [Ledger!Next]_(Ledger!vars)
  BY LedgerStep
<1> QED
  BY <1>1, <1>2, Inductive, PTL DEF Spec, KeepsLedger, Ledger!Spec
=============================================================================
