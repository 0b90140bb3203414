------------------------ MODULE ContentDrafts_proofs ------------------------
(***************************************************************************)
(* Theorems about ContentDrafts for every number of requests, command-line *)
(* calls, versions and deaths.                                             *)
(***************************************************************************)
EXTENDS ContentDrafts, TLAPS

USE DEF rows, story, worker

\* The initial state is typed, nobody works and nothing is stored.
LEMMA InitHolds == Init => TypeOK /\ Placed /\ Searched
<1> SUFFICES ASSUME Init PROVE TypeOK /\ Placed /\ Searched
  OBVIOUS
<1>1. Items \cap Cli = {} /\ Items \subseteq Workers /\ Cli \subseteq Workers
  BY ConstantsAssumption DEF Items, Workers
<1>2. TypeOK
  BY ConstantsAssumption DEF Init, TypeOK, Statuses, Places
<1>3. Placed
  BY <1>1 DEF Init, Placed, Drafting
<1>4. Searched
  BY <1>1 DEF Init, Searched
<1> QED BY <1>2, <1>3, <1>4

\* The next version is a version.
LEMMA NextVersion == version \in Nat => version + 1 \in Nat
OBVIOUS

\* A new version keeps the drafts typed.
LEMMA ReplaceType ==
  ASSUME TypeOK, NEW gone, NEW status \in {"Current", "Editable Shell"}, NEW i \in Items,
         Replace(gone, status, i)
  PROVE  drafts' \in SUBSET Drafts /\ version' \in Nat
<1>1. drafts \subseteq Drafts
  BY DEF TypeOK
<1>2. version \in Nat
  BY DEF TypeOK
<1>3. version + 1 \in Nat
  BY <1>2, NextVersion
<1>4. [version |-> version + 1, status |-> status, item |-> i] \in Drafts
  BY <1>3 DEF Drafts
<1> QED BY <1>1, <1>3, <1>4 DEF Replace

\* A draft belongs to an item.
LEMMA DraftItem == ASSUME TypeOK, NEW d \in drafts PROVE d.item \in Items
BY DEF TypeOK, Drafts

\* Saving a shell cancels its request, which had not ended; saving a text changes none.
LEMMA SaveMoves ==
  ASSUME TypeOK, NEW d \in drafts, Save(d)
  PROVE  \E i \in Items :
           \/ UNCHANGED work
           \/ /\ work[i] \in {"failed"} \cup Underway
              /\ work' = [work EXCEPT ![i] = "cancelled"]
<1>1. d.item \in Items
  BY DraftItem
<1>2. CASE d.status = "Editable Shell"
  BY <1>1, <1>2 DEF Save, Goes, Becomes, Rests
<1>3. CASE d.status # "Editable Shell"
  BY <1>1, <1>3 DEF Save, Goes, Becomes, Rests
<1> QED BY <1>2, <1>3

\* Making a shell keeps the drafts typed.
LEMMA ShellType ==
  ASSUME TypeOK, NEW i \in Items, MakeShell(i)
  PROVE  drafts' \in SUBSET Drafts /\ version' \in Nat
BY ReplaceType DEF MakeShell, Shellable, TypeOK

\* Every step keeps the types.
LEMMA TypeStep == TypeOK /\ Placed /\ [Next]_vars => TypeOK'
<1> SUFFICES ASSUME TypeOK, Placed, [Next]_vars PROVE TypeOK'
  OBVIOUS
<1>1. ASSUME NEW i \in Items, Create(i) PROVE TypeOK'
  BY <1>1 DEF Create, Goes, Becomes, Rests, TypeOK, Statuses, Underway, Settled, Places, Searching, Drafting, Workers
<1>2. ASSUME NEW i \in Items, View(i) \/ ViewShell(i) PROVE TypeOK'
  BY <1>2, ShellType DEF View, ViewShell, Goes, Becomes, Rests, TypeOK, Statuses, Underway, Settled, Places, Searching, Drafting, Workers
<1>3. ASSUME NEW i \in Items, Elapse(i) PROVE TypeOK'
  BY <1>3 DEF Elapse, Goes, Becomes, Rests, TypeOK, Statuses, Underway, Settled, Places, Searching, Drafting, Workers
<1>4. ASSUME NEW i \in Items, Shell(i) PROVE TypeOK'
  BY <1>4, ShellType DEF Shell, Goes, Becomes, Rests, TypeOK, Statuses, Underway, Settled, Places, Searching, Drafting, Workers
<1>5. ASSUME NEW i \in Items, Look(i) PROVE TypeOK'
  <2>1. at' \in [Workers -> Places] /\ search' \in [Items -> {"none", "queued", "running", "completed"}]
    BY <1>5 DEF Look, Goes, Becomes, Rests, TypeOK, Statuses, Underway, Settled, Places, Searching, Drafting, Workers
  <2>2. work' \in [Items -> Statuses] /\ due' \in [Items -> BOOLEAN]
    <3>1. Rests(i, "queued") \/ UNCHANGED <<work, due>>
      BY <1>5 DEF Look
    <3> QED BY <3>1 DEF Rests, Becomes, TypeOK, Statuses, Underway
  <2> QED BY <1>5, <2>1, <2>2 DEF Look, Goes, Becomes, Rests, TypeOK
<1>6. ASSUME NEW i \in Items, Found(i) PROVE TypeOK'
  BY <1>6 DEF Found, Goes, Becomes, Rests, TypeOK, Statuses, Underway, Settled, Places, Searching, Drafting, Workers
<1>7. ASSUME NEW i \in Items, Requeue(i) PROVE TypeOK'
  <2>1. at' \in [Workers -> Places] /\ revived' \in SUBSET Items
    BY <1>7 DEF Requeue, Goes, Becomes, Rests, TypeOK, Statuses, Underway, Settled, Places, Searching, Drafting, Workers
  <2>2. work' \in [Items -> Statuses] /\ due' \in [Items -> BOOLEAN]
    BY <1>7 DEF Requeue, Goes, Becomes, Rests, TypeOK, Statuses, Underway, Settled, Places, Searching, Drafting, Workers
  <2> QED BY <1>7, <2>1, <2>2 DEF Requeue, Goes, Becomes, Rests, TypeOK
<1>8. ASSUME NEW d \in drafts, Save(d) PROVE TypeOK'
  <2>1. d.item \in Items
    BY DraftItem
  <2>2. drafts' \in SUBSET Drafts /\ version' \in Nat
    BY <1>8, <2>1, ReplaceType DEF Save, Goes, Becomes, Rests
  <2> QED BY <1>8, <2>1, <2>2 DEF Save, Goes, Becomes, Rests, TypeOK, Statuses, Underway, Settled, Places, Searching, Drafting, Workers
<1>9. CASE Archive
  BY <1>9 DEF Archive, Goes, Becomes, Rests, TypeOK, Statuses, Underway, Settled, Places, Searching, Drafting, Workers
<1>10. ASSUME NEW w \in Workers, Pick(w) \/ Die(w) PROVE TypeOK'
  BY <1>10 DEF Pick, Die, Goes, Becomes, Rests, TypeOK, Statuses, Underway, Settled, Places, Searching, Drafting, Workers
<1>11. ASSUME NEW w \in Workers, Start(w) PROVE TypeOK'
  BY <1>11 DEF Start, Goes, Becomes, Rests, TypeOK, Statuses, Underway, Settled, Places, Searching, Drafting, Workers
<1>12. ASSUME NEW w \in Workers, Ensure(w) \/ TurnDeferred(w) PROVE TypeOK'
  BY <1>12 DEF Ensure, TurnDeferred, Goes, Becomes, Rests, TypeOK, Statuses, Underway, Settled, Places, Searching, Drafting, Workers
<1>13. ASSUME NEW w \in Workers, Defer(w) PROVE TypeOK'
  BY <1>13 DEF Defer, Goes, Becomes, Rests, TypeOK, Statuses, Underway, Settled, Places, Searching, Drafting, Workers
<1>14. ASSUME NEW w \in Workers, Claim(w) PROVE TypeOK'
  <2>1. item[w] \in Items
    BY <1>14 DEF Claim, Placed, Drafting
  <2>2. work' \in [Items -> Statuses] /\ due' \in [Items -> BOOLEAN]
    BY <1>14, <2>1 DEF Claim, Goes, Becomes, Rests, TypeOK, Statuses, Underway
  <2>3. attempts' \in [Items -> Nat] /\ seen' \in [Workers -> Nat]
    BY <1>14, <2>1 DEF Claim, Goes, Becomes, Rests, TypeOK
  <2>4. at' \in [Workers -> Places]
    BY <1>14 DEF Claim, Goes, Becomes, Rests, TypeOK, Places, Drafting
  <2> QED BY <1>14, <2>2, <2>3, <2>4 DEF Claim, Goes, Becomes, Rests, TypeOK
<1>15. ASSUME NEW w \in Workers, Store(w) PROVE TypeOK'
  <2>1. item[w] \in Items
    BY <1>15 DEF Store, Placed, Drafting
  <2>2. drafts' \in SUBSET Drafts /\ version' \in Nat
    BY <1>15, <2>1, ReplaceType DEF Store, Goes, Becomes, Rests, TypeOK
  <2>3. work' \in [Items -> Statuses] /\ due' \in [Items -> BOOLEAN]
    BY <1>15, <2>1 DEF Store, Goes, Becomes, Rests, TypeOK, Statuses, Underway, Settled, Places, Searching, Drafting, Workers
  <2>4. results' \in [Items -> Nat]
    BY <1>15, <2>1 DEF Store, Goes, Becomes, Rests, TypeOK
  <2> QED BY <1>15, <2>2, <2>3, <2>4 DEF Store, Goes, Becomes, Rests, TypeOK, Statuses, Underway, Settled, Places, Searching, Drafting, Workers
<1>16. ASSUME NEW w \in Workers, Retry(w) PROVE TypeOK'
  BY <1>16 DEF Retry, Goes, Becomes, Rests, TypeOK, Statuses, Underway, Settled, Places, Searching, Drafting, Workers
<1>17. ASSUME NEW w \in Workers, Wake(w) PROVE TypeOK'
  <2>1. due' \in [Items -> BOOLEAN]
    BY <1>17 DEF Wake, Goes, Becomes, Rests, TypeOK
  <2> QED BY <1>17, <2>1 DEF Wake, Goes, Becomes, Rests, TypeOK, Statuses, Underway, Settled, Places, Searching, Drafting, Workers
<1>18. ASSUME NEW w \in Workers, Fail(w) PROVE TypeOK'
  BY <1>18 DEF Fail, Goes, Becomes, Rests, TypeOK, Statuses, Underway, Settled, Places, Searching, Drafting, Workers
<1>19. CASE UNCHANGED vars
  BY <1>19 DEF vars, Goes, Becomes, Rests, TypeOK, Statuses, Underway, Settled, Places, Searching, Drafting, Workers
<1> QED BY <1>1, <1>2, <1>3, <1>4, <1>5, <1>6, <1>7, <1>8, <1>9, <1>10, <1>11, <1>12, <1>13, <1>14, <1>15, <1>16, <1>17, <1>18, <1>19 DEF Next, Draft, Pipeline

\* Every worker stays with its item.
LEMMA PlacedStep == TypeOK /\ Placed /\ [Next]_vars => Placed'
<1> SUFFICES ASSUME TypeOK, Placed, [Next]_vars PROVE Placed'
  OBVIOUS
<1>a. Items \cap Cli = {} /\ 0 \notin Items
  BY ConstantsAssumption DEF Items
<1>1. ASSUME NEW i \in Items, Create(i) PROVE Placed'
  BY <1>1, <1>a DEF Create, Goes, Becomes, Rests, TypeOK, Placed, Workers, Drafting, Claimable, Owns, Underway, Settled
<1>2. ASSUME NEW i \in Items, View(i) \/ ViewShell(i) PROVE Placed'
  BY <1>2, <1>a DEF View, ViewShell, Goes, Becomes, Rests, TypeOK, Placed, Workers, Drafting, Claimable, Owns, Underway, Settled
<1>3. ASSUME NEW i \in Items, Elapse(i) PROVE Placed'
  BY <1>3, <1>a DEF Elapse, Goes, Becomes, Rests, TypeOK, Placed, Workers, Drafting, Claimable, Owns, Underway, Settled
<1>4. ASSUME NEW i \in Items, Shell(i) PROVE Placed'
  BY <1>4, <1>a DEF Shell, Goes, Becomes, Rests, TypeOK, Placed, Workers, Drafting, Claimable, Owns, Underway, Settled
<1>5. ASSUME NEW i \in Items, Look(i) PROVE Placed'
  BY <1>5, <1>a DEF Look, Goes, Becomes, Rests, TypeOK, Placed, Workers, Drafting, Claimable, Owns, Underway, Settled
<1>6. ASSUME NEW i \in Items, Found(i) PROVE Placed'
  BY <1>6, <1>a DEF Found, Goes, Becomes, Rests, TypeOK, Placed, Workers, Drafting, Claimable, Owns, Underway, Settled
<1>7. ASSUME NEW i \in Items, Requeue(i) PROVE Placed'
  BY <1>7, <1>a DEF Requeue, Goes, Becomes, Rests, TypeOK, Placed, Workers, Drafting, Claimable, Owns, Underway, Settled
<1>8. ASSUME NEW d \in drafts, Save(d) PROVE Placed'
  <2>1. PICK i \in Items :
           \/ UNCHANGED work
           \/ /\ work[i] \in {"failed"} \cup Underway
              /\ work' = [work EXCEPT ![i] = "cancelled"]
    BY <1>8, SaveMoves DEF ContentInv
  <2>2. UNCHANGED <<attempts, search, views, results, worker, revived, deaths>>
    BY <1>8 DEF Save, Goes, Becomes, Rests
  <2> QED BY <2>1, <2>2, <1>a DEF Goes, Becomes, Rests, TypeOK, Placed, Workers, Drafting, Claimable, Owns, Underway, Settled
<1>9. CASE Archive
  BY <1>9, <1>a DEF Archive, Goes, Becomes, Rests, TypeOK, Placed, Workers, Drafting, Claimable, Owns, Underway, Settled
<1>10. ASSUME NEW w \in Workers, Pick(w) \/ Die(w) PROVE Placed'
  BY <1>10, <1>a DEF Pick, Die, Goes, Becomes, Rests, TypeOK, Placed, Workers, Drafting, Claimable, Owns, Underway, Settled
<1>11. ASSUME NEW w \in Workers, Start(w) PROVE Placed'
  BY <1>11, <1>a DEF Start, Goes, Becomes, Rests, TypeOK, Placed, Workers, Drafting, Claimable, Owns, Underway, Settled
<1>12. ASSUME NEW w \in Workers, Ensure(w) \/ TurnDeferred(w) PROVE Placed'
  BY <1>12, <1>a DEF Ensure, TurnDeferred, Goes, Becomes, Rests, TypeOK, Placed, Workers, Drafting, Claimable, Owns, Underway, Settled
<1>13. ASSUME NEW w \in Workers, Defer(w) PROVE Placed'
  BY <1>13, <1>a DEF Defer, Goes, Becomes, Rests, TypeOK, Placed, Workers, Drafting, Claimable, Owns, Underway, Settled
<1>14. ASSUME NEW w \in Workers, Claim(w) PROVE Placed'
  BY <1>14, <1>a DEF Claim, Goes, Becomes, Rests, TypeOK, Placed, Workers, Drafting, Claimable, Owns, Underway, Settled
<1>15. ASSUME NEW w \in Workers, Store(w) PROVE Placed'
  BY <1>15, <1>a DEF Store, Goes, Becomes, Rests, TypeOK, Placed, Workers, Drafting, Claimable, Owns, Underway, Settled
<1>16. ASSUME NEW w \in Workers, Retry(w) PROVE Placed'
  BY <1>16, <1>a DEF Retry, Goes, Becomes, Rests, TypeOK, Placed, Workers, Drafting, Claimable, Owns, Underway, Settled
<1>17. ASSUME NEW w \in Workers, Wake(w) PROVE Placed'
  BY <1>17, <1>a DEF Wake, Goes, Becomes, Rests, TypeOK, Placed, Workers, Drafting, Claimable, Owns, Underway, Settled
<1>18. ASSUME NEW w \in Workers, Fail(w) PROVE Placed'
  BY <1>18, <1>a DEF Fail, Goes, Becomes, Rests, TypeOK, Placed, Workers, Drafting, Claimable, Owns, Underway, Settled
<1>19. CASE UNCHANGED vars
  BY <1>19 DEF vars, Goes, Becomes, Rests, TypeOK, Placed, Workers, Drafting, Claimable, Owns, Underway, Settled
<1> QED BY <1>1, <1>2, <1>3, <1>4, <1>5, <1>6, <1>7, <1>8, <1>9, <1>10, <1>11, <1>12, <1>13, <1>14, <1>15, <1>16, <1>17, <1>18, <1>19 DEF Next, Draft, Pipeline

\* Only a thread ends its own request's search.
LEMMA SearchedStep == TypeOK /\ Placed /\ Searched /\ [Next]_vars => Searched'
<1> SUFFICES ASSUME TypeOK, Placed, Searched, [Next]_vars PROVE Searched'
  OBVIOUS
<1>a. Items \cap Cli = {}
  BY ConstantsAssumption DEF Items
<1>1. ASSUME NEW i \in Items, Create(i) PROVE Searched'
  BY <1>1, <1>a DEF Create, Goes, Becomes, Rests, TypeOK, Placed, Searched, Workers, Drafting
<1>2. ASSUME NEW i \in Items, View(i) \/ ViewShell(i) PROVE Searched'
  BY <1>2, <1>a DEF View, ViewShell, Goes, Becomes, Rests, TypeOK, Placed, Searched, Workers, Drafting
<1>3. ASSUME NEW i \in Items, Elapse(i) PROVE Searched'
  BY <1>3, <1>a DEF Elapse, Goes, Becomes, Rests, TypeOK, Placed, Searched, Workers, Drafting
<1>4. ASSUME NEW i \in Items, Shell(i) PROVE Searched'
  BY <1>4, <1>a DEF Shell, Goes, Becomes, Rests, TypeOK, Placed, Searched, Workers, Drafting
<1>5. ASSUME NEW i \in Items, Look(i) PROVE Searched'
  BY <1>5, <1>a DEF Look, Goes, Becomes, Rests, TypeOK, Placed, Searched, Workers, Drafting
<1>6. ASSUME NEW i \in Items, Found(i) PROVE Searched'
  BY <1>6, <1>a DEF Found, Goes, Becomes, Rests, TypeOK, Placed, Searched, Workers, Drafting
<1>7. ASSUME NEW i \in Items, Requeue(i) PROVE Searched'
  BY <1>7, <1>a DEF Requeue, Goes, Becomes, Rests, TypeOK, Placed, Searched, Workers, Drafting
<1>8. ASSUME NEW d \in drafts, Save(d) PROVE Searched'
  BY <1>8, <1>a DEF Save, Goes, Becomes, Rests, TypeOK, Placed, Searched, Workers, Drafting
<1>9. CASE Archive
  BY <1>9, <1>a DEF Archive, Goes, Becomes, Rests, TypeOK, Placed, Searched, Workers, Drafting
<1>10. ASSUME NEW w \in Workers, Pick(w) \/ Die(w) PROVE Searched'
  BY <1>10, <1>a DEF Pick, Die, Goes, Becomes, Rests, TypeOK, Placed, Searched, Workers, Drafting
<1>11. ASSUME NEW w \in Workers, Start(w) PROVE Searched'
  BY <1>11, <1>a DEF Start, Goes, Becomes, Rests, TypeOK, Placed, Searched, Workers, Drafting
<1>12. ASSUME NEW w \in Workers, Ensure(w) \/ TurnDeferred(w) PROVE Searched'
  BY <1>12, <1>a DEF Ensure, TurnDeferred, Goes, Becomes, Rests, TypeOK, Placed, Searched, Workers, Drafting
<1>13. ASSUME NEW w \in Workers, Defer(w) PROVE Searched'
  BY <1>13, <1>a DEF Defer, Goes, Becomes, Rests, TypeOK, Placed, Searched, Workers, Drafting
<1>14. ASSUME NEW w \in Workers, Claim(w) PROVE Searched'
  BY <1>14, <1>a DEF Claim, Goes, Becomes, Rests, TypeOK, Placed, Searched, Workers, Drafting
<1>15. ASSUME NEW w \in Workers, Store(w) PROVE Searched'
  BY <1>15, <1>a DEF Store, Goes, Becomes, Rests, TypeOK, Placed, Searched, Workers, Drafting
<1>16. ASSUME NEW w \in Workers, Retry(w) PROVE Searched'
  BY <1>16, <1>a DEF Retry, Goes, Becomes, Rests, TypeOK, Placed, Searched, Workers, Drafting
<1>17. ASSUME NEW w \in Workers, Wake(w) PROVE Searched'
  BY <1>17, <1>a DEF Wake, Goes, Becomes, Rests, TypeOK, Placed, Searched, Workers, Drafting
<1>18. ASSUME NEW w \in Workers, Fail(w) PROVE Searched'
  BY <1>18, <1>a DEF Fail, Goes, Becomes, Rests, TypeOK, Placed, Searched, Workers, Drafting
<1>19. CASE UNCHANGED vars
  BY <1>19 DEF vars, Goes, Becomes, Rests, TypeOK, Placed, Searched, Workers, Drafting
<1> QED BY <1>1, <1>2, <1>3, <1>4, <1>5, <1>6, <1>7, <1>8, <1>9, <1>10, <1>11, <1>12, <1>13, <1>14, <1>15, <1>16, <1>17, <1>18, <1>19 DEF Next, Draft, Pipeline

\* Types, workers and searches together are inductive.
LEMMA ContentInvHolds == Spec => []ContentInv
<1>1. Init => ContentInv
  BY InitHolds DEF ContentInv
<1>2. ContentInv /\ [Next]_vars => ContentInv'
  BY TypeStep, PlacedStep, SearchedStep DEF ContentInv
<1> QED BY <1>1, <1>2, PTL DEF Spec

\* Statuses, workers, drafts and counts keep their types (services.py,
\* assistance.py: what the rows of these tables may hold).
THEOREM TypeCorrect == Spec => []TypeOK
BY ContentInvHolds, PTL DEF ContentInv

\* No step opens a completed or cancelled request.
LEMMA SettledStep ==
  ContentInv /\ [Next]_vars => \A k \in Items : work[k] \in Settled => work'[k] = work[k]
<1> SUFFICES ASSUME ContentInv, [Next]_vars
             PROVE  \A k \in Items : work[k] \in Settled => work'[k] = work[k]
  OBVIOUS
<1>a. Items \cap Cli = {}
  BY ConstantsAssumption DEF Items
<1>1. ASSUME NEW i \in Items, Create(i) PROVE \A k \in Items : work[k] \in Settled => work'[k] = work[k]
  BY <1>1 DEF Create, Goes, Becomes, Rests, ContentInv, TypeOK, Placed, Workers, Drafting, Claimable, Owns, Underway, Settled
<1>2. ASSUME NEW i \in Items, View(i) \/ ViewShell(i) PROVE \A k \in Items : work[k] \in Settled => work'[k] = work[k]
  BY <1>2 DEF View, ViewShell, Goes, Becomes, Rests, ContentInv, TypeOK, Placed, Workers, Drafting, Claimable, Owns, Underway, Settled
<1>3. ASSUME NEW i \in Items, Elapse(i) PROVE \A k \in Items : work[k] \in Settled => work'[k] = work[k]
  BY <1>3 DEF Elapse, Goes, Becomes, Rests, ContentInv, TypeOK, Placed, Workers, Drafting, Claimable, Owns, Underway, Settled
<1>4. ASSUME NEW i \in Items, Shell(i) PROVE \A k \in Items : work[k] \in Settled => work'[k] = work[k]
  BY <1>4 DEF Shell, Goes, Becomes, Rests, ContentInv, TypeOK, Placed, Workers, Drafting, Claimable, Owns, Underway, Settled
<1>5. ASSUME NEW i \in Items, Look(i) PROVE \A k \in Items : work[k] \in Settled => work'[k] = work[k]
  BY <1>5 DEF Look, Goes, Becomes, Rests, ContentInv, TypeOK, Placed, Workers, Drafting, Claimable, Owns, Underway, Settled
<1>6. ASSUME NEW i \in Items, Found(i) PROVE \A k \in Items : work[k] \in Settled => work'[k] = work[k]
  BY <1>6 DEF Found, Goes, Becomes, Rests, ContentInv, TypeOK, Placed, Workers, Drafting, Claimable, Owns, Underway, Settled
<1>7. ASSUME NEW i \in Items, Requeue(i) PROVE \A k \in Items : work[k] \in Settled => work'[k] = work[k]
  BY <1>7 DEF Requeue, Goes, Becomes, Rests, ContentInv, TypeOK, Placed, Workers, Drafting, Claimable, Owns, Underway, Settled
<1>8. ASSUME NEW d \in drafts, Save(d) PROVE \A k \in Items : work[k] \in Settled => work'[k] = work[k]
  <2>1. PICK i \in Items :
           \/ UNCHANGED work
           \/ /\ work[i] \in {"failed"} \cup Underway
              /\ work' = [work EXCEPT ![i] = "cancelled"]
    BY <1>8, SaveMoves DEF ContentInv
  <2>2. UNCHANGED <<attempts, search, views, results, worker, revived, deaths>>
    BY <1>8 DEF Save, Goes, Becomes, Rests
  <2> QED BY <2>1, <2>2, <1>a DEF Goes, Becomes, Rests, ContentInv, TypeOK, Placed, Workers, Drafting, Claimable, Owns, Underway, Settled
<1>9. CASE Archive
  BY <1>9 DEF Archive, Goes, Becomes, Rests, ContentInv, TypeOK, Placed, Workers, Drafting, Claimable, Owns, Underway, Settled
<1>10. ASSUME NEW w \in Workers, Pick(w) \/ Die(w) PROVE \A k \in Items : work[k] \in Settled => work'[k] = work[k]
  BY <1>10 DEF Pick, Die, Goes, Becomes, Rests, ContentInv, TypeOK, Placed, Workers, Drafting, Claimable, Owns, Underway, Settled
<1>11. ASSUME NEW w \in Workers, Start(w) PROVE \A k \in Items : work[k] \in Settled => work'[k] = work[k]
  BY <1>11 DEF Start, Goes, Becomes, Rests, ContentInv, TypeOK, Placed, Workers, Drafting, Claimable, Owns, Underway, Settled
<1>12. ASSUME NEW w \in Workers, Ensure(w) \/ TurnDeferred(w) PROVE \A k \in Items : work[k] \in Settled => work'[k] = work[k]
  BY <1>12 DEF Ensure, TurnDeferred, Goes, Becomes, Rests, ContentInv, TypeOK, Placed, Workers, Drafting, Claimable, Owns, Underway, Settled
<1>13. ASSUME NEW w \in Workers, Defer(w) PROVE \A k \in Items : work[k] \in Settled => work'[k] = work[k]
  BY <1>13 DEF Defer, Goes, Becomes, Rests, ContentInv, TypeOK, Placed, Workers, Drafting, Claimable, Owns, Underway, Settled
<1>14. ASSUME NEW w \in Workers, Claim(w) PROVE \A k \in Items : work[k] \in Settled => work'[k] = work[k]
  BY <1>14 DEF Claim, Goes, Becomes, Rests, ContentInv, TypeOK, Placed, Workers, Drafting, Claimable, Owns, Underway, Settled
<1>15. ASSUME NEW w \in Workers, Store(w) PROVE \A k \in Items : work[k] \in Settled => work'[k] = work[k]
  BY <1>15 DEF Store, Goes, Becomes, Rests, ContentInv, TypeOK, Placed, Workers, Drafting, Claimable, Owns, Underway, Settled
<1>16. ASSUME NEW w \in Workers, Retry(w) PROVE \A k \in Items : work[k] \in Settled => work'[k] = work[k]
  BY <1>16 DEF Retry, Goes, Becomes, Rests, ContentInv, TypeOK, Placed, Workers, Drafting, Claimable, Owns, Underway, Settled
<1>17. ASSUME NEW w \in Workers, Wake(w) PROVE \A k \in Items : work[k] \in Settled => work'[k] = work[k]
  BY <1>17 DEF Wake, Goes, Becomes, Rests, ContentInv, TypeOK, Placed, Workers, Drafting, Claimable, Owns, Underway, Settled
<1>18. ASSUME NEW w \in Workers, Fail(w) PROVE \A k \in Items : work[k] \in Settled => work'[k] = work[k]
  BY <1>18 DEF Fail, Goes, Becomes, Rests, ContentInv, TypeOK, Placed, Workers, Drafting, Claimable, Owns, Underway, Settled
<1>19. CASE UNCHANGED vars
  BY <1>19 DEF vars, Goes, Becomes, Rests, ContentInv, TypeOK, Placed, Workers, Drafting, Claimable, Owns, Underway, Settled
<1> QED BY <1>1, <1>2, <1>3, <1>4, <1>5, <1>6, <1>7, <1>8, <1>9, <1>10, <1>11, <1>12, <1>13, <1>14, <1>15, <1>16, <1>17, <1>18, <1>19 DEF Next, Draft, Pipeline

\* A completed or cancelled request is never opened again, by whatever comes late
\* (research.py:599, assistance.py:1916).
THEOREM SettledStaysHolds == Spec => SettledStays
<1>1. ContentInv /\ [Next]_vars => [\A i \in Items : work[i] \in Settled => work'[i] = work[i]]_vars
  BY SettledStep
<1> QED BY <1>1, ContentInvHolds, PTL DEF Spec, SettledStays

\* A result is stored together with the status that shuts the next one out.
LEMMA OneResultStep == ContentInv /\ OneResult /\ [Next]_vars => OneResult'
<1> SUFFICES ASSUME ContentInv, OneResult, [Next]_vars PROVE OneResult'
  OBVIOUS
<1>a. Items \cap Cli = {}
  BY ConstantsAssumption DEF Items
<1>1. ASSUME NEW i \in Items, Create(i) PROVE OneResult'
  BY <1>1, <1>a DEF Create, Goes, Becomes, Rests, ContentInv, TypeOK, Placed, Workers, Drafting, Claimable, Owns, Underway, Settled, OneResult
<1>2. ASSUME NEW i \in Items, View(i) \/ ViewShell(i) PROVE OneResult'
  BY <1>2, <1>a DEF View, ViewShell, Goes, Becomes, Rests, ContentInv, TypeOK, Placed, Workers, Drafting, Claimable, Owns, Underway, Settled, OneResult
<1>3. ASSUME NEW i \in Items, Elapse(i) PROVE OneResult'
  BY <1>3, <1>a DEF Elapse, Goes, Becomes, Rests, ContentInv, TypeOK, Placed, Workers, Drafting, Claimable, Owns, Underway, Settled, OneResult
<1>4. ASSUME NEW i \in Items, Shell(i) PROVE OneResult'
  BY <1>4, <1>a DEF Shell, Goes, Becomes, Rests, ContentInv, TypeOK, Placed, Workers, Drafting, Claimable, Owns, Underway, Settled, OneResult
<1>5. ASSUME NEW i \in Items, Look(i) PROVE OneResult'
  BY <1>5, <1>a DEF Look, Goes, Becomes, Rests, ContentInv, TypeOK, Placed, Workers, Drafting, Claimable, Owns, Underway, Settled, OneResult
<1>6. ASSUME NEW i \in Items, Found(i) PROVE OneResult'
  BY <1>6, <1>a DEF Found, Goes, Becomes, Rests, ContentInv, TypeOK, Placed, Workers, Drafting, Claimable, Owns, Underway, Settled, OneResult
<1>7. ASSUME NEW i \in Items, Requeue(i) PROVE OneResult'
  BY <1>7, <1>a DEF Requeue, Goes, Becomes, Rests, ContentInv, TypeOK, Placed, Workers, Drafting, Claimable, Owns, Underway, Settled, OneResult
<1>8. ASSUME NEW d \in drafts, Save(d) PROVE OneResult'
  <2>1. PICK i \in Items :
           \/ UNCHANGED work
           \/ /\ work[i] \in {"failed"} \cup Underway
              /\ work' = [work EXCEPT ![i] = "cancelled"]
    BY <1>8, SaveMoves DEF ContentInv
  <2>2. UNCHANGED <<attempts, search, views, results, worker, revived, deaths>>
    BY <1>8 DEF Save, Goes, Becomes, Rests
  <2> QED BY <2>1, <2>2, <1>a DEF Goes, Becomes, Rests, ContentInv, TypeOK, Placed, Workers, Drafting, Claimable, Owns, Underway, Settled, OneResult
<1>9. CASE Archive
  BY <1>9, <1>a DEF Archive, Goes, Becomes, Rests, ContentInv, TypeOK, Placed, Workers, Drafting, Claimable, Owns, Underway, Settled, OneResult
<1>10. ASSUME NEW w \in Workers, Pick(w) \/ Die(w) PROVE OneResult'
  BY <1>10, <1>a DEF Pick, Die, Goes, Becomes, Rests, ContentInv, TypeOK, Placed, Workers, Drafting, Claimable, Owns, Underway, Settled, OneResult
<1>11. ASSUME NEW w \in Workers, Start(w) PROVE OneResult'
  BY <1>11, <1>a DEF Start, Goes, Becomes, Rests, ContentInv, TypeOK, Placed, Workers, Drafting, Claimable, Owns, Underway, Settled, OneResult
<1>12. ASSUME NEW w \in Workers, Ensure(w) \/ TurnDeferred(w) PROVE OneResult'
  BY <1>12, <1>a DEF Ensure, TurnDeferred, Goes, Becomes, Rests, ContentInv, TypeOK, Placed, Workers, Drafting, Claimable, Owns, Underway, Settled, OneResult
<1>13. ASSUME NEW w \in Workers, Defer(w) PROVE OneResult'
  BY <1>13, <1>a DEF Defer, Goes, Becomes, Rests, ContentInv, TypeOK, Placed, Workers, Drafting, Claimable, Owns, Underway, Settled, OneResult
<1>14. ASSUME NEW w \in Workers, Claim(w) PROVE OneResult'
  BY <1>14, <1>a DEF Claim, Goes, Becomes, Rests, ContentInv, TypeOK, Placed, Workers, Drafting, Claimable, Owns, Underway, Settled, OneResult
<1>15. ASSUME NEW w \in Workers, Store(w) PROVE OneResult'
  BY <1>15, <1>a DEF Store, Goes, Becomes, Rests, ContentInv, TypeOK, Placed, Workers, Drafting, Claimable, Owns, Underway, Settled, OneResult
<1>16. ASSUME NEW w \in Workers, Retry(w) PROVE OneResult'
  BY <1>16, <1>a DEF Retry, Goes, Becomes, Rests, ContentInv, TypeOK, Placed, Workers, Drafting, Claimable, Owns, Underway, Settled, OneResult
<1>17. ASSUME NEW w \in Workers, Wake(w) PROVE OneResult'
  BY <1>17, <1>a DEF Wake, Goes, Becomes, Rests, ContentInv, TypeOK, Placed, Workers, Drafting, Claimable, Owns, Underway, Settled, OneResult
<1>18. ASSUME NEW w \in Workers, Fail(w) PROVE OneResult'
  BY <1>18, <1>a DEF Fail, Goes, Becomes, Rests, ContentInv, TypeOK, Placed, Workers, Drafting, Claimable, Owns, Underway, Settled, OneResult
<1>19. CASE UNCHANGED vars
  BY <1>19 DEF vars, Goes, Becomes, Rests, ContentInv, TypeOK, Placed, Workers, Drafting, Claimable, Owns, Underway, Settled, OneResult
<1> QED BY <1>1, <1>2, <1>3, <1>4, <1>5, <1>6, <1>7, <1>8, <1>9, <1>10, <1>11, <1>12, <1>13, <1>14, <1>15, <1>16, <1>17, <1>18, <1>19 DEF Next, Draft, Pipeline

\* One accepted result for a completed request and none for any other, whatever
\* claims overlapped (assistance.py:1916-2053).
THEOREM OneResultHolds == Spec => []OneResult
<1>1. Init => OneResult
  BY DEF Init, OneResult
<1> QED BY <1>1, OneResultStep, ContentInvHolds, PTL DEF Spec

\* What leaves "waiting" has been searched for.
LEMMA DraftsAfterSearchStep == ContentInv /\ DraftsAfterSearch /\ [Next]_vars => DraftsAfterSearch'
<1> SUFFICES ASSUME ContentInv, DraftsAfterSearch, [Next]_vars PROVE DraftsAfterSearch'
  OBVIOUS
<1>a. Items \cap Cli = {}
  BY ConstantsAssumption DEF Items
<1>1. ASSUME NEW i \in Items, Create(i) PROVE DraftsAfterSearch'
  BY <1>1, <1>a DEF Create, Goes, Becomes, Rests, ContentInv, TypeOK, Placed, Workers, Drafting, Claimable, Owns, Underway, Settled, Searched, DraftsAfterSearch
<1>2. ASSUME NEW i \in Items, View(i) \/ ViewShell(i) PROVE DraftsAfterSearch'
  BY <1>2, <1>a DEF View, ViewShell, Goes, Becomes, Rests, ContentInv, TypeOK, Placed, Workers, Drafting, Claimable, Owns, Underway, Settled, Searched, DraftsAfterSearch
<1>3. ASSUME NEW i \in Items, Elapse(i) PROVE DraftsAfterSearch'
  BY <1>3, <1>a DEF Elapse, Goes, Becomes, Rests, ContentInv, TypeOK, Placed, Workers, Drafting, Claimable, Owns, Underway, Settled, Searched, DraftsAfterSearch
<1>4. ASSUME NEW i \in Items, Shell(i) PROVE DraftsAfterSearch'
  BY <1>4, <1>a DEF Shell, Goes, Becomes, Rests, ContentInv, TypeOK, Placed, Workers, Drafting, Claimable, Owns, Underway, Settled, Searched, DraftsAfterSearch
<1>5. ASSUME NEW i \in Items, Look(i) PROVE DraftsAfterSearch'
  BY <1>5, <1>a DEF Look, Goes, Becomes, Rests, ContentInv, TypeOK, Placed, Workers, Drafting, Claimable, Owns, Underway, Settled, Searched, DraftsAfterSearch
<1>6. ASSUME NEW i \in Items, Found(i) PROVE DraftsAfterSearch'
  BY <1>6, <1>a DEF Found, Goes, Becomes, Rests, ContentInv, TypeOK, Placed, Workers, Drafting, Claimable, Owns, Underway, Settled, Searched, DraftsAfterSearch
<1>7. ASSUME NEW i \in Items, Requeue(i) PROVE DraftsAfterSearch'
  BY <1>7, <1>a DEF Requeue, Goes, Becomes, Rests, ContentInv, TypeOK, Placed, Workers, Drafting, Claimable, Owns, Underway, Settled, Searched, DraftsAfterSearch
<1>8. ASSUME NEW d \in drafts, Save(d) PROVE DraftsAfterSearch'
  <2>1. PICK i \in Items :
           \/ UNCHANGED work
           \/ /\ work[i] \in {"failed"} \cup Underway
              /\ work' = [work EXCEPT ![i] = "cancelled"]
    BY <1>8, SaveMoves DEF ContentInv
  <2>2. UNCHANGED <<attempts, search, views, results, worker, revived, deaths>>
    BY <1>8 DEF Save, Goes, Becomes, Rests
  <2> QED BY <2>1, <2>2, <1>a DEF Goes, Becomes, Rests, ContentInv, TypeOK, Placed, Workers, Drafting, Claimable, Owns, Underway, Settled, DraftsAfterSearch
<1>9. CASE Archive
  BY <1>9, <1>a DEF Archive, Goes, Becomes, Rests, ContentInv, TypeOK, Placed, Workers, Drafting, Claimable, Owns, Underway, Settled, Searched, DraftsAfterSearch
<1>10. ASSUME NEW w \in Workers, Pick(w) \/ Die(w) PROVE DraftsAfterSearch'
  BY <1>10, <1>a DEF Pick, Die, Goes, Becomes, Rests, ContentInv, TypeOK, Placed, Workers, Drafting, Claimable, Owns, Underway, Settled, Searched, DraftsAfterSearch
<1>11. ASSUME NEW w \in Workers, Start(w) PROVE DraftsAfterSearch'
  BY <1>11, <1>a DEF Start, Goes, Becomes, Rests, ContentInv, TypeOK, Placed, Workers, Drafting, Claimable, Owns, Underway, Settled, Searched, DraftsAfterSearch
<1>12. ASSUME NEW w \in Workers, Ensure(w) \/ TurnDeferred(w) PROVE DraftsAfterSearch'
  BY <1>12, <1>a DEF Ensure, TurnDeferred, Goes, Becomes, Rests, ContentInv, TypeOK, Placed, Workers, Drafting, Claimable, Owns, Underway, Settled, Searched, DraftsAfterSearch
<1>13. ASSUME NEW w \in Workers, Defer(w) PROVE DraftsAfterSearch'
  BY <1>13, <1>a DEF Defer, Goes, Becomes, Rests, ContentInv, TypeOK, Placed, Workers, Drafting, Claimable, Owns, Underway, Settled, Searched, DraftsAfterSearch
<1>14. ASSUME NEW w \in Workers, Claim(w) PROVE DraftsAfterSearch'
  BY <1>14, <1>a DEF Claim, Goes, Becomes, Rests, ContentInv, TypeOK, Placed, Workers, Drafting, Claimable, Owns, Underway, Settled, Searched, DraftsAfterSearch
<1>15. ASSUME NEW w \in Workers, Store(w) PROVE DraftsAfterSearch'
  BY <1>15, <1>a DEF Store, Goes, Becomes, Rests, ContentInv, TypeOK, Placed, Workers, Drafting, Claimable, Owns, Underway, Settled, Searched, DraftsAfterSearch
<1>16. ASSUME NEW w \in Workers, Retry(w) PROVE DraftsAfterSearch'
  BY <1>16, <1>a DEF Retry, Goes, Becomes, Rests, ContentInv, TypeOK, Placed, Workers, Drafting, Claimable, Owns, Underway, Settled, Searched, DraftsAfterSearch
<1>17. ASSUME NEW w \in Workers, Wake(w) PROVE DraftsAfterSearch'
  BY <1>17, <1>a DEF Wake, Goes, Becomes, Rests, ContentInv, TypeOK, Placed, Workers, Drafting, Claimable, Owns, Underway, Settled, Searched, DraftsAfterSearch
<1>18. ASSUME NEW w \in Workers, Fail(w) PROVE DraftsAfterSearch'
  BY <1>18, <1>a DEF Fail, Goes, Becomes, Rests, ContentInv, TypeOK, Placed, Workers, Drafting, Claimable, Owns, Underway, Settled, Searched, DraftsAfterSearch
<1>19. CASE UNCHANGED vars
  BY <1>19 DEF vars, Goes, Becomes, Rests, ContentInv, TypeOK, Placed, Workers, Drafting, Claimable, Owns, Underway, Settled, Searched, DraftsAfterSearch
<1> QED BY <1>1, <1>2, <1>3, <1>4, <1>5, <1>6, <1>7, <1>8, <1>9, <1>10, <1>11, <1>12, <1>13, <1>14, <1>15, <1>16, <1>17, <1>18, <1>19 DEF Next, Draft, Pipeline

\* A request is drafted after its own search (research.py:500-502).
THEOREM DraftsAfterSearchHolds == Spec => []DraftsAfterSearch
<1>1. Init => DraftsAfterSearch
  BY DEF Init, DraftsAfterSearch
<1> QED BY <1>1, DraftsAfterSearchStep, ContentInvHolds, PTL DEF Spec

\* Only a revived request becomes open without the check.
LEMMA OnlyRevivedOverlapStep == ContentInv /\ OnlyRevivedOverlap /\ [Next]_vars => OnlyRevivedOverlap'
<1> SUFFICES ASSUME ContentInv, OnlyRevivedOverlap, [Next]_vars PROVE OnlyRevivedOverlap'
  OBVIOUS
<1>a. Items \cap Cli = {}
  BY ConstantsAssumption DEF Items
<1>1. ASSUME NEW i \in Items, Create(i) PROVE OnlyRevivedOverlap'
  BY <1>1, <1>a DEF Create, Goes, Becomes, Rests, ContentInv, TypeOK, Placed, Workers, Drafting, Claimable, Owns, Underway, Settled, OnlyRevivedOverlap, Busy
<1>2. ASSUME NEW i \in Items, View(i) \/ ViewShell(i) PROVE OnlyRevivedOverlap'
  BY <1>2, <1>a DEF View, ViewShell, Goes, Becomes, Rests, ContentInv, TypeOK, Placed, Workers, Drafting, Claimable, Owns, Underway, Settled, OnlyRevivedOverlap, Busy
<1>3. ASSUME NEW i \in Items, Elapse(i) PROVE OnlyRevivedOverlap'
  BY <1>3, <1>a DEF Elapse, Goes, Becomes, Rests, ContentInv, TypeOK, Placed, Workers, Drafting, Claimable, Owns, Underway, Settled, OnlyRevivedOverlap, Busy
<1>4. ASSUME NEW i \in Items, Shell(i) PROVE OnlyRevivedOverlap'
  BY <1>4, <1>a DEF Shell, Goes, Becomes, Rests, ContentInv, TypeOK, Placed, Workers, Drafting, Claimable, Owns, Underway, Settled, OnlyRevivedOverlap, Busy
<1>5. ASSUME NEW i \in Items, Look(i) PROVE OnlyRevivedOverlap'
  BY <1>5, <1>a DEF Look, Goes, Becomes, Rests, ContentInv, TypeOK, Placed, Workers, Drafting, Claimable, Owns, Underway, Settled, OnlyRevivedOverlap, Busy
<1>6. ASSUME NEW i \in Items, Found(i) PROVE OnlyRevivedOverlap'
  BY <1>6, <1>a DEF Found, Goes, Becomes, Rests, ContentInv, TypeOK, Placed, Workers, Drafting, Claimable, Owns, Underway, Settled, OnlyRevivedOverlap, Busy
<1>7. ASSUME NEW i \in Items, Requeue(i) PROVE OnlyRevivedOverlap'
  <2>1. CASE work[i] \in Settled
    BY <1>7, <2>1 DEF Requeue, OnlyRevivedOverlap, Busy
  <2>2. CASE work[i] = "failed"
    <3>1. i \in revived' /\ revived \subseteq revived' /\ work' = [work EXCEPT ![i] = "queued"]
      BY <1>7, <2>2 DEF Requeue, Goes, Becomes, Rests, Settled
    <3> QED BY <3>1 DEF ContentInv, TypeOK, OnlyRevivedOverlap, Busy, Underway
  <2>3. CASE work[i] \in Underway
    <3>1. revived' = revived /\ work' = [work EXCEPT ![i] = "queued"]
      BY <1>7, <2>3 DEF Requeue, Goes, Becomes, Rests, Settled, Underway
    <3> QED BY <2>3, <3>1 DEF ContentInv, TypeOK, OnlyRevivedOverlap, Busy, Underway
  <2>4. work[i] \in Statuses \ {"none"}
    BY <1>7 DEF Requeue, ContentInv, TypeOK, Placed
  <2> QED BY <2>1, <2>2, <2>3, <2>4 DEF Statuses
<1>8. ASSUME NEW d \in drafts, Save(d) PROVE OnlyRevivedOverlap'
  <2>1. PICK i \in Items :
           \/ UNCHANGED work
           \/ /\ work[i] \in {"failed"} \cup Underway
              /\ work' = [work EXCEPT ![i] = "cancelled"]
    BY <1>8, SaveMoves DEF ContentInv
  <2>2. UNCHANGED <<attempts, search, views, results, worker, revived, deaths>>
    BY <1>8 DEF Save, Goes, Becomes, Rests
  <2> QED BY <2>1, <2>2, <1>a DEF Goes, Becomes, Rests, ContentInv, TypeOK, Placed, Workers, Drafting, Claimable, Owns, Underway, Settled, OnlyRevivedOverlap, Busy
<1>9. CASE Archive
  BY <1>9, <1>a DEF Archive, Goes, Becomes, Rests, ContentInv, TypeOK, Placed, Workers, Drafting, Claimable, Owns, Underway, Settled, OnlyRevivedOverlap, Busy
<1>10. ASSUME NEW w \in Workers, Pick(w) \/ Die(w) PROVE OnlyRevivedOverlap'
  BY <1>10, <1>a DEF Pick, Die, Goes, Becomes, Rests, ContentInv, TypeOK, Placed, Workers, Drafting, Claimable, Owns, Underway, Settled, OnlyRevivedOverlap, Busy
<1>11. ASSUME NEW w \in Workers, Start(w) PROVE OnlyRevivedOverlap'
  BY <1>11, <1>a DEF Start, Goes, Becomes, Rests, ContentInv, TypeOK, Placed, Workers, Drafting, Claimable, Owns, Underway, Settled, OnlyRevivedOverlap, Busy
<1>12. ASSUME NEW w \in Workers, Ensure(w) \/ TurnDeferred(w) PROVE OnlyRevivedOverlap'
  BY <1>12, <1>a DEF Ensure, TurnDeferred, Goes, Becomes, Rests, ContentInv, TypeOK, Placed, Workers, Drafting, Claimable, Owns, Underway, Settled, OnlyRevivedOverlap, Busy
<1>13. ASSUME NEW w \in Workers, Defer(w) PROVE OnlyRevivedOverlap'
  BY <1>13, <1>a DEF Defer, Goes, Becomes, Rests, ContentInv, TypeOK, Placed, Workers, Drafting, Claimable, Owns, Underway, Settled, OnlyRevivedOverlap, Busy
<1>14. ASSUME NEW w \in Workers, Claim(w) PROVE OnlyRevivedOverlap'
  BY <1>14, <1>a DEF Claim, Goes, Becomes, Rests, ContentInv, TypeOK, Placed, Workers, Drafting, Claimable, Owns, Underway, Settled, OnlyRevivedOverlap, Busy
<1>15. ASSUME NEW w \in Workers, Store(w) PROVE OnlyRevivedOverlap'
  BY <1>15, <1>a DEF Store, Goes, Becomes, Rests, ContentInv, TypeOK, Placed, Workers, Drafting, Claimable, Owns, Underway, Settled, OnlyRevivedOverlap, Busy
<1>16. ASSUME NEW w \in Workers, Retry(w) PROVE OnlyRevivedOverlap'
  BY <1>16, <1>a DEF Retry, Goes, Becomes, Rests, ContentInv, TypeOK, Placed, Workers, Drafting, Claimable, Owns, Underway, Settled, OnlyRevivedOverlap, Busy
<1>17. ASSUME NEW w \in Workers, Wake(w) PROVE OnlyRevivedOverlap'
  BY <1>17, <1>a DEF Wake, Goes, Becomes, Rests, ContentInv, TypeOK, Placed, Workers, Drafting, Claimable, Owns, Underway, Settled, OnlyRevivedOverlap, Busy
<1>18. ASSUME NEW w \in Workers, Fail(w) PROVE OnlyRevivedOverlap'
  BY <1>18, <1>a DEF Fail, Goes, Becomes, Rests, ContentInv, TypeOK, Placed, Workers, Drafting, Claimable, Owns, Underway, Settled, OnlyRevivedOverlap, Busy
<1>19. CASE UNCHANGED vars
  BY <1>19 DEF vars, Goes, Becomes, Rests, ContentInv, TypeOK, Placed, Workers, Drafting, Claimable, Owns, Underway, Settled, OnlyRevivedOverlap, Busy
<1> QED BY <1>1, <1>2, <1>3, <1>4, <1>5, <1>6, <1>7, <1>8, <1>9, <1>10, <1>11, <1>12, <1>13, <1>14, <1>15, <1>16, <1>17, <1>18, <1>19 DEF Next, Draft, Pipeline

\* Two requests of the story are open only if a failed one was revived
\* (services.py:1977, research.py:608).
THEOREM OnlyRevivedOverlapHolds == Spec => []OnlyRevivedOverlap
<1>1. Init => OnlyRevivedOverlap
  BY DEF Init, Busy, Underway, OnlyRevivedOverlap
<1> QED BY <1>1, OnlyRevivedOverlapStep, ContentInvHolds, PTL DEF Spec

\* Without a new version a shell stays open while its request does.
LEMMA UnchangedDrafts ==
  ASSUME TypeOK, ShellsOpen, UNCHANGED <<drafts, version>>,
         \A k \in Items : work'[k] \in Settled \cup {"none"} => work[k] \in Settled \cup {"none"}
  PROVE  ShellsOpen'
BY DraftItem DEF ShellsOpen, Drafted

\* A version that replaces all the others is the newest, and the only one.
LEMMA LoneDraft ==
  ASSUME NEW status, NEW i,
         drafts' = {[version |-> version + 1, status |-> status, item |-> i]},
         version' = version + 1,
         status = "Editable Shell" => work'[i] \notin Settled \cup {"none"}
  PROVE  ShellsOpen'
<1> DEFINE new == [version |-> version + 1, status |-> status, item |-> i]
<1>1. new.version = version' /\ new.status = status /\ new.item = i
  OBVIOUS
<1>2. drafts' = {new}
  OBVIOUS
<1> HIDE DEF new
<1> QED BY <1>1, <1>2 DEF ShellsOpen, Drafted

\* A shell is made alone, for a request that is open or failed.
LEMMA MadeShell ==
  ASSUME TypeOK, ShellsOpen, NEW i \in Items, MakeShell(i), UNCHANGED work
  PROVE  ShellsOpen'
<1>1. CASE work[i] \in {"waiting", "queued", "failed"}
  <2>1. drafts' = {[version |-> version + 1, status |-> "Editable Shell", item |-> i]}
        /\ version' = version + 1
    BY <1>1 DEF MakeShell, Shellable, Replace
  <2> QED BY <1>1, <2>1, LoneDraft DEF Settled
<1>2. CASE work[i] \notin {"waiting", "queued", "failed"}
  BY <1>2, UnchangedDrafts DEF MakeShell, Shellable
<1> QED BY <1>1, <1>2

\* Every step keeps the open versions apart, and a shell with its request.
LEMMA ShellsOpenStep == ContentInv /\ ShellsOpen /\ [Next]_vars => ShellsOpen'
<1> SUFFICES ASSUME ContentInv, ShellsOpen, [Next]_vars PROVE ShellsOpen'
  OBVIOUS
<1>1. ASSUME NEW i \in Items, Create(i) PROVE ShellsOpen'
  BY <1>1, UnchangedDrafts DEF Create, Goes, Becomes, Rests, ContentInv, TypeOK, Settled
<1>2. ASSUME NEW i \in Items, View(i) \/ ViewShell(i) PROVE ShellsOpen'
  <2>1. CASE View(i)
    BY <2>1, UnchangedDrafts DEF View, ContentInv
  <2>2. CASE ViewShell(i)
    BY <2>2, MadeShell DEF ViewShell, ContentInv
  <2> QED BY <1>2, <2>1, <2>2
<1>3. ASSUME NEW i \in Items, Elapse(i) PROVE ShellsOpen'
  BY <1>3, UnchangedDrafts DEF Elapse, ContentInv
<1>4. ASSUME NEW i \in Items, Shell(i) PROVE ShellsOpen'
  BY <1>4, MadeShell DEF Shell, ContentInv
<1>5. ASSUME NEW i \in Items, Look(i) PROVE ShellsOpen'
  <2>1. UNCHANGED <<drafts, version>>
    BY <1>5 DEF Look
  <2>2. \A k \in Items : work'[k] \in Settled \cup {"none"} => work[k] \in Settled \cup {"none"}
    BY <1>5 DEF Look, Goes, Becomes, Rests, ContentInv, TypeOK, Placed, Workers, Drafting, Claimable, Owns, Underway, Settled
  <2> QED BY <2>1, <2>2, UnchangedDrafts DEF ContentInv
<1>6. ASSUME NEW i \in Items, Found(i) PROVE ShellsOpen'
  <2>1. UNCHANGED <<drafts, version>>
    BY <1>6 DEF Found
  <2>2. \A k \in Items : work'[k] \in Settled \cup {"none"} => work[k] \in Settled \cup {"none"}
    BY <1>6 DEF Found, Goes, Becomes, Rests, ContentInv, TypeOK, Placed, Workers, Drafting, Claimable, Owns, Underway, Settled
  <2> QED BY <2>1, <2>2, UnchangedDrafts DEF ContentInv
<1>7. ASSUME NEW i \in Items, Requeue(i) PROVE ShellsOpen'
  <2>1. UNCHANGED <<drafts, version>>
    BY <1>7 DEF Requeue
  <2>2. \A k \in Items : work'[k] \in Settled \cup {"none"} => work[k] \in Settled \cup {"none"}
    BY <1>7 DEF Requeue, Goes, Becomes, Rests, ContentInv, TypeOK, Placed, Workers, Drafting, Claimable, Owns, Underway, Settled
  <2> QED BY <2>1, <2>2, UnchangedDrafts DEF ContentInv
<1>8. ASSUME NEW d \in drafts, Save(d) PROVE ShellsOpen'
  <2>1. d.item \in Items
    BY DraftItem DEF ContentInv
  <2>2. drafts' = {[version |-> version + 1, status |-> "Current", item |-> d.item]}
        /\ version' = version + 1
    BY <1>8 DEF Save, Replace
  <2>3. "Current" # "Editable Shell"
    OBVIOUS
  <2> QED BY <2>2, <2>3, LoneDraft
<1>9. CASE Archive
  BY <1>9, UnchangedDrafts DEF Archive, ContentInv
<1>10. ASSUME NEW w \in Workers, Pick(w) \/ Die(w) PROVE ShellsOpen'
  BY <1>10, UnchangedDrafts DEF Pick, Die, ContentInv
<1>11. ASSUME NEW w \in Workers, Start(w) PROVE ShellsOpen'
  <2>1. UNCHANGED <<drafts, version>>
    BY <1>11 DEF Start
  <2>2. \A k \in Items : work'[k] \in Settled \cup {"none"} => work[k] \in Settled \cup {"none"}
    BY <1>11 DEF Start, Goes, Becomes, Rests, ContentInv, TypeOK, Placed, Workers, Drafting, Claimable, Owns, Underway, Settled
  <2> QED BY <2>1, <2>2, UnchangedDrafts DEF ContentInv
<1>12. ASSUME NEW w \in Workers, Ensure(w) \/ TurnDeferred(w) PROVE ShellsOpen'
  BY <1>12, UnchangedDrafts DEF Ensure, TurnDeferred, ContentInv
<1>13. ASSUME NEW w \in Workers, Defer(w) PROVE ShellsOpen'
  <2>1. UNCHANGED <<drafts, version>>
    BY <1>13 DEF Defer
  <2>2. \A k \in Items : work'[k] \in Settled \cup {"none"} => work[k] \in Settled \cup {"none"}
    BY <1>13 DEF Defer, Goes, Becomes, Rests, ContentInv, TypeOK, Placed, Workers, Drafting, Claimable, Owns, Underway, Settled
  <2> QED BY <2>1, <2>2, UnchangedDrafts DEF ContentInv
<1>14. ASSUME NEW w \in Workers, Claim(w) PROVE ShellsOpen'
  <2>1. UNCHANGED <<drafts, version>>
    BY <1>14 DEF Claim
  <2>2. \A k \in Items : work'[k] \in Settled \cup {"none"} => work[k] \in Settled \cup {"none"}
    BY <1>14 DEF Claim, Goes, Becomes, Rests, ContentInv, TypeOK, Placed, Workers, Drafting, Claimable, Owns, Underway, Settled
  <2> QED BY <2>1, <2>2, UnchangedDrafts DEF ContentInv
<1>15. ASSUME NEW w \in Workers, Store(w) PROVE ShellsOpen'
  <2>1. item[w] \in Items
    BY <1>15 DEF Store, ContentInv, Placed, Drafting
  <2>2. CASE ~Owns(w)
    BY <1>15, <2>2, UnchangedDrafts DEF Store, ContentInv
  <2>3. CASE Owns(w)
    <3> DEFINE new == [version |-> version + 1, status |-> "Current", item |-> item[w]]
               old == Drafted("Current") \cup ShellOf(item[w])
    <3>1. drafts' = (drafts \ old) \cup {new} /\ version' = version + 1
      BY <1>15, <2>3 DEF Store, Replace
    <3>2. \A d \in drafts \ old : d \in drafts /\ d.status = "Editable Shell" /\ d.item # item[w] /\ d.item \in Items
      BY DEF Drafted, ShellOf, ContentInv, TypeOK, Drafts
    <3>3. work' = [work EXCEPT ![item[w]] = "completed"]
      BY <1>15, <2>3 DEF Store, Goes, Becomes, Rests
    <3>n. new.status = "Current" /\ new.version = version + 1 /\ new.item = item[w]
      OBVIOUS
    <3> HIDE DEF new, old
    <3>4. \A c, d \in drafts' : c.status = d.status => c = d
      BY <3>n, <3>1, <3>2 DEF ShellsOpen
    <3>5. version' > 0 => \E d \in drafts' : d.version = version'
      BY <3>n, <3>1
    <3>6. \A d \in drafts' : d.status = "Editable Shell" => work'[d.item] \notin Settled \cup {"none"}
      BY <3>n, <3>1, <3>2, <3>3, <2>1 DEF Settled, ShellsOpen, Drafted, ContentInv, TypeOK
    <3> QED BY <3>4, <3>5, <3>6 DEF ShellsOpen, Drafted
  <2> QED BY <2>2, <2>3
<1>16. ASSUME NEW w \in Workers, Retry(w) PROVE ShellsOpen'
  <2>1. UNCHANGED <<drafts, version>>
    BY <1>16 DEF Retry
  <2>2. \A k \in Items : work'[k] \in Settled \cup {"none"} => work[k] \in Settled \cup {"none"}
    BY <1>16 DEF Retry, Goes, Becomes, Rests, ContentInv, TypeOK, Placed, Workers, Drafting, Claimable, Owns, Underway, Settled
  <2> QED BY <2>1, <2>2, UnchangedDrafts DEF ContentInv
<1>17. ASSUME NEW w \in Workers, Wake(w) PROVE ShellsOpen'
  BY <1>17, UnchangedDrafts DEF Wake, ContentInv
<1>18. ASSUME NEW w \in Workers, Fail(w) PROVE ShellsOpen'
  <2>1. UNCHANGED <<drafts, version>>
    BY <1>18 DEF Fail
  <2>2. \A k \in Items : work'[k] \in Settled \cup {"none"} => work[k] \in Settled \cup {"none"}
    BY <1>18 DEF Fail, Goes, Becomes, Rests, ContentInv, TypeOK, Placed, Workers, Drafting, Claimable, Owns, Underway, Settled
  <2> QED BY <2>1, <2>2, UnchangedDrafts DEF ContentInv
<1>19. CASE UNCHANGED vars
  BY <1>19 DEF vars, ContentInv, TypeOK, ShellsOpen, Drafted, ShellOf, Drafts
<1> QED BY <1>1, <1>2, <1>3, <1>4, <1>5, <1>6, <1>7, <1>8, <1>9, <1>10, <1>11, <1>12, <1>13, <1>14, <1>15, <1>16, <1>17, <1>18, <1>19 DEF Next, Draft, Pipeline

\* The newest version is open, no two are open alike, and a shell can be saved
\* (services.py:1486, 2218; assistance.py:1978).
THEOREM ShellsOpenHolds == Spec => []ShellsOpen
<1>1. Init => ShellsOpen
  BY DEF Init, ShellsOpen, Drafted
<1> QED BY <1>1, ShellsOpenStep, ContentInvHolds, PTL DEF Spec

\* Where the owner sees the requests.
States == [i \in Items |-> State(i)]

\* A step that keeps each request where the owner sees it, and the texts and
\* answers as they are, is not seen at the desk.
LEMMA Unseen ==
  ASSUME UNCHANGED <<results, drafts, version>>,
         \A k \in Items : work'[k] = work[k] \/ (work[k] \in Underway /\ work'[k] \in Underway)
  PROVE  UNCHANGED Desk!vars
<1>1. \A k \in Items : State(k)' = State(k)
  BY DEF State, Underway
<1>2. States' = States
  BY <1>1 DEF States
<1> QED BY <1>2 DEF States, Desk!vars

\* A request whose row changes is seen to move, and no other.
LEMMA StateMoves ==
  ASSUME TypeOK, NEW i \in Items, NEW now, work' = [work EXCEPT ![i] = now]
  PROVE  States' = [States EXCEPT ![i] = IF now \in Underway THEN "open" ELSE now]
<1>1. State(i)' = IF now \in Underway THEN "open" ELSE now
  BY DEF State, TypeOK
<1>2. \A k \in Items \ {i} : State(k)' = State(k)
  BY DEF State, TypeOK
<1> QED BY <1>1, <1>2 DEF States

\* The open requests are those under way.
LEMMA OpenIsUnderway == ASSUME TypeOK, NEW i \in Items PROVE State(i) = "open" <=> work[i] \in Underway
BY DEF State, TypeOK, Statuses, Underway, Settled

\* A shell is made for a request the owner can still finish, or not at all.
LEMMA ShellOffered ==
  ASSUME TypeOK, NEW i \in Items, MakeShell(i), UNCHANGED <<work, results>>
  PROVE  Desk!Offer(i) \/ UNCHANGED Desk!vars
<1>1. CASE work[i] \in {"waiting", "queued", "failed"}
  <2>1. State(i) \in {"open", "failed"}
    BY <1>1 DEF State, Underway
  <2>2. States' = States
    BY DEF States, State
  <2>3. drafts' = {[version |-> version + 1, status |-> "Editable Shell", item |-> i]}
        /\ version' = version + 1
    BY <1>1 DEF MakeShell, Shellable, Replace
  <2> QED BY <2>1, <2>2, <2>3 DEF Desk!Offer, Desk!Written, Desk!Text, States
<1>2. CASE work[i] \notin {"waiting", "queued", "failed"}
  BY <1>2, Unseen DEF MakeShell, Shellable
<1> QED BY <1>1, <1>2

\* A request that fails while it is open is given up.
LEMMA FailureGivesUp ==
  ASSUME TypeOK, NEW i \in Items, work[i] \in Underway,
         work' = [work EXCEPT ![i] = "failed"], UNCHANGED <<results, drafts, version>>
  PROVE  Desk!GiveUp(i)
<1>1. States' = [States EXCEPT ![i] = "failed"]
  BY StateMoves DEF Underway
<1>2. State(i) = "open"
  BY OpenIsUnderway
<1> QED BY <1>1, <1>2 DEF Desk!GiveUp, Desk!Becomes, States

\* The model's accepted result answers an open request, once.
LEMMA StoreAnswers ==
  ASSUME ContentInv, OneResult, NEW w \in Workers, Store(w), Owns(w)
  PROVE  Desk!Answer(item[w])
<1> DEFINE i == item[w]
<1>1. i \in Items /\ TypeOK
  BY DEF Store, ContentInv, Placed, Drafting
<1>2. work[i] = "generating"
  BY DEF Owns
<1>3. State(i) = "open" /\ results[i] = 0
  BY <1>1, <1>2, OpenIsUnderway DEF OneResult, Underway
<1>4. work' = [work EXCEPT ![i] = "completed"]
  BY DEF Store, Becomes, Rests
<1>5. States' = [States EXCEPT ![i] = "completed"]
  BY <1>1, <1>4, StateMoves DEF Underway
<1>6. results' = [results EXCEPT ![i] = 1]
  BY <1>1, <1>3 DEF Store, TypeOK
<1>7. drafts \ (Drafted("Current") \cup ShellOf(i))
        = {t \in drafts : t.status = "Editable Shell" /\ t.item # i}
  BY <1>1 DEF Drafted, ShellOf, TypeOK, Drafts
<1>8. version' = version + 1
      /\ drafts' = {t \in drafts : t.status = "Editable Shell" /\ t.item # i}
                     \cup {[version |-> version + 1, status |-> "Current", item |-> i]}
  BY <1>7 DEF Store, Replace
<1> QED BY <1>1, <1>3, <1>5, <1>6, <1>8
        DEF Desk!Answer, Desk!Becomes, Desk!Written, Desk!Text, States

\* A shell that is saved finishes its request by hand; any other save revises a text.
LEMMA SaveWrites ==
  ASSUME TypeOK, NEW d \in drafts, Save(d)
  PROVE  Desk!Finish(d.item) \/ Desk!Revise(d.item)
<1> DEFINE i == d.item
<1>1. i \in Items /\ d.status \in {"Current", "Editable Shell"}
  BY DEF TypeOK, Drafts
<1>2. version' = version + 1 /\ results' = results
      /\ drafts' = {[version |-> version + 1, status |-> "Current", item |-> i]}
  BY DEF Save, Replace
<1>3. CASE d.status = "Editable Shell"
  <2>1. work[i] \in {"failed"} \cup Underway /\ work' = [work EXCEPT ![i] = "cancelled"]
    BY <1>3 DEF Save, Becomes, Rests
  <2>2. State(i) \in {"open", "failed"}
    BY <2>1 DEF State, Underway
  <2>3. States' = [States EXCEPT ![i] = "cancelled"]
    BY <1>1, <2>1, StateMoves DEF Underway
  <2> QED BY <1>1, <1>2, <1>3, <2>2, <2>3
          DEF Desk!Finish, Desk!Becomes, Desk!Written, Desk!Text, States
<1>4. CASE d.status = "Current"
  <2>1. work' = work
    BY <1>4 DEF Save
  <2>2. States' = States
    BY <2>1 DEF States, State
  <2> QED BY <1>1, <1>2, <1>4, <2>2 DEF Desk!Revise, Desk!Written, Desk!Text, States
<1> QED BY <1>1, <1>3, <1>4

\* Every step of the program is a step at the desk, or is not seen there.
LEMMA DeskStep == ContentInv /\ OneResult /\ [Next]_vars => [Desk!Next]_(Desk!vars)
<1> SUFFICES ASSUME ContentInv, OneResult, [Next]_vars PROVE [Desk!Next]_(Desk!vars)
  OBVIOUS
<1>t. TypeOK
  BY DEF ContentInv
<1>d. \A w \in Workers : at[w] \in Drafting => item[w] \in Items
  BY DEF ContentInv, Placed
<1>1. ASSUME NEW i \in Items, Create(i) PROVE Desk!Ask(i)
  <2>1. State(i) = "none" /\ \A j \in Items : State(j) # "open"
    BY <1>1, <1>t, OpenIsUnderway DEF Create, Busy, State, Underway
  <2>2. States' = [States EXCEPT ![i] = "open"]
    BY <1>1, <1>t, StateMoves DEF Create, Rests, Becomes, Underway
  <2> QED BY <1>1, <2>1, <2>2 DEF Create, Desk!Ask, Desk!Becomes, States
<1>2. ASSUME NEW i \in Items, View(i) \/ Elapse(i) PROVE UNCHANGED Desk!vars
  BY <1>2, Unseen DEF View, Elapse
<1>3. ASSUME NEW i \in Items, ViewShell(i) \/ Shell(i) PROVE Desk!Offer(i) \/ UNCHANGED Desk!vars
  BY <1>3, <1>t, ShellOffered DEF ViewShell, Shell
<1>4. ASSUME NEW i \in Items, Look(i) \/ Found(i) PROVE UNCHANGED Desk!vars
  <2>1. UNCHANGED work \/ (work[i] \in Underway /\ work' = [work EXCEPT ![i] = "queued"])
    BY <1>4 DEF Look, Found, Rests, Becomes, Underway
  <2>2. UNCHANGED <<results, drafts, version>>
    BY <1>4 DEF Look, Found
  <2> QED BY <1>t, <2>1, <2>2, Unseen DEF TypeOK, Underway
<1>5. ASSUME NEW i \in Items, Requeue(i) PROVE Desk!TakeUp(i) \/ UNCHANGED Desk!vars
  <2>0. UNCHANGED <<results, drafts, version>>
    BY <1>5 DEF Requeue
  <2>1. CASE work[i] \in Settled
    BY <1>5, <2>1, Unseen DEF Requeue
  <2>2. CASE work[i] \in Underway
    <3>1. work' = [work EXCEPT ![i] = "queued"]
      BY <1>5, <2>2 DEF Requeue, Rests, Becomes, Underway, Settled
    <3> QED BY <1>t, <2>0, <2>2, <3>1, Unseen DEF TypeOK, Underway
  <2>3. CASE work[i] = "failed"
    <3>1. work' = [work EXCEPT ![i] = "queued"]
      BY <1>5, <2>3 DEF Requeue, Rests, Becomes, Settled
    <3>2. States' = [States EXCEPT ![i] = "open"]
      BY <1>t, <3>1, StateMoves DEF Underway
    <3>3. State(i) = "failed"
      BY <2>3 DEF State, Underway
    <3> QED BY <2>0, <3>2, <3>3 DEF Desk!TakeUp, Desk!Becomes, States
  <2>4. work[i] \in Statuses \ {"none"}
    BY <1>5 DEF Requeue, ContentInv, TypeOK, Placed
  <2> QED BY <2>1, <2>2, <2>3, <2>4 DEF Statuses
<1>6. ASSUME NEW d \in drafts, Save(d) PROVE Desk!Next
  <2>1. d.item \in Items
    BY <1>t, DraftItem
  <2> QED BY <1>6, <1>t, <2>1, SaveWrites DEF Desk!Next
<1>7. ASSUME NEW w \in Workers, Start(w)
      PROVE  UNCHANGED Desk!vars \/ \E i \in Items : Desk!GiveUp(i)
  <2>1. UNCHANGED <<results, drafts, version>> /\ item[w] \in Items
    BY <1>7, <1>d DEF Start, Drafting
  <2>2. CASE UNCHANGED work
    BY <2>1, <2>2, Unseen
  <2>3. CASE Claimable(item[w]) /\ Rests(item[w], "failed")
    <3>1. work[item[w]] \in Underway /\ work' = [work EXCEPT ![item[w]] = "failed"]
      BY <2>3 DEF Claimable, Rests, Becomes, Underway
    <3> QED BY <1>t, <2>1, <3>1, FailureGivesUp
  <2> QED BY <1>7, <2>2, <2>3 DEF Start
<1>8. ASSUME NEW w \in Workers, Fail(w)
      PROVE  UNCHANGED Desk!vars \/ \E i \in Items : Desk!GiveUp(i)
  <2>1. UNCHANGED <<results, drafts, version>> /\ item[w] \in Items
    BY <1>8, <1>d DEF Fail, Drafting
  <2>2. CASE UNCHANGED work
    BY <2>1, <2>2, Unseen
  <2>3. CASE Owns(w) /\ Rests(item[w], "failed")
    <3>1. work[item[w]] \in Underway /\ work' = [work EXCEPT ![item[w]] = "failed"]
      BY <2>3 DEF Owns, Rests, Becomes, Underway
    <3> QED BY <1>t, <2>1, <3>1, FailureGivesUp
  <2> QED BY <1>8, <2>2, <2>3 DEF Fail
<1>9. ASSUME NEW w \in Workers, Defer(w) \/ Claim(w) \/ Retry(w) PROVE UNCHANGED Desk!vars
  <2>1. item[w] \in Items /\ UNCHANGED <<results, drafts, version>>
    BY <1>9, <1>d DEF Defer, Claim, Retry, Drafting
  <2>2. \/ UNCHANGED work
        \/ /\ work[item[w]] \in Underway
           /\ \E s \in Underway : work' = [work EXCEPT ![item[w]] = s]
    BY <1>9 DEF Defer, Claim, Retry, Rests, Becomes, Claimable, Owns, Underway
  <2> QED BY <1>t, <2>1, <2>2, Unseen DEF TypeOK
<1>10. ASSUME NEW w \in Workers, Store(w)
       PROVE  UNCHANGED Desk!vars \/ \E i \in Items : Desk!Answer(i)
  <2>1. item[w] \in Items
    BY <1>10, <1>d DEF Store, Drafting
  <2>2. CASE Owns(w)
    BY <1>10, <2>1, <2>2, StoreAnswers
  <2>3. CASE ~Owns(w)
    BY <1>10, <2>3, Unseen DEF Store
  <2> QED BY <2>2, <2>3
<1>11. ASSUME NEW w \in Workers,
              Pick(w) \/ Die(w) \/ Ensure(w) \/ TurnDeferred(w) \/ Wake(w)
       PROVE  UNCHANGED Desk!vars
  BY <1>11, Unseen DEF Pick, Die, Ensure, TurnDeferred, Wake
<1>12. CASE Archive \/ UNCHANGED vars
  BY <1>12, Unseen DEF Archive, vars
<1> QED BY <1>1, <1>2, <1>3, <1>4, <1>5, <1>6, <1>7, <1>8, <1>9, <1>10, <1>11, <1>12
        DEF Next, Draft, Pipeline, Desk!Next

\* However threads, leases, searches and deaths interleave, and however many
\* requests and calls there are, the owner sees what DraftDesk allows
\* (services.py:1940-2010, 2141; research.py:590; assistance.py:1906).
THEOREM DeskKept == Spec => KeepsDesk
<1>1. Init => Desk!Init
  BY DEF Init, Desk!Init, State, Underway
<1> QED BY <1>1, DeskStep, ContentInvHolds, OneResultHolds, PTL DEF Spec, KeepsDesk, Desk!Spec
=============================================================================
