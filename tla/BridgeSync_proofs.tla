-------------------------- MODULE BridgeSync_proofs --------------------------
(***************************************************************************)
(* Theorems about BridgeSync for every set of rows and contents and every  *)
(* number of edits and failures.  Those about the hosted rows assume that  *)
(* one process synchronizes; two could delete each other's rows.           *)
(***************************************************************************)
EXTENDS BridgeSync, TLAPS

\* The set of rows of a content is a set of keys.
LEMMA PresentKeys == ASSUME NEW c PROVE Present(c) \subseteq Keys
BY DEF Present

\* Going idle keeps what a bridge remembers typed.
LEMMA RestTypes ==
  ASSUME TypeOK, NEW b \in Bridges, Rest(b)
  PROVE  /\ pc' \in [Bridges -> Places]
         /\ sync' \in [Bridges -> SyncIds \cup {None}]
         /\ bundle' \in [Bridges -> Contents]
         /\ base' \in [Bridges -> Contents \cup {None}]
         /\ seen' \in [Bridges -> Contents \cup {None}]
         /\ todo' \in [Bridges -> SUBSET Keys]
         /\ gone' \in [Bridges -> SUBSET Keys]
<1>1. Empty \in Contents
  BY DEF Empty, Contents
<1> QED
  BY <1>1 DEF Rest, TypeOK, Places

\* The initial state is typed.
LEMMA TypeInit == Init => TypeOK
BY BridgeAssumption DEF Init, TypeOK, Empty, Contents, Places

\* Every action keeps the types.
LEMMA TypeStep == TypeOK /\ [Next]_vars => TypeOK'
<1> SUFFICES ASSUME TypeOK, [Next]_vars PROVE TypeOK'
  OBVIOUS
<1> USE BridgeAssumption DEF TypeOK, server, local, work
<1>1. CASE Edit
  BY <1>1 DEF Edit, Contents
<1>2. CASE LoseManifest
  BY <1>2 DEF LoseManifest
<1>3. ASSUME NEW b \in Bridges, Abort(b) PROVE TypeOK'
  BY <1>3, RestTypes DEF Abort
<1>4. ASSUME NEW b \in Bridges, Begin(b) PROVE TypeOK'
  BY <1>4 DEF Begin, Places
<1>5. ASSUME NEW b \in Bridges, StateRead(b) PROVE TypeOK'
  BY <1>5 DEF StateRead, Places
<1>6. ASSUME NEW b \in Bridges, StateWrite(b) PROVE TypeOK'
  <2>1. Selected(b) \subseteq Keys /\ Removed(b) \subseteq Keys
    BY PresentKeys DEF Selected, Changed, Removed, Present
  <2>2. /\ pc' \in [Bridges -> Places]
        /\ todo' \in [Bridges -> SUBSET Keys] /\ gone' \in [Bridges -> SUBSET Keys]
    <3>1. CASE seen[b] = bundle[b]
      BY <1>6, <3>1 DEF StateWrite, Places
    <3>2. CASE seen[b] # bundle[b]
      BY <1>6, <2>1, <3>2 DEF StateWrite, Places
    <3> QED BY <3>1, <3>2
  <2> QED BY <1>6, <2>2 DEF StateWrite
<1>7. ASSUME NEW b \in Bridges, Upload(b) PROVE TypeOK'
  BY <1>7 DEF Upload, Contents
<1>8. ASSUME NEW b \in Bridges, Delete(b) PROVE TypeOK'
  BY <1>8 DEF Delete, Contents
<1>9. ASSUME NEW b \in Bridges, Count(b) PROVE TypeOK'
  BY <1>9 DEF Count, Places
<1>10. ASSUME NEW b \in Bridges, Incomplete(b) PROVE TypeOK'
  BY <1>10, RestTypes DEF Incomplete
<1>11. ASSUME NEW b \in Bridges, Publish(b) PROVE TypeOK'
  BY <1>11 DEF Publish, Contents, Places
<1>12. ASSUME NEW b \in Bridges, SaveManifest(b) PROVE TypeOK'
  BY <1>12 DEF SaveManifest, Places
<1>13. ASSUME NEW b \in Bridges, Fetch(b) PROVE TypeOK'
  BY <1>13, RestTypes DEF Fetch
<1>14. CASE UNCHANGED vars
  BY <1>14 DEF vars
<1> QED
  BY <1>1, <1>2, <1>3, <1>4, <1>5, <1>6, <1>7, <1>8, <1>9, <1>10, <1>11, <1>12,
     <1>13, <1>14 DEF Next, Step

\* Type correctness, for any number of bridges.
THEOREM TypeCorrect == Spec => []TypeOK
BY TypeInit, TypeStep, PTL DEF Spec

-----------------------------------------------------------------------------
\* A single bridge's knowledge of the digest and of its identifier survives
\* every action.
LEMMA SeenStep ==
  ASSUME NEW b \in Bridges, Bridges = {b}
  PROVE  TypeOK /\ SeenInv /\ [Next]_vars => SeenInv'
<1> SUFFICES ASSUME TypeOK, SeenInv, [Next]_vars PROVE SeenInv'
  OBVIOUS
<1> USE DEF TypeOK, SeenInv, server, local, work
<1>1. CASE Edit
  BY <1>1 DEF Edit
<1>2. CASE LoseManifest
  BY <1>2 DEF LoseManifest
<1>3. CASE Abort(b)
  BY <1>3 DEF Abort, Rest
<1>4. CASE Begin(b)
  <2>1. sync'[b] \in SyncIds
    BY <1>4 DEF Begin
  <2> QED BY <1>4, <2>1 DEF Begin
<1>5. CASE StateRead(b)
  BY <1>5 DEF StateRead
<1>6. CASE StateWrite(b)
  BY <1>6 DEF StateWrite
<1>7. CASE Upload(b)
  BY <1>7 DEF Upload
<1>8. CASE Delete(b)
  BY <1>8 DEF Delete
<1>9. CASE Count(b)
  BY <1>9 DEF Count, Sent
<1>10. CASE Incomplete(b)
  BY <1>10 DEF Incomplete, Rest
<1>11. CASE Publish(b)
  BY <1>11 DEF Publish
<1>12. CASE SaveManifest(b)
  BY <1>12 DEF SaveManifest
<1>13. CASE Fetch(b)
  BY <1>13 DEF Fetch, Rest
<1>14. CASE UNCHANGED vars
  BY <1>14 DEF vars
<1> QED
  BY <1>1, <1>2, <1>3, <1>4, <1>5, <1>6, <1>7, <1>8, <1>9, <1>10, <1>11, <1>12,
     <1>13, <1>14 DEF Next, Step

\* So does its knowledge of which rows carry its identifier.
LEMMA TagStep ==
  ASSUME NEW b \in Bridges, Bridges = {b}
  PROVE  TypeOK /\ SeenInv /\ TagInv /\ [Next]_vars => TagInv'
<1> SUFFICES ASSUME TypeOK, SeenInv, TagInv, [Next]_vars PROVE TagInv'
  OBVIOUS
<1> USE DEF TypeOK, TagInv, Sending, server, local, work, Delta, Present
<1>1. CASE Edit
  BY <1>1 DEF Edit
<1>2. CASE LoseManifest
  BY <1>2 DEF LoseManifest
<1>3. CASE Abort(b)
  BY <1>3 DEF Abort, Rest
<1>4. CASE Begin(b)
  <2>1. sync'[b] \in SyncIds \ Used
    BY <1>4 DEF Begin
  <2>2. \A k \in Keys : tag'[k] # sync'[b]
    BY <1>4, <2>1 DEF Begin, Used
  <2> QED BY <1>4, <2>2 DEF Begin
<1>5. CASE StateRead(b)
  BY <1>5 DEF StateRead
<1>6. CASE StateWrite(b)
  <2>1. CASE seen[b] = bundle[b]
    BY <1>6, <2>1 DEF StateWrite
  <2>2. CASE seen[b] # bundle[b]
    BY <1>6, <2>2 DEF StateWrite, Selected, Changed, Removed
  <2> QED BY <2>1, <2>2
<1>7. CASE Upload(b)
  <2>1. PICK k \in todo[b] : /\ hosted' = [hosted EXCEPT ![k] = bundle[b][k]]
                             /\ tag' = [tag EXCEPT ![k] = sync[b]]
                             /\ todo' = [todo EXCEPT ![b] = @ \ {k}]
    BY <1>7 DEF Upload
  <2>2. k \in Keys /\ bundle[b][k] # Absent
    BY <1>7, <2>1 DEF Upload
  <2>3. \A i \in Keys : i # k => hosted'[i] = hosted[i] /\ tag'[i] = tag[i]
    BY <2>1
  <2>4. hosted'[k] = bundle[b][k] /\ tag'[k] = sync[b]
    BY <2>1, <2>2 DEF Contents
  <2>5. \A i \in Keys :
          /\ tag'[i] = sync[b] => bundle[b][i] # Absent /\ hosted'[i] = bundle[b][i]
          /\ i \in Present(bundle[b]) \ todo'[b] => Delta(b) \/ tag'[i] = sync[b]
    BY <1>7, <2>1, <2>2, <2>3, <2>4 DEF Upload
  <2> QED BY <1>7, <2>1, <2>5 DEF Upload
<1>8. CASE Delete(b)
  <2>1. PICK k \in gone[b] : /\ hosted' = [hosted EXCEPT ![k] = Absent]
                             /\ tag' = [tag EXCEPT ![k] = None]
                             /\ gone' = [gone EXCEPT ![b] = @ \ {k}]
    BY <1>8 DEF Delete
  <2>2. sync[b] # None
    BY <1>8, NoneAssumption DEF Delete, SeenInv
  <2> QED BY <1>8, <2>1, <2>2 DEF Delete
<1>9. CASE Count(b)
  BY <1>9 DEF Count, Sent
<1>10. CASE Incomplete(b)
  BY <1>10 DEF Incomplete, Rest
<1>11. CASE Publish(b)
  BY <1>11 DEF Publish
<1>12. CASE SaveManifest(b)
  BY <1>12 DEF SaveManifest
<1>13. CASE Fetch(b)
  BY <1>13 DEF Fetch, Rest
<1>14. CASE UNCHANGED vars
  BY <1>14 DEF vars
<1> QED
  BY <1>1, <1>2, <1>3, <1>4, <1>5, <1>6, <1>7, <1>8, <1>9, <1>10, <1>11, <1>12,
     <1>13, <1>14 DEF Next, Step

\* What a single bridge knows in the middle of a sync is true, through any
\* number of failures.
THEOREM SyncCorrect ==
  ASSUME NEW b \in Bridges, Bridges = {b}
  PROVE  Spec => []SyncInv
<1>1. Init => SyncInv
  BY DEF Init, SyncInv, SeenInv, TagInv, Sending
<1>2. TypeOK /\ SyncInv /\ [Next]_vars => SyncInv'
  BY SeenStep, TagStep DEF SyncInv
<1> QED
  BY <1>1, <1>2, TypeCorrect, PTL DEF Spec

\* A single bridge sends a delta only on top of the published content.
THEOREM DeltaOnPublishedHolds ==
  ASSUME NEW b \in Bridges, Bridges = {b}
  PROVE  Spec => []DeltaOnPublished
<1>1. SyncInv => DeltaOnPublished
  BY DEF SyncInv, SeenInv, DeltaOnPublished, Delta
<1> QED
  BY <1>1, SyncCorrect, PTL

\* A full upload of a single bridge leaves exactly its content, whatever earlier
\* uploads left behind.
THEOREM FullSyncExactHolds ==
  ASSUME NEW b \in Bridges, Bridges = {b}
  PROVE  Spec => FullSyncExact
<1>1. TypeOK /\ SyncInv => ExactIfFull
  <2> SUFFICES ASSUME TypeOK, SyncInv, Publish(b), ~Delta(b)
               PROVE  hosted' = bundle[b]
    BY DEF ExactIfFull
  <2>1. \A k \in Keys : hosted'[k] = bundle[b][k]
    <3> TAKE k \in Keys
    <3>1. hosted'[k] = IF tag[k] = sync[b] THEN hosted[k] ELSE Absent
      BY DEF Publish
    <3>2. CASE tag[k] = sync[b]
      BY <3>1, <3>2 DEF Publish, SyncInv, TagInv, Sending
    <3>3. CASE tag[k] # sync[b]
      BY <3>1, <3>3 DEF Publish, SyncInv, TagInv, Sending, Present
    <3> QED BY <3>2, <3>3
  <2>2. bundle[b] \in Contents
    BY DEF TypeOK
  <2>3. DOMAIN hosted' = Keys /\ hosted' = [k \in Keys |-> hosted'[k]]
    BY DEF Publish
  <2> QED BY <2>1, <2>2, <2>3 DEF Contents
<1> QED
  BY <1>1, TypeCorrect, SyncCorrect, PTL DEF Spec, FullSyncExact
-----------------------------------------------------------------------------
\* In a full upload every row of the bundle, once sent, is in place, and the
\* rows that carry the identifier are those of the bundle.
LEMMA FullRows ==
  ASSUME TypeOK, SyncInv, NEW b \in Bridges, Sending(b), ~Delta(b), todo[b] = {}
  PROVE  \A k \in Keys : /\ tag[k] = sync[b] => hosted[k] = bundle[b][k]
                         /\ tag[k] = sync[b] <=> bundle[b][k] # Absent
BY DEF SyncInv, TagInv, Present

\* Two contents that agree on every row are equal.
LEMMA SameContent ==
  ASSUME NEW c \in Contents, NEW d \in Contents, \A k \in Keys : c[k] = d[k]
  PROVE  c = d
BY DEF Contents

\* Until something fails the counts agree.
LEMMA NoneRefused ==
  ASSUME NEW b \in Bridges, TypeOK, SyncInv, FaithInv, aborts = 0
  PROVE  ~Incomplete(b)
<1> SUFFICES ASSUME Incomplete(b) PROVE FALSE
  OBVIOUS
<1> USE DEF TypeOK, FaithInv, Sending, Delta, Present
<1>1. Sent(b) /\ ~Complete(b)
  BY DEF Incomplete
<1>2. CASE Delta(b)
  <2>1. \A k \in Keys : hosted[k] = bundle[b][k]
    BY <1>1, <1>2 DEF Sent
  <2>2. Counted(b) = Present(bundle[b])
    BY <1>2, <2>1 DEF Counted
  <2> QED BY <1>1, <2>2 DEF Complete
<1>3. CASE ~Delta(b)
  <2>1. Counted(b) = Present(bundle[b])
    BY <1>1, <1>3, FullRows DEF Sent, Counted
  <2> QED BY <1>1, <2>1 DEF Complete
<1> QED BY <1>2, <1>3

\* Until something fails the rows stay accounted for.
LEMMA FaithStep ==
  ASSUME NEW b \in Bridges, Bridges = {b}
  PROVE  TypeOK /\ SyncInv /\ FaithInv /\ [Next]_vars => FaithInv'
<1> SUFFICES ASSUME TypeOK, SyncInv, FaithInv, [Next]_vars, aborts' = 0
             PROVE  FaithInv'
  BY DEF FaithInv
<1> USE DEF TypeOK, FaithInv, Sending, server, local, work, Delta, Present
<1>1. CASE Edit
  BY <1>1 DEF Edit
<1>2. CASE LoseManifest
  BY <1>2 DEF LoseManifest
<1>3. CASE Abort(b)
  BY <1>3 DEF Abort
<1>4. CASE Begin(b)
  BY <1>4 DEF Begin
<1>5. CASE StateRead(b)
  BY <1>5 DEF StateRead
<1>6. CASE StateWrite(b)
  <2>1. seen[b] = digest
    BY <1>6 DEF StateWrite, SyncInv, SeenInv
  <2>2. digest # None => hosted = digest
    BY <1>6 DEF StateWrite
  <2>3. CASE seen[b] = bundle[b]
    <3>1. bundle[b] # None
      BY NoneAssumption
    <3> QED BY <1>6, <2>1, <2>2, <2>3, <3>1 DEF StateWrite
  <2>4. CASE seen[b] # bundle[b]
    <3>1. \A k \in Keys : Delta(b) /\ k \notin Selected(b) \cup Removed(b) =>
            base[b][k] = bundle[b][k]
      BY DEF Selected, Changed, Removed
    <3>2. base[b] # None /\ base[b] = seen[b] => hosted = base[b]
      BY <2>1, <2>2
    <3> QED BY <1>6, <2>4, <3>1, <3>2 DEF StateWrite
  <2> QED BY <2>3, <2>4
<1>7. CASE Upload(b)
  <2>1. PICK k \in todo[b] : /\ hosted' = [hosted EXCEPT ![k] = bundle[b][k]]
                             /\ todo' = [todo EXCEPT ![b] = @ \ {k}]
    BY <1>7 DEF Upload
  <2>2. k \in Keys /\ bundle[b][k] # Absent
    BY <1>7, <2>1 DEF Upload, SyncInv, TagInv
  <2>3. Delta(b) => k \notin gone[b]
    BY <1>7, <2>1, <2>2 DEF Upload, SyncInv, TagInv
  <2> QED BY <1>7, <2>1, <2>2, <2>3 DEF Upload, Contents
<1>8. CASE Delete(b)
  <2>1. PICK k \in gone[b] : /\ hosted' = [hosted EXCEPT ![k] = Absent]
                             /\ gone' = [gone EXCEPT ![b] = @ \ {k}]
    BY <1>8 DEF Delete
  <2>2. k \in Keys /\ bundle[b][k] = Absent
    BY <1>8, <2>1 DEF Delete, SyncInv, TagInv
  <2> QED BY <1>8, <2>1, <2>2 DEF Delete, Contents
<1>9. CASE Count(b)
  BY <1>9 DEF Count, Sent
<1>10. CASE Incomplete(b)
  BY <1>10, NoneRefused DEF Incomplete
<1>11. CASE Publish(b)
  <2>1. todo[b] = {} /\ gone[b] = {} /\ current = sync[b]
    BY <1>11 DEF Publish, SyncInv, SeenInv, TagInv
  <2>2. \A k \in Keys : hosted'[k] = bundle[b][k]
    <3>1. CASE Delta(b)
      BY <1>11, <2>1, <3>1 DEF Publish
    <3>2. CASE ~Delta(b)
      BY <1>11, <2>1, <3>2, FullRows DEF Publish
    <3> QED BY <3>1, <3>2
  <2>3. hosted' \in Contents /\ bundle[b] \in Contents
    BY <1>11 DEF Publish, Contents
  <2>4. hosted' = bundle[b]
    BY <2>2, <2>3, SameContent
  <2> QED BY <1>11, <2>1, <2>4 DEF Publish
<1>12. CASE SaveManifest(b)
  BY <1>12 DEF SaveManifest
<1>13. CASE Fetch(b)
  BY <1>13 DEF Fetch, Rest
<1>14. CASE UNCHANGED vars
  BY <1>14 DEF vars
<1> QED
  BY <1>1, <1>2, <1>3, <1>4, <1>5, <1>6, <1>7, <1>8, <1>9, <1>10, <1>11, <1>12,
     <1>13, <1>14 DEF Next, Step

\* With one bridge, until something fails, every row is accounted for at every step of
\* every upload.
THEOREM FaithCorrect ==
  ASSUME NEW b \in Bridges, Bridges = {b}
  PROVE  Spec => []FaithInv
<1>1. Init => FaithInv
  BY DEF Init, FaithInv, Sending
<1>2. TypeOK /\ SyncInv /\ FaithInv /\ [Next]_vars => FaithInv'
  BY FaithStep
<1> QED
  BY <1>1, <1>2, TypeCorrect, SyncCorrect, PTL DEF Spec

\* With one bridge and until something fails the hosted rows are, between syncs, the
\* content whose digest is published.
THEOREM HostedFaithfulHolds ==
  ASSUME NEW b \in Bridges, Bridges = {b}
  PROVE  Spec => []HostedFaithful
<1>1. FaithInv => HostedFaithful
  BY DEF FaithInv, HostedFaithful, Idle
<1> QED
  BY <1>1, FaithCorrect, PTL
-----------------------------------------------------------------------------
\* What a delta has dealt with stays in place until it is published.
LEMMA DeltaStep ==
  ASSUME NEW b \in Bridges, Bridges = {b}
  PROVE  TypeOK /\ SyncInv /\ DeltaInv /\ [Next]_vars => DeltaInv'
<1> SUFFICES ASSUME TypeOK, SyncInv, DeltaInv, [Next]_vars PROVE DeltaInv'
  OBVIOUS
<1> USE DEF TypeOK, DeltaInv, Sending, server, local, work, Delta, Present
<1>1. CASE Edit
  BY <1>1 DEF Edit
<1>2. CASE LoseManifest
  BY <1>2 DEF LoseManifest
<1>3. CASE Abort(b)
  BY <1>3 DEF Abort, Rest
<1>4. CASE Begin(b)
  BY <1>4 DEF Begin
<1>5. CASE StateRead(b)
  BY <1>5 DEF StateRead
<1>6. CASE StateWrite(b)
  <2>1. CASE seen[b] = bundle[b]
    BY <1>6, <2>1 DEF StateWrite
  <2>2. CASE seen[b] # bundle[b]
    <3>1. \A k \in Keys : Delta(b) /\ k \notin Selected(b) \cup Removed(b) =>
            base[b][k] = bundle[b][k]
      BY DEF Selected, Changed, Removed
    <3> QED BY <1>6, <2>2, <3>1 DEF StateWrite
  <2> QED BY <2>1, <2>2
<1>7. CASE Upload(b)
  <2>1. PICK k \in todo[b] : /\ hosted' = [hosted EXCEPT ![k] = bundle[b][k]]
                             /\ todo' = [todo EXCEPT ![b] = @ \ {k}]
    BY <1>7 DEF Upload
  <2> QED BY <1>7, <2>1 DEF Upload, Contents
<1>8. CASE Delete(b)
  <2>1. PICK k \in gone[b] : /\ hosted' = [hosted EXCEPT ![k] = Absent]
                             /\ gone' = [gone EXCEPT ![b] = @ \ {k}]
    BY <1>8 DEF Delete
  <2>2. k \in Keys /\ bundle[b][k] = Absent
    BY <1>8, <2>1 DEF Delete, SyncInv, TagInv
  <2> QED BY <1>8, <2>1, <2>2 DEF Delete, Contents
<1>9. CASE Count(b)
  BY <1>9 DEF Count, Sent
<1>10. CASE Incomplete(b)
  BY <1>10 DEF Incomplete, Rest
<1>11. CASE Publish(b)
  BY <1>11 DEF Publish
<1>12. CASE SaveManifest(b)
  BY <1>12 DEF SaveManifest
<1>13. CASE Fetch(b)
  BY <1>13 DEF Fetch, Rest
<1>14. CASE UNCHANGED vars
  BY <1>14 DEF vars
<1> QED
  BY <1>1, <1>2, <1>3, <1>4, <1>5, <1>6, <1>7, <1>8, <1>9, <1>10, <1>11, <1>12,
     <1>13, <1>14 DEF Next, Step

\* Through any number of failures, the rows a delta leaves out of date are rows
\* its manifest and its bundle agree on.
THEOREM DeltaCorrect ==
  ASSUME NEW b \in Bridges, Bridges = {b}
  PROVE  Spec => []DeltaInv
<1>1. Init => DeltaInv
  BY DEF Init, DeltaInv, Sending
<1>2. TypeOK /\ SyncInv /\ DeltaInv /\ [Next]_vars => DeltaInv'
  BY DeltaStep
<1> QED
  BY <1>1, <1>2, TypeCorrect, SyncCorrect, PTL DEF Spec

\* With one bridge and until something fails, no completing call is refused.
\* (hosted-dashboard/lib/dashboard/store.ts:190)
THEOREM NeverRefused ==
  ASSUME NEW b \in Bridges, Bridges = {b}
  PROVE  Spec => [][~(aborts = 0 /\ Incomplete(b))]_vars
<1>1. TypeOK /\ SyncInv /\ FaithInv => ~(aborts = 0 /\ Incomplete(b))
  BY NoneRefused
<1> QED
  BY <1>1, TypeCorrect, SyncCorrect, FaithCorrect, PTL DEF Spec

-----------------------------------------------------------------------------
\* A publication leaves the bundle's rows; after a break it may instead leave
\* rows as they were, but only those on which bundle and manifest agree.
LEMMA Published ==
  ASSUME NEW b \in Bridges, Bridges = {b}, TypeOK, SyncInv, FaithInv, DeltaInv,
         Publish(b)
  PROVE  /\ digest' = bundle[b]
         /\ \/ hosted' = bundle[b]
            \/ /\ aborts > 0 /\ digest # None /\ hosted' = hosted
               /\ \A k \in Keys : hosted[k] # bundle[b][k] => bundle[b][k] = digest[k]
<1> USE DEF TypeOK, Sending
<1>1. todo[b] = {} /\ gone[b] = {} /\ current = sync[b] /\ seen[b] = digest
  BY DEF Publish, SyncInv, SeenInv, TagInv
<1>2. digest' = bundle[b]
  BY <1>1 DEF Publish
<1>3. CASE ~Delta(b)
  <2>1. \A k \in Keys : hosted'[k] = bundle[b][k]
    BY <1>1, <1>3, FullRows DEF Publish, Present
  <2>2. hosted' \in Contents /\ bundle[b] \in Contents
    BY DEF Publish, Contents
  <2> QED BY <1>2, <2>1, <2>2, SameContent
<1>4. CASE Delta(b)
  <2>1. hosted' = [k \in Keys |-> hosted[k]] /\ hosted' = hosted
    BY <1>4 DEF Publish, Contents
  <2>2. CASE aborts = 0
    <3>1. \A k \in Keys : hosted[k] = bundle[b][k]
      BY <1>1, <1>4, <2>2 DEF FaithInv, Publish
    <3> QED BY <1>2, <2>1, <3>1, SameContent
  <2>3. CASE aborts > 0
    <3>1. base[b] = digest /\ digest # None
      BY <1>1, <1>4 DEF Delta
    <3>2. \A k \in Keys : bundle[b][k] # base[b][k] => hosted[k] = bundle[b][k]
      BY <1>1, <1>4 DEF DeltaInv, Publish
    <3> QED BY <1>2, <2>1, <2>3, <3>1, <3>2
  <2>4. aborts \in Nat
    BY BridgeAssumption
  <2> QED BY <2>2, <2>3, <2>4
<1> QED BY <1>3, <1>4

\* Every action of a single bridge is a step of the mirror, or one it does not
\* show.
LEMMA MirrorStep ==
  ASSUME NEW b \in Bridges, Bridges = {b}, TypeOK, TypeOK', SyncInv, FaithInv,
         DeltaInv, [Next]_vars
  PROVE  [Copy!Next]_(Copy!vars)
<1>1. /\ Transfer = IF pc[b] \in {"state", "answer", "upload", "publish"}
                    THEN bundle[b] ELSE None
      /\ Transfer' = IF pc'[b] \in {"state", "answer", "upload", "publish"}
                     THEN bundle'[b] ELSE None
      /\ bundle[b] # None /\ bundle'[b] # None
  <2>1. Agent = b
    BY DEF Agent
  <2> QED BY <2>1, NoneAssumption DEF Transfer, TypeOK
<1> USE DEF TypeOK, server, local, work, Copy!vars, Copy!Next
<1>2. CASE Edit
  BY <1>1, <1>2 DEF Edit, Copy!Edit, Copy!Contents, Contents
<1>3. CASE LoseManifest
  <2>1. aborts' > 0
    BY <1>3, BridgeAssumption DEF LoseManifest
  <2>2. Copy!Break
    BY <1>1, <1>3, <2>1 DEF LoseManifest, Copy!Break
  <2> QED BY <2>2
<1>4. CASE Abort(b)
  <2>1. aborts' > 0 /\ Transfer' = None
    BY <1>1, <1>4, BridgeAssumption DEF Abort, Rest
  <2>2. Copy!Break
    BY <1>4, <2>1 DEF Abort, Copy!Break
  <2> QED BY <2>2
<1>5. CASE Begin(b)
  <2>1. Copy!Open
    BY <1>1, <1>5 DEF Begin, Copy!Open
  <2> QED BY <2>1
<1>6. CASE StateRead(b)
  BY <1>1, <1>6 DEF StateRead
<1>7. CASE StateWrite(b)
  <2>1. seen[b] = digest
    BY <1>7 DEF StateWrite, SyncInv, SeenInv
  <2>2. CASE seen[b] = bundle[b]
    <3>1. Copy!Leave
      BY <1>1, <1>7, <2>1, <2>2 DEF StateWrite, Copy!Leave
    <3> QED BY <3>1
  <2>3. CASE seen[b] # bundle[b]
    BY <1>1, <1>7, <2>1, <2>3 DEF StateWrite
  <2> QED BY <2>2, <2>3
<1>8. CASE Upload(b)
  <2>1. PICK k \in todo[b] : hosted' = [hosted EXCEPT ![k] = bundle[b][k]]
    BY <1>8 DEF Upload
  <2>2. k \in Keys /\ Copy!Move(k)
    BY <1>1, <1>8, <2>1 DEF Upload, Copy!Move
  <2> QED BY <2>2
<1>9. CASE Delete(b)
  <2>1. PICK k \in gone[b] : hosted' = [hosted EXCEPT ![k] = Absent]
    BY <1>9 DEF Delete
  <2>2. k \in Keys /\ bundle[b][k] = Absent
    BY <1>9, <2>1 DEF Delete, SyncInv, TagInv, Sending, Present
  <2>3. Copy!Move(k)
    BY <1>1, <1>9, <2>1, <2>2 DEF Delete, Copy!Move
  <2> QED BY <2>2, <2>3
<1>10. CASE Count(b)
  BY <1>1, <1>10 DEF Count, Sent
<1>11. CASE Incomplete(b)
  <2>1. aborts > 0
    BY <1>11, NoneRefused, BridgeAssumption
  <2>2. Copy!Leave
    BY <1>1, <1>11, <2>1 DEF Incomplete, Sent, Rest, Copy!Leave
  <2> QED BY <2>2
<1>12. CASE Publish(b)
  <2>1. Copy!Publish
    BY <1>1, <1>12, Published DEF Publish, Copy!Publish, Copy!LeftBehind
  <2> QED BY <2>1
<1>13. CASE SaveManifest(b)
  BY <1>1, <1>13 DEF SaveManifest
<1>14. CASE Fetch(b)
  BY <1>1, <1>14 DEF Fetch, Rest
<1>15. CASE UNCHANGED vars
  BY <1>1, <1>15 DEF vars
<1> QED
  BY <1>2, <1>3, <1>4, <1>5, <1>6, <1>7, <1>8, <1>9, <1>10, <1>11, <1>12, <1>13,
     <1>14, <1>15 DEF Next, Step

\* With one bridge, the calls, identifiers, manifests and deltas implement the
\* mirror: what is published is what was read, whole as long as nothing broke.
THEOREM MirrorKept ==
  ASSUME NEW b \in Bridges, Bridges = {b}
  PROVE  Spec => KeepsMirror
<1>1. Init => Copy!Init
  <2> SUFFICES ASSUME Init PROVE Copy!Init
    OBVIOUS
  <2>1. Agent = b
    BY DEF Agent
  <2>2. Transfer = None
    BY <2>1 DEF Init, Transfer
  <2> QED BY <2>2 DEF Init, Copy!Init, Copy!Contents, Contents, Empty
<1>2. TypeOK /\ TypeOK' /\ SyncInv /\ FaithInv /\ DeltaInv /\ [Next]_vars
        => [Copy!Next]_(Copy!vars)
  BY MirrorStep
<1> QED
  BY <1>1, <1>2, TypeCorrect, SyncCorrect, FaithCorrect, DeltaCorrect, PTL
     DEF Spec, KeepsMirror, Copy!Spec
=============================================================================
