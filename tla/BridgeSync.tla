----------------------------- MODULE BridgeSync -----------------------------
(***************************************************************************)
(* How the hosted bridge copies a local projection (stories, or resources: *)
(* both run the same protocol) to the hosted dashboard.                    *)
(*   src/src/open_source_ai_news_wire/hosted_bridge.py    sync_once()      *)
(*   src/hosted-dashboard/lib/dashboard/store.ts          the handlers     *)
(* The bridge announces a digest; if the server publishes another one, the *)
(* bridge uploads rows: all of them ("full"), or only what changed since   *)
(* its local manifest when the server still publishes the manifest's       *)
(* digest ("delta").  A final call counts the rows and publishes the       *)
(* digest.  Every call may fail, and the next poll starts over.            *)
(*                                                                         *)
(* A digest is the content it is computed from: SHA-256 does not collide.  *)
(* A request is one row long (the finest split of the chunks), and each    *)
(* database call of a handler is a step.                                   *)
(***************************************************************************)
EXTENDS Naturals, FiniteSets

CONSTANTS
  Bridges,    \* processes that run sync_once(): the agent, hosted-bridge once
  Keys,       \* identifiers of rows
  Vals,       \* contents of a row
  SyncIds,    \* what secrets.token_urlsafe() returns
  MaxEdits,   \* bound: changes of the local content
  MaxAborts,  \* bound: failed requests, crashes, lost manifests
  Absent,     \* no such row
  None        \* no digest, no manifest

ASSUME BridgeAssumption ==
  /\ IsFiniteSet(Keys)
  /\ Absent \notin Vals
  /\ MaxEdits \in Nat /\ MaxAborts \in Nat

Contents == [Keys -> Vals \cup {Absent}]

ASSUME NoneAssumption == None \notin Contents /\ None \notin SyncIds

Present(c) == {k \in Keys : c[k] # Absent}
Empty      == [k \in Keys |-> Absent]

VARIABLES
  content,   \* what the local database projects now
  manifest,  \* the local manifest file: the content of the last whole sync
  hosted,    \* rows of story_projection (or resource_projection)
  tag,       \* their sync_id
  digest,    \* projection_state.story_digest: the published digest
  current,   \* projection_state.sync_id
  pc,        \* where each bridge's sync_once() is
  sync,      \* its sync_id
  bundle,    \* the content it read at its start
  base,      \* the manifest it read at its start
  seen,      \* the digest the state call found
  todo,      \* rows it has still to upload
  gone,      \* rows it has still to delete
  edits,     \* changes of the content so far
  aborts     \* failures so far

server == <<hosted, tag, digest, current>>
local  == <<bundle, base>>
work   == <<todo, gone>>
vars   == <<content, manifest, server, pc, sync, local, seen, work, edits, aborts>>

Places == {"idle", "state", "answer", "upload", "publish", "manifest", "fetch"}

TypeOK ==
  /\ content \in Contents
  /\ manifest \in Contents \cup {None}
  /\ hosted \in Contents
  /\ tag \in [Keys -> SyncIds \cup {None}]
  /\ digest \in Contents \cup {None}
  /\ current \in SyncIds \cup {None}
  /\ pc \in [Bridges -> Places]
  /\ sync \in [Bridges -> SyncIds \cup {None}]
  /\ bundle \in [Bridges -> Contents]
  /\ base \in [Bridges -> Contents \cup {None}]
  /\ seen \in [Bridges -> Contents \cup {None}]
  /\ todo \in [Bridges -> SUBSET Keys]
  /\ gone \in [Bridges -> SUBSET Keys]
  /\ edits \in 0..MaxEdits
  /\ aborts \in 0..MaxAborts

Init ==
  /\ content \in Contents
  /\ manifest = None
  /\ hosted = Empty
  /\ tag = [k \in Keys |-> None]
  /\ digest = None
  /\ current = None
  /\ pc = [b \in Bridges |-> "idle"]
  /\ sync = [b \in Bridges |-> None]
  /\ bundle = [b \in Bridges |-> Empty]
  /\ base = [b \in Bridges |-> None]
  /\ seen = [b \in Bridges |-> None]
  /\ todo = [b \in Bridges |-> {}]
  /\ gone = [b \in Bridges |-> {}]
  /\ edits = 0
  /\ aborts = 0

-----------------------------------------------------------------------------
\* The owner, a scan or a generation changes one row of the projection.
Edit ==
  /\ edits < MaxEdits
  /\ \E k \in Keys, v \in Vals \cup {Absent} :
       content[k] # v /\ content' = [content EXCEPT ![k] = v]
  /\ edits' = edits + 1
  /\ UNCHANGED <<manifest, server, pc, sync, local, seen, work, aborts>>

\* The manifest file is missing or unreadable: read as no manifest.
LoseManifest ==
  /\ aborts < MaxAborts /\ manifest # None
  /\ manifest' = None
  /\ aborts' = aborts + 1
  /\ UNCHANGED <<content, server, pc, sync, local, seen, work, edits>>

\* Back to idle, as after the last request.  What a sync kept is forgotten.
Rest(b) ==
  /\ pc' = [pc EXCEPT ![b] = "idle"]
  /\ sync' = [sync EXCEPT ![b] = None]
  /\ bundle' = [bundle EXCEPT ![b] = Empty]
  /\ base' = [base EXCEPT ![b] = None]
  /\ seen' = [seen EXCEPT ![b] = None]
  /\ todo' = [todo EXCEPT ![b] = {}]
  /\ gone' = [gone EXCEPT ![b] = {}]

\* A request or its answer is lost, or the process dies.
Abort(b) ==
  /\ aborts < MaxAborts /\ pc[b] # "idle"
  /\ aborts' = aborts + 1
  /\ Rest(b)
  /\ UNCHANGED <<content, manifest, server, edits>>

-----------------------------------------------------------------------------
Used == {current} \cup {tag[k] : k \in Keys} \cup {sync[b] : b \in Bridges}

\* The bundle, the manifest and a fresh identifier.
Begin(b) ==
  /\ pc[b] = "idle"
  /\ SyncIds \ Used # {}
  /\ sync' = [sync EXCEPT ![b] = CHOOSE id \in SyncIds \ Used : TRUE]
  /\ bundle' = [bundle EXCEPT ![b] = content]
  /\ base' = [base EXCEPT ![b] = manifest]
  /\ pc' = [pc EXCEPT ![b] = "state"]
  /\ UNCHANGED <<content, manifest, server, seen, work, edits, aborts>>

\* saveProjectionState() reads the published digest ...
StateRead(b) ==
  /\ pc[b] = "state"
  /\ seen' = [seen EXCEPT ![b] = digest]
  /\ pc' = [pc EXCEPT ![b] = "answer"]
  /\ UNCHANGED <<content, manifest, server, sync, local, work, edits, aborts>>

\* Mutant of Delta: any manifest will do.
DeltaUnasked(b) == base[b] # None

\* A delta is sent when the manifest's digest is the published one.
Delta(b) == base[b] # None /\ base[b] = seen[b]

Changed(b) == {k \in Present(bundle[b]) : base[b][k] # bundle[b][k]}

\* Mutant of Selected: a row the server has under another content is left out.
SelectedIfNew(b) ==
  IF Delta(b) THEN {k \in Present(bundle[b]) : base[b][k] = Absent}
              ELSE Present(bundle[b])

Selected(b) == IF Delta(b) THEN Changed(b) ELSE Present(bundle[b])

Removed(b) == IF Delta(b) THEN Present(base[b]) \ Present(bundle[b]) ELSE {}

\* ... and writes it back with the new sync_id; its answer says what to send.
StateWrite(b) ==
  /\ pc[b] = "answer"
  /\ digest' = seen[b]
  /\ current' = sync[b]
  /\ IF seen[b] = bundle[b]
     THEN pc' = [pc EXCEPT ![b] = "manifest"] /\ UNCHANGED work
     ELSE /\ pc' = [pc EXCEPT ![b] = "upload"]
          /\ todo' = [todo EXCEPT ![b] = Selected(b)]
          /\ gone' = [gone EXCEPT ![b] = Removed(b)]
  /\ UNCHANGED <<content, manifest, hosted, tag, sync, local, seen, edits, aborts>>

\* saveStoryChunk(): INSERT ... ON CONFLICT DO UPDATE, under the sync's id.
Upload(b) ==
  /\ pc[b] = "upload"
  /\ \E k \in todo[b] :
       /\ hosted' = [hosted EXCEPT ![k] = bundle[b][k]]
       /\ tag' = [tag EXCEPT ![k] = sync[b]]
       /\ todo' = [todo EXCEPT ![b] = @ \ {k}]
  /\ UNCHANGED <<content, manifest, digest, current, pc, sync, local, seen, gone,
                 edits, aborts>>

\* Deletions follow the rows; only a delta has them.
Delete(b) ==
  /\ pc[b] = "upload" /\ todo[b] = {}
  /\ \E k \in gone[b] :
       /\ hosted' = [hosted EXCEPT ![k] = Absent]
       /\ tag' = [tag EXCEPT ![k] = None]
       /\ gone' = [gone EXCEPT ![b] = @ \ {k}]
  /\ UNCHANGED <<content, manifest, digest, current, pc, sync, local, seen, todo,
                 edits, aborts>>

Sent(b) == pc[b] = "upload" /\ todo[b] = {} /\ gone[b] = {}

\* The rows the completing call counts.
Counted(b) ==
  {k \in Present(hosted) : Delta(b) \/ tag[k] = sync[b]}

Complete(b) == Cardinality(Counted(b)) = Cardinality(Present(bundle[b]))

\* completeProjectionSync() counts ...
Count(b) ==
  /\ Sent(b) /\ Complete(b)
  /\ pc' = [pc EXCEPT ![b] = "publish"]
  /\ UNCHANGED <<content, manifest, server, sync, local, seen, work, edits, aborts>>

\* ... or answers 409, and sync_once() raises.
Incomplete(b) ==
  /\ Sent(b) /\ ~Complete(b)
  /\ Rest(b)
  /\ UNCHANGED <<content, manifest, server, edits, aborts>>

\* Mutant of Publish: rows of earlier syncs survive a full upload.
PublishKeeping(b) ==
  /\ pc[b] = "publish"
  /\ digest' = IF current = sync[b] THEN bundle[b] ELSE digest
  /\ pc' = [pc EXCEPT ![b] = "manifest"]
  /\ UNCHANGED <<content, manifest, hosted, tag, current, sync, local, seen, work,
                 edits, aborts>>

\* One batch: a full sync deletes the rows of other syncs; the digest is
\* published if no other state call came in between.
Publish(b) ==
  LET kept == {k \in Keys : Delta(b) \/ tag[k] = sync[b]} IN
  /\ pc[b] = "publish"
  /\ hosted' = [k \in Keys |-> IF k \in kept THEN hosted[k] ELSE Absent]
  /\ tag' = [k \in Keys |-> IF k \in kept THEN tag[k] ELSE None]
  /\ digest' = IF current = sync[b] THEN bundle[b] ELSE digest
  /\ pc' = [pc EXCEPT ![b] = "manifest"]
  /\ UNCHANGED <<content, manifest, current, sync, local, seen, work, edits, aborts>>

\* The manifest file is replaced once every projection is complete.
SaveManifest(b) ==
  /\ pc[b] = "manifest"
  /\ manifest' = bundle[b]
  /\ pc' = [pc EXCEPT ![b] = "fetch"]
  /\ UNCHANGED <<content, server, sync, local, seen, work, edits, aborts>>

\* GET /api/bridge/commands: only a sync that came this far serves the owner.
Fetch(b) ==
  /\ pc[b] = "fetch"
  /\ Rest(b)
  /\ UNCHANGED <<content, manifest, server, edits, aborts>>

Step(b) ==
  \/ Begin(b) \/ StateRead(b) \/ StateWrite(b) \/ Upload(b) \/ Delete(b)
  \/ Count(b) \/ Incomplete(b) \/ Publish(b) \/ SaveManifest(b) \/ Fetch(b)

Next == Edit \/ LoseManifest \/ \E b \in Bridges : Abort(b) \/ Step(b)

Spec == Init /\ [][Next]_vars

\* run_forever() polls for ever, and failures are bounded by MaxAborts.
FairSpec == Spec /\ \A b \in Bridges : WF_vars(Step(b))

-----------------------------------------------------------------------------
Idle == \A b \in Bridges : pc[b] = "idle"

\* As long as no upload was abandoned, the hosted rows are, between syncs, the
\* content whose digest is published.  (hosted-dashboard/lib/dashboard/store.ts:187)
HostedFaithful == aborts = 0 /\ Idle /\ digest # None => hosted = digest

\* A full upload that publishes its digest leaves exactly its content, whatever
\* uploads were abandoned before it and whatever rows they left behind.
\* (hosted-dashboard/lib/dashboard/store.ts:187)
ExactIfFull ==
  \A b \in Bridges :
    Publish(b) /\ ~Delta(b) /\ current = sync[b] => hosted' = bundle[b]

FullSyncExact == [][ExactIfFull]_vars

\* A delta is only sent on top of what the server publishes at that moment, even
\* if the answer to the last completing call was lost.
DeltaOnPublished ==
  \A b \in Bridges : pc[b] = "upload" /\ Delta(b) => base[b] = digest

\* What one bridge knows in the middle of a sync: the digest it was answered is
\* still published and its identifier current; its identifier is on the rows it
\* uploaded and no others; nothing is left to send when it publishes.
Sending(b) == pc[b] \in {"upload", "publish"}

SeenInv ==
  \A b \in Bridges :
    /\ pc[b] \in {"answer", "upload", "publish"} => seen[b] = digest
    /\ pc[b] \in {"upload", "publish", "manifest"} => current = sync[b]
    /\ pc[b] # "idle" => sync[b] \in SyncIds

TagInv ==
  \A b \in Bridges :
    /\ pc[b] \in {"state", "answer"} => \A k \in Keys : tag[k] # sync[b]
    /\ Sending(b) => todo[b] \subseteq Present(bundle[b])
    /\ Sending(b) => \A k \in Keys :
         /\ tag[k] = sync[b] => bundle[b][k] # Absent /\ hosted[k] = bundle[b][k]
         /\ k \in Present(bundle[b]) \ todo[b] => Delta(b) \/ tag[k] = sync[b]
    /\ Sending(b) => gone[b] \cap Present(bundle[b]) = {}
    /\ Sending(b) /\ ~Delta(b) => gone[b] = {}
    /\ pc[b] = "publish" => todo[b] = {} /\ gone[b] = {}

SyncInv == SeenInv /\ TagInv

\* Before the first failure the hosted rows are always accounted for: between
\* uploads they are the published content, during a delta each row is the old one
\* if it is still to be sent or deleted, else the new one.
FaithInv ==
  aborts = 0 => \A b \in Bridges :
    /\ pc[b] \in {"idle", "state", "answer", "fetch"} /\ digest # None =>
         hosted = digest
    /\ pc[b] = "manifest" => digest = bundle[b] /\ hosted = bundle[b]
    /\ Sending(b) /\ Delta(b) =>
         \A k \in Keys :
           hosted[k] = IF k \in todo[b] \cup gone[b] THEN base[b][k]
                                                     ELSE bundle[b][k]

\* What a delta has already dealt with is in place, whatever broke before: only
\* rows that the manifest and the bundle agree on can be wrong.
DeltaInv ==
  \A b \in Bridges : Sending(b) /\ Delta(b) =>
    \A k \in Keys \ (todo[b] \cup gone[b]) :
      bundle[b][k] # base[b][k] => hosted[k] = bundle[b][k]

\* What the one bridge transfers, as its owner sees it: nothing any more once it
\* has published, or found nothing to publish.
Agent == CHOOSE b \in Bridges : TRUE

Transfer ==
  IF pc[Agent] \in {"state", "answer", "upload", "publish"} THEN bundle[Agent]
                                                           ELSE None

Copy == INSTANCE Mirror
          WITH read <- Transfer, published <- digest, shown <- hosted,
               broken <- aborts > 0

\* One bridge's calls, identifiers, manifests and deltas amount to transfers that
\* publish what they read, all of it as long as nothing broke, and after a break
\* all but rows the content published before has in common with it
\* (hosted_bridge.py:920-1050, hosted-dashboard/lib/dashboard/store.ts:187).
KeepsMirror == Copy!Spec

\* Without failures the hosted copy becomes the local content once that stays,
\* and stays it (hosted_bridge.py:920-1050).
CatchesUp == [](aborts = 0) => <>[](hosted = content /\ digest = content)

\* The bridge reaches the owner's commands again and again: the next poll after
\* a failed upload starts over and succeeds.
\* (hosted-dashboard/lib/dashboard/store.ts:188)
KeepsServing == \A b \in Bridges : []<>(pc[b] = "fetch")
=============================================================================
