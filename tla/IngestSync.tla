------------------------------ MODULE IngestSync ------------------------------
(* The gateway and the ingest entries of the server.  The gateway scans a local *)
(* directory and pushes it to the server's mirror of the project: by a full     *)
(* pass (manifest, missing chunks in batches, commit) when it starts and when   *)
(* much has changed, by change events otherwise.  It remembers in a baseline    *)
(* what it pushed last.  The server keeps received chunks per manifest version, *)
(* so that an interrupted pass is resumed, and indexes its mirror with the      *)
(* hot-update runtime (WatchPipeline, Generations).                             *)
(*                                                                              *)
(* The gateway is sequential and every request is one step; local files change  *)
(* between any two steps.  A request may fail in part, its answer may be lost,  *)
(* and the gateway may crash.                                                   *)
EXTENDS Integers, FiniteSets, Sequences, SequencesExt

CONSTANTS Files, None,
          Contents,           \* what a file may hold: sequences of chunks
          FirstDisk,          \* the local directory at first
          BatchChunks,        \* chunks in a batch
          FullSyncThreshold,  \* more events than this become a full pass
          MaxEdits, MaxFaults, MaxCrashes

ASSUME IngestAssumption ==
  /\ None \notin Contents /\ \A c \in Contents : c \in Seq(ToSet(c)) /\ Len(c) > 0
  /\ FirstDisk \in [Files -> Contents \cup {None}]
  /\ BatchChunks \in Nat \ {0} /\ FullSyncThreshold \in Nat
  /\ MaxEdits \in Nat /\ MaxFaults \in Nat /\ MaxCrashes \in Nat

VARIABLES
  disk,     \* the local files
  \* the gateway
  pc, first,  \* where it is; whether this is the pass of a start
  snap,       \* the files of the last scan
  base,       \* the baseline of the watch loop
  todo,       \* chunks the manifest asked for, not yet read
  buf,        \* chunks read and not yet sent
  bad,        \* the pass has met an error
  evs,        \* files of the event request
  \* the server
  mirror,   \* the project directory of the server
  index,    \* what the published index holds
  rec,      \* the newest row of the files table
  staged,   \* received chunks by manifest version
  pend,     \* changes of an unfinished hot update
  queue,    \* the watch-change queue
  \* history and bounds
  doubt,    \* files of which the baseline may be wrong, by one of the named causes
  edits, faults, crashes

gwVars == <<pc, first, snap, base, todo, buf, bad, evs>>
passVars == <<todo, buf, bad, evs>>
opVars == <<index, rec, pend, queue>>
countVars == <<edits, faults, crashes>>
ingestVars == <<disk, gwVars, mirror, staged, opVars, doubt, countVars>>

Snapshots == [Files -> Contents \cup {None}]
Indices == UNION {1..Len(c) : c \in Contents}
Change == [file : Files, del : BOOLEAN]

(* Type correctness of the gateway and of the server; chunks asked for, staged  *)
(* and sent are chunks of known files.                                          *)
IngestTypeOK ==
  /\ disk \in Snapshots /\ snap \in Snapshots /\ base \in Snapshots
  /\ mirror \in Snapshots /\ index \in Snapshots /\ rec \in Snapshots
  /\ pc \in {"down", "scan", "manifest", "upload", "commit", "watch", "collect", "push"}
  /\ first \in BOOLEAN /\ bad \in BOOLEAN
  /\ todo \subseteq Files \X Indices /\ evs \subseteq Files
  /\ \A i \in DOMAIN buf : buf[i].file \in Files
  /\ \A p \in staged : p.file \in Files /\ p.idx \in Indices
  /\ pend \subseteq Change /\ queue \subseteq Change /\ doubt \subseteq Files
  /\ edits \in 0..MaxEdits /\ faults \in 0..MaxFaults /\ crashes \in 0..MaxCrashes

Nothing == [f \in Files |-> None]

IngestInit ==
  /\ disk = FirstDisk
  /\ pc = "down" /\ first = TRUE /\ snap = Nothing /\ base = Nothing
  /\ todo = {} /\ buf = <<>> /\ bad = FALSE /\ evs = {}
  /\ mirror = Nothing /\ index = Nothing /\ rec = Nothing /\ staged = {}
  /\ pend = {} /\ queue = {}
  /\ doubt = {} /\ edits = 0 /\ faults = 0 /\ crashes = 0

(* A file of D stays in doubt until the server holds and shows what the         *)
(* baseline says.                                                               *)
Settle(D, mi, ix, ba) == {f \in D : ~(mi[f] = ba[f] /\ ix[f] = ba[f])}

MayFault == faults < MaxFaults /\ faults' = faults + 1 /\ UNCHANGED <<edits, crashes>>

------------------------------------------------------------------------------
(* The hot update a commit or an event request runs on the mirror m with the    *)
(* watch-change queue q.                                                        *)

FilesOf(W) == {w.file : w \in W}

(* run_operation: an unfinished operation is resumed and nothing else is done;  *)
(* else the queue is taken; else the mirror is scanned.                         *)
Served(m, q) ==
  IF pend # {} THEN pend
  ELSE IF q # {} THEN q
  ELSE {[file |-> f, del |-> m[f] = None] : f \in {f \in Files : m[f] # index[f]}}

(* A deletion is believed without looking at the mirror.                        *)
Indexed(m, W) ==
  [f \in Files |-> IF [file |-> f, del |-> TRUE] \in W THEN None
                   ELSE IF f \in FilesOf(W) THEN m[f] ELSE index[f]]

(* Rows of S are written; those of a removed file stay until they are collected. *)
Rowed(m, S) == [f \in Files |-> IF f \in S /\ m[f] # None THEN m[f] ELSE rec[f]]

LeftQueue(q) == IF pend # {} THEN q ELSE {}

OpSucceeds(m, q) ==
  /\ index' = Indexed(m, Served(m, q))
  /\ rec' = Rowed(m, {f \in Files : index'[f] # None} \cap FilesOf(Served(m, q)))
  /\ pend' = {} /\ queue' = LeftQueue(q)

(* The operation is rejected by the gate, or fails and stays resumable; rows of *)
(* its candidate may stay behind.                                               *)
OpFails(m, q) ==
  /\ UNCHANGED index
  /\ \/ queue' = q /\ UNCHANGED <<rec, pend>>
     \/ /\ pend' = Served(m, q) /\ queue' = LeftQueue(q)
        /\ \E S \in SUBSET FilesOf(Served(m, q)) : rec' = Rowed(m, S)

(* A retired generation goes, and with it the row of a removed file.            *)
CollectRow(f) ==
  /\ index[f] = None /\ rec[f] # None
  /\ rec' = [rec EXCEPT ![f] = None]
  /\ UNCHANGED <<disk, gwVars, mirror, staged, index, pend, queue, doubt, countVars>>

------------------------------------------------------------------------------
(* The full pass: sync_once.                                                    *)

Start ==
  /\ pc = "down"
  /\ pc' = "scan" /\ first' = TRUE /\ doubt' = {}
  /\ UNCHANGED <<disk, snap, base, passVars, mirror, staged, opVars, countVars>>

Scan ==
  /\ pc = "scan"
  /\ snap' = disk /\ pc' = "manifest"
  /\ UNCHANGED <<disk, first, base, passVars, mirror, staged, opVars, doubt, countVars>>

(* manifest_version_for_snapshot: a hash of identities, sizes and hashes.       *)
ManifestVersion(s) == s

(* received_chunk_indices *)
Received(f) == {p.idx : p \in {q \in staged : q.ver = ManifestVersion(snap) /\ q.file = f}}

(* The server does not ask for a file whose row has the hash of the manifest,   *)
(* or whose chunks it has received.                                             *)
Unasked(f) ==
  \/ snap[f] = None
  \/ rec[f] = snap[f]
  \/ Cardinality(Received(f)) >= Len(snap[f])

\* mutant: one chunk more than the file has
ManifestOneMore ==
  /\ pc = "manifest"
  /\ todo' = UNION {{f} \X ((1..Len(snap[f]) + 1) \ Received(f)) : f \in {f \in Files : ~Unasked(f)}}
  /\ doubt' = doubt \cup {f \in Files : Unasked(f) /\ mirror[f] # snap[f]}
  /\ pc' = "upload" /\ buf' = <<>> /\ bad' = FALSE
  /\ UNCHANGED <<disk, first, snap, base, evs, mirror, staged, opVars, countVars>>

(* handle_ingest_manifest.  Neither answer proves that the mirror holds the     *)
(* file.                                                                        *)
Manifest ==
  /\ pc = "manifest"
  /\ todo' = UNION {{f} \X ((1..Len(snap[f])) \ Received(f)) : f \in {f \in Files : ~Unasked(f)}}
  /\ doubt' = doubt \cup {f \in Files : Unasked(f) /\ mirror[f] # snap[f]}
  /\ pc' = "upload" /\ buf' = <<>> /\ bad' = FALSE
  /\ UNCHANGED <<disk, first, snap, base, evs, mirror, staged, opVars, countVars>>

(* indices.sort_unstable: the indices of I in ascending order.                  *)
Ascending(I) == [n \in 1..Cardinality(I) |-> CHOOSE i \in I : Cardinality({j \in I : j <= i}) = n]

\* mutant: the bytes that were read are not compared with the scan
OpenFileUnverified(f) ==
  /\ pc = "upload" /\ Len(buf) < BatchChunks
  /\ f \in {t[1] : t \in todo}
  /\ LET wanted == Ascending({t[2] : t \in {t \in todo : t[1] = f}})
     IN  IF disk[f] # None
         THEN /\ buf' = buf \o [i \in DOMAIN SelectSeq(wanted, LAMBDA j : j <= Len(disk[f])) |->
                          [file |-> f, idx |-> wanted[i], piece |-> disk[f][wanted[i]],
                           total |-> Len(disk[f]), hash |-> snap[f]]]
              /\ UNCHANGED bad
         ELSE bad' = TRUE /\ UNCHANGED buf
  /\ todo' = {t \in todo : t[1] # f}
  /\ UNCHANGED <<disk, pc, first, snap, base, evs, mirror, staged, opVars, doubt, countVars>>

(* upload_paths reads a file once, when its turn comes, and refuses it when it  *)
(* is no longer the file that was scanned.                                      *)
OpenFile(f) ==
  /\ pc = "upload" /\ Len(buf) < BatchChunks
  /\ f \in {t[1] : t \in todo}
  /\ LET wanted == Ascending({t[2] : t \in {t \in todo : t[1] = f}})
     IN  IF disk[f] = snap[f]
         THEN /\ buf' = buf \o [i \in DOMAIN wanted |->
                          [file |-> f, idx |-> wanted[i], piece |-> disk[f][wanted[i]],
                           total |-> Len(disk[f]), hash |-> snap[f]]]
              /\ UNCHANGED bad
         ELSE bad' = TRUE /\ UNCHANGED buf
  /\ todo' = {t \in todo : t[1] # f}
  /\ UNCHANGED <<disk, pc, first, snap, base, evs, mirror, staged, opVars, doubt, countVars>>

(* A batch is sent when it is full or nothing is left to read.                  *)
Batch == SubSeq(buf, 1, IF Len(buf) < BatchChunks THEN Len(buf) ELSE BatchChunks)
Sendable == pc = "upload" /\ buf # <<>> /\ (Len(buf) >= BatchChunks \/ todo = {})
Rest == SubSeq(buf, Len(Batch) + 1, Len(buf))

(* stage_file: the chunks go to the staging directory of the version ...        *)
Stored(S) ==
  LET new == {c \in ToSet(Batch) : c.file \in S}
      Key(c) == <<ManifestVersion(snap), c.file, c.idx>>
  IN  {p \in staged : <<p.ver, p.file, p.idx>> \notin {Key(c) : c \in new}}
        \cup {[ver |-> ManifestVersion(snap), file |-> c.file, idx |-> c.idx,
               piece |-> c.piece] : c \in new}

(* ... and once all are there, read_assembled_pieces and stage_bytes write the  *)
(* file to the mirror if it has the announced hash.                             *)
Assembled(st, c) ==
  [i \in 1..c.total |->
     LET P == {p \in st : p.ver = ManifestVersion(snap) /\ p.file = c.file /\ p.idx = i}
     IN  IF P = {} THEN None ELSE (CHOOSE p \in P : TRUE).piece]
Complete(st, c) == None \notin ToSet(Assembled(st, c))
Mirrored(st, S) ==
  [f \in Files |->
     LET C == {c \in ToSet(Batch) : c.file = f /\ f \in S /\ Assembled(st, c) = c.hash}
     IN  IF C = {} THEN mirror[f] ELSE (CHOOSE c \in C : TRUE).hash]

(* handle_ingest_batch *)
Flush ==
  /\ Sendable
  /\ staged' = Stored(Files)
  /\ mirror' = Mirrored(staged', Files)
  /\ bad' = (bad \/ \E c \in ToSet(Batch) : Complete(staged', c) /\ Assembled(staged', c) # c.hash)
  /\ buf' = Rest
  /\ UNCHANGED <<disk, pc, first, snap, base, todo, evs, opVars, doubt, countVars>>

(* The request or its answer is lost, or some files fail: they are untouched,   *)
(* or their chunks are stored and the mirror is not written.                    *)
FlushFails ==
  /\ Sendable /\ MayFault
  /\ \E stored \in SUBSET FilesOf(ToSet(Batch)) : \E done \in SUBSET stored :
       /\ staged' = Stored(stored)
       /\ mirror' = Mirrored(staged', done)
  /\ bad' = TRUE /\ buf' = Rest
  /\ UNCHANGED <<disk, pc, first, snap, base, todo, evs, opVars, doubt>>

\* mutant: the watch loop advances its baseline after a failed pass
PassFailsAdvancing ==
  /\ pc' = IF first THEN "down" ELSE "watch"
  /\ doubt' = Settle(Files, mirror, index', base)
  /\ base' = snap
  /\ UNCHANGED <<first, snap>>

(* A failed pass: at a start the process ends, in the watch loop the baseline   *)
(* is kept.  The mirror may have changed.                                       *)
PassFails ==
  /\ pc' = IF first THEN "down" ELSE "watch"
  /\ doubt' = Settle(Files, mirror, index', base)
  /\ UNCHANGED <<first, snap, base>>

UploadFails ==
  /\ pc = "upload" /\ todo = {} /\ buf = <<>> /\ bad
  /\ UNCHANGED <<disk, passVars, mirror, staged, opVars, countVars>>
  /\ PassFails

UploadDone ==
  /\ pc = "upload" /\ todo = {} /\ buf = <<>> /\ ~bad
  /\ pc' = "commit"
  /\ UNCHANGED <<disk, first, snap, base, passVars, mirror, staged, opVars, doubt, countVars>>

(* The manifest or the commit request fails before it has an effect.            *)
RequestFails ==
  /\ pc \in {"manifest", "commit"} /\ MayFault
  /\ UNCHANGED <<disk, passVars, mirror, staged, opVars>>
  /\ PassFails

(* The pass is complete for the gateway; D is what the commit did not look at.  *)
PassDone(D) ==
  /\ pc' = "watch" /\ base' = snap /\ first' = FALSE
  /\ doubt' = Settle(doubt \cup D, mirror, index', snap)
  /\ UNCHANGED <<disk, snap, passVars, mirror>>

(* handle_ingest_commit.  The first commit runs a full index, a later one a     *)
(* hot update; both clear the staging area.                                     *)
Unindexed == index = Nothing
FullSucceeds ==
  /\ index' = mirror /\ rec' = Rowed(mirror, Files)
  /\ UNCHANGED <<pend, queue>>
FullFails ==
  /\ \E S \in SUBSET Files : rec' = Rowed(mirror, S)
  /\ UNCHANGED <<index, pend, queue>>
CommitRuns == IF Unindexed THEN FullSucceeds ELSE OpSucceeds(mirror, queue)
CommitBreaks == IF Unindexed THEN FullFails ELSE OpFails(mirror, queue)

Commit ==
  /\ pc = "commit"
  /\ CommitRuns
  /\ PassDone(IF ~Unindexed /\ (pend # {} \/ queue # {}) THEN Files ELSE {})
  /\ staged' = {}
  /\ UNCHANGED countVars

(* No coordinator can be built: a full index takes the place of the update.     *)
CommitFallsBack ==
  /\ pc = "commit" /\ ~Unindexed /\ MayFault
  /\ FullSucceeds
  /\ PassDone({})
  /\ staged' = {}

(* sweep_project_staging: expired versions go before the commit runs.           *)
Swept == {{p \in staged : p.ver \in K} : K \in SUBSET {p.ver : p \in staged}}

(* The commit runs, and its answer is lost; or it fails.                        *)
CommitFails ==
  /\ pc = "commit" /\ MayFault
  /\ \/ CommitRuns /\ staged' = {}
     \/ CommitBreaks /\ staged' \in Swept
  /\ PassFails
  /\ UNCHANGED <<disk, passVars, mirror>>

(* The answer says that the operation was not successful, which the gateway     *)
(* does not read.  The first commit clears the staging area even then.          *)
CommitUnsuccessful ==
  /\ pc = "commit" /\ MayFault
  /\ CommitBreaks
  /\ IF Unindexed THEN staged' = {} ELSE staged' \in Swept
  /\ PassDone(Files)

------------------------------------------------------------------------------
(* The watch loop.                                                              *)

Poll ==
  /\ pc = "watch"
  /\ snap' = disk /\ pc' = "collect"
  /\ UNCHANGED <<disk, first, base, passVars, mirror, staged, opVars, doubt, countVars>>

\* mutant: a file that exists in both counts as unchanged
ChangedPresence == {f \in Files : (snap[f] = None) # (base[f] = None)}

Changed == {f \in Files : snap[f] # base[f]}

(* read_event drops a file that is not the scanned one any more.                *)
Readable == {f \in Changed : snap[f] = None \/ disk[f] = snap[f]}

(* The files of E become events: none, too many, or one request.                *)
Collected(E) ==
  /\ pc' = IF E = {} THEN "watch"
           ELSE IF Cardinality(E) > FullSyncThreshold THEN "scan" ELSE "push"
  /\ evs' = E
  /\ base' = IF E = {} THEN snap ELSE base
  /\ doubt' = IF E = {} THEN Settle(doubt \cup Changed, mirror, index, snap) ELSE doubt
  /\ UNCHANGED <<disk, first, snap, todo, buf, bad, mirror, staged, opVars>>

Collect == pc = "collect" /\ Collected(Readable) /\ UNCHANGED countVars

(* A file cannot be read although it was scanned.                               *)
CollectFails ==
  /\ pc = "collect" /\ MayFault
  /\ \E f \in {f \in Readable : snap[f] # None} : Collected(Readable \ {f})

(* handle_ingest_event: the mirror takes the events of S and they are queued,   *)
(* the last one of a file counting.                                             *)
MirrorAfter(S) == [f \in Files |-> IF f \in S THEN snap[f] ELSE mirror[f]]
QueueAfter(S) == {w \in queue : w.file \notin S}
                   \cup {[file |-> f, del |-> snap[f] = None] : f \in S}

Push ==
  /\ pc = "push"
  /\ mirror' = MirrorAfter(evs)
  /\ OpSucceeds(mirror', QueueAfter(evs))
  /\ base' = snap /\ pc' = "watch"
  /\ doubt' = Settle(doubt \cup (Changed \ evs) \cup
                     (IF pend # {} THEN evs \cup FilesOf(pend) ELSE FilesOf(queue) \ evs),
                     mirror', index', snap)
  /\ UNCHANGED <<disk, first, snap, passVars, staged, countVars>>

(* Some events are not applied, the operation fails or is not run, or the       *)
(* answer is lost.  An answer with errors advances the baseline all the same.   *)
PushFails ==
  /\ pc = "push" /\ MayFault
  /\ \E S \in SUBSET evs :
       /\ mirror' = MirrorAfter(S)
       /\ \/ OpSucceeds(mirror', QueueAfter(S))
          \/ OpFails(mirror', QueueAfter(S))
          \/ UNCHANGED opVars
  /\ \E answered \in BOOLEAN : base' = IF answered THEN snap ELSE base
  /\ doubt' = Settle(Files, mirror', index', base')
  /\ pc' = "watch"
  /\ UNCHANGED <<disk, first, snap, passVars, staged>>

------------------------------------------------------------------------------
Edit(f) ==
  /\ edits < MaxEdits /\ edits' = edits + 1
  /\ \E c \in (Contents \cup {None}) \ {disk[f]} : disk' = [disk EXCEPT ![f] = c]
  /\ UNCHANGED <<gwVars, mirror, staged, opVars, doubt, faults, crashes>>

(* The gateway dies: the baseline is gone.                                      *)
Crash ==
  /\ crashes < MaxCrashes /\ crashes' = crashes + 1 /\ pc # "down"
  /\ pc' = "down" /\ first' = TRUE
  /\ snap' = Nothing /\ base' = Nothing /\ todo' = {} /\ buf' = <<>> /\ bad' = FALSE /\ evs' = {}
  /\ doubt' = {}
  /\ UNCHANGED <<disk, mirror, staged, opVars, edits, faults>>

GatewayStep ==
  \/ Start \/ Scan \/ Manifest \/ (\E f \in Files : OpenFile(f)) \/ Flush
  \/ UploadFails \/ UploadDone \/ Commit \/ Poll \/ Collect \/ Push

IngestFault ==
  \/ FlushFails \/ RequestFails \/ CommitFallsBack \/ CommitFails \/ CommitUnsuccessful
  \/ CollectFails \/ PushFails \/ Crash

IngestNext ==
  \/ GatewayStep \/ IngestFault
  \/ \E f \in Files : Edit(f) \/ CollectRow(f)

IngestSpec == IngestInit /\ [][IngestNext]_ingestVars

(* The gateway goes on, is restarted by its supervisor, and requests are        *)
(* answered.                                                                    *)
FairIngestSpec == IngestSpec /\ WF_ingestVars(GatewayStep)

------------------------------------------------------------------------------
(* Properties.                                                                  *)

(* upload_paths, received_chunk_indices, stage_file: the chunks a resumed pass  *)
(* finds received are those of the files its manifest describes, whatever was   *)
(* edited between scan, manifest and upload and whichever passes were cut off;  *)
(* else a resumed file could never be assembled.                                *)
PiecesAgree ==
  pc \in {"manifest", "upload"} =>
    \A p \in staged : p.ver = ManifestVersion(snap) =>
      snap[p.file] # None /\ p.idx <= Len(snap[p.file]) /\ p.piece = snap[p.file][p.idx]

(* watch_loop skips what the baseline matches, so while it waits the mirror and *)
(* the index must hold what the baseline says, of every file but those in doubt *)
(* by a named cause: skipped by the manifest although the mirror differs,       *)
(* removed before a full pass, dropped when it was read, a failed or unanswered *)
(* request, or an operation that served other changes.                          *)
BaselineKnown ==
  pc = "watch" => \A f \in Files \ doubt : mirror[f] = base[f] /\ index[f] = base[f]

(* The polls, the retries of a failed push and the pass after a restart bring   *)
(* the index to the local files, once edits and failures end, but for files in  *)
(* doubt.                                                                       *)
Converges == <>[](\A f \in Files \ doubt : index[f] = disk[f])

=============================================================================
