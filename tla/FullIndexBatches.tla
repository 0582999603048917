-------------------------- MODULE FullIndexBatches --------------------------
(***************************************************************************)
(* One full-index operation of the index orchestrator over an unchanged    *)
(* set of files: the batch loop, its checkpoints, the stores it writes and *)
(* the publication at its end, across failures, crashes and resumed runs.  *)
(* Generations models the epochs beside it and abstracts this loop to one  *)
(* step per file; OperationGate decides when a run may start.              *)
(*                                                                         *)
(* A file has one entity and one chunk for each of the two stages that     *)
(* store chunks.  A stage writes its chunks in units; a unit whose marker  *)
(* was committed is skipped by a later run.  Every transaction and every   *)
(* call of an external store is one step, and the process may crash        *)
(* between any two.                                                        *)
(***************************************************************************)
EXTENDS Naturals, FiniteSets, FiniteSetsExt

CONSTANTS
    NumFiles,       \* files of the scan, numbered in the order of their paths
    BatchSize,      \* scan_batch_size
    UnitSize,       \* UnitSize[s]: chunks of a work unit of stage s
    WriteBatch,     \* VECTOR_WRITE_BATCH: buffered points that force a write
    Bad,            \* files that cannot be indexed (permanent failures)
    ChunkId,        \* ChunkId[f]: the identity of f's chunk in the stores, which
                    \* two files can share: each is parsed by a clone of the file
                    \* processor, whose counter of entity ids starts again at 0
    Path,           \* Path[f]: FileEntry::path
    RelativePath,   \* RelativePath[f]: FileEntry::relative_path, ParsedFile::path
    MaxFaults, MaxCrashes

Files == 1 .. NumFiles
Stages == {"embedding", "bm25"}
Ids == {ChunkId[f] : f \in Files}

ASSUME BatchAssumption ==
    /\ NumFiles \in Nat /\ BatchSize \in Nat \ {0} /\ WriteBatch \in Nat \ {0}
    /\ UnitSize \in [Stages -> Nat \ {0}]
    /\ Bad \subseteq Files
    /\ DOMAIN ChunkId = Files /\ DOMAIN Path = Files /\ DOMAIN RelativePath = Files
    /\ MaxFaults \in Nat /\ MaxCrashes \in Nat

VARIABLES
    ck,         \* checkpoint row: status and current_batch_index
    records,    \* file checkpoints of the operation, by the path recorded
    units,      \* units[s]: hashes of the work units marked Committed
    rows,       \* files with entity rows in the target epoch
    links,      \* links[s]: files whose entity_detail_mappings name their chunk
    stored,     \* stored[s][i]: the file whose content the store holds under id i
    snapshot,   \* relation snapshot of the operation: the files it was built from
    manifest,   \* state of the operation's project_index_manifests row
    hashed,     \* change-detector hashes published
    run,        \* the execution in flight
    rewritten,  \* history: files whose entity rows were written a second time
    faults, crashes

checkpointVars == <<ck, records, units>>
storeVars == <<rows, links, stored, rewritten>>
publishVars == <<snapshot, manifest, hashed>>
boundVars == <<faults, crashes>>
vars == <<checkpointVars, storeVars, publishVars, run, boundVars>>

NoFile == 0
NoSnapshot == {NoFile}

Idle == [pc |-> "idle", batch |-> 0, waiting |-> {}, ok |-> {}, failed |-> FALSE,
         broken |-> FALSE, complete |-> TRUE, spool |-> {}, todo |-> {}, unit |-> {},
         deferred |-> {}, retry |-> FALSE, left |-> FALSE, buffered |-> {}, done |-> {}]

BatchInit ==
    /\ ck = [status |-> "none", boundary |-> 0]
    /\ records = {}
    /\ units = [s \in Stages |-> {}]
    /\ rows = {}
    /\ links = [s \in Stages |-> {}]
    /\ stored = [s \in Stages |-> [i \in Ids |-> NoFile]]
    /\ snapshot = NoSnapshot
    /\ manifest = "none"
    /\ hashed = FALSE
    /\ run = Idle
    /\ rewritten = {}
    /\ faults = 0
    /\ crashes = 0

-----------------------------------------------------------------------------
(* Batches, work units *)

\* total_batches, get_batch
TotalBatches == (NumFiles + BatchSize - 1) \div BatchSize
Batch(b) == {f \in Files : (f - 1) \div BatchSize = b}

\* The chunks of the files S in their order, cut into units of stage s.
Rank(f, S) == Cardinality({g \in S : g < f})
Units(S, s) ==
    {{g \in S : Rank(g, S) \div UnitSize[s] = Rank(f, S) \div UnitSize[s]} : f \in S}

\* compute_work_unit_hash: a hash of the sorted chunk ids.
UnitHash(u) == [i \in Ids |-> Cardinality({f \in u : ChunkId[f] = i})]
Uncommitted(S, s) == {u \in Units(S, s) : UnitHash(u) \notin units[s]}

\* Files are written in order: of two with one id the later one stays.
Upsert(s, S) ==
    stored' = [stored EXCEPT ![s] =
        [i \in Ids |-> IF \E f \in S : ChunkId[f] = i
                       THEN Max({f \in S : ChunkId[f] = i})
                       ELSE stored[s][i]]]

\* The unit whose chunks come first.
FirstUnit == CHOOSE u \in run.todo : \A v \in run.todo : Min(u) <= Min(v)

Fault == faults < MaxFaults /\ faults' = faults + 1 /\ UNCHANGED crashes
NoFault == UNCHANGED boundVars

-----------------------------------------------------------------------------
(* Starting a run: a fresh operation or the resumption of this one *)

\* Mutant: the boundary is believed.
ValidatedBlindly(boundary) == boundary

\* validate_recovered_hashes: the first batch before the boundary with a file
\* that has no checkpoint under the path it is looked up by.
Validated(boundary) ==
    LET unknown == {b \in 0 .. boundary - 1 : \E f \in Batch(b) : Path[f] \notin records}
    IN  IF unknown = {} THEN boundary ELSE Min(unknown)

\* begin_project_manifest: an active row stays, any other becomes building.
Building == IF manifest = "active" THEN "active" ELSE "building"
Failed == IF manifest = "building" THEN "failed" ELSE manifest

\* execute up to the batch loop.  A scan that skipped a path with an error keeps
\* the run from completing.
Execute ==
    /\ run.pc = "idle"
    /\ ck.status /= "completed"
    /\ ck' = [ck EXCEPT !.status = "in_progress"]
    /\ manifest' = Building
    /\ LET start == Validated(ck.boundary)
           begun == [Idle EXCEPT !.pc = "batch", !.batch = start,
                                 !.spool = UNION {Batch(b) : b \in 0 .. start - 1}]
       IN  \/ run' = begun /\ NoFault
           \/ run' = [begun EXCEPT !.complete = FALSE] /\ Fault
    /\ UNCHANGED <<records, units, storeVars, snapshot, hashed>>

\* ensure_file_records fails: the manifest is marked failed and execute returns.
ExecuteFails ==
    /\ run.pc = "idle"
    /\ ck.status /= "completed"
    /\ Fault
    /\ ck' = [ck EXCEPT !.status = "in_progress"]
    /\ manifest' = IF Building = "building" THEN "failed" ELSE manifest
    /\ UNCHANGED <<records, units, storeVars, snapshot, hashed, run>>

-----------------------------------------------------------------------------
(* A batch: parsing its files *)

BeginBatch ==
    /\ run.pc = "batch"
    /\ run.batch < TotalBatches
    /\ run' = [run EXCEPT !.pc = "parse", !.waiting = Batch(run.batch), !.ok = {},
                          !.failed = FALSE, !.broken = FALSE]
    /\ NoFault
    /\ UNCHANGED <<checkpointVars, storeVars, publishVars>>

BatchesDone ==
    /\ run.pc = "batch"
    /\ run.batch = TotalBatches
    /\ run' = [run EXCEPT !.pc = "relations"]
    /\ NoFault
    /\ UNCHANGED <<checkpointVars, storeVars, publishVars>>

\* The batch checkpoint cannot be created or the file checkpoints not be read.
BeginBatchFails ==
    /\ run.pc = "batch"
    /\ run.batch < TotalBatches
    /\ Fault
    /\ run' = [run EXCEPT !.pc = "relations", !.complete = FALSE]
    /\ UNCHANGED <<checkpointVars, storeVars, publishVars>>

\* The tasks of a batch end in any order; one that succeeds has recorded its file.
FileProcessed(f) ==
    /\ run.pc = "parse"
    /\ f \in run.waiting \ Bad
    /\ records' = records \cup {RelativePath[f]}
    /\ run' = [run EXCEPT !.waiting = @ \ {f}, !.ok = @ \cup {f}]
    /\ NoFault
    /\ UNCHANGED <<ck, units, storeVars, publishVars>>

FileSkipped(f) ==
    /\ run.pc = "parse"
    /\ f \in run.waiting \cap Bad
    /\ run' = [run EXCEPT !.waiting = @ \ {f}]
    /\ NoFault
    /\ UNCHANGED <<checkpointVars, storeVars, publishVars>>

\* A transient failure: of reading, parsing, or recording the checkpoint.
FileFails(f) ==
    /\ run.pc = "parse"
    /\ f \in run.waiting \ Bad
    /\ Fault
    /\ run' = [run EXCEPT !.waiting = @ \ {f}, !.failed = TRUE]
    /\ UNCHANGED <<checkpointVars, storeVars, publishVars>>

\* The parsed files go to the relation spool.
Collect ==
    /\ run.pc = "parse"
    /\ run.waiting = {}
    /\ run' = [run EXCEPT !.pc = IF run.ok = {} THEN "classify" ELSE "entities",
                          !.spool = @ \cup run.ok]
    /\ NoFault
    /\ UNCHANGED <<checkpointVars, storeVars, publishVars>>

\* store_parsed_files: the entities of each file are deleted and inserted again,
\* and their entity_detail_mappings go with the deleted rows (ON DELETE CASCADE).
StoreEntities ==
    /\ run.pc = "entities"
    /\ rows' = rows \cup run.ok
    /\ links' = [s \in Stages |-> links[s] \ run.ok]
    /\ rewritten' = rewritten \cup (run.ok \cap rows)
    /\ run' = [run EXCEPT !.pc = "embed", !.todo = Uncommitted(run.ok, "embedding"),
                          !.deferred = {}, !.retry = FALSE, !.left = FALSE,
                          !.buffered = {}, !.done = {}]
    /\ NoFault
    /\ UNCHANGED <<checkpointVars, stored, publishVars>>

\* Mutant: the derived writes follow although the entities were not stored.
StoreEntitiesFailsOn ==
    /\ run.pc = "entities"
    /\ Fault
    /\ run' = [run EXCEPT !.pc = "embed", !.broken = TRUE,
                          !.todo = Uncommitted(run.ok, "embedding")]
    /\ UNCHANGED <<checkpointVars, storeVars, publishVars>>

StoreEntitiesFails ==
    /\ run.pc = "entities"
    /\ Fault
    /\ run' = [run EXCEPT !.pc = "classify", !.broken = TRUE]
    /\ UNCHANGED <<checkpointVars, storeVars, publishVars>>

-----------------------------------------------------------------------------
(* A batch: its vectors *)

\* The embeddings of a unit arrive and its points enter the writer's buffer, which
\* is written out when it is full.
PushPoints ==
    /\ run.pc = "embed"
    /\ run.todo /= {}
    /\ LET buffer == run.buffered \cup FirstUnit
           full == Cardinality(buffer) >= WriteBatch
       IN  /\ IF full THEN Upsert("embedding", buffer) ELSE UNCHANGED stored
           /\ run' = [run EXCEPT !.pc = "link", !.unit = FirstUnit, !.todo = @ \ {FirstUnit},
                                 !.buffered = IF full THEN {} ELSE buffer]
    /\ NoFault
    /\ UNCHANGED <<checkpointVars, rows, links, rewritten, publishVars>>

\* Mutant: the unit is marked Committed while its points may be buffered.
LinkPointsCommitting ==
    /\ run.pc = "link"
    /\ links' = [links EXCEPT !["embedding"] = @ \cup run.unit]
    /\ units' = [units EXCEPT !["embedding"] = @ \cup {UnitHash(run.unit)}]
    /\ run' = [run EXCEPT !.pc = "embed", !.unit = {}]
    /\ NoFault
    /\ UNCHANGED <<ck, records, rows, stored, rewritten, publishVars>>

\* store_chunks_and_mappings
LinkPoints ==
    /\ run.pc = "link"
    /\ links' = [links EXCEPT !["embedding"] = @ \cup run.unit]
    /\ run' = [run EXCEPT !.pc = "embed", !.done = @ \cup {run.unit}, !.unit = {}]
    /\ NoFault
    /\ UNCHANGED <<checkpointVars, rows, stored, rewritten, publishVars>>

\* A rate limit or a server error: the unit is tried once more after the others,
\* and is left uncommitted when it fails again.
UnitRejected ==
    /\ run.pc = "embed"
    /\ run.todo /= {}
    /\ Fault
    /\ run' = [run EXCEPT !.todo = @ \ {FirstUnit},
                          !.deferred = IF run.retry THEN @ ELSE @ \cup {FirstUnit},
                          !.left = run.retry \/ @]
    /\ UNCHANGED <<checkpointVars, storeVars, publishVars>>

RetryDeferred ==
    /\ run.pc = "embed"
    /\ run.todo = {}
    /\ run.deferred /= {}
    /\ run' = [run EXCEPT !.todo = run.deferred, !.deferred = {}, !.retry = TRUE]
    /\ NoFault
    /\ UNCHANGED <<checkpointVars, storeVars, publishVars>>

FlushPoints ==
    /\ run.pc = "embed"
    /\ run.todo = {} /\ run.deferred = {}
    /\ Upsert("embedding", run.buffered)
    /\ run' = [run EXCEPT !.pc = "commit", !.buffered = {}]
    /\ NoFault
    /\ UNCHANGED <<checkpointVars, rows, links, rewritten, publishVars>>

\* The markers of the units written; failing to write them is only a warning.
CommitUnits ==
    /\ run.pc = "commit"
    /\ \/ /\ units' = [units EXCEPT !["embedding"] = @ \cup {UnitHash(u) : u \in run.done}]
          /\ NoFault
       \/ Fault /\ UNCHANGED units
    /\ run' = [run EXCEPT !.pc = "bm25", !.broken = run.left, !.done = {}]
    /\ UNCHANGED <<ck, records, storeVars, publishVars>>

\* Any other error of the stage, or its deadline: what is buffered is lost.
EmbeddingFails ==
    /\ run.pc \in {"embed", "link", "commit"}
    /\ Fault
    /\ run' = [run EXCEPT !.pc = "bm25", !.broken = TRUE, !.todo = {}, !.unit = {},
                          !.deferred = {}, !.buffered = {}, !.done = {}]
    /\ UNCHANGED <<checkpointVars, storeVars, publishVars>>

-----------------------------------------------------------------------------
(* A batch: its BM25 documents, all uncommitted units in one commit *)

IndexDocuments ==
    /\ run.pc = "bm25"
    /\ LET pending == Uncommitted(run.ok, "bm25")
       IN  /\ Upsert("bm25", UNION pending)
           /\ run' = [run EXCEPT !.pc = "linkdocs", !.done = pending]
    /\ NoFault
    /\ UNCHANGED <<checkpointVars, rows, links, rewritten, publishVars>>

LinkDocuments ==
    /\ run.pc = "linkdocs"
    /\ links' = [links EXCEPT !["bm25"] = @ \cup UNION run.done]
    /\ run' = [run EXCEPT !.pc = "commitdocs"]
    /\ NoFault
    /\ UNCHANGED <<checkpointVars, rows, stored, rewritten, publishVars>>

CommitDocuments ==
    /\ run.pc = "commitdocs"
    /\ \/ /\ units' = [units EXCEPT !["bm25"] = @ \cup {UnitHash(u) : u \in run.done}]
          /\ NoFault
       \/ Fault /\ UNCHANGED units
    /\ run' = [run EXCEPT !.pc = "classify", !.done = {}]
    /\ UNCHANGED <<ck, records, storeVars, publishVars>>

DocumentsFail ==
    /\ run.pc \in {"bm25", "linkdocs"}
    /\ Fault
    /\ run' = [run EXCEPT !.pc = "classify", !.broken = TRUE, !.done = {}]
    /\ UNCHANGED <<checkpointVars, storeVars, publishVars>>

-----------------------------------------------------------------------------
(* A batch: what follows from its outcome *)

\* Stop: a storage failure ends the loop.
StopBatches ==
    /\ run.pc = "classify"
    /\ run.broken
    /\ run' = [run EXCEPT !.pc = "relations", !.complete = FALSE]
    /\ NoFault
    /\ UNCHANGED <<checkpointVars, storeVars, publishVars>>

\* Mutant: a failed file does not keep the run from completing.
ContinueBatchesComplete ==
    /\ run.pc = "classify"
    /\ ~run.broken
    /\ run.failed
    /\ run' = [run EXCEPT !.pc = "batch", !.batch = @ + 1]
    /\ NoFault
    /\ UNCHANGED <<checkpointVars, storeVars, publishVars>>

\* Continue: a failed file keeps the boundary where it is.
ContinueBatches ==
    /\ run.pc = "classify"
    /\ ~run.broken
    /\ run.failed
    /\ run' = [run EXCEPT !.pc = "batch", !.batch = @ + 1, !.complete = FALSE]
    /\ NoFault
    /\ UNCHANGED <<checkpointVars, storeVars, publishVars>>

\* Proceed: update_current_batch_index.
AdvanceBoundary ==
    /\ run.pc = "classify"
    /\ ~run.broken
    /\ ~run.failed
    /\ ck' = [ck EXCEPT !.boundary = run.batch + 1]
    /\ run' = [run EXCEPT !.pc = "batch", !.batch = @ + 1]
    /\ NoFault
    /\ UNCHANGED <<records, units, storeVars, publishVars>>

AdvanceBoundaryFails ==
    /\ run.pc = "classify"
    /\ ~run.broken
    /\ ~run.failed
    /\ Fault
    /\ run' = [run EXCEPT !.pc = "relations", !.complete = FALSE]
    /\ UNCHANGED <<checkpointVars, storeVars, publishVars>>

-----------------------------------------------------------------------------
(* Relations, publication, completion *)

\* Mutant: relations are built from the files of an incomplete run as well.
PublishRelationsAlways ==
    /\ run.pc = "relations"
    /\ IF snapshot \in {NoSnapshot, run.spool}
       THEN snapshot' = run.spool /\ run' = [run EXCEPT !.pc = "finalize"]
       ELSE UNCHANGED snapshot /\ run' = [run EXCEPT !.pc = "finalize", !.complete = FALSE]
    /\ NoFault
    /\ UNCHANGED <<checkpointVars, storeVars, manifest, hashed>>

\* build_and_publish_relations, in a run whose batches all completed.  The
\* snapshot of an operation is written once; another one under the same
\* operation is an error (allocate_and_write).
PublishRelations ==
    /\ run.pc = "relations"
    /\ IF run.complete /\ snapshot \in {NoSnapshot, run.spool}
       THEN snapshot' = run.spool /\ run' = [run EXCEPT !.pc = "finalize"]
       ELSE UNCHANGED snapshot /\ run' = [run EXCEPT !.pc = "finalize", !.complete = FALSE]
    /\ NoFault
    /\ UNCHANGED <<checkpointVars, storeVars, manifest, hashed>>

RelationsFail ==
    /\ run.pc = "relations"
    /\ run.complete
    /\ Fault
    /\ run' = [run EXCEPT !.pc = "finalize", !.complete = FALSE]
    /\ UNCHANGED <<checkpointVars, storeVars, publishVars>>

\* finalize_manifest: a complete run publishes its generation, any other marks
\* the manifest failed and leaves the checkpoint in progress.
ActivateManifest ==
    /\ run.pc = "finalize"
    /\ run.complete
    /\ manifest' = "active"
    /\ run' = [run EXCEPT !.pc = "hashes"]
    /\ NoFault
    /\ UNCHANGED <<checkpointVars, storeVars, snapshot, hashed>>

ActivationFails ==
    /\ run.pc = "finalize"
    /\ run.complete
    /\ Fault
    /\ manifest' = Failed
    /\ run' = Idle
    /\ UNCHANGED <<checkpointVars, storeVars, snapshot, hashed>>

LeaveIncomplete ==
    /\ run.pc = "finalize"
    /\ ~run.complete
    /\ manifest' = Failed
    /\ run' = Idle
    /\ NoFault
    /\ UNCHANGED <<checkpointVars, storeVars, snapshot, hashed>>

\* publish_file_hashes; mark_failed does not touch an active manifest.
PublishHashes ==
    /\ run.pc = "hashes"
    /\ hashed' = TRUE
    /\ run' = [run EXCEPT !.pc = "complete"]
    /\ NoFault
    /\ UNCHANGED <<checkpointVars, storeVars, snapshot, manifest>>

\* mark_operation_completed
Complete ==
    /\ run.pc = "complete"
    /\ ck' = [ck EXCEPT !.status = "completed"]
    /\ run' = Idle
    /\ NoFault
    /\ UNCHANGED <<records, units, storeVars, publishVars>>

\* Where an error leaves the checkpoint in progress and everything else alone:
\* errors that execute returns before, between and after the batches, and after
\* publication a failure of the hashes, the collection or the completion.
RunFails ==
    /\ run.pc \in {"batch", "parse", "relations", "hashes", "complete"}
    /\ run.waiting = {}
    /\ run.pc = "relations" => run.complete
    /\ Fault
    /\ run' = Idle
    /\ UNCHANGED <<checkpointVars, storeVars, publishVars>>

Crash ==
    /\ run.pc /= "idle"
    /\ crashes < MaxCrashes
    /\ crashes' = crashes + 1
    /\ run' = Idle
    /\ UNCHANGED <<checkpointVars, storeVars, publishVars, faults>>

-----------------------------------------------------------------------------

BatchStep ==
    \/ BeginBatch \/ BatchesDone \/ Collect \/ StoreEntities
    \/ \E f \in Files : FileProcessed(f) \/ FileSkipped(f)
    \/ PushPoints \/ LinkPoints \/ RetryDeferred \/ FlushPoints \/ CommitUnits
    \/ IndexDocuments \/ LinkDocuments \/ CommitDocuments
    \/ StopBatches \/ ContinueBatches \/ AdvanceBoundary

FinalStep ==
    \/ PublishRelations \/ ActivateManifest \/ LeaveIncomplete
    \/ PublishHashes \/ Complete

FaultStep ==
    \/ ExecuteFails \/ BeginBatchFails \/ StoreEntitiesFails
    \/ \E f \in Files : FileFails(f)
    \/ UnitRejected \/ EmbeddingFails \/ DocumentsFail
    \/ AdvanceBoundaryFails \/ RelationsFail \/ ActivationFails \/ RunFails \/ Crash

BatchNext == Execute \/ BatchStep \/ FinalStep \/ FaultStep

BatchSpec == BatchInit /\ [][BatchNext]_vars

\* A run in flight goes on, and an operation left in progress is taken up again:
\* by the recovery at the next start or by the next request for a full index.
FairBatchSpec ==
    BatchSpec /\ WF_vars(Execute) /\ WF_vars(BatchStep) /\ WF_vars(FinalStep)

-----------------------------------------------------------------------------
(* Properties *)

\* Type correctness; besides, a link is only kept with the entity rows it belongs to
\* (the foreign key), and the boundary never passes the last batch.
BatchTypeOK ==
    /\ ck \in [status : {"none", "in_progress", "completed"}, boundary : 0 .. TotalBatches]
    /\ records \subseteq {RelativePath[f] : f \in Files}
    /\ \A s \in Stages :
        /\ units[s] \subseteq {UnitHash(u) : u \in SUBSET Files}
        /\ links[s] \subseteq rows
        /\ stored[s] \in [Ids -> Files \cup {NoFile}]
    /\ rows \subseteq Files /\ rewritten \subseteq rows
    /\ snapshot \subseteq Files \cup {NoFile}
    /\ manifest \in {"none", "building", "active", "failed"}
    /\ hashed \in BOOLEAN
    /\ run.batch \in 0 .. TotalBatches
    /\ run.waiting \cup run.ok \cup run.spool \cup run.buffered \cup run.unit \subseteq Files
    /\ run.todo \cup run.deferred \cup run.done \subseteq SUBSET Files

Committed(f, s) == \E h \in units[s] : h[ChunkId[f]] > 0

\* The files whose chunk has the id of f's.
Twins(f) == {g \in Files : ChunkId[g] = ChunkId[f]}

\* Whatever failed or crashed on the way, a published generation holds every file
\* that can be indexed: its entity, and under the id of its chunk a vector and a
\* BM25 document that are its own or, where ids are shared, those of a file with
\* the same id.  The link from the entity is there, unless a unit that counts for
\* it was committed and therefore skipped: by an earlier run, when the resumed run
\* wrote the entity again and the links went with the rows, or for a file with the
\* same id; or unless the run that rewrote the entity is not through with it.
PublishedComplete ==
    manifest = "active" =>
        \A f \in Files \ Bad :
            /\ f \in rows
            /\ \A s \in Stages :
                /\ stored[s][ChunkId[f]] \in Twins(f)
                /\ \/ f \in links[s]
                   \/ /\ f \in rewritten \/ Twins(f) # {f}
                      /\ Committed(f, s) \/ ck.status = "in_progress"

\* "the globally unique Qdrant point ID used for a project chunk" (mapping.rs:160):
\* a published generation holds the chunk of every file that can be indexed.  The
\* ids of two files' chunks may be the same, and the later write replaces the other.
EveryChunkStored ==
    manifest = "active" =>
        \A f \in Files \ Bad, s \in Stages : stored[s][ChunkId[f]] = f

\* "a batch is marked Committed only once its data is durable" (vector.rs:314):
\* what a later run skips is in the store.
CommittedDurable ==
    \A s \in Stages, f \in Files :
        Committed(f, s) => stored[s][ChunkId[f]] /= NoFile

\* The relation graph a generation is published with was built from every file,
\* "the completed portion of a resumed operation must take part in the final
\* graph" (orchestrator.rs:638): a resumed run reloads what it does not parse.
RelationsComplete == [][manifest' = "active" => snapshot' = Files \ Bad]_vars

\* A full index that is taken up again is completed in the end, with its
\* generation and its hashes published, wherever it was interrupted.
FullIndexCompletes ==
    ck.status = "in_progress" ~> ck.status = "completed" /\ manifest = "active" /\ hashed

=============================================================================
