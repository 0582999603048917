----------------------- MODULE FullIndexBatchesProofs -----------------------
(***************************************************************************)
(* Proofs about the full index, for any number of files, any batch, unit   *)
(* and write-batch sizes and any number of failures and crashes.           *)
(*                                                                         *)
(*   BatchTyping           BatchTypeOK                                     *)
(*   CommittedIsDurable    CommittedDurable                                *)
(*   NothingTakenBack      no step loses rows, markers or stored chunks    *)
(*   RelationsAreComplete  RelationsComplete, if paths are absolute        *)
(*   PublishedIsComplete   PublishedComplete, under the same hypothesis    *)
(*                                                                         *)
(* The inductive invariant is built in layers: TypeInv, DurableInv (what   *)
(* the markers and the writer's buffer say about the stores), ParseInv     *)
(* (the files of the batch in flight), GraphInv (the relation spool and    *)
(* the snapshot), StageInv (how far a stage has come) and PublishInv (what *)
(* a complete run has indexed).                                            *)
(***************************************************************************)
EXTENDS FullIndexBatches, PositionLemmas

\* Where a run can be, and the points grouped by what the run is doing.
Points == {"idle", "batch", "parse", "entities", "embed", "link", "commit", "bm25",
           "linkdocs", "commitdocs", "classify", "relations", "finalize", "hashes",
           "complete"}
Embedding == {"embed", "link", "commit"}
Indexing == {"linkdocs", "commitdocs"}
Storing == Embedding \cup {"bm25"} \cup Indexing
InBatch == {"parse", "entities", "classify"} \cup Storing

\* The record of the run in flight.
Runs == [pc : Points, batch : 0 .. TotalBatches, waiting : SUBSET Files, ok : SUBSET Files,
         failed : BOOLEAN, broken : BOOLEAN, complete : BOOLEAN, spool : SUBSET Files,
         todo : SUBSET SUBSET Files, unit : SUBSET Files, deferred : SUBSET SUBSET Files,
         retry : BOOLEAN, left : BOOLEAN, buffered : SUBSET Files, done : SUBSET SUBSET Files]

Hashes == {UnitHash(u) : u \in SUBSET Files}

\* The types of the variables.
Typed ==
    /\ ck \in [status : {"none", "in_progress", "completed"}, boundary : 0 .. TotalBatches]
    /\ records \in SUBSET {RelativePath[f] : f \in Files}
    /\ units \in [Stages -> SUBSET Hashes]
    /\ rows \in SUBSET Files
    /\ links \in [Stages -> SUBSET Files]
    /\ stored \in [Stages -> [Ids -> Files \cup {NoFile}]]
    /\ snapshot \in SUBSET (Files \cup {NoFile})
    /\ manifest \in {"none", "building", "active", "failed"}
    /\ hashed \in BOOLEAN
    /\ run \in Runs
    /\ rewritten \in SUBSET Files

\* What the shape of the code gives besides the types: links only beside rows, a
\* checkpoint in progress while a run is in flight, units cut from the parsed files.
Shaped ==
    /\ \A s \in Stages : links[s] \subseteq rows
    /\ rewritten \subseteq rows
    /\ run.pc # "idle" => ck.status = "in_progress"
    /\ run.pc \in InBatch => run.batch < TotalBatches
    /\ run.pc \in Storing =>
        /\ run.ok \subseteq rows /\ run.buffered \subseteq run.ok
        /\ \A u \in run.todo \cup run.deferred \cup run.done : u \subseteq run.ok
        /\ {} \notin run.todo \cup run.deferred
    /\ run.pc = "link" => run.unit \subseteq run.ok

TypeInv == Typed /\ Shaped

\* The store of stage s holds something under the id of f's chunk.
Held(f, s) == stored[s][ChunkId[f]] # NoFile

\* A unit on the way to its marker is in the store or still in the writer's buffer,
\* and the buffer is empty when the markers are written.
DurableInv ==
    /\ \A s \in Stages, i \in Ids : stored[s][i] # NoFile => ChunkId[stored[s][i]] = i
    /\ CommittedDurable
    /\ run.pc \in Embedding =>
        \A f \in UNION run.done : f \in run.buffered \/ Held(f, "embedding")
    /\ run.pc = "link" =>
        \A f \in run.unit : f \in run.buffered \/ Held(f, "embedding")
    /\ run.pc = "commit" => run.buffered = {}
    /\ run.pc \in Indexing => \A f \in UNION run.done : Held(f, "bm25")

\* The files that can be indexed; what a stage has done for one of them.
Good == Files \ Bad
Redone(f, s) == (f \in rewritten \/ Twins(f) # {f}) /\ Committed(f, s)
Indexed(f, s) == f \in rows /\ Held(f, s) /\ (f \in links[s] \/ Redone(f, s))

\* The files of the batch in flight are parsed, waiting or failed, and the parsed
\* ones are in the relation spool before anything is stored.
ParseInv ==
    /\ run.pc \in InBatch =>
        /\ run.ok \subseteq Batch(run.batch) \ Bad
        /\ run.waiting \subseteq Batch(run.batch)
        /\ ~run.failed => Batch(run.batch) \ Bad \subseteq run.ok \cup run.waiting
    /\ run.pc \in InBatch \ {"parse"} => run.waiting = {} /\ run.ok \subseteq run.spool
    /\ run.spool \subseteq Good

\* The batch a file belongs to.
BatchOf(f) == (f - 1) \div BatchSize
Closing == {"relations", "finalize", "hashes", "complete"}

\* While a run can still complete, its spool holds every file of the batches behind
\* it; a snapshot that is published or about to be was built from every file.
GraphInv ==
    /\ run.pc # "idle" /\ run.complete =>
        \A f \in Good : BatchOf(f) < run.batch => f \in run.spool
    /\ run.pc \in Closing /\ run.complete => run.batch = TotalBatches
    /\ run.pc \in {"finalize", "hashes", "complete"} /\ run.complete => snapshot = Good
    /\ run.pc \in {"hashes", "complete"} => run.complete
    /\ manifest = "active" => snapshot = Good

\* Stage by stage: a file of the batch was committed by an earlier run and its rows
\* rewritten (or a file with the same id was committed), or is in a unit of this
\* run, or a unit was left and the batch is broken.
StageInv ==
    /\ \A s \in Stages, f \in Files : Committed(f, s) => f \in rows \/ Twins(f) # {f}
    /\ run.pc \in Embedding =>
        /\ ~run.left => \A f \in run.ok :
              \/ Redone(f, "embedding")
              \/ \E u \in run.todo \cup run.deferred \cup run.done : f \in u
              \/ run.pc = "link" /\ f \in run.unit
        /\ UNION run.done \subseteq links["embedding"]
    /\ run.pc = "commit" => run.todo = {} /\ run.deferred = {}
    /\ run.pc \in Embedding \cup {"bm25"} =>
        \A f \in run.ok : Committed(f, "bm25") => f \in rewritten \/ Twins(f) # {f}
    /\ run.pc \in {"bm25"} \cup Indexing /\ ~run.broken =>
        \A f \in run.ok : Indexed(f, "embedding")
    /\ run.pc \in Indexing => \A f \in run.ok : Redone(f, "bm25") \/ f \in UNION run.done
    /\ run.pc = "commitdocs" => UNION run.done \subseteq links["bm25"]
    /\ run.pc = "classify" /\ ~run.broken => \A f \in run.ok, s \in Stages : Indexed(f, s)

\* What a run that can still complete has indexed, and what a published generation
\* holds, with a file's store entry only known to be somebody's: DurableInv says
\* whose.
PublishInv ==
    /\ run.pc # "idle" /\ run.complete =>
        \A f \in Good : BatchOf(f) < run.batch => \A s \in Stages : Indexed(f, s)
    /\ manifest = "active" =>
        \A f \in Good, s \in Stages :
            /\ f \in rows /\ Held(f, s)
            /\ \/ f \in links[s]
               \/ /\ f \in rewritten \/ Twins(f) # {f}
                  /\ Committed(f, s) \/ ck.status = "in_progress"

\* What a step may take back: nothing but the links of files whose entity rows
\* store_parsed_files writes again.
Growth ==
    /\ rows \subseteq rows' /\ rewritten \subseteq rewritten'
    /\ \A f \in Files, s \in Stages :
        /\ Committed(f, s) => Committed(f, s)'
        /\ Held(f, s) => Held(f, s)'
        /\ f \in links[s] =>
            \/ f \in links'[s]
            \/ run.pc = "entities" /\ f \in run.ok /\ f \in rewritten'

\* FileEntry::path is absolute and the checkpoints are recorded under relative paths
\* (the scanner joins every path to the project root), so no lookup finds a record.
AbsolutePaths == \A f, g \in Files : Path[f] # RelativePath[g]

-----------------------------------------------------------------------------
(* Arithmetic, units, stores *)

\* Max of a nonempty set of files, the last writer of an id, is one of them.
LEMMA MaxOfFiles ==
  ASSUME NEW T \in SUBSET Files, T # {}
  PROVE  Max(T) \in T
<1> DEFINE R == {n \in Nat : \E x \in T : n = NumFiles - x}
<1>0. NumFiles \in Nat /\ \A x \in T : x \in 1 .. NumFiles
  BY BatchAssumption DEF Files
<1>1. \A x \in T : NumFiles - x \in R
  BY <1>0
<1>2. R \in SUBSET Nat /\ R # {}
  BY <1>1
<1>3. PICK r \in R : \A q \in R : r <= q
  BY <1>2, LeastNat
<1>4. PICK x \in T : r = NumFiles - x
  BY <1>3
<1> HIDE DEF R
<1>5. \A y \in T : x >= y
  BY <1>0, <1>1, <1>3, <1>4
<1> QED BY <1>5 DEF Max

\* total_batches is the number of batches: every file lies in one of them.
LEMMA Arithmetic ==
  /\ TotalBatches \in Nat
  /\ NumFiles \in Nat
  /\ \A f \in Files : f \in Nat \ {0} /\ f # NoFile /\ BatchOf(f) \in 0 .. TotalBatches - 1
<1>1. NumFiles \in Nat /\ BatchSize \in Nat \ {0}
  BY BatchAssumption
<1>2. TotalBatches \in Nat
  BY <1>1, SMT DEF TotalBatches
<1>3. ASSUME NEW f \in Files PROVE BatchOf(f) \in 0 .. TotalBatches - 1
  <2> DEFINE q == (f - 1) \div BatchSize
             r == (NumFiles + BatchSize - 1) \div BatchSize
  <2>1. f \in 1 .. NumFiles
    BY DEF Files
  <2>2. q \in Nat /\ r \in Nat /\ BatchSize * q <= f - 1
    BY <1>1, <2>1, SMT
  <2>3. NumFiles + BatchSize - 1 < BatchSize * r + BatchSize
    BY <1>1, SMT
  <2>4. BatchSize * q < BatchSize * r
    BY <1>1, <2>1, <2>2, <2>3, SMT
  <2>5. q = BatchOf(f) /\ r = TotalBatches
    BY DEF BatchOf, TotalBatches
  <2> HIDE DEF q, r
  <2>6. q < r
    BY <1>1, <2>2, <2>4, SMT
  <2> QED BY <2>2, <2>5, <2>6
<1> QED BY <1>1, <1>2, <1>3 DEF Files, NoFile

\* The units of a stage are nonempty, are cut from the files given and cover them.
LEMMA UnitsWithin ==
  ASSUME NEW S \in SUBSET Files, NEW s \in Stages
  PROVE  /\ Units(S, s) \in SUBSET SUBSET S
         /\ Uncommitted(S, s) \in SUBSET SUBSET S
         /\ \A f \in S : \E u \in Units(S, s) : f \in u
         /\ {} \notin Units(S, s)
<1>1. \A u \in Units(S, s) : u \subseteq S /\ u # {}
  BY DEF Units
<1>2. ASSUME NEW f \in S PROVE \E u \in Units(S, s) : f \in u
  <2> DEFINE u == {g \in S : Rank(g, S) \div UnitSize[s] = Rank(f, S) \div UnitSize[s]}
  <2> u \in Units(S, s) /\ f \in u
    BY DEF Units
  <2> QED OBVIOUS
<1> QED BY <1>1, <1>2 DEF Uncommitted

\* validate_recovered_hashes never moves the boundary forward.
LEMMA ValidatedType ==
  ASSUME NEW b \in 0 .. TotalBatches
  PROVE  Validated(b) \in 0 .. b
<1> DEFINE unknown == {c \in 0 .. b - 1 : \E f \in Batch(c) : Path[f] \notin records}
<1>1. CASE unknown = {}
  BY <1>1, Arithmetic DEF Validated
<1>2. CASE unknown # {}
  <2>1. unknown \in SUBSET Nat
    BY Arithmetic
  <2>2. Min(unknown) \in unknown
    BY <1>2, <2>1, MinOfNat
  <2>3. Validated(b) = Min(unknown)
    BY <1>2 DEF Validated
  <2> QED BY <2>2, <2>3, Arithmetic
<1> QED BY <1>1, <1>2

\* A write to a store replaces the ids of the files written by one of these files
\* and leaves every other id and the other store alone.
LEMMA UpsertType ==
  ASSUME stored \in [Stages -> [Ids -> Files \cup {NoFile}]],
         NEW S \in SUBSET Files, NEW s \in Stages, Upsert(s, S)
  PROVE  /\ stored' \in [Stages -> [Ids -> Files \cup {NoFile}]]
         /\ \A t \in Stages \ {s} : stored'[t] = stored[t]
         /\ \A i \in Ids : \/ stored'[s][i] \in S /\ ChunkId[stored'[s][i]] = i
                           \/ /\ stored'[s][i] = stored[s][i]
                              /\ \A f \in S : ChunkId[f] # i
<1> DEFINE F == [i \in Ids |-> IF \E f \in S : ChunkId[f] = i
                               THEN Max({f \in S : ChunkId[f] = i})
                               ELSE stored[s][i]]
<1>1. stored' = [stored EXCEPT ![s] = F]
  BY DEF Upsert
<1>2. ASSUME NEW i \in Ids
      PROVE  /\ F[i] \in Files \cup {NoFile}
             /\ \/ F[i] \in S /\ ChunkId[F[i]] = i
                \/ F[i] = stored[s][i] /\ \A f \in S : ChunkId[f] # i
  <2> DEFINE T == {f \in S : ChunkId[f] = i}
  <2>1. CASE T = {}
    <3>1. F[i] = stored[s][i]
      BY <2>1
    <3> QED BY <2>1, <3>1
  <2>2. CASE T # {}
    <3>1. Max(T) \in T
      BY <2>2, MaxOfFiles
    <3>2. F[i] = Max(T)
      BY <2>2
    <3> QED BY <3>1, <3>2
  <2> QED BY <2>1, <2>2
<1> HIDE DEF F
<1>3. F \in [Ids -> Files \cup {NoFile}]
  <2>1. F = [i \in Ids |-> F[i]]
    BY DEF F
  <2> QED BY <1>2, <2>1
<1> QED BY <1>1, <1>2, <1>3

\* The next unit to embed is one of those to do.
LEMMA FirstUnitTaken ==
  ASSUME run.todo \in SUBSET SUBSET Files, run.todo # {}, {} \notin run.todo
  PROVE  FirstUnit \in run.todo
<1> DEFINE T == {Min(u) : u \in run.todo}
<1>1. ASSUME NEW u \in run.todo PROVE Min(u) \in Nat
  <2>1. u \in SUBSET Nat /\ u # {}
    BY Arithmetic
  <2> QED BY <2>1, MinOfNat
<1>2. T \in SUBSET Nat /\ T # {}
  BY <1>1
<1>3. PICK x \in T : \A y \in T : x <= y
  BY <1>2, LeastNat
<1>4. \E u \in run.todo : \A v \in run.todo : Min(u) <= Min(v)
  BY <1>3
<1> QED BY <1>4 DEF FirstUnit

-----------------------------------------------------------------------------
(* Type correctness *)

\* A new operation satisfies the type invariant.
LEMMA TypeInit == BatchInit => TypeInv
<1> SUFFICES ASSUME BatchInit PROVE TypeInv
  OBVIOUS
<1>1. Idle \in Runs
  BY Arithmetic DEF Idle, Runs, Points
<1>2. Typed
  <2>1. stored \in [Stages -> [Ids -> Files \cup {NoFile}]] /\ units \in [Stages -> SUBSET Hashes]
    BY DEF BatchInit
  <2>2. ck \in [status : {"none", "in_progress", "completed"}, boundary : 0 .. TotalBatches]
    BY Arithmetic DEF BatchInit
  <2> QED BY <1>1, <2>1, <2>2 DEF BatchInit, Typed, NoSnapshot
<1>3. Shaped
  BY DEF BatchInit, Shaped, Idle, Storing, Embedding, Indexing, InBatch
<1> QED BY <1>2, <1>3 DEF TypeInv

\* Every step of a full index keeps the type invariant.
LEMMA TypeStep == TypeInv /\ [BatchNext]_vars => TypeInv'
<1> SUFFICES ASSUME TypeInv, [BatchNext]_vars PROVE TypeInv'
  OBVIOUS
<1> USE DEF TypeInv
<1>a. Idle \in Runs /\ Idle.pc = "idle"
  BY Arithmetic DEF Idle, Runs, Points
<1>b. run \in Runs /\ ck.boundary \in 0 .. TotalBatches /\ TotalBatches \in Nat
  BY Arithmetic DEF Typed
<1>c. Batch(run.batch) \in SUBSET Files
  BY DEF Batch
<1>d. \A S \in SUBSET Files : UnitHash(S) \in Hashes
  BY DEF Hashes
<1>e. "embedding" \in Stages /\ "bm25" \in Stages
  BY DEF Stages
<1>1. CASE BeginBatch
  <2>1. Typed'
    BY <1>1, <1>a, <1>b, <1>c DEF BeginBatch, Typed, Runs, Points, checkpointVars,
       storeVars, publishVars
  <2>2. Shaped'
    BY <1>1, <1>a, <1>b, <1>c DEF BeginBatch, Typed, Shaped, Runs, Points, InBatch, Storing,
       Embedding, Indexing, checkpointVars, storeVars, publishVars
  <2> QED BY <2>1, <2>2
<1>2. CASE BatchesDone
  <2>1. Typed'
    BY <1>2, <1>a, <1>b, <1>c DEF BatchesDone, Typed, Runs, Points, checkpointVars,
       storeVars, publishVars
  <2>2. Shaped'
    BY <1>2, <1>a, <1>b, <1>c DEF BatchesDone, Typed, Shaped, Runs, Points, InBatch,
       Storing, Embedding, Indexing, checkpointVars, storeVars, publishVars
  <2> QED BY <2>1, <2>2
<1>3. CASE Collect
  <2>1. Typed'
    BY <1>3, <1>a, <1>b, <1>c DEF Collect, Typed, Runs, Points, checkpointVars, storeVars,
       publishVars
  <2>2. Shaped'
    BY <1>3, <1>a, <1>b, <1>c DEF Collect, Typed, Shaped, Runs, Points, InBatch, Storing,
       Embedding, Indexing, checkpointVars, storeVars, publishVars
  <2> QED BY <2>1, <2>2
<1>4. CASE StoreEntities
  <2>1. run.ok \in SUBSET Files
    BY <1>b DEF Runs
  <2>2. Uncommitted(run.ok, "embedding") \in SUBSET SUBSET run.ok
        /\ {} \notin Uncommitted(run.ok, "embedding")
    BY <2>1, <1>e, UnitsWithin DEF Uncommitted
  <2>3. run' \in Runs
    BY <1>4, <1>b, <2>1, <2>2 DEF StoreEntities, Runs, Points
  <2>4. links' \in [Stages -> SUBSET Files] /\ \A s \in Stages : links'[s] = links[s] \ run.ok
    BY <1>4 DEF StoreEntities, Typed
  <2>5. Typed'
    BY <1>4, <2>1, <2>3, <2>4 DEF StoreEntities, Typed, checkpointVars, storeVars,
       publishVars
  <2>6. Shaped'
    BY <1>4, <1>b, <2>1, <2>2, <2>4 DEF StoreEntities, Typed, Shaped, Runs, Points, InBatch,
       Storing, Embedding, Indexing, checkpointVars, storeVars, publishVars
  <2> QED BY <2>5, <2>6
<1>5. CASE PushPoints
  <2> DEFINE buffer == run.buffered \cup FirstUnit
             rest == IF Cardinality(buffer) >= WriteBatch THEN {} ELSE buffer
  <2>1. /\ FirstUnit \in run.todo /\ FirstUnit \subseteq run.ok /\ run.ok \in SUBSET Files
        /\ run.buffered \subseteq run.ok /\ run.pc = "embed"
    BY <1>5, <1>b, FirstUnitTaken DEF PushPoints, Runs, Shaped, Storing, Embedding
  <2>2. rest \subseteq run.ok /\ buffer \in SUBSET Files
    BY <2>1
  <2>3. run' = [run EXCEPT !.pc = "link", !.unit = FirstUnit, !.todo = @ \ {FirstUnit},
                           !.buffered = rest]
    BY <1>5 DEF PushPoints
  <2>4. stored' \in [Stages -> [Ids -> Files \cup {NoFile}]]
    <3>1. stored' = stored \/ Upsert("embedding", buffer)
      BY <1>5 DEF PushPoints
    <3> QED BY <3>1, <2>2, <1>e, UpsertType DEF Typed
  <2> HIDE DEF buffer, rest
  <2>5. run' \in Runs
    BY <1>b, <2>1, <2>2, <2>3 DEF Runs, Points
  <2>6. Typed'
    BY <1>5, <2>4, <2>5 DEF PushPoints, Typed, checkpointVars, storeVars, publishVars
  <2>7. Shaped'
    BY <1>5, <1>b, <2>1, <2>2, <2>3 DEF PushPoints, Shaped, Runs, Points, InBatch, Storing,
       Embedding, Indexing, checkpointVars, storeVars, publishVars
  <2> QED BY <2>6, <2>7
<1>6. CASE LinkPoints
  <2>1. Typed'
    BY <1>6, <1>a, <1>b, <1>c DEF LinkPoints, Typed, Runs, Points, checkpointVars,
       storeVars, publishVars
  <2>2. Shaped'
    BY <1>6, <1>a, <1>b, <1>c DEF LinkPoints, Typed, Shaped, Runs, Points, InBatch, Storing,
       Embedding, Indexing, checkpointVars, storeVars, publishVars
  <2> QED BY <2>1, <2>2
<1>7. CASE RetryDeferred
  <2>1. Typed'
    BY <1>7, <1>a, <1>b, <1>c DEF RetryDeferred, Typed, Runs, Points, checkpointVars,
       storeVars, publishVars
  <2>2. Shaped'
    BY <1>7, <1>a, <1>b, <1>c DEF RetryDeferred, Typed, Shaped, Runs, Points, InBatch,
       Storing, Embedding, Indexing, checkpointVars, storeVars, publishVars
  <2> QED BY <2>1, <2>2
<1>8. CASE FlushPoints
  <2>1. stored' \in [Stages -> [Ids -> Files \cup {NoFile}]]
    <3>1. run.buffered \in SUBSET Files
      BY <1>b DEF Runs
    <3> QED BY <1>8, <3>1, <1>e, UpsertType DEF FlushPoints, Typed
  <2>2. Typed'
    BY <1>8, <1>b, <2>1 DEF FlushPoints, Typed, Runs, Points, checkpointVars, storeVars,
       publishVars
  <2>3. Shaped'
    BY <1>8, <1>b DEF FlushPoints, Typed, Shaped, Runs, Points, InBatch, Storing, Embedding,
       Indexing, checkpointVars, storeVars, publishVars
  <2> QED BY <2>2, <2>3
<1>9. CASE CommitUnits
  <2>1. units' \in [Stages -> SUBSET Hashes]
    <3>1. {UnitHash(u) : u \in run.done} \in SUBSET Hashes
      BY <1>b, <1>d DEF Runs
    <3>2. units' = units \/ units' = [units EXCEPT !["embedding"] = @ \cup {UnitHash(u) : u \in run.done}]
      BY <1>9 DEF CommitUnits
    <3> QED BY <3>1, <3>2 DEF Typed
  <2>2. run' \in Runs
    BY <1>9, <1>b DEF CommitUnits, Runs, Points
  <2>3. Typed'
    BY <1>9, <2>1, <2>2 DEF CommitUnits, Typed, checkpointVars, storeVars, publishVars
  <2>4. Shaped'
    BY <1>9, <1>b DEF CommitUnits, Typed, Shaped, Runs, Points, InBatch, Storing, Embedding,
       Indexing, checkpointVars, storeVars, publishVars
  <2> QED BY <2>3, <2>4
<1>10. CASE IndexDocuments
  <2> DEFINE pending == Uncommitted(run.ok, "bm25")
  <2>1. run.ok \in SUBSET Files /\ pending \in SUBSET SUBSET run.ok
    BY <1>b, <1>e, UnitsWithin DEF Runs
  <2>2. stored' \in [Stages -> [Ids -> Files \cup {NoFile}]]
    <3>1. UNION pending \in SUBSET Files
      BY <2>1
    <3> QED BY <1>10, <3>1, <1>e, UpsertType DEF IndexDocuments, Typed
  <2>3. run' = [run EXCEPT !.pc = "linkdocs", !.done = pending]
    BY <1>10 DEF IndexDocuments
  <2> HIDE DEF pending
  <2>4. run' \in Runs
    BY <1>b, <2>1, <2>3 DEF Runs, Points
  <2>5. Typed'
    BY <1>10, <2>2, <2>4 DEF IndexDocuments, Typed, checkpointVars, storeVars, publishVars
  <2>6. /\ run'.pc = "linkdocs" /\ run'.done = pending /\ run'.ok = run.ok
        /\ run'.batch = run.batch /\ run'.todo = run.todo /\ run'.deferred = run.deferred
        /\ run'.buffered = run.buffered /\ run.pc = "bm25"
    BY <1>10, <1>b, <2>3 DEF IndexDocuments, Runs
  <2>7. Shaped'
    BY <1>10, <2>1, <2>6 DEF IndexDocuments, Shaped, Points, InBatch, Storing, Embedding,
       Indexing, checkpointVars, storeVars, publishVars
  <2> QED BY <2>5, <2>7
<1>11. CASE LinkDocuments
  <2>1. Typed'
    BY <1>11, <1>a, <1>b, <1>c DEF LinkDocuments, Typed, Runs, Points, checkpointVars,
       storeVars, publishVars
  <2>2. Shaped'
    BY <1>11, <1>a, <1>b, <1>c DEF LinkDocuments, Typed, Shaped, Runs, Points, InBatch,
       Storing, Embedding, Indexing, checkpointVars, storeVars, publishVars
  <2> QED BY <2>1, <2>2
<1>12. CASE CommitDocuments
  <2>1. units' \in [Stages -> SUBSET Hashes]
    <3>1. {UnitHash(u) : u \in run.done} \in SUBSET Hashes
      BY <1>b, <1>d DEF Runs
    <3>2. units' = units \/ units' = [units EXCEPT !["bm25"] = @ \cup {UnitHash(u) : u \in run.done}]
      BY <1>12 DEF CommitDocuments
    <3> QED BY <3>1, <3>2 DEF Typed
  <2>2. run' \in Runs
    BY <1>12, <1>b DEF CommitDocuments, Runs, Points
  <2>3. Typed'
    BY <1>12, <2>1, <2>2 DEF CommitDocuments, Typed, checkpointVars, storeVars, publishVars
  <2>4. Shaped'
    BY <1>12, <1>b DEF CommitDocuments, Typed, Shaped, Runs, Points, InBatch, Storing,
       Embedding, Indexing, checkpointVars, storeVars, publishVars
  <2> QED BY <2>3, <2>4
<1>13. CASE StopBatches
  <2>1. Typed'
    BY <1>13, <1>a, <1>b, <1>c DEF StopBatches, Typed, Runs, Points, checkpointVars,
       storeVars, publishVars
  <2>2. Shaped'
    BY <1>13, <1>a, <1>b, <1>c DEF StopBatches, Typed, Shaped, Runs, Points, InBatch,
       Storing, Embedding, Indexing, checkpointVars, storeVars, publishVars
  <2> QED BY <2>1, <2>2
<1>14. CASE ContinueBatches
  <2>1. run.batch \in 0 .. TotalBatches /\ run.batch < TotalBatches
    BY <1>14, <1>b DEF ContinueBatches, Runs, Shaped, InBatch
  <2>2. run.batch + 1 \in 0 .. TotalBatches
    BY <1>b, <2>1
  <2>3. run' \in Runs
    BY <1>14, <1>b, <2>2 DEF ContinueBatches, Runs, Points
  <2>4. ck' \in [status : {"none", "in_progress", "completed"}, boundary : 0 .. TotalBatches]
    BY <1>14, <2>2 DEF ContinueBatches, Typed, checkpointVars
  <2>5. Typed'
    BY <1>14, <2>3, <2>4 DEF ContinueBatches, Typed, checkpointVars, storeVars, publishVars
  <2>6. Shaped'
    BY <1>14, <1>b DEF ContinueBatches, Typed, Shaped, Runs, Points, InBatch, Storing,
       Embedding, Indexing, checkpointVars, storeVars, publishVars
  <2> QED BY <2>5, <2>6
<1>15. CASE AdvanceBoundary
  <2>1. run.batch \in 0 .. TotalBatches /\ run.batch < TotalBatches
    BY <1>15, <1>b DEF AdvanceBoundary, Runs, Shaped, InBatch
  <2>2. run.batch + 1 \in 0 .. TotalBatches
    BY <1>b, <2>1
  <2>3. run' \in Runs
    BY <1>15, <1>b, <2>2 DEF AdvanceBoundary, Runs, Points
  <2>4. ck' \in [status : {"none", "in_progress", "completed"}, boundary : 0 .. TotalBatches]
    BY <1>15, <2>2 DEF AdvanceBoundary, Typed, checkpointVars
  <2>5. Typed'
    BY <1>15, <2>3, <2>4 DEF AdvanceBoundary, Typed, checkpointVars, storeVars, publishVars
  <2>6. Shaped'
    BY <1>15, <1>b DEF AdvanceBoundary, Typed, Shaped, Runs, Points, InBatch, Storing,
       Embedding, Indexing, checkpointVars, storeVars, publishVars
  <2> QED BY <2>5, <2>6
<1>16. CASE PublishRelations
  <2>1. \/ run' = [run EXCEPT !.pc = "finalize"]
        \/ run' = [run EXCEPT !.pc = "finalize", !.complete = FALSE]
    BY <1>16 DEF PublishRelations
  <2>2. run' \in Runs /\ run'.pc = "finalize" /\ run.pc = "relations"
    <3>1. CASE run' = [run EXCEPT !.pc = "finalize"]
      BY <1>16, <1>b, <3>1 DEF PublishRelations, Runs, Points
    <3>2. CASE run' = [run EXCEPT !.pc = "finalize", !.complete = FALSE]
      BY <1>16, <1>b, <3>2 DEF PublishRelations, Runs, Points
    <3> QED BY <2>1, <3>1, <3>2
  <2>3. snapshot' \in SUBSET (Files \cup {NoFile})
    BY <1>16, <1>b DEF PublishRelations, Typed, Runs
  <2>4. Typed'
    BY <1>16, <2>2, <2>3 DEF PublishRelations, Typed, checkpointVars, storeVars, publishVars
  <2>5. Shaped'
    BY <1>16, <2>2 DEF PublishRelations, Shaped, Points, InBatch, Storing, Embedding,
       Indexing, checkpointVars, storeVars, publishVars
  <2> QED BY <2>4, <2>5
<1>17. CASE ActivateManifest
  <2>1. Typed'
    BY <1>17, <1>a, <1>b, <1>c DEF ActivateManifest, Typed, Runs, Points, checkpointVars,
       storeVars, publishVars
  <2>2. Shaped'
    BY <1>17, <1>a, <1>b, <1>c DEF ActivateManifest, Typed, Shaped, Runs, Points, InBatch,
       Storing, Embedding, Indexing, checkpointVars, storeVars, publishVars
  <2> QED BY <2>1, <2>2
<1>18. CASE LeaveIncomplete
  <2>1. manifest' \in {"none", "building", "active", "failed"}
    BY <1>18 DEF LeaveIncomplete, Failed, Typed
  <2>2. Typed'
    BY <1>18, <1>a, <2>1 DEF LeaveIncomplete, Typed, checkpointVars, storeVars, publishVars
  <2>3. Shaped'
    BY <1>18, <1>a DEF LeaveIncomplete, Shaped, Points, InBatch, Storing, Embedding,
       Indexing, checkpointVars, storeVars, publishVars
  <2> QED BY <2>2, <2>3
<1>19. CASE PublishHashes
  <2>1. Typed'
    BY <1>19, <1>a, <1>b, <1>c DEF PublishHashes, Typed, Runs, Points, checkpointVars,
       storeVars, publishVars
  <2>2. Shaped'
    BY <1>19, <1>a, <1>b, <1>c DEF PublishHashes, Typed, Shaped, Runs, Points, InBatch,
       Storing, Embedding, Indexing, checkpointVars, storeVars, publishVars
  <2> QED BY <2>1, <2>2
<1>20. CASE Complete
  <2>1. Typed'
    BY <1>20, <1>a, <1>b, <1>c DEF Complete, Typed, Runs, Points, checkpointVars, storeVars,
       publishVars
  <2>2. Shaped'
    BY <1>20, <1>a, <1>b, <1>c DEF Complete, Typed, Shaped, Runs, Points, InBatch, Storing,
       Embedding, Indexing, checkpointVars, storeVars, publishVars
  <2> QED BY <2>1, <2>2
<1>21. CASE Execute
  <2> DEFINE start == Validated(ck.boundary)
             spool == UNION {Batch(b) : b \in 0 .. start - 1}
  <2>1. start \in 0 .. TotalBatches
    BY <1>b, ValidatedType
  <2>2. spool \in SUBSET Files
    BY DEF Batch
  <2>3. \/ run' = [Idle EXCEPT !.pc = "batch", !.batch = start, !.spool = spool]
        \/ run' = [[Idle EXCEPT !.pc = "batch", !.batch = start, !.spool = spool]
                     EXCEPT !.complete = FALSE]
    BY <1>21 DEF Execute
  <2> HIDE DEF start, spool
  <2>4. run' \in Runs /\ run'.pc = "batch"
    <3>1. CASE run' = [Idle EXCEPT !.pc = "batch", !.batch = start, !.spool = spool]
      BY <1>a, <2>1, <2>2, <3>1 DEF Runs, Points
    <3>2. CASE run' = [[Idle EXCEPT !.pc = "batch", !.batch = start, !.spool = spool]
                         EXCEPT !.complete = FALSE]
      BY <1>a, <2>1, <2>2, <3>2 DEF Runs, Points
    <3> QED BY <2>3, <3>1, <3>2
  <2>5. Typed'
    BY <1>21, <2>4 DEF Execute, Building, Typed, checkpointVars, storeVars, publishVars
  <2>6. Shaped'
    BY <1>21, <2>4 DEF Execute, Typed, Shaped, Points, InBatch, Storing, Embedding,
       Indexing, checkpointVars, storeVars, publishVars
  <2> QED BY <2>5, <2>6
<1>22. CASE ExecuteFails
  <2>1. Typed'
    BY <1>22, <1>a, <1>b, <1>c DEF ExecuteFails, Typed, Runs, Points, checkpointVars,
       storeVars, publishVars
  <2>2. Shaped'
    BY <1>22, <1>a, <1>b, <1>c DEF ExecuteFails, Typed, Shaped, Runs, Points, InBatch,
       Storing, Embedding, Indexing, checkpointVars, storeVars, publishVars
  <2> QED BY <2>1, <2>2
<1>23. CASE BeginBatchFails
  <2>1. Typed'
    BY <1>23, <1>a, <1>b, <1>c DEF BeginBatchFails, Typed, Runs, Points, checkpointVars,
       storeVars, publishVars
  <2>2. Shaped'
    BY <1>23, <1>a, <1>b, <1>c DEF BeginBatchFails, Typed, Shaped, Runs, Points, InBatch,
       Storing, Embedding, Indexing, checkpointVars, storeVars, publishVars
  <2> QED BY <2>1, <2>2
<1>24. CASE StoreEntitiesFails
  <2>1. Typed'
    BY <1>24, <1>a, <1>b, <1>c DEF StoreEntitiesFails, Typed, Runs, Points, checkpointVars,
       storeVars, publishVars
  <2>2. Shaped'
    BY <1>24, <1>a, <1>b, <1>c DEF StoreEntitiesFails, Typed, Shaped, Runs, Points, InBatch,
       Storing, Embedding, Indexing, checkpointVars, storeVars, publishVars
  <2> QED BY <2>1, <2>2
<1>25. CASE UnitRejected
  <2> DEFINE later == IF run.retry THEN run.deferred ELSE run.deferred \cup {FirstUnit}
  <2>1. FirstUnit \in run.todo
    BY <1>25, <1>b, FirstUnitTaken DEF UnitRejected, Runs, Shaped, Storing, Embedding
  <2>2. later \in SUBSET SUBSET Files /\ later \subseteq run.todo \cup run.deferred
        /\ (run.retry \/ run.left) \in BOOLEAN
    BY <1>b, <2>1 DEF Runs
  <2>3. run' = [run EXCEPT !.todo = @ \ {FirstUnit}, !.deferred = later,
                           !.left = run.retry \/ run.left]
    BY <1>25, <1>b DEF UnitRejected, Runs
  <2> HIDE DEF later
  <2>4. run' \in Runs
    BY <1>b, <2>2, <2>3 DEF Runs
  <2>5. Typed'
    BY <1>25, <2>4 DEF UnitRejected, Typed, checkpointVars, storeVars, publishVars
  <2>6. /\ run'.pc = "embed" /\ run'.done = run.done /\ run'.ok = run.ok
        /\ run'.batch = run.batch /\ run'.todo = run.todo \ {FirstUnit} /\ run'.deferred = later
        /\ run'.buffered = run.buffered /\ run.pc = "embed"
    BY <1>25, <1>b, <2>3 DEF UnitRejected, Runs
  <2>7. Shaped'
    BY <1>25, <2>2, <2>6 DEF UnitRejected, Shaped, Points, InBatch, Storing, Embedding,
       Indexing, checkpointVars, storeVars, publishVars
  <2> QED BY <2>5, <2>7
<1>26. CASE EmbeddingFails
  <2>1. Typed'
    BY <1>26, <1>a, <1>b, <1>c DEF EmbeddingFails, Typed, Runs, Points, checkpointVars,
       storeVars, publishVars
  <2>2. Shaped'
    BY <1>26, <1>a, <1>b, <1>c DEF EmbeddingFails, Typed, Shaped, Runs, Points, InBatch,
       Storing, Embedding, Indexing, checkpointVars, storeVars, publishVars
  <2> QED BY <2>1, <2>2
<1>27. CASE DocumentsFail
  <2>1. Typed'
    BY <1>27, <1>a, <1>b, <1>c DEF DocumentsFail, Typed, Runs, Points, checkpointVars,
       storeVars, publishVars
  <2>2. Shaped'
    BY <1>27, <1>a, <1>b, <1>c DEF DocumentsFail, Typed, Shaped, Runs, Points, InBatch,
       Storing, Embedding, Indexing, checkpointVars, storeVars, publishVars
  <2> QED BY <2>1, <2>2
<1>28. CASE AdvanceBoundaryFails
  <2>1. Typed'
    BY <1>28, <1>a, <1>b, <1>c DEF AdvanceBoundaryFails, Typed, Runs, Points,
       checkpointVars, storeVars, publishVars
  <2>2. Shaped'
    BY <1>28, <1>a, <1>b, <1>c DEF AdvanceBoundaryFails, Typed, Shaped, Runs, Points,
       InBatch, Storing, Embedding, Indexing, checkpointVars, storeVars, publishVars
  <2> QED BY <2>1, <2>2
<1>29. CASE RelationsFail
  <2>1. Typed'
    BY <1>29, <1>a, <1>b, <1>c DEF RelationsFail, Typed, Runs, Points, checkpointVars,
       storeVars, publishVars
  <2>2. Shaped'
    BY <1>29, <1>a, <1>b, <1>c DEF RelationsFail, Typed, Shaped, Runs, Points, InBatch,
       Storing, Embedding, Indexing, checkpointVars, storeVars, publishVars
  <2> QED BY <2>1, <2>2
<1>30. CASE ActivationFails
  <2>1. manifest' \in {"none", "building", "active", "failed"}
    BY <1>30 DEF ActivationFails, Failed, Typed
  <2>2. Typed'
    BY <1>30, <1>a, <2>1 DEF ActivationFails, Typed, checkpointVars, storeVars, publishVars
  <2>3. Shaped'
    BY <1>30, <1>a DEF ActivationFails, Shaped, Points, InBatch, Storing, Embedding,
       Indexing, checkpointVars, storeVars, publishVars
  <2> QED BY <2>2, <2>3
<1>31. CASE RunFails
  <2>1. Typed'
    BY <1>31, <1>a, <1>b, <1>c DEF RunFails, Typed, Runs, Points, checkpointVars, storeVars,
       publishVars
  <2>2. Shaped'
    BY <1>31, <1>a, <1>b, <1>c DEF RunFails, Typed, Shaped, Runs, Points, InBatch, Storing,
       Embedding, Indexing, checkpointVars, storeVars, publishVars
  <2> QED BY <2>1, <2>2
<1>32. CASE Crash
  <2>1. Typed'
    BY <1>32, <1>a, <1>b, <1>c DEF Crash, Typed, Runs, Points, checkpointVars, storeVars,
       publishVars
  <2>2. Shaped'
    BY <1>32, <1>a, <1>b, <1>c DEF Crash, Typed, Shaped, Runs, Points, InBatch, Storing,
       Embedding, Indexing, checkpointVars, storeVars, publishVars
  <2> QED BY <2>1, <2>2
<1>33. ASSUME NEW f \in Files, FileProcessed(f) PROVE TypeInv'
  <2>1. Typed'
    BY <1>33, <1>a, <1>b, <1>c DEF FileProcessed, Typed, Runs, Points, checkpointVars,
       storeVars, publishVars
  <2>2. Shaped'
    BY <1>33, <1>a, <1>b, <1>c DEF FileProcessed, Typed, Shaped, Runs, Points, InBatch,
       Storing, Embedding, Indexing, checkpointVars, storeVars, publishVars
  <2> QED BY <2>1, <2>2
<1>34. ASSUME NEW f \in Files, FileSkipped(f) PROVE TypeInv'
  <2>1. Typed'
    BY <1>34, <1>a, <1>b, <1>c DEF FileSkipped, Typed, Runs, Points, checkpointVars,
       storeVars, publishVars
  <2>2. Shaped'
    BY <1>34, <1>a, <1>b, <1>c DEF FileSkipped, Typed, Shaped, Runs, Points, InBatch,
       Storing, Embedding, Indexing, checkpointVars, storeVars, publishVars
  <2> QED BY <2>1, <2>2
<1>35. ASSUME NEW f \in Files, FileFails(f) PROVE TypeInv'
  <2>1. Typed'
    BY <1>35, <1>a, <1>b, <1>c DEF FileFails, Typed, Runs, Points, checkpointVars,
       storeVars, publishVars
  <2>2. Shaped'
    BY <1>35, <1>a, <1>b, <1>c DEF FileFails, Typed, Shaped, Runs, Points, InBatch, Storing,
       Embedding, Indexing, checkpointVars, storeVars, publishVars
  <2> QED BY <2>1, <2>2
<1>36. CASE UNCHANGED vars
  BY <1>36 DEF vars, Typed, Shaped, checkpointVars, storeVars, publishVars, boundVars
<1> QED BY <1>1, <1>2, <1>3, <1>4, <1>5, <1>6, <1>7, <1>8, <1>9, <1>10, <1>11, <1>12, <1>13,
           <1>14, <1>15, <1>16, <1>17, <1>18, <1>19, <1>20, <1>21, <1>22, <1>23, <1>24,
           <1>25, <1>26, <1>27, <1>28, <1>29, <1>30, <1>31, <1>32, <1>33, <1>34, <1>35,
           <1>36 DEF BatchNext, BatchStep, FinalStep, FaultStep

\* The type invariant, with the shape of the run, holds throughout.
THEOREM TypeInvariance == BatchSpec => []TypeInv
<1>1. TypeInv /\ [BatchNext]_vars => TypeInv'
  BY TypeStep
<1> QED BY TypeInit, <1>1, PTL DEF BatchSpec

\* Type correctness of the full index: a link is only kept beside its entity rows
\* and update_current_batch_index never passes the last batch.
THEOREM BatchTyping == BatchSpec => []BatchTypeOK
<1>1. TypeInv => BatchTypeOK
  BY DEF TypeInv, Typed, Shaped, Runs, Hashes, BatchTypeOK
<1> QED BY TypeInvariance, <1>1, PTL

-----------------------------------------------------------------------------
(* Durability of what is marked Committed *)

\* Any set of files is finite; it counts zero only when empty.
LEMMA FilesFinite ==
  ASSUME NEW S \in SUBSET Files
  PROVE  IsFiniteSet(S) /\ Cardinality(S) \in Nat /\ (Cardinality(S) = 0 <=> S = {})
<1>1. IsFiniteSet(Files)
  BY Arithmetic, FS_Interval DEF Files
<1>2. IsFiniteSet(S)
  BY <1>1, FS_Subset
<1> QED BY <1>2, FS_CardinalityType, FS_EmptySet

\* The hash of a unit counts an id exactly when a chunk of the unit has it.
LEMMA HashCounts ==
  ASSUME NEW u \in SUBSET Files, NEW f \in Files
  PROVE  UnitHash(u)[ChunkId[f]] > 0 <=> \E g \in u : ChunkId[g] = ChunkId[f]
<1> DEFINE S == {g \in u : ChunkId[g] = ChunkId[f]}
<1>1. UnitHash(u)[ChunkId[f]] = Cardinality(S)
  BY DEF UnitHash, Ids
<1>2. S \in SUBSET Files /\ (S = {} <=> ~ \E g \in u : ChunkId[g] = ChunkId[f])
  OBVIOUS
<1> HIDE DEF S
<1> QED BY <1>1, <1>2, FilesFinite

\* A write to a store holds what it wrote, keeps what was held, and files
\* everything under its own id.
LEMMA UpsertHolds ==
  ASSUME stored \in [Stages -> [Ids -> Files \cup {NoFile}]],
         NEW S \in SUBSET Files, NEW s \in Stages, Upsert(s, S)
  PROVE  /\ \A f \in Files, t \in Stages : Held(f, t) => Held(f, t)'
         /\ \A f \in S : Held(f, s)'
         /\ (\A t \in Stages, i \in Ids : stored[t][i] # NoFile => ChunkId[stored[t][i]] = i)
            => (\A t \in Stages, i \in Ids : stored'[t][i] # NoFile => ChunkId[stored'[t][i]] = i)
<1>1. \A g \in S : g # NoFile
  BY Arithmetic
<1>2. \A f \in Files : ChunkId[f] \in Ids
  BY DEF Ids
<1>3. \A t \in Stages \ {s} : stored'[t] = stored[t]
  BY UpsertType
<1>4. \A i \in Ids : \/ stored'[s][i] \in S /\ ChunkId[stored'[s][i]] = i
                     \/ stored'[s][i] = stored[s][i] /\ \A f \in S : ChunkId[f] # i
  BY UpsertType
<1>5. ASSUME NEW f \in Files, NEW t \in Stages, Held(f, t) PROVE Held(f, t)'
  <2>1. CASE t # s
    BY <1>3, <1>5, <2>1 DEF Held
  <2>2. CASE t = s
    BY <1>1, <1>2, <1>4, <1>5, <2>2 DEF Held
  <2> QED BY <2>1, <2>2
<1>6. \A f \in S : Held(f, s)'
  BY <1>1, <1>2, <1>4 DEF Held
<1>7. ASSUME \A t \in Stages, i \in Ids : stored[t][i] # NoFile => ChunkId[stored[t][i]] = i,
             NEW t \in Stages, NEW i \in Ids, stored'[t][i] # NoFile
      PROVE  ChunkId[stored'[t][i]] = i
  <2>1. CASE t # s
    BY <1>3, <1>7, <2>1
  <2>2. CASE t = s
    BY <1>4, <1>7, <2>2
  <2> QED BY <2>1, <2>2
<1> QED BY <1>5, <1>6, <1>7

\* A step outside the stages that leaves stores and markers alone keeps the
\* durability invariant.
LEMMA QuietDurable ==
  ASSUME DurableInv, stored' = stored, units' = units, run'.pc \notin Embedding \cup Indexing
  PROVE  DurableInv'
BY DEF DurableInv, CommittedDurable, Committed, Held, Embedding, Indexing

\* A new operation has no markers.
LEMMA DurableInit == BatchInit => DurableInv
BY DEF BatchInit, DurableInv, CommittedDurable, Committed, Idle, Embedding, Indexing

\* Every step keeps the durability invariant: the writer's buffer is flushed before
\* the markers are written, and a failure drops the buffer and the units together.
LEMMA DurableStep == TypeInv /\ DurableInv /\ [BatchNext]_vars => DurableInv'
<1> SUFFICES ASSUME TypeInv, DurableInv, [BatchNext]_vars PROVE DurableInv'
  OBVIOUS
<1>a. Idle.pc = "idle"
  BY DEF Idle
<1>b. run \in Runs /\ stored \in [Stages -> [Ids -> Files \cup {NoFile}]]
      /\ units \in [Stages -> SUBSET Hashes]
  BY DEF TypeInv, Typed
<1>e. "embedding" \in Stages /\ "bm25" \in Stages /\ "embedding" # "bm25"
      /\ \A f \in Files : ChunkId[f] \in Ids /\ f # NoFile
  BY Arithmetic DEF Stages, Ids
<1>f. \A s \in Stages, i \in Ids : stored[s][i] # NoFile => ChunkId[stored[s][i]] = i
  BY DEF DurableInv
<1>g. CommittedDurable
  BY DEF DurableInv
<1>1. CASE BeginBatch
  BY <1>1, <1>a, <1>b, QuietDurable DEF BeginBatch, Runs, Embedding, Indexing,
     checkpointVars, storeVars, publishVars
<1>2. CASE BatchesDone
  BY <1>2, <1>a, <1>b, QuietDurable DEF BatchesDone, Runs, Embedding, Indexing,
     checkpointVars, storeVars, publishVars
<1>3. CASE Collect
  BY <1>3, <1>a, <1>b, QuietDurable DEF Collect, Runs, Embedding, Indexing, checkpointVars,
     storeVars, publishVars
<1>4. CASE StoreEntities
  <2>1. stored' = stored /\ units' = units
    BY <1>4 DEF StoreEntities, checkpointVars, storeVars, publishVars
  <2> QED BY <1>4, <1>b, <2>1 DEF StoreEntities, Runs, DurableInv, CommittedDurable,
             Committed, Held, Embedding, Indexing
<1>5. CASE PushPoints
  <2> DEFINE buffer == run.buffered \cup FirstUnit
             rest == IF Cardinality(buffer) >= WriteBatch THEN {} ELSE buffer
  <2>1. /\ FirstUnit \in run.todo /\ FirstUnit \in SUBSET Files
        /\ run.buffered \in SUBSET Files /\ run.done \in SUBSET SUBSET Files /\ run.pc = "embed"
    BY <1>5, <1>b, FirstUnitTaken DEF PushPoints, Runs, TypeInv, Shaped, Storing, Embedding
  <2>2. run' = [run EXCEPT !.pc = "link", !.unit = FirstUnit, !.todo = @ \ {FirstUnit},
                           !.buffered = rest]
    BY <1>5 DEF PushPoints
  <2>3. /\ run'.pc = "link" /\ run'.unit = FirstUnit /\ run'.buffered = rest
        /\ run'.done = run.done
    BY <1>b, <2>2 DEF Runs
  <2>4. \/ stored' = stored /\ rest = buffer
        \/ Upsert("embedding", buffer)
    BY <1>5 DEF PushPoints
  <2>5. /\ \A f \in Files, t \in Stages : Held(f, t) => Held(f, t)'
        /\ \A f \in buffer : f \in rest \/ Held(f, "embedding")'
    <3>1. CASE stored' = stored /\ rest = buffer
      BY <3>1 DEF Held
    <3>2. CASE Upsert("embedding", buffer)
      BY <1>b, <1>e, <2>1, <3>2, UpsertHolds
    <3> QED BY <2>4, <2>5, <3>1, <3>2
  <2>6. \A s \in Stages, i \in Ids : stored'[s][i] # NoFile => ChunkId[stored'[s][i]] = i
    <3>1. CASE stored' = stored
      BY <1>f, <3>1
    <3>2. CASE Upsert("embedding", buffer)
      <4>1. buffer \in SUBSET Files
        BY <2>1
      <4> HIDE DEF buffer
      <4> QED BY <1>b, <1>e, <1>f, <3>2, <4>1, UpsertHolds
    <3> QED BY <2>4, <3>1, <3>2
  <2>7. units' = units
    BY <1>5 DEF PushPoints, checkpointVars
  <2>8. CommittedDurable'
    BY <1>g, <2>5, <2>7 DEF CommittedDurable, Committed, Held
  <2>9. \A f \in UNION run.done : f \in run.buffered \/ Held(f, "embedding")
    BY <2>1 DEF DurableInv, Embedding
  <2> HIDE DEF rest
  <2>10. \A f \in UNION run.done : f \in rest \/ Held(f, "embedding")'
    BY <1>e, <2>1, <2>5, <2>9
  <2> QED BY <2>3, <2>5, <2>6, <2>8, <2>10 DEF DurableInv, Indexing
<1>6. CASE LinkPoints
  <2>1. stored' = stored /\ units' = units
    BY <1>6 DEF LinkPoints, checkpointVars, storeVars, publishVars
  <2> QED BY <1>6, <1>b, <2>1 DEF LinkPoints, Runs, DurableInv, CommittedDurable, Committed,
             Held, Embedding, Indexing
<1>7. CASE RetryDeferred
  <2>1. stored' = stored /\ units' = units
    BY <1>7 DEF RetryDeferred, checkpointVars, storeVars, publishVars
  <2> QED BY <1>7, <1>b, <2>1 DEF RetryDeferred, Runs, DurableInv, CommittedDurable,
             Committed, Held, Embedding, Indexing
<1>8. CASE FlushPoints
  <2>1. /\ run.buffered \in SUBSET Files /\ run.done \in SUBSET SUBSET Files /\ run.pc = "embed"
        /\ Upsert("embedding", run.buffered) /\ units' = units
    BY <1>8, <1>b DEF FlushPoints, Runs, checkpointVars
  <2>2. run'.pc = "commit" /\ run'.buffered = {} /\ run'.done = run.done
    BY <1>8, <1>b DEF FlushPoints, Runs
  <2>3. /\ \A f \in Files, t \in Stages : Held(f, t) => Held(f, t)'
        /\ \A f \in run.buffered : Held(f, "embedding")'
    BY <1>b, <1>e, <2>1, UpsertHolds
  <2>4. \A s \in Stages, i \in Ids : stored'[s][i] # NoFile => ChunkId[stored'[s][i]] = i
    BY <1>b, <1>e, <1>f, <2>1, UpsertHolds
  <2>5. CommittedDurable'
    BY <1>g, <2>1, <2>3 DEF CommittedDurable, Committed, Held
  <2>6. \A f \in UNION run.done : Held(f, "embedding")'
    BY <1>e, <2>1, <2>3 DEF DurableInv, Embedding
  <2> QED BY <2>2, <2>4, <2>5, <2>6 DEF DurableInv, Indexing
<1>9. CASE CommitUnits
  <2>1. run.done \in SUBSET SUBSET Files /\ run.pc = "commit" /\ stored' = stored
    BY <1>9, <1>b DEF CommitUnits, Runs, storeVars
  <2>2. run'.pc \notin Embedding \cup Indexing
    BY <1>9, <1>b DEF CommitUnits, Runs, Embedding, Indexing
  <2>3. \A f \in UNION run.done : Held(f, "embedding")
    BY <2>1 DEF DurableInv, Embedding, Indexing
  <2>4. ASSUME NEW s \in Stages, NEW h, h \in units'[s]
        PROVE  h \in units[s] \/ (s = "embedding" /\ \E u \in run.done : h = UnitHash(u))
    <3>1. units' = units \/ units' = [units EXCEPT !["embedding"] = @ \cup {UnitHash(u) : u \in run.done}]
      BY <1>9 DEF CommitUnits
    <3>2. CASE units' = units
      BY <2>4, <3>2
    <3>3. CASE units' = [units EXCEPT !["embedding"] = @ \cup {UnitHash(u) : u \in run.done}]
      <4>1. CASE s = "embedding"
        BY <1>b, <2>4, <3>3, <4>1
      <4>2. CASE s # "embedding"
        BY <1>b, <2>4, <3>3, <4>2
      <4> QED BY <4>1, <4>2
    <3> QED BY <3>1, <3>2, <3>3
  <2>5. ASSUME NEW s \in Stages, NEW f \in Files, NEW h, h \in units'[s], h[ChunkId[f]] > 0
        PROVE  stored[s][ChunkId[f]] # NoFile
    <3>1. CASE h \in units[s]
      BY <1>g, <2>5, <3>1 DEF CommittedDurable, Committed
    <3>2. CASE s = "embedding" /\ \E u \in run.done : h = UnitHash(u)
      <4>1. PICK u \in run.done : h = UnitHash(u)
        BY <3>2
      <4>2. PICK g \in u : ChunkId[g] = ChunkId[f]
        BY <2>1, <2>5, <4>1, HashCounts
      <4> QED BY <2>3, <3>2, <4>2 DEF Held
    <3> QED BY <2>4, <2>5, <3>1, <3>2
  <2>6. CommittedDurable'
    BY <2>1, <2>5 DEF CommittedDurable, Committed
  <2> QED BY <1>f, <2>1, <2>2, <2>6 DEF DurableInv, Embedding, Indexing
<1>10. CASE IndexDocuments
  <2> DEFINE pending == Uncommitted(run.ok, "bm25")
  <2>a. run.ok \in SUBSET Files
    BY <1>b DEF Runs
  <2>b. pending \in SUBSET SUBSET run.ok
    BY <1>e, <2>a, UnitsWithin
  <2>1. /\ run.ok \in SUBSET Files /\ pending \in SUBSET SUBSET run.ok
        /\ Upsert("bm25", UNION pending) /\ units' = units
    BY <1>10, <2>a, <2>b DEF IndexDocuments, checkpointVars
  <2>2. run'.pc = "linkdocs" /\ run'.done = pending
    BY <1>10, <1>b DEF IndexDocuments, Runs
  <2>3. UNION pending \in SUBSET Files
    BY <2>1
  <2>4. /\ \A f \in Files, t \in Stages : Held(f, t) => Held(f, t)'
        /\ \A f \in UNION pending : Held(f, "bm25")'
    BY <1>b, <1>e, <2>1, <2>3, UpsertHolds
  <2>5. \A s \in Stages, i \in Ids : stored'[s][i] # NoFile => ChunkId[stored'[s][i]] = i
    BY <1>b, <1>e, <1>f, <2>1, <2>3, UpsertHolds
  <2>6. CommittedDurable'
    BY <1>g, <2>1, <2>4 DEF CommittedDurable, Committed, Held
  <2> HIDE DEF pending
  <2> QED BY <2>2, <2>4, <2>5, <2>6 DEF DurableInv, Embedding
<1>11. CASE LinkDocuments
  <2>1. stored' = stored /\ units' = units
    BY <1>11 DEF LinkDocuments, checkpointVars, storeVars, publishVars
  <2> QED BY <1>11, <1>b, <2>1 DEF LinkDocuments, Runs, DurableInv, CommittedDurable,
             Committed, Held, Embedding, Indexing
<1>12. CASE CommitDocuments
  <2>1. run.done \in SUBSET SUBSET Files /\ run.pc = "commitdocs" /\ stored' = stored
    BY <1>12, <1>b DEF CommitDocuments, Runs, storeVars
  <2>2. run'.pc \notin Embedding \cup Indexing
    BY <1>12, <1>b DEF CommitDocuments, Runs, Embedding, Indexing
  <2>3. \A f \in UNION run.done : Held(f, "bm25")
    BY <2>1 DEF DurableInv, Embedding, Indexing
  <2>4. ASSUME NEW s \in Stages, NEW h, h \in units'[s]
        PROVE  h \in units[s] \/ (s = "bm25" /\ \E u \in run.done : h = UnitHash(u))
    <3>1. units' = units \/ units' = [units EXCEPT !["bm25"] = @ \cup {UnitHash(u) : u \in run.done}]
      BY <1>12 DEF CommitDocuments
    <3>2. CASE units' = units
      BY <2>4, <3>2
    <3>3. CASE units' = [units EXCEPT !["bm25"] = @ \cup {UnitHash(u) : u \in run.done}]
      <4>1. CASE s = "bm25"
        BY <1>b, <2>4, <3>3, <4>1
      <4>2. CASE s # "bm25"
        BY <1>b, <2>4, <3>3, <4>2
      <4> QED BY <4>1, <4>2
    <3> QED BY <3>1, <3>2, <3>3
  <2>5. ASSUME NEW s \in Stages, NEW f \in Files, NEW h, h \in units'[s], h[ChunkId[f]] > 0
        PROVE  stored[s][ChunkId[f]] # NoFile
    <3>1. CASE h \in units[s]
      BY <1>g, <2>5, <3>1 DEF CommittedDurable, Committed
    <3>2. CASE s = "bm25" /\ \E u \in run.done : h = UnitHash(u)
      <4>1. PICK u \in run.done : h = UnitHash(u)
        BY <3>2
      <4>2. PICK g \in u : ChunkId[g] = ChunkId[f]
        BY <2>1, <2>5, <4>1, HashCounts
      <4> QED BY <2>3, <3>2, <4>2 DEF Held
    <3> QED BY <2>4, <2>5, <3>1, <3>2
  <2>6. CommittedDurable'
    BY <2>1, <2>5 DEF CommittedDurable, Committed
  <2> QED BY <1>f, <2>1, <2>2, <2>6 DEF DurableInv, Embedding, Indexing
<1>13. CASE StopBatches
  BY <1>13, <1>a, <1>b, QuietDurable DEF StopBatches, Runs, Embedding, Indexing,
     checkpointVars, storeVars, publishVars
<1>14. CASE ContinueBatches
  BY <1>14, <1>a, <1>b, QuietDurable DEF ContinueBatches, Runs, Embedding, Indexing,
     checkpointVars, storeVars, publishVars
<1>15. CASE AdvanceBoundary
  BY <1>15, <1>a, <1>b, QuietDurable DEF AdvanceBoundary, Runs, Embedding, Indexing,
     checkpointVars, storeVars, publishVars
<1>16. CASE PublishRelations
  BY <1>16, <1>a, <1>b, QuietDurable DEF PublishRelations, Runs, Embedding, Indexing,
     checkpointVars, storeVars, publishVars
<1>17. CASE ActivateManifest
  BY <1>17, <1>a, <1>b, QuietDurable DEF ActivateManifest, Runs, Embedding, Indexing,
     checkpointVars, storeVars, publishVars
<1>18. CASE LeaveIncomplete
  BY <1>18, <1>a, <1>b, QuietDurable DEF LeaveIncomplete, Runs, Embedding, Indexing,
     checkpointVars, storeVars, publishVars
<1>19. CASE PublishHashes
  BY <1>19, <1>a, <1>b, QuietDurable DEF PublishHashes, Runs, Embedding, Indexing,
     checkpointVars, storeVars, publishVars
<1>20. CASE Complete
  BY <1>20, <1>a, <1>b, QuietDurable DEF Complete, Runs, Embedding, Indexing,
     checkpointVars, storeVars, publishVars
<1>21. CASE Execute
  <2>1. run'.pc = "batch"
    BY <1>21 DEF Execute, Idle
  <2> QED BY <1>21, <2>1, QuietDurable DEF Execute, Embedding, Indexing, checkpointVars,
             storeVars, publishVars
<1>22. CASE ExecuteFails
  BY <1>22, <1>a, <1>b, QuietDurable DEF ExecuteFails, Runs, Embedding, Indexing,
     checkpointVars, storeVars, publishVars
<1>23. CASE BeginBatchFails
  BY <1>23, <1>a, <1>b, QuietDurable DEF BeginBatchFails, Runs, Embedding, Indexing,
     checkpointVars, storeVars, publishVars
<1>24. CASE StoreEntitiesFails
  BY <1>24, <1>a, <1>b, QuietDurable DEF StoreEntitiesFails, Runs, Embedding, Indexing,
     checkpointVars, storeVars, publishVars
<1>25. CASE UnitRejected
  <2>1. stored' = stored /\ units' = units
    BY <1>25 DEF UnitRejected, checkpointVars, storeVars, publishVars
  <2> QED BY <1>25, <1>b, <2>1 DEF UnitRejected, Runs, DurableInv, CommittedDurable,
             Committed, Held, Embedding, Indexing
<1>26. CASE EmbeddingFails
  BY <1>26, <1>a, <1>b, QuietDurable DEF EmbeddingFails, Runs, Embedding, Indexing,
     checkpointVars, storeVars, publishVars
<1>27. CASE DocumentsFail
  BY <1>27, <1>a, <1>b, QuietDurable DEF DocumentsFail, Runs, Embedding, Indexing,
     checkpointVars, storeVars, publishVars
<1>28. CASE AdvanceBoundaryFails
  BY <1>28, <1>a, <1>b, QuietDurable DEF AdvanceBoundaryFails, Runs, Embedding, Indexing,
     checkpointVars, storeVars, publishVars
<1>29. CASE RelationsFail
  BY <1>29, <1>a, <1>b, QuietDurable DEF RelationsFail, Runs, Embedding, Indexing,
     checkpointVars, storeVars, publishVars
<1>30. CASE ActivationFails
  BY <1>30, <1>a, <1>b, QuietDurable DEF ActivationFails, Runs, Embedding, Indexing,
     checkpointVars, storeVars, publishVars
<1>31. CASE RunFails
  BY <1>31, <1>a, <1>b, QuietDurable DEF RunFails, Runs, Embedding, Indexing,
     checkpointVars, storeVars, publishVars
<1>32. CASE Crash
  BY <1>32, <1>a, <1>b, QuietDurable DEF Crash, Runs, Embedding, Indexing, checkpointVars,
     storeVars, publishVars
<1>33. ASSUME NEW f \in Files, FileProcessed(f) PROVE DurableInv'
  BY <1>33, <1>b, QuietDurable DEF FileProcessed, Runs, Embedding, Indexing, checkpointVars,
     storeVars, publishVars
<1>34. ASSUME NEW f \in Files, FileSkipped(f) PROVE DurableInv'
  BY <1>34, <1>b, QuietDurable DEF FileSkipped, Runs, Embedding, Indexing, checkpointVars,
     storeVars, publishVars
<1>35. ASSUME NEW f \in Files, FileFails(f) PROVE DurableInv'
  BY <1>35, <1>b, QuietDurable DEF FileFails, Runs, Embedding, Indexing, checkpointVars,
     storeVars, publishVars
<1>36. CASE UNCHANGED vars
  BY <1>36 DEF vars, DurableInv, CommittedDurable, Committed, Held, checkpointVars,
     storeVars, publishVars
<1> QED BY <1>1, <1>2, <1>3, <1>4, <1>5, <1>6, <1>7, <1>8, <1>9, <1>10, <1>11, <1>12, <1>13,
           <1>14, <1>15, <1>16, <1>17, <1>18, <1>19, <1>20, <1>21, <1>22, <1>23, <1>24,
           <1>25, <1>26, <1>27, <1>28, <1>29, <1>30, <1>31, <1>32, <1>33, <1>34, <1>35,
           <1>36 DEF BatchNext, BatchStep, FinalStep, FaultStep

\* The durability invariant holds throughout.
THEOREM DurableInvariance == BatchSpec => []DurableInv
<1>1. TypeInv /\ DurableInv /\ [BatchNext]_vars => DurableInv'
  BY DurableStep
<1> QED BY TypeInvariance, DurableInit, <1>1, PTL DEF BatchSpec

\* A work unit is marked Committed only once its data is durable (vector.rs):
\* whatever fails or crashes between the write of a buffer, the mappings and the
\* markers, what a later run skips is in the store.
THEOREM CommittedIsDurable == BatchSpec => []CommittedDurable
<1>1. DurableInv => CommittedDurable
  BY DEF DurableInv
<1> QED BY DurableInvariance, <1>1, PTL

-----------------------------------------------------------------------------
(* What a step may take back *)

\* Every step is a growth: rows, rewritten files, markers and stored chunks only
\* grow, and a link only goes when store_parsed_files rewrites the rows it hangs
\* on.
LEMMA GrowthStep ==
  TypeInv /\ [BatchNext]_vars => Growth
<1> SUFFICES ASSUME TypeInv, [BatchNext]_vars PROVE Growth
  OBVIOUS
<1>b. /\ run \in Runs /\ stored \in [Stages -> [Ids -> Files \cup {NoFile}]]
      /\ units \in [Stages -> SUBSET Hashes] /\ links \in [Stages -> SUBSET Files]
  BY DEF TypeInv, Typed
<1>e. "embedding" \in Stages /\ "bm25" \in Stages
  BY DEF Stages
<1>1. CASE BeginBatch
  BY <1>1 DEF BeginBatch, Growth, Committed, Held, checkpointVars, storeVars, publishVars
<1>2. CASE BatchesDone
  BY <1>2 DEF BatchesDone, Growth, Committed, Held, checkpointVars, storeVars, publishVars
<1>3. CASE Collect
  BY <1>3 DEF Collect, Growth, Committed, Held, checkpointVars, storeVars, publishVars
<1>4. CASE StoreEntities
  <2>1. \A s \in Stages : links'[s] = links[s] \ run.ok /\ links[s] \subseteq rows
    BY <1>4 DEF StoreEntities, TypeInv, Shaped
  <2> QED BY <1>4, <2>1 DEF StoreEntities, Growth, Committed, Held, checkpointVars,
             storeVars, publishVars
<1>5. CASE PushPoints
  <2>1. units' = units /\ rows' = rows /\ rewritten' = rewritten /\ links' = links
    BY <1>5 DEF PushPoints, checkpointVars, storeVars, publishVars
  <2>2. \A f \in Files, t \in Stages : Held(f, t) => Held(f, t)'
    <3> DEFINE buffer == run.buffered \cup FirstUnit
    <3>1. buffer \in SUBSET Files
      BY <1>5, <1>b, FirstUnitTaken DEF PushPoints, Runs, TypeInv, Shaped, Storing,
         Embedding
    <3>2. stored' = stored \/ Upsert("embedding", buffer)
      BY <1>5 DEF PushPoints
    <3> HIDE DEF buffer
    <3>3. CASE stored' = stored
      BY <3>3 DEF Held
    <3>4. CASE Upsert("embedding", buffer)
      BY <1>b, <1>e, <3>1, <3>4, UpsertHolds
    <3> QED BY <3>2, <3>3, <3>4
  <2> QED BY <2>1, <2>2 DEF Growth, Committed
<1>6. CASE LinkPoints
  <2>1. \A s \in Stages : links[s] \subseteq links'[s]
    BY <1>6, <1>b DEF LinkPoints, Stages
  <2> QED BY <1>6, <2>1 DEF LinkPoints, Growth, Committed, Held, checkpointVars, storeVars,
             publishVars
<1>7. CASE RetryDeferred
  BY <1>7 DEF RetryDeferred, Growth, Committed, Held, checkpointVars, storeVars, publishVars
<1>8. CASE FlushPoints
  <2>1. units' = units /\ rows' = rows /\ rewritten' = rewritten /\ links' = links
    BY <1>8 DEF FlushPoints, checkpointVars, storeVars, publishVars
  <2>2. \A f \in Files, t \in Stages : Held(f, t) => Held(f, t)'
    <3>1. run.buffered \in SUBSET Files /\ Upsert("embedding", run.buffered)
      BY <1>8, <1>b DEF FlushPoints, Runs
    <3> QED BY <1>b, <1>e, <3>1, UpsertHolds
  <2> QED BY <2>1, <2>2 DEF Growth, Committed
<1>9. CASE CommitUnits
  <2>1. \A s \in Stages : units[s] \subseteq units'[s]
    BY <1>9, <1>b DEF CommitUnits, Stages
  <2>2. \A f \in Files, s \in Stages : Committed(f, s) => Committed(f, s)'
    BY <2>1 DEF Committed
  <2> QED BY <1>9, <2>2 DEF CommitUnits, Growth, Held, checkpointVars, storeVars,
             publishVars
<1>10. CASE IndexDocuments
  <2>1. units' = units /\ rows' = rows /\ rewritten' = rewritten /\ links' = links
    BY <1>10 DEF IndexDocuments, checkpointVars, storeVars, publishVars
  <2>2. \A f \in Files, t \in Stages : Held(f, t) => Held(f, t)'
    <3> DEFINE written == UNION Uncommitted(run.ok, "bm25")
    <3>1. run.ok \in SUBSET Files
      BY <1>b DEF Runs
    <3>2. written \in SUBSET Files
      BY <1>e, <3>1, UnitsWithin
    <3>3. Upsert("bm25", written)
      BY <1>10 DEF IndexDocuments
    <3> HIDE DEF written
    <3> QED BY <1>b, <1>e, <3>2, <3>3, UpsertHolds
  <2> QED BY <2>1, <2>2 DEF Growth, Committed
<1>11. CASE LinkDocuments
  <2>1. \A s \in Stages : links[s] \subseteq links'[s]
    BY <1>11, <1>b DEF LinkDocuments, Stages
  <2> QED BY <1>11, <2>1 DEF LinkDocuments, Growth, Committed, Held, checkpointVars,
             storeVars, publishVars
<1>12. CASE CommitDocuments
  <2>1. \A s \in Stages : units[s] \subseteq units'[s]
    BY <1>12, <1>b DEF CommitDocuments, Stages
  <2>2. \A f \in Files, s \in Stages : Committed(f, s) => Committed(f, s)'
    BY <2>1 DEF Committed
  <2> QED BY <1>12, <2>2 DEF CommitDocuments, Growth, Held, checkpointVars, storeVars,
             publishVars
<1>13. CASE StopBatches
  BY <1>13 DEF StopBatches, Growth, Committed, Held, checkpointVars, storeVars, publishVars
<1>14. CASE ContinueBatches
  BY <1>14 DEF ContinueBatches, Growth, Committed, Held, checkpointVars, storeVars,
     publishVars
<1>15. CASE AdvanceBoundary
  BY <1>15 DEF AdvanceBoundary, Growth, Committed, Held, checkpointVars, storeVars,
     publishVars
<1>16. CASE PublishRelations
  BY <1>16 DEF PublishRelations, Growth, Committed, Held, checkpointVars, storeVars,
     publishVars
<1>17. CASE ActivateManifest
  BY <1>17 DEF ActivateManifest, Growth, Committed, Held, checkpointVars, storeVars,
     publishVars
<1>18. CASE LeaveIncomplete
  BY <1>18 DEF LeaveIncomplete, Growth, Committed, Held, checkpointVars, storeVars,
     publishVars
<1>19. CASE PublishHashes
  BY <1>19 DEF PublishHashes, Growth, Committed, Held, checkpointVars, storeVars,
     publishVars
<1>20. CASE Complete
  BY <1>20 DEF Complete, Growth, Committed, Held, checkpointVars, storeVars, publishVars
<1>21. CASE Execute
  BY <1>21 DEF Execute, Growth, Committed, Held, checkpointVars, storeVars, publishVars
<1>22. CASE ExecuteFails
  BY <1>22 DEF ExecuteFails, Growth, Committed, Held, checkpointVars, storeVars, publishVars
<1>23. CASE BeginBatchFails
  BY <1>23 DEF BeginBatchFails, Growth, Committed, Held, checkpointVars, storeVars,
     publishVars
<1>24. CASE StoreEntitiesFails
  BY <1>24 DEF StoreEntitiesFails, Growth, Committed, Held, checkpointVars, storeVars,
     publishVars
<1>25. CASE UnitRejected
  BY <1>25 DEF UnitRejected, Growth, Committed, Held, checkpointVars, storeVars, publishVars
<1>26. CASE EmbeddingFails
  BY <1>26 DEF EmbeddingFails, Growth, Committed, Held, checkpointVars, storeVars,
     publishVars
<1>27. CASE DocumentsFail
  BY <1>27 DEF DocumentsFail, Growth, Committed, Held, checkpointVars, storeVars,
     publishVars
<1>28. CASE AdvanceBoundaryFails
  BY <1>28 DEF AdvanceBoundaryFails, Growth, Committed, Held, checkpointVars, storeVars,
     publishVars
<1>29. CASE RelationsFail
  BY <1>29 DEF RelationsFail, Growth, Committed, Held, checkpointVars, storeVars,
     publishVars
<1>30. CASE ActivationFails
  BY <1>30 DEF ActivationFails, Growth, Committed, Held, checkpointVars, storeVars,
     publishVars
<1>31. CASE RunFails
  BY <1>31 DEF RunFails, Growth, Committed, Held, checkpointVars, storeVars, publishVars
<1>32. CASE Crash
  BY <1>32 DEF Crash, Growth, Committed, Held, checkpointVars, storeVars, publishVars
<1>33. ASSUME NEW f \in Files, FileProcessed(f) PROVE Growth
  BY <1>33 DEF FileProcessed, Growth, Committed, Held, checkpointVars, storeVars,
     publishVars
<1>34. ASSUME NEW f \in Files, FileSkipped(f) PROVE Growth
  BY <1>34 DEF FileSkipped, Growth, Committed, Held, checkpointVars, storeVars, publishVars
<1>35. ASSUME NEW f \in Files, FileFails(f) PROVE Growth
  BY <1>35 DEF FileFails, Growth, Committed, Held, checkpointVars, storeVars, publishVars
<1>36. CASE UNCHANGED vars
  BY <1>36 DEF vars, Growth, Committed, Held, checkpointVars, storeVars, publishVars
<1> QED BY <1>1, <1>2, <1>3, <1>4, <1>5, <1>6, <1>7, <1>8, <1>9, <1>10, <1>11, <1>12, <1>13,
           <1>14, <1>15, <1>16, <1>17, <1>18, <1>19, <1>20, <1>21, <1>22, <1>23, <1>24,
           <1>25, <1>26, <1>27, <1>28, <1>29, <1>30, <1>31, <1>32, <1>33, <1>34, <1>35,
           <1>36 DEF BatchNext, BatchStep, FinalStep, FaultStep

\* A file that is indexed stays indexed unless its entities are being rewritten.
LEMMA IndexedGrows ==
  ASSUME Growth, NEW f \in Files, NEW s \in Stages, Indexed(f, s),
         ~ (run.pc = "entities" /\ f \in run.ok)
  PROVE  Indexed(f, s)'
BY DEF Growth, Indexed, Redone

\* No failure, crash or resumption takes back what a run has stored: rows, markers
\* and chunks only grow, and links go only with rows that are rewritten.
THEOREM NothingTakenBack == BatchSpec => [][Growth]_vars
<1>1. TypeInv /\ [BatchNext]_vars => [Growth]_vars
  BY GrowthStep
<1> QED BY TypeInvariance, <1>1, PTL DEF BatchSpec

-----------------------------------------------------------------------------
(* The relation graph *)

\* With absolute paths no file of a recovered batch has a checkpoint under the path
\* it is looked up by: a resumed run starts at the first batch.
LEMMA StartsOver ==
  ASSUME AbsolutePaths, TypeInv
  PROVE  Validated(ck.boundary) = 0
<1> DEFINE b == ck.boundary
           unknown == {c \in 0 .. b - 1 : \E f \in Batch(c) : Path[f] \notin records}
<1>1. b \in 0 .. TotalBatches /\ \A f \in Files : Path[f] \notin records
  BY DEF TypeInv, Typed, AbsolutePaths
<1>2. Validated(b) \in 0 .. b
  BY <1>1, ValidatedType
<1>3. CASE b = 0
  BY <1>2, <1>3
<1>4. CASE b > 0
  <2>1. NumFiles > 0
    <3>1. NumFiles \in Nat /\ BatchSize \in Nat \ {0}
      BY BatchAssumption
    <3>2. NumFiles = 0 => (NumFiles + BatchSize - 1) \div BatchSize = 0
      BY <3>1, SMT
    <3> QED BY <1>1, <1>4, <3>1, <3>2, Arithmetic DEF TotalBatches
  <2>2. 1 \in Batch(0)
    <3>1. (1 - 1) \div BatchSize = 0
      BY BatchAssumption, SMT
    <3> QED BY <2>1, <3>1, Arithmetic DEF Files, Batch
  <2>3. 0 \in unknown
    <3>1. 0 \in 0 .. b - 1
      BY <1>1, <1>4, Arithmetic
    <3>2. Path[1] \notin records
      BY <1>1, <2>2 DEF Batch
    <3> QED BY <2>2, <3>1, <3>2
  <2>4. unknown \in SUBSET Nat
    BY <1>1, Arithmetic
  <2>5. Validated(b) = Min(unknown)
    BY <2>3 DEF Validated
  <2> HIDE DEF unknown
  <2>6. Min(unknown) \in Nat /\ Min(unknown) <= 0
    BY <2>3, <2>4, MinOfNat
  <2> QED BY <2>5, <2>6
<1> QED BY <1>1, <1>3, <1>4, Arithmetic

\* So a run begins with the first batch and an empty relation spool.
LEMMA FreshRun ==
  ASSUME AbsolutePaths, TypeInv, Execute
  PROVE  /\ run'.pc = "batch" /\ run'.batch = 0 /\ run'.spool = {}
<1> DEFINE spool == UNION {Batch(b) : b \in 0 .. 0 - 1}
<1>1. spool = {}
  BY SMT
<1>2. \/ run' = [Idle EXCEPT !.pc = "batch", !.batch = 0, !.spool = spool]
      \/ run' = [[Idle EXCEPT !.pc = "batch", !.batch = 0, !.spool = spool]
                   EXCEPT !.complete = FALSE]
  BY StartsOver DEF Execute
<1> HIDE DEF spool
<1> QED BY <1>1, <1>2 DEF Idle

\* No run is in flight in a new operation.
LEMMA ParseInit == BatchInit => ParseInv
BY DEF BatchInit, ParseInv, Idle, InBatch, Storing, Embedding, Indexing

\* Every step keeps the account of the files of the batch.
LEMMA ParseStep ==
  ASSUME AbsolutePaths
  PROVE  TypeInv /\ ParseInv /\ [BatchNext]_vars => ParseInv'
<1> SUFFICES ASSUME TypeInv, ParseInv, [BatchNext]_vars PROVE ParseInv'
  OBVIOUS
<1>a. Idle.pc = "idle" /\ Idle.spool = {}
  BY DEF Idle
<1>b. run \in Runs
  BY DEF TypeInv, Typed
<1>c. \A b : Batch(b) \subseteq Files
  BY DEF Batch
<1>1. CASE BeginBatch
  BY <1>1, <1>a, <1>b DEF BeginBatch, Runs, ParseInv, InBatch, Storing, Embedding, Indexing
<1>2. CASE BatchesDone
  BY <1>2, <1>a, <1>b DEF BatchesDone, Runs, ParseInv, InBatch, Storing, Embedding, Indexing
<1>3. CASE Collect
  <2>1. run'.pc \in {"classify", "entities"} /\ run.pc = "parse" /\ run.waiting = {}
    BY <1>3, <1>b DEF Collect, Runs
  <2>2. /\ run'.ok = run.ok /\ run'.waiting = run.waiting /\ run'.failed = run.failed
        /\ run'.batch = run.batch /\ run'.spool = run.spool \cup run.ok
    BY <1>3, <1>b DEF Collect, Runs
  <2>3. run.ok \subseteq Good
    BY <1>c, <2>1 DEF ParseInv, InBatch, Good
  <2> QED BY <2>1, <2>2, <2>3 DEF ParseInv, InBatch, Storing, Embedding, Indexing
<1>4. CASE StoreEntities
  BY <1>4, <1>a, <1>b DEF StoreEntities, Runs, ParseInv, InBatch, Storing, Embedding,
     Indexing
<1>5. CASE PushPoints
  <2>1. /\ run.pc = "embed" /\ run'.pc = "link" /\ run'.ok = run.ok /\ run'.waiting = run.waiting
        /\ run'.failed = run.failed /\ run'.batch = run.batch /\ run'.spool = run.spool
    BY <1>5, <1>b DEF PushPoints, Runs
  <2> QED BY <2>1 DEF ParseInv, InBatch, Storing, Embedding, Indexing
<1>6. CASE LinkPoints
  BY <1>6, <1>a, <1>b DEF LinkPoints, Runs, ParseInv, InBatch, Storing, Embedding, Indexing
<1>7. CASE RetryDeferred
  BY <1>7, <1>a, <1>b DEF RetryDeferred, Runs, ParseInv, InBatch, Storing, Embedding,
     Indexing
<1>8. CASE FlushPoints
  BY <1>8, <1>a, <1>b DEF FlushPoints, Runs, ParseInv, InBatch, Storing, Embedding, Indexing
<1>9. CASE CommitUnits
  BY <1>9, <1>a, <1>b DEF CommitUnits, Runs, ParseInv, InBatch, Storing, Embedding, Indexing
<1>10. CASE IndexDocuments
  BY <1>10, <1>a, <1>b DEF IndexDocuments, Runs, ParseInv, InBatch, Storing, Embedding,
     Indexing
<1>11. CASE LinkDocuments
  BY <1>11, <1>a, <1>b DEF LinkDocuments, Runs, ParseInv, InBatch, Storing, Embedding,
     Indexing
<1>12. CASE CommitDocuments
  BY <1>12, <1>a, <1>b DEF CommitDocuments, Runs, ParseInv, InBatch, Storing, Embedding,
     Indexing
<1>13. CASE StopBatches
  BY <1>13, <1>a, <1>b DEF StopBatches, Runs, ParseInv, InBatch, Storing, Embedding,
     Indexing
<1>14. CASE ContinueBatches
  BY <1>14, <1>a, <1>b DEF ContinueBatches, Runs, ParseInv, InBatch, Storing, Embedding,
     Indexing
<1>15. CASE AdvanceBoundary
  BY <1>15, <1>a, <1>b DEF AdvanceBoundary, Runs, ParseInv, InBatch, Storing, Embedding,
     Indexing
<1>16. CASE PublishRelations
  <2>1. run'.pc = "finalize" /\ run'.spool = run.spool
    BY <1>16, <1>b DEF PublishRelations, Runs
  <2> QED BY <2>1 DEF ParseInv, InBatch, Storing, Embedding, Indexing
<1>17. CASE ActivateManifest
  BY <1>17, <1>a, <1>b DEF ActivateManifest, Runs, ParseInv, InBatch, Storing, Embedding,
     Indexing
<1>18. CASE LeaveIncomplete
  BY <1>18, <1>a, <1>b DEF LeaveIncomplete, Runs, ParseInv, InBatch, Storing, Embedding,
     Indexing
<1>19. CASE PublishHashes
  BY <1>19, <1>a, <1>b DEF PublishHashes, Runs, ParseInv, InBatch, Storing, Embedding,
     Indexing
<1>20. CASE Complete
  BY <1>20, <1>a, <1>b DEF Complete, Runs, ParseInv, InBatch, Storing, Embedding, Indexing
<1>21. CASE Execute
  BY <1>21, FreshRun DEF ParseInv, InBatch, Storing, Embedding, Indexing
<1>22. CASE ExecuteFails
  BY <1>22, <1>a, <1>b DEF ExecuteFails, Runs, ParseInv, InBatch, Storing, Embedding,
     Indexing
<1>23. CASE BeginBatchFails
  BY <1>23, <1>a, <1>b DEF BeginBatchFails, Runs, ParseInv, InBatch, Storing, Embedding,
     Indexing
<1>24. CASE StoreEntitiesFails
  BY <1>24, <1>a, <1>b DEF StoreEntitiesFails, Runs, ParseInv, InBatch, Storing, Embedding,
     Indexing
<1>25. CASE UnitRejected
  <2>1. /\ run.pc = "embed" /\ run'.pc = "embed" /\ run'.ok = run.ok /\ run'.waiting = run.waiting
        /\ run'.failed = run.failed /\ run'.batch = run.batch /\ run'.spool = run.spool
    BY <1>25, <1>b DEF UnitRejected, Runs
  <2> QED BY <2>1 DEF ParseInv, InBatch, Storing, Embedding, Indexing
<1>26. CASE EmbeddingFails
  BY <1>26, <1>a, <1>b DEF EmbeddingFails, Runs, ParseInv, InBatch, Storing, Embedding,
     Indexing
<1>27. CASE DocumentsFail
  BY <1>27, <1>a, <1>b DEF DocumentsFail, Runs, ParseInv, InBatch, Storing, Embedding,
     Indexing
<1>28. CASE AdvanceBoundaryFails
  BY <1>28, <1>a, <1>b DEF AdvanceBoundaryFails, Runs, ParseInv, InBatch, Storing,
     Embedding, Indexing
<1>29. CASE RelationsFail
  BY <1>29, <1>a, <1>b DEF RelationsFail, Runs, ParseInv, InBatch, Storing, Embedding,
     Indexing
<1>30. CASE ActivationFails
  BY <1>30, <1>a, <1>b DEF ActivationFails, Runs, ParseInv, InBatch, Storing, Embedding,
     Indexing
<1>31. CASE RunFails
  BY <1>31, <1>a, <1>b DEF RunFails, Runs, ParseInv, InBatch, Storing, Embedding, Indexing
<1>32. CASE Crash
  BY <1>32, <1>a, <1>b DEF Crash, Runs, ParseInv, InBatch, Storing, Embedding, Indexing
<1>33. ASSUME NEW f \in Files, FileProcessed(f) PROVE ParseInv'
  BY <1>33, <1>a, <1>b DEF FileProcessed, Runs, ParseInv, InBatch, Storing, Embedding,
     Indexing
<1>34. ASSUME NEW f \in Files, FileSkipped(f) PROVE ParseInv'
  BY <1>34, <1>a, <1>b DEF FileSkipped, Runs, ParseInv, InBatch, Storing, Embedding,
     Indexing
<1>35. ASSUME NEW f \in Files, FileFails(f) PROVE ParseInv'
  BY <1>35, <1>a, <1>b DEF FileFails, Runs, ParseInv, InBatch, Storing, Embedding, Indexing
<1>36. CASE UNCHANGED vars
  BY <1>36 DEF vars, ParseInv
<1> QED BY <1>1, <1>2, <1>3, <1>4, <1>5, <1>6, <1>7, <1>8, <1>9, <1>10, <1>11, <1>12, <1>13,
           <1>14, <1>15, <1>16, <1>17, <1>18, <1>19, <1>20, <1>21, <1>22, <1>23, <1>24,
           <1>25, <1>26, <1>27, <1>28, <1>29, <1>30, <1>31, <1>32, <1>33, <1>34, <1>35,
           <1>36 DEF BatchNext, BatchStep, FinalStep, FaultStep

\* A new operation has no snapshot and publishes nothing.
LEMMA GraphInit == BatchInit => GraphInv
BY DEF BatchInit, GraphInv, Idle, Closing

\* Every step keeps the spool and snapshot invariant: a batch is only passed with
\* every file parsed, or the run is no longer complete.
LEMMA GraphStep ==
  ASSUME AbsolutePaths
  PROVE  TypeInv /\ ParseInv /\ GraphInv /\ [BatchNext]_vars => GraphInv'
<1> SUFFICES ASSUME TypeInv, ParseInv, GraphInv, [BatchNext]_vars PROVE GraphInv'
  OBVIOUS
<1>a. Idle.pc = "idle"
  BY DEF Idle
<1>b. run \in Runs /\ TotalBatches \in Nat
  BY Arithmetic DEF TypeInv, Typed
<1>c. \A f \in Good : f \in Files /\ BatchOf(f) \in Nat /\ BatchOf(f) < TotalBatches
  BY Arithmetic DEF Good
<1>1. CASE BeginBatch
  BY <1>1, <1>a, <1>b DEF BeginBatch, Runs, GraphInv, Closing, checkpointVars, storeVars,
     publishVars
<1>2. CASE BatchesDone
  BY <1>2, <1>a, <1>b DEF BatchesDone, Runs, GraphInv, Closing, checkpointVars, storeVars,
     publishVars
<1>3. CASE Collect
  <2>1. /\ run'.pc \in {"classify", "entities"} /\ run.pc = "parse" /\ run'.batch = run.batch
        /\ run'.complete = run.complete /\ run'.spool = run.spool \cup run.ok
        /\ snapshot' = snapshot /\ manifest' = manifest
    BY <1>3, <1>b DEF Collect, Runs, publishVars
  <2> QED BY <2>1 DEF GraphInv, Closing
<1>4. CASE StoreEntities
  BY <1>4, <1>a, <1>b DEF StoreEntities, Runs, GraphInv, Closing, checkpointVars, storeVars,
     publishVars
<1>5. CASE PushPoints
  <2>1. /\ run'.pc = "link" /\ run.pc = "embed" /\ run'.batch = run.batch
        /\ run'.complete = run.complete /\ run'.spool = run.spool
        /\ snapshot' = snapshot /\ manifest' = manifest
    BY <1>5, <1>b DEF PushPoints, Runs, publishVars
  <2> QED BY <2>1 DEF GraphInv, Closing
<1>6. CASE LinkPoints
  BY <1>6, <1>a, <1>b DEF LinkPoints, Runs, GraphInv, Closing, checkpointVars, storeVars,
     publishVars
<1>7. CASE RetryDeferred
  BY <1>7, <1>a, <1>b DEF RetryDeferred, Runs, GraphInv, Closing, checkpointVars, storeVars,
     publishVars
<1>8. CASE FlushPoints
  BY <1>8, <1>a, <1>b DEF FlushPoints, Runs, GraphInv, Closing, checkpointVars, storeVars,
     publishVars
<1>9. CASE CommitUnits
  BY <1>9, <1>a, <1>b DEF CommitUnits, Runs, GraphInv, Closing, checkpointVars, storeVars,
     publishVars
<1>10. CASE IndexDocuments
  BY <1>10, <1>a, <1>b DEF IndexDocuments, Runs, GraphInv, Closing, checkpointVars,
     storeVars, publishVars
<1>11. CASE LinkDocuments
  BY <1>11, <1>a, <1>b DEF LinkDocuments, Runs, GraphInv, Closing, checkpointVars,
     storeVars, publishVars
<1>12. CASE CommitDocuments
  BY <1>12, <1>a, <1>b DEF CommitDocuments, Runs, GraphInv, Closing, checkpointVars,
     storeVars, publishVars
<1>13. CASE StopBatches
  BY <1>13, <1>a, <1>b DEF StopBatches, Runs, GraphInv, Closing, checkpointVars, storeVars,
     publishVars
<1>14. CASE ContinueBatches
  BY <1>14, <1>a, <1>b DEF ContinueBatches, Runs, GraphInv, Closing, checkpointVars,
     storeVars, publishVars
<1>15. CASE AdvanceBoundary
  <2>1. /\ run.pc = "classify" /\ run'.pc = "batch" /\ run'.batch = run.batch + 1
        /\ run'.complete = run.complete /\ run'.spool = run.spool
        /\ snapshot' = snapshot /\ manifest' = manifest
    BY <1>15, <1>b DEF AdvanceBoundary, Runs, publishVars
  <2>2. ~ run.failed
    BY <1>15 DEF AdvanceBoundary
  <2>3. Batch(run.batch) \ Bad \subseteq run.spool
    BY <2>1, <2>2 DEF ParseInv, InBatch
  <2>4. \A f \in Good : BatchOf(f) = run.batch => f \in run.spool
    BY <2>3 DEF Good, Batch, BatchOf
  <2>5. run.batch \in Nat
    BY <1>b DEF Runs
  <2>6. \A f \in Good : BatchOf(f) < run.batch + 1 => BatchOf(f) < run.batch \/ BatchOf(f) = run.batch
    BY <1>c, <2>5
  <2> QED BY <2>1, <2>4, <2>6 DEF GraphInv, Closing
<1>16. CASE PublishRelations
  <2> DEFINE whole == run.complete /\ snapshot \in {NoSnapshot, run.spool}
  <2>1. run'.pc = "finalize" /\ run'.spool = run.spool /\ run'.batch = run.batch /\ run.pc = "relations"
    BY <1>16, <1>b DEF PublishRelations, Runs
  <2>2. whole => snapshot' = run.spool /\ run'.complete = run.complete
    BY <1>16, <1>b DEF PublishRelations, Runs
  <2>3. ~ whole => snapshot' = snapshot /\ run'.complete = FALSE
    BY <1>16, <1>b DEF PublishRelations, Runs
  <2>4. run.complete => run.batch = TotalBatches /\ run.spool = Good
    BY <1>c, <2>1 DEF GraphInv, ParseInv, Closing
  <2>5. manifest' = manifest
    BY <1>16 DEF PublishRelations
  <2> QED BY <1>c, <2>1, <2>2, <2>3, <2>4, <2>5 DEF GraphInv, Closing
<1>17. CASE ActivateManifest
  BY <1>17, <1>a, <1>b DEF ActivateManifest, Runs, GraphInv, Closing, checkpointVars,
     storeVars, publishVars
<1>18. CASE LeaveIncomplete
  BY <1>18, <1>a DEF LeaveIncomplete, Failed, GraphInv, Closing, checkpointVars, storeVars,
     publishVars
<1>19. CASE PublishHashes
  BY <1>19, <1>a, <1>b DEF PublishHashes, Runs, GraphInv, Closing, checkpointVars,
     storeVars, publishVars
<1>20. CASE Complete
  BY <1>20, <1>a, <1>b DEF Complete, Runs, GraphInv, Closing, checkpointVars, storeVars,
     publishVars
<1>21. CASE Execute
  <2>1. run'.pc = "batch" /\ run'.batch = 0 /\ (manifest' = "active" => manifest = "active")
    BY <1>21, FreshRun DEF Execute, Building
  <2> QED BY <1>21, <1>c, <2>1 DEF Execute, GraphInv, Closing, checkpointVars, storeVars,
             publishVars
<1>22. CASE ExecuteFails
  <2>1. manifest' = "active" => manifest = "active"
    BY <1>22 DEF ExecuteFails, Building
  <2> QED BY <1>22, <2>1 DEF ExecuteFails, GraphInv, Closing, checkpointVars, storeVars,
             publishVars
<1>23. CASE BeginBatchFails
  BY <1>23, <1>a, <1>b DEF BeginBatchFails, Runs, GraphInv, Closing, checkpointVars,
     storeVars, publishVars
<1>24. CASE StoreEntitiesFails
  BY <1>24, <1>a, <1>b DEF StoreEntitiesFails, Runs, GraphInv, Closing, checkpointVars,
     storeVars, publishVars
<1>25. CASE UnitRejected
  <2>1. /\ run'.pc = "embed" /\ run.pc = "embed" /\ run'.batch = run.batch
        /\ run'.complete = run.complete /\ run'.spool = run.spool
        /\ snapshot' = snapshot /\ manifest' = manifest
    BY <1>25, <1>b DEF UnitRejected, Runs, publishVars
  <2> QED BY <2>1 DEF GraphInv, Closing
<1>26. CASE EmbeddingFails
  BY <1>26, <1>a, <1>b DEF EmbeddingFails, Runs, GraphInv, Closing, checkpointVars,
     storeVars, publishVars
<1>27. CASE DocumentsFail
  BY <1>27, <1>a, <1>b DEF DocumentsFail, Runs, GraphInv, Closing, checkpointVars,
     storeVars, publishVars
<1>28. CASE AdvanceBoundaryFails
  BY <1>28, <1>a, <1>b DEF AdvanceBoundaryFails, Runs, GraphInv, Closing, checkpointVars,
     storeVars, publishVars
<1>29. CASE RelationsFail
  BY <1>29, <1>a, <1>b DEF RelationsFail, Runs, GraphInv, Closing, checkpointVars,
     storeVars, publishVars
<1>30. CASE ActivationFails
  BY <1>30, <1>a DEF ActivationFails, Failed, GraphInv, Closing, checkpointVars, storeVars,
     publishVars
<1>31. CASE RunFails
  BY <1>31, <1>a, <1>b DEF RunFails, Runs, GraphInv, Closing, checkpointVars, storeVars,
     publishVars
<1>32. CASE Crash
  BY <1>32, <1>a, <1>b DEF Crash, Runs, GraphInv, Closing, checkpointVars, storeVars,
     publishVars
<1>33. ASSUME NEW f \in Files, FileProcessed(f) PROVE GraphInv'
  BY <1>33, <1>a, <1>b DEF FileProcessed, Runs, GraphInv, Closing, checkpointVars,
     storeVars, publishVars
<1>34. ASSUME NEW f \in Files, FileSkipped(f) PROVE GraphInv'
  BY <1>34, <1>a, <1>b DEF FileSkipped, Runs, GraphInv, Closing, checkpointVars, storeVars,
     publishVars
<1>35. ASSUME NEW f \in Files, FileFails(f) PROVE GraphInv'
  BY <1>35, <1>a, <1>b DEF FileFails, Runs, GraphInv, Closing, checkpointVars, storeVars,
     publishVars
<1>36. CASE UNCHANGED vars
  BY <1>36 DEF vars, GraphInv, publishVars
<1> QED BY <1>1, <1>2, <1>3, <1>4, <1>5, <1>6, <1>7, <1>8, <1>9, <1>10, <1>11, <1>12, <1>13,
           <1>14, <1>15, <1>16, <1>17, <1>18, <1>19, <1>20, <1>21, <1>22, <1>23, <1>24,
           <1>25, <1>26, <1>27, <1>28, <1>29, <1>30, <1>31, <1>32, <1>33, <1>34, <1>35,
           <1>36 DEF BatchNext, BatchStep, FinalStep, FaultStep

\* Parse and graph invariants hold throughout.
THEOREM GraphInvariance ==
  ASSUME AbsolutePaths
  PROVE  BatchSpec => [](TypeInv /\ ParseInv /\ GraphInv)
<1>1. BatchInit => ParseInv /\ GraphInv
  BY ParseInit, GraphInit
<1>2. TypeInv /\ ParseInv /\ GraphInv /\ [BatchNext]_vars => ParseInv' /\ GraphInv'
  BY ParseStep, GraphStep
<1> QED BY TypeInvariance, <1>1, <1>2, PTL DEF BatchSpec

\* The relation graph of a published generation was built from every file that can
\* be indexed, also after failed, crashed and resumed runs:
\* build_and_publish_relations takes part only in runs whose spool is whole, and an
\* earlier snapshot of the operation is the same one.
THEOREM RelationsAreComplete ==
  ASSUME AbsolutePaths
  PROVE  BatchSpec => RelationsComplete
<1>1. GraphInv' => (manifest' = "active" => snapshot' = Files \ Bad)
  BY DEF GraphInv, Good
<1>2. TypeInv /\ ParseInv /\ GraphInv /\ [BatchNext]_vars => [manifest' = "active" => snapshot' = Files \ Bad]_vars
  BY <1>1, GraphStep
<1> QED BY GraphInvariance, <1>2, PTL DEF BatchSpec, RelationsComplete

-----------------------------------------------------------------------------
(* What is published *)

\* The hash of a unit counts the id of a file that shares it with no other exactly
\* when the file is in the unit.
LEMMA OwnHash ==
  ASSUME NEW u \in SUBSET Files, NEW f \in Files, Twins(f) = {f}
  PROVE  UnitHash(u)[ChunkId[f]] > 0 <=> f \in u
BY HashCounts DEF Twins

\* A parsed file is in a unit to write, unless the marker of its unit was
\* committed.
LEMMA CommittedOrPending ==
  ASSUME NEW S \in SUBSET Files, NEW s \in Stages, NEW f \in S
  PROVE  Committed(f, s) \/ \E u \in Uncommitted(S, s) : f \in u
<1>1. PICK u \in Units(S, s) : f \in u
  BY UnitsWithin
<1>2. u \in SUBSET Files
  BY UnitsWithin
<1>3. CASE UnitHash(u) \in units[s]
  BY <1>1, <1>2, <1>3, HashCounts DEF Committed
<1>4. CASE UnitHash(u) \notin units[s]
  BY <1>1, <1>4 DEF Uncommitted
<1> QED BY <1>3, <1>4

\* A step that leaves the markers alone and ends outside the stages, or in a broken
\* batch, keeps the stage invariant.
LEMMA QuietStage ==
  ASSUME StageInv, Growth, units' = units,
         run'.pc \notin Storing \cup {"classify"} \/ (run'.pc = "classify" /\ run'.broken)
  PROVE  StageInv'
BY DEF StageInv, Growth, Committed, Storing, Embedding, Indexing

\* No stage is under way in a new operation.
LEMMA StageInit == BatchInit => StageInv
BY DEF BatchInit, StageInv, Committed, Idle, Embedding, Indexing

\* Every step keeps the stage invariant.
LEMMA StageStep ==
  TypeInv /\ DurableInv /\ StageInv /\ [BatchNext]_vars => StageInv'
<1> SUFFICES ASSUME TypeInv, DurableInv, StageInv, [BatchNext]_vars PROVE StageInv'
  OBVIOUS
<1>a. Idle.pc = "idle"
  BY DEF Idle
<1>b. run \in Runs /\ units \in [Stages -> SUBSET Hashes] /\ links \in [Stages -> SUBSET Files]
  BY DEF TypeInv, Typed
<1>c. run.ok \in SUBSET Files /\ run.done \in SUBSET SUBSET Files
  BY <1>b DEF Runs
<1>d. Growth
  BY GrowthStep
<1>e. "embedding" \in Stages /\ "bm25" \in Stages /\ "embedding" # "bm25"
      /\ \A s \in Stages : s = "embedding" \/ s = "bm25"
  BY DEF Stages
<1>f. \A s \in Stages, f \in Files : Redone(f, s) => Redone(f, s)'
  BY <1>d DEF Growth, Redone
<1>g. units' = units => \A s \in Stages, f \in Files : Committed(f, s)' <=> Committed(f, s)
  BY DEF Committed
<1>h. units' = units =>
        \A s \in Stages, f \in Files : Committed(f, s)' => f \in rows' \/ Twins(f) # {f}
  BY <1>d, <1>g DEF StageInv, Growth
<1>1. CASE BeginBatch
  BY <1>1, <1>a, <1>b, <1>d, QuietStage DEF BeginBatch, Runs, Storing, Embedding, Indexing,
     checkpointVars, storeVars, publishVars
<1>2. CASE BatchesDone
  BY <1>2, <1>a, <1>b, <1>d, QuietStage DEF BatchesDone, Runs, Storing, Embedding, Indexing,
     checkpointVars, storeVars, publishVars
<1>3. CASE Collect
  <2>1. units' = units /\ run'.ok = run.ok /\ (run'.pc = "entities" \/ (run'.pc = "classify" /\ run.ok = {}))
    BY <1>3, <1>b DEF Collect, Runs, checkpointVars, storeVars, publishVars
  <2> QED BY <1>h, <2>1 DEF StageInv, Embedding, Indexing
<1>4. CASE StoreEntities
  <2> DEFINE new == Uncommitted(run.ok, "embedding")
  <2>1. /\ run'.pc = "embed" /\ run'.ok = run.ok /\ run'.todo = new /\ run'.done = {}
        /\ units' = units /\ rewritten' = rewritten \cup (run.ok \cap rows)
    BY <1>4, <1>b DEF StoreEntities, Runs, checkpointVars, storeVars, publishVars
  <2>2. ASSUME NEW f \in run.ok, NEW s \in Stages, Committed(f, s) PROVE Redone(f, s)'
    BY <1>c, <1>g, <2>1, <2>2 DEF StageInv, Redone
  <2>3. \A f \in run.ok : Redone(f, "embedding")' \/ \E u \in new : f \in u
    BY <1>c, <1>e, <2>2, CommittedOrPending
  <2>4. \A f \in run.ok : Committed(f, "bm25")' => f \in rewritten' \/ Twins(f) # {f}
    BY <1>c, <1>e, <1>g, <2>1, <2>2 DEF Redone
  <2> HIDE DEF new
  <2> QED BY <1>h, <2>1, <2>3, <2>4 DEF StageInv, Embedding, Indexing
<1>5. CASE PushPoints
  <2>1. FirstUnit \in run.todo /\ run.pc = "embed"
    BY <1>5, <1>b, FirstUnitTaken DEF PushPoints, Runs, TypeInv, Shaped, Storing, Embedding
  <2>2. /\ run'.pc = "link" /\ run'.ok = run.ok /\ run'.todo = run.todo \ {FirstUnit}
        /\ run'.unit = FirstUnit /\ run'.deferred = run.deferred /\ run'.done = run.done
        /\ run'.left = run.left /\ units' = units /\ links' = links /\ rewritten' = rewritten
    BY <1>5, <1>b DEF PushPoints, Runs, checkpointVars, storeVars, publishVars
  <2>3. ~ run.left => \A f \in run.ok :
           \/ Redone(f, "embedding")' \/ f \in FirstUnit
           \/ \E u \in (run.todo \ {FirstUnit}) \cup run.deferred \cup run.done : f \in u
    BY <1>c, <1>e, <1>f, <2>1 DEF StageInv, Embedding
  <2>4. UNION run.done \subseteq links["embedding"]
    BY <2>1 DEF StageInv, Embedding
  <2>5. \A f \in run.ok : Committed(f, "bm25")' => f \in rewritten' \/ Twins(f) # {f}
    BY <1>c, <1>e, <1>g, <2>1, <2>2 DEF StageInv, Embedding
  <2> QED BY <1>h, <2>2, <2>3, <2>4, <2>5 DEF StageInv, Embedding, Indexing
<1>6. CASE LinkPoints
  <2>1. /\ run.pc = "link" /\ run'.pc = "embed" /\ run'.ok = run.ok /\ run'.todo = run.todo
        /\ run'.deferred = run.deferred /\ run'.done = run.done \cup {run.unit}
        /\ run'.left = run.left /\ units' = units /\ rewritten' = rewritten
        /\ links'["embedding"] = links["embedding"] \cup run.unit
    BY <1>6, <1>b, <1>e DEF LinkPoints, Runs, checkpointVars, storeVars, publishVars
  <2>2. ~ run.left => \A f \in run.ok :
           \/ Redone(f, "embedding")'
           \/ \E u \in run.todo \cup run.deferred \cup (run.done \cup {run.unit}) : f \in u
    BY <1>c, <1>e, <1>f, <2>1 DEF StageInv, Embedding
  <2>3. UNION run'.done \subseteq links'["embedding"]
    BY <2>1 DEF StageInv, Embedding
  <2>4. \A f \in run.ok : Committed(f, "bm25")' => f \in rewritten' \/ Twins(f) # {f}
    BY <1>c, <1>e, <1>g, <2>1 DEF StageInv, Embedding
  <2> QED BY <1>h, <2>1, <2>2, <2>3, <2>4 DEF StageInv, Embedding, Indexing
<1>7. CASE RetryDeferred
  <2>1. /\ run.pc = "embed" /\ run'.pc = "embed" /\ run'.ok = run.ok /\ run'.todo = run.deferred
        /\ run.todo = {} /\ run'.deferred = {} /\ run'.done = run.done
        /\ run'.left = run.left /\ units' = units /\ rewritten' = rewritten /\ links' = links
    BY <1>7, <1>b DEF RetryDeferred, Runs, checkpointVars, storeVars, publishVars
  <2> QED BY <1>c, <1>e, <1>f, <1>g, <1>h, <2>1 DEF StageInv, Embedding, Indexing
<1>8. CASE FlushPoints
  <2>1. /\ run.pc = "embed" /\ run'.pc = "commit" /\ run'.ok = run.ok /\ run'.todo = run.todo
        /\ run.todo = {} /\ run.deferred = {} /\ run'.deferred = {} /\ run'.done = run.done
        /\ run'.left = run.left /\ units' = units /\ rewritten' = rewritten /\ links' = links
    BY <1>8, <1>b DEF FlushPoints, Runs, checkpointVars, storeVars, publishVars
  <2> QED BY <1>c, <1>e, <1>f, <1>g, <1>h, <2>1 DEF StageInv, Embedding, Indexing
<1>9. CASE CommitUnits
  <2>1. /\ run.pc = "commit" /\ run'.pc = "bm25" /\ run'.ok = run.ok /\ run'.done = {}
        /\ links' = links /\ rewritten' = rewritten /\ rows' = rows
    BY <1>9, <1>b DEF CommitUnits, Runs, checkpointVars, storeVars, publishVars
  <2>2. units' = units \/ units' = [units EXCEPT !["embedding"] = @ \cup {UnitHash(u) : u \in run.done}]
    BY <1>9 DEF CommitUnits, checkpointVars, storeVars, publishVars
  <2>3. ASSUME NEW s \in Stages, NEW f \in Files, Committed(f, s)'
        PROVE  Committed(f, s) \/ (s = "embedding" /\ (f \in UNION run.done \/ Twins(f) # {f}))
    <3>1. PICK h : h \in units'[s] /\ h[ChunkId[f]] > 0
      BY <2>3 DEF Committed
    <3>2. CASE h \in units[s]
      BY <3>1, <3>2 DEF Committed
    <3>3. CASE h \notin units[s]
      <4>1. s = "embedding" /\ \E u \in run.done : h = UnitHash(u)
        BY <1>b, <1>e, <2>2, <3>1, <3>3
      <4>2. PICK u \in run.done : h = UnitHash(u)
        BY <4>1
      <4> QED BY <1>c, <3>1, <4>1, <4>2, OwnHash
    <3> QED BY <3>2, <3>3
  <2>4. UNION run.done \subseteq rows
    BY <2>1 DEF TypeInv, Shaped, Storing, Embedding, Indexing
  <2>5. \A s \in Stages, f \in Files : Committed(f, s)' => f \in rows' \/ Twins(f) # {f}
    BY <2>1, <2>3, <2>4 DEF StageInv
  <2>6. run'.broken = run.left
    BY <1>9, <1>b DEF CommitUnits, Runs
  <2>7. \A f \in run.ok : Committed(f, "bm25")' => f \in rewritten' \/ Twins(f) # {f}
    BY <1>c, <1>e, <2>1, <2>3 DEF StageInv, Embedding
  <2>8. ASSUME ~ run.left, NEW f \in run.ok PROVE Indexed(f, "embedding")'
    <3>1. Redone(f, "embedding") \/ f \in UNION run.done
      BY <2>1, <2>8 DEF StageInv, Embedding
    <3>2. Held(f, "embedding")
      <4>1. CASE Redone(f, "embedding")
        BY <1>c, <1>e, <4>1 DEF Redone, DurableInv, CommittedDurable, Held
      <4>2. CASE f \in UNION run.done
        BY <2>1, <4>2 DEF DurableInv, Embedding
      <4> QED BY <3>1, <4>1, <4>2
    <3>3. f \in links["embedding"] \/ Redone(f, "embedding")
      BY <2>1, <3>1 DEF StageInv, Embedding
    <3>4. f \in rows
      BY <2>1 DEF TypeInv, Shaped, Storing, Embedding
    <3> QED BY <1>c, <1>d, <1>e, <2>1, <3>2, <3>3, <3>4, IndexedGrows DEF Indexed
  <2> QED BY <2>1, <2>5, <2>6, <2>7, <2>8 DEF StageInv, Embedding, Indexing
<1>10. CASE IndexDocuments
  <2> DEFINE pending == Uncommitted(run.ok, "bm25")
  <2>1. /\ run.pc = "bm25" /\ run'.pc = "linkdocs" /\ run'.ok = run.ok /\ run'.broken = run.broken
        /\ run'.done = pending /\ units' = units /\ rewritten' = rewritten
    BY <1>10, <1>b DEF IndexDocuments, Runs, checkpointVars, storeVars, publishVars
  <2>2. \A f \in run.ok : Redone(f, "bm25") \/ f \in UNION pending
    BY <1>c, <1>e, <2>1, CommittedOrPending DEF StageInv, Redone
  <2>3. ~ run.broken => \A f \in run.ok : Indexed(f, "embedding")'
    BY <1>c, <1>d, <1>e, <2>1, IndexedGrows DEF StageInv
  <2> HIDE DEF pending
  <2> QED BY <1>c, <1>e, <1>f, <1>h, <2>1, <2>2, <2>3 DEF StageInv, Embedding, Indexing
<1>11. CASE LinkDocuments
  <2>1. /\ run.pc = "linkdocs" /\ run'.pc = "commitdocs" /\ run'.ok = run.ok
        /\ run'.broken = run.broken /\ run'.done = run.done /\ units' = units
        /\ links'["bm25"] = links["bm25"] \cup UNION run.done
    BY <1>11, <1>b, <1>e DEF LinkDocuments, Runs, checkpointVars, storeVars, publishVars
  <2>2. \A f \in run.ok : Redone(f, "bm25")' \/ f \in UNION run.done
    BY <1>c, <1>e, <1>f, <2>1 DEF StageInv, Indexing
  <2>3. ~ run.broken => \A f \in run.ok : Indexed(f, "embedding")'
    BY <1>c, <1>d, <1>e, <2>1, IndexedGrows DEF StageInv, Indexing
  <2> QED BY <1>h, <2>1, <2>2, <2>3 DEF StageInv, Embedding, Indexing
<1>12. CASE CommitDocuments
  <2>1. /\ run.pc = "commitdocs" /\ run'.pc = "classify" /\ run'.ok = run.ok /\ run'.done = {}
        /\ links' = links /\ rewritten' = rewritten /\ rows' = rows
    BY <1>12, <1>b DEF CommitDocuments, Runs, checkpointVars, storeVars, publishVars
  <2>2. units' = units \/ units' = [units EXCEPT !["bm25"] = @ \cup {UnitHash(u) : u \in run.done}]
    BY <1>12 DEF CommitDocuments, checkpointVars, storeVars, publishVars
  <2>3. ASSUME NEW s \in Stages, NEW f \in Files, Committed(f, s)'
        PROVE  Committed(f, s) \/ (s = "bm25" /\ (f \in UNION run.done \/ Twins(f) # {f}))
    <3>1. PICK h : h \in units'[s] /\ h[ChunkId[f]] > 0
      BY <2>3 DEF Committed
    <3>2. CASE h \in units[s]
      BY <3>1, <3>2 DEF Committed
    <3>3. CASE h \notin units[s]
      <4>1. s = "bm25" /\ \E u \in run.done : h = UnitHash(u)
        BY <1>b, <1>e, <2>2, <3>1, <3>3
      <4>2. PICK u \in run.done : h = UnitHash(u)
        BY <4>1
      <4> QED BY <1>c, <3>1, <4>1, <4>2, OwnHash
    <3> QED BY <3>2, <3>3
  <2>4. UNION run.done \subseteq rows
    BY <2>1 DEF TypeInv, Shaped, Storing, Embedding, Indexing
  <2>5. \A s \in Stages, f \in Files : Committed(f, s)' => f \in rows' \/ Twins(f) # {f}
    BY <2>1, <2>3, <2>4 DEF StageInv
  <2>6. run'.broken = run.broken
    BY <1>12, <1>b DEF CommitDocuments, Runs
  <2>7. ASSUME ~ run.broken, NEW f \in run.ok PROVE \A s \in Stages : Indexed(f, s)'
    <3>1. Indexed(f, "embedding")
      BY <2>1, <2>7 DEF StageInv, Indexing
    <3>2. Redone(f, "bm25") \/ f \in UNION run.done
      BY <2>1 DEF StageInv, Indexing
    <3>3. Held(f, "bm25")
      <4>1. CASE Redone(f, "bm25")
        BY <1>c, <1>e, <4>1 DEF Redone, DurableInv, CommittedDurable, Held
      <4>2. CASE f \in UNION run.done
        BY <2>1, <4>2 DEF DurableInv, Indexing
      <4> QED BY <3>2, <4>1, <4>2
    <3>4. Indexed(f, "bm25")
      BY <2>1, <3>1, <3>2, <3>3 DEF StageInv, Indexed
    <3>5. \A s \in Stages : Indexed(f, s)
      BY <1>e, <3>1, <3>4
    <3> QED BY <1>c, <1>d, <2>1, <3>5, IndexedGrows
  <2> QED BY <2>1, <2>5, <2>6, <2>7 DEF StageInv, Embedding, Indexing
<1>13. CASE StopBatches
  BY <1>13, <1>a, <1>b, <1>d, QuietStage DEF StopBatches, Runs, Storing, Embedding,
     Indexing, checkpointVars, storeVars, publishVars
<1>14. CASE ContinueBatches
  BY <1>14, <1>a, <1>b, <1>d, QuietStage DEF ContinueBatches, Runs, Storing, Embedding,
     Indexing, checkpointVars, storeVars, publishVars
<1>15. CASE AdvanceBoundary
  BY <1>15, <1>a, <1>b, <1>d, QuietStage DEF AdvanceBoundary, Runs, Storing, Embedding,
     Indexing, checkpointVars, storeVars, publishVars
<1>16. CASE PublishRelations
  <2>1. run'.pc = "finalize"
    BY <1>16, <1>b DEF PublishRelations, Runs
  <2> QED BY <1>16, <1>d, <2>1, QuietStage DEF PublishRelations, Storing, Embedding,
             Indexing, checkpointVars, storeVars, publishVars
<1>17. CASE ActivateManifest
  BY <1>17, <1>a, <1>b, <1>d, QuietStage DEF ActivateManifest, Runs, Storing, Embedding,
     Indexing, checkpointVars, storeVars, publishVars
<1>18. CASE LeaveIncomplete
  BY <1>18, <1>a, <1>b, <1>d, QuietStage DEF LeaveIncomplete, Runs, Storing, Embedding,
     Indexing, checkpointVars, storeVars, publishVars
<1>19. CASE PublishHashes
  BY <1>19, <1>a, <1>b, <1>d, QuietStage DEF PublishHashes, Runs, Storing, Embedding,
     Indexing, checkpointVars, storeVars, publishVars
<1>20. CASE Complete
  BY <1>20, <1>a, <1>b, <1>d, QuietStage DEF Complete, Runs, Storing, Embedding, Indexing,
     checkpointVars, storeVars, publishVars
<1>21. CASE Execute
  <2>1. run'.pc = "batch"
    BY <1>21 DEF Execute, Idle
  <2> QED BY <1>21, <1>d, <2>1, QuietStage DEF Execute, Storing, Embedding, Indexing,
             checkpointVars, storeVars, publishVars
<1>22. CASE ExecuteFails
  BY <1>22, <1>a, <1>b, <1>d, QuietStage DEF ExecuteFails, Runs, Storing, Embedding,
     Indexing, checkpointVars, storeVars, publishVars
<1>23. CASE BeginBatchFails
  BY <1>23, <1>a, <1>b, <1>d, QuietStage DEF BeginBatchFails, Runs, Storing, Embedding,
     Indexing, checkpointVars, storeVars, publishVars
<1>24. CASE StoreEntitiesFails
  BY <1>24, <1>a, <1>b, <1>d, QuietStage DEF StoreEntitiesFails, Runs, Storing, Embedding,
     Indexing, checkpointVars, storeVars, publishVars
<1>25. CASE UnitRejected
  <2>1. /\ run.pc = "embed" /\ run'.pc = "embed" /\ run'.ok = run.ok
        /\ run'.todo = run.todo \ {FirstUnit} /\ run'.done = run.done
        /\ (run'.left \/ (~ run.left /\ run'.deferred = run.deferred \cup {FirstUnit}))
        /\ units' = units /\ rewritten' = rewritten /\ links' = links
    BY <1>25, <1>b DEF UnitRejected, Runs, checkpointVars, storeVars, publishVars
  <2>2. ~ run'.left => \A f \in run.ok :
           \/ Redone(f, "embedding")'
           \/ \E u \in run'.todo \cup run'.deferred \cup run'.done : f \in u
    <3>1. ASSUME ~ run'.left, NEW f \in run.ok, NEW u \in run.todo \cup run.deferred \cup run.done
          PROVE  u \in run'.todo \cup run'.deferred \cup run'.done
      BY <2>1, <3>1
    <3> QED BY <1>c, <1>e, <1>f, <2>1, <3>1 DEF StageInv, Embedding
  <2>3. \A f \in run.ok : Committed(f, "bm25")' => f \in rewritten' \/ Twins(f) # {f}
    BY <1>c, <1>e, <1>g, <2>1 DEF StageInv, Embedding
  <2>4. UNION run.done \subseteq links["embedding"]
    BY <2>1 DEF StageInv, Embedding
  <2> QED BY <1>h, <2>1, <2>2, <2>3, <2>4 DEF StageInv, Embedding, Indexing
<1>26. CASE EmbeddingFails
  <2>1. /\ run.pc \in Embedding /\ run'.pc = "bm25" /\ run'.ok = run.ok /\ run'.broken
        /\ units' = units /\ rewritten' = rewritten
    BY <1>26, <1>b DEF EmbeddingFails, Runs, Embedding, checkpointVars, storeVars,
       publishVars
  <2> QED BY <1>c, <1>e, <1>g, <1>h, <2>1 DEF StageInv, Embedding, Indexing
<1>27. CASE DocumentsFail
  BY <1>27, <1>a, <1>b, <1>d, QuietStage DEF DocumentsFail, Runs, Storing, Embedding,
     Indexing, checkpointVars, storeVars, publishVars
<1>28. CASE AdvanceBoundaryFails
  BY <1>28, <1>a, <1>b, <1>d, QuietStage DEF AdvanceBoundaryFails, Runs, Storing, Embedding,
     Indexing, checkpointVars, storeVars, publishVars
<1>29. CASE RelationsFail
  BY <1>29, <1>a, <1>b, <1>d, QuietStage DEF RelationsFail, Runs, Storing, Embedding,
     Indexing, checkpointVars, storeVars, publishVars
<1>30. CASE ActivationFails
  BY <1>30, <1>a, <1>b, <1>d, QuietStage DEF ActivationFails, Runs, Storing, Embedding,
     Indexing, checkpointVars, storeVars, publishVars
<1>31. CASE RunFails
  BY <1>31, <1>a, <1>b, <1>d, QuietStage DEF RunFails, Runs, Storing, Embedding, Indexing,
     checkpointVars, storeVars, publishVars
<1>32. CASE Crash
  BY <1>32, <1>a, <1>b, <1>d, QuietStage DEF Crash, Runs, Storing, Embedding, Indexing,
     checkpointVars, storeVars, publishVars
<1>33. ASSUME NEW f \in Files, FileProcessed(f) PROVE StageInv'
  BY <1>33, <1>a, <1>b, <1>d, QuietStage DEF FileProcessed, Runs, Storing, Embedding,
     Indexing, checkpointVars, storeVars, publishVars
<1>34. ASSUME NEW f \in Files, FileSkipped(f) PROVE StageInv'
  BY <1>34, <1>a, <1>b, <1>d, QuietStage DEF FileSkipped, Runs, Storing, Embedding,
     Indexing, checkpointVars, storeVars, publishVars
<1>35. ASSUME NEW f \in Files, FileFails(f) PROVE StageInv'
  BY <1>35, <1>a, <1>b, <1>d, QuietStage DEF FileFails, Runs, Storing, Embedding, Indexing,
     checkpointVars, storeVars, publishVars
<1>36. CASE UNCHANGED vars
  BY <1>36 DEF vars, StageInv, Committed, Redone, Indexed, Held, checkpointVars, storeVars,
     publishVars
<1> QED BY <1>1, <1>2, <1>3, <1>4, <1>5, <1>6, <1>7, <1>8, <1>9, <1>10, <1>11, <1>12, <1>13,
           <1>14, <1>15, <1>16, <1>17, <1>18, <1>19, <1>20, <1>21, <1>22, <1>23, <1>24,
           <1>25, <1>26, <1>27, <1>28, <1>29, <1>30, <1>31, <1>32, <1>33, <1>34, <1>35,
           <1>36 DEF BatchNext, BatchStep, FinalStep, FaultStep

\* A new operation has published nothing.
LEMMA PublishInit == BatchInit => PublishInv
BY DEF BatchInit, PublishInv, Idle

\* Every step keeps what a complete run has indexed and what is published.
LEMMA PublishStep ==
  TypeInv /\ ParseInv /\ GraphInv /\ StageInv /\ PublishInv /\ [BatchNext]_vars /\ AbsolutePaths
      => PublishInv'
<1> SUFFICES ASSUME TypeInv, ParseInv, GraphInv, StageInv, PublishInv, [BatchNext]_vars,
                    AbsolutePaths
             PROVE  PublishInv'
  OBVIOUS
<1>a. Idle.pc = "idle"
  BY DEF Idle
<1>b. run \in Runs /\ TotalBatches \in Nat
  BY Arithmetic DEF TypeInv, Typed
<1>c. \A f \in Good : f \in Files /\ BatchOf(f) \in Nat /\ BatchOf(f) < TotalBatches
  BY Arithmetic DEF Good
<1>d. Growth
  BY GrowthStep
<1>e. run.pc # "idle" => ck.status = "in_progress"
  BY DEF TypeInv, Shaped
<1>f. ASSUME run.pc # "idle", run.complete,
             NEW f \in Good, BatchOf(f) < run.batch, NEW s \in Stages
      PROVE  Indexed(f, s)'
  <2>1. Indexed(f, s)
    BY <1>f DEF PublishInv
  <2>2. ~ (run.pc = "entities" /\ f \in run.ok)
    <3>1. run.pc = "entities" => run.ok \subseteq Batch(run.batch)
      BY DEF ParseInv, InBatch
    <3>2. f \notin Batch(run.batch)
      BY <1>b, <1>c, <1>f DEF Batch, BatchOf, Runs
    <3> QED BY <3>1, <3>2
  <2> QED BY <1>c, <1>d, <2>1, <2>2, IndexedGrows
<1>g. ASSUME manifest = "active", ck'.status = ck.status \/ ck'.status = "in_progress",
             NEW f \in Good, NEW s \in Stages
      PROVE  /\ f \in rows' /\ Held(f, s)'
             /\ \/ f \in links'[s]
                \/ /\ f \in rewritten' \/ Twins(f) # {f}
                   /\ Committed(f, s)' \/ ck'.status = "in_progress"
  BY <1>c, <1>d, <1>e, <1>g DEF PublishInv, Growth
<1>h. ASSUME \/ run'.pc = "idle"
             \/ run.pc # "idle" /\ run'.batch = run.batch /\ (run'.complete => run.complete),
             ck'.status = ck.status \/ ck'.status = "in_progress",
             manifest' = "active" => manifest = "active"
      PROVE  PublishInv'
  BY <1>f, <1>g, <1>h DEF PublishInv
<1>1. CASE BeginBatch
  BY <1>1, <1>a, <1>b, <1>h DEF BeginBatch, Runs, checkpointVars, storeVars, publishVars
<1>2. CASE BatchesDone
  BY <1>2, <1>a, <1>b, <1>h DEF BatchesDone, Runs, checkpointVars, storeVars, publishVars
<1>3. CASE Collect
  <2>1. run.pc # "idle" /\ run'.batch = run.batch /\ (run'.complete => run.complete)
    BY <1>3, <1>b DEF Collect, Runs
  <2>2. ck' = ck /\ manifest' = manifest
    BY <1>3 DEF Collect, checkpointVars, storeVars, publishVars
  <2> QED BY <1>h, <2>1, <2>2
<1>4. CASE StoreEntities
  BY <1>4, <1>a, <1>b, <1>h DEF StoreEntities, Runs, checkpointVars, storeVars, publishVars
<1>5. CASE PushPoints
  <2>1. run.pc # "idle" /\ run'.batch = run.batch /\ (run'.complete => run.complete)
    BY <1>5, <1>b DEF PushPoints, Runs
  <2>2. ck' = ck /\ manifest' = manifest
    BY <1>5 DEF PushPoints, checkpointVars, storeVars, publishVars
  <2> QED BY <1>h, <2>1, <2>2
<1>6. CASE LinkPoints
  BY <1>6, <1>a, <1>b, <1>h DEF LinkPoints, Runs, checkpointVars, storeVars, publishVars
<1>7. CASE RetryDeferred
  BY <1>7, <1>a, <1>b, <1>h DEF RetryDeferred, Runs, checkpointVars, storeVars, publishVars
<1>8. CASE FlushPoints
  BY <1>8, <1>a, <1>b, <1>h DEF FlushPoints, Runs, checkpointVars, storeVars, publishVars
<1>9. CASE CommitUnits
  BY <1>9, <1>a, <1>b, <1>h DEF CommitUnits, Runs, checkpointVars, storeVars, publishVars
<1>10. CASE IndexDocuments
  BY <1>10, <1>a, <1>b, <1>h DEF IndexDocuments, Runs, checkpointVars, storeVars,
     publishVars
<1>11. CASE LinkDocuments
  BY <1>11, <1>a, <1>b, <1>h DEF LinkDocuments, Runs, checkpointVars, storeVars, publishVars
<1>12. CASE CommitDocuments
  BY <1>12, <1>a, <1>b, <1>h DEF CommitDocuments, Runs, checkpointVars, storeVars,
     publishVars
<1>13. CASE StopBatches
  BY <1>13, <1>a, <1>b, <1>h DEF StopBatches, Runs, checkpointVars, storeVars, publishVars
<1>14. CASE ContinueBatches
  <2>1. run'.complete = FALSE /\ manifest' = manifest /\ ck' = ck
    BY <1>14, <1>b DEF ContinueBatches, Runs, checkpointVars, storeVars, publishVars
  <2> QED BY <1>g, <2>1 DEF PublishInv
<1>15. CASE AdvanceBoundary
  <2>1. /\ run.pc = "classify" /\ run'.pc = "batch" /\ run'.batch = run.batch + 1
        /\ run'.complete = run.complete /\ manifest' = manifest /\ ck'.status = ck.status
    BY <1>15, <1>b DEF AdvanceBoundary, Runs, TypeInv, Typed, publishVars
  <2>2. ~ run.failed /\ ~ run.broken
    BY <1>15 DEF AdvanceBoundary
  <2>3. Batch(run.batch) \ Bad \subseteq run.ok
    BY <2>1, <2>2 DEF ParseInv, InBatch
  <2>4. ASSUME NEW f \in Good, BatchOf(f) = run.batch, NEW s \in Stages PROVE Indexed(f, s)'
    <3>1. f \in run.ok
      BY <2>3, <2>4 DEF Good, Batch, BatchOf
    <3>2. Indexed(f, s)
      BY <2>1, <2>2, <3>1 DEF StageInv
    <3> QED BY <1>c, <1>d, <2>1, <3>2, IndexedGrows
  <2>5. run.batch \in Nat
    BY <1>b DEF Runs
  <2>6. \A f \in Good : BatchOf(f) < run.batch + 1 => BatchOf(f) < run.batch \/ BatchOf(f) = run.batch
    BY <1>c, <2>5
  <2> QED BY <1>f, <1>g, <2>1, <2>4, <2>6 DEF PublishInv
<1>16. CASE PublishRelations
  <2>1. run.pc # "idle" /\ run'.batch = run.batch /\ (run'.complete => run.complete)
    BY <1>16, <1>b DEF PublishRelations, Runs
  <2>2. ck' = ck /\ manifest' = manifest
    BY <1>16 DEF PublishRelations, checkpointVars, storeVars, publishVars
  <2> QED BY <1>h, <2>1, <2>2
<1>17. CASE ActivateManifest
  <2>1. /\ run.pc = "finalize" /\ run.complete /\ run'.batch = run.batch /\ run.batch = TotalBatches
        /\ ck' = ck
    BY <1>17, <1>b DEF ActivateManifest, Runs, GraphInv, Closing, checkpointVars, storeVars,
       publishVars
  <2>2. \A f \in Good, s \in Stages : Indexed(f, s)'
    BY <1>c, <1>f, <2>1
  <2> QED BY <2>2 DEF PublishInv, Indexed, Redone
<1>18. CASE LeaveIncomplete
  BY <1>18, <1>a, <1>h DEF LeaveIncomplete, Failed, checkpointVars, storeVars, publishVars
<1>19. CASE PublishHashes
  BY <1>19, <1>a, <1>b, <1>h DEF PublishHashes, Runs, checkpointVars, storeVars, publishVars
<1>20. CASE Complete
  <2>1. run.pc = "complete" /\ run.complete /\ run.batch = TotalBatches /\ run'.pc = "idle"
    BY <1>20, <1>a DEF Complete, GraphInv, Closing
  <2>2. \A f \in Good, s \in Stages : Indexed(f, s)'
    BY <1>c, <1>f, <2>1
  <2> QED BY <2>1, <2>2 DEF PublishInv, Indexed, Redone
<1>21. CASE Execute
  <2>1. run'.pc = "batch" /\ run'.batch = 0 /\ (manifest' = "active" => manifest = "active")
    BY <1>21, FreshRun DEF Execute, Building
  <2>2. ck'.status = "in_progress"
    BY <1>21 DEF Execute, TypeInv, Typed
  <2> QED BY <1>c, <1>g, <2>1, <2>2 DEF PublishInv
<1>22. CASE ExecuteFails
  <2>1. manifest' = "active" => manifest = "active"
    BY <1>22 DEF ExecuteFails, Building
  <2>2. ck'.status = "in_progress"
    BY <1>22 DEF ExecuteFails, TypeInv, Typed
  <2>3. run'.pc = "idle"
    BY <1>22 DEF ExecuteFails
  <2> QED BY <1>h, <2>1, <2>2, <2>3
<1>23. CASE BeginBatchFails
  BY <1>23, <1>a, <1>b, <1>h DEF BeginBatchFails, Runs, checkpointVars, storeVars,
     publishVars
<1>24. CASE StoreEntitiesFails
  BY <1>24, <1>a, <1>b, <1>h DEF StoreEntitiesFails, Runs, checkpointVars, storeVars,
     publishVars
<1>25. CASE UnitRejected
  <2>1. run.pc # "idle" /\ run'.batch = run.batch /\ (run'.complete => run.complete)
    BY <1>25, <1>b DEF UnitRejected, Runs
  <2>2. ck' = ck /\ manifest' = manifest
    BY <1>25 DEF UnitRejected, checkpointVars, storeVars, publishVars
  <2> QED BY <1>h, <2>1, <2>2
<1>26. CASE EmbeddingFails
  BY <1>26, <1>a, <1>b, <1>h DEF EmbeddingFails, Runs, checkpointVars, storeVars,
     publishVars
<1>27. CASE DocumentsFail
  BY <1>27, <1>a, <1>b, <1>h DEF DocumentsFail, Runs, checkpointVars, storeVars, publishVars
<1>28. CASE AdvanceBoundaryFails
  BY <1>28, <1>a, <1>b, <1>h DEF AdvanceBoundaryFails, Runs, checkpointVars, storeVars,
     publishVars
<1>29. CASE RelationsFail
  BY <1>29, <1>a, <1>b, <1>h DEF RelationsFail, Runs, checkpointVars, storeVars, publishVars
<1>30. CASE ActivationFails
  BY <1>30, <1>a, <1>h DEF ActivationFails, Failed, checkpointVars, storeVars, publishVars
<1>31. CASE RunFails
  BY <1>31, <1>a, <1>b, <1>h DEF RunFails, Runs, checkpointVars, storeVars, publishVars
<1>32. CASE Crash
  BY <1>32, <1>a, <1>b, <1>h DEF Crash, Runs, checkpointVars, storeVars, publishVars
<1>33. ASSUME NEW f \in Files, FileProcessed(f) PROVE PublishInv'
  BY <1>33, <1>a, <1>b, <1>h DEF FileProcessed, Runs, checkpointVars, storeVars, publishVars
<1>34. ASSUME NEW f \in Files, FileSkipped(f) PROVE PublishInv'
  BY <1>34, <1>a, <1>b, <1>h DEF FileSkipped, Runs, checkpointVars, storeVars, publishVars
<1>35. ASSUME NEW f \in Files, FileFails(f) PROVE PublishInv'
  BY <1>35, <1>a, <1>b, <1>h DEF FileFails, Runs, checkpointVars, storeVars, publishVars
<1>36. CASE UNCHANGED vars
  BY <1>36 DEF vars, PublishInv, Committed, Indexed, Redone, Held, checkpointVars,
     storeVars, publishVars
<1> QED BY <1>1, <1>2, <1>3, <1>4, <1>5, <1>6, <1>7, <1>8, <1>9, <1>10, <1>11, <1>12, <1>13,
           <1>14, <1>15, <1>16, <1>17, <1>18, <1>19, <1>20, <1>21, <1>22, <1>23, <1>24,
           <1>25, <1>26, <1>27, <1>28, <1>29, <1>30, <1>31, <1>32, <1>33, <1>34, <1>35,
           <1>36 DEF BatchNext, BatchStep, FinalStep, FaultStep

\* Whatever failed or crashed on the way, a published generation holds the entity of
\* every file that can be indexed and under its chunk's id a vector and a document,
\* its own or those of a file with the same id, linked unless a unit that counts for
\* the file was committed before or its rows are being written again.
THEOREM PublishedIsComplete ==
  ASSUME AbsolutePaths
  PROVE  BatchSpec => []PublishedComplete
<1>1. BatchInit => StageInv /\ PublishInv
  BY StageInit, PublishInit
<1>2. TypeInv /\ DurableInv /\ ParseInv /\ GraphInv /\ StageInv /\ PublishInv /\ [BatchNext]_vars
        => StageInv' /\ PublishInv'
  BY StageStep, PublishStep
<1>3. TypeInv /\ DurableInv /\ PublishInv => PublishedComplete
  <2> SUFFICES ASSUME TypeInv, DurableInv, PublishInv, manifest = "active",
                      NEW f \in Files \ Bad, NEW s \in Stages
               PROVE  stored[s][ChunkId[f]] \in Twins(f)
    BY DEF PublishInv, PublishedComplete, Good, Stages
  <2>1. ChunkId[f] \in Ids /\ stored[s][ChunkId[f]] \in Files \cup {NoFile}
    <3>1. ChunkId[f] \in Ids
      BY DEF Ids
    <3> QED BY <3>1 DEF TypeInv, Typed
  <2>2. stored[s][ChunkId[f]] # NoFile
    BY DEF PublishInv, Held, Good
  <2>3. ChunkId[stored[s][ChunkId[f]]] = ChunkId[f]
    BY <2>1, <2>2 DEF DurableInv
  <2> QED BY <2>1, <2>2, <2>3 DEF Twins
<1> QED BY DurableInvariance, GraphInvariance, <1>1, <1>2, <1>3, PTL DEF BatchSpec

=============================================================================
