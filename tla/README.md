# Code Context Engine: verification of indexing, publication and synchronisation

Code Context Engine (CCE) indexes a source tree and keeps the index fresh. This
directory holds TLA+ models of the parts that decide *which* indexing work runs,
*when*, *what readers see* of it, and *whether a file change can get lost on the
way*, with TLC runs on small instances and TLAPS proofs of their safety properties
for every instance.

Paths below are relative to `crates/`; `orch/` stands for
`app/cce-orchestrator/src/`, `shared/` for `app/cce-server-shared/src/`,
`metadb/` for `infra/cce-storage-metadb-sqlite/src/`, `ingest/` for
`app/cce-server/src/api/handlers/ingest/`.

## 1. Inventory

| Component | State | Operations | Hard behaviour |
|---|---|---|---|
| Checkpoint table (`metadb/repo/checkpoint_repo.rs`) | one row per operation: status, kind, root, `active_flag`, `last_heartbeat`; file, batch and work-unit records | create, set/clear flag, heartbeat, mark, stale and TTL cleanup | survives crashes; an UPDATE of a missing row does nothing |
| Operation queue (`orch/operation/queue.rs`) | pending deque, active slot, mirrored flag | enqueue, dequeue, complete, clear by id, cancel, stale cleanup, load after restart | releases its locks around the database; rollback |
| Operation coordinator (`orch/operation/coordinator.rs`) | the queue and the checkpoint manager | requests, gate, complete, recovery | completes *whatever* holds the slot |
| Full index (`shared/engine/ops.rs`, `orch/index/orchestrator`) | orchestrator mutex, batch boundary, spool, write buffer | `index()`, batch loop, stages, publication | several API tasks; a crash between any two stores; resumption skips committed units |
| Hot-update runtime (`orch/hot_update/operation_runtime.rs` and below) | runtime mutex, pending configuration paths | run, resume, configuration change | checkpoint before work, resumption before the gate |
| Update processors (`orch/hot_update/processors`) | module markers | prepare, process, commit, abort | one commits, another fails |
| Generations (`orch/index/storage_coordinator`, `metadb/repo/project_index_manifest_repo.rs`) | manifest rows, epochs, parent links, overrides, rows and documents per epoch | begin, adopt, register, activate, fail, compact, collect | two kinds of store without a common transaction; inherited data |
| Startup, cleanup task (`shared/runtime/startup.rs`, `shared/engine/components.rs`) | – | replay, re-queue, TTL, stale cleanup | crash between any two steps |
| Watcher and event loop (`orch/hot_update/watcher`, `orch/hot_update/coordinator`) | bounded channel, overflow flag, accumulated events, debounce | send, receive, tick, forced update | overflow, shared debounce |
| Mode switch, periodic scan (`orch/hot_update/mode_switch.rs`, `periodic_scan.rs`) | mode, sliding window of events, time over a threshold | degrade, recover, scan tick | channel and loop are replaced while the old loop drains |
| Watch-change queue (`orch/hot_update/watch_change_queue.rs`) | entries by path, rescan flag | push, extend, take | bounded; flag read and cleared in two steps |
| Change detector (`orch/hot_update/change_detector.rs`, `operation_runtime/persistence.rs`) | hashes of published files | scan, hash commit | hash taken later than the parse |
| Gateway and ingest (`app/cce-gateway`, `infra/cce-ingest-transfer`, `ingest/`) | baseline, mirror, chunks staged per manifest version | full pass, poll, push; manifest, batch, commit, event | edits during a pass, lost answers, resumed uploads |
| Circuit breaker (`infra/cce-circuit-breaker` and its users) | state, counters, time of the last failure | ask, acquire, record | outcomes that arrive after the state has changed |

The rest of the repository (parsers, code graph, query and ranking, storage
clients, LLM client, plugins, CLI, MCP, dashboard) is listed in `PROJECT.json`
with the reason it is left out.

How they interact. `index()` and the hot-update runtime both request an operation
and then call `execute_next_operation`, which dequeues the *front* of the queue;
whoever gets an entry runs *its own* work under *its own* id. Completion is
`complete_operation` (acts on the slot), failure is `clear_active_by_operation`
(acts on an id). The hot-update runtime takes its work from the watch-change
queue, which the event loops fill from the watcher's channel and the ingest entry
from the gateway's events. A hot update writes into a candidate generation that
inherits from the published one; a full index fills a generation of its own; both
end by activating a manifest row.

What makes it correct: one operation at a time; the slot is given back; unfinished
work stays resumable and is resumed; what readers see changes only by publishing
one operation completely; a published full index holds every file that can be
indexed; no file change is lost without a rescan, an event or a checkpoint that
covers it; the mirror follows the local directory; a breaker opens on evidence and
closes again. The places where this is at risk are the `hazards` of
`PROJECT.json`.

## 2. Modules

* **Checkpoints** – the table as a function from ids to rows, every statement an
  operator on tables. Ids are numbers because they carry timestamps: the order of
  creation is the order of ids. A row keeps its status and its flag, where a
  flagged row is *fresh* or *stale* (older than the heartbeat timeout).
* **OperationQueue** (extends Checkpoints) – `queue.rs`. An action is what one
  acquisition of the mutexes does. `dequeue` is `DequeueReserve` followed by
  `DequeuePersist` or `DequeueRollback`, with the popped entry in `reserved`;
  `cleanup_stale_operations` is `CleanupStaleDb` then `CleanupStaleMemory`.
  `clear_active_by_operation` releases the slot's mutex before it clears the flag;
  a call in between is `ClearActiveByOperation(o, FALSE)` with a later
  `CheckpointFailed(o)`, both of which `Next` has. Its
  environment is as free as the code allows: any task, any call, any time, and
  the rest of the system may create, fail and delete rows. The one assumption on
  callers is that an id is enqueued only while the queue does not hold it.
* **OperationGate** (extends OperationQueue) – `index()`, the hot-update runtime,
  resumption, configuration changes, crash, recovery and the cleanup task, on one
  project with one root. `worker[w].pc` is the await point a task is at; each
  action is the code up to the next one. Every `?` behind the gate is `Abandon`.
  The full workers share the orchestrator mutex; there is one hot worker because
  the runtime is behind a mutex.
* **WatchPipeline** – from the file system to the index in file-watch mode. The
  content of a file is abstracted to whether the index agrees with the disk
  (`dirty`) and whether the recorded hash does although the index does not
  (`hidden`). `entries` maps a path to the last news of it. `shown` says that the
  operation left to resume has its generation active already: it failed while it
  recorded its hashes (`OpFailsLate`), and its resumption records them and indexes
  nothing (`OpResumesShown`, `resume.rs:209-237`). The gate, already
  covered by OperationGate, appears only as `OpYields` (the operation is rejected
  or a configuration change comes first).
* **WatchMode** – the life of a watch session around that pipeline: start, stop,
  degradation in an event storm, recovery with a new channel and loop. An
  operation is one step; what matters is which loop holds which event, who has
  the turn at the shared debounce, and what the sliding window still counts.
  Recovery increments `current`; loops of older channels live until they drain.
* **Publication** – the abstract specification of the index store: one published
  snapshot, replaced by the changes of one operation in all stores at once, as long
  as the promise is kept (`spoilt` is FALSE).
* **Generations** (implements Publication) – the manifest table, epochs, parent
  links and overrides; the storage coordinator's candidate protocol (adopt,
  resolve, compact, register, activate, fail); collection after a publication;
  hot updates with their module markers, configuration changes, full indexes and
  relation republications. `data[s][e][f]` is whose version of file `f` store `s`
  holds in epoch `e`; every SQLite transaction and every call of an external store
  is a step. The refinement mapping is what a query sees through the active
  manifest, one parent and the overrides. Any operation may begin while others are
  unfinished, as in the code: configuration changes run before recovery
  (`operation_runtime.rs:375`), `index()` does not look at hot updates, and an error
  of the look for an unfinished one is only a warning (`resume.rs:434-441`). Two
  history variables tell the consequences apart. `lapped` holds the operations that
  were *overtaken*, unfinished when another one began. `harm` holds what was done to
  readers: `"stale"` (an overtaken operation was taken up again), `"mixed"` (a full
  index began beside an unfinished hot update), `"reused"` (a full index began to fill
  the published epoch), `"cleared"` (an abort cleared an epoch readers resolve). The
  refinement maps `spoilt` to `harm # {}`.
* **FullIndexBatches** – one full-index operation over a fixed set of files: batches,
  file outcomes, entities, embedding and BM25 units with markers, the write
  buffer, deferred units, the boundary, relations, activation, hashes, completion.
  Generations has this loop as one step per file. A file has one entity and one
  chunk per stage; `Path` and `RelativePath` are constants because the code derives
  identities from them that need not agree (section 3), and so is `ChunkId`, which two
  files may share: each is parsed by a clone of the file processor whose counter of
  entity ids starts at 0 (`batch.rs:661`). `stored[s][i]` is whose chunk is held under
  an id.
* **IngestSync** – gateway and ingest entries. A content is a sequence of chunks.
  Each request is one step, local files change between any two. `doubt` is a
  history variable: the files of which the gateway's baseline may be wrong by a
  cause the code has, kept until server and baseline agree again.
* **CircuitBreaker** – the breaker and requests that pass it by `is_open()` (the
  clients) or `try_acquire()` (the library's `call`), with outcomes recorded later.
  `goods` and `bads` are history: the runs of outcomes recorded so far.
* **PositionLemmas**, **OperationProofs**, **FullIndexBatchesProofs**,
  **GenerationsProofs**, **WatchPipelineProofs**, **WatchModeProofs**,
  **IngestSyncProofs**, **CircuitBreakerProofs** – the proofs (section 5).
* **MC…** – instances for TLC.

Definitions whose comment starts with *mutant* are plausible bugs of the
definition below them. No specification uses them; they show that the properties
can fail.

Simplifications. Operation kinds, roots and files are model values; statistics,
error texts and logging are left out. Contents never repeat in WatchPipeline
(writing the old content back counts as a change). `request_incremental`,
`wait_for_completion` and `initialize` have no caller in the engine;
`LoadPersistedActive` is nevertheless an action of the queue. Generations assumes
that operations exclude each other, which OperationGate examines.

## 3. Runs

| Run | Instance | Result |
|---|---|---|
| `queue` | 4 operations (hot update, config change, incremental, full), 2 tasks, capacity 2, 1 rollback | holds; about 690 000 states |
| `gate` | 2 full workers, hot worker, 1 configuration change, no faults | holds; about 216 000 states |
| `gate_faults` | 1 full worker, hot worker, 1 rollback, 1 failure, 1 crash, slow operations | holds; about 242 000 states |
| `watch` | 2 files, channel of 1, queue of 1, 2 changes, 2 failures | holds; about 300 000 states |
| `generations` | 2 hot updates, 1 configuration change, 1 full index, 1 republication, 2 files, 1 crash, 1 failing step | holds; about 473 000 states |
| `ingest` | 2 files of 1 or 2 chunks, 2 edits, 2 failing requests, 1 crash | holds; about 350 000 states |
| `breaker` | 3 requests, threshold 3, counter to 5 | holds; about 14 000 states |
| `mode` | 2 files, channel of 2, 3 changes, 3 commands, 2 loops, 1 failing watcher | holds; about 52 000 states |
| `batches` | 4 files in 2 batches, two that share a chunk id, one that cannot be indexed, 2 failing steps, 2 crashes | holds; about 158 000 states |
| `gate_stuck` | one failing step | **violated**: a failed operation leaves the slot taken |
| `generations_markers` | 1 hot update, 1 configuration change, 1 crash, 1 failing step | **violated**: markers outlive what they mark |
| `generations_reuse` | 2 full indexes, 1 crash | **violated**: a full index writes into what is published |

The violated runs, and the explorations below, are disagreements between comments of
the repository and its code; `PROJECT.json` quotes the comment and the line for each,
and each counterexample is the scenario. Every exploration has a `.cfg` of its own
(`tlc -config <file> <module>`); its expected result is a violation:

| Configuration | Property | What the code does |
|---|---|---|
| `MCOperationQueueRollback` | `PendingSorted` | `push_front` of a rolled-back dequeue puts an entry before a more urgent one (`queue.rs:306`) |
| `MCOperationGateResume` | `GateExclusion` | one crash: a resumed hot update does not pass the gate and works beside a full index (`operation_runtime.rs:404`) |
| `MCOperationGateSlow` | `SlotMeansWork` | operations longer than the stale timeout: a live task loses its slot, because the row looked at is that of the entry it dequeued (`queue.rs:497`) |
| `MCWatchPipelineRescan` | `RescanServed` | an overflow flags an empty queue, a flagged queue takes no entries, and the processor waits for entries (`coordinator_core.rs:811`) |
| `MCGenerationsAbort` | `AbortHarmless` | one processor's commit activates the candidate, another's fails, and the abort clears the published epoch (`candidate/lifecycle.rs:404`) |
| `MCGenerationsBeside` | `FullIndexApart` | a crashed full index and a hot update have the same epoch; the update is published there and the resumed full index goes on filling it (`generation/lifecycle.rs:54`) |
| `MCGenerationsMixed` | `FullIndexExact` | a full index takes the epoch of a crashed hot update's candidate and publishes what it finds there, a removed file included (`generation/lifecycle.rs:57`) |
| `MCGenerationsChain` | `ChainCompacted` | a full index resumed after a configuration change crashed on its epoch is published under an older row than the abandoned one, whose parent link then counts (`project_index_manifest_repo.rs:341`) |
| `MCGenerationsRefused` | `UpdateReregisters` | an overtaken hot update's row is of an epoch that is published by then, and `begin_building` refuses it at every resumption (`project_index_manifest_repo.rs:38`) |
| `MCFullIndexBatchesIds` | `EveryChunkStored` | two files share a chunk id and one overwrites the other (`batch.rs:661`) |
| `MCCircuitBreakerClients` | `Recovers` | requests that only ask `is_open()`: the circuit never closes again (qdrant `client.rs:173`) |

`queue`: `QueueOrdered` and `Deduplication` hold until a dequeue is rolled back
(`push_front` may put an entry before a more urgent or identical one), so both
are stated for `rollbacks = 0`, and `PendingSorted`, the order without that
condition, is violated; `BoundedQueue` and `OnePlace` hold always, also
when a rollback finds the slot emptied and taken again.

`gate`: with no failures and nothing slow the design works: `GateExclusion`,
`SlotMeansWork`, `FlagMirrorsSlot`, `NoLingeringCheckpoint`, and under fairness
`SlotReleased`.

`gate_faults`: `QueueRefined` shows that the callers implement the OperationQueue
specification (`INSTANCE OperationQueue` with the rows' statuses forgotten), so the
theorems of section 5 hold in the composed system, crashes and recovery included.
`HotUpdateFinishes` shows that an interrupted hot update is resumed to its end.

`watch`: `NoSilentLoss` is an action property: a step that leaves a changed file
uncovered by event, scan, operation or checkpoint is one of four named cases, each
of which the code has: a file that cannot be read or an operation that dies before
its checkpoint; a rescan flag set between the two reads of `run_operation`; a scan
overtaken by an old event; a file hidden from scans by its hash. `QueueServed`:
queued entries are always taken (a rescan is not: `RescanServed`).

`generations`: `PublishedAtomically` is the refinement of Publication, with operations
that begin in any order beside unfinished ones and storage errors that come and go:
what readers see changes only by publishing one operation, until one of the four harms.
Each harm is a defect that the code has, and TLC shows what each does: *stale* in
`generations_markers` (a configuration change takes the epoch of a crashed hot update
and clears its rows; when it fails, the update is adopted with markers of what is
gone), `MCGenerationsBeside` and `MCGenerationsChain`; *reused* in `generations_reuse`
(a crash after the activation of a full index and before its checkpoint is completed
makes the resumed run write `epoch_ready = 0`, `generation/lifecycle.rs:64`; `activate`
returns early for an active row, `project_index_manifest_repo.rs:240-243`, and does not
write 1 again, so the next full index takes the active epoch for an unfinished one);
*mixed* in `MCGenerationsMixed`; *cleared* in `MCGenerationsAbort`.

`MarkersSound` says that what a resumed operation skips is really in its candidate,
of every update that was not overtaken; `ChainShallow` that queries (one parent) and
the hash cache (two) see the same until an overtaken operation is taken up again;
`PublicationMonotone` that a late resumption or a collection never brings an older
generation back, without exception. `UpdateCompletes` has two exceptions, which the
code has: a generation that inherits from one without documents cannot be compacted
(`external_compaction.rs:84`), so every later hot update fails at it; and an overtaken
update whose row is of an epoch that is published by now is refused by
`begin_building` at every resumption (`MCGenerationsRefused`).

`ingest`: `PiecesAgree` says that the chunks a resumed pass finds received belong to
the files its manifest describes. `BaselineKnown` and `Converges` hold for every file
that is not in doubt. The causes of doubt are in the code: the manifest entry skips
a file whose chunks were all received once although the mirror has changed since
(`ingest/manifest.rs:91`), a full pass never removes files from the mirror
(`sync.rs:72`), errors in the answer to a push are only warned about
(`watch.rs:197`), a file that cannot be read is dropped from the push while the
baseline advances (`watch.rs:224`), the `success` field of a commit is not read
(`sync.rs:126`), and an operation that finds an unfinished one resumes that and
reports success for the new changes (`operation_runtime.rs:406`).

`breaker`: late outcomes, half-open rounds and the saturating counter never make
state and count disagree. `Recovers` needs requests that use `try_acquire`.

`mode`: `Observed` and `ReceivedIndexed` are about the replacement of watcher,
channel and loop. Exceptions that the code has are named in the properties: a
restart of the watcher that fails leaves file-watch mode without a watcher
(`change_merger.rs:557-562`), and a reset of the shared debounce strands what a
loop has accumulated. `DegradedIndexes`: in periodic-scan mode changes are found
although the periodic task and the processor compete for the debounce.

`batches`: `PublishedComplete`, `CommittedDurable`, `RelationsComplete` and
`FullIndexCompletes` across failures, crashes and resumptions, with two files that
share a chunk id. `PublishedComplete` asks for a chunk of the file or of one with the
same id; `EveryChunkStored`, which asks for its own, is violated. Links
of entities to chunks may be missing for two causes in the code: a resumed run
rewrites all entities (`entities.rs:156`), their links to chunks go with them by the
foreign key, and the committed units that would link them again are skipped
(`vector.rs:186`, `bm25.rs:65-72`); and a unit counts as committed when another file's
unit has the same hash, which is computed from the ids.

Further questions are answered by changing a constant:

* *Generations*, `KeepActive = 1`: `ChainShallow` is violated. The building row of a
  crashed configuration change at the parent's epoch survives a collection that
  removes the newer row of that epoch. The code keeps two (`gc.rs:87`),
  and the theorem about `ChainShallow` asks for two; the others about Generations
  hold for every value from 1 on.
* *FullIndexBatches*, `Path = RelativePath`: `PublishedComplete` is violated. File
  checkpoints are recorded under relative paths and looked up by absolute ones
  (`checkpoint.rs:211`), so every resumed run starts again at batch 0. If they
  agreed, a file that failed in a batch before the boundary would never be indexed:
  a later clean batch advances the boundary past it (`batch.rs:605`).
* *OperationGate*, with a failure before a crash: a hot update dequeues and completes
  the full index that recovery re-queued.
* *WatchPipeline*: the catch-up of a full index resets the debounce under accumulated
  events.
* *WatchMode*: recovery from a storm is not guaranteed. Events left in the old
  channel are counted after the switch cleared the window, and without a watcher
  nothing prunes them (`mode_switch.rs:109`). One burst followed by silence counts
  as a lasting storm for the same reason (`mode_switch.rs:120`).

Why the bounds are enough. Two tasks that dequeue are what the races of the queue
need; capacity 2 with four operations makes eviction, deduplication and rollback
over capacity happen. One failure and one crash each reach every error path; two
hot-update ids allow one to fail and another to be requested. In the watch
pipeline one more file than the capacities hold makes both overflows happen, and
two changes of a file are what old news against a new disk needs; the instance
with three changes and one failure (about 1 178 000 states) gives the same result for
the safety properties.
In Generations a second hot update on top of the first is what forces compaction,
the republication and the configuration change are the other users of an epoch,
and six epochs are more than the operations can use. The instance has one change and one
set of scanned files, so that a hot update replaces what the full index found.
Larger instances give the same results: with two changes and two scanned files all
four kinds of operation (about 2 293 000 states), two full indexes with two crashes
(9 725 000), two configuration changes beside a full index (1 339 000), and for
`UpdateCompletes` two hot updates and a full index (978 000), two crashes (331 000) and
two failing steps (410 000) without one. In FullIndexBatches a batch of
two files holds more than one embedding unit and exactly one BM25 unit, two
batches have a boundary between them, and two crashes allow a resumed run to be
interrupted. In IngestSync contents of two chunks are cut by a lost request, and a
threshold of one event makes both the push and the full pass of the watch loop
happen. Three requests are a probe and two late outcomes. In WatchMode two loops
are one storm and one recovery; four changes with two commands (about 207 000
states) give the same result.

CHECK_DEADLOCK is off where an instance may stop: ids, changes and failures are
bounded, and a server with nothing to do waits.

Named bounds that are not in the code: `MaxRollbacks`, `MaxConfigs`, `MaxFailures`,
`MaxFaults`, `MaxCrashes`, `MaxChanges`, `MaxCommands`, `MaxLoops`, `MaxEdits`,
`MaxEpoch`, the finite sets of operations and requests, and `MaxCount` (the largest
value of a counter, 2^32 - 1 in the code; the theorems hold for every value not
below the thresholds).

## 4. Fairness

* Steps of a started task: tokio polls every ready task and the database calls
  return. Weak fairness in all modules.
* OperationGate: startup recovery (runs before requests are served) and the
  periodic cleanup (a timer); in `gate_faults` also the hot worker picking up a
  configuration change or an unfinished operation, which the background processor
  does at every file event.
* WatchPipeline: the event loop's branches and the processor's decision (timers),
  and strong fairness of `BeginWanted`, because tokio's mutex is first come, first
  served.
* Generations: an unfinished full index is started again, by the startup recovery or
  the next request (weak fairness). An unfinished hot update is resumed under strong
  fairness, because other operations come in between; the hot-update
  runtime looks for one before it starts a new one and takes the latest
  (`Recoverable`).
* FullIndexBatches: the same of `Execute`.
* IngestSync: `GatewayStep`: the gateway goes on and its supervisor restarts it.
  Failures are bounded and never fair.
* CircuitBreaker: requests keep coming (strong, since the gate may refuse them in
  between), answers are not all deterministic errors, outcomes are recorded, time
  passes. Nothing is assumed of the store but what `Recovers` says.
* WatchMode: timers end; strong fairness of the debounce tick of a loop and of the
  processor's decision, which is justified because both intervals are 30 seconds
  by default (`cce-config`, `modules/orchestrator.rs:478,530`). With a shorter
  periodic interval the periodic task can take every turn (`periodic_scan.rs:31`).

Nothing is assumed of requests, failures, crashes, edits or heartbeats that expire.

## 5. Proofs

The theorems hold for every value of the constants: any number of operations, tasks,
files, batches, requests, failures and crashes. `PROJECT.json` lists them with the
property each one states. Every inductive invariant below is also an invariant of
TLC runs on the instances of section 3, which is how its parts were found.

**OperationProofs**, first the queue by itself: `Spec => []P` for the five invariants
of the `queue` run, and `EvictionCorrect`. The inductive invariant is
`IInv == TypeOK /\ QueueOrdered /\ Deduplication /\ BoundedQueue /\ OnePlace`.
Each conjunct needs others: the bound after an enqueue needs the types (a sequence
of known length), deduplication needs that removal of the same requests leaves
distinct ones, a rollback keeps `OnePlace` only because what is reserved is
neither pending nor reserved by another task, and eviction drops the lowest
priority only from a sorted queue. The lemmas before it say what `RetainAt`
(`VecDeque::retain`) keeps and in which order, that `InsertByPriority` preserves
sortedness, and what `RemoveAt`, `Cons` and `Tail` do to order, distinctness and
length.

Then the queue with its callers, in two parts. With failures, crashes, rollbacks and slow
operations: `GateTyping`, and `Refinement`, that `GateSpec` implements
OperationQueue, so that the queue's properties hold under the callers it really has
(`GateKeepsQueue`). A step of the gate is a step of the queue or changes the status
of a checkpoint, which the queue does not read; what the queue asks of its callers (a
fresh id for an enqueue, a reservation that is given back by its owner) follows from
`GateInv`, which says what a task holds at each of its points. Then, *until the
first failure, crash or rollback* and with `~Slow`: `GateExclusion`,
`SlotMeansWork`, `FlagMirrorsSlot` and `NoLingeringCheckpoint`, in the form
`GateSpec => [](Undisturbed => P)`. Section 3 has the executions that violate the
four after a fault, so the restriction is that of the code. `QuietInv` says who owns
the slot, the flag and every unfinished row.

**PositionLemmas** holds what several of the proofs need of numbers: a nonempty set of
naturals has a least element, which is what a choice of it gives, and the rank of a
position among the kept ones is monotone and onto.

**FullIndexBatchesProofs**: `BatchTyping`; `CommittedIsDurable`; the action property
`NothingTakenBack` (entity rows, committed units and stored chunks only grow, and a
link disappears only when its entity is rewritten); `RelationsAreComplete` and
`PublishedIsComplete`. The invariant has six layers, each proved from those
before it: `TypeInv`, `DurableInv` (what is buffered, deferred, written and marked),
`ParseInv` and `GraphInv` (what a run has parsed so far and what its graph is built
from), `StageInv` (a unit skipped in a stage was committed) and `PublishInv`. Chunk
ids are arbitrary, shared ones included. One hypothesis is stated in the theorems that
need it, `AbsolutePaths`: no path looked up is one that a checkpoint is recorded
under. It describes the code (absolute against relative paths) and is needed:
section 3 shows `PublishedComplete` violated when the paths agree.

**GenerationsProofs**: `GenTyping`; `PublicationsMonotone`, that neither the
publication id nor the epoch readers resolve goes back; `MarkersAlwaysSound`, that a
resumed hot update skips only what is in the candidate it adopts;
`ChainAlwaysShallow`, that the generation which the published one inherits from
inherits from none; and `GenerationsPublishAtomically`, the refinement: every step of
Generations is a step of Publication or changes nothing that readers see. All of them
hold for operations started in any order beside unfinished ones, and for crashes and
failing storage calls anywhere. The layers:
`TypeInv` (publication ids are distinct, so the newest active row is determined);
`OrderInv` (the slot belongs to the running operation and is one epoch ahead, nothing
about to be activated is behind the active generation, a collection plan never names
the active publication); `AloneInv /\ MarkInv` (nothing runs beside an unfinished hot
update that was not overtaken, and what it has marked is in its candidate); `LaneInv`
(one operation at most runs or is unfinished without having been overtaken, its row is
the newest until it is published, and it builds on a generation without parent);
`ChainInv`; and `ShownInv`. The first three are invariants as they stand, `LaneInv` and
`ChainInv` hold while `"stale"` is not in `harm`, `ShownInv` while `harm` is empty.
`ChainInv` is about *several*
rows of one epoch: candidates that failed or were abandoned keep their rows and their parent
links, and `parent_data_epoch_of` takes the newest row of an epoch, whatever its
state. It says that the row which published the parent (the heir) is newer
than those, and that the collection after the publication spares it. `ShownInv` is
what makes the activation of a row, one write to the manifest, publish exactly the
operation: above the published epoch the stores hold only what the current operation
put there (`AboveInv`), its candidate hides of the parent only what it changes
(`HideInv`) and holds all of it once it is ready (`FillInv`), what a compaction has
copied of a parent is what the published generation inherits (`CopyInv`, `MergeInv`),
and a collection keeps every epoch that a reader resolves (`KeepInv`). Compaction and
collection therefore change nothing visible. `ShownInv` rests on all layers but
`ChainInv`, so the refinement holds for any retention.

The one hypothesis is `KeepActive >= 2` of `ChainInv`, which is what the code
configures (`gc.rs:87`): with one retained generation the heir is collected before the
abandoned candidate (section 3), and `ChainShallow` is violated. What is excepted is
excepted in the properties themselves, by the history variables, and the violations
of section 3 show that each exception is needed.

**IngestSyncProofs**: `IngestTyping`, `PiecesAlwaysAgree` and `BaselineAlwaysKnown`,
all safety properties of the `ingest` run. The invariant is a chain: a chunk in
flight is a chunk of the scan (`BufInv`), so a staged piece is a piece of the version
it is kept under (`StagedInv`); every chunk of a file not yet in the mirror is asked
for, in flight or received (`CoverInv`), so a pass without errors leaves a mirror
that holds the scan (`MirrorInv`), which the commit indexes (`HeldInv`).

**WatchPipelineProofs**: `WatchTyping` and `NothingSilentlyLost`, the action property
`NoSilentLoss`: no step of the watcher, the queue, the detector or an operation leaves
a changed file without news on the way, a scan asked for or a checkpoint to resume.
A step keeps that only from states in which five things hold. What a half-failed
operation left is exactly what the operation that resumes it works on (`ResumeInv`),
so finishing the one may forget the other. What is about to be published is right of
the disk, undoes a file that is there, or is of a file known to differ (`BatchInv`), so
the publication adds no difference nobody knows of. Work that a later change overtook
has an event or a scan behind it (`StaleInv`), so publishing it is not the last word.
An operation that publishes or is left to resume has some file (`WorkInv`), and one
that failed with its generation active left files that differ from the index anyway or
are in it as they are on disk (`ShownInv`), so recording their hashes forgets nothing.
The lemmas before it follow a batch of events through `Inserted`: unless the queue
asks for a scan, it knows the latest news of every file afterwards, whatever the
capacity and the order.

**WatchModeProofs**: `ModeTyping` and `AlwaysObserved`. Besides the types the invariant
counts events and loops (`CountInv`, `RoomInv`) and says which channel the running
watcher sends to (`WatcherInv`).

**CircuitBreakerProofs**: `BreakerTyping`, `CountMeansStateCorrect` and
`TripsAndClosesOnRunsCorrect`. `RunsBound` is the strengthening: the failure count
of a closed circuit and the success count of a half-open one never exceed the runs
of outcomes recorded, which is what makes a count that reaches its threshold mean a
run of that length.

Assumptions on constants are the `ASSUME`s of the modules, which TLC evaluates in
every run: ids are naturals and none of them is `NoOp`, capacities and thresholds are
positive, counters can reach their thresholds, a content has at least one chunk. In
Generations the operations are finitely many and of one kind each, hot updates are
numbered in the order of their checkpoints (what recovery compares), at least one
generation is kept (`keep_active_generations.max(1)`,
`project_index_manifest_repo.rs:368`), and no hot update both writes and removes a
file (the pending changes are coalesced to one entry per path,
`change_merger.rs:648-664`). `NoneAssumption` says that the value for "no changes
known" is not a set of changes.

Only model-checked is all liveness (`SlotReleased`, `HotUpdateFinishes`, `QueueServed`,
`UpdateCompletes`, `Converges`, `Recovers`, `ReceivedIndexed`, `DegradedIndexes`,
`FullIndexCompletes`), which is outside the prover's reach.

## 6. Plan

1. *Done*: all modules of section 2; the safety properties of all of them proved,
   the refinements included.
2. Next, of the system: the background collection worker, the engine's cache of
   coordinators (`engine/providers.rs:428`), admission, the index state tracker.

## 7. Not modelled

The repository has about 388 000 lines of Rust. Most of them are the parsers, the
code graph with its type inference, document and standard-library extraction,
query expansion and ranking, the configuration schema, and clients, command line
and API surfaces: sequential transformations of text or numbers, without state
that outlives a call and without concurrency. Modelling them would transcribe
grammars, not check a design, so the models cover a small share of the lines and
most of the code that coordinates, persists and recovers.

Within the modelled parts these are left out: summaries, the natural-language
export, synthetic build files and the path that stores chunks without vectors in a
full index, and file sets that change between its runs; staging usage counters,
quotas, the sweep of old versions, the direct supply mode, `--no-commit`, requests
that arrive after the client gave up on them, and manifests without hashes in
ingest; the background collection worker, which cannot run (it blocks on the
runtime inside an async task, `shared/runtime/gc_worker.rs:141`), and a failing write
inside an abort in Generations. `activate` has an error for an active row with another
relation epoch (`project_index_manifest_repo.rs:241-247`); no execution reaches it,
since the relation epoch is kept per operation and all processors of an operation pass
the same one.

Real time (intervals, adaptive debounce, TTL lengths) appears only as
nondeterminism. Multiple roots per project and several processes on one database
are left out: the engine creates one coordinator per project.
