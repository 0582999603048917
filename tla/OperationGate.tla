--------------------------- MODULE OperationGate ---------------------------
(***************************************************************************)
(* The operations that use the queue: EngineOps::index (full index,        *)
(* engine/ops.rs), HotUpdateOperationRuntime (hot updates, configuration   *)
(* changes and their resumption, hot_update/operation_runtime.rs) and the  *)
(* startup recovery, on one project with one root.                         *)
(*                                                                         *)
(* Each worker is one task.  A step ends where the code awaits a lock or   *)
(* the database, so the workers interleave there; the full workers share   *)
(* the orchestrator mutex, and the hot-update runtime is behind a mutex of *)
(* its own, so there is one hot worker.  The id under which index() passes *)
(* the gate has no checkpoint: the row belongs to FileIndexer, under an id *)
(* of its own.  A call that fails returns Err wherever the code uses `?`.  *)
(***************************************************************************)
EXTENDS OperationQueue

CONSTANTS FullWorkers,  \* tasks that call index()
          HotWorker,    \* the task that holds the hot-update runtime
          IndexIds,     \* operation ids of FileIndexer checkpoints
          Slow,         \* whether an operation may outlast the heartbeat timeout
          MaxConfigs,   \* bounds on pending configuration paths,
          MaxFailures,  \* failed steps
          MaxCrashes    \* and crashes; none is in the code

VARIABLES worker,       \* the state of each task
          configs,      \* config_change_pending: how many paths wait
          recovery,     \* checkpoints the startup has still to replay
          used,         \* operation ids handed out
          failures, crashes

gateVars == <<worker, configs, recovery, used, failures, crashes>>
allVars == <<vars, gateVars>>

OpsOfKind(kind) == {o \in Ops : KindOf[o] = kind}
GateIds == OpsOfKind("full_index") \ IndexIds

ASSUME GateAssumption ==
  /\ Callers = FullWorkers \cup {HotWorker} /\ HotWorker \notin FullWorkers
  /\ IndexIds \subseteq OpsOfKind("full_index")
  /\ \A o, p \in Ops : RootOf[o] = RootOf[p]
  /\ Slow \in BOOLEAN
  /\ MaxConfigs \in Nat /\ MaxFailures \in Nat /\ MaxCrashes \in Nat

Points == {"idle", "enqueue", "gate", "persist", "start", "index", "checkpoint",
           "run", "resume", "complete", "mark", "markRow", "clear"}

\* own: the id the task runs under; row: the checkpoint it works on or has
\* still to close; done: the operation complete_active returned;
\* requeue: a failed configuration path goes back to the pending paths
Workers == [pc : Points, own : Ops \cup {NoOp}, row : Ops \cup {NoOp},
            done : Ops \cup {NoOp}, requeue : BOOLEAN]

Idle == [pc |-> "idle", own |-> NoOp, row |-> NoOp, done |-> NoOp, requeue |-> FALSE]

GateInit ==
  /\ Init
  /\ worker = [w \in Callers |-> Idle]
  /\ configs = 0
  /\ recovery = {}
  /\ used = {}
  /\ failures = 0 /\ crashes = 0

---------------------------------------------------------------------------
At(w, pc) == worker[w].pc = pc
Goto(w, pc) == worker' = [worker EXCEPT ![w].pc = pc]

\* the task returns; process_pending_config_changes re-queues a path that
\* did not succeed, the background path drops it
Return(w, ok) ==
  /\ worker' = [worker EXCEPT ![w] = Idle]
  /\ configs' = IF worker[w].requeue /\ ~ok THEN configs + 1 ELSE configs

\* requests are served once the startup recovery is over
Ready(w) == At(w, "idle") /\ recovery = {}

\* ids carry timestamps: the next id is the least one not handed out
NextId(ids) == IF ids \subseteq used THEN {} ELSE {Min(ids \ used)}

MayFail == failures < MaxFailures
Fails == MayFail /\ failures' = failures + 1

---------------------------------------------------------------------------
(***************************************************************************)
(* EngineOps::index.                                                       *)
(***************************************************************************)
HasActiveFullIndex == active # NoOp /\ KindOf[active] = "full_index"

\* request_full_index, the check: an active full index swallows the request
FullRequest(w) ==
  /\ Ready(w)
  /\ \E o \in NextId(GateIds) :
       /\ worker' = [worker EXCEPT ![w].own = o,
                       ![w].pc = IF HasActiveFullIndex THEN "gate" ELSE "enqueue"]
       /\ used' = used \cup {o}
  /\ UNCHANGED <<vars, configs, recovery, failures, crashes>>

\* request_full_index, the enqueue, under another acquisition of the locks
FullEnqueue(w) ==
  /\ At(w, "enqueue")
  /\ Enqueue(worker[w].own)
  /\ Goto(w, "gate")
  /\ UNCHANGED <<configs, recovery, used, failures, crashes>>

\* the orchestrator mutex is held from the start of execute() to the return
OrchestratorFree ==
  \A v \in FullWorkers : worker[v].pc \notin {"index", "complete", "mark", "clear"}

\* recover_file_indexer adopts the latest unfinished full-index checkpoint,
\* or starts a fresh one when there is none or it does not fit the files
FullStart(w) ==
  /\ At(w, "start") /\ OrchestratorFree
  /\ LET latest == LatestIncompleteByType(checkpoint, "full_index", RootOf[worker[w].own])
     IN  \/ /\ latest # NoOp
            /\ worker' = [worker EXCEPT ![w].pc = "index", ![w].row = latest]
            /\ UNCHANGED <<vars, used>>
         \/ \E o \in NextId(IndexIds) :
              /\ CheckpointCreated(o)
              /\ worker' = [worker EXCEPT ![w].pc = "index", ![w].row = o]
              /\ used' = used \cup {o}
  /\ UNCHANGED <<configs, recovery, failures, crashes>>

FullIndexed(w) ==
  /\ At(w, "index")
  /\ checkpoint' = MarkOperationCompleted(checkpoint, worker[w].row)
  /\ worker' = [worker EXCEPT ![w].pc = "complete", ![w].row = NoOp]
  /\ UNCHANGED <<queueVars, rollbacks, configs, recovery, used, failures, crashes>>

\* an incomplete or failed run leaves its checkpoint in progress; without
\* relations to publish, an incomplete run counts as published
FullFails(w) ==
  /\ At(w, "index")
  /\ Fails
  /\ \E pc \in {"complete", "clear"} :
       worker' = [worker EXCEPT ![w].pc = pc, ![w].row = NoOp]
  /\ UNCHANGED <<vars, configs, recovery, used, crashes>>

---------------------------------------------------------------------------
(***************************************************************************)
(* The gate: execute_next_operation of coordinator.rs.  dequeue hands out  *)
(* the front of the queue, whoever asks; a task that gets any operation    *)
(* goes on under its own id.                                               *)
(***************************************************************************)
Reject(w) ==
  /\ At(w, "gate")
  /\ active # NoOp \/ pending = <<>>
  /\ Return(w, FALSE)
  /\ UNCHANGED <<vars, recovery, used, failures, crashes>>

GateDequeue(w) ==
  /\ At(w, "gate")
  /\ DequeueReserve(w)
  /\ Goto(w, "persist")
  /\ UNCHANGED <<configs, recovery, used, failures, crashes>>

GatePersist(w) ==
  /\ At(w, "persist")
  /\ DequeuePersist(w)
  /\ Goto(w, IF w = HotWorker THEN "checkpoint" ELSE "start")
  /\ UNCHANGED <<configs, recovery, used, failures, crashes>>

\* mutant: the entry is restored at the back of the queue
GateRollbackBack(w) ==
  /\ At(w, "persist")
  /\ rollbacks < MaxRollbacks /\ rollbacks' = rollbacks + 1
  /\ active' = NoOp /\ pending' = Append(pending, reserved[w])
  /\ reserved' = [reserved EXCEPT ![w] = NoOp]
  /\ Return(w, FALSE)
  /\ UNCHANGED <<cleanup, checkpoint, recovery, used, failures, crashes>>

GateRollback(w) ==
  /\ At(w, "persist")
  /\ DequeueRollback(w)
  /\ Return(w, FALSE)
  /\ UNCHANGED <<recovery, used, failures, crashes>>

\* the task returns Err between the gate and the call that frees the slot:
\* the orchestrator, the checkpoint or a status update was not available
Abandon(w) ==
  /\ worker[w].pc \in {"start", "checkpoint", "run", "resume", "mark"}
  /\ Fails
  /\ Return(w, FALSE)
  /\ UNCHANGED <<vars, recovery, used, crashes>>

---------------------------------------------------------------------------
(***************************************************************************)
(* complete_operation: whatever holds the slot is completed, its           *)
(* checkpoint too.  A hot update without changes closes its own checkpoint *)
(* afterwards.                                                             *)
(***************************************************************************)
Complete(w) ==
  /\ At(w, "complete")
  /\ CompleteActive(TRUE)
  /\ worker' = [worker EXCEPT ![w].pc = "mark", ![w].done = active]
  /\ UNCHANGED <<configs, recovery, used, failures, crashes>>

CompleteNothing(w) ==
  /\ At(w, "complete") /\ active = NoOp
  /\ IF worker[w].row = NoOp THEN Return(w, TRUE)
                             ELSE Goto(w, "markRow") /\ UNCHANGED configs
  /\ UNCHANGED <<vars, recovery, used, failures, crashes>>

\* the slot is empty before the database is asked to clear the flag
CompleteFails(w) ==
  /\ At(w, "complete")
  /\ CompleteActive(FALSE)
  /\ Fails
  /\ Return(w, FALSE)
  /\ UNCHANGED <<recovery, used, crashes>>

Mark(w) ==
  /\ At(w, "mark")
  /\ checkpoint' = MarkOperationCompleted(checkpoint, worker[w].done)
  /\ IF worker[w].row = NoOp THEN Return(w, TRUE)
                             ELSE Goto(w, "markRow") /\ UNCHANGED configs
  /\ UNCHANGED <<queueVars, rollbacks, recovery, used, failures, crashes>>

MarkRow(w) ==
  /\ At(w, "markRow")
  /\ checkpoint' = MarkOperationCompleted(checkpoint, worker[w].row)
  /\ Return(w, TRUE)
  /\ UNCHANGED <<queueVars, rollbacks, recovery, used, failures, crashes>>

\* clear_active_by_operation, the failure path
Clear(w) ==
  /\ At(w, "clear")
  /\ ClearActiveByOperation(worker[w].own, TRUE)
  /\ Return(w, FALSE)
  /\ UNCHANGED <<recovery, used, failures, crashes>>

---------------------------------------------------------------------------
(***************************************************************************)
(* HotUpdateOperationRuntime::run_operation: a pending configuration path  *)
(* first, else an unfinished hot update, else a new one.                   *)
(***************************************************************************)
ConfigChanged ==
  /\ configs < MaxConfigs
  /\ NextId(OpsOfKind("config_change")) # {}
  /\ configs' = configs + 1
  /\ UNCHANGED <<vars, worker, recovery, used, failures, crashes>>

\* mutant: the emptiness of the pending paths is not checked
HotTakeConfigUnchecked(requeue) ==
  /\ Ready(HotWorker)
  /\ \E o \in NextId(OpsOfKind("config_change")) :
       /\ Enqueue(o)
       /\ worker' = [worker EXCEPT ![HotWorker].pc = "gate", ![HotWorker].own = o]
       /\ used' = used \cup {o}
  /\ configs' = configs - 1
  /\ UNCHANGED <<recovery, failures, crashes>>

HotTakeConfig(requeue) ==
  /\ Ready(HotWorker)
  /\ configs > 0
  /\ \E o \in NextId(OpsOfKind("config_change")) :
       /\ Enqueue(o)
       /\ worker' = [worker EXCEPT ![HotWorker].pc = "gate", ![HotWorker].own = o,
                                   ![HotWorker].requeue = requeue]
       /\ used' = used \cup {o}
  /\ configs' = configs - 1
  /\ UNCHANGED <<recovery, failures, crashes>>

Resumable ==
  LatestIncompleteByType(checkpoint, "hot_update", CHOOSE r \in Roots : TRUE)

\* resume_operation does not pass the gate
HotResume ==
  /\ Ready(HotWorker)
  /\ configs = 0
  /\ Resumable # NoOp
  /\ worker' = [worker EXCEPT ![HotWorker].pc = "resume", ![HotWorker].own = Resumable]
  /\ UNCHANGED <<vars, configs, recovery, used, failures, crashes>>

\* a new hot update, also when looking for an unfinished one failed
HotRequest ==
  /\ Ready(HotWorker)
  /\ configs = 0
  /\ IF Resumable = NoOp THEN UNCHANGED failures ELSE Fails
  /\ \E o \in NextId(OpsOfKind("hot_update")) :
       /\ Enqueue(o)
       /\ worker' = [worker EXCEPT ![HotWorker].pc = "gate", ![HotWorker].own = o]
       /\ used' = used \cup {o}
  /\ UNCHANGED <<configs, recovery, crashes>>

HotCheckpoint ==
  /\ At(HotWorker, "checkpoint")
  /\ CheckpointCreated(worker[HotWorker].own)
  /\ Goto(HotWorker, "run")
  /\ UNCHANGED <<configs, recovery, used, failures, crashes>>

\* mutants: the early return closes the checkpoint and forgets the slot, or
\* completes the operation and forgets the checkpoint
HotNoChangeKeepsSlot ==
  /\ At(HotWorker, "run")
  /\ KindOf[worker[HotWorker].own] = "hot_update"
  /\ worker' = [worker EXCEPT ![HotWorker].pc = "markRow",
                              ![HotWorker].row = worker[HotWorker].own]
  /\ UNCHANGED <<vars, configs, recovery, used, failures, crashes>>

HotNoChangeKeepsRow ==
  /\ At(HotWorker, "run")
  /\ KindOf[worker[HotWorker].own] = "hot_update"
  /\ Goto(HotWorker, "complete")
  /\ UNCHANGED <<vars, configs, recovery, used, failures, crashes>>

HotNoChange ==
  /\ At(HotWorker, "run")
  /\ KindOf[worker[HotWorker].own] = "hot_update"
  /\ worker' = [worker EXCEPT ![HotWorker].pc = "complete",
                              ![HotWorker].row = worker[HotWorker].own]
  /\ UNCHANGED <<vars, configs, recovery, used, failures, crashes>>

\* mutant: the finished checkpoint is not marked
HotSucceedsUnmarked ==
  /\ worker[HotWorker].pc \in {"run", "resume"}
  /\ Goto(HotWorker, "complete")
  /\ UNCHANGED <<vars, configs, recovery, used, failures, crashes>>

HotSucceeds ==
  /\ worker[HotWorker].pc \in {"run", "resume"}
  /\ checkpoint' = MarkOperationCompleted(checkpoint, worker[HotWorker].own)
  /\ Goto(HotWorker, "complete")
  /\ UNCHANGED <<queueVars, rollbacks, configs, recovery, used, failures, crashes>>

\* a failed hot update stays resumable, a failed configuration change is over
HotFails ==
  /\ worker[HotWorker].pc \in {"run", "resume"}
  /\ Fails
  /\ checkpoint' = IF KindOf[worker[HotWorker].own] = "config_change"
                   THEN MarkOperationFailed(checkpoint, worker[HotWorker].own)
                   ELSE checkpoint
  /\ Goto(HotWorker, "clear")
  /\ UNCHANGED <<queueVars, rollbacks, configs, recovery, used, crashes>>

---------------------------------------------------------------------------
(***************************************************************************)
(* A crash, and recover_unfinished_operations and the configuration replay *)
(* of the next startup, one checkpoint after the other: a stale one is     *)
(* marked failed, a full index is queued again, a configuration path is    *)
(* pending again, and a hot update waits for the hot worker.               *)
(***************************************************************************)
Crash ==
  /\ crashes < MaxCrashes
  /\ Restart
  /\ worker' = [w \in Callers |-> Idle]
  /\ configs' = 0
  /\ recovery' = UnfinishedOperations(checkpoint)
  /\ crashes' = crashes + 1
  /\ UNCHANGED <<used, failures>>

NextRecovered == Min(recovery)

RecoverStale ==
  /\ recovery # {}
  /\ checkpoint' = MarkOperationFailed(checkpoint, NextRecovered)
  /\ recovery' = recovery \ {NextRecovered}
  /\ UNCHANGED <<queueVars, rollbacks, worker, configs, used, failures, crashes>>

RecoverQueued ==
  /\ recovery # {} /\ KindOf[NextRecovered] = "full_index"
  /\ Enqueue(NextRecovered)
  /\ recovery' = recovery \ {NextRecovered}
  /\ UNCHANGED <<worker, configs, used, failures, crashes>>

RecoverDirect ==
  /\ recovery # {} /\ KindOf[NextRecovered] # "full_index"
  /\ configs' = IF KindOf[NextRecovered] = "config_change" THEN configs + 1 ELSE configs
  /\ recovery' = recovery \ {NextRecovered}
  /\ UNCHANGED <<vars, worker, used, failures, crashes>>

---------------------------------------------------------------------------
(***************************************************************************)
(* The periodic cleanup task, and time.  The heartbeat guard of the hot    *)
(* worker refreshes the row of its own id and no other.                    *)
(***************************************************************************)
Beating(o) == worker[HotWorker].own = o /\ worker[HotWorker].pc # "gate"

\* A task works behind the gate from the moment dequeue gives it the slot to
\* the moment complete_operation or clear_active_by_operation returns.
Working(w) ==
  worker[w].pc \in {"persist", "start", "index", "checkpoint", "run", "resume",
                    "complete", "clear"}

TimeoutPasses(o) ==
  /\ ~Beating(o)
  /\ Slow \/ o # active \/ \A w \in Callers : ~Working(w)
  /\ HeartbeatExpires(o)
  /\ UNCHANGED gateVars

TtlCleanup ==
  /\ \E old \in SUBSET Expirable(checkpoint) :
       checkpoint' = DeleteExpired(checkpoint, old)
  /\ UNCHANGED <<queueVars, rollbacks, gateVars>>

StaleCleanup == (CleanupStaleDb \/ CleanupStaleMemory) /\ UNCHANGED gateVars

---------------------------------------------------------------------------
FullStep(w) == FullEnqueue(w) \/ FullStart(w) \/ FullIndexed(w)

HotStep == HotCheckpoint \/ HotNoChange \/ HotSucceeds

AnyStep(w) ==
  \/ Reject(w) \/ GateDequeue(w) \/ GatePersist(w)
  \/ Complete(w) \/ CompleteNothing(w) \/ Mark(w) \/ MarkRow(w) \/ Clear(w)

Faulty(w) == GateRollback(w) \/ Abandon(w) \/ CompleteFails(w)

Recover == RecoverStale \/ RecoverQueued \/ RecoverDirect

GateNext ==
  \/ \E w \in FullWorkers : FullRequest(w) \/ FullStep(w) \/ FullFails(w)
  \/ \E w \in Callers : AnyStep(w) \/ Faulty(w)
  \/ \E requeue \in BOOLEAN : HotTakeConfig(requeue)
  \/ ConfigChanged \/ HotResume \/ HotRequest \/ HotStep \/ HotFails
  \/ Crash \/ Recover
  \/ \E o \in Ops : TimeoutPasses(o)
  \/ TtlCleanup \/ StaleCleanup

\* A started task runs on (tokio polls every ready task), the startup
\* recovery finishes and the periodic cleanup comes round again.
Fairness ==
  /\ \A w \in FullWorkers : WF_allVars(FullStep(w) \/ AnyStep(w))
  /\ WF_allVars(HotStep \/ AnyStep(HotWorker))
  /\ WF_allVars(Recover)
  /\ WF_allVars(StaleCleanup)

GateSpec == GateInit /\ [][GateNext]_allVars /\ Fairness

\* ... and file changes keep coming, each of which wakes the hot worker.
Watched == \E requeue \in BOOLEAN : HotTakeConfig(requeue) \/ HotResume

WatchedSpec == GateSpec /\ WF_allVars(Watched)

---------------------------------------------------------------------------
\* Type correctness of the tasks of index() and the hot-update runtime, of the
\* configuration changes they take and of what startup recovery has to replay.
GateTypeOK ==
  /\ worker \in [Callers -> Workers]
  /\ configs \in Nat
  /\ recovery \in SUBSET Ops /\ used \in SUBSET Ops
  /\ failures \in 0..MaxFailures /\ crashes \in 0..MaxCrashes

\* The queue as its callers see it: of a checkpoint only its existence and
\* its flag.
Queue == INSTANCE OperationQueue WITH
  checkpoint <- [o \in Ops |-> IF Exists(checkpoint, o)
                               THEN [checkpoint[o] EXCEPT !.status = "in_progress"]
                               ELSE NoRow]

\* The callers of queue.rs keep to what OperationQueue assumes of them (an id
\* is enqueued only while the queue does not hold it, a reservation is
\* finished by the task that made it), so everything proved of the queue
\* holds here, under crashes, recovery and failing callers.
QueueRefined == Queue!Spec

\* "Ensures no concurrent conflicts between operations" (coordinator.rs:7),
\* "single active at a time" (queue.rs:6): no two operations run at once.
GateExclusion == \A v, w \in Callers : Working(v) /\ Working(w) => v = w

\* The slot is never given back under a running operation, nor kept when
\* nobody works: it is taken exactly while one task is behind the gate.
SlotMeansWork == active # NoOp <=> \E w \in Callers : Working(w)

\* An operation that takes the slot frees it again; a queue whose slot is
\* never freed rejects every later operation of the project.
SlotReleased == active # NoOp ~> active = NoOp

\* "so the queue never deadlocks on a failed operation" (queue.rs:365),
\* "Failure path must never leave the queue deadlocked"
\* (operation_runtime.rs:779): an operation that fails frees the slot.
FailurePathFreesSlot ==
  \A w \in Callers : At(w, "clear") ~> active = NoOp

\* "The early checkpoint ... must not linger as in_progress"
\* (operation_runtime.rs:512): when nothing fails, an unfinished checkpoint
\* belongs to a task that is working on it.
NoLingeringCheckpoint ==
  \A o \in UnfinishedOperations(checkpoint) :
    \E w \in Callers : o \in {worker[w].own, worker[w].row}

\* The active_flag of the database mirrors the slot: while nothing fails and
\* no operation is slow, no other checkpoint is flagged, so a cleanup that
\* looks at the database never takes the slot for a dead operation's.
FlagMirrorsSlot == ActiveRows(checkpoint) \subseteq {active}

\* An interrupted hot update is resumed until it is finished, even while the
\* slot is stuck, unless a configuration change waits: those go first.
HotUpdateFinishes ==
  \A o \in OpsOfKind("hot_update") :
    checkpoint[o].status = "in_progress"
      ~> checkpoint[o].status # "in_progress" \/ configs > 0
============================================================================
