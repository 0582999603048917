--------------------------- MODULE OperationQueue ---------------------------
(***************************************************************************)
(* OperationQueue of cce-orchestrator (operation/queue.rs): the bounded     *)
(* priority queue in front of the single active slot of a project, and the *)
(* active_flag it mirrors into the checkpoint table.                       *)
(*                                                                         *)
(* The callers are concurrent tokio tasks.  An action is what the code does *)
(* under one acquisition of its mutexes; dequeue and                       *)
(* cleanup_stale_operations release them around their database work, so    *)
(* each is two actions with the caller's local result kept in `reserved`   *)
(* and `cleanup`.  Any task may make any call at any time.                 *)
(***************************************************************************)
EXTENDS Checkpoints, Sequences, SequencesExt

CONSTANTS Callers,      \* tasks that may dequeue
          MaxPending,   \* MAX_PENDING_OPERATIONS
          MaxRollbacks  \* bound on failed persists; not in the code

VARIABLES pending,      \* VecDeque<PendingOperation>
          active,       \* Option<ActiveOperation>
          reserved,     \* next_op of each dequeue between its two phases
          cleanup,      \* db_active of a cleanup between its two phases
          checkpoint,   \* the checkpoint table
          rollbacks     \* how many dequeues were rolled back so far

vars == <<pending, active, reserved, cleanup, checkpoint, rollbacks>>
queueVars == <<pending, active, reserved, cleanup>>

ASSUME QueueAssumption == MaxPending \in Nat \ {0} /\ MaxRollbacks \in Nat

\* a configuration change queues as a hot update
QueueKind(o) == IF KindOf[o] = "config_change" THEN "hot_update" ELSE KindOf[o]

\* OperationPriority
Priority(o) ==
  IF KindOf[o] = "full_index" THEN 3 ELSE IF KindOf[o] = "incremental" THEN 2 ELSE 1

IdleCleanup == [busy |-> FALSE, dbActive |-> NoOp]

Init ==
  /\ pending = <<>>
  /\ active = NoOp
  /\ reserved = [c \in Callers |-> NoOp]
  /\ cleanup = IdleCleanup
  /\ checkpoint = EmptyTable
  /\ rollbacks = 0

---------------------------------------------------------------------------
(***************************************************************************)
(* enqueue: drop the entries of the same kind and root, insert before the  *)
(* first entry of lower priority, and over capacity drop the first entry   *)
(* that has the priority of the last one.                                  *)
(***************************************************************************)
SameRequest(o, p) == QueueKind(o) = QueueKind(p) /\ RootOf[o] = RootOf[p]

\* the i-th smallest element of a finite set of positions
NthOf(I, n) == CHOOSE i \in I : Cardinality({j \in I : j <= i}) = n

\* VecDeque::retain, the entries of s at the positions I, in order
RetainAt(s, I) == [n \in 1..Cardinality(I) |-> s[NthOf(I, n)]]

\* mutant: retain keeps every entry
DeduplicatedNever(s, o) == s

Deduplicated(s, o) == RetainAt(s, {i \in DOMAIN s : ~SameRequest(s[i], o)})

\* mutant: push_back, whatever the priority
InsertPositionLast(s, o) == Len(s) + 1

InsertPosition(s, o) ==
  LET lower == {i \in DOMAIN s : Priority(o) > Priority(s[i])}
  IN  IF lower = {} THEN Len(s) + 1 ELSE Min(lower)

InsertByPriority(s, o) == InsertAt(s, InsertPosition(s, o), o)

\* mutant: the front is dropped
EvictPositionFront(s) == 1

EvictPosition(s) ==
  Min({i \in DOMAIN s : Priority(s[i]) = Priority(s[Len(s)])})

\* mutant: one entry too many is kept
EvictOverflowLate(s) ==
  IF Len(s) > MaxPending + 1 THEN RemoveAt(s, EvictPosition(s)) ELSE s

EvictOverflow(s) ==
  IF Len(s) > MaxPending THEN RemoveAt(s, EvictPosition(s)) ELSE s

Enqueued(s, o) == EvictOverflow(InsertByPriority(Deduplicated(s, o), o))

PendingOps == {pending[i] : i \in DOMAIN pending}

ReservedOps == {reserved[c] : c \in Callers} \ {NoOp}

\* callers enqueue an operation under an id the queue does not hold: a new
\* timestamp, or the id of a checkpoint replayed into an empty queue
Enqueue(o) ==
  /\ o \notin PendingOps \cup ReservedOps \cup {active}
  /\ pending' = Enqueued(pending, o)
  /\ UNCHANGED <<active, reserved, cleanup, checkpoint, rollbacks>>

---------------------------------------------------------------------------
(***************************************************************************)
(* dequeue.  Phase 1 pops the front and takes the slot; phase 2 persists   *)
(* the active flag with no lock held, and a failure restores the entry.    *)
(***************************************************************************)
\* mutant: the front is peeked at, not popped
DequeueReservePeek(c) ==
  /\ reserved[c] = NoOp /\ active = NoOp /\ pending # <<>>
  /\ active' = Head(pending)
  /\ reserved' = [reserved EXCEPT ![c] = Head(pending)]
  /\ UNCHANGED <<pending, cleanup, checkpoint, rollbacks>>

\* mutant: an occupied slot is not looked at
DequeueReserveOccupied(c) ==
  /\ reserved[c] = NoOp /\ pending # <<>>
  /\ active' = Head(pending) /\ pending' = Tail(pending)
  /\ reserved' = [reserved EXCEPT ![c] = Head(pending)]
  /\ UNCHANGED <<cleanup, checkpoint, rollbacks>>

DequeueReserve(c) ==
  /\ reserved[c] = NoOp
  /\ active = NoOp
  /\ pending # <<>>
  /\ active' = Head(pending)
  /\ pending' = Tail(pending)
  /\ reserved' = [reserved EXCEPT ![c] = Head(pending)]
  /\ UNCHANGED <<cleanup, checkpoint, rollbacks>>

DequeuePersist(c) ==
  /\ reserved[c] # NoOp
  /\ checkpoint' = SetActiveFlag(checkpoint, reserved[c])
  /\ reserved' = [reserved EXCEPT ![c] = NoOp]
  /\ UNCHANGED <<pending, active, cleanup, rollbacks>>

\* mutant: what the slot holds by now is restored, not what was reserved
DequeueRollbackSlot(c) ==
  /\ reserved[c] # NoOp /\ rollbacks < MaxRollbacks
  /\ active' = NoOp /\ pending' = Cons(active, pending)
  /\ reserved' = [reserved EXCEPT ![c] = NoOp]
  /\ rollbacks' = rollbacks + 1
  /\ UNCHANGED <<cleanup, checkpoint>>

DequeueRollback(c) ==
  /\ reserved[c] # NoOp
  /\ rollbacks < MaxRollbacks
  /\ active' = NoOp
  /\ pending' = Cons(reserved[c], pending)
  /\ reserved' = [reserved EXCEPT ![c] = NoOp]
  /\ rollbacks' = rollbacks + 1
  /\ UNCHANGED <<cleanup, checkpoint>>

---------------------------------------------------------------------------
Heartbeat(o) ==
  /\ Flagged(checkpoint, o)
  /\ checkpoint' = UpdateHeartbeat(checkpoint, o)
  /\ UNCHANGED <<queueVars, rollbacks>>

\* mutant: the flag of the completed operation is left to the cleanup
CompleteActiveFlagged(dbOk) ==
  /\ active # NoOp /\ active' = NoOp
  /\ UNCHANGED <<pending, reserved, cleanup, checkpoint, rollbacks>>

\* mutant: the slot is read, not taken
CompleteActiveKept(dbOk) ==
  /\ active # NoOp
  /\ checkpoint' = IF dbOk THEN ClearActiveFlag(checkpoint, active) ELSE checkpoint
  /\ UNCHANGED <<pending, active, reserved, cleanup, rollbacks>>

\* complete_active takes whatever holds the slot; when the database fails
\* the slot is already empty and the flag stays set
CompleteActive(dbOk) ==
  /\ active # NoOp
  /\ active' = NoOp
  /\ checkpoint' = IF dbOk THEN ClearActiveFlag(checkpoint, active) ELSE checkpoint
  /\ UNCHANGED <<pending, reserved, cleanup, rollbacks>>

\* the slot is emptied only when it holds o; the flag of o is cleared always
\* (after the slot's mutex is released: with another call in between it is
\* ClearActiveByOperation(o, FALSE) and then CheckpointFailed(o))
ClearActiveByOperation(o, dbOk) ==
  /\ active' = IF active = o THEN NoOp ELSE active
  /\ checkpoint' = IF dbOk THEN ClearActiveFlag(checkpoint, o) ELSE checkpoint
  /\ UNCHANGED <<pending, reserved, cleanup, rollbacks>>

CancelPending(o) ==
  /\ \E i \in DOMAIN pending :
       /\ pending[i] = o
       /\ \A j \in DOMAIN pending : pending[j] = o => i <= j
       /\ pending' = RemoveAt(pending, i)
  /\ UNCHANGED <<active, reserved, cleanup, checkpoint, rollbacks>>

ClearPending ==
  /\ pending' = <<>>
  /\ UNCHANGED <<active, reserved, cleanup, checkpoint, rollbacks>>

---------------------------------------------------------------------------
(***************************************************************************)
(* cleanup_stale_operations.  First the database: clear the stale flags    *)
(* and, if there were any, read which operation is still flagged.  Then,   *)
(* under the slot's mutex, empty the slot unless it holds that operation.  *)
(***************************************************************************)
CleanupStaleDb ==
  /\ ~cleanup.busy
  /\ StaleActive(checkpoint) # {}
  /\ checkpoint' = CleanupStaleActive(checkpoint)
  /\ LET left == ActiveRows(checkpoint) \ StaleActive(checkpoint)
     IN  \E o \in (IF left = {} THEN {NoOp} ELSE left) :
           cleanup' = [busy |-> TRUE, dbActive |-> o]
  /\ UNCHANGED <<pending, active, reserved, rollbacks>>

CleanupStaleMemory ==
  /\ cleanup.busy
  /\ active' = IF active = cleanup.dbActive THEN active ELSE NoOp
  /\ cleanup' = IdleCleanup
  /\ UNCHANGED <<pending, reserved, checkpoint, rollbacks>>

---------------------------------------------------------------------------
(***************************************************************************)
(* The process dies: what is in memory is gone, the table is not.          *)
(* load_persisted_active is a startup call on the fresh queue.             *)
(***************************************************************************)
Restart ==
  /\ pending' = <<>>
  /\ active' = NoOp
  /\ reserved' = [c \in Callers |-> NoOp]
  /\ cleanup' = IdleCleanup
  /\ UNCHANGED <<checkpoint, rollbacks>>

LoadPersistedActive ==
  /\ active = NoOp /\ pending = <<>> /\ ReservedOps = {}
  /\ active' \in ActiveRows(checkpoint)
  /\ UNCHANGED <<pending, reserved, cleanup, checkpoint, rollbacks>>

---------------------------------------------------------------------------
(***************************************************************************)
(* What the rest of the system does to the table, as far as the queue sees *)
(* it: a checkpoint is created, its operation fails, which clears the flag *)
(* (the queue reads no status), the TTL cleanup deletes checkpoints that   *)
(* are not active, and time passes without a heartbeat.                    *)
(***************************************************************************)
CheckpointCreated(o) ==
  /\ ~Exists(checkpoint, o)
  /\ checkpoint' = CreateCheckpoint(checkpoint, o)
  /\ UNCHANGED <<queueVars, rollbacks>>

CheckpointFailed(o) ==
  /\ Flagged(checkpoint, o)
  /\ checkpoint' = ClearActiveFlag(checkpoint, o)
  /\ UNCHANGED <<queueVars, rollbacks>>

CheckpointsExpire ==
  /\ \E old \in SUBSET {o \in Ops : Exists(checkpoint, o) /\ ~Flagged(checkpoint, o)} :
       checkpoint' = [o \in Ops |-> IF o \in old THEN NoRow ELSE checkpoint[o]]
  /\ UNCHANGED <<queueVars, rollbacks>>

HeartbeatExpires(o) ==
  /\ Flagged(checkpoint, o)
  /\ checkpoint' = [checkpoint EXCEPT ![o].flag = "stale"]
  /\ UNCHANGED <<queueVars, rollbacks>>

Next ==
  \/ \E o \in Ops : Enqueue(o) \/ CancelPending(o)
  \/ \E c \in Callers : DequeueReserve(c) \/ DequeuePersist(c) \/ DequeueRollback(c)
  \/ \E o \in Ops : CheckpointCreated(o) \/ CheckpointFailed(o)
  \/ CheckpointsExpire
  \/ \E o \in Ops : Heartbeat(o) \/ HeartbeatExpires(o)
  \/ \E dbOk \in BOOLEAN : CompleteActive(dbOk)
  \/ \E o \in Ops, dbOk \in BOOLEAN : ClearActiveByOperation(o, dbOk)
  \/ ClearPending
  \/ CleanupStaleDb \/ CleanupStaleMemory
  \/ Restart \/ LoadPersistedActive

Spec == Init /\ [][Next]_vars

---------------------------------------------------------------------------
\* Type correctness of OperationQueue's pending deque, slot and reservations, and of
\* the checkpoint table it mirrors its slot in.
TypeOK ==
  /\ pending \in Seq(Ops)
  /\ active \in Ops \cup {NoOp}
  /\ reserved \in [Callers -> Ops \cup {NoOp}]
  /\ cleanup \in [busy : BOOLEAN, dbActive : Ops \cup {NoOp}]
  /\ checkpoint \in Tables
  /\ rollbacks \in 0..MaxRollbacks

PrioritySorted(s) ==
  \A i, j \in DOMAIN s : i < j => Priority(s[i]) >= Priority(s[j])

DistinctRequests(s) == \A i, j \in DOMAIN s : SameRequest(s[i], s[j]) => i = j

DistinctEntries(s) == \A i, j \in DOMAIN s : s[i] = s[j] => i = j

\* "Pending operations waiting for execution, ordered by priority"
\* (queue.rs:99): as long as no dequeue was rolled back, the front of the
\* queue is an operation of the highest pending priority, whatever was
\* enqueued, cancelled or evicted in between.
QueueOrdered == rollbacks = 0 => PrioritySorted(pending)

\* "Pending operations waiting for execution, ordered by priority" (queue.rs:98):
\* with rollbacks too.  A rolled-back dequeue puts its entry back at the front.
PendingSorted == PrioritySorted(pending)

\* As long as no dequeue was rolled back, two pending operations never ask
\* for the same kind of work on the same root (deduplication, queue.rs:190).
Deduplication == rollbacks = 0 => DistinctRequests(pending)

\* The queue is bounded by MAX_PENDING_OPERATIONS and every rollback can add
\* at most one entry on top of it: enqueue then evicts one for each it adds.
BoundedQueue == Len(pending) <= MaxPending + rollbacks

\* An operation is in one place: pending once, or reserved by one dequeue;
\* what holds the slot is not pending.  A rollback that finds its slot
\* taken away by another task must not duplicate the operation.
OnePlace ==
  /\ DistinctEntries(pending)
  /\ \A c, d \in Callers : reserved[c] # NoOp /\ reserved[c] = reserved[d] => c = d
  /\ PendingOps \cap (ReservedOps \cup {active}) = {}

\* "When full, the lowest-priority pending operation is dropped"
\* (queue.rs:22): while no dequeue was rolled back, an operation that enqueue
\* drops without replacing it has the lowest priority of those that remain.
EvictsLowestPriority ==
  [][rollbacks = 0 =>
       \A o \in Ops : Enqueue(o) =>
         \A p \in PendingOps \ PendingOps' :
           SameRequest(p, o) \/ \A r \in PendingOps' : Priority(r) >= Priority(p)]_vars
============================================================================
