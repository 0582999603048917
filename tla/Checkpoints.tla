---------------------------- MODULE Checkpoints ----------------------------
(***************************************************************************)
(* The operation checkpoint table of one project                           *)
(* (cce-storage-metadb-sqlite, repo/checkpoint_repo.rs, written through     *)
(* CheckpointManager in cce-orchestrator, operation/checkpoint/mod.rs).     *)
(*                                                                         *)
(* A table is a function from operation ids to rows; every operator below  *)
(* is one SQL statement or one CheckpointManager transaction, as a function *)
(* from tables to tables.  What is kept of a row is what decides control:  *)
(* the status, the kind and root directory that select it for recovery,    *)
(* the active_flag, and of a flagged row whether its last_heartbeat is     *)
(* older than the stale threshold (no query reads the heartbeat of a row   *)
(* that is not flagged).  Batch counters, hashes and error texts are left out.        *)
(*                                                                         *)
(* Operation ids carry a timestamp, so they are numbers here and the        *)
(* ORDER BY created_at of the queries is the order of the ids.  An          *)
(* operation keeps its kind and root directory for life, so these are      *)
(* functions of the id.                                                    *)
(***************************************************************************)
EXTENDS Integers, FiniteSets

CONSTANTS Ops,     \* operation ids
          KindOf,  \* operation_type of the checkpoint of each operation
          Roots,   \* root directories
          RootOf,  \* root_dir of each operation
          NoOp     \* "no operation": Option::None

\* OperationKind
Kinds == {"full_index", "incremental", "hot_update", "config_change"}

ASSUME OpsAssumption ==
  /\ Ops \subseteq Nat
  /\ NoOp \notin Ops
  /\ KindOf \in [Ops -> Kinds]
  /\ RootOf \in [Ops -> Roots]

\* CheckpointStatus, and "absent" for an operation without a row
Statuses == {"absent", "in_progress", "completed", "failed"}

\* active_flag = 0; active_flag = 1 with a recent or with an old heartbeat
Flags == {"clear", "fresh", "stale"}

Row == [status : Statuses, flag : Flags]

Tables == [Ops -> Row]

NoRow == [status |-> "absent", flag |-> "clear"]

EmptyTable == [o \in Ops |-> NoRow]

Exists(cp, o) == cp[o].status # "absent"

---------------------------------------------------------------------------
\* INSERT of a fresh row: in progress, not active, heartbeat now
CreateCheckpoint(cp, o) ==
  [cp EXCEPT ![o] = [status |-> "in_progress", flag |-> "clear"]]

\* UPDATE ... SET active_flag = 1, last_heartbeat = now: no row, no effect
SetActiveFlag(cp, o) ==
  IF Exists(cp, o) THEN [cp EXCEPT ![o].flag = "fresh"] ELSE cp

ClearActiveFlag(cp, o) ==
  IF Exists(cp, o) THEN [cp EXCEPT ![o].flag = "clear"] ELSE cp

\* active_flag = 1; update_heartbeat requires it, or answers NotFound
Flagged(cp, o) == Exists(cp, o) /\ cp[o].flag # "clear"

UpdateHeartbeat(cp, o) == [cp EXCEPT ![o].flag = "fresh"]

\* the status changes, the active_flag does not
MarkOperationCompleted(cp, o) ==
  IF Exists(cp, o) THEN [cp EXCEPT ![o].status = "completed"] ELSE cp

MarkOperationFailed(cp, o) ==
  IF Exists(cp, o) THEN [cp EXCEPT ![o].status = "failed", ![o].flag = "clear"]
                   ELSE cp

\* rows WHERE active_flag = 1; get_active_checkpoint returns any one of them
ActiveRows(cp) == {o \in Ops : Flagged(cp, o)}

StaleActive(cp) == {o \in ActiveRows(cp) : cp[o].flag = "stale"}

CleanupStaleActive(cp) ==
  [o \in Ops |-> IF o \in StaleActive(cp) THEN [cp[o] EXCEPT !.flag = "clear"]
                                          ELSE cp[o]]

\* rows delete_expired_checkpoints may delete once they are old enough
Expirable(cp) ==
  {o \in Ops : cp[o].status \in {"completed", "failed"} /\ cp[o].flag = "clear"}

DeleteExpired(cp, old) ==
  [o \in Ops |-> IF o \in old \cap Expirable(cp) THEN NoRow ELSE cp[o]]

---------------------------------------------------------------------------
UnfinishedOperations(cp) == {o \in Ops : cp[o].status = "in_progress"}

IncompleteByType(cp, kind, root) ==
  {o \in UnfinishedOperations(cp) : KindOf[o] = kind /\ RootOf[o] = root}

\* ORDER BY created_at DESC LIMIT 1
LatestIncompleteByType(cp, kind, root) ==
  LET found == IncompleteByType(cp, kind, root)
  IN  IF found = {} THEN NoOp ELSE CHOOSE o \in found : \A p \in found : p <= o
============================================================================
