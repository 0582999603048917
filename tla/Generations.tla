----------------------------- MODULE Generations -----------------------------
(* The generation lifecycle of one project: the manifest table that selects     *)
(* the published generation, the storage coordinator that builds a candidate    *)
(* beside it, and the operations that drive them.                               *)
(*                                                                              *)
(* A hot update registers a candidate at epoch active + 1 that inherits from    *)
(* the active generation; its processors write changed files into the           *)
(* candidate and hide the inherited ones with overrides; each processor then    *)
(* activates the candidate and collects retired generations.  Before a second   *)
(* generation inherits, the active one is compacted: it copies what it          *)
(* inherits and drops its link.  A full index fills an epoch of its own.        *)
(* Every transaction and every call of an external store is one step, and the   *)
(* process may crash between any two.  Operations exclude each other            *)
(* (OperationGate): one runs at a time.                                         *)
EXTENDS Integers, FiniteSets

CONSTANTS HotOps,      \* hot updates, numbered in the order of their checkpoints
          ConfigOps,   \* configuration changes: the same protocol, no files
          FullOps,     \* full indexes
          RelOps,      \* republications after a relation delta compaction
          Files, None,
          HotChanges,  \* what a hot update may change: records [put, del]
          Scans,       \* the sets of files a full index may find
          KeepActive,  \* retention of generation GC
          MaxEpoch, MaxCrashes, MaxFaults

Ops == HotOps \cup ConfigOps \cup FullOps \cup RelOps
Epochs == 1..MaxEpoch

(* "docs": the external stores (vectors, BM25), "rows": the SQLite data tables. *)
(* The storage-backed processors in their order: what embedding and BM25 write, *)
(* then what summary and relation write.                                        *)
Stores == {"docs", "rows"}
Modules == <<"docs", "rows">>

ASSUME GenAssumption ==
  /\ None \notin Ops /\ IsFiniteSet(Ops)
  /\ HotOps \cap FullOps = {} /\ (HotOps \cup FullOps) \cap ConfigOps = {}
  /\ RelOps \cap (HotOps \cup ConfigOps \cup FullOps) = {}
  /\ KeepActive \in Nat \ {0} /\ MaxEpoch \in Nat /\ MaxCrashes \in Nat /\ MaxFaults \in Nat
  /\ HotOps \subseteq Nat
  /\ HotChanges \subseteq [put : SUBSET Files, del : SUBSET Files]
  /\ \A c \in HotChanges : c.put \cap c.del = {}   \* coalesce_pending_changes
  /\ Scans \subseteq SUBSET Files

(* "Nothing announced yet" is told apart from every set of changes.             *)
ASSUME NoneAssumption == None \notin [put : SUBSET Files, del : SUBSET Files]

VARIABLES
  man,      \* project_index_manifests, a row per operation
  meta,     \* project_meta: epoch, active_epoch, epoch_ready
  data,     \* data[s][e][f]: whose version of f store s holds in epoch e
  ov,       \* generation_overrides: the files an epoch hides in its parent
  ck,       \* checkpoint status per operation
  work,     \* the changes in the operation's file checkpoints
  marks,    \* module (hot) and batch (full) progress in the checkpoint
  mem,      \* StorageCoordinator: epoch and candidate_operation; the full index's epoch
  run,      \* the operation in flight
  lapped,   \* history: operations that were unfinished when another one began
  harm,     \* history: what has been done to readers (Harms)
  crashes, faults

dbVars == <<man, meta, data, ov>>
ckVars == <<ck, work, marks>>
genVars == <<man, meta, data, ov, ck, work, marks, mem, run, lapped, harm,
            crashes, faults>>

NoRow == [st |-> "none", pub |-> 0, data |-> 0, parent |-> 0, ready |-> FALSE]
NoPlan == [protected |-> {}, stale |-> {}, pubs |-> {}]
Blank == [f \in Files |-> None]
Idle == [op |-> None, pc |-> "idle", k |-> 0, resume |-> FALSE, failed |-> FALSE,
         plan |-> NoPlan]

(* "stale": an overtaken operation was taken up again.  "mixed": a full index   *)
(* began beside an unfinished hot update, whose rows it finds in its epoch.     *)
(* "reused": a full index began to fill the published epoch.  "cleared": an     *)
(* abort cleared an epoch that readers resolve.                                 *)
Harms == {"stale", "mixed", "reused", "cleared"}

(* Type correctness of the manifest, project_meta, the stores and the          *)
(* coordinator's memory; epochs that are written stay within those modelled.    *)
GenTypeOK ==
  /\ man \in [Ops -> [st : {"none", "building", "active", "failed"}, pub : Nat,
                      data : Nat, parent : Nat, ready : BOOLEAN]]
  /\ meta \in [epoch : Nat, active : Nat, ready : BOOLEAN]
  /\ data \in [Stores -> [Epochs -> [Files -> Ops \cup {None}]]]
  /\ ov \in [Epochs -> SUBSET Files]
  /\ ck \in [Ops -> {"none", "in_progress", "completed", "failed"}]
  /\ work \in [Ops -> {None} \cup [put : SUBSET Files, del : SUBSET Files]]
  /\ marks \in [Ops -> SUBSET (Stores \cup Files)]
  /\ mem \in [hot : Nat, slot : Ops \cup {None}, full : Nat]
  /\ run.op \in Ops \cup {None} /\ run.k \in 0..2
  /\ lapped \in SUBSET Ops /\ harm \in SUBSET Harms
  /\ crashes \in 0..MaxCrashes /\ faults \in 0..MaxFaults

GenInit ==
  /\ man = [o \in Ops |-> NoRow]
  /\ meta = [epoch |-> 0, active |-> 0, ready |-> TRUE]
  /\ data = [s \in Stores |-> [e \in Epochs |-> Blank]]
  /\ ov = [e \in Epochs |-> {}]
  /\ ck = [o \in Ops |-> "none"]
  /\ work = [o \in Ops |-> None]
  /\ marks = [o \in Ops |-> {}]
  /\ mem = [hot |-> 0, slot |-> None, full |-> 0]
  /\ run = Idle
  /\ lapped = {} /\ harm = {}
  /\ crashes = 0 /\ faults = 0

------------------------------------------------------------------------------
(* The manifest table.                                                          *)

Highest(S) == CHOOSE x \in S : \A y \in S : y <= x

ActiveOps == {o \in Ops : man[o].st = "active"}

(* get_active: the active row with the highest publication epoch.               *)
Active == CHOOSE o \in ActiveOps : \A p \in ActiveOps : man[p].pub <= man[o].pub
ActiveEpoch == IF ActiveOps = {} THEN 0 ELSE man[Active].data
ActiveParent == IF ActiveOps = {} THEN 0 ELSE man[Active].parent

(* parent_data_epoch_of: the link of the newest row that carries the epoch.     *)
ParentOf(e) ==
  LET R == {o \in Ops : man[o].st # "none" /\ man[o].data = e}
  IN  IF R = {} THEN 0
      ELSE man[CHOOSE o \in R : \A p \in R : man[p].pub <= man[o].pub].parent

(* begin_building: a row keeps the epoch it was created for; a failed row is    *)
(* opened again, with the parent link it had.                                   *)
CanBegin(o, e) == man[o].st = "none" \/ man[o].data = e
Begun(o, e) ==
  CASE man[o].st = "none" ->
         [st |-> "building", data |-> e, parent |-> 0, ready |-> FALSE,
          pub |-> 1 + Highest({0} \cup {man[p].pub : p \in Ops})]
    [] man[o].st = "failed" -> [man[o] EXCEPT !.st = "building", !.ready = FALSE]
    [] OTHER -> man[o]

(* activate: idempotent for an active row, whose relation epoch is always that  *)
(* of its operation.  A row without a parent that takes over the active epoch   *)
(* carries the active link forward.                                             *)
Activated(o, e) ==
  LET b == Begun(o, e)
      orphan == b.parent = 0 \/ man[o].st = "failed"
  IN  IF b.st = "active" THEN b
      ELSE [b EXCEPT !.st = "active",
                     !.parent = IF orphan /\ ActiveParent > 0 /\ ActiveEpoch = e
                                THEN ActiveParent ELSE @]
Activate(o, e) ==
  /\ CanBegin(o, e)
  /\ man' = [man EXCEPT ![o] = Activated(o, e)]
  /\ meta' = IF man[o].st = "active" THEN meta
             ELSE [epoch |-> e, active |-> e, ready |-> TRUE]

(* mark_failed: only a building row.                                            *)
MarkFailed(o) ==
  man' = [man EXCEPT ![o].st = IF @ = "building" THEN "failed" ELSE @]

(* candidate_matches_active on a building row.                                  *)
Adoptable(o) ==
  /\ man[o].st = "building" /\ man[o].ready
  /\ man[o].data = ActiveEpoch + 1
  /\ man[o].parent = ActiveEpoch

(* What a reader sees of f in store s: the active epoch's own version and,      *)
(* unless overridden, the inherited one.                                        *)
Visible(s, f) ==
  IF ActiveOps = {} THEN {}
  ELSE ({data[s][ActiveEpoch][f]} \cup
        (IF ActiveParent > 0 /\ f \notin ov[ActiveEpoch]
         THEN {data[s][ActiveParent][f]} ELSE {})) \ {None}

Wiped(d, s, E) == [d EXCEPT ![s] = [e \in Epochs |-> IF e \in E THEN Blank ELSE @[e]]]
Unhidden(E) == [e \in Epochs |-> IF e \in E THEN {} ELSE ov[e]]

------------------------------------------------------------------------------
(* Starting and resuming operations.                                            *)

Unfinished(S) == {o \in S : ck[o] = "in_progress"}
Fresh(o) == ck[o] = "none" /\ man[o].st = "none"
At(pc) == run.pc = pc

Launch(o, pc, resume) == run' = [Idle EXCEPT !.op = o, !.pc = pc, !.k = 1, !.resume = resume]

Room == ActiveEpoch < MaxEpoch /\ meta.epoch < MaxEpoch

(* Whatever is unfinished when o begins has been overtaken.                     *)
Overtake(o) == lapped' = lapped \cup (Unfinished(HotOps \cup FullOps) \ {o})

(* run_operation without a recovered operation: the checkpoint comes first.     *)
(* When the look for an unfinished one fails it is only a warning               *)
(* (try_recover_operation), and the new operation starts beside it.             *)
StartHot(o) ==
  /\ At("idle") /\ Fresh(o) /\ Room
  /\ \A p \in HotOps : p < o => ck[p] # "none"
  /\ IF Unfinished(HotOps) = {} THEN UNCHANGED faults
     ELSE faults < MaxFaults /\ faults' = faults + 1
  /\ \E c \in HotChanges : work' = [work EXCEPT ![o] = c]
  /\ ck' = [ck EXCEPT ![o] = "in_progress"]
  /\ Launch(o, "prepare", FALSE) /\ Overtake(o)
  /\ UNCHANGED <<dbVars, marks, mem, harm, crashes>>

(* run_config_change_operation: ahead of any recovery.                          *)
StartConfig(o) ==
  /\ At("idle") /\ Fresh(o) /\ Room
  /\ work' = [work EXCEPT ![o] = [put |-> {}, del |-> {}]]
  /\ ck' = [ck EXCEPT ![o] = "in_progress"]
  /\ Launch(o, "prepare", FALSE) /\ Overtake(o)
  /\ UNCHANGED <<dbVars, marks, mem, harm, crashes, faults>>

(* validate_and_recover_checkpoint: the latest unfinished hot update.           *)
Recoverable(o) == o \in Unfinished(HotOps) /\ \A p \in Unfinished(HotOps) : p <= o

(* A published operation only closes its checkpoint; any other prepares again.  *)
Resume(o) ==
  IF man[o].st = "active"
  THEN ck' = [ck EXCEPT ![o] = "completed"] /\ UNCHANGED <<run, lapped, harm>>
  ELSE /\ Launch(o, "prepare", TRUE) /\ Overtake(o)
       /\ harm' = harm \cup {h \in {"stale"} : o \in lapped}
       /\ UNCHANGED ck

\* mutant: the markers of a candidate that is built anew are kept
ResumeHotKeepsMarks(o) ==
  /\ At("idle") /\ Recoverable(o) /\ Room
  /\ Resume(o)
  /\ UNCHANGED <<dbVars, work, marks, mem, crashes, faults>>

\* mutant: a published operation is not recognised and prepares again
ResumeHotPublished(o) ==
  /\ At("idle") /\ Recoverable(o) /\ Room
  /\ marks' = [marks EXCEPT ![o] = IF Adoptable(o) THEN @ ELSE {}]
  /\ Launch(o, "prepare", TRUE) /\ Overtake(o)
  /\ UNCHANGED <<dbVars, ck, work, mem, harm, crashes, faults>>

(* resume_operation: markers are void when the candidate cannot be adopted.     *)
ResumeHot(o) ==
  /\ At("idle") /\ Recoverable(o) /\ Room
  /\ marks' = [marks EXCEPT ![o] = IF Adoptable(o) THEN @ ELSE {}]
  /\ Resume(o)
  /\ UNCHANGED <<dbVars, work, mem, crashes, faults>>

------------------------------------------------------------------------------
(* begin_hot_update_candidate, called by every processor in turn.               *)

\* mutant: the processing loop goes on counting where preparation ended
PreparedCounting(failed) ==
  run' = [run EXCEPT !.failed = failed,
            !.pc = IF run.k < 2 THEN "prepare" ELSE IF failed THEN "abort" ELSE "process",
            !.k = run.k + 1]

(* One processor is done with preparing; the last one decides how to go on.     *)
Prepared(failed) ==
  run' = [run EXCEPT !.failed = failed,
            !.pc = IF run.k < 2 THEN "prepare" ELSE IF failed THEN "abort" ELSE "process",
            !.k = IF run.k < 2 THEN 2 ELSE 1]

(* The slot is the operation's own already, or another operation's.             *)
PrepareAgain ==
  /\ At("prepare") /\ mem.slot # None
  /\ Prepared(run.failed \/ mem.slot # run.op)
  /\ UNCHANGED <<dbVars, ckVars, mem, lapped, harm, crashes, faults>>

(* try_adopt_existing_candidate.                                                *)
Adopt ==
  /\ At("prepare") /\ mem.slot = None /\ run.resume /\ Adoptable(run.op)
  /\ mem' = [mem EXCEPT !.slot = run.op, !.hot = man[run.op].data]
  /\ Prepared(run.failed)
  /\ UNCHANGED <<dbVars, ckVars, lapped, harm, crashes, faults>>

(* It fails after the slot is taken, and the coordinator keeps both the slot    *)
(* and the epoch it had.                                                        *)
AdoptFails ==
  /\ At("prepare") /\ mem.slot = None /\ run.resume
  /\ faults < MaxFaults /\ faults' = faults + 1
  /\ mem' = [mem EXCEPT !.slot = run.op]
  /\ Prepared(TRUE)
  /\ UNCHANGED <<dbVars, ckVars, lapped, harm, crashes>>

\* mutant: a candidate is registered on a generation that inherits
ResolveUncompacted ==
  /\ At("prepare") /\ mem.slot = None /\ ~(run.resume /\ Adoptable(run.op))
  /\ mem' = [mem EXCEPT !.slot = run.op, !.hot = ActiveEpoch + 1]
  /\ run' = [run EXCEPT !.pc = "clean"]
  /\ UNCHANGED <<dbVars, ckVars, lapped, harm, crashes, faults>>

(* Take the slot and resolve the active generation.                             *)
Resolve ==
  /\ At("prepare") /\ mem.slot = None /\ ~(run.resume /\ Adoptable(run.op))
  /\ mem' = [mem EXCEPT !.slot = run.op, !.hot = ActiveEpoch + 1]
  /\ run' = [run EXCEPT !.pc = IF ActiveParent > 0 THEN "compact" ELSE "clean"]
  /\ UNCHANGED <<dbVars, ckVars, lapped, harm, crashes, faults>>

\* mutant: compaction copies the inherited files without looking at the overrides
MaterializedAll(s) ==
  [data EXCEPT ![s][ActiveEpoch] =
     [f \in Files |-> IF data[s][ActiveParent][f] # None
                      THEN data[s][ActiveParent][f] ELSE @[f]]]

(* What compaction copies into store s of the active epoch: the parent's files  *)
(* that no override hides.                                                      *)
Materialized(s) ==
  [data EXCEPT ![s][ActiveEpoch] =
     [f \in Files |-> IF f \notin ov[ActiveEpoch] /\ data[s][ActiveParent][f] # None
                      THEN data[s][ActiveParent][f] ELSE @[f]]]

(* materialize_sqlite_generation.                                               *)
CompactRows ==
  /\ At("compact")
  /\ data' = Materialized("rows")
  /\ run' = [run EXCEPT !.pc = "compactDocs"]
  /\ UNCHANGED <<man, meta, ov, ckVars, mem, lapped, harm, crashes, faults>>

(* BM25 refuses to materialize from an epoch without documents while the        *)
(* project has some.                                                            *)
Unmaterializable ==
  /\ data["docs"][ActiveParent] = Blank
  /\ \E e \in Epochs : data["docs"][e] # Blank

(* materialize_external_epochs.                                                 *)
CompactDocs ==
  /\ At("compactDocs") /\ ~Unmaterializable
  /\ data' = Materialized("docs")
  /\ run' = [run EXCEPT !.pc = "unlink"]
  /\ UNCHANGED <<man, meta, ov, ckVars, mem, lapped, harm, crashes, faults>>

(* The active generation becomes parent-free.                                   *)
Unlink ==
  /\ At("unlink")
  /\ man' = [man EXCEPT ![Active].parent = 0]
  /\ ov' = Unhidden({ActiveEpoch})
  /\ run' = [run EXCEPT !.pc = "clean"]
  /\ UNCHANGED <<meta, data, ckVars, mem, lapped, harm, crashes, faults>>

(* The external stores forget the candidate epoch.                              *)
CleanDocs ==
  /\ At("clean")
  /\ data' = Wiped(data, "docs", {mem.hot})
  /\ run' = [run EXCEPT !.pc = "register"]
  /\ UNCHANGED <<man, meta, ov, ckVars, mem, lapped, harm, crashes, faults>>

(* The registration transaction.                                                *)
Register ==
  /\ At("register") /\ CanBegin(run.op, mem.hot)
  /\ man' = [man EXCEPT ![run.op] = [Begun(run.op, mem.hot) EXCEPT !.parent = ActiveEpoch,
                                                                  !.ready = TRUE]]
  /\ data' = Wiped(data, "rows", {mem.hot})
  /\ ov' = Unhidden({mem.hot})
  /\ Prepared(run.failed)
  /\ UNCHANGED <<meta, ckVars, mem, lapped, harm, crashes, faults>>

(* Preparation fails: the row, if it is building, is marked and the slot freed. *)
PreparationFailed ==
  /\ MarkFailed(run.op)
  /\ mem' = [mem EXCEPT !.slot = None]
  /\ Prepared(TRUE)
  /\ UNCHANGED <<meta, data, ov, ckVars, lapped, harm, crashes>>

(* A storage call returns an error.  When it is the read of the active          *)
(* generation, the coordinator keeps the epoch it had.                          *)
PrepareFails ==
  /\ \/ run.pc \in {"compact", "compactDocs", "unlink", "clean", "register"}
     \/ At("prepare") /\ mem.slot = None /\ ~(run.resume /\ Adoptable(run.op))
  /\ faults < MaxFaults /\ faults' = faults + 1
  /\ PreparationFailed

(* The active generation cannot be materialized, or the operation's row belongs *)
(* to another epoch.                                                            *)
PrepareRefused ==
  /\ \/ At("compactDocs") /\ Unmaterializable
     \/ At("register") /\ ~CanBegin(run.op, mem.hot)
  /\ PreparationFailed
  /\ UNCHANGED faults

------------------------------------------------------------------------------
(* process_operation of each processor, then commit or abort.                   *)

Module == Modules[run.k]

NextModule(failed) ==
  run' = [run EXCEPT !.failed = failed,
            !.pc = IF run.k < 2 THEN "process" ELSE IF failed THEN "abort" ELSE "commit",
            !.k = IF run.k < 2 THEN 2 ELSE 1]

(* A module writes the changed files into the candidate, hides the inherited    *)
(* versions and registers the deletions.                                        *)
Process ==
  /\ At("process") /\ Module \notin marks[run.op]
  /\ LET w == work[run.op] IN
     /\ data' = [s \in Stores |-> [data[s] EXCEPT ![mem.hot] = [f \in Files |->
                   IF f \in w.put /\ s = Module THEN run.op
                   ELSE IF f \in w.del THEN None ELSE @[f]]]]
     /\ ov' = [ov EXCEPT ![mem.hot] = @ \cup w.put \cup w.del]
  /\ run' = [run EXCEPT !.pc = "mark"]
  /\ UNCHANGED <<man, meta, ckVars, mem, lapped, harm, crashes, faults>>

(* persist_module_progress.                                                     *)
Mark ==
  /\ At("mark")
  /\ marks' = [marks EXCEPT ![run.op] = @ \cup {Module}]
  /\ NextModule(run.failed)
  /\ UNCHANGED <<dbVars, ck, work, mem, lapped, harm, crashes, faults>>

(* A resumed module skips what its marker says is done.                         *)
SkipModule ==
  /\ At("process") /\ Module \in marks[run.op]
  /\ NextModule(run.failed)
  /\ UNCHANGED <<dbVars, ckVars, mem, lapped, harm, crashes, faults>>

ProcessFails ==
  /\ At("process") /\ faults < MaxFaults /\ faults' = faults + 1
  /\ NextModule(TRUE)
  /\ UNCHANGED <<dbVars, ckVars, mem, lapped, harm, crashes>>

(* activate_hot_update_candidate; the next step collects garbage.               *)
Commit ==
  /\ At("commit")
  /\ Activate(run.op, mem.hot)
  /\ mem' = [mem EXCEPT !.slot = None]
  /\ run' = [run EXCEPT !.pc = "plan"]
  /\ UNCHANGED <<data, ov, ckVars, lapped, harm, crashes, faults>>

NextCommit(failed) ==
  run' = [run EXCEPT !.failed = failed, !.plan = NoPlan,
            !.pc = IF run.k < 2 THEN "commit" ELSE IF failed THEN "abort" ELSE "republish",
            !.k = IF run.k < 2 THEN 2 ELSE IF failed THEN 1 ELSE 2]

(* The activation fails, and the loop goes on with the next processor, which    *)
(* fails as well or, when the error was transient, activates the candidate of   *)
(* an operation that will be aborted.                                           *)
CommitFails ==
  /\ At("commit") /\ faults < MaxFaults /\ faults' = faults + 1
  /\ \/ NextCommit(TRUE)
     \/ run.k = 1 /\ run' = [run EXCEPT !.failed = TRUE, !.pc = "abort"]
  /\ UNCHANGED <<dbVars, ckVars, mem, lapped, harm, crashes>>

\* mutant: the retention counts from the oldest publication
KeptOldest(old) == {o \in Ops :
  \/ /\ man[o].st = "active"
     /\ Cardinality({p \in ActiveOps : man[p].pub < man[o].pub}) < KeepActive
  \/ man[o].st = "building" /\ (ck[o] = "in_progress" \/ o \notin old)
  \/ man[o].st = "failed" /\ o \notin old}

(* generation_gc_plan.  Any building or failed row may be past the retention    *)
(* hour, a building one counts only without an unfinished checkpoint.           *)
Kept(old) == {o \in Ops :
  \/ /\ man[o].st = "active"
     /\ Cardinality({p \in ActiveOps : man[p].pub > man[o].pub}) < KeepActive
  \/ man[o].st = "building" /\ (ck[o] = "in_progress" \/ o \notin old)
  \/ man[o].st = "failed" /\ o \notin old}
Ancestors(o) == {man[o].parent} \cup
                (IF man[o].parent = 0 THEN {} ELSE {ParentOf(man[o].parent)})
Protected(old) ==
  ((UNION {{man[o].data} \cup Ancestors(o) : o \in Kept(old)})
     \cup {meta.active, meta.epoch}) \ {0}
GcPlan(old) ==
  LET gone == {o \in Ops : man[o].st # "none"} \ Kept(old)
  IN  [protected |-> Protected(old),
       stale |-> {man[o].data : o \in gone} \ Protected(old),
       pubs |-> {man[o].pub : o \in gone}]

PlanGc ==
  /\ At("plan")
  /\ \E old \in SUBSET {o \in Ops : man[o].st \in {"building", "failed"}} :
       run' = [run EXCEPT !.plan = GcPlan(old), !.pc = "collectDocs"]
  /\ UNCHANGED <<dbVars, ckVars, mem, lapped, harm, crashes, faults>>

(* External stores lose every epoch that is not protected.                      *)
CollectDocs ==
  /\ At("collectDocs")
  /\ data' = Wiped(data, "docs", Epochs \ run.plan.protected)
  /\ run' = [run EXCEPT !.pc = "collectRows"]
  /\ UNCHANGED <<man, meta, ov, ckVars, mem, lapped, harm, crashes, faults>>

(* apply_generation_gc.                                                         *)
CollectRows ==
  /\ At("collectRows")
  /\ data' = Wiped(data, "rows", run.plan.stale)
  /\ ov' = Unhidden(run.plan.stale)
  /\ man' = [o \in Ops |-> IF man[o].pub \in run.plan.pubs THEN NoRow ELSE man[o]]
  /\ IF run.op \in FullOps THEN run' = [run EXCEPT !.pc = "finish", !.plan = NoPlan]
     ELSE NextCommit(run.failed)
  /\ UNCHANGED <<meta, ckVars, mem, lapped, harm, crashes, faults>>

(* A store fails while garbage is collected: a processor only logs it; a full   *)
(* index stays resumable.                                                       *)
GcFails ==
  /\ run.pc \in {"plan", "collectDocs", "collectRows"}
  /\ faults < MaxFaults /\ faults' = faults + 1
  /\ IF run.op \in FullOps THEN run' = Idle ELSE NextCommit(run.failed)
  /\ UNCHANGED <<dbVars, ckVars, mem, lapped, harm, crashes>>

(* maybe_compact of the relation publisher, after the last commit: a new        *)
(* operation id at the active data epoch, unless a candidate is building.       *)
Republish(o) ==
  /\ At("republish") /\ Fresh(o) /\ work[o] = None
  /\ \A p \in Ops : man[p].st # "building"
  /\ Activate(o, ActiveEpoch)
  /\ work' = [work EXCEPT ![o] = [put |-> {}, del |-> {}]]
  /\ run' = [run EXCEPT !.pc = "finish"]
  /\ UNCHANGED <<data, ov, ck, marks, mem, lapped, harm, crashes, faults>>

(* Hashes and checkpoint are committed.                                         *)
Finish ==
  /\ run.pc \in {"republish", "finish"}
  /\ ck' = [ck EXCEPT ![run.op] = "completed"]
  /\ run' = Idle
  /\ UNCHANGED <<dbVars, work, marks, mem, lapped, harm, crashes, faults>>

(* fail_hot_update_candidate of one processor: the row fails if it is building, *)
(* and the rows and overrides of the coordinator's epoch are cleared.  After    *)
(* the last processor a hot update stays resumable, a configuration change is   *)
(* over.                                                                        *)
Abort ==
  /\ At("abort")
  /\ MarkFailed(run.op)
  /\ data' = Wiped(data, "rows", {mem.hot})
  /\ ov' = Unhidden({mem.hot})
  /\ mem' = [mem EXCEPT !.slot = None]
  /\ IF run.k < 2 THEN run' = [run EXCEPT !.k = 2] /\ UNCHANGED ck
     ELSE /\ run' = Idle
          /\ ck' = [ck EXCEPT ![run.op] = IF run.op \in ConfigOps THEN "failed" ELSE @]
  /\ harm' = harm \cup {h \in {"cleared"} : mem.hot \in {ActiveEpoch, ActiveParent} \ {0}}
  /\ UNCHANGED <<meta, work, marks, lapped, crashes, faults>>

------------------------------------------------------------------------------
(* The full index.                                                              *)

(* begin_full_index: an epoch that is not ready, or whose full index is         *)
(* unfinished, is used again; meta is written key by key.                       *)
StartFull(o) ==
  /\ At("idle") /\ Room
  /\ IF Unfinished(FullOps) = {} THEN Fresh(o) ELSE o \in Unfinished(FullOps)
  /\ LET e == IF meta.epoch > 0 /\ (~meta.ready \/ Unfinished(FullOps) # {})
              THEN meta.epoch ELSE meta.epoch + 1
     IN  /\ mem' = [mem EXCEPT !.full = e]
         /\ meta' = [meta EXCEPT !.epoch = e]
         /\ harm' = harm \cup {h \in {"stale"} : o \in lapped}
                         \cup {h \in {"mixed"} : Unfinished(HotOps) # {}}
                         \cup {h \in {"reused"} : e = ActiveEpoch /\ man[o].st # "active"}
  /\ Launch(o, "ready", FALSE) /\ Overtake(o)
  /\ UNCHANGED <<man, data, ov, ckVars, crashes, faults>>

FullNotReady ==
  /\ At("ready")
  /\ meta' = [meta EXCEPT !.ready = FALSE]
  /\ run' = [run EXCEPT !.pc = "scan"]
  /\ UNCHANGED <<man, data, ov, ckVars, mem, lapped, harm, crashes, faults>>

(* recover_file_indexer: the checkpoint is recovered or created.                *)
FullScan ==
  /\ At("scan")
  /\ IF ck[run.op] = "in_progress" THEN UNCHANGED <<ck, work>>
     ELSE /\ ck' = [ck EXCEPT ![run.op] = "in_progress"]
          /\ \E put \in Scans :
               work' = [work EXCEPT ![run.op] = [put |-> put, del |-> Files \ put]]
  /\ run' = [run EXCEPT !.pc = "manifest"]
  /\ UNCHANGED <<dbVars, marks, mem, lapped, harm, crashes, faults>>

(* begin_project_manifest; a row of another epoch ends the operation.           *)
FullManifest ==
  /\ At("manifest")
  /\ IF CanBegin(run.op, mem.full)
     THEN /\ man' = [man EXCEPT ![run.op] = Begun(run.op, mem.full)]
          /\ run' = [run EXCEPT !.pc = "batch"]
     ELSE UNCHANGED man /\ run' = Idle
  /\ UNCHANGED <<meta, data, ov, ckVars, mem, lapped, harm, crashes, faults>>

(* One batch, here one file, is stored and checkpointed.                        *)
FullBatch(f) ==
  /\ At("batch") /\ f \in work[run.op].put \ marks[run.op]
  /\ data' = [s \in Stores |-> [data[s] EXCEPT ![mem.full][f] = run.op]]
  /\ marks' = [marks EXCEPT ![run.op] = @ \cup {f}]
  /\ UNCHANGED <<man, meta, ov, ck, work, mem, run, lapped, harm, crashes, faults>>

(* finalize_manifest.                                                           *)
FullActivate ==
  /\ At("batch") /\ work[run.op].put \subseteq marks[run.op]
  /\ Activate(run.op, mem.full)
  /\ run' = [run EXCEPT !.pc = "plan"]
  /\ UNCHANGED <<data, ov, ckVars, mem, lapped, harm, crashes, faults>>

(* A stage failed: the row fails, the checkpoint stays resumable.               *)
FullFails ==
  /\ At("batch") /\ faults < MaxFaults /\ faults' = faults + 1
  /\ MarkFailed(run.op)
  /\ run' = Idle
  /\ UNCHANGED <<meta, data, ov, ckVars, mem, lapped, harm, crashes>>

------------------------------------------------------------------------------
(* The process dies and starts again; the new coordinator is seeded with the    *)
(* active epoch.                                                                *)
Crash ==
  /\ crashes < MaxCrashes /\ crashes' = crashes + 1
  /\ run' = Idle
  /\ mem' = [hot |-> meta.active, slot |-> None, full |-> 0]
  /\ UNCHANGED <<dbVars, ckVars, lapped, harm, faults>>

(* The steps an operation in flight takes by itself.                            *)
HotStep ==
  \/ PrepareAgain \/ Adopt \/ Resolve \/ CompactRows \/ CompactDocs \/ Unlink
  \/ CleanDocs \/ Register \/ PrepareRefused \/ Process \/ Mark \/ SkipModule \/ Commit \/ Abort
GcStep == PlanGc \/ CollectDocs \/ CollectRows
FullStep ==
  \/ FullNotReady \/ FullScan \/ FullManifest \/ FullActivate
  \/ \E f \in Files : FullBatch(f)
RunStep == HotStep \/ GcStep \/ FullStep \/ Finish \/ \E o \in RelOps : Republish(o)

Fault == AdoptFails \/ PrepareFails \/ ProcessFails \/ CommitFails \/ GcFails \/ FullFails \/ Crash

GenNext ==
  \/ \E o \in HotOps : StartHot(o) \/ ResumeHot(o)
  \/ \E o \in ConfigOps : StartConfig(o)
  \/ \E o \in FullOps : StartFull(o)
  \/ RunStep \/ Fault

GenSpec == GenInit /\ [][GenNext]_genVars

(* An operation in flight goes on; an unfinished one is resumed by the next     *)
(* request.                                                                     *)
GenFairness ==
  /\ WF_genVars(RunStep)
  /\ \A o \in HotOps : SF_genVars(ResumeHot(o))
  /\ \A o \in FullOps : WF_genVars(ck[o] = "in_progress" /\ StartFull(o))

FairGenSpec == GenSpec /\ GenFairness

------------------------------------------------------------------------------
(* Properties.                                                                  *)

(* begin_hot_update_candidate, compaction, GC, abort and crash recovery: what   *)
(* readers see of the active manifest, in SQLite and in the external stores,    *)
(* changes only by publishing one operation, completely and in both at once.    *)
Snapshot == INSTANCE Publication
              WITH shown <- [s \in Stores |-> [f \in Files |-> Visible(s, f)]],
                   spoilt <- harm # {}, NoWork <- None
PublishedAtomically == Snapshot!PubSpec

(* What is marked is still in the candidate: the files are written, the         *)
(* inherited versions hidden.                                                   *)
Sound(o) ==
  Adoptable(o) /\ run.op \in {o, None} =>
    \A s \in marks[o] : LET e == man[o].data IN
      /\ work[o].put \cup work[o].del \subseteq ov[e]
      /\ \A f \in work[o].put : data[s][e][f] = o
      /\ \A f \in work[o].del : data[s][e][f] = None

(* resume_operation keeps the module markers of an adoptable candidate and the  *)
(* modules skip what is marked: the markers hold whenever the operation runs or *)
(* may be resumed, unless another operation has overtaken it.                   *)
MarkersSound == \A o \in HotOps \ lapped : Sound(o)

(* The same of every hot update, as "adoptable -> markers stay valid" has it.   *)
MarkersKept == \A o \in HotOps : Sound(o)

(* A query resolves one parent (QueryFilter::inherited) while the hash cache    *)
(* follows two: both see the same only while the parent of the published        *)
(* generation has no parent itself.                                             *)
ChainShallow == "stale" \notin harm /\ ActiveParent > 0 => ParentOf(ActiveParent) = 0

(* The same with nothing excepted, "an inheritance chain about to exceed depth  *)
(* 2 triggers compaction".                                                      *)
ChainCompacted == ActiveParent > 0 => ParentOf(ActiveParent) = 0

(* "A failed processor cannot remove data selected by the active manifest".     *)
AbortHarmless ==
  [][Abort => \A s \in Stores, f \in Files : Visible(s, f)' = Visible(s, f)]_genVars

(* begin_full_index "starts a new project index version": what a full index     *)
(* stores is above the published epoch, unless it is its own.                   *)
FullIndexApart == At("batch") /\ man[run.op].st # "active" => mem.full > ActiveEpoch

(* A "new project index version" is what the full index found and nothing else. *)
FullIndexExact ==
  [][FullActivate /\ man[run.op].st # "active" =>
       \A s \in Stores, f \in Files :
         Visible(s, f)' = IF f \in work[run.op].put THEN {run.op} ELSE {}]_genVars

(* get_active never returns to an older publication or an older generation,     *)
(* whichever operation is resumed late and whatever GC removes.                 *)
ActivePub == IF ActiveOps = {} THEN 0 ELSE man[Active].pub
PublicationMonotone == [][ActivePub' >= ActivePub /\ ActiveEpoch' >= ActiveEpoch]_genVars

(* An interrupted or aborted hot update stays resumable and is completed in the *)
(* end, through adoption, re-registration and compaction.  Two things the code  *)
(* cannot get past: the generation to be compacted inherits from one without    *)
(* documents, which BM25 refuses; the operation's row is of another epoch than  *)
(* the next one, because an operation that overtook it was published, and       *)
(* begin_building refuses it.                                                   *)
Refused(o) ==
  \/ ActiveParent > 0 /\ Unmaterializable
  \/ man[o].st \in {"building", "failed"} /\ man[o].data # ActiveEpoch + 1
UpdateCompletes ==
  \A o \in HotOps : ck[o] = "in_progress" ~>
    (ck[o] = "completed" \/ \E p \in Unfinished(HotOps) : Refused(p))

(* The same without the second exception: "a missing or invalid candidate falls *)
(* back to a fresh registration".                                               *)
UpdateReregisters ==
  \A o \in HotOps : ck[o] = "in_progress" ~>
    (ck[o] = "completed" \/ (ActiveParent > 0 /\ Unmaterializable))
=============================================================================
