-------------------------- MODULE MCOperationGate --------------------------
(***************************************************************************)
(* Instances of OperationGate: ids 1 and 2 pass the gate as full indexes,  *)
(* 3 and 4 are checkpoints of the file indexer, 5 and 6 are hot updates    *)
(* and 7 is a configuration change.                                        *)
(***************************************************************************)
EXTENDS OperationGate

MCKinds == <<"full_index", "full_index", "full_index", "full_index",
             "hot_update", "hot_update", "config_change">>
MCKindOf == [o \in Ops |-> MCKinds[o]]
MCRootOf == [o \in Ops |-> CHOOSE r \in Roots : TRUE]
MCCallers == FullWorkers \cup {HotWorker}
============================================================================
