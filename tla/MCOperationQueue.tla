-------------------------- MODULE MCOperationQueue --------------------------
(***************************************************************************)
(* A small instance of OperationQueue: a hot update and a configuration     *)
(* change (one request to the queue), an incremental update and a full     *)
(* index of one root.                                                      *)
(***************************************************************************)
EXTENDS OperationQueue

MCKindOf == <<"hot_update", "config_change", "incremental", "full_index">>
MCSymmetry == Permutations(Callers)
MCRootOf == [o \in Ops |-> CHOOSE r \in Roots : TRUE]
============================================================================
