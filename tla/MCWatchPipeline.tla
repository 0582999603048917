-------------------------- MODULE MCWatchPipeline --------------------------
(***************************************************************************)
(* Instances of WatchPipeline: two files, a queue of one entry, and a      *)
(* channel that the second change overflows or that is long enough.        *)
(***************************************************************************)
EXTENDS WatchPipeline
============================================================================
