------------------------- MODULE MCFullIndexBatches -------------------------
(* Small instances of FullIndexBatches for TLC.                              *)
EXTENDS FullIndexBatches

\* single-chunk embedding units, BM25 units of two
MCUnitSize == [s \in Stages |-> IF s = "embedding" THEN 1 ELSE 2]
\* files 1 and 3, of different batches, have a chunk of the same id
MCChunkId == [f \in Files |-> IF f = 3 THEN 1 ELSE f]
\* a scanned file has an absolute path and a path relative to the root
MCPath == [f \in Files |-> <<"root", f>>]
MCRelativePath == [f \in Files |-> <<f>>]
=============================================================================
