---------------------------- MODULE MCIngestSync ----------------------------
(* Small instances of IngestSync for TLC.                                       *)
EXTENDS IngestSync

CONSTANTS f1, f2, x, y

MCContents == {<<x, y>>, <<y>>}
MCFirstDisk == [f \in Files |-> <<x, y>>]
=============================================================================
