---------------------------- MODULE MCGenerations ----------------------------
(* Small instances of Generations for TLC.                                      *)
EXTENDS Generations

CONSTANTS fa, fb, c1, c2, f1, f2, r1

(* A file is added; or the other one is replaced and this one removed.          *)
MCHotChanges == {[put |-> {fb}, del |-> {}], [put |-> {fa}, del |-> {fb}]}
(* The scanned file is replaced by the other one.                               *)
MCReplace == {[put |-> {fb}, del |-> {fa}]}
MCScans == {{fa, fb}}
(* One of the files has been removed since.                                     *)
MCScansFewer == {{fa}}
=============================================================================
