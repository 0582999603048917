----------------------------- MODULE MCWatchMode -----------------------------
(* Small instances of WatchMode for TLC.                                     *)
EXTENDS WatchMode

CONSTANTS fa, fb

=============================================================================
