-------------------------- MODULE MCCircuitBreaker --------------------------
(* Small instances of CircuitBreaker for TLC.                                *)
EXTENDS CircuitBreaker

CONSTANTS r1, r2, r3
=============================================================================
