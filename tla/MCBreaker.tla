----------------------------- MODULE MCBreaker ------------------------------
(***************************************************************************)
(* An instance of the circuit breaker for TLC.                             *)
(***************************************************************************)
EXTENDS CircuitBreaker

CONSTANTS p1, p2

TwoProcs == {p1, p2}
=============================================================================
