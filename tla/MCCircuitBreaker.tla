-------------------------- MODULE MCCircuitBreaker --------------------------
(* Instances of CircuitBreaker for TLC. *)
EXTENDS CircuitBreaker, TLC

CONSTANTS a, b, c

Callers == Permutations(Caller)
=============================================================================
