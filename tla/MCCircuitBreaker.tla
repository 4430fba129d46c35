-------------------------- MODULE MCCircuitBreaker --------------------------
(***************************************************************************)
(* The circuit breaker for TLC: callers are interchangeable, which the     *)
(* runs of safety properties only may use.                                 *)
(***************************************************************************)
EXTENDS CircuitBreaker, TLC

Symmetry == Permutations(Callers)

=============================================================================
