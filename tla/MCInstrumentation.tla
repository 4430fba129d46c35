-------------------------- MODULE MCInstrumentation --------------------------
(* Instance of Instrumentation for TLC.                                    *)
EXTENDS Instrumentation, TLC

Symmetry == Permutations(Goroutines)
=============================================================================
