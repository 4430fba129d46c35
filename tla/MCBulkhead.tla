----------------------------- MODULE MCBulkhead -----------------------------
(***************************************************************************)
(* The bulkhead for TLC: callers are interchangeable, which the runs of    *)
(* safety properties only may use.                                         *)
(***************************************************************************)
EXTENDS Bulkhead, TLC

Symmetry == Permutations(Callers)

=============================================================================
