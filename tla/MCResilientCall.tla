--------------------------- MODULE MCResilientCall ---------------------------
(***************************************************************************)
(* The chain of policies for TLC: a retry policy that repeats transient    *)
(* errors and timeouts, and a breaker whose ShouldTrip waives business     *)
(* errors.                                                                 *)
(***************************************************************************)
EXTENDS ResilientCall

RetryTransient == {"transient", "timeout"}
WaiveBusiness == {"business"}

=============================================================================
