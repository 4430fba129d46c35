------------------------------- MODULE Circuit -------------------------------
(***************************************************************************)
(* What a circuit breaker promises its callers, without goroutines, locks, *)
(* clock readings or counters: it is closed, open or half-open, it half-   *)
(* opens no earlier than its timeout after it last opened, and it never    *)
(* goes from closed to half-open.                                          *)
(***************************************************************************)
EXTENDS Integers

CONSTANT OpenFor  \* how long an open circuit stays open, at least

VARIABLES
    state,  \* "closed", "open" or "halfopen"
    age     \* time since the circuit last opened, up to OpenFor

vars == <<state, age>>

Init == state = "closed" /\ age = OpenFor

(* Failures open the circuit; the failure of a call that was admitted      *)
(* earlier starts the timeout of an open circuit again.                    *)
Trip == state' = "open" /\ age' = 0

Elapse ==
    /\ state = "open" /\ age >= OpenFor
    /\ state' = "halfopen"
    /\ age' = age

(* A success closes the circuit, whenever the call was admitted.           *)
Close ==
    /\ state' = "closed"
    /\ age' = age

Tick ==
    /\ age < OpenFor
    /\ age' = age + 1
    /\ state' = state

Next == Trip \/ Elapse \/ Close \/ Tick

Spec == Init /\ [][Next]_vars

=============================================================================
