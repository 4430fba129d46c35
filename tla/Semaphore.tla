------------------------------ MODULE Semaphore ------------------------------
(***************************************************************************)
(* What a bulkhead promises: at most Limit operations run at a time, and   *)
(* a slot that is given up may pass straight to another caller.            *)
(***************************************************************************)
EXTENDS Integers, FiniteSets

CONSTANTS Clients, Limit

VARIABLE holders  \* the clients whose operation is running

Init == holders = {}

Acquire(c) ==
    /\ c \notin holders
    /\ Cardinality(holders) < Limit
    /\ holders' = holders \cup {c}

Release(c) ==
    /\ c \in holders
    /\ holders' = holders \ {c}

HandOver(c, d) ==
    /\ c \in holders /\ d \notin holders
    /\ holders' = (holders \ {c}) \cup {d}

Next == \E c, d \in Clients : Acquire(c) \/ Release(c) \/ HandOver(c, d)

Spec == Init /\ [][Next]_holders

=============================================================================
