------------------------------ MODULE Shutdown ------------------------------
(***************************************************************************)
(* What Telemetry.Close promises, without once, goroutines or deadlines:   *)
(* every provider is shut down once, whatever becomes of the others; then  *)
(* the errors are settled once, in the order of the providers, and that is *)
(* what every call answers.                                                *)
(***************************************************************************)
EXTENDS Naturals, Sequences

CONSTANTS
  Callers,    \* calls of Close
  Providers,  \* the providers the instance was built with
  Order,      \* their stable order, a sequence
  Open        \* stands for the outcome and the answers there are not yet

VARIABLES
  down,    \* down[p]: p has been shut down
  failed,  \* failed[p]: with an error
  settled, \* the outcome is known
  outcome, \* what Close returns: the providers that failed
  answer   \* answer[c]: what call c has returned

vars == <<down, failed, settled, outcome, answer>>

\* The providers f marks, in their order.
Named(f) ==
  LET agg[i \in 0..Len(Order)] ==
        IF i = 0 THEN <<>>
        ELSE IF f[Order[i]] THEN Append(agg[i - 1], Order[i]) ELSE agg[i - 1]
  IN  agg[Len(Order)]

Init ==
  /\ down = [p \in Providers |-> FALSE]
  /\ failed = [p \in Providers |-> FALSE]
  /\ settled = FALSE
  /\ outcome = Open
  /\ answer = [c \in Callers |-> Open]

ShutDown(p) ==
  /\ ~down[p]
  /\ down' = [down EXCEPT ![p] = TRUE]
  /\ \E e \in BOOLEAN : failed' = [failed EXCEPT ![p] = e]
  /\ UNCHANGED <<settled, outcome, answer>>

Settle ==
  /\ ~settled
  /\ \A p \in Providers : down[p]
  /\ settled' = TRUE
  /\ outcome' = Named(failed)
  /\ UNCHANGED <<down, failed, answer>>

Return(c) ==
  /\ settled
  /\ answer[c] = Open
  /\ answer' = [answer EXCEPT ![c] = outcome]
  /\ UNCHANGED <<down, failed, settled, outcome>>

Next ==
  \/ \E p \in Providers : ShutDown(p)
  \/ Settle
  \/ \E c \in Callers : Return(c)

Spec == Init /\ [][Next]_vars
=============================================================================
