-------------------------- MODULE HttpClientProofs --------------------------
(***************************************************************************)
(* Theorems about the HTTP client, for any set of requests and any budget  *)
(* of retries.                                                             *)
(***************************************************************************)
EXTENDS HttpClient, FiniteSetTheorems, TLAPS

\* A negative setting is taken as 0.
LEMMA Budget == maxRetries \in Nat
  BY ConfigAssumption DEF maxRetries

(* The inductive invariant, request by request: what each place of the     *)
(* loop knows of the attempts made, of the deadlines and of the bodies.    *)
Attempts(r) ==
    /\ attempt[r] <= budget(r)
    /\ pc[r] = "backoff" => attempt[r] < budget(r)
    /\ sends[r] <= attempt[r] + 1
    /\ pc[r] = "try" => sends[r] <= attempt[r]

Held(r) ==
    /\ pc[r] = "try" => live[r] \subseteq {attempt[r] - 1}
    /\ pc[r] \in {"sent", "decide", "backoff"} => live[r] = {attempt[r]}
    /\ pc[r] \in {"idle", "try", "sent", "backoff"} => bodies[r] = {}
    /\ pc[r] = "decide" =>
         bodies[r] = IF res[r] \in Responses THEN {attempt[r]} ELSE {}
    /\ pc[r] \in {"decide", "returned"} => res[r] \in Responses \cup Failures
    /\ pc[r] = "backoff" => res[r] \in {"error", "transient"}
    /\ pc[r] = "idle" => live[r] = {}
    /\ pc[r] = "returned" =>
         LET open == IF res[r] \in Responses THEN {attempt[r]} ELSE {}
         IN  bodies[r] = open /\ live[r] = open

Lateness(r) ==
    /\ late[r] <= 1
    /\ late[r] = 1 => ctxDone[r]
    /\ pc[r] \in {"try", "backoff"} => late[r] = 0

Recorded(r) ==
    /\ pc[r] \in {"try", "sent", "decide"} => retries[r] = attempt[r] /\ final[r] = "none"
    /\ pc[r] = "backoff" => retries[r] = attempt[r] + 1 /\ final[r] = "none"
    /\ pc[r] = "returned" =>
         /\ retries[r] = IF final[r] = "none" THEN attempt[r] + 1 ELSE attempt[r]
         /\ final[r] = "success" <=> res[r] = "good"
         /\ final[r] = "none" => ctxDone[r] /\ res[r] \in Failures
         /\ warned[r] <=> res[r] \in Failures

IInv == TypeOK /\ \A r \in Requests : Attempts(r) /\ Held(r) /\ Lateness(r) /\ Recorded(r)

\* Each step of one request keeps every variable in its type.
LEMMA TypeStep == IInv /\ [Next]_vars => TypeOK'
<1> SUFFICES ASSUME IInv, [Next]_vars PROVE TypeOK'
  OBVIOUS
<1> USE Budget DEF IInv, TypeOK, Goto, Places, Responses, Failures
<1>1. ASSUME NEW r \in Requests, NEW k \in Kinds, Begin(r, k) PROVE TypeOK'
  BY <1>1 DEF Begin
<1>2. ASSUME NEW r \in Requests, Send(r) PROVE TypeOK'
  BY <1>2 DEF Send, NextDeadline, CountLate
<1>3. ASSUME NEW r \in Requests, RebuildFails(r) PROVE TypeOK'
  BY <1>3 DEF RebuildFails, NextDeadline, CountLate
<1>4. ASSUME NEW r \in Requests, NEW o \in Responses \cup {"error"}, Answer(r, o) PROVE TypeOK'
  BY <1>4 DEF Answer
<1>5. ASSUME NEW r \in Requests, Stop(r) PROVE TypeOK'
  BY <1>5 DEF Stop, Return, recordAttempt, outcomeLabel
<1>6. ASSUME NEW r \in Requests, BackOff(r) PROVE TypeOK'
  BY <1>6 DEF BackOff, recordAttempt, outcomeLabel, drainResponse
<1>7. ASSUME NEW r \in Requests, TimerFires(r) PROVE TypeOK'
  <2>1. attempt[r] < maxRetries
    BY <1>7 DEF TimerFires, Attempts, budget
  <2> QED
    BY <1>7, <2>1 DEF TimerFires
<1>8. ASSUME NEW r \in Requests, GiveUp(r) PROVE TypeOK'
  BY <1>8 DEF GiveUp, Return
<1>9. ASSUME NEW r \in Requests, Close(r) PROVE TypeOK'
  BY <1>9 DEF Close
<1>10. ASSUME NEW r \in Requests, Cancel(r) PROVE TypeOK'
  BY <1>10 DEF Cancel
<1>11. CASE UNCHANGED vars
  BY <1>11 DEF vars
<1> QED
  BY <1>1, <1>2, <1>3, <1>4, <1>5, <1>6, <1>7, <1>8, <1>9, <1>10, <1>11 DEF Next, Step

\* The number of attempts and of sends follows the loop.
LEMMA AttemptsStep == IInv /\ [Next]_vars => \A r \in Requests : Attempts(r)'
<1> SUFFICES ASSUME IInv, [Next]_vars, NEW r \in Requests PROVE Attempts(r)'
  OBVIOUS
<1> USE Budget DEF IInv, TypeOK, Goto, Responses, Failures, Attempts, budget, Repeatable
<1>1. ASSUME NEW q \in Requests, NEW k \in Kinds, Begin(q, k) PROVE Attempts(r)'
  BY <1>1 DEF Begin
<1>2. ASSUME NEW q \in Requests, Send(q) PROVE Attempts(r)'
  BY <1>2 DEF Send, NextDeadline, CountLate
<1>3. ASSUME NEW q \in Requests, RebuildFails(q) PROVE Attempts(r)'
  BY <1>3 DEF RebuildFails, NextDeadline, CountLate
<1>4. ASSUME NEW q \in Requests, NEW o \in Responses \cup {"error"}, Answer(q, o) PROVE Attempts(r)'
  BY <1>4 DEF Answer
<1>5. ASSUME NEW q \in Requests, Stop(q) PROVE Attempts(r)'
  BY <1>5 DEF Stop, Return
<1>6. ASSUME NEW q \in Requests, BackOff(q) PROVE Attempts(r)'
  BY <1>6 DEF BackOff, shouldRetry, drainResponse
<1>7. ASSUME NEW q \in Requests, TimerFires(q) PROVE Attempts(r)'
  BY <1>7 DEF TimerFires
<1>8. ASSUME NEW q \in Requests, GiveUp(q) PROVE Attempts(r)'
  BY <1>8 DEF GiveUp, Return
<1>9. ASSUME NEW q \in Requests, Close(q) PROVE Attempts(r)'
  BY <1>9 DEF Close
<1>10. ASSUME NEW q \in Requests, Cancel(q) PROVE Attempts(r)'
  BY <1>10 DEF Cancel
<1>11. CASE UNCHANGED vars
  BY <1>11 DEF vars
<1> QED
  BY <1>1, <1>2, <1>3, <1>4, <1>5, <1>6, <1>7, <1>8, <1>9, <1>10, <1>11 DEF Next, Step

\* A deadline is released before the next one starts, a body before the backoff.
LEMMA HeldStep == IInv /\ [Next]_vars => \A r \in Requests : Held(r)'
<1> SUFFICES ASSUME IInv, [Next]_vars, NEW r \in Requests PROVE Held(r)'
  OBVIOUS
<1> USE Budget DEF IInv, TypeOK, Goto, Responses, Failures, Held
<1>1. ASSUME NEW q \in Requests, NEW k \in Kinds, Begin(q, k) PROVE Held(r)'
  BY <1>1 DEF Begin
<1>2. ASSUME NEW q \in Requests, Send(q) PROVE Held(r)'
  BY <1>2 DEF Send, NextDeadline, CountLate
<1>3. ASSUME NEW q \in Requests, RebuildFails(q) PROVE Held(r)'
  BY <1>3 DEF RebuildFails, NextDeadline, CountLate
<1>4. ASSUME NEW q \in Requests, NEW o \in Responses \cup {"error"}, Answer(q, o) PROVE Held(r)'
  BY <1>4 DEF Answer
<1>5. ASSUME NEW q \in Requests, Stop(q) PROVE Held(r)'
  BY <1>5 DEF Stop, Return
<1>6. ASSUME NEW q \in Requests, BackOff(q) PROVE Held(r)'
  BY <1>6 DEF BackOff, shouldRetry, drainResponse
<1>7. ASSUME NEW q \in Requests, TimerFires(q) PROVE Held(r)'
  <2>1. UNCHANGED <<live, bodies, res>>
    BY <1>7 DEF TimerFires
  <2>2. CASE q = r
    <3>1. pc[r] = "backoff" /\ pc'[r] = "try" /\ attempt'[r] = attempt[r] + 1
      BY <1>7, <2>2 DEF TimerFires, Places
    <3>2. live[r] = {attempt[r]} /\ bodies[r] = {} /\ attempt[r] \in Nat
      BY <3>1
    <3> QED
      BY <2>1, <3>1, <3>2
  <2>3. CASE q # r
    <3>1. pc'[r] = pc[r] /\ attempt'[r] = attempt[r]
      BY <1>7, <2>3 DEF TimerFires
    <3> QED
      BY <2>1, <3>1
  <2> QED
    BY <2>2, <2>3
<1>8. ASSUME NEW q \in Requests, GiveUp(q) PROVE Held(r)'
  BY <1>8 DEF GiveUp, Return
<1>9. ASSUME NEW q \in Requests, Close(q) PROVE Held(r)'
  BY <1>9 DEF Close
<1>10. ASSUME NEW q \in Requests, Cancel(q) PROVE Held(r)'
  BY <1>10 DEF Cancel
<1>11. CASE UNCHANGED vars
  BY <1>11 DEF vars
<1> QED
  BY <1>1, <1>2, <1>3, <1>4, <1>5, <1>6, <1>7, <1>8, <1>9, <1>10, <1>11 DEF Next, Step

\* No backoff begins once the caller's context has ended.
LEMMA LatenessStep == IInv /\ [Next]_vars => \A r \in Requests : Lateness(r)'
<1> SUFFICES ASSUME IInv, [Next]_vars, NEW r \in Requests PROVE Lateness(r)'
  OBVIOUS
<1> USE Budget DEF IInv, TypeOK, Goto, Responses, Failures, Lateness
<1>1. ASSUME NEW q \in Requests, NEW k \in Kinds, Begin(q, k) PROVE Lateness(r)'
  BY <1>1 DEF Begin
<1>2. ASSUME NEW q \in Requests, Send(q) PROVE Lateness(r)'
  BY <1>2 DEF Send, NextDeadline, CountLate
<1>3. ASSUME NEW q \in Requests, RebuildFails(q) PROVE Lateness(r)'
  BY <1>3 DEF RebuildFails, NextDeadline, CountLate
<1>4. ASSUME NEW q \in Requests, NEW o \in Responses \cup {"error"}, Answer(q, o) PROVE Lateness(r)'
  BY <1>4 DEF Answer
<1>5. ASSUME NEW q \in Requests, Stop(q) PROVE Lateness(r)'
  BY <1>5 DEF Stop, Return
<1>6. ASSUME NEW q \in Requests, BackOff(q) PROVE Lateness(r)'
  <2>1. late[q] # 1
    <3>1. ~ctxDone[q] /\ (late[q] = 1 => ctxDone[q])
      BY <1>6 DEF BackOff, shouldRetry, drainResponse
    <3> QED
      BY <3>1, Zenon
  <2>2. late[q] = 0
    <3>1. late[q] \in Nat /\ late[q] <= 1
      OBVIOUS
    <3> QED
      BY <2>1, <3>1
  <2> QED
    BY <1>6, <2>2 DEF BackOff
<1>7. ASSUME NEW q \in Requests, TimerFires(q) PROVE Lateness(r)'
  BY <1>7 DEF TimerFires
<1>8. ASSUME NEW q \in Requests, GiveUp(q) PROVE Lateness(r)'
  BY <1>8 DEF GiveUp, Return
<1>9. ASSUME NEW q \in Requests, Close(q) PROVE Lateness(r)'
  BY <1>9 DEF Close
<1>10. ASSUME NEW q \in Requests, Cancel(q) PROVE Lateness(r)'
  BY <1>10 DEF Cancel
<1>11. CASE UNCHANGED vars
  BY <1>11 DEF vars
<1> QED
  BY <1>1, <1>2, <1>3, <1>4, <1>5, <1>6, <1>7, <1>8, <1>9, <1>10, <1>11 DEF Next, Step

\* Each attempt but the last is recorded as a retry before the next one starts.
LEMMA RecordedStep == IInv /\ [Next]_vars => \A r \in Requests : Recorded(r)'
<1> SUFFICES ASSUME IInv, [Next]_vars, NEW r \in Requests PROVE Recorded(r)'
  OBVIOUS
<1> USE Budget DEF IInv, TypeOK, Goto, Responses, Failures, Held, Recorded
<1>1. ASSUME NEW q \in Requests, NEW k \in Kinds, Begin(q, k) PROVE Recorded(r)'
  BY <1>1 DEF Begin
<1>2. ASSUME NEW q \in Requests, Send(q) PROVE Recorded(r)'
  BY <1>2 DEF Send, NextDeadline, CountLate
<1>3. ASSUME NEW q \in Requests, RebuildFails(q) PROVE Recorded(r)'
  BY <1>3 DEF RebuildFails, NextDeadline, CountLate
<1>4. ASSUME NEW q \in Requests, NEW o \in Responses \cup {"error"}, Answer(q, o) PROVE Recorded(r)'
  BY <1>4 DEF Answer
<1>5. ASSUME NEW q \in Requests, Stop(q) PROVE Recorded(r)'
  BY <1>5 DEF Stop, Return, recordAttempt, outcomeLabel
<1>6. ASSUME NEW q \in Requests, BackOff(q) PROVE Recorded(r)'
  BY <1>6 DEF BackOff, recordAttempt, outcomeLabel, drainResponse
<1>7. ASSUME NEW q \in Requests, TimerFires(q) PROVE Recorded(r)'
  BY <1>7 DEF TimerFires
<1>8. ASSUME NEW q \in Requests, GiveUp(q) PROVE Recorded(r)'
  BY <1>8 DEF GiveUp, Return
<1>9. ASSUME NEW q \in Requests, Close(q) PROVE Recorded(r)'
  BY <1>9 DEF Close
<1>10. ASSUME NEW q \in Requests, Cancel(q) PROVE Recorded(r)'
  BY <1>10 DEF Cancel
<1>11. CASE UNCHANGED vars
  BY <1>11 DEF vars
<1> QED
  BY <1>1, <1>2, <1>3, <1>4, <1>5, <1>6, <1>7, <1>8, <1>9, <1>10, <1>11 DEF Next, Step

-----------------------------------------------------------------------------
\* The inductive invariant holds in every reachable state.
THEOREM Invariance == Spec => []IInv
<1>1. Init => IInv
  <2> SUFFICES ASSUME Init PROVE IInv
    OBVIOUS
  <2>1. TypeOK
    <3>1. [idempotent |-> TRUE, body |-> "none"] \in Kinds
      BY DEF Kinds
    <3>2. kind \in [Requests -> Kinds]
      BY <3>1 DEF Init
    <3>3. ctxDone \in [Requests -> BOOLEAN] /\ warned \in [Requests -> BOOLEAN]
      BY DEF Init
    <3> QED
      BY Budget, <3>2, <3>3 DEF Init, TypeOK, Places
  <2>2. ASSUME NEW r \in Requests PROVE Attempts(r) /\ Held(r) /\ Lateness(r) /\ Recorded(r)
    BY Budget DEF Init, Attempts, Held, Lateness, Recorded, budget
  <2> QED
    BY <2>1, <2>2 DEF IInv
<1>2. IInv /\ [Next]_vars => IInv'
  BY TypeStep, AttemptsStep, HeldStep, LatenessStep, RecordedStep DEF IInv
<1> QED
  BY <1>1, <1>2, PTL DEF Spec

\* Every variable keeps its type; the number of the attempt stays in the budget.
THEOREM TypeCorrect == Spec => []TypeOK
  BY Invariance, PTL DEF IInv

\* POST, PATCH and bodies that cannot be read again go to the transport once,
\* and nothing goes there more often than the budget of retries allows.
THEOREM Repeats == Spec => []SafeRepeats
<1>1. IInv => SafeRepeats
  BY Budget DEF IInv, TypeOK, Attempts, budget, Repeatable, SafeRepeats
<1> QED
  BY <1>1, Invariance, PTL

\* RoundTrip returns a response with its body open and its deadline alive, or an
\* error with nothing left open.
THEOREM ReturnValue == Spec => []ReturnsOneOf
<1>1. IInv => ReturnsOneOf
  BY DEF IInv, Held, ReturnsOneOf
<1> QED
  BY <1>1, Invariance, PTL

\* After the end of the caller's context at most one attempt starts.
THEOREM Cancellation == Spec => []StopsWhenCancelled
<1>1. IInv => StopsWhenCancelled
  BY DEF IInv, Lateness, StopsWhenCancelled
<1> QED
  BY <1>1, Invariance, PTL

\* Nothing of a discarded attempt is left while the next one waits or runs.
THEOREM Released == Spec => []NothingLeft
<1>1. IInv => NothingLeft
  <2> SUFFICES ASSUME IInv, NEW r \in Requests
               PROVE  /\ Cardinality(live[r]) <= 1
                      /\ pc[r] \in {"try", "sent", "backoff"} => bodies[r] = {}
    BY DEF NothingLeft
  <2>1. Held(r) /\ pc[r] \in Places
    BY DEF IInv, TypeOK
  <2>2. PICK n : live[r] \subseteq {n}
    BY <2>1 DEF Held, Places
  <2>3. live[r] = {} \/ live[r] = {n}
    BY <2>2
  <2>4. Cardinality({}) = 0 /\ Cardinality({n}) = 1
    BY FS_EmptySet, FS_Singleton
  <2>5. Cardinality(live[r]) <= 1
    BY <2>3, <2>4
  <2> QED
    BY <2>1, <2>5 DEF Held
<1> QED
  BY <1>1, Invariance, PTL

\* Every attempt leaves one outcome, success means the response returned, and an
\* error that is returned was logged.
THEOREM Outcomes == Spec => []OutcomesMatch
<1>1. IInv => OutcomesMatch
  BY DEF IInv, TypeOK, Recorded, OutcomesMatch, Failures
<1> QED
  BY <1>1, Invariance, PTL

\* The gauge counts the requests in the transport.
THEOREM Gauge == Spec => []InflightPaired
<1> DEFINE Sent == {r \in Requests : pc[r] = "sent"}
<1>1. Init => InflightPaired
  BY FS_EmptySet DEF Init, InflightPaired
<1>2. TypeOK /\ InflightPaired /\ [Next]_vars => InflightPaired'
  <2> SUFFICES ASSUME TypeOK, InflightPaired, [Next]_vars PROVE InflightPaired'
    OBVIOUS
  <2> USE DEF TypeOK
  <2>1. IsFiniteSet(Sent) /\ Cardinality(Sent) \in Nat
    BY RequestsAssumption, FS_Subset, FS_CardinalityType
  <2>2. ASSUME NEW r \in Requests, Send(r) PROVE InflightPaired'
    <3>1. Sent' = Sent \cup {r} /\ r \notin Sent
      BY <2>2 DEF Send, Goto
    <3>2. Cardinality(Sent') = Cardinality(Sent) + 1
      BY <2>1, <3>1, FS_AddElement
    <3> QED
      BY <2>2, <3>2 DEF Send, InflightPaired
  <2>3. ASSUME NEW r \in Requests, NEW o \in Responses \cup {"error"}, Answer(r, o)
        PROVE  InflightPaired'
    <3>1. Sent' = Sent \ {r} /\ r \in Sent
      BY <2>3 DEF Answer, Goto
    <3>2. Cardinality(Sent \ {r}) = Cardinality(Sent) - 1
      BY <2>1, <3>1, FS_RemoveElement
    <3> QED
      BY <2>3, <3>1, <3>2 DEF Answer, InflightPaired
  <2>4. ASSUME Sent' = Sent, inflight' = inflight PROVE InflightPaired'
    BY <2>4 DEF InflightPaired
  <2>5. ASSUME NEW r \in Requests, NEW p \in Places \ {"sent"}, pc[r] # "sent", Goto(r, p)
        PROVE  Sent' = Sent
    BY <2>5 DEF Goto
  <2>6. ASSUME NEW r \in Requests, NEW k \in Kinds, Begin(r, k)
        PROVE  Sent' = Sent /\ inflight' = inflight
    BY <2>6, <2>5 DEF Begin, Places
  <2>7. ASSUME NEW r \in Requests, RebuildFails(r) \/ BackOff(r) \/ TimerFires(r) \/ Close(r)
        PROVE  Sent' = Sent /\ inflight' = inflight
    BY <2>7, <2>5 DEF RebuildFails, BackOff, TimerFires, Close, Places
  <2>8. ASSUME NEW r \in Requests, Stop(r) \/ GiveUp(r)
        PROVE  Sent' = Sent /\ inflight' = inflight
    BY <2>8, <2>5 DEF Stop, GiveUp, Return, Places
  <2>9. ASSUME NEW r \in Requests, Cancel(r)
        PROVE  Sent' = Sent /\ inflight' = inflight
    BY <2>9 DEF Cancel
  <2>10. CASE UNCHANGED vars
    BY <2>4, <2>10 DEF vars
  <2> QED
    BY <2>2, <2>3, <2>4, <2>6, <2>7, <2>8, <2>9, <2>10 DEF Next, Step
<1> QED
  BY <1>1, <1>2, TypeCorrect, PTL DEF Spec

=============================================================================
