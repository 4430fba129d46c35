---------------------------- MODULE ResilientCall ----------------------------
(***************************************************************************)
(* Do with the chain of policies the README recommends,                    *)
(*     fallback -> circuit breaker -> retry -> bulkhead -> timeout -> op   *)
(* called by several goroutines: one breaker and one bulkhead shared by    *)
(* all, one retry loop per call.  The breaker and the bulkhead are their   *)
(* own modules; this one adds Retry and Timeout, and how the layers see    *)
(* each other's errors.  Fallback only maps the error that comes out.      *)
(***************************************************************************)
EXTENDS Integers, FiniteSets

CONSTANTS
    Callers,
    Threshold, OpenTimeout,  \* of the circuit breaker
    MaxConcurrent, MaxWait,  \* of the bulkhead
    MaxAttempts,             \* RetryConfig.MaxAttempts
    Retryable,               \* the errors ShouldRetry accepts
    Waived,                  \* the errors the breaker's ShouldTrip refuses
    MaxFailures              \* bound: see CircuitBreaker

\* An error of the operation, its timeout, the bulkhead's rejection, and the
\* error of the caller's context.
OpErrors == {"transient", "business"}
Errors   == OpErrors \cup {"timeout", "full", "ctx"}

ASSUME PoliciesAssumption ==
    {Threshold, OpenTimeout, MaxConcurrent, MaxWait, MaxAttempts} \subseteq Int
ASSUME CallersAssumption == IsFiniteSet(Callers)
ASSUME ErrorsAssumption == Retryable \subseteq Errors /\ Waived \subseteq Errors

maxAttempts == IF MaxAttempts <= 0 THEN 1 ELSE MaxAttempts

VARIABLES
    state, failures, age, probing, at, seen, note, observed, probes, faults,  \* breaker
    wait, buffered, place, timer, done, result,                               \* bulkhead
    stage,    \* where each call is inside the breaker's next(ctx)
    attempt,  \* its attempt number, from 1
    err,      \* what its current attempt came to
    tries,    \* history: operations the call has started
    blamed    \* history: whether an attempt ever ended in an error that counts

breakerVars == <<state, failures, age, probing, at, seen, note, observed, probes, faults>>
bulkheadVars == <<wait, buffered, place, timer, done, result>>
callVars == <<stage, attempt, err, tries, blamed>>
vars == <<breakerVars, bulkheadVars, callVars>>

CB == INSTANCE CircuitBreaker
        WITH pc <- at, Outcomes <- {"ok", "failure", "cancelled", "ignored", "panic"}
BH == INSTANCE Bulkhead WITH pc <- place

ASSUME FailuresAssumption ==
    MaxFailures \in Int /\ (MaxFailures < 0 \/ MaxFailures >= CB!threshold)

Stages == {"out", "loop", "enter", "held", "judge", "backoff", "record"}

\* Types; and a call starts an operation at most once for each attempt, and has
\* no more attempts than the retry policy grants, however waiting, hand-overs
\* and cancellations interleave.
TypeOK ==
    /\ CB!TypeOK
    /\ BH!TypeOK
    /\ stage \in [Callers -> Stages]
    /\ attempt \in [Callers -> 1..maxAttempts]
    /\ err \in [Callers -> Errors \cup {"ok"}]
    /\ tries \in [Callers -> 0..maxAttempts]
    /\ \A c \in Callers : tries[c] <= attempt[c]
    /\ blamed \in BOOLEAN

Init ==
    /\ CB!Init
    /\ BH!Init
    /\ stage = [c \in Callers |-> "out"]
    /\ attempt = [c \in Callers |-> 1]
    /\ err = [c \in Callers |-> "ok"]
    /\ tries = [c \in Callers |-> 0]
    /\ blamed = FALSE

-----------------------------------------------------------------------------
\* Call c is at stage s, its breaker notification delivered.
In(c, s) == stage[c] = s /\ note[c] = {}

Goto(c, s) == stage' = [stage EXCEPT ![c] = s]

\* The attempt of c ended with e.  An error counts when it is neither waived
\* nor the consequence of the caller's own context.
Counts(c, e) == e \notin Waived \cup {"ok", "ctx"} /\ ~done[c]

Ended(c, e) ==
    /\ err' = [err EXCEPT ![c] = e]
    /\ blamed' = (blamed \/ Counts(c, e))
    /\ Goto(c, "judge")

(* The breaker's side of a call.                                           *)
Arrive(c) == CB!Arrive(c) /\ UNCHANGED <<bulkheadVars, callVars>>

ReadState(c) == CB!ReadState(c) /\ UNCHANGED <<bulkheadVars, callVars>>

Allow(c) ==
    /\ CB!Allow(c)
    /\ stage' = [stage EXCEPT ![c] = IF at'[c] = "running" THEN "loop" ELSE "out"]
    /\ UNCHANGED <<bulkheadVars, attempt, err, tries, blamed>>

Notify(c) == CB!Notify(c) /\ UNCHANGED <<bulkheadVars, callVars>>

(* The head of the retry loop looks at the context.                        *)
Loop(c) ==
    /\ In(c, "loop")
    /\ \/ /\ done[c]
          /\ err' = [err EXCEPT ![c] = "ctx"]
          /\ Goto(c, "record")
       \/ /\ ~done[c]
          /\ err' = err
          /\ Goto(c, "enter")
    /\ UNCHANGED <<breakerVars, bulkheadVars, attempt, tries, blamed>>

(* The bulkhead: refused calls come back at once, or after their wait.     *)
Enter(c) ==
    /\ In(c, "enter")
    /\ BH!Enter(c)
    /\ \/ place'[c] = "entered" /\ Goto(c, "held") /\ UNCHANGED <<err, blamed>>
       \/ place'[c] = "idle" /\ Ended(c, result'[c])
    /\ UNCHANGED <<breakerVars, attempt, tries>>

Started == [d \in Callers |-> IF place[d] # "running" /\ place'[d] = "running"
                              THEN tries[d] + 1 ELSE tries[d]]

Select(c) ==
    /\ In(c, "held")
    /\ BH!Select(c)
    /\ \/ place'[c] # "idle" /\ UNCHANGED <<stage, err, blamed>>
       \/ place'[c] = "idle" /\ Ended(c, result'[c])
    /\ tries' = Started
    /\ UNCHANGED <<breakerVars, attempt>>

(* A Timeout that returns while the operation still runs.                  *)
OperationAbandoned(c, o) ==
    /\ In(c, "held") /\ place[c] = "running"
    /\ Ended(c, o)
    /\ UNCHANGED <<breakerVars, bulkheadVars, attempt, tries>>

(* The operation under Timeout ended as o.  An error after the attempt's   *)
(* deadline is ErrTimeout, unless the caller's own context is done.        *)
Operation(c, o) ==
    /\ In(c, "held")
    /\ BH!Finish(c)
    /\ o = "timeout" => ~done[c]
    /\ o = "ctx" => done[c]
    /\ Ended(c, o)
    /\ tries' = Started
    /\ UNCHANGED <<breakerVars, attempt>>

\* The call of c is over.
CallOver(c) ==
    /\ Goto(c, "out")
    /\ attempt' = [attempt EXCEPT ![c] = 1]
    /\ err' = [err EXCEPT ![c] = "ok"]
    /\ blamed' = blamed

(* A panic of the operation unwinds through every layer: the bulkhead's    *)
(* deferred receive runs, the breaker's record does not.                   *)
OperationPanics(c) ==
    /\ In(c, "held")
    /\ BH!Finish(c)
    /\ CB!Panic(c)
    /\ CallOver(c)
    /\ tries' = [Started EXCEPT ![c] = 0]

GivesUpOneLate(c) ==
    err[c] = "ok" \/ done[c] \/ attempt[c] > maxAttempts \/ err[c] \notin Retryable

GivesUp(c) ==
    \/ err[c] = "ok"
    \/ done[c]
    \/ attempt[c] = maxAttempts
    \/ err[c] \notin Retryable

(* The rest of the loop: return, or wait before the next attempt.          *)
Judge(c) ==
    /\ In(c, "judge")
    /\ Goto(c, IF GivesUp(c) THEN "record" ELSE "backoff")
    /\ UNCHANGED <<breakerVars, bulkheadVars, attempt, err, tries, blamed>>

BackoffNeverEnds(c) == FALSE

BackoffSameAttempt(c) ==
    /\ In(c, "backoff")
    /\ Goto(c, "loop")
    /\ UNCHANGED <<breakerVars, bulkheadVars, attempt, err, tries, blamed>>

(* The backoff timer and the context race in the select.                   *)
BackoffEnds(c) ==
    /\ In(c, "backoff")
    /\ attempt' = [attempt EXCEPT ![c] = @ + 1]
    /\ Goto(c, "loop")
    /\ UNCHANGED <<breakerVars, bulkheadVars, err, tries, blamed>>

BackoffCancelled(c) ==
    /\ In(c, "backoff") /\ done[c]
    /\ err' = [err EXCEPT ![c] = "ctx"]
    /\ Goto(c, "record")
    /\ UNCHANGED <<breakerVars, bulkheadVars, attempt, tries, blamed>>

(* record without ShouldTrip; record by the context of the attempt, as in  *)
(* a breaker inside the timeout.                                           *)
ClassifyTripsAll(c) ==
    \/ err[c] = "ok" /\ CB!RecordOk(c)
    \/ err[c] # "ok" /\ done[c] /\ CB!RecordCancelled(c)
    \/ err[c] # "ok" /\ ~done[c] /\ CB!RecordFailure(c)

ClassifyInsideTimeout(c) ==
    \/ err[c] = "ok" /\ CB!RecordOk(c)
    \/ (done[c] \/ err[c] = "timeout") /\ err[c] # "ok" /\ CB!RecordCancelled(c)
    \/ err[c] \notin {"ok", "timeout"} /\ ~done[c] /\ CB!RecordFailure(c)

(* record classifies what the chain inside the breaker returned, by the    *)
(* context as it is now; the call is over.                                 *)
Classify(c) ==
    \/ err[c] = "ok" /\ CB!RecordOk(c)
    \/ err[c] # "ok" /\ done[c] /\ CB!RecordCancelled(c)
    \/ err[c] \in Waived /\ ~done[c] /\ CB!RecordIgnored(c)
    \/ err[c] \notin Waived \cup {"ok"} /\ ~done[c] /\ CB!RecordFailure(c)

Report(c) ==
    /\ In(c, "record")
    /\ Classify(c)
    /\ CallOver(c)
    /\ tries' = [tries EXCEPT ![c] = 0]
    /\ UNCHANGED bulkheadVars

(* The caller's context, and time.                                         *)
Cancel(c) == BH!Cancel(c) /\ UNCHANGED <<breakerVars, callVars>>

NewContext(c) ==
    /\ stage[c] = "out"
    /\ BH!NewContext(c)
    /\ UNCHANGED <<breakerVars, callVars>>

Tick ==
    \/ CB!Tick /\ UNCHANGED <<bulkheadVars, callVars>>
    \/ BH!Tick /\ UNCHANGED <<breakerVars, callVars>>

OpResults == OpErrors \cup {"ok", "timeout", "ctx"}

\* What the goroutine of c does by itself, the end of its operation included.
Proceed(c) ==
    \/ Allow(c)
    \/ Notify(c)
    \/ Loop(c)
    \/ Enter(c)
    \/ Select(c)
    \/ \E o \in OpResults : Operation(c, o)
    \/ OperationPanics(c)
    \/ Judge(c)
    \/ BackoffEnds(c)
    \/ BackoffCancelled(c)
    \/ Report(c)

Next ==
    \/ Tick
    \/ \E c \in Callers :
        \/ Arrive(c)
        \/ ReadState(c)
        \/ Proceed(c)
        \/ Cancel(c)
        \/ NewContext(c)

Spec == Init /\ [][Next]_vars

(* Time passes, callers keep calling, and each goroutine goes on: it is    *)
(* scheduled, its timers fire, and its operation returns, at the latest    *)
(* because it heeds the context that Timeout gave it.                      *)
FairSpec ==
    /\ Spec
    /\ WF_vars(CB!Tick /\ Tick) /\ WF_vars(BH!Tick /\ Tick)
    /\ \A c \in Callers : WF_vars(Arrive(c)) /\ WF_vars(Proceed(c))

-----------------------------------------------------------------------------
\* A slot of the bulkhead is held only inside a call the breaker admitted and
\* has not recorded: nothing reaches the dependency around the breaker, and no
\* result is recorded while the operation still runs.
SlotsInsideBreaker ==
    \A c \in Callers : place[c] # "idle" => stage[c] = "held" /\ at[c] = "running"

\* The circuit leaves closed only after some attempt ended in an error that
\* counts: an operation's failure, its timeout or a rejection of the bulkhead
\* that ShouldTrip does not waive, and that came before its caller gave up.
OpensOnlyWhenBlamed == state # "closed" => blamed

Down ==
    \A c \in Callers :
        ~(OperationPanics(c) \/ \E o \in Waived \cup {"ok"} : Operation(c, o))

\* The breaker stands outside the timeout, so a dependency that no longer
\* answers trips it: when callers do not cancel and every operation fails or
\* times out, the circuit opens again and again, unless an earlier panic has
\* taken the probe slot for good.
TripsWhenDown ==
    (<>[](\A c \in Callers : ~done[c]) /\ <>[][Down]_vars)
        => []<>(state = "open") \/ <>[]("lost" \in faults)

\* Every call returns, through the whole chain.
CallsEnd == \A c \in Callers : stage[c] # "out" ~> stage[c] = "out"

=============================================================================
