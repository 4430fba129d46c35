----------------------------- MODULE HttpClient -----------------------------
(***************************************************************************)
(* The retrying transport of telemetry/httpclient.go: the attempts of each *)
(* request, their deadlines and response bodies, the backoff between them, *)
(* the caller's context, and the metrics and log line they leave behind.   *)
(*                                                                         *)
(* A request is driven by one goroutine; the caller's context ends at any  *)
(* moment.  The wrapped transport is external: it answers with a response  *)
(* or an error, in time or because the attempt's deadline has passed.      *)
(***************************************************************************)
EXTENDS Integers, FiniteSets

CONSTANTS
    Requests,   \* requests in flight through one client
    MaxRetries  \* WithMaxRetries

ASSUME ConfigAssumption == MaxRetries \in Int
ASSUME RequestsAssumption == IsFiniteSet(Requests)

\* Negative settings are taken as 0.
maxRetries == IF MaxRetries < 0 THEN 0 ELSE MaxRetries

\* What one attempt came to.  A response: below 400, 400 or above, or worth a
\* retry (429 and 5xx).  An error: of the transport, of rebuilding the body, or
\* the caller's own cancellation during the backoff.
Responses == {"good", "bad", "transient"}
Failures  == {"error", "fatal", "cancelled"}

Kinds == [idempotent : BOOLEAN, body : {"none", "replayable", "oneshot"}]

VARIABLES
    pc,       \* where each request is
    kind,     \* its method and body
    ctxDone,  \* whether the caller's context has ended
    attempt,  \* the number of the current attempt, from 0
    res,      \* what the current attempt came to
    live,     \* attempts whose context the client has not cancelled
    bodies,   \* attempts whose response body is open
    inflight, \* http_client_requests_inflight
    sends,    \* history: how often the request was handed to the transport
    late,     \* history: how many attempts began after the caller's context ended
    retries,  \* outcomes "retry" recorded for the request
    final,    \* the other outcome recorded, if any: "success" or "error"
    warned    \* whether the failure was logged

vars == <<pc, kind, ctxDone, attempt, res, live, bodies, inflight, sends, late,
          retries, final, warned>>

Places == {"idle", "try", "sent", "decide", "backoff", "returned"}

TypeOK ==
    /\ pc \in [Requests -> Places]
    /\ kind \in [Requests -> Kinds]
    /\ ctxDone \in [Requests -> BOOLEAN]
    /\ attempt \in [Requests -> 0..maxRetries]
    /\ res \in [Requests -> Responses \cup Failures \cup {"none"}]
    /\ live \in [Requests -> SUBSET (0..maxRetries)]
    /\ bodies \in [Requests -> SUBSET (0..maxRetries)]
    /\ inflight \in Int
    /\ sends \in [Requests -> Nat]
    /\ late \in [Requests -> Nat]
    /\ retries \in [Requests -> Nat]
    /\ final \in [Requests -> {"none", "success", "error"}]
    /\ warned \in [Requests -> BOOLEAN]

Init ==
    /\ pc = [r \in Requests |-> "idle"]
    /\ kind \in [Requests -> {[idempotent |-> TRUE, body |-> "none"]}]
    /\ ctxDone = [r \in Requests |-> FALSE]
    /\ attempt = [r \in Requests |-> 0]
    /\ res = [r \in Requests |-> "none"]
    /\ live = [r \in Requests |-> {}]
    /\ bodies = [r \in Requests |-> {}]
    /\ inflight = 0
    /\ sends = [r \in Requests |-> 0]
    /\ late = [r \in Requests |-> 0]
    /\ retries = [r \in Requests |-> 0]
    /\ final = [r \in Requests |-> "none"]
    /\ warned = [r \in Requests |-> FALSE]

-----------------------------------------------------------------------------
Goto(r, p) == pc' = [pc EXCEPT ![r] = p]

(* Only an idempotent request whose body can be read again is retried.     *)
RepeatableByMethod(r) == kind[r].idempotent   \* forgets the body
Repeatable(r) == kind[r].idempotent /\ kind[r].body # "oneshot"
budget(r) == IF Repeatable(r) THEN maxRetries ELSE 0

(* RoundTrip is called with a request of kind k.                           *)
Begin(r, k) ==
    /\ pc[r] = "idle"
    /\ Goto(r, "try")
    /\ kind' = [kind EXCEPT ![r] = k]
    /\ \E d \in BOOLEAN : ctxDone' = [ctxDone EXCEPT ![r] = d]
    /\ attempt' = [attempt EXCEPT ![r] = 0]
    /\ res' = [res EXCEPT ![r] = "none"]
    /\ sends' = [sends EXCEPT ![r] = 0]
    /\ late' = [late EXCEPT ![r] = 0]
    /\ retries' = [retries EXCEPT ![r] = 0]
    /\ final' = [final EXCEPT ![r] = "none"]
    /\ warned' = [warned EXCEPT ![r] = FALSE]
    /\ UNCHANGED <<live, bodies, inflight>>

(* The top of the loop: release the deadline of the attempt before, and    *)
(* start a new one.                                                        *)
NextDeadlineOnly(r) == live' = [live EXCEPT ![r] = @ \cup {attempt[r]}]
NextDeadline(r) == live' = [live EXCEPT ![r] = (@ \ {attempt[r] - 1}) \cup {attempt[r]}]

CountLate(r) == late' = [late EXCEPT ![r] = IF ctxDone[r] THEN @ + 1 ELSE @]

(* tryOnce up to the call of the transport.                                *)
Send(r) ==
    /\ pc[r] = "try"
    /\ NextDeadline(r)
    /\ CountLate(r)
    /\ inflight' = inflight + 1
    /\ sends' = [sends EXCEPT ![r] = @ + 1]
    /\ Goto(r, "sent")
    /\ UNCHANGED <<kind, ctxDone, attempt, res, bodies, retries, final, warned>>

(* The decrement is left out when the transport fails.                     *)
AnswerKeepsGauge(r, o) ==
    /\ pc[r] = "sent"
    /\ o \in Responses \cup {"error"}
    /\ res' = [res EXCEPT ![r] = o]
    /\ bodies' = [bodies EXCEPT ![r] = IF o \in Responses THEN @ \cup {attempt[r]} ELSE @]
    /\ inflight' = IF o = "error" THEN inflight ELSE inflight - 1
    /\ Goto(r, "decide")
    /\ UNCHANGED <<kind, ctxDone, attempt, live, sends, late, retries, final, warned>>

(* tryOnce when GetBody fails: the gauge goes up and down again, and the   *)
(* attempt ends in an error that is not retried.                           *)
RebuildFails(r) ==
    /\ pc[r] = "try"
    /\ attempt[r] > 0 /\ kind[r].body # "none"
    /\ NextDeadline(r)
    /\ CountLate(r)
    /\ res' = [res EXCEPT ![r] = "fatal"]
    /\ Goto(r, "decide")
    /\ UNCHANGED <<kind, ctxDone, attempt, bodies, inflight, sends, retries, final, warned>>

(* The transport answers with o; the rest of tryOnce.                      *)
Answer(r, o) ==
    /\ pc[r] = "sent"
    /\ o \in Responses \cup {"error"}
    /\ res' = [res EXCEPT ![r] = o]
    /\ bodies' = [bodies EXCEPT ![r] = IF o \in Responses THEN @ \cup {attempt[r]} ELSE @]
    /\ inflight' = inflight - 1
    /\ Goto(r, "decide")
    /\ UNCHANGED <<kind, ctxDone, attempt, live, sends, late, retries, final, warned>>

shouldRetryOneMore(r) ==
    res[r] \in {"error", "transient"} /\ attempt[r] <= budget(r) /\ ~ctxDone[r]
shouldRetryDeadCtx(r) ==
    res[r] \in {"error", "transient"} /\ attempt[r] < budget(r)

shouldRetry(r) ==
    /\ res[r] \in {"error", "transient"}
    /\ attempt[r] < budget(r)
    /\ ~ctxDone[r]

outcomeLabel(willRetry, o) ==
    IF willRetry THEN "retry" ELSE IF o = "good" THEN "success" ELSE "error"

recordLastOnly(r, willRetry) ==  \* a retried attempt leaves no outcome
    /\ retries' = retries
    /\ final' = [final EXCEPT ![r] = IF willRetry THEN @ ELSE outcomeLabel(FALSE, res[r])]

recordAttempt(r, willRetry) ==
    LET outcome == outcomeLabel(willRetry, res[r])
    IN  /\ retries' = [retries EXCEPT ![r] = IF outcome = "retry" THEN @ + 1 ELSE @]
        /\ final' = [final EXCEPT ![r] = IF outcome # "retry" THEN outcome ELSE @]

drainNothing(r) == bodies' = bodies
drainResponse(r) == bodies' = [bodies EXCEPT ![r] = @ \ {attempt[r]}]

(* RoundTrip returns what the last attempt came to, and logs an error.     *)
Return(r) ==
    /\ Goto(r, "returned")
    /\ warned' = [warned EXCEPT ![r] = res'[r] \in Failures]

(* No further attempt: the deadline of a failed one is released, that of a *)
(* response stays with its body.                                           *)
Stop(r) ==
    /\ pc[r] = "decide" /\ ~shouldRetry(r)
    /\ recordAttempt(r, FALSE)
    /\ live' = [live EXCEPT ![r] = IF res[r] \in Failures THEN @ \ {attempt[r]} ELSE @]
    /\ res' = res
    /\ Return(r)
    /\ UNCHANGED <<kind, ctxDone, attempt, bodies, inflight, sends, late>>

(* Another attempt: this one is recorded and its response discarded.       *)
BackOff(r) ==
    /\ pc[r] = "decide" /\ shouldRetry(r)
    /\ recordAttempt(r, TRUE)
    /\ drainResponse(r)
    /\ Goto(r, "backoff")
    /\ UNCHANGED <<kind, ctxDone, attempt, res, live, inflight, sends, late, warned>>

(* The backoff timer and the caller's context race in the select.          *)
TimerNever(r) == FALSE
TimerFires(r) ==
    /\ pc[r] = "backoff"
    /\ attempt' = [attempt EXCEPT ![r] = @ + 1]
    /\ Goto(r, "try")
    /\ UNCHANGED <<kind, ctxDone, res, live, bodies, inflight, sends, late, retries, final, warned>>

GiveUpEmpty(r) ==  \* returns the drained response with no error
    /\ pc[r] = "backoff" /\ ctxDone[r]
    /\ live' = [live EXCEPT ![r] = @ \ {attempt[r]}]
    /\ res' = res
    /\ Return(r)
    /\ UNCHANGED <<kind, ctxDone, attempt, bodies, inflight, sends, late, retries, final>>

GiveUp(r) ==
    /\ pc[r] = "backoff" /\ ctxDone[r]
    /\ live' = [live EXCEPT ![r] = @ \ {attempt[r]}]
    /\ res' = [res EXCEPT ![r] = IF @ \in Failures THEN @ ELSE "cancelled"]
    /\ Return(r)
    /\ UNCHANGED <<kind, ctxDone, attempt, bodies, inflight, sends, late, retries, final>>

(* The caller closes the response, whose deadline lapses by itself.        *)
Close(r) ==
    /\ pc[r] = "returned"
    /\ Goto(r, "idle")
    /\ live' = [live EXCEPT ![r] = {}]
    /\ bodies' = [bodies EXCEPT ![r] = {}]
    /\ UNCHANGED <<kind, ctxDone, attempt, res, inflight, sends, late, retries, final, warned>>

Cancel(r) ==
    /\ pc[r] \notin {"idle", "returned"} /\ ~ctxDone[r]
    /\ ctxDone' = [ctxDone EXCEPT ![r] = TRUE]
    /\ UNCHANGED <<pc, kind, attempt, res, live, bodies, inflight, sends, late, retries, final, warned>>

Step(r) ==
    \/ Send(r)
    \/ RebuildFails(r)
    \/ \E o \in Responses \cup {"error"} : Answer(r, o)
    \/ Stop(r)
    \/ BackOff(r)
    \/ TimerFires(r)
    \/ GiveUp(r)

Next ==
    \E r \in Requests :
        \/ \E k \in Kinds : Begin(r, k)
        \/ Step(r)
        \/ Close(r)
        \/ Cancel(r)

Spec == Init /\ [][Next]_vars

(* The goroutine of a request goes on; its transport answers, at the       *)
(* latest when the attempt's deadline passes; its backoff timer fires.     *)
FairSpec == Spec /\ \A r \in Requests : WF_vars(Step(r))

-----------------------------------------------------------------------------
\* A request is handed to the transport once unless repeating it is safe, its
\* body can be sent again, and the budget of retries allows it.
SafeRepeats ==
    \A r \in Requests :
        /\ sends[r] <= maxRetries + 1
        /\ sends[r] > 1 => kind[r].idempotent /\ kind[r].body # "oneshot"

\* Whatever the caller's context does meanwhile, RoundTrip returns a response
\* or an error, never neither and never both, and the body of a response it
\* returns is the last attempt's, open and under a deadline not cancelled.
ReturnsOneOf ==
    \A r \in Requests :
        pc[r] = "returned" =>
            LET open == IF res[r] \in Responses THEN {attempt[r]} ELSE {}
            IN  bodies[r] = open /\ live[r] = open

\* No discarded attempt leaves anything behind: while a request backs off or
\* starts again the bodies are closed, and one deadline at most is pending.
NothingLeft ==
    \A r \in Requests :
        /\ Cardinality(live[r]) <= 1
        /\ pc[r] \in {"try", "sent", "backoff"} => bodies[r] = {}

\* The gauge counts the requests that are in the transport.
InflightPaired == inflight = Cardinality({r \in Requests : pc[r] = "sent"})

\* Once the caller's context has ended at most one more attempt starts.
StopsWhenCancelled == \A r \in Requests : late[r] <= 1

\* One outcome is recorded for each attempt, success for the response the
\* caller gets and for no other, and a request ends with a definitive one unless
\* its caller gave up.  An error that is returned has been logged, and nothing
\* is logged of a request that succeeded.
OutcomesMatch ==
    \A r \in Requests :
        pc[r] = "returned" =>
            /\ retries[r] + (IF final[r] = "none" THEN 0 ELSE 1) = attempt[r] + 1
            /\ final[r] = "success" <=> res[r] = "good"
            /\ ctxDone[r] \/ final[r] # "none"
            /\ res[r] \in Failures => warned[r]
            /\ warned[r] => res[r] # "good"

\* When all the attempts a request may have are used up and all have failed,
\* that is logged.  It is not when the last was answered with 429 or 5xx: then
\* RoundTrip has a response to return, and logs errors only.
WarnedWhenAllFail ==
    \A r \in Requests :
        pc[r] = "returned" /\ attempt[r] = maxRetries
        /\ res[r] \in Failures \cup {"transient"} => warned[r]

\* Every RoundTrip returns.
Returns == \A r \in Requests : pc[r] = "try" ~> pc[r] = "returned"

=============================================================================
