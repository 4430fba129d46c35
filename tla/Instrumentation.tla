--------------------------- MODULE Instrumentation ---------------------------
(***************************************************************************)
(* Units of work the library observes: ContextTracer.Span (runSpan,        *)
(* telemetry/tracing.go), WorkerContext and Middleware                     *)
(* (telemetry/instrumentation.go), nested in one another, and the log      *)
(* lines written on the way.  Each call leaves by a result, an error or a  *)
(* panic, and its deferred functions run in the reverse of their order.    *)
(***************************************************************************)
EXTENDS Integers, Sequences, SequencesExt, FiniteSets

CONSTANTS
  Goroutines,
  MaxCalls,  \* bound: calls of each goroutine
  MaxDepth,  \* bound: calls nested in one another
  MaxLines   \* bound: lines the application logs

ASSUME BoundsAssumption == MaxCalls \in Nat /\ MaxDepth \in Nat /\ MaxLines \in Nat
ASSUME GoroutinesAssumption == IsFiniteSet(Goroutines)

L == INSTANCE Logging

Kinds == {"span", "worker", "request"}
Hows == {"ok", "error", "panic"}
Apis == {"log", "critical", "emit"}
Counters == {"exceptions", "jobs_ok", "jobs_error", "requests", "request_errors"}

VARIABLES
  exporting,  \* 1 if an endpoint is configured, otherwise 0
  stack,      \* stack[g]: the frames of g's calls, the innermost last
  calls,      \* calls[g]: how many calls g has begun
  gauge,      \* worker_jobs_inflight and http_requests_inflight
  count,      \* the counters, by name
  out,        \* out[a]: what the records logged through a came to
  due,        \* history: due[a]: the records, and those that are errors
  client,     \* history: the requests whose clients got an error, and those
              \* whose handler called WriteHeader after the status was sent
  left,       \* history: left[k, h]: calls of kind k that ended as h
  ended       \* history: the spans handed to the SDK: kind, end, status

vars == <<exporting, stack, calls, gauge, count, out, due, client, left, ended>>

Init ==
  /\ exporting \in 0..1
  /\ stack = [g \in Goroutines |-> <<>>]
  /\ calls = [g \in Goroutines |-> 0]
  /\ gauge = [k \in Kinds |-> 0]
  /\ count = [c \in Counters |-> 0]
  /\ out = [a \in Apis |-> L!Nothing]
  /\ due = [a \in Apis |-> [records |-> 0, errors |-> 0]]
  /\ client = [errors |-> 0, rewritten |-> 0]
  /\ left = [x \in Kinds \X Hows |-> 0]
  /\ ended = {}

Top(g) == Last(stack[g])
SetTop(g, frame) == stack' = [stack EXCEPT ![g] = Append(Front(@), frame)]

\* g runs application code: its own, or the function it gave to a call.
InApplication(g) == stack[g] # <<>> => Top(g).how = "running"

\* A record of this level goes out through api.
LogLine(api, level) ==
  LET w == L!Call(api, level, L!InfoLevel, exporting)
  IN /\ out' = [out EXCEPT ![api] =
                  [stdout |-> @.stdout + w.stdout, otlp |-> @.otlp + w.otlp, counted |-> @.counted + w.counted]]
     /\ due' = [due EXCEPT ![api] =
                  [records |-> @.records + (IF level >= L!InfoLevel THEN 1 ELSE 0),
                   errors |-> @.errors + (IF level >= L!ErrorLevel THEN 1 ELSE 0)]]

-----------------------------------------------------------------------------

\* A slip: WorkerContext defers the end of the span last.
DeferredEndLast(kind) ==
  CASE kind = "span" -> <<"recover", "end">>
    [] kind = "worker" -> <<"leave", "recover", "end">>
    [] kind = "request" -> <<"leave">>

\* A slip: the gauge goes down after the call instead of in a defer.
DeferredNoLeave(kind) ==
  CASE kind = "span" -> <<"recover", "end">>
    [] kind = "worker" -> <<"end", "recover">>
    [] kind = "request" -> <<"leave">>

(* What each kind of call defers, in the order of the code.                *)
Deferred(kind) ==
  CASE kind = "span" -> <<"recover", "end">>
    [] kind = "worker" -> <<"leave", "end", "recover">>
    [] kind = "request" -> <<"leave">>

(* The gauge goes up and the span starts; Middleware is the outermost, and *)
(* its span is otelhttp's.                                                 *)
Begin(g, kind) ==
  /\ InApplication(g)
  /\ calls[g] < MaxCalls /\ Len(stack[g]) < MaxDepth
  /\ kind = "request" => stack[g] = <<>>
  /\ calls' = [calls EXCEPT ![g] = @ + 1]
  /\ gauge' = [gauge EXCEPT ![kind] = @ + (IF kind = "span" THEN 0 ELSE 1)]
  /\ stack' = [stack EXCEPT ![g] = Append(@,
       [kind |-> kind, how |-> "running", defers |-> Deferred(kind), open |-> TRUE, status |-> "unset"])]
  /\ UNCHANGED <<exporting, count, out, due, client, left, ended>>

(* After the function of a job: its counter and its line in the log.       *)
CountJob(how) ==
  /\ count' = [count EXCEPT ![IF how = "ok" THEN "jobs_ok" ELSE "jobs_error"] = @ + 1]
  /\ LogLine("log", IF how = "ok" THEN L!InfoLevel ELSE L!ErrorLevel)

(* After the handler of a request, an error being a status from 400 on.    *)
CountRequest(how) ==
  /\ count' = [count EXCEPT !["requests"] = @ + 1,
                            !["request_errors"] = @ + (IF how = "ok" THEN 0 ELSE 1)]
  /\ LogLine("log", L!InfoLevel)

(* The statuses a handler hands to its ResponseWriter, an implicit 200     *)
(* before the body among them: "error" stands for one from 400 on.         *)
Writes == UNION {[1..n -> {"ok", "error"}] : n \in 0..2}

(* loggingResponseWriter keeps the last of them, 200 if there is none.     *)
StatusCode(writes) == IF writes = <<>> THEN "ok" ELSE Last(writes)

(* net/http sends the first and ignores the others.                        *)
Sent(writes) == IF writes = <<>> THEN "ok" ELSE Head(writes)

(* The function of a span or a job returns: an error marks the span.       *)
FnReturns(g, how) ==
  /\ stack[g] # <<>> /\ Top(g).how = "running" /\ Top(g).kind # "request"
  /\ SetTop(g, [Top(g) EXCEPT !.how = how, !.status = IF how = "error" THEN "error" ELSE @])
  /\ IF Top(g).kind = "worker" THEN CountJob(how) ELSE UNCHANGED <<count, out, due>>
  /\ UNCHANGED <<exporting, calls, gauge, client, left, ended>>

(* The handler of a request returns.                                       *)
HandlerReturns(g, writes) ==
  /\ stack[g] # <<>> /\ Top(g).how = "running" /\ Top(g).kind = "request"
  /\ SetTop(g, [Top(g) EXCEPT !.how = StatusCode(writes)])
  /\ CountRequest(StatusCode(writes))
  /\ client' = [errors |-> client.errors + (IF Sent(writes) = "error" THEN 1 ELSE 0),
                rewritten |-> client.rewritten + (IF Len(writes) > 1 THEN 1 ELSE 0)]
  /\ UNCHANGED <<exporting, calls, gauge, left, ended>>

FnPanics(g) ==
  /\ stack[g] # <<>> /\ Top(g).how = "running"
  /\ SetTop(g, [Top(g) EXCEPT !.how = "panic"])
  /\ UNCHANGED <<exporting, calls, gauge, count, out, due, client, left, ended>>

-----------------------------------------------------------------------------
(* The deferred functions, from the last to the first.                     *)

\* The frame without the deferred function that runs now.
Popped(g) == [Top(g) EXCEPT !.defers = Front(@)]
Runs(g, what) ==
  /\ stack[g] # <<>> /\ Top(g).how # "running" /\ Top(g).defers # <<>>
  /\ Last(Top(g).defers) = what

EndSpan(g) ==
  /\ Runs(g, "end")
  /\ SetTop(g, [Popped(g) EXCEPT !.open = FALSE])
  /\ ended' = ended \cup {[kind |-> Top(g).kind, how |-> Top(g).how, status |-> Top(g).status]}
  /\ UNCHANGED <<exporting, calls, gauge, count, out, due, client, left>>

\* A slip: the exception is counted on an error, too.
RecoverCountsErrors(g) ==
  /\ Runs(g, "recover")
  /\ SetTop(g, [Popped(g) EXCEPT !.status = IF Top(g).how = "panic" /\ Top(g).open THEN "error" ELSE @])
  /\ count' = [count EXCEPT !["exceptions"] = @ + (IF Top(g).how # "ok" THEN 1 ELSE 0)]
  /\ UNCHANGED <<exporting, calls, gauge, out, due, client, left, ended>>

\* A slip: a panic lowers the gauge here, and again in the deferred call.
RecoverLeaves(g) ==
  /\ Runs(g, "recover")
  /\ SetTop(g, [Popped(g) EXCEPT !.status = IF Top(g).how = "panic" /\ Top(g).open THEN "error" ELSE @])
  /\ count' = [count EXCEPT !["exceptions"] = @ + (IF Top(g).how = "panic" THEN 1 ELSE 0)]
  /\ gauge' = [gauge EXCEPT ![Top(g).kind] = @ - (IF Top(g).how = "panic" THEN 1 ELSE 0)]
  /\ UNCHANGED <<exporting, calls, out, due, client, left, ended>>

(* A panic is counted, marks the span and goes on; a span that has ended   *)
(* keeps its status (OpenTelemetry ignores it).                            *)
Recover(g) ==
  /\ Runs(g, "recover")
  /\ SetTop(g, [Popped(g) EXCEPT !.status = IF Top(g).how = "panic" /\ Top(g).open THEN "error" ELSE @])
  /\ count' = [count EXCEPT !["exceptions"] = @ + (IF Top(g).how = "panic" THEN 1 ELSE 0)]
  /\ UNCHANGED <<exporting, calls, gauge, out, due, client, left, ended>>

LeaveGauge(g) ==
  /\ Runs(g, "leave")
  /\ SetTop(g, Popped(g))
  /\ gauge' = [gauge EXCEPT ![Top(g).kind] = @ - 1]
  /\ UNCHANGED <<exporting, calls, count, out, due, client, left, ended>>

(* The call is over: its panic goes on in the function around it, unless   *)
(* the application recovers it there.                                      *)
Return(g, caught) ==
  /\ stack[g] # <<>> /\ Top(g).how # "running" /\ Top(g).defers = <<>>
  /\ stack' = [stack EXCEPT ![g] =
       IF Len(@) = 1 \/ caught \/ Top(g).how # "panic" THEN Front(@)
       ELSE [Front(@) EXCEPT ![Len(@) - 1].how = "panic"]]
  /\ left' = [left EXCEPT ![<<Top(g).kind, Top(g).how>>] = @ + 1]
  /\ UNCHANGED <<exporting, calls, gauge, count, out, due, client, ended>>

-----------------------------------------------------------------------------

\* The application logs a line of its own.
Line(g, api, level) ==
  /\ InApplication(g)
  /\ due["log"].records + due["critical"].records + due["emit"].records < MaxLines
  /\ (api = "critical") <=> (level = L!CriticalLevel)
  /\ api = "emit" => level # L!TraceLevel
  /\ LogLine(api, level)
  /\ UNCHANGED <<exporting, stack, calls, gauge, count, client, left, ended>>

Next ==
  \E g \in Goroutines :
    \/ \E k \in Kinds : Begin(g, k)
    \/ \E how \in {"ok", "error"} : FnReturns(g, how)
    \/ \E writes \in Writes : HandlerReturns(g, writes)
    \/ FnPanics(g) \/ EndSpan(g) \/ Recover(g) \/ LeaveGauge(g)
    \/ \E caught \in BOOLEAN : Return(g, caught)
    \/ \E a \in Apis, l \in L!Levels : Line(g, a, l)

Spec == Init /\ [][Next]_vars

-----------------------------------------------------------------------------

Frames(k) == {x \in Goroutines \X (1..MaxDepth) : x[2] <= Len(stack[x[1]]) /\ stack[x[1]][x[2]].kind = k}
Quiet == \A g \in Goroutines : stack[g] = <<>>

TypeOK ==
  /\ exporting \in 0..1
  /\ stack \in [Goroutines -> Seq([kind : Kinds, how : Hows \cup {"running"},
                  defers : Seq({"leave", "end", "recover"}), open : BOOLEAN, status : {"unset", "error"}])]
  /\ calls \in [Goroutines -> 0..MaxCalls]
  /\ gauge \in [Kinds -> Nat]
  /\ count \in [Counters -> Nat]
  /\ out \in [Apis -> [stdout : Nat, otlp : Nat, counted : Nat]]
  /\ due \in [Apis -> [records : Nat, errors : Nat]]
  /\ client \in [errors : Nat, rewritten : Nat]
  /\ left \in [Kinds \X Hows -> Nat]
  /\ ended \subseteq [kind : Kinds, how : Hows, status : {"unset", "error"}]

\* A span bears the outcome of its call: an error status exactly when the
\* call failed or panicked.  It does not: runSpan ends the span before it
\* recovers, and what it says of the panic comes too late.
SpanStatus == \A s \in ended : s.status = "error" <=> s.how # "ok"

\* That is the only case, through all nestings of calls and panics; and no
\* call is over before its span has ended.
SpansAccounted ==
  /\ \A s \in ended : s.status = "error" <=> (s.how # "ok" /\ ~(s.kind = "span" /\ s.how = "panic"))
  /\ \A g \in Goroutines : \A i \in DOMAIN stack[g] :
       stack[g][i].defers = <<>> => stack[g][i].kind = "request" \/ ~stack[g][i].open

\* The inflight gauges never run below the number of calls in their functions
\* and come back to zero with the last of them, whatever way calls end.
GaugesPaired ==
  /\ Quiet => \A k \in Kinds : gauge[k] = 0
  /\ \A k \in {"worker", "request"} :
       gauge[k] >= Cardinality({x \in Frames(k) : stack[x[1]][x[2]].how = "running"})

\* The counters tell how calls ended: each panic once for every span and job
\* it passed through, each job that returned under its status, each request
\* that returned, and no request that panicked.  The errors among them are
\* those the clients got, but for requests whose handler set a status too
\* late: what is counted for them is not what was sent.
Tallies ==
  Quiet =>
    /\ count["exceptions"] = left[<<"span", "panic">>] + left[<<"worker", "panic">>]
    /\ count["jobs_ok"] = left[<<"worker", "ok">>]
    /\ count["jobs_error"] = left[<<"worker", "error">>]
    /\ count["requests"] = left[<<"request", "ok">>] + left[<<"request", "error">>]
    /\ count["request_errors"] <= client.errors + client.rewritten
    /\ count["request_errors"] >= client.errors - client.rewritten

\* The records logged through api went out once each, and each error among
\* them was counted once.
WentOut(api) ==
  /\ out[api].stdout = due[api].records
  /\ out[api].otlp = exporting * due[api].records
  /\ out[api].counted = due[api].errors

\* Every record below Critical goes out once and, from Error on, is counted
\* once; the contract logger counts none without an exporter, but still writes
\* each on stdout.  A Critical record, which logNamed writes to a core that only
\* runs the hook, is lost, but its error does not go uncounted.
LinesAccounted ==
  /\ WentOut("log")
  /\ out["emit"].stdout = due["emit"].records
  /\ IF exporting = 1 THEN WentOut("emit") ELSE out["emit"].counted = 0
  /\ out["critical"].counted >= due["critical"].errors
=============================================================================
