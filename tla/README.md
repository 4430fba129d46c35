# Verification of hellnet-lib-telemetry

TLA+ models of the parts of this Go library that are hard to test: the
resilience policies (`resilience/`), the telemetry runtime (`telemetry/`) and
the header carrier (`messaging/`). TLC checks the models on small instances;
TLAPS proves theorems about them for every number of goroutines, every
threshold, limit, timeout and retry budget, any signals and any errors, lists of
headers of any length and durations of any width.
All paths below are relative to the repository.

## 1. Inventory

The library has two halves that meet in the application. `resilience` offers
policies, functions that wrap an operation, to be chained around a call.
`telemetry` configures OpenTelemetry and Zap and offers an instrumented HTTP
client, an HTTP middleware, spans, worker and message instrumentation, health
checks and a logger. They share no state; an application usually puts the
policies around calls that the telemetry client makes.

| Part | State it keeps | Operations | Meets |
|---|---|---|---|
| Circuit breaker, `resilience/circuitbreaker.go` | mutex, `state`, `failures`, `openedAt`, `probing` | `allow`, `record`, `State`, notification | any number of goroutines; callbacks `ShouldTrip` (under the mutex), `OnStateChange` (outside it); the clock |
| Bulkhead, `resilience/bulkhead.go` | a buffered channel | acquire, wait, refuse, release | goroutines, their contexts, timers |
| Retry, Timeout, Fallback, Chain, Do, `resilience/retry.go`, `policy.go` | local to a call: attempt, error, delay | loop, backoff, deadline, mapping of errors | each other, as layers of one call |
| Outbound HTTP client, `telemetry/httpclient.go` | local to a request: attempt, deadline, body; shared: metrics | `RoundTrip`, `tryOnce`, backoff, drain, record | the wrapped transport, the caller's context, the meter and the logger |
| Lifecycle, `telemetry/telemetry.go`, `internal/env` | providers, shutdown `Once`, its error | `New`, `NewWithOptions`, `ForceFlush`, `Close` | the global OpenTelemetry providers and error handler, exporters |
| Error handler, `telemetry/errorhandler.go` | mutex, time of the last log, suppressed count | `Handle` | exporters' goroutines |
| Spans and workers, `telemetry/tracing.go`, `instrumentation.go` | local to a call; shared: inflight gauge, counters | `runSpan`, `WorkerContext` | the operation, its panics |
| Health, `telemetry/instrumentation.go` | map of statuses, aggregate gauge | `/health`, `/ready`, checks | concurrent HTTP handlers |
| Middleware, `WatchDB`, error budget, `telemetry/instrumentation.go` | inflight gauge; none; none | serve; observe; compute | `net/http`, `database/sql` |
| Logging, `telemetry/logging.go`, `contract.go` | Zap cores, the hook, the counter | `log`, `logNamed`, `emit`, `recordLogError` | the logger's provider |
| Runtime metrics, `telemetry/metrics.go` | last garbage collection and CPU sample seen | observe | the Go runtime |
| Harness and compatibility, `telemetry/harness.go`, `compat.go` | in-memory exporters | set up, collect | tests of applications |
| Scopes, `instrument/` | none | build names and instruments | the telemetry runtime |
| Header carrier, `messaging/messaging.go` | a list of headers | `Get`, `Set`, `Keys` | propagators |

What makes each of them correct, and what makes that hard:

* **Circuit breaker.** It opens after `Threshold` failures in a row, rejects
  until `OpenTimeout` after the LAST opening, then lets one probe through. Hard:
  results arrive in any state, from calls admitted in an earlier one; the clock
  is read before the mutex is taken; notifications are sent after it is
  released; a panic leaves the policy without a record.
* **Bulkhead.** At most `maxConcurrent` operations run; every slot comes back
  on return, error and panic; a freed slot goes to somebody who waits. Hard: a
  `select` with several ready cases takes any of them.
* **The chain.** Attempts are bounded, nothing reaches the dependency around the
  breaker, each error is classified as the order of the layers promises, every
  call returns. Hard: the context may end between any two layers.
* **HTTP client.** Only what may be repeated is repeated; the caller gets a
  response with a live body or an error, never neither; nothing of a discarded
  attempt remains; gauge and outcomes balance. Hard: cancellation at any point
  and two deadlines.
* **Lifecycle.** `Close` runs once, concurrent callers wait for it and see the
  same error, every provider is shut down although one fails or hangs, and what
  was recorded before is exported or named in an error. Hard: providers go
  down in parallel, and what an exporter loses on its own is reported through a
  handler that may only count it, and through the log provider, which goes down
  like the others.
* **Error handler.** Each error is counted in exactly one report. Hard: the
  line is written after the mutex is released.
* **Spans, workers, middleware.** On every way out, through nested calls and
  panics recovered in between: spans end once with the status of the outcome,
  gauges come back to zero, counters tell what happened. Hard: the order of
  deferred functions.
* **Health.** An answer is true of some moment of its request; the gauges settle
  at the truth. Hard: rounds of checks interleave and share one map and gauge.
* **Logging.** An enabled record is written once to each sink, and counted once
  if it is an error. Hard: three ways to log, with different cores.
* **Runtime metrics.** Each pause and each stretch of CPU time is observed at
  most once. **Carrier.** A key reads as it was set. **Delays.** Doubling never
  overflows; the jitter may, and bounds hold where it does not.

## 2. Modules

| Module | Models | EXTENDS / INSTANCE |
|---|---|---|
| `Circuit` | what a breaker promises, without goroutines, locks or counters | |
| `CircuitBreaker` | `resilience/circuitbreaker.go` | `C == INSTANCE Circuit` |
| `Semaphore` | what a bulkhead promises | |
| `Bulkhead` | `resilience/bulkhead.go` | `S == INSTANCE Semaphore` |
| `ResilientCall` | `Do` with the chain the repository's README recommends: fallback, breaker, retry, bulkhead, timeout | `CB`, `BH` instances of the two above |
| `HttpClient` | the retrying transport of `telemetry/httpclient.go` | |
| `ErrorHandler` | `telemetry/errorhandler.go` | |
| `Shutdown` | what `Close` promises, without once, goroutines or deadlines | |
| `Telemetry` | construction, flush and `Close` of `telemetry/telemetry.go`, with the exporters' failures | `H == INSTANCE ErrorHandler`, `S == INSTANCE Shutdown` |
| `Logging` | the way of a record through `telemetry/logging.go` and `contract.go`, as operators | |
| `Instrumentation` | `Span`, `WorkerContext`, `Middleware`, nested | `L == INSTANCE Logging` |
| `Health` | `/ready`, `/health` and their checks | |
| `RuntimeMetrics` | the callback of `telemetry/metrics.go` | |
| `Carrier` | `messaging/messaging.go` | |
| `Delays` | both `retryDelay` functions and `Retry-After` | |
| `MC...` | symmetry sets and constants for TLC; `MCAlgorithms` puts the last three above in one instance | the module they are named for |
| `...Proofs` | theorems; `AlgorithmsProofs` has those of the last three components | the component's module (`MCAlgorithms` for the three), `TLAPS` |

`PROJECT.json`, `map`, names the lines behind each definition. Definitions whose
comment calls them a slip (`TripKeepsProbe`, `FinishWithoutDefer`, ...) are
plausible mistakes in the definition below them; each property is violated when
one of them takes that definition's place, so none holds by the shape of the
model.

### CircuitBreaker

One action per critical section of `cb.mu` (`Allow`, the four cases of `record`,
`ReadState`) and one for each step outside it: `Arrive` reads the clock,
`Notify` calls `OnStateChange`, `Panic` unwinds past `record`. `note[c]` is the
call of `OnStateChange` that a goroutine still owes; it delivers before it goes
on. `Tick` lets time pass.

Absolute time is abstracted: `age` is the time since `openedAt`, `seen[c]` the
clock reading a goroutine took into `allow`, both from the same origin and both
cut at the timeout, since the code only asks whether they have reached it. When
the breaker opens again the readings taken before are negative ages; they are 0,
which answers the question the same way. The count of failures grows without a
limit, as in the code, if `MaxFailures` is negative; otherwise it stays there
(`Bump`), at the threshold or beyond it, which bounds the instances of TLC: all
that is asked of the count is whether it has reached the threshold. `probes`, `faults` and
`observed` are history variables: who is probing in this half-open period, whether the slot was lost to
a panic or stolen by another call's result, and what the notifications delivered
so far add up to.

`ShouldTrip` only answers. A callback that panics or calls back into the breaker
under the mutex is outside the model.

### Bulkhead

`Enter` looks at the context and starts the timer, then the `select` takes any
case that is ready (`Acquire`, `CtxDone`, `TimerFires`, `Reject` for the default
case) or parks the goroutine as a blocked sender. `Finish` is the deferred
receive, on return and on panic alike: it hands the place to a parked sender if
there is one, which is what `NoIdleSlot` is about: a wakeup that is lost would leave
somebody parked beside a free slot. Go picks the one that has waited longest; the
model any, so what is
shown holds for either. `wait` is the policy's `maxWait`: 0 is `Bulkhead`.
Channels, timers and contexts are Go's and marked external in the map.

### ResilientCall

The breaker's and the bulkhead's own actions, and between them the retry loop
(`Loop`, `Judge`, `BackoffEnds`, `BackoffCancelled`), `Timeout` (an attempt ends
as `timeout` unless the caller's own context is done) and the classification of
what comes out (`Classify`, `Report`). A call is at most in one layer at a time
(`stage`). `OperationPanics` unwinds through every layer: the bulkhead's
deferred receive runs, the breaker's record does not. Fallback maps the error
that comes out and keeps nothing, so it is not a step of its own. How long a
backoff lasts is not modelled, only that it ends or is cancelled.

### HttpClient

One goroutine per request: `Send` (deadline, gauge up, hand-over to the
transport), `RebuildFails` (`GetBody` fails: the gauge goes up and down within
the step), `Answer` (gauge down), then `Stop` or `BackOff` by `shouldRetry`, and
in the backoff `TimerFires` or `GiveUp`. The caller's context ends at any moment
(`Cancel`), or has ended before. `live` are the attempts whose deadline the client
has not cancelled and `bodies` those whose response body is open; `retries` and
`final` are the outcomes recorded. An answer is good (below 400), bad, or
transient (429, 5xx); a failure is the transport's error, the error of
rebuilding the body, or the caller's cancellation. `warned` is the log line at the
end of `RoundTrip`. When a context is cancelled
under a running attempt, the transport is free to answer with anything.

### Telemetry, ErrorHandler, Shutdown

`ErrorHandler`: `Handle` is the critical section, which either counts an error
(`Suppress`) or takes the count into a line (`Announce`); `WriteLine` is the log
call after the mutex is released. `age` is the time since the last line, cut at
the window, which also stands for the zero time. `fate` is history: for each
error, whether it waits in the count, in some goroutine's line, or was told, which
is when the logger has its line. The logger writes it to standard output whatever
becomes of the log provider, unless the configured level is above WARN.

`Telemetry`: `Build` makes one provider after the other and installs the handler
with the last; `BuildFails` is an exporter that cannot be made. While the
instance is up, data is recorded (`Emit`), exported by the SDK (`Export`) or
dropped with an error that goes to the handler (`ExportFails`), whose line is a
record of the log provider itself. Errors are occurrences, so it does not matter
which one comes next (`NextError`). `ForceFlush` is one goroutine of a flush; its
caller gets the error. `Close` is the entry into `once.Do`: the first caller
starts a goroutine per provider and leads, the others wait. A goroutine's two
calls are two `ShutterStep`s, `Deadline` its context running out; `Aggregate` is
the loop after `wg.Wait`.

`data[p]` is history of what was recorded BEFORE `Close`: nothing, waiting, or
lost, and then in which of three ways. `Close` lost it, and has an error in its
slot; a `ForceFlush` lost it, and told its caller; or the SDK did on its own, and
`data[p]` is the error it gave the handler. Nobody has been told by that alone,
so `LossesTraced` asks where the handler has this very error: in a line, in one
about to be written, or in the count. The last is no more than a number that the
next line would carry, and after `Close` there may be no next line: such a loss
is silent, in the code and in the model. What is logged while `Close` runs, the
handler's last lines among it, may never be exported, and nothing promises
otherwise. Without an endpoint nothing is exported and nothing fails.

`Shutdown` is the promise: each provider goes down once, with or without an
error; then the errors are settled once; every call answers with that. In the
refinement mapping a provider is down after its second call, and its error
counts from then on.

### Instrumentation, Logging

A goroutine has a stack of frames. A frame knows its kind, how its function
ended (`running` until then), the deferred functions still to run and its span.
`Begin` raises the gauge and starts the span, `FnReturns` and `FnPanics` end the
function, then `EndSpan`, `Recover` and `LeaveGauge` run in the reverse of
`Deferred`, and `Return` pops the frame: a panic goes on in the frame below
unless the application recovers it there. `left` and `ended` are history. A span
that has ended ignores its status, as OpenTelemetry does. A middleware frame is
always the outermost. Its handler hands statuses to the response writer, each
below 400 or from 400 on; the writer keeps the last (`StatusCode`), the client
gets the first (`Sent`). Two are enough to tell the first from the last; the
writer is local to its request, so the statuses are chosen when the handler
returns. `client` is history of what the clients got.

`Logging` says what one call writes: `Log` through Zap's `Check`, which offers
the record to both cores and adds the hook; `LogNamed`, which writes to the core
itself; `Emit` of the contract logger. Levels are the code's numbers.

### Health

A request runs the round of `runChecks`: the collector first if it is asked for,
then a snapshot of the registry, each check in two steps (`Evaluate`, `Record`),
then the aggregate gauge and the answer. `Flip` changes whether a check would
pass, `HangUp` ends the request's context, `CheckPanics` the round. `unseen` and
`excused` are history, what a judge of the answer would have seen. A gauge that
was never recorded is `Unknown`. The check of the service itself always passes
and has no step.

### Delays, Carrier, RuntimeMetrics

`Delays` keeps the width of a duration (`MaxDuration`, 2^63 - 1 in Go): additions
and products wrap. Jitter is in halves and its draw in quarters. `Retry` multiplies
by the jitter in floating point, after the cap, and converts the product back: up
to the largest duration that is the product's whole part; beyond it Go leaves the
result to the platform (amd64 gives the least duration, and the timer fires at
once), so `Converted` is any duration. The rounding of a `float64` is not
modelled. The bounds are stated against the closed form `base * 2^n`, and for `Retry` where the
whole interval of the jitter fits a duration. A `Retry-After` date is a duration of
any length, like the seconds. `Carrier` takes every list of headers, a key being
spelled in lower case or otherwise, a value empty or not. Its loops over the list
are one function by recursion (`Filtered`), given the headers that the loop is
after; that the doublings and the loops are functions over `0..n` is what makes
them fit for proofs. In `RuntimeMetrics` the ring holds the number of the cycle in place of
its pause, so that `observed` can say how often each was recorded, and `Modulus`
stands for the counter's 2^32; it does not come round between two callbacks.
The callbacks of one reader run one after the other, which is the SDK's.

## 3. Runs

| Run | Instance | Shows |
|---|---|---|
| `breaker` | 3 goroutines, threshold 2, timeout 2, all outcomes, counting to 4 failures (to 3 in the next two runs), with fairness | `ClosedIffBelowThreshold`, `TokenAccounted`, `ProbesAccounted`, `NotificationsBalance`; implements `Circuit`; `OpenEnds`, `ProbeEnds`, `Recovers` |
| `breaker_two_probes` | 2 goroutines, threshold 1 | finding: `SingleProbe` fails |
| `breaker_panic` | 2 goroutines, threshold 1 | finding: `TokenOwned` fails |
| `bulkhead` | 4 goroutines, 2 slots, no wait or 1 tick, with fairness | `SlotsHeld`, `NoIdleSlot`; implements `Semaphore`; `WaitEnds` |
| `client` | 2 requests of any kind, 2 retries, with fairness | `SafeRepeats`, `ReturnsOneOf`, `NothingLeft`, `StopsWhenCancelled`, `OutcomesMatch`, `InflightPaired`; `Returns` |
| `client_warn` | 1 request, 1 retry | finding: `WarnedWhenAllFail` fails |
| `chain` | 2 calls, 1 slot, no wait or 1 tick, 2 attempts, threshold 1, timeout 1, with fairness | types, with the bound on attempts; `SlotsInsideBreaker`, `OpensOnlyWhenBlamed`; `TripsWhenDown`, `CallsEnd` |
| `telemetry` | logs and traces, 2 calls of `Close`, 3 errors, window 1, with and without an endpoint, with fairness | `ErrorsConserved`, `LossesTraced`; implements `Shutdown`; `CloseEnds` |
| `instrumentation` | 2 goroutines, 2 calls each, nested to depth 2, 1 line of any level | types, with gauges that never go negative; `SpansAccounted`, `GaugesPaired`, `Tallies`, `LinesAccounted` |
| `span_status` | 1 goroutine, 1 call | finding: `SpanStatus` fails |
| `health` | 2 requests at a time, 1 check and the collector, with fairness | `Justified`; `StatusSettles`, `GaugeSettles` |
| `algorithms` | ring 2, counter modulo 4, 7 collections; 2 keys, 2 values of which one is empty, 3 headers; durations up to 31, 7 attempts | `SamplesOnce`; `ReadsAsWritten`; `DelaysInBounds` |

Deadlock is checked in the runs of the policies and the client, where something
can always happen. The others may stop: an instance is closed, calls, lines and
collections are bounded.

**Why the bounds are enough.** Three goroutines give the breaker a running
probe, an old call that interferes with it and a newcomer; threshold 2 separates
the first failure from the one that trips, 4 failures are twice as many, so that
late ones count on beyond it, and a timeout of 2 separates a fresh
clock reading, an old one and one that is due. Four callers of two slots give
two parked callers beside two running ones, so that a hand-over has a choice; a
wait of 1 separates a timer that runs from one that has fired. Two retries give
a first, a middle and a last attempt; two requests are what a shared gauge needs.
Two calls and one slot make the layers of the chain meet; its breaker trips at
the first failure, and counts no further, because the counting is the breaker
module's business. The log
provider and one other show the one shut down before and after the other, three
errors a line, one suppressed behind it and one more. Two goroutines share the
gauges and counters of the instrumentation, two frames each give a panic that
goes on in, or is recovered by, the call around it. Two rounds are enough for a
stale write over a newer one. A ring of 2 under a counter of 4 turns three times
within 7 collections, and durations up to 31 overflow at the fifth doubling and,
from 22 on, in the jitter. What is proved
(section 5) does not depend on these numbers. Symmetry is used in runs of safety
properties only.

**Fairness.** `Tick`: time passes. Breaker: goroutines keep coming, return from
their operation in some way, take the mutex (Go's is starvation-free) and run
callbacks that return. Bulkhead: a goroutine whose `select` can go on goes on;
nothing is assumed of the operations, which may never return, and `WaitEnds`
holds all the same. HTTP client: the transport answers, at the latest when the
attempt's deadline passes, and timers fire. Chain: operations heed the context
`Timeout` gives them; `Timeout` itself waits for them, so without this nothing
could end. Telemetry: timers fire and goroutines run; the SDK's calls return
once their deadline has passed, before that they may hang. Health: each check
ends within its two seconds, and both endpoints keep being probed. Nowhere is it
assumed how an operation ends.

**Conditions in liveness properties.** `Recovers` speaks of a time from which
operations only succeed; `TripsWhenDown` of one from which none succeeds and no
caller cancels. Both allow one exception, the probe slot lost to a panic, which
is the finding `breaker_panic`. `StatusSettles` and `GaugeSettles` speak of a
time from which no check changes, no client hangs up and no check panics. The
aggregate gauge has one exception: with the collector alone down, `/ready` and
`/health` keep overwriting each other's answer in it, which is observed below.

## 4. Findings

1. `circuitbreaker.go:130` frees the probe slot of a half-open breaker for ANY
   cancelled or waived result, also that of a call admitted before it opened: a
   second probe runs beside the first (`breaker_two_probes`). `ProbesAccounted`
   shows that there is no other way.
2. `circuitbreaker.go:84` runs `record` without `defer`: a probe that panics
   keeps the slot, and the breaker rejects everything until some old call
   happens to report (`breaker_panic`). `TokenAccounted` shows that there is no
   other way.
3. `tracing.go:80` defers `span.End` after the function that recovers, so it
   runs before it: the span of a call that panics is exported without its error
   (`span_status`). `SpansAccounted` shows that no other span is, in particular
   none of `WorkerContext`, which defers in the right order.
4. `httpclient.go:325` logs a WARN only when the last attempt ended in an error.
   A request whose attempts all fail, the last of them answered with 429 or 5xx,
   returns that response and logs nothing (`client_warn`), where the repository's
   README (`:504`) and `httpclient.go:162` promise a WARN when all attempts fail.
   `OutcomesMatch` shows that an error returned is always logged.

Smaller disagreements, stated by the properties as the code has them and without
a run of their own:

* `circuitbreaker.go:125` closes an open breaker on the success of a call
  admitted before it opened, long before its timeout.
* `bulkhead.go:36`: a caller whose timer fires before its goroutine reaches the
  `select` may get `ErrBulkheadFull` from an empty bulkhead.
* `logging.go:88` writes a Critical record to a core that only runs the hook: the
  record reaches neither stdout nor the exporter, and `log_errors_total` counts it
  twice, in the hook and in the caller. `LinesAccounted` shows that records of all
  other levels fare well, and that a Critical one does not go uncounted.
* `httpclient.go:363` records the outcome before the backoff: a request whose
  caller gives up then has only `retry` outcomes and no definitive one, where
  `httpclient.go:267-269` has `error` for the last error. `OutcomesMatch` shows that
  this happens only when the context has ended.
* `errorhandler.go:33-36`: data that the SDK could not export by itself leaves at
  first no more than a number in `suppressed`. If no error follows after the window,
  nobody learns of it, and `Close`, which flushes what is still waiting, returns
  nil. The model reaches this (`LossesTraced` allows it). That errors within the
  window are only counted is what its comment says.
* `httpclient.go:304`: a `Retry-After` beyond the range of a duration wraps, and
  is obeyed as whatever remains; `DelaysInBounds` promises it for those that fit.
* `retry.go:102` applies the jitter after the cap, so that a delay may be up to
  twice `MaxDelay`; where that is more than a duration holds (a `MaxDelay` of over
  146 years at full jitter), the conversion is left to the platform and the wait
  may be none at all. `DelaysInBounds` promises bounds up to there only. The
  repository's README speaks of a jitter of 20 % where the client takes any share
  of the delay (`httpclient.go:295`).
* `instrumentation.go:280`: one gauge for two questions, see above.
* `instrumentation.go:34` keeps the last status a handler sets where the client
  gets the first: a handler that fails after it began to write is counted and
  logged as an error, the client got a 200. `Tallies` bounds by how much the
  counter of errors is off.
* `telemetry.go:233`: when the tracer or the meter cannot be built, the providers
  built before stay up and nobody can close them (`BuildFails`).
* `contract.go:51`: without an exporter the contract logger counts no errors,
  although it still writes them to stdout (`LinesAccounted`).

## 5. Proofs

Proved with TLAPS for any finite set of goroutines, requests or errors and any
integer settings, any depth of nesting, any number of providers, checks,
records, headers and attempts. Zero and negative settings are covered through the defaults the code
gives them. The assumptions are that

* settings are integers, and the bounds on calls and lines natural numbers;
* the bound on the count of failures is negative, which is none, or no less than
  the threshold (`FailuresAssumption`);
* the sets that are counted are finite (`CallersAssumption`,
  `RequestsAssumption`, `GoroutinesAssumption`), as a process has finitely many
  goroutines;
* a goroutine is none of the markers in `fate`, and an error none of those in
  `data` (`ErrorsAssumption`);
* in `Health` no two checks have the same name (`OrderAssumption`; they are keys
  of a map) and none is called as the collector (`CollectorAssumption`);
* in `RuntimeMetrics` the size of the ring divides the range of the counter and
  is less (`RingAssumption`; 256 and 2^32 in the runtime);
* in `Delays` the longest duration and the second are positive and the client's
  cap fits a duration; in `Carrier` the marker for a key that was not set is not a
  value (`ParametersAssumption`).

| Theorem | States |
|---|---|
| `CircuitBreakerProofs!Implementation` | the breaker implements `Circuit` |
| `CircuitBreakerProofs!FailureCount` | closed exactly while the run of failures is below the threshold |
| `CircuitBreakerProofs!ProbeSlot` | slot taken, and probes running, in half-open only |
| `CircuitBreakerProofs!TokenHeld` | a taken slot belongs to a running probe unless one panicked |
| `CircuitBreakerProofs!OneProbe` | one probe at a time unless its slot was stolen |
| `CircuitBreakerProofs!Notifications` | notifications delivered and owed add up to the present state |
| `BulkheadProofs!TypeCorrect`, `Accounting` | the channel counts the running operations |
| `BulkheadProofs!Implementation` | the bulkhead implements `Semaphore` |
| `BulkheadProofs!NoWakeupLost` | while a caller is parked, every slot is in use |
| `ResilientCallProofs!Parts` | in the chain the breaker and the bulkhead behave as their own specifications |
| `ResilientCallProofs!TypeCorrect` | types of the chain, with the bound on attempts |
| `ResilientCallProofs!SlotsInside` | a slot is held only inside an admitted call |
| `ResilientCallProofs!Blameless` | the circuit leaves closed only after an attempt that counts |
| `HttpClientProofs!TypeCorrect`, `Repeats`, `ReturnValue`, `Released`, `Outcomes`, `Gauge`, `Cancellation` | types and the six invariants of the run `client` |
| `TelemetryProofs!HandlerConservation` | every error reported to the handler is accounted for by one report |
| `TelemetryProofs!Conservation` | so it is while the providers that report errors flush and stop |
| `TelemetryProofs!Implementation` | `Close` implements `Shutdown` |
| `TelemetryProofs!Losses` | when `Close` is done, what it lost has left an error in its provider's slot, and the error of what the SDK lost before is in the handler's account |
| `TelemetryProofs!Traced` | and the error of `Close` names the providers of those slots |
| `InstrumentationProofs!TypeCorrect`, `SpansTold`, `GaugesTold`, `Counted`, `LinesTold` | types and the four invariants of the run `instrumentation` |
| `HealthProofs!Answers` | what a request is told is justified |
| `AlgorithmsProofs!Samples` | each pause and each stretch of CPU time is observed at most once |
| `AlgorithmsProofs!CarrierReads`, `AlgorithmsRead` | a key of the carrier reads as it was last set, or as it was received |
| `AlgorithmsProofs!Delays` | both backoffs and `Retry-After` keep their bounds, that of `Retry` where its jittered interval fits a duration |

* **Breaker.** Refinement needs `SeenIsPast`: a clock reading in a goroutine's
  hands is never ahead of the time since the last opening, because an opening
  resets the readings. Then "the reading has reached the timeout", which is what
  the code tests, implies "the age has", which is what `Circuit` asks. `OneProbe`
  needs that a running probe holds the slot unless it was stolen, and that probes
  run in half-open only. `Notifications` needs the bookkeeping only: each
  critical section that changes the state leaves exactly one call of
  `OnStateChange` to its goroutine, which owed none, so both sides of the balance
  move by the same one.
* **Bulkhead.** The hand-over keeps the length of the channel and replaces one
  running caller by another, so the bound of the channel and its agreement with
  the number of running callers are one inductive invariant (`IInv`). That the
  channel is full while somebody is parked is preserved because a receive from it
  hands the place over whenever there is anyone to take it, and a caller parks only
  when it cannot send (`FullWhileParked`). The steps on cardinalities cite `FiniteSetTheorems`.
* **Chain.** `Parts` says that each step of the chain is a step of the breaker's
  specification or leaves the breaker alone, and likewise for the bulkhead. It is
  the chain's refinement of its two components, and makes their type invariants
  available inside it. With these, `Position` says for each call where its
  `stage` puts it in both policies at once; it is inductive because a call is
  handed from one to the other within one step, panics included. `Blame` says
  that an error on its way to `record` that counts has been noted as such.
* **HTTP client.** `IInv` says for each place of the loop which deadlines are
  pending, which bodies open, how often the transport was called and what was
  recorded; the properties follow from the conjuncts for `returned` and `backoff`.
  `Gauge` is an invariant of its own, over the set of requests in the transport.
* **Error handler.** `ErrorsConserved` with the types is inductive: a goroutine
  without a line has no errors, so the line it announces stands for its own error
  and those counted before, which the count is the number of. In `Telemetry` each step is
  one of the handler's or leaves it alone (`HandlerStep`), and the lemma about the
  handler's own steps (`HandlerKept`) covers both.
* **Close.** `IInv` adds to the types that nothing stops before `once` is taken,
  and that the answers given are those of the settled outcome. At `Aggregate` all
  providers are down, so the slots are what `Shutdown` has of them. `Losses` needs
  that records enter before `Close` only, that a provider that is down has none
  waiting, and, with the handler's invariant, that an error once reported stays in
  its account (`ReportedForGood`, `ReportedAccounted`). `Traced` takes the last step,
  through the loop that joins the errors (`Named`, a function by recursion over the providers): that it
  leaves out no provider with an error is an induction over natural numbers,
  done with sets (`SetOfNaturals`) as no theorem with an operator parameter can
  be used.
* **Instrumentation.** `Stacks` says that a frame is always a suffix of the way
  out its kind has in the code: which deferred functions are left determines
  whether the gauge is still up, the span open and the status set. `Balance` then
  says of every gauge and counter that it is what the calls that are gone
  (`left`) and the frames still on a stack, at their place of the way out,
  amount to, as cardinalities of sets of frames. A step changes one frame at the
  top of one stack, hence each of these sets by at most one element. When all is
  quiet no frames are left, and `Balance` is `GaugesPaired` and `Tallies`.
* **Health.** `Warranted` relates a round in progress to the checks: a check
  that was up at no moment of it is down now (`Covered`), a failure it is going to
  report has its excuse already (`Results`), and while all has passed, a check that
  was not up is still to run (`Owed`). It needs that the snapshot, sorted, holds
  exactly the registry (`SortedNames`), and that checks are registered but never
  taken away.

* **Runtime metrics.** The counter is the number of cycles modulo its range, and
  the ring holds each of the last cycles in its place (`RingHolds`). As the
  counter does not come round between two callbacks, its difference is the number
  of new cycles (`Difference`), and as the ring's size divides its range, the
  places that the callback computes from the counter are those of the cycles
  (`Early`); two of the last cycles never share a place (`Apart`).

* **Loops.** A function by recursion over `0..n` is a `CHOOSE`, about which
  nothing is known until some function is known to satisfy the recursion. `Loop`
  builds one, turn by turn, for any state and any turn; by induction the chosen
  one agrees with it (`Kept`, `PowersExist`, `BackoffsExist`). The inductions are
  over sets (`SetOfNaturals`, `UpTo`, and `SetOfLists` for lists that grow at the
  end), for the reason given above.
* **Carrier.** What the code asks of a list is always what is left of it by a
  loop, so four facts about `Filtered` carry the proof: it keeps the last of a
  list last (`FilteredAppend`), two loops keep what both keep (`FilteredTwice`), a
  loop after nothing keeps nothing (`FilteredNone`), and the names of a key's
  headers are the names of that key (`KeysOfFiltered`). The invariant, `Mine`, is
  that the headers of a key are the one it was set to, or else those received:
  `Set` loops twice over the headers of the other keys, and over none of its own.
* **Delays.** `Doublings` says that d doublings under a limit amount to the least
  of the limit and `base * 2^d`, and leave alone a base beyond the limit, as the
  client's may be. A delay is doubled only up to half the limit, which fits a
  duration, so no product on the way wraps around (`BackoffsExist`). From
  there `Jittered`, `RetryBounded` and `HttpBounded` follow by cases of jitter, draw and
  `Retry-After`, of which only one that fits a duration is known to be obeyed.

**Only model-checked:** everything temporal (`OpenEnds`, `ProbeEnds`, `Recovers`,
`WaitEnds`, `Returns`, `TripsWhenDown`, `CallsEnd`, `CloseEnds`, `StatusSettles`,
`GaugeSettles`), since liveness under fairness is outside the prover's reach, and
the four findings, which are counterexamples. Every invariant, action property
and refinement that a passing run checks is a theorem. No module has `RECURSIVE`
operators, which the prover cannot reason about. TLC checked the inductive
invariants of the chain, the instrumentation and the health checks on the
instances of section 3 before they were proved.

## 6. Not modelled

* Fallback's handler, `Chain` and `Do`, which keep no state, and other orders of
  the chain than the recommended one.
* Options, environment variables, exporters, samplers, `otelhttp`: configuration
  and third-party code.
* What log records say: fields, redaction, encoding, bodies.
* `WatchDB` and the readers of `/proc`, which pass numbers on;
  `ComputeErrorBudget`, one evaluation of floating-point arithmetic.
* The test harness, in-memory exporters behind one mutex; `instrument`, which
  builds names and instruments once and keeps no state.
* A `ShouldTrip` that panics or calls back into the breaker.

## 7. What could come next

* A `ShouldTrip` that panics or calls back into the breaker, which would bring
  the mutex itself into the model.
* Other orders of the chain: retry outside the breaker, or the bulkhead outside
  retry, each with its own promise about what an error counts as.
* The test harness as a component of its own, if it ever does more than collect.
