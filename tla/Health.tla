------------------------------- MODULE Health -------------------------------
(***************************************************************************)
(* The health endpoints of telemetry/instrumentation.go: Ready and Health  *)
(* run a round of checks each (runChecks), the rounds of concurrent        *)
(* requests interleave, and all of them write the status of each check     *)
(* and one gauge of the aggregate.                                         *)
(*                                                                         *)
(* A check is up when it answers without an error within its two seconds.  *)
(***************************************************************************)
EXTENDS Integers, FiniteSets, Sequences, SequencesExt

CONSTANTS
  Requests,  \* the goroutines that serve /ready and /health
  Order,     \* names of the application's checks, sorted
  Collector  \* the name of the check of the OTLP collector

ASSUME OrderAssumption ==
  /\ Order \in Seq(Range(Order))
  /\ \A i, j \in DOMAIN Order : Order[i] = Order[j] => i = j
ASSUME CollectorAssumption == Collector \notin Range(Order)

Checks == Range(Order)
Names == Checks \cup {Collector}
Kinds == {"ready", "health"}
Unknown == 0 - 1  \* a gauge that has no value yet

VARIABLES
  endpoint,  \* whether an OTLP endpoint is configured
  registry,  \* the checks registered by HealthRegister
  up,        \* up[n]: n would pass now
  status,    \* healthStatus: 1, 0 or Unknown
  allPass,   \* healthcheck_all_pass
  round      \* round[r]: the round of checks of r

vars == <<endpoint, registry, up, status, allPass, round>>

\* The checks a request of this kind covers.
About(kind, checks) == checks \cup (IF kind = "health" /\ endpoint THEN {Collector} ELSE {})

(* pass: allPass of runChecks; result: of the check that has just run;     *)
(* gone: the client hung up, and with it the context of every check.       *)
(* History: unseen, the checks the round owes that were never up during    *)
(* it; excused, whether one that it may cover was ever down.               *)
Idle == [phase |-> "idle", kind |-> "ready", pending |-> <<>>, pass |-> TRUE, result |-> TRUE,
         gone |-> FALSE, unseen |-> {}, excused |-> FALSE]

Init ==
  /\ endpoint \in BOOLEAN
  /\ registry = {}
  /\ up \in [Names -> BOOLEAN]
  /\ status = [n \in Names |-> Unknown]
  /\ allPass = Unknown
  /\ round = [r \in Requests |-> Idle]

-----------------------------------------------------------------------------
(* The surroundings: the application registers checks, checks come and go, *)
(* and clients hang up.                                                    *)

(* Registering a name again replaces its check, which is a Flip or nothing. *)
HealthRegister(c) ==
  /\ c \notin registry
  /\ registry' = registry \cup {c}
  /\ UNCHANGED <<endpoint, up, status, allPass, round>>

Flip(n) ==
  /\ up' = [up EXCEPT ![n] = ~@]
  /\ round' = [r \in Requests |->
       IF round[r].phase = "idle" THEN round[r]
       ELSE [round[r] EXCEPT !.unseen = IF up'[n] THEN @ \ {n} ELSE @,
                             !.excused = @ \/ (~up'[n] /\ n \in About(round[r].kind, Checks))]]
  /\ UNCHANGED <<endpoint, registry, status, allPass>>

HangUp(r) ==
  /\ round[r].phase # "idle" /\ ~round[r].gone
  /\ round' = [round EXCEPT ![r].gone = TRUE]
  /\ UNCHANGED <<endpoint, registry, up, status, allPass>>

-----------------------------------------------------------------------------

\* A slip: both endpoints look at the collector.
FirstOfBoth(kind) == IF endpoint THEN <<Collector>> ELSE <<>>

(* The collector is checked for /health only, ahead of the application's.  *)
First(kind) == IF kind = "health" /\ endpoint THEN <<Collector>> ELSE <<>>

(* A request arrives.  The check of the service itself always passes.      *)
Begin(r, kind) ==
  /\ round[r].phase = "idle"
  /\ round' = [round EXCEPT ![r] =
       [Idle EXCEPT !.phase = "first", !.kind = kind, !.pending = First(kind),
                    !.unseen = {n \in About(kind, registry) : ~up[n]},
                    !.excused = \E n \in About(kind, Checks) : ~up[n]]]
  /\ UNCHANGED <<endpoint, registry, up, status, allPass>>

\* The one sequence of these names in their order.
Sorted(names) ==
  {s \in [1..Cardinality(names) -> names] :
     /\ Range(s) = names
     /\ \A i, j \in DOMAIN s : i < j => \E k, l \in DOMAIN Order : k < l /\ Order[k] = s[i] /\ Order[l] = s[j]}

(* healthChecksSnapshot, and the names in their order.                     *)
Snapshot(r) ==
  /\ round[r].phase = "first" /\ round[r].pending = <<>>
  /\ \E names \in Sorted(registry) :
       round' = [round EXCEPT ![r].phase = "rest", ![r].pending = names]
  /\ UNCHANGED <<endpoint, registry, up, status, allPass>>

(* The next check runs: with a context that is over it may only fail.      *)
Evaluate(r) ==
  /\ round[r].phase \in {"first", "rest"} /\ round[r].pending # <<>>
  /\ \E ignoresContext \in BOOLEAN :
       round' = [round EXCEPT
         ![r].phase = IF @ = "first" THEN "first_evaluated" ELSE "rest_evaluated",
         ![r].result = up[Head(round[r].pending)] /\ (round[r].gone => ignoresContext)]
  /\ UNCHANGED <<endpoint, registry, up, status, allPass>>

Recorded(r) ==
  [round EXCEPT ![r].phase = IF @ = "first_evaluated" THEN "first" ELSE "rest",
                ![r].pending = Tail(@),
                ![r].pass = @ /\ round[r].result,
                ![r].result = TRUE]

\* A slip: the last check decides.
RecordLast(r) ==
  /\ round[r].phase \in {"first_evaluated", "rest_evaluated"}
  /\ status' = [status EXCEPT ![Head(round[r].pending)] = IF round[r].result THEN 1 ELSE 0]
  /\ round' = [Recorded(r) EXCEPT ![r].pass = round[r].result]
  /\ UNCHANGED <<endpoint, registry, up, allPass>>

\* A slip: the status is stored once.
RecordOnce(r) ==
  /\ round[r].phase \in {"first_evaluated", "rest_evaluated"}
  /\ status' = [status EXCEPT ![Head(round[r].pending)] =
                  IF @ # Unknown THEN @ ELSE IF round[r].result THEN 1 ELSE 0]
  /\ round' = Recorded(r)
  /\ UNCHANGED <<endpoint, registry, up, allPass>>

(* Its result is recorded.                                                 *)
Record(r) ==
  /\ round[r].phase \in {"first_evaluated", "rest_evaluated"}
  /\ status' = [status EXCEPT ![Head(round[r].pending)] = IF round[r].result THEN 1 ELSE 0]
  /\ round' = Recorded(r)
  /\ UNCHANGED <<endpoint, registry, up, allPass>>

(* A check panics: the request is over without an answer, and net/http     *)
(* recovers.                                                               *)
CheckPanics(r) ==
  /\ round[r].phase = "rest" /\ round[r].pending # <<>>
  /\ round' = [round EXCEPT ![r] = Idle]
  /\ UNCHANGED <<endpoint, registry, up, status, allPass>>

\* A slip: only a failure is recorded.
AggregateFailures(r) ==
  /\ round[r].phase = "rest" /\ round[r].pending = <<>>
  /\ allPass' = IF round[r].pass THEN allPass ELSE 0
  /\ round' = [round EXCEPT ![r] = Idle]
  /\ UNCHANGED <<endpoint, registry, up, status>>

(* The gauge of the aggregate is set, and 200 or 503 goes out.             *)
Aggregate(r) ==
  /\ round[r].phase = "rest" /\ round[r].pending = <<>>
  /\ allPass' = IF round[r].pass THEN 1 ELSE 0
  /\ round' = [round EXCEPT ![r] = Idle]
  /\ UNCHANGED <<endpoint, registry, up, status>>

Proceed(r) == Snapshot(r) \/ Evaluate(r) \/ Record(r) \/ Aggregate(r)

Next ==
  \/ \E c \in Checks : HealthRegister(c)
  \/ \E n \in Names : Flip(n)
  \/ \E r \in Requests :
       \/ HangUp(r)
       \/ \E k \in Kinds : Begin(r, k)
       \/ Proceed(r) \/ CheckPanics(r)

Spec == Init /\ [][Next]_vars

(* Requests are served to their end, the two seconds of each check seeing  *)
(* to it, and both endpoints keep being probed.                            *)
Fairness ==
  /\ \A r \in Requests : WF_vars(Proceed(r))
  /\ \A k \in Kinds : SF_vars(\E r \in Requests : Begin(r, k))

FairSpec == Spec /\ Fairness

-----------------------------------------------------------------------------

\* What a request is told can be told from its own time: a failure only if a
\* check it covers was down, or its client gone, at some moment of it (so a
\* collector that is down takes no service out of rotation), and a success
\* only if every check it owes was up at some moment of it.
Justified ==
  [][\A r \in Requests : Aggregate(r) =>
       IF round[r].pass THEN round[r].unseen = {} ELSE round[r].gone \/ round[r].excused]_vars

\* From some time on the surroundings are still.
Still == <>[][~( \/ \E n \in Names : Flip(n)
                 \/ \E r \in Requests : HangUp(r) \/ CheckPanics(r))]_vars

\* A stale result of a slow round may overwrite a newer one, but not for
\* good: when nothing changes any more, the status of each check that is
\* registered, and of the collector if there is one, settles at the truth.
StatusSettles ==
  Still => <>[](\A n \in registry \cup (IF endpoint THEN {Collector} ELSE {}) :
                  status[n] = IF up[n] THEN 1 ELSE 0)

\* So does the aggregate, when the rounds agree on it: it settles at 1 when
\* all is up and at 0 when a registered check is down.  With the collector
\* alone down it keeps changing, /ready and /health writing one gauge.
GaugeSettles ==
  Still => \/ <>[](allPass = IF \A c \in registry : up[c] THEN 1 ELSE 0)
           \/ <>[](endpoint /\ ~up[Collector] /\ \A c \in registry : up[c])
=============================================================================
