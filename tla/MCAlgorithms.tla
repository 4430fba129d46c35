---------------------------- MODULE MCAlgorithms ----------------------------
(* The runtime metrics, the carrier and the delays, which do not meet, in  *)
(* one instance for TLC: a behaviour is about one of them.                 *)
EXTENDS RuntimeMetrics, Sequences

CONSTANTS
  Keys, Values, None, Unset, MaxHeaders,    \* Carrier
  MaxDuration, Second, Cap,                 \* Delays
  MaxAttempts                               \* bound: attempts of a retry loop

VARIABLES
  subject,
  received, headers, written,
  attempt    \* of a retry loop

K == INSTANCE Carrier
D == INSTANCE Delays

ASSUME ParametersAssumption == K!Parameters /\ D!Parameters

carrierVars == <<received, headers, written>>
allVars == <<subject, attempt, vars, carrierVars>>

Inits ==
  /\ subject \in {"metrics", "carrier", "delays"}
  /\ Init
  /\ IF subject = "carrier" THEN K!Init ELSE K!NewCarrier(<<>>)
  /\ attempt = 1

\* The loop of Retry and of executeAttempts goes round.
Again ==
  /\ attempt < MaxAttempts
  /\ attempt' = attempt + 1

Steps ==
  \/ subject = "metrics" /\ Next /\ UNCHANGED <<subject, attempt, carrierVars>>
  \/ subject = "carrier" /\ K!Next /\ UNCHANGED <<subject, attempt, vars>>
  \/ subject = "delays" /\ Again /\ UNCHANGED <<subject, vars, carrierVars>>

Algorithms == Inits /\ [][Steps]_allVars

\* See Carrier: keys read as they were written.
ReadsAsWritten == K!ReadsAsWritten

\* See Delays: the doubling of both backoffs never overflows; the policy's keeps
\* its bounds whenever its jittered interval fits a Duration, the client's for
\* every base, and a Retry-After of any length that can be sent ends in a wait
\* between nothing and the cap.
DelaysInBounds ==
  subject = "delays" =>
    /\ \A base \in 1..MaxDuration : \A max \in base..MaxDuration :
         \A jitter \in 0..2, draw \in 0..3 : D!RetryInBounds(base, max, jitter, attempt, draw)
    /\ \A base \in 1..MaxDuration, seconds \in 0..MaxDuration :
         D!HttpInBounds(base, attempt - 1, seconds)
=============================================================================
