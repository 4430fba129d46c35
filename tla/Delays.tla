------------------------------- MODULE Delays -------------------------------
(***************************************************************************)
(* How long a retry waits: retryDelay of resilience/retry.go, and          *)
(* retryDelay and retryAfterDelay of telemetry/httpclient.go.  A           *)
(* time.Duration is a signed integer and wraps around.                     *)
(***************************************************************************)
EXTENDS Integers

CONSTANTS
  MaxDuration,  \* the largest Duration (2^63 - 1)
  Second,       \* a second, in units of a Duration
  Cap           \* maxHTTPRetryBackoff

\* Assumed of the constants.
Parameters ==
  /\ MaxDuration \in Nat \ {0} /\ Second \in Nat \ {0}
  /\ Cap \in 1..MaxDuration

Durations == (0 - MaxDuration - 1)..MaxDuration

\* What the conversion of a floating-point number, which is not negative here,
\* may yield: beyond the range the language leaves it to the platform (amd64
\* gives the least Duration).
Converted(n) == IF n <= MaxDuration THEN {n} ELSE Durations

Wrapped(n) == ((n + (MaxDuration + 1)) % (2 * (MaxDuration + 1))) - (MaxDuration + 1)

\* A slip: doubled without a look at the range.
DoubledUnguarded(base, max, n) ==
  LET d[i \in 0..n] == IF i = 0 THEN base
                      ELSE IF d[i - 1] >= max THEN d[i - 1] ELSE Wrapped(2 * d[i - 1])
  IN  d[n]

\* The delay after n doublings; both functions double alike.
Doubled(base, max, n) ==
  LET d[i \in 0..n] == IF i = 0 THEN base
                      ELSE IF d[i - 1] >= max THEN d[i - 1]
                      ELSE IF d[i - 1] > max \div 2 THEN max
                      ELSE Wrapped(2 * d[i - 1])
  IN  d[n]

(* Retry: the first attempt is 1.  Jitter, in halves, takes a share draw   *)
(* (quarters) of the jittered interval, after the cap, in floating point.  *)
RetryDelays(base, max, jitter, attempt, draw) ==
  LET d == Doubled(base, max, attempt - 1)
      delay == IF d > max THEN max ELSE d
  IN IF jitter = 0 THEN {delay} ELSE Converted((delay * (4 - 2 * jitter + draw * jitter)) \div 4)

(* The client: the first attempt is 0, and the jitter is full.             *)
HttpRetryDelays(base, attempt) ==
  LET d == Doubled(base, Cap, attempt) IN IF d <= 0 THEN {0} ELSE 0..d

(* Retry-After in seconds.                                                 *)
RetryAfterDelay(seconds) == Wrapped(seconds * Second)

(* What executeAttempts waits: the longer of both, within the cap.         *)
HttpWaits(base, attempt, seconds) ==
  {LET after == RetryAfterDelay(seconds)
       longer == IF after > d THEN after ELSE d
   IN IF longer > Cap THEN Cap ELSE longer : d \in HttpRetryDelays(base, attempt)}

-----------------------------------------------------------------------------

\* The closed form of the doubling.
Power(n) == LET p[i \in 0..n] == IF i = 0 THEN 1 ELSE 2 * p[i - 1] IN p[n]
Least(a, b) == IF a < b THEN a ELSE b
Backoff(base, max, doublings) == Least(max, base * Power(doublings))

\* The resilience policy waits base * 2^(attempt - 1) and at most max, give or
\* take the share of the jitter, whatever overflows in the doubling, as long
\* as the interval of the jitter, which may reach twice max, fits a Duration.
\* Where it does not, the wait may be any Duration, a negative one included.
RetryInBounds(base, max, jitter, attempt, draw) ==
  LET b == Backoff(base, max, attempt - 1)
      delays == RetryDelays(base, max, jitter, attempt, draw)
  IN /\ delays # {} /\ delays \subseteq Durations
     /\ b * (4 + 2 * jitter) <= 4 * MaxDuration =>
          \A delay \in delays : 4 * delay \in (b * (4 - 2 * jitter) - 3)..(b * (4 + 2 * jitter))

\* The client never waits longer than its cap nor a negative time; it reaches
\* its backoff, and a Retry-After is obeyed up to the cap as long as it fits
\* a Duration.
HttpInBounds(base, attempt, seconds) ==
  LET waits == HttpWaits(base, attempt, seconds)
      b == Backoff(base, Cap, attempt)
  IN /\ waits \subseteq 0..Cap
     /\ b \in waits \/ seconds > 0
     /\ seconds * Second <= MaxDuration => \A w \in waits : w >= Least(Cap, seconds * Second)
=============================================================================
