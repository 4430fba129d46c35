--------------------------- MODULE CircuitBreaker ---------------------------
(***************************************************************************)
(* The circuit breaker of resilience/circuitbreaker.go, shared by any      *)
(* number of goroutines.                                                   *)
(*                                                                         *)
(* Every critical section of cb.mu (allow, record, State) is one action;   *)
(* what the code does outside the mutex is an action of its own: reading   *)
(* the clock before allow takes the lock, running the protected operation, *)
(* and calling OnStateChange after the unlock.  A goroutine delivers its   *)
(* notification before it goes on, so the notification it still owes is    *)
(* kept in note[c] and every other action of c waits for it to be empty.   *)
(*                                                                         *)
(* Time is relative to openedAt: age is the time since the breaker last    *)
(* opened, and seen[c] the clock value c read, measured from the same      *)
(* origin.  Both stop growing at openTimeout, since the code only asks     *)
(* whether they have reached it; a clock value read before openedAt is 0.  *)
(***************************************************************************)
EXTENDS Integers, FiniteSets

CONSTANTS
    Callers,      \* goroutines that use the breaker
    Threshold,    \* CircuitBreaker.Threshold, as configured
    OpenTimeout,  \* CircuitBreaker.OpenTimeout, as configured, in ticks
    Outcomes,     \* the ways in which an operation may end
    MaxFailures   \* bound: how far failures counts, if not negative

Closed   == "closed"
Open     == "open"
HalfOpen == "halfopen"
States   == {Closed, Open, HalfOpen}

\* "ok": nil error; "failure": an error that counts; "cancelled": an error
\* while the caller's context is done; "ignored": an error ShouldTrip waives;
\* "panic": the operation panics and the panic unwinds through the policy.
AllOutcomes == {"ok", "failure", "cancelled", "ignored", "panic"}

ASSUME ConfigAssumption == Threshold \in Int /\ OpenTimeout \in Int
ASSUME OutcomesAssumption == Outcomes \subseteq AllOutcomes
ASSUME CallersAssumption == IsFiniteSet(Callers)

\* Zero and negative settings mean the defaults: 5 failures, 30 seconds.
threshold   == IF Threshold > 0 THEN Threshold ELSE 5
openTimeout == IF OpenTimeout > 0 THEN OpenTimeout ELSE 30

\* A bound, which TLC needs, lies nowhere below the threshold, beyond which the
\* code tells no counts apart; without one failures counts as in the code.
ASSUME FailuresAssumption ==
    MaxFailures \in Int /\ (MaxFailures < 0 \/ MaxFailures >= threshold)

VARIABLES
    state,     \* cb.state
    failures,  \* cb.failures, which results of old calls drive past threshold
    age,       \* now - cb.openedAt
    probing,   \* cb.probing
    pc,        \* where each goroutine is
    seen,      \* the clock value a goroutine took into allow
    note,      \* the OnStateChange call a goroutine still owes, if any
    observed,  \* what the callbacks delivered so far add up to, per state
    probes,    \* history: goroutines running a probe of this half-open period
    faults     \* history: what befell its slot, "lost" and "stolen" (see below)

vars == <<state, failures, age, probing, pc, seen, note, observed, probes, faults>>

Notes == [from : States, to : States]

TypeOK ==
    /\ state \in States
    /\ failures \in Nat
    /\ age \in 0..openTimeout
    /\ probing \in BOOLEAN
    /\ pc \in [Callers -> {"idle", "allow", "running"}]
    /\ seen \in [Callers -> 0..openTimeout]
    /\ note \in [Callers -> SUBSET Notes]
    /\ observed \in [States -> Int]
    /\ probes \in SUBSET Callers
    /\ faults \in SUBSET {"lost", "stolen"}

\* openedAt is the zero time: an age beyond any timeout.
Init ==
    /\ state = Closed
    /\ failures = 0
    /\ age = openTimeout
    /\ probing = FALSE
    /\ pc = [c \in Callers |-> "idle"]
    /\ seen = [c \in Callers |-> 0]
    /\ note = [c \in Callers |-> {}]
    /\ observed = [s \in States |-> IF s = Closed THEN 1 ELSE 0]
    /\ probes = {}
    /\ faults = {}

-----------------------------------------------------------------------------
(* Goroutine c, at location p, owes no notification.                       *)
At(c, p) == pc[c] = p /\ note[c] = {}

(* A setStateLocked that reads the old state after assigning the new one.  *)
SetStateReadsLate(c, next) ==
    /\ state' = next
    /\ note' = [note EXCEPT ![c] =
                   IF state = next THEN {} ELSE {[from |-> next, to |-> next]}]

(* setStateLocked together with the notify that follows the unlock: a real *)
(* change is owed to the callback, a self-transition is not.               *)
SetState(c, next) ==
    /\ state' = next
    /\ note' = [note EXCEPT ![c] =
                   IF state = next THEN {} ELSE {[from |-> state, to |-> next]}]

(* transitionIfReadyLocked: an open breaker whose timeout has elapsed at   *)
(* clock value t half-opens, with its probe slot free.                     *)
ReadyAt(t) == state = Open /\ t >= openTimeout
StateAtNever(t) == state          \* the timeout is not looked at
StateAt(t) == IF ReadyAt(t) THEN HalfOpen ELSE state
ProbingAtNever(t) == FALSE        \* allow does not look at probing
ProbingAt(t) == probing /\ ~ReadyAt(t)

(* A probe belongs to the half-open period it was admitted in, and so does *)
(* what befell its slot: it is lost when the probe that took it panics,    *)
(* and stolen when it is freed while a probe is running.                   *)
ProbesWithout(c) == IF state' = state THEN probes \ {c} ELSE {}
FaultsStay == faults' = IF state' = state THEN faults ELSE {}

(* The clock is read before allow takes the mutex.                         *)
Arrive(c) ==
    /\ At(c, "idle")
    /\ pc' = [pc EXCEPT ![c] = "allow"]
    /\ seen' = [seen EXCEPT ![c] = age]
    /\ UNCHANGED <<state, failures, age, probing, note, observed, probes, faults>>

(* allow: half-open if it is time, then admit or reject.  A rejected call  *)
(* returns ErrCircuitOpen and leaves the breaker as it found it.           *)
Allow(c) ==
    /\ At(c, "allow")
    /\ SetState(c, StateAt(seen[c]))
    /\ \/ /\ state' = Closed
          /\ pc' = [pc EXCEPT ![c] = "running"]
          /\ probing' = probing
          /\ probes' = probes
       \/ /\ state' = HalfOpen /\ ~ProbingAt(seen[c])
          /\ pc' = [pc EXCEPT ![c] = "running"]
          /\ probing' = TRUE
          /\ probes' = ProbesWithout(c) \cup {c}
       \/ /\ state' = Open \/ ProbingAt(seen[c])
          /\ pc' = [pc EXCEPT ![c] = "idle"]
          /\ probing' = probing
          /\ probes' = probes
    /\ seen' = [seen EXCEPT ![c] = 0]
    /\ FaultsStay
    /\ UNCHANGED <<failures, age, observed>>

(* State(): the clock is read under the mutex.                             *)
ReadState(c) ==
    /\ At(c, "idle")
    /\ SetState(c, StateAt(age))
    /\ probing' = ProbingAt(age)
    /\ probes' = IF state' = state THEN probes ELSE {}
    /\ FaultsStay
    /\ UNCHANGED <<failures, age, pc, seen, observed>>

(* The operation of c ended as o, and record(ctx, err) runs next, if at    *)
(* all: a panic skips it.                                                  *)
Ends(c, o) ==
    /\ o \in Outcomes
    /\ At(c, "running")
    /\ pc' = [pc EXCEPT ![c] = "idle"]
    /\ observed' = observed

(* Variants of record that a slip would produce: a success that leaves the *)
(* count of failures, and one that does not close the breaker.             *)
RecordOkKeepsFailures(c) ==
    /\ Ends(c, "ok")
    /\ SetState(c, Closed)
    /\ probing' = FALSE
    /\ probes' = ProbesWithout(c)
    /\ FaultsStay
    /\ UNCHANGED <<failures, age, seen>>

RecordOkStays(c) ==
    /\ Ends(c, "ok")
    /\ failures' = 0
    /\ probing' = FALSE
    /\ SetState(c, state)
    /\ probes' = ProbesWithout(c)
    /\ FaultsStay
    /\ UNCHANGED <<age, seen>>

RecordOk(c) ==
    /\ Ends(c, "ok")
    /\ failures' = 0
    /\ probing' = FALSE
    /\ SetState(c, Closed)
    /\ probes' = ProbesWithout(c)
    /\ FaultsStay
    /\ UNCHANGED <<age, seen>>

(* A neutral outcome that forgets the probe slot.                          *)
ReleaseNothing(c) ==
    /\ UNCHANGED <<state, failures, age, probing, seen, note, faults>>
    /\ probes' = ProbesWithout(c)

(* The two neutral outcomes free the probe slot of a half-open breaker,    *)
(* whichever call holds it, and count nothing.                             *)
ReleaseProbe(c) ==
    /\ probing' = IF state = HalfOpen THEN FALSE ELSE probing
    /\ UNCHANGED <<state, failures, age, seen, note>>
    /\ probes' = ProbesWithout(c)
    /\ faults' = IF probes' # {} THEN {"stolen"} ELSE {}

RecordCancelled(c) == Ends(c, "cancelled") /\ ReleaseProbe(c)
RecordIgnored(c)   == Ends(c, "ignored") /\ ReleaseProbe(c)

(* cb.failures++                                                           *)
Bump == IF failures = MaxFailures THEN failures ELSE failures + 1

(* Re-opening without giving the probe slot back, and without a new time.  *)
TripKeepsProbe(c) ==
    /\ SetState(c, Open)
    /\ age' = 0
    /\ seen' = [d \in Callers |-> 0]
    /\ probing' = probing

TripKeepsOpenedAt(c) ==
    /\ SetState(c, Open)
    /\ probing' = FALSE
    /\ UNCHANGED <<age, seen>>

(* openedAt = clock(): the age restarts, and every clock value already     *)
(* read lies before it.                                                    *)
Trip(c) ==
    /\ SetState(c, Open)
    /\ age' = 0
    /\ seen' = [d \in Callers |-> 0]
    /\ probing' = FALSE

RecordFailure(c) ==
    /\ Ends(c, "failure")
    /\ failures' = Bump
    /\ \/ /\ state = HalfOpen \/ failures' >= threshold
          /\ Trip(c)
       \/ /\ ~(state = HalfOpen \/ failures' >= threshold)
          /\ UNCHANGED <<state, age, seen, probing, note>>
    /\ probes' = ProbesWithout(c)
    /\ FaultsStay

Panic(c) ==
    /\ Ends(c, "panic")
    /\ UNCHANGED <<state, failures, age, probing, seen, note>>
    /\ probes' = ProbesWithout(c)
    /\ faults' = IF c \in probes THEN faults \cup {"lost"} ELSE faults

Record(c) ==
    \/ RecordOk(c)
    \/ RecordCancelled(c)
    \/ RecordIgnored(c)
    \/ RecordFailure(c)

(* OnStateChange(from, to), outside the mutex.                             *)
Notify(c) ==
    \E n \in note[c] :
        /\ observed' = [observed EXCEPT ![n.from] = @ - 1, ![n.to] = @ + 1]
        /\ note' = [note EXCEPT ![c] = {}]
        /\ UNCHANGED <<state, failures, age, probing, pc, seen, probes, faults>>

Tick ==
    /\ age < openTimeout
    /\ age' = age + 1
    /\ UNCHANGED <<state, failures, probing, pc, seen, note, observed, probes, faults>>

Next ==
    \/ Tick
    \/ \E c \in Callers :
        \/ Arrive(c)
        \/ Allow(c)
        \/ ReadState(c)
        \/ Record(c)
        \/ Panic(c)
        \/ Notify(c)

Spec == Init /\ [][Next]_vars

(* Time passes, callers keep coming, operations return, and a goroutine    *)
(* that can take the mutex or owes a notification goes on (sync.Mutex is   *)
(* starvation-free).  Nothing is assumed of how an operation ends.         *)
Fairness ==
    /\ WF_vars(Tick)
    /\ \A c \in Callers :
        /\ WF_vars(Arrive(c))
        /\ WF_vars(Allow(c))
        /\ WF_vars(Record(c) \/ Panic(c))
        /\ WF_vars(Notify(c))

FairSpec == Spec /\ Fairness

-----------------------------------------------------------------------------
(* Safety.                                                                 *)

\* The probe slot is taken in the half-open state only: no path through
\* record or a late timeout leaves it taken in a breaker that closes or opens,
\* where the next half-open period would find it taken.
ProbingOnlyHalfOpen == probing => state = HalfOpen

\* Whatever stale results record applies in whatever state, the breaker is
\* closed exactly while its run of failures is below the threshold.
ClosedIffBelowThreshold == state = Closed <=> failures < threshold

\* A taken probe slot belongs to a probe that is still running, so that the
\* breaker rejects in half-open only while some call is bound to report back.
\* It does not: a probe that panics is never recorded.
TokenOwned == (state = HalfOpen /\ probing) => probes # {}

\* A panicking probe is the only way to lose the slot: no order of stale
\* results, cancellations and admissions leaves it taken by nobody.
TokenAccounted == TokenOwned \/ "lost" \in faults

\* A half-open period has one probe at a time.  It does not: the cancelled or
\* waived result of a call admitted earlier frees the slot of a running probe.
SingleProbe == \A c, d \in probes : c = d

\* That theft is the only way to a second probe; and no path leaves the slot
\* taken outside half-open.
ProbesAccounted == ProbingOnlyHalfOpen /\ (SingleProbe \/ "stolen" \in faults)

Pending(s, field) == {c \in Callers : \E n \in note[c] : n[field] = s}

\* Notifications are delivered late and in any order, yet none is lost,
\* doubled or made up: those delivered and those owed add up, state by state,
\* to the way from Closed to the present state.
NotificationsBalance ==
    \A s \in States :
        observed[s] + Cardinality(Pending(s, "to"))
                    - Cardinality(Pending(s, "from")) = IF s = state THEN 1 ELSE 0

\* The breaker implements the circuit its callers are promised: although the
\* clock is read before the lock is taken, no half-open period starts before
\* the timeout counted from the LAST opening, and every other change of state
\* is an opening or a closing.
C == INSTANCE Circuit WITH OpenFor <- openTimeout
ImplementsCircuit == C!Spec

(* Liveness.                                                               *)

\* An open breaker does not stay open for ever: although stale failures push
\* openedAt forward, there are only finitely many of them.
OpenEnds == state = Open ~> state # Open

\* The probe slot comes free again, so half-open never rejects for good,
\* unless a probe panicked.
ProbeEnds == probing ~> ~probing \/ "lost" \in faults

Healthy ==
    \A c \in Callers :
        ~(RecordFailure(c) \/ RecordCancelled(c) \/ RecordIgnored(c) \/ Panic(c))

\* Once operations only succeed the breaker closes and stays closed, unless
\* the slot of a panicked probe was lost before.
Recovers ==
    <>[][Healthy]_vars => <>[](state = Closed) \/ <>[]("lost" \in faults)

=============================================================================
