------------------------ MODULE CircuitBreakerProofs ------------------------
(***************************************************************************)
(* Theorems about the circuit breaker, for any set of callers, threshold   *)
(* and timeout.                                                            *)
(***************************************************************************)
EXTENDS CircuitBreaker, FiniteSetTheorems, TLAPS

\* The defaults of threshold() and openTimeout() leave both positive.
LEMMA Positive == threshold \in Nat \ {0} /\ openTimeout \in Nat \ {0}
  BY ConfigAssumption DEF threshold, openTimeout

\* Every step of the breaker leaves each variable in its type.
LEMMA TypeCorrect == Spec => []TypeOK
<1>1. Init => TypeOK
  <2>1. Init => probing \in BOOLEAN
    BY Zenon DEF Init
  <2> QED
    BY <2>1, Positive DEF Init, TypeOK, States, Closed, Open, HalfOpen
<1>2. TypeOK /\ [Next]_vars => TypeOK'
  <2> SUFFICES ASSUME TypeOK, [Next]_vars PROVE TypeOK'
    OBVIOUS
  <2> DEFINE OtherTypes == /\ failures \in Nat /\ age \in 0..openTimeout
                           /\ pc \in [Callers -> {"idle", "allow", "running"}]
                           /\ seen \in [Callers -> 0..openTimeout]
                           /\ observed \in [States -> Int]
                           /\ probes \in SUBSET Callers
                           /\ faults \in SUBSET {"lost", "stolen"}
  <2> USE Positive DEF TypeOK, At
  <2>1. CASE Tick
    BY <2>1 DEF Tick
  <2>2. ASSUME NEW c \in Callers, Arrive(c) PROVE TypeOK'
    BY <2>2 DEF Arrive
  <2>3. ASSUME NEW c \in Callers, NEW s \in States, SetState(c, s)
        PROVE  state' \in States /\ note' \in [Callers -> SUBSET Notes]
    <3>1. [from |-> state, to |-> s] \in Notes
      BY DEF Notes
    <3> QED
      BY <2>3, <3>1 DEF SetState
  <2>4. StateAt(age) \in States /\ \A c \in Callers : StateAt(seen[c]) \in States
    BY DEF StateAt, States
  <2>5. ASSUME NEW c \in Callers, Allow(c) PROVE TypeOK'
    <3>1. state' \in States /\ note' \in [Callers -> SUBSET Notes]
      BY <2>3, <2>4, <2>5 DEF Allow
    <3>2. probing' \in BOOLEAN
      BY <2>5, Zenon DEF Allow
    <3>3. OtherTypes'
      BY <2>5 DEF Allow, ProbesWithout, FaultsStay
    <3> QED
      BY <3>1, <3>2, <3>3
  <2>6. ASSUME NEW c \in Callers, ReadState(c) PROVE TypeOK'
    <3>1. state' \in States /\ note' \in [Callers -> SUBSET Notes]
      BY <2>3, <2>4, <2>6 DEF ReadState
    <3>2. probing' \in BOOLEAN
      BY <2>6, Zenon DEF ReadState, ProbingAt
    <3> QED
      BY <2>6, <3>1, <3>2 DEF ReadState, FaultsStay
  <2>7. ASSUME NEW c \in Callers, RecordOk(c) PROVE TypeOK'
    <3>1. state' \in States /\ note' \in [Callers -> SUBSET Notes]
      BY <2>3, <2>7 DEF RecordOk, States
    <3>2. probing' \in BOOLEAN
      BY <2>7, Zenon DEF RecordOk
    <3>3. OtherTypes'
      BY <2>7 DEF RecordOk, Ends, ProbesWithout, FaultsStay
    <3> QED
      BY <3>1, <3>2, <3>3
  <2>8. ASSUME NEW c \in Callers, RecordCancelled(c) \/ RecordIgnored(c) PROVE TypeOK'
    BY <2>8 DEF RecordCancelled, RecordIgnored, ReleaseProbe, Ends, ProbesWithout
  <2>9. ASSUME NEW c \in Callers, RecordFailure(c) PROVE TypeOK'
    <3>1. CASE Trip(c)
      <4>1. state' \in States /\ note' \in [Callers -> SUBSET Notes]
        BY <2>3, <3>1 DEF Trip, States
      <4>2. probing' \in BOOLEAN
        BY <3>1, Zenon DEF Trip
      <4>3. OtherTypes'
        BY <2>9, <3>1 DEF RecordFailure, Trip, Bump, Ends, ProbesWithout, FaultsStay
      <4> QED
        BY <4>1, <4>2, <4>3
    <3>2. CASE ~Trip(c)
      BY <2>9, <3>2 DEF RecordFailure, Bump, Ends, ProbesWithout, FaultsStay
    <3> QED
      BY <3>1, <3>2
  <2>10. ASSUME NEW c \in Callers, Panic(c) PROVE TypeOK'
    BY <2>10 DEF Panic, Ends, ProbesWithout
  <2>11. ASSUME NEW c \in Callers, Notify(c) PROVE TypeOK'
    BY <2>11 DEF Notify, Notes
  <2>12. CASE UNCHANGED vars
    BY <2>12 DEF vars
  <2> QED
    BY <2>1, <2>2, <2>5, <2>6, <2>7, <2>8, <2>9, <2>10, <2>11, <2>12 DEF Next, Record
<1> QED
  BY <1>1, <1>2, PTL DEF Spec

-----------------------------------------------------------------------------
\* The inductive invariant behind the remaining theorems: a clock value in a
\* goroutine's hands is never ahead of the time since the last opening.
SeenIsPast == \A c \in Callers : seen[c] <= age

LEMMA ClockReadings == Spec => []SeenIsPast
<1>1. Init => SeenIsPast
  BY Positive DEF Init, SeenIsPast
<1>2. TypeOK /\ SeenIsPast /\ [Next]_vars => SeenIsPast'
  <2> SUFFICES ASSUME TypeOK, SeenIsPast, [Next]_vars PROVE SeenIsPast'
    OBVIOUS
  <2> USE DEF TypeOK, SeenIsPast
  <2>1. CASE Tick
    BY <2>1 DEF Tick
  <2>2. ASSUME NEW c \in Callers, Arrive(c) PROVE SeenIsPast'
    BY <2>2 DEF Arrive
  <2>3. ASSUME NEW c \in Callers, Allow(c) PROVE SeenIsPast'
    BY <2>3 DEF Allow
  <2>4. ASSUME NEW c \in Callers, Trip(c) PROVE SeenIsPast'
    BY <2>4 DEF Trip
  <2>5. ASSUME UNCHANGED <<seen, age>> PROVE SeenIsPast'
    BY <2>5
  <2>6. ASSUME NEW c \in Callers, RecordFailure(c) PROVE SeenIsPast'
    BY <2>4, <2>5, <2>6 DEF RecordFailure
  <2>7. ASSUME NEW c \in Callers,
               \/ ReadState(c) \/ RecordOk(c) \/ RecordCancelled(c)
               \/ RecordIgnored(c) \/ Panic(c) \/ Notify(c)
        PROVE  UNCHANGED <<seen, age>>
    BY <2>7 DEF ReadState, RecordOk, RecordCancelled, RecordIgnored, ReleaseProbe,
                Panic, Notify
  <2>8. CASE UNCHANGED vars
    BY <2>5, <2>8 DEF vars
  <2> QED
    BY <2>1, <2>2, <2>3, <2>5, <2>6, <2>7, <2>8 DEF Next, Record
<1> QED
  BY <1>1, <1>2, TypeCorrect, PTL DEF Spec

\* The breaker implements Circuit: each of its steps is a step of the abstract
\* circuit or leaves it alone.  allow and State half-open only with a clock
\* value that has reached the timeout, and by SeenIsPast so has the age.
THEOREM Implementation == Spec => ImplementsCircuit
<1> USE DEF C!Init, C!Next, C!Trip, C!Elapse, C!Close, C!Tick, C!vars
<1>1. Init => C!Init
  BY DEF Init, Closed
<1>2. TypeOK /\ SeenIsPast /\ [Next]_vars => [C!Next]_(C!vars)
  <2> SUFFICES ASSUME TypeOK, SeenIsPast, [Next]_vars PROVE [C!Next]_(C!vars)
    OBVIOUS
  <2>1. CASE Tick
    BY <2>1 DEF Tick
  <2>2. ASSUME NEW t \in 0..openTimeout, t <= age, state' = StateAt(t), age' = age
        PROVE  [C!Next]_(C!vars)
    BY <2>2, Positive DEF StateAt, ReadyAt, Open, HalfOpen, TypeOK
  <2>3. ASSUME NEW c \in Callers, Allow(c) PROVE [C!Next]_(C!vars)
    BY <2>2, <2>3 DEF Allow, SetState, SeenIsPast, TypeOK
  <2>4. ASSUME NEW c \in Callers, ReadState(c) PROVE [C!Next]_(C!vars)
    BY <2>2, <2>4 DEF ReadState, SetState, TypeOK
  <2>5. ASSUME NEW c \in Callers, RecordOk(c) PROVE [C!Next]_(C!vars)
    BY <2>5 DEF RecordOk, SetState, Closed
  <2>6. ASSUME NEW c \in Callers, RecordFailure(c) PROVE [C!Next]_(C!vars)
    BY <2>6 DEF RecordFailure, Trip, SetState, Open
  <2>7. ASSUME NEW c \in Callers,
               \/ Arrive(c) \/ RecordCancelled(c) \/ RecordIgnored(c)
               \/ Panic(c) \/ Notify(c)
        PROVE  [C!Next]_(C!vars)
    BY <2>7 DEF Arrive, RecordCancelled, RecordIgnored, ReleaseProbe, Panic, Notify
  <2>8. CASE UNCHANGED vars
    BY <2>8 DEF vars
  <2> QED
    BY <2>1, <2>3, <2>4, <2>5, <2>6, <2>7, <2>8 DEF Next, Record
<1> QED
  BY <1>1, <1>2, TypeCorrect, ClockReadings, PTL DEF Spec, ImplementsCircuit, C!Spec

-----------------------------------------------------------------------------
\* The breaker is closed exactly while its run of failures is below the
\* threshold: a stale result, in whatever state it is recorded, leaves neither
\* an open breaker that has forgotten its failures nor a closed one with too many.
THEOREM FailureCount == Spec => []ClosedIffBelowThreshold
<1> USE Positive DEF ClosedIffBelowThreshold, Closed, Open, HalfOpen
<1>1. Init => ClosedIffBelowThreshold
  BY DEF Init
<1>2. TypeOK /\ ClosedIffBelowThreshold /\ [Next]_vars => ClosedIffBelowThreshold'
  <2> SUFFICES ASSUME TypeOK, ClosedIffBelowThreshold, [Next]_vars
               PROVE  ClosedIffBelowThreshold'
    OBVIOUS
  <2>1. ASSUME NEW c \in Callers, Allow(c) \/ ReadState(c)
        PROVE  ClosedIffBelowThreshold'
    BY <2>1 DEF Allow, ReadState, SetState, StateAt, ReadyAt
  <2>2. ASSUME NEW c \in Callers, RecordOk(c) PROVE ClosedIffBelowThreshold'
    BY <2>2 DEF RecordOk, SetState
  <2>3. ASSUME NEW c \in Callers, RecordFailure(c) PROVE ClosedIffBelowThreshold'
    BY <2>3, FailuresAssumption DEF RecordFailure, Trip, Bump, SetState, TypeOK, States
  <2>4. ASSUME UNCHANGED <<state, failures>> PROVE ClosedIffBelowThreshold'
    BY <2>4
  <2>5. ASSUME NEW c \in Callers,
               \/ Arrive(c) \/ RecordCancelled(c) \/ RecordIgnored(c)
               \/ Panic(c) \/ Notify(c)
        PROVE  UNCHANGED <<state, failures>>
    BY <2>5 DEF Arrive, RecordCancelled, RecordIgnored, ReleaseProbe, Panic, Notify
  <2> QED
    BY <2>1, <2>2, <2>3, <2>4, <2>5 DEF Next, Record, Tick, vars
<1> QED
  BY <1>1, <1>2, TypeCorrect, PTL DEF Spec

-----------------------------------------------------------------------------
\* The probe slot is taken in half-open periods only, and probes run in them
\* only: every way out of half-open gives the slot back.
ProbesOnlyHalfOpen == probes # {} => state = HalfOpen

THEOREM ProbeSlot == Spec => [](ProbingOnlyHalfOpen /\ ProbesOnlyHalfOpen)
<1> DEFINE Inv == ProbingOnlyHalfOpen /\ ProbesOnlyHalfOpen
<1> USE DEF ProbingOnlyHalfOpen, ProbesOnlyHalfOpen
<1>1. Init => Inv
  BY DEF Init
<1>2. Inv /\ [Next]_vars => Inv'
  <2> SUFFICES ASSUME Inv, [Next]_vars PROVE Inv'
    OBVIOUS
  <2>1. ASSUME NEW c \in Callers, Allow(c) PROVE Inv'
    <3>1. CASE state' = HalfOpen
      BY <3>1
    <3>2. CASE state' # HalfOpen /\ probes' = probes /\ probing' = probing
      BY <2>1, <3>2 DEF Allow, SetState, StateAt, Closed, Open, HalfOpen
    <3> QED
      BY <2>1, <3>1, <3>2 DEF Allow
  <2>2. ASSUME NEW c \in Callers, ReadState(c) PROVE Inv'
    BY <2>2 DEF ReadState, SetState, StateAt, ProbingAt, ReadyAt, Open, HalfOpen
  <2>3. ASSUME NEW c \in Callers, RecordOk(c) PROVE Inv'
    BY <2>3 DEF RecordOk, SetState, ProbesWithout, Closed, HalfOpen
  <2>4. ASSUME NEW c \in Callers, RecordFailure(c) PROVE Inv'
    BY <2>4 DEF RecordFailure, Trip, SetState, ProbesWithout, Open, HalfOpen
  <2>5. ASSUME NEW c \in Callers, RecordCancelled(c) \/ RecordIgnored(c) PROVE Inv'
    BY <2>5 DEF RecordCancelled, RecordIgnored, ReleaseProbe, ProbesWithout
  <2>6. ASSUME NEW c \in Callers, Panic(c) PROVE Inv'
    BY <2>6 DEF Panic, ProbesWithout
  <2>7. ASSUME UNCHANGED <<state, probing, probes>> PROVE Inv'
    BY <2>7
  <2> QED
    BY <2>1, <2>2, <2>3, <2>4, <2>5, <2>6, <2>7
       DEF Next, Record, Tick, Arrive, Notify, vars
<1> QED
  BY <1>1, <1>2, PTL DEF Spec

\* Only a probe's panic loses the slot: whatever stale results are recorded,
\* the taken slot of a half-open breaker belongs to a probe that is still running
\* and will report back, unless a probe of this period panicked.
THEOREM TokenHeld == Spec => []TokenAccounted
<1> USE DEF TokenAccounted, TokenOwned
<1>1. Init => TokenAccounted
  BY DEF Init, Closed, HalfOpen
<1>2. TokenAccounted /\ [Next]_vars => TokenAccounted'
  <2> SUFFICES ASSUME TokenAccounted, [Next]_vars PROVE TokenAccounted'
    OBVIOUS
  <2>1. ASSUME NEW c \in Callers, Allow(c) PROVE TokenAccounted'
    <3>1. CASE probes' = ProbesWithout(c) \cup {c}
      BY <3>1
    <3>2. CASE probes' = probes /\ probing' = probing /\ state' = state
      BY <2>1, <3>2 DEF Allow, FaultsStay
    <3>3. CASE state' \in {Closed, Open}
      BY <3>3 DEF Closed, Open, HalfOpen
    <3>4. CASE state' = HalfOpen /\ state # HalfOpen /\ ProbingAt(seen[c])
      BY <2>1, <3>4 DEF Allow, SetState, StateAt, ProbingAt
    <3> QED
      BY <2>1, <3>1, <3>2, <3>3, <3>4 DEF Allow, SetState, StateAt
  <2>2. ASSUME NEW c \in Callers, ReadState(c) PROVE TokenAccounted'
    BY <2>2 DEF ReadState, SetState, StateAt, ProbingAt, ReadyAt, FaultsStay, Open, HalfOpen
  <2>3. ASSUME NEW c \in Callers, RecordOk(c) PROVE TokenAccounted'
    BY <2>3 DEF RecordOk, SetState, Closed, HalfOpen
  <2>4. ASSUME NEW c \in Callers, RecordFailure(c) PROVE TokenAccounted'
    BY <2>4 DEF RecordFailure, Trip, SetState, Open, HalfOpen
  <2>5. ASSUME NEW c \in Callers, RecordCancelled(c) \/ RecordIgnored(c)
        PROVE  TokenAccounted'
    BY <2>5 DEF RecordCancelled, RecordIgnored, ReleaseProbe
  <2>6. ASSUME NEW c \in Callers, Panic(c) PROVE TokenAccounted'
    BY <2>6 DEF Panic, ProbesWithout
  <2>7. ASSUME UNCHANGED <<state, probing, probes, faults>> PROVE TokenAccounted'
    BY <2>7
  <2> QED
    BY <2>1, <2>2, <2>3, <2>4, <2>5, <2>6, <2>7
       DEF Next, Record, Tick, Arrive, Notify, vars
<1> QED
  BY <1>1, <1>2, PTL DEF Spec

\* Only a stale neutral result makes room for a second probe.  The invariant
\* also says that a running probe holds the slot unless it was stolen.
THEOREM OneProbe == Spec => []ProbesAccounted
<1> DEFINE Held == probes = {} \/ probing \/ "stolen" \in faults
           OneUnlessStolen == SingleProbe \/ "stolen" \in faults
           Inv == OneUnlessStolen /\ Held
<1> USE DEF SingleProbe
<1>1. Init => Inv
  BY DEF Init
<1>2. Inv /\ ProbesOnlyHalfOpen /\ [Next]_vars => Inv'
  <2> SUFFICES ASSUME Inv, ProbesOnlyHalfOpen, [Next]_vars PROVE Inv'
    OBVIOUS
  <2> USE DEF ProbesOnlyHalfOpen
  <2>1. ASSUME NEW c \in Callers, Allow(c) PROVE Inv'
    <3>1. CASE probes' = probes /\ probing' = probing
      <4>1. CASE state' = state
        BY <2>1, <3>1, <4>1 DEF Allow, FaultsStay
      <4>2. CASE state' # state
        BY <2>1, <3>1, <4>2 DEF Allow, SetState, StateAt, ReadyAt, Open, HalfOpen
      <4> QED
        BY <4>1, <4>2
    <3>2. CASE state' = HalfOpen /\ ~ProbingAt(seen[c])
               /\ probing' = TRUE /\ probes' = ProbesWithout(c) \cup {c}
      <4>1. CASE state' = state
        <5>1. ~probing /\ faults' = faults
          BY <2>1, <3>2, <4>1 DEF Allow, FaultsStay, ProbingAt, ReadyAt, Open, HalfOpen
        <5>2. probes = {} \/ "stolen" \in faults'
          BY <5>1
        <5>3. probes = {} => probes' = {c}
          BY <3>2 DEF ProbesWithout
        <5> QED
          BY <3>2, <5>2, <5>3
      <4>2. CASE state' # state
        <5>1. probes' = {c}
          BY <3>2, <4>2 DEF ProbesWithout
        <5> QED
          BY <3>2, <5>1
      <4> QED
        BY <4>1, <4>2
    <3> QED
      BY <2>1, <3>1, <3>2 DEF Allow
  <2>2. ASSUME NEW c \in Callers, ReadState(c) PROVE Inv'
    BY <2>2 DEF ReadState, SetState, StateAt, ProbingAt, ReadyAt, FaultsStay, Open, HalfOpen
  <2>3. ASSUME NEW c \in Callers, RecordOk(c) PROVE Inv'
    BY <2>3 DEF RecordOk, SetState, ProbesWithout, Closed, HalfOpen
  <2>4. ASSUME NEW c \in Callers, RecordFailure(c) PROVE Inv'
    BY <2>4 DEF RecordFailure, Trip, SetState, ProbesWithout, Open, HalfOpen
  <2>5. ASSUME NEW c \in Callers, RecordCancelled(c) \/ RecordIgnored(c) PROVE Inv'
    BY <2>5 DEF RecordCancelled, RecordIgnored, ReleaseProbe
  <2>6. ASSUME NEW c \in Callers, Panic(c) PROVE Inv'
    BY <2>6 DEF Panic, ProbesWithout
  <2>7. ASSUME UNCHANGED <<state, probing, probes, faults>> PROVE Inv'
    BY <2>7
  <2> QED
    BY <2>1, <2>2, <2>3, <2>4, <2>5, <2>6, <2>7
       DEF Next, Record, Tick, Arrive, Notify, vars
<1>3. ProbingOnlyHalfOpen /\ OneUnlessStolen => ProbesAccounted
  BY DEF ProbesAccounted
<1> QED
  BY <1>1, <1>2, <1>3, ProbeSlot, PTL DEF Spec

-----------------------------------------------------------------------------
\* A goroutine owes at most one notification, and it is of a real change.
OwesOne ==
  \A c \in Callers : note[c] = {} \/ \E n \in Notes : n.from # n.to /\ note[c] = {n}

LEMMA PendingFinite ==
  ASSUME NEW s, NEW field
  PROVE  IsFiniteSet(Pending(s, field)) /\ Cardinality(Pending(s, field)) \in Nat
<1>1. Pending(s, field) \in SUBSET Callers
  BY DEF Pending
<1> QED
  BY <1>1, CallersAssumption, FS_Subset, FS_CardinalityType

\* What a change of note[c] from nothing to one notification, or back, does to
\* the numbers of notifications pending.
LEMMA PendingGrows ==
  ASSUME TypeOK, NEW c \in Callers, NEW n \in Notes,
         note[c] = {}, note' = [note EXCEPT ![c] = {n}], NEW s, NEW field \in {"from", "to"}
  PROVE  Cardinality(Pending(s, field)') =
           Cardinality(Pending(s, field)) + (IF n[field] = s THEN 1 ELSE 0)
<1>1. note'[c] = {n} /\ \A d \in Callers \ {c} : note'[d] = note[d]
  BY DEF TypeOK
<1>2. c \notin Pending(s, field)
  BY DEF Pending
<1>3. CASE n[field] = s
  <2>1. Pending(s, field)' = Pending(s, field) \cup {c}
    BY <1>1, <1>3 DEF Pending
  <2> QED
    BY <1>2, <1>3, <2>1, PendingFinite, FS_AddElement
<1>4. CASE n[field] # s
  <2>1. Pending(s, field)' = Pending(s, field)
    BY <1>1, <1>4 DEF Pending
  <2> QED
    BY <1>4, <2>1, PendingFinite
<1> QED
  BY <1>3, <1>4

LEMMA PendingShrinks ==
  ASSUME TypeOK, NEW c \in Callers, NEW n \in Notes,
         note[c] = {n}, note' = [note EXCEPT ![c] = {}], NEW s, NEW field \in {"from", "to"}
  PROVE  Cardinality(Pending(s, field)') =
           Cardinality(Pending(s, field)) - (IF n[field] = s THEN 1 ELSE 0)
<1>1. note'[c] = {} /\ \A d \in Callers \ {c} : note'[d] = note[d]
  BY DEF TypeOK
<1>2. CASE n[field] = s
  <2>1. Pending(s, field)' = Pending(s, field) \ {c} /\ c \in Pending(s, field)
    BY <1>1, <1>2 DEF Pending
  <2> QED
    BY <1>2, <2>1, PendingFinite, FS_RemoveElement
<1>3. CASE n[field] # s
  <2>1. Pending(s, field)' = Pending(s, field)
    BY <1>1, <1>3 DEF Pending
  <2> QED
    BY <1>3, <2>1, PendingFinite
<1> QED
  BY <1>2, <1>3

LEMMA Owe ==
  ASSUME TypeOK, OwesOne, NotificationsBalance, NEW c \in Callers, note[c] = {},
         NEW next \in States, SetState(c, next), observed' = observed
  PROVE  OwesOne' /\ NotificationsBalance'
<1>1. CASE next = state
  <2>1. note' = note /\ state' = state
    BY <1>1 DEF SetState, TypeOK
  <2> QED
    BY <2>1 DEF OwesOne, NotificationsBalance, Pending
<1>2. CASE next # state
  <2> DEFINE n == [from |-> state, to |-> next]
  <2>1. n \in Notes /\ n.from = state /\ n.to = next
    BY DEF Notes, TypeOK
  <2>2. note' = [note EXCEPT ![c] = {n}] /\ state' = next
    BY <1>2 DEF SetState
  <2> HIDE DEF n
  <2>3. OwesOne'
    BY <1>2, <2>1, <2>2 DEF OwesOne, TypeOK
  <2>4. ASSUME NEW s \in States
        PROVE  observed'[s] + Cardinality(Pending(s, "to")')
                   - Cardinality(Pending(s, "from")') = IF s = state' THEN 1 ELSE 0
    <3>1. /\ Cardinality(Pending(s, "to")')
              = Cardinality(Pending(s, "to")) + (IF next = s THEN 1 ELSE 0)
          /\ Cardinality(Pending(s, "from")')
              = Cardinality(Pending(s, "from")) + (IF state = s THEN 1 ELSE 0)
      BY <2>1, <2>2, PendingGrows
    <3>2. /\ Cardinality(Pending(s, "to")) \in Nat
          /\ Cardinality(Pending(s, "from")) \in Nat
          /\ observed[s] \in Int
      BY PendingFinite DEF TypeOK
    <3> QED
      BY <1>2, <2>2, <3>1, <3>2 DEF NotificationsBalance
  <2> QED
    BY <2>3, <2>4 DEF NotificationsBalance
<1> QED
  BY <1>1, <1>2

LEMMA Delivers ==
  ASSUME TypeOK, OwesOne, NotificationsBalance, NEW c \in Callers, Notify(c)
  PROVE  OwesOne' /\ NotificationsBalance'
<1>1. PICK n \in Notes : n.from # n.to /\ note[c] = {n}
  BY DEF OwesOne, Notify
<1>2. /\ note' = [note EXCEPT ![c] = {}] /\ state' = state
      /\ observed' = [observed EXCEPT ![n.from] = @ - 1, ![n.to] = @ + 1]
  BY <1>1 DEF Notify
<1>3. OwesOne'
  BY <1>2 DEF OwesOne, TypeOK
<1>4. ASSUME NEW s \in States
      PROVE  observed'[s] + Cardinality(Pending(s, "to")')
                 - Cardinality(Pending(s, "from")') = IF s = state' THEN 1 ELSE 0
  <2>1. /\ Cardinality(Pending(s, "to")')
            = Cardinality(Pending(s, "to")) - (IF n.to = s THEN 1 ELSE 0)
        /\ Cardinality(Pending(s, "from")')
            = Cardinality(Pending(s, "from")) - (IF n.from = s THEN 1 ELSE 0)
    BY <1>1, <1>2, PendingShrinks
  <2>2. /\ Cardinality(Pending(s, "to")) \in Nat
        /\ Cardinality(Pending(s, "from")) \in Nat
        /\ observed[s] \in Int
    BY PendingFinite DEF TypeOK
  <2>3. observed'[s] = observed[s] - (IF n.from = s THEN 1 ELSE 0)
                                   + (IF n.to = s THEN 1 ELSE 0)
    BY <1>1, <1>2 DEF TypeOK
  <2> QED
    BY <1>2, <2>1, <2>2, <2>3 DEF NotificationsBalance
<1> QED
  BY <1>3, <1>4 DEF NotificationsBalance

\* Delivered late, in any order, by any number of goroutines: the notifications
\* delivered and those owed lead from Closed to the present state.
THEOREM Notifications == Spec => []NotificationsBalance
<1>1. Init => OwesOne /\ NotificationsBalance
  <2> SUFFICES ASSUME Init PROVE OwesOne /\ NotificationsBalance
    OBVIOUS
  <2>1. \A s, field : Pending(s, field) = {}
    BY DEF Init, Pending
  <2>2. \A s, field : Cardinality(Pending(s, field)) = 0
    BY <2>1, FS_EmptySet
  <2> QED
    BY <2>2 DEF Init, OwesOne, NotificationsBalance
<1>2. TypeOK /\ OwesOne /\ NotificationsBalance /\ [Next]_vars
        => (OwesOne /\ NotificationsBalance)'
  <2> SUFFICES ASSUME TypeOK, OwesOne, NotificationsBalance, [Next]_vars
               PROVE  OwesOne' /\ NotificationsBalance'
    OBVIOUS
  <2>1. ASSUME UNCHANGED <<state, note, observed>>
        PROVE  OwesOne' /\ NotificationsBalance'
    BY <2>1 DEF OwesOne, NotificationsBalance, Pending
  <2>2. StateAt(age) \in States /\ \A c \in Callers : StateAt(seen[c]) \in States
    BY DEF StateAt, States, TypeOK
  <2>3. ASSUME NEW c \in Callers, Allow(c) \/ ReadState(c)
        PROVE  OwesOne' /\ NotificationsBalance'
    <3>1. CASE Allow(c)
      BY <2>2, <3>1, Owe DEF Allow, At
    <3>2. CASE ReadState(c)
      BY <2>2, <3>2, Owe DEF ReadState, At
    <3> QED
      BY <2>3, <3>1, <3>2
  <2>4. ASSUME NEW c \in Callers, RecordOk(c) PROVE OwesOne' /\ NotificationsBalance'
    BY <2>4, Owe DEF RecordOk, Ends, At, States
  <2>5. ASSUME NEW c \in Callers, RecordFailure(c) PROVE OwesOne' /\ NotificationsBalance'
    <3>1. note[c] = {} /\ observed' = observed
      BY <2>5 DEF RecordFailure, Ends, At
    <3>2. CASE Trip(c)
      BY <3>1, <3>2, Owe DEF Trip, States
    <3>3. CASE ~Trip(c)
      BY <2>1, <2>5, <3>1, <3>3 DEF RecordFailure
    <3> QED
      BY <3>2, <3>3
  <2>6. ASSUME NEW c \in Callers,
               \/ Arrive(c) \/ RecordCancelled(c) \/ RecordIgnored(c) \/ Panic(c)
        PROVE  UNCHANGED <<state, note, observed>>
    BY <2>6 DEF Arrive, RecordCancelled, RecordIgnored, ReleaseProbe, Panic, Ends
  <2> QED
    BY <2>1, <2>3, <2>4, <2>5, <2>6, Delivers DEF Next, Record, Tick, vars
<1> QED
  BY <1>1, <1>2, TypeCorrect, PTL DEF Spec

=============================================================================
