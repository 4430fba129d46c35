---------------------------- MODULE HealthProofs ----------------------------
(***************************************************************************)
(* Theorem about the health endpoints: for any requests, any checks in any *)
(* order and any collector, what a request is told is justified.           *)
(***************************************************************************)
EXTENDS Health, SequenceTheorems, FiniteSetTheorems, TLAPS

Phases == {"idle", "first", "first_evaluated", "rest", "rest_evaluated"}
Evaluated == {"first_evaluated", "rest_evaluated"}

\* The rounds there can be.
Rounds ==
  [phase : Phases, kind : Kinds, pending : Seq(Names), pass : BOOLEAN, result : BOOLEAN,
   gone : BOOLEAN, unseen : SUBSET Names, excused : BOOLEAN]

Types ==
  /\ endpoint \in BOOLEAN
  /\ registry \subseteq Checks
  /\ up \in [Names -> BOOLEAN]
  /\ round \in [Requests -> Rounds]

\* What a round knows is what its time allows.  It runs the checks it covers;
\* those it owes and has not seen up are down now; with all of them up ever
\* since it began nothing excuses a failure.
Covered(s) ==
  /\ Range(s.pending) \subseteq About(s.kind, Checks)
  /\ \A n \in s.unseen : ~up[n] /\ n \in About(s.kind, registry)
  /\ ~s.excused => \A n \in About(s.kind, Checks) : up[n]

\* A result is one of a check that has run, and a failure has its excuse.
Results(s) ==
  /\ s.phase \in Evaluated => s.pending # <<>> /\ (s.result => Head(s.pending) \notin s.unseen)
  /\ s.phase \notin Evaluated => s.result
  /\ ~(s.pass /\ s.result) => s.gone \/ s.excused

\* What has passed so far leaves unseen only what is still to run.
Owed(s) ==
  s.pass /\ s.result =>
    s.unseen \subseteq Range(s.pending) \cup
                       (IF s.phase \in {"first", "first_evaluated"} THEN registry ELSE {})

Warranted(s) == s.phase # "idle" => Covered(s) /\ Results(s) /\ Owed(s)
IInv == Types /\ \A r \in Requests : Warranted(round[r])

-----------------------------------------------------------------------------
(* Sequences and what is in them.                                          *)

LEMMA Ranges ==
  ASSUME NEW S, NEW p \in Seq(S), p # <<>>
  PROVE  /\ Head(p) \in Range(p) /\ Head(p) \in S /\ Tail(p) \in Seq(S)
         /\ Range(Tail(p)) \subseteq Range(p)
         /\ Range(p) \subseteq Range(Tail(p)) \cup {Head(p)}
<1>1. Len(p) \in Nat \ {0} /\ Head(p) = p[1] /\ p[1] \in S
  BY EmptySeq
<1>2. /\ Tail(p) \in Seq(S) /\ Len(Tail(p)) = Len(p) - 1
      /\ \A i \in 1..Len(Tail(p)) : Tail(p)[i] = p[i + 1]
  BY HeadTailProperties
<1>3. ASSUME NEW i \in DOMAIN p PROVE p[i] \in Range(Tail(p)) \cup {Head(p)}
  <2>1. CASE i = 1
    BY <1>1, <2>1
  <2>2. CASE i # 1
    <3>1. i - 1 \in 1..Len(Tail(p)) /\ (i - 1) + 1 = i
      BY <1>1, <1>2, <2>2
    <3>2. Tail(p)[i - 1] = p[i] /\ i - 1 \in DOMAIN Tail(p)
      BY <1>2, <3>1
    <3> QED
      BY <3>2 DEF Range
  <2> QED
    BY <2>1, <2>2
<1>4. ASSUME NEW i \in DOMAIN Tail(p) PROVE Tail(p)[i] \in Range(p)
  <2>1. i \in 1..Len(Tail(p)) /\ i + 1 \in DOMAIN p
    BY <1>1, <1>2
  <2> QED
    BY <1>2, <2>1 DEF Range
<1>5. p[1] \in Range(p)
  BY <1>1 DEF Range
<1> QED
  BY <1>1, <1>2, <1>3, <1>4, <1>5 DEF Range

LEMMA Short ==
  /\ Range(<<>>) = {} /\ <<>> \in Seq(Names)
  /\ Range(<<Collector>>) = {Collector} /\ <<Collector>> \in Seq(Names)
<1>1. Collector \in Names
  BY DEF Names
<1>2. <<>> \in Seq(Names) /\ <<Collector>> \in Seq(Names)
  BY <1>1
<1>3. Range(<<>>) = {} /\ Range(<<Collector>>) = {Collector}
  BY DEF Range
<1> QED
  BY <1>2, <1>3

\* The names of a set of checks.
LEMMA SortedNames ==
  ASSUME registry \subseteq Checks, NEW s \in Sorted(registry)
  PROVE  s \in Seq(Names) /\ Range(s) = registry
<1>1. IsFiniteSet(Checks)
  <2>1. DOMAIN Order = 1..Len(Order) /\ Len(Order) \in Nat
    BY OrderAssumption
  <2>2. IsFiniteSet(DOMAIN Order)
    BY <2>1, FS_Interval
  <2>3. Order \in Surjection(DOMAIN Order, Checks)
    BY <2>1, OrderAssumption DEF Surjection, Checks, Range
  <2> QED
    BY <2>2, <2>3, FS_Surjection
<1>2. Cardinality(registry) \in Nat
  BY <1>1, FS_Subset, FS_CardinalityType
<1>3. s \in [1..Cardinality(registry) -> registry] /\ Range(s) = registry
  BY DEF Sorted
<1>4. registry \subseteq Names
  BY DEF Names
<1>5. s \in [1..Cardinality(registry) -> Names]
  BY <1>3, <1>4
<1> QED
  BY <1>2, <1>3, <1>5

-----------------------------------------------------------------------------
(* The steps.                                                              *)

\* A step of one round.
LEMMA OneRound ==
  ASSUME IInv, NEW r \in Requests, UNCHANGED <<endpoint, registry, up>>,
         NEW s \in Rounds, round' = [round EXCEPT ![r] = s], Warranted(s)
  PROVE  IInv'
<1>1. Types'
  BY DEF IInv, Types, Names, Checks
<1>2. ASSUME NEW q \in Requests PROVE Warranted(round[q])'
  <2>1. round'[q] = IF q = r THEN s ELSE round[q]
    BY DEF IInv, Types
  <2>2. Warranted(round'[q])
    BY <2>1 DEF IInv
  <2> QED
    BY <2>2 DEF Warranted, Covered, Results, Owed, About
<1> QED
  BY <1>1, <1>2 DEF IInv

LEMMA Warrants ==
  ASSUME IInv, NEW r \in Requests
  PROVE  /\ round[r] \in Rounds /\ Warranted(round[r])
         /\ endpoint \in BOOLEAN /\ registry \subseteq Checks /\ up \in [Names -> BOOLEAN]
         /\ round \in [Requests -> Rounds]
  BY DEF IInv, Types

LEMMA IdleRound == Idle \in Rounds /\ Warranted(Idle)
<1>1. Idle \in Rounds
  BY Short DEF Idle, Rounds, Phases, Kinds
<1>2. Idle.phase = "idle"
  BY DEF Idle
<1> QED
  BY <1>1, <1>2 DEF Warranted

LEMMA BeginStep ==
  ASSUME IInv, NEW r \in Requests, NEW kind \in Kinds, Begin(r, kind)
  PROVE  IInv'
<1> DEFINE s == [Idle EXCEPT !.phase = "first", !.kind = kind, !.pending = First(kind),
                             !.unseen = {n \in About(kind, registry) : ~up[n]},
                             !.excused = \E n \in About(kind, Checks) : ~up[n]]
<1>1. endpoint \in BOOLEAN /\ registry \subseteq Checks
  BY Warrants
<1>2. /\ About(kind, registry) \subseteq About(kind, Checks) /\ About(kind, Checks) \subseteq Names
      /\ About(kind, registry) \subseteq registry \cup Range(First(kind))
      /\ Range(First(kind)) \subseteq About(kind, Checks) /\ First(kind) \in Seq(Names)
  BY <1>1, Short DEF About, First, Names
<1>3. (\E n \in About(kind, Checks) : ~up[n]) \in BOOLEAN
  OBVIOUS
<1>4. /\ s \in Rounds /\ s.phase = "first" /\ s.kind = kind /\ s.pending = First(kind)
      /\ s.pass = TRUE /\ s.result = TRUE /\ s.gone = FALSE
      /\ s.unseen = {n \in About(kind, registry) : ~up[n]}
      /\ s.excused = (\E n \in About(kind, Checks) : ~up[n])
  <2> DEFINE u == {n \in About(kind, registry) : ~up[n]}
             e == \E n \in About(kind, Checks) : ~up[n]
             p == First(kind)
  <2>1. u \in SUBSET Names /\ p \in Seq(Names)
    BY <1>2
  <2>2. e \in BOOLEAN
    OBVIOUS
  <2>3. Idle \in Rounds /\ Idle.pass = TRUE /\ Idle.result = TRUE /\ Idle.gone = FALSE
    BY IdleRound DEF Idle
  <2> HIDE DEF u, e, p
  <2>4. s \in Rounds
    BY <2>1, <2>2, <2>3 DEF Rounds, Phases, u, e, p
  <2>5. /\ s.phase = "first" /\ s.kind = kind /\ s.pending = p /\ s.pass = TRUE /\ s.result = TRUE
        /\ s.gone = FALSE /\ s.unseen = u /\ s.excused = e
    BY <2>3 DEF Rounds, u, e, p
  <2> QED
    BY <2>4, <2>5 DEF u, e, p
<1>5. round' = [round EXCEPT ![r] = s] /\ UNCHANGED <<endpoint, registry, up>>
  BY DEF Begin
<1> HIDE DEF s
<1>6. Warranted(s)
  BY <1>2, <1>4 DEF Warranted, Covered, Results, Owed, Evaluated
<1> QED
  BY <1>4, <1>5, <1>6, OneRound

LEMMA SnapshotStep ==
  ASSUME IInv, NEW r \in Requests, Snapshot(r)
  PROVE  IInv'
<1>1. PICK names \in Sorted(registry) :
        round' = [round EXCEPT ![r].phase = "rest", ![r].pending = names]
  BY DEF Snapshot
<1> DEFINE t == round[r]
           s == [t EXCEPT !.phase = "rest", !.pending = names]
<1>2. t \in Rounds /\ Warranted(t) /\ registry \subseteq Checks /\ round \in [Requests -> Rounds]
  BY Warrants
<1>3. t.phase = "first" /\ t.pending = <<>> /\ UNCHANGED <<endpoint, registry, up>>
  BY DEF Snapshot
<1>4. names \in Seq(Names) /\ Range(names) = registry
  BY <1>2, SortedNames
<1>5. /\ s \in Rounds /\ s.phase = "rest" /\ s.kind = t.kind /\ s.pending = names /\ s.pass = t.pass
      /\ s.result = t.result /\ s.gone = t.gone /\ s.unseen = t.unseen /\ s.excused = t.excused
  BY <1>2, <1>4 DEF Rounds, Phases
<1>6. round' = [round EXCEPT ![r] = s]
  BY <1>1, <1>2 DEF Rounds
<1> HIDE DEF s, t
<1>7. Warranted(s)
  BY <1>2, <1>3, <1>4, <1>5, Short DEF Warranted, Covered, Results, Owed, Evaluated, About
<1> QED
  BY <1>3, <1>5, <1>6, <1>7, OneRound

\* A check that answers is up, and one that does not is down or its client gone.
LEMMA EvaluateStep ==
  ASSUME IInv, NEW r \in Requests, Evaluate(r)
  PROVE  IInv'
<1> DEFINE t == round[r]
<1>1. PICK ignoresContext \in BOOLEAN :
        round' = [round EXCEPT
          ![r].phase = IF @ = "first" THEN "first_evaluated" ELSE "rest_evaluated",
          ![r].result = up[Head(t.pending)] /\ (t.gone => ignoresContext)]
  BY DEF Evaluate
<1> DEFINE phase == IF t.phase = "first" THEN "first_evaluated" ELSE "rest_evaluated"
           result == up[Head(t.pending)] /\ (t.gone => ignoresContext)
           s == [t EXCEPT !.phase = phase, !.result = result]
<1>2. /\ t \in Rounds /\ Warranted(t) /\ round \in [Requests -> Rounds] /\ up \in [Names -> BOOLEAN]
  BY Warrants
<1>3. t.phase \in {"first", "rest"} /\ t.pending # <<>> /\ UNCHANGED <<endpoint, registry, up>>
  BY DEF Evaluate
<1>4. Head(t.pending) \in Range(t.pending) /\ Head(t.pending) \in Names
  <2>1. t.pending \in Seq(Names)
    BY <1>2 DEF Rounds
  <2> QED
    BY <1>3, <2>1, Ranges
<1>5. result \in BOOLEAN
  BY <1>2, <1>4, Zenon DEF Rounds
<1>6. /\ phase \in {"first_evaluated", "rest_evaluated"} /\ (phase = "first_evaluated" <=> t.phase = "first")
      /\ result => up[Head(t.pending)]
      /\ ~result => ~up[Head(t.pending)] \/ t.gone
  BY <1>3
<1>7. round' = [round EXCEPT ![r] = s]
  BY <1>1, <1>2 DEF Rounds
<1> HIDE DEF phase, result
<1>8. /\ s \in Rounds /\ s.phase = phase /\ s.kind = t.kind /\ s.pending = t.pending /\ s.pass = t.pass
      /\ s.result = result /\ s.gone = t.gone /\ s.unseen = t.unseen /\ s.excused = t.excused
  BY <1>2, <1>5, <1>6 DEF Rounds, Phases
<1> HIDE DEF s, t
<1>9. Covered(t) /\ Results(t) /\ Owed(t)
  BY <1>2, <1>3 DEF Warranted
<1>10. Covered(s)
  BY <1>8, <1>9 DEF Covered
<1>11. Results(s)
  <2>1. t.result
    BY <1>3, <1>9 DEF Results, Evaluated
  <2>2. result => Head(t.pending) \notin t.unseen
    BY <1>6, <1>9 DEF Covered
  <2>3. ~result => t.gone \/ t.excused
    BY <1>4, <1>6, <1>9 DEF Covered
  <2>4. ~t.pass => t.gone \/ t.excused
    BY <1>9 DEF Results
  <2> QED
    BY <1>3, <1>6, <1>8, <2>1, <2>2, <2>3, <2>4 DEF Results, Evaluated
<1>12. Owed(s)
  BY <1>3, <1>6, <1>8, <1>9 DEF Owed, Results, Evaluated
<1> QED
  BY <1>3, <1>7, <1>8, <1>10, <1>11, <1>12, OneRound DEF Warranted

\* A check that passed is no longer owed.
LEMMA RecordStep ==
  ASSUME IInv, NEW r \in Requests, Record(r)
  PROVE  IInv'
<1> DEFINE t == round[r]
           phase == IF t.phase = "first_evaluated" THEN "first" ELSE "rest"
           pass == t.pass /\ t.result
           s == [t EXCEPT !.phase = phase, !.pending = Tail(@), !.pass = pass, !.result = TRUE]
<1>1. /\ t \in Rounds /\ Warranted(t) /\ round \in [Requests -> Rounds]
  BY Warrants
<1>2. /\ t.phase \in Evaluated /\ UNCHANGED <<endpoint, registry, up>> /\ round' = Recorded(r)
  BY DEF Record, Evaluated
<1>3. Covered(t) /\ Results(t) /\ Owed(t)
  BY <1>1, <1>2 DEF Warranted, Evaluated
<1>4. round' = [round EXCEPT ![r] = s]
  BY <1>1, <1>2 DEF Recorded, Rounds
<1>5. /\ t.pending # <<>> /\ t.pending \in Seq(Names)
      /\ t.result => Head(t.pending) \notin t.unseen
  BY <1>1, <1>2, <1>3 DEF Results, Rounds
<1>6. /\ Tail(t.pending) \in Seq(Names) /\ Range(Tail(t.pending)) \subseteq Range(t.pending)
      /\ Range(t.pending) \subseteq Range(Tail(t.pending)) \cup {Head(t.pending)}
  BY <1>5, Ranges
<1>7. pass \in BOOLEAN
  BY <1>1, Zenon DEF Rounds
<1>8. /\ phase \in {"first", "rest"} /\ (phase = "first" <=> t.phase = "first_evaluated")
      /\ pass <=> t.pass /\ t.result
  OBVIOUS
<1> HIDE DEF phase, pass
<1>9. /\ s \in Rounds /\ s.phase = phase /\ s.kind = t.kind /\ s.pending = Tail(t.pending) /\ s.pass = pass
      /\ s.result = TRUE /\ s.gone = t.gone /\ s.unseen = t.unseen /\ s.excused = t.excused
  BY <1>1, <1>6, <1>7, <1>8 DEF Rounds, Phases
<1> HIDE DEF s, t
<1>10. Covered(s)
  BY <1>3, <1>6, <1>9 DEF Covered
<1>11. Results(s)
  BY <1>3, <1>8, <1>9 DEF Results, Evaluated
<1>12. Owed(s)
  BY <1>2, <1>3, <1>5, <1>6, <1>8, <1>9 DEF Owed, Evaluated
<1> QED
  BY <1>2, <1>4, <1>9, <1>10, <1>11, <1>12, OneRound DEF Warranted

LEMMA OverStep ==
  ASSUME IInv, NEW r \in Requests, CheckPanics(r) \/ Aggregate(r)
  PROVE  IInv'
<1>1. round' = [round EXCEPT ![r] = Idle] /\ UNCHANGED <<endpoint, registry, up>>
  BY DEF CheckPanics, Aggregate
<1> QED
  BY <1>1, IdleRound, OneRound

LEMMA HangUpStep ==
  ASSUME IInv, NEW r \in Requests, HangUp(r)
  PROVE  IInv'
<1> DEFINE t == round[r]
           s == [t EXCEPT !.gone = TRUE]
<1>1. t \in Rounds /\ Warranted(t) /\ round \in [Requests -> Rounds]
  BY Warrants
<1>2. round' = [round EXCEPT ![r] = s] /\ UNCHANGED <<endpoint, registry, up>>
  BY <1>1 DEF HangUp
<1>3. /\ s \in Rounds /\ s.phase = t.phase /\ s.kind = t.kind /\ s.pending = t.pending /\ s.pass = t.pass
      /\ s.result = t.result /\ s.gone = TRUE /\ s.unseen = t.unseen /\ s.excused = t.excused
  BY <1>1 DEF Rounds
<1> HIDE DEF s, t
<1>4. Warranted(s)
  BY <1>1, <1>3 DEF Warranted, Covered, Results, Owed
<1> QED
  BY <1>2, <1>3, <1>4, OneRound

LEMMA RegisterStep ==
  ASSUME IInv, NEW c \in Checks, HealthRegister(c)
  PROVE  IInv'
<1>1. registry' = registry \cup {c} /\ UNCHANGED <<endpoint, up, round>>
  BY DEF HealthRegister
<1>2. Types'
  BY <1>1 DEF IInv, Types
<1>3. ASSUME NEW q \in Requests PROVE Warranted(round[q])'
  <2>1. Warranted(round[q])
    BY DEF IInv
  <2> QED
    BY <1>1, <2>1 DEF Warranted, Covered, Results, Owed, About
<1> QED
  BY <1>2, <1>3 DEF IInv

\* A check that comes up is seen; one that goes down excuses the rounds it may
\* concern.
LEMMA FlipStep ==
  ASSUME IInv, NEW n \in Names, Flip(n)
  PROVE  IInv'
<1>1. /\ up' = [up EXCEPT ![n] = ~@] /\ UNCHANGED <<endpoint, registry>>
      /\ up \in [Names -> BOOLEAN] /\ round \in [Requests -> Rounds]
  BY DEF Flip, IInv, Types
<1>2. up' \in [Names -> BOOLEAN] /\ (\A m \in Names \ {n} : up'[m] = up[m])
  BY <1>1
<1>3. ASSUME NEW q \in Requests
      PROVE  round'[q] \in Rounds /\ Warranted(round[q])'
  <2> DEFINE t == round[q]
             unseen == IF up'[n] THEN t.unseen \ {n} ELSE t.unseen
             excused == t.excused \/ (~up'[n] /\ n \in About(t.kind, Checks))
             s == [t EXCEPT !.unseen = unseen, !.excused = excused]
  <2>1. t \in Rounds /\ Warranted(t)
    BY Warrants
  <2>2. round'[q] = IF t.phase = "idle" THEN t ELSE s
    BY DEF Flip
  <2>3. CASE t.phase = "idle"
    BY <2>1, <2>2, <2>3 DEF Warranted
  <2>4. CASE t.phase # "idle"
    <3>1. unseen \in SUBSET Names
      BY <2>1 DEF Rounds
    <3>2. excused \in BOOLEAN
      BY <2>1, Zenon DEF Rounds
    <3>3. /\ unseen \subseteq t.unseen /\ (up'[n] => n \notin unseen)
          /\ excused <=> t.excused \/ (~up'[n] /\ n \in About(t.kind, Checks))
      OBVIOUS
    <3>4. round'[q] = s
      BY <2>2, <2>4
    <3> HIDE DEF unseen, excused
    <3>5. /\ s \in Rounds /\ s.phase = t.phase /\ s.kind = t.kind /\ s.pending = t.pending /\ s.pass = t.pass
          /\ s.result = t.result /\ s.gone = t.gone /\ s.unseen = unseen /\ s.excused = excused
      BY <2>1, <3>1, <3>2 DEF Rounds
    <3>6. \A k : About(k, Checks)' = About(k, Checks) /\ About(k, registry)' = About(k, registry)
      BY <1>1 DEF About
    <3>7. Covered(t) /\ Results(t) /\ Owed(t) /\ t.kind \in Kinds /\ t.unseen \subseteq Names
      BY <2>1, <2>4 DEF Warranted, Rounds
    <3>8. \A k : About(k, Checks) \subseteq Names
      BY DEF About, Names
    <3> HIDE DEF s, t
    <3>9. /\ Range(s.pending) \subseteq About(s.kind, Checks)
          /\ \A m \in s.unseen : ~up'[m] /\ m \in About(s.kind, registry)
          /\ ~s.excused => \A m \in About(s.kind, Checks) : up'[m]
      <4>1. ASSUME NEW m \in s.unseen PROVE ~up'[m] /\ m \in About(s.kind, registry)
        <5>1. m \in t.unseen /\ m \in Names
          BY <3>3, <3>5, <3>7
        <5>2. ~up[m] /\ m \in About(t.kind, registry)
          BY <3>7, <5>1 DEF Covered
        <5> QED
          BY <1>2, <3>3, <3>5, <5>1, <5>2
      <4>2. ASSUME ~s.excused, NEW m \in About(s.kind, Checks) PROVE up'[m]
        <5>1. ~t.excused /\ (up'[n] \/ n \notin About(t.kind, Checks)) /\ m \in Names
          BY <3>3, <3>5, <3>8, <4>2
        <5>2. up[m]
          BY <3>5, <3>7, <5>1 DEF Covered
        <5> QED
          BY <1>2, <3>5, <5>1, <5>2
      <4> QED
        BY <3>5, <3>7, <4>1, <4>2 DEF Covered
    <3>10. Results(s) /\ Owed(s)
      BY <3>3, <3>5, <3>7 DEF Results, Owed
    <3>11. registry' = registry
      BY <1>1
    <3> QED
      BY <3>4, <3>5, <3>6, <3>9, <3>10, <3>11 DEF Warranted, Covered, Results, Owed
  <2> QED
    BY <2>3, <2>4
<1>4. round' \in [Requests -> Rounds]
  BY <1>3 DEF Flip
<1> QED
  BY <1>1, <1>2, <1>3, <1>4 DEF IInv, Types

-----------------------------------------------------------------------------

\* What a round in progress knows is what its time allows.
THEOREM Safety == Spec => []IInv
<1>1. Init => IInv
  BY IdleRound DEF Init, IInv, Types, Names
<1>2. ASSUME IInv, [Next]_vars PROVE IInv'
  <2>1. CASE \E c \in Checks : HealthRegister(c)
    BY <1>2, <2>1, RegisterStep
  <2>2. CASE \E n \in Names : Flip(n)
    BY <1>2, <2>2, FlipStep
  <2>3. ASSUME NEW r \in Requests, HangUp(r) PROVE IInv'
    BY <1>2, <2>3, HangUpStep
  <2>4. ASSUME NEW r \in Requests, NEW k \in Kinds, Begin(r, k) PROVE IInv'
    BY <1>2, <2>4, BeginStep
  <2>5. ASSUME NEW r \in Requests, Proceed(r) PROVE IInv'
    BY <1>2, <2>5, SnapshotStep, EvaluateStep, RecordStep, OverStep DEF Proceed
  <2>6. ASSUME NEW r \in Requests, CheckPanics(r) PROVE IInv'
    BY <1>2, <2>6, OverStep
  <2>7. CASE UNCHANGED vars
    <3>1. UNCHANGED <<endpoint, registry, up, round>>
      BY <2>7 DEF vars
    <3>2. Types'
      BY <1>2, <3>1 DEF IInv, Types
    <3>3. ASSUME NEW q \in Requests PROVE Warranted(round[q])'
      <4>1. Warranted(round[q])
        BY <1>2 DEF IInv
      <4> QED
        BY <3>1, <4>1 DEF Warranted, Covered, Results, Owed, About
    <3> QED
      BY <3>2, <3>3 DEF IInv
  <2> QED
    BY <1>2, <2>1, <2>2, <2>3, <2>4, <2>5, <2>6, <2>7 DEF Next
<1> QED
  BY <1>1, <1>2, PTL DEF Spec

\* What a request is told can be told from its own time: a failure only if a
\* check it covers was down or its client gone at some moment of it, a success
\* only if every check it owes was up at some moment of it.
THEOREM Answers == Spec => Justified
<1> DEFINE Told(r) == IF round[r].pass THEN round[r].unseen = {} ELSE round[r].gone \/ round[r].excused
<1>1. ASSUME IInv, NEW r \in Requests, Aggregate(r) PROVE Told(r)
  <2>1. /\ round[r].phase = "rest" /\ round[r].pending = <<>>
    BY <1>1 DEF Aggregate
  <2>2. Covered(round[r]) /\ Results(round[r]) /\ Owed(round[r])
    BY <1>1, <2>1 DEF IInv, Warranted
  <2>3. round[r].result
    BY <2>1, <2>2 DEF Results, Evaluated
  <2>4. CASE round[r].pass
    BY <2>1, <2>2, <2>3, <2>4, Short DEF Owed
  <2>5. CASE ~round[r].pass
    BY <2>2, <2>5 DEF Results
  <2> QED
    BY <2>4, <2>5
<1>2. IInv => [\A r \in Requests : Aggregate(r) => Told(r)]_vars
  BY <1>1
<1> QED
  BY <1>2, Safety, PTL DEF Justified
=============================================================================
