---------------------------- MODULE TelemetryProofs ----------------------------
(***************************************************************************)
(* Theorems about the life of a Telemetry instance and its error handler,  *)
(* for any signals in any order, any number of goroutines that call Close, *)
(* and any finite number of errors.                                        *)
(***************************************************************************)
EXTENDS Telemetry, FiniteSetTheorems, NaturalsInduction, WellFoundedInduction, TLAPS

\* What the steps of the providers can and cannot change, and nothing more
\* than the proofs need of the types.
Shape ==
  /\ state \in [Providers -> {"absent", "up", "flushing", "stopping", "down"}]
  /\ failed \in [Providers -> BOOLEAN]
  /\ pc \in [Callers -> {"idle", "lead", "wait", "over"}]
  /\ phase # "ready" => once = "free"
  /\ once = "free" => \A p \in Providers : state[p] \in {"absent", "up"}

\* The answers that are out, and that they are the one outcome.
Answers ==
  /\ answer = [c \in Callers |-> IF pc[c] = "over" THEN shutdownErr ELSE Unsettled]
  /\ \A c \in Callers : pc[c] = "over" => once = "done"

IInv == Shape /\ Answers

LEMMA SameNames == \A f : S!Named(f) = Named(f)
  BY Zenon DEF S!Named, Named

\* Shape is preserved by itself.
LEMMA ShapeStep == ASSUME Shape, [Next]_vars PROVE Shape'
<1> USE DEF Shape
<1>1. CASE Build
  <2>1. once = "free" /\ once' = once /\ failed' = failed /\ pc' = pc
    BY <1>1 DEF Build
  <2>2. state' \in [Providers -> {"absent", "up"}]
    BY <2>1, <1>1 DEF Build
  <2> QED
    BY <2>1, <2>2
<1>2. CASE BuildFails
  BY <1>2 DEF BuildFails
<1>3. CASE Tick
  BY <1>3 DEF Tick, own
<1>4. ASSUME NEW p \in Providers, Emit(p) \/ Export(p) \/ WriteLine(p) \/ Deadline(p) PROVE Shape'
  BY <1>4 DEF Emit, Export, WriteLine, Deadline
<1>5. ASSUME NEW p \in Providers, ExportFails(p) PROVE Shape'
  BY <1>5 DEF ExportFails
<1>6. ASSUME NEW p \in Providers, NEW ok \in BOOLEAN, ForceFlush(p, ok) PROVE Shape'
  BY <1>6 DEF ForceFlush
<1>7. ASSUME NEW p \in Providers, NEW ok \in BOOLEAN, ShutterStep(p, ok) PROVE Shape'
  <2>1. once # "free" /\ UNCHANGED <<once, phase, pc>>
    BY <1>7 DEF ShutterStep
  <2>2. state' \in [Providers -> {"absent", "up", "flushing", "stopping", "down"}]
    BY <1>7 DEF ShutterStep
  <2>3. failed' \in [Providers -> BOOLEAN]
    BY <1>7 DEF ShutterStep, Joined
  <2> QED
    BY <2>1, <2>2, <2>3
<1>8. ASSUME NEW c \in Callers, Close(c) PROVE Shape'
  BY <1>8 DEF Close
<1>9. ASSUME NEW c \in Callers, Aggregate(c) \/ CloseReturns(c) PROVE Shape'
  BY <1>9 DEF Aggregate, CloseReturns
<1>10. CASE UNCHANGED vars
  BY <1>10 DEF vars, own
<1> QED
  BY <1>1, <1>2, <1>3, <1>4, <1>5, <1>6, <1>7, <1>8, <1>9, <1>10 DEF Next

\* Only Close, Aggregate and CloseReturns touch what the answers depend on.
LEMMA AnswersStep == ASSUME IInv, [Next]_vars PROVE Answers'
<1> USE DEF IInv, Shape, Answers
<1>1. ASSUME UNCHANGED <<once, shutdownErr, pc, answer>> PROVE Answers'
  BY <1>1
<1>2. ASSUME NEW c \in Callers, Close(c) PROVE Answers'
  BY <1>2 DEF Close
<1>3. ASSUME NEW c \in Callers, Aggregate(c) PROVE Answers'
  BY <1>3 DEF Aggregate
<1>4. ASSUME NEW c \in Callers, CloseReturns(c) PROVE Answers'
  BY <1>4 DEF CloseReturns
<1>5. ASSUME NEW p \in Providers, Emit(p) \/ Export(p) \/ WriteLine(p) \/ Deadline(p)
      PROVE  UNCHANGED <<once, shutdownErr, pc, answer>>
  BY <1>5 DEF Emit, Export, WriteLine, Deadline
<1>6. ASSUME NEW p \in Providers, ExportFails(p)
      PROVE  UNCHANGED <<once, shutdownErr, pc, answer>>
  BY <1>6 DEF ExportFails
<1>7. ASSUME NEW p \in Providers, NEW ok \in BOOLEAN, ForceFlush(p, ok) \/ ShutterStep(p, ok)
      PROVE  UNCHANGED <<once, shutdownErr, pc, answer>>
  BY <1>7 DEF ForceFlush, ShutterStep
<1> QED
  BY <1>1, <1>2, <1>3, <1>4, <1>5, <1>6, <1>7
     DEF Next, Build, BuildFails, Tick, vars, own

\* The inductive invariant holds in every reachable state.
THEOREM Safety == Spec => []IInv
<1>1. Init => IInv
  BY DEF Init, IInv, Shape, Answers
<1>2. IInv /\ [Next]_vars => IInv'
  BY ShapeStep, AnswersStep DEF IInv
<1> QED
  BY <1>1, <1>2, PTL DEF Spec

-----------------------------------------------------------------------------

\* The refinement mapping, by name.
Down == [p \in Providers |-> state[p] = "down"]
DownFailed == [p \in Providers |-> state[p] = "down" /\ failed[p]]
Settled == once = "done"

\* Close, with its goroutines, deadlines and once, is a Shutdown: all providers
\* are shut down, the errors settled once in the stable order, and every call
\* answers the same.
THEOREM Implementation == Spec => ImplementsShutdown
<1> USE DEF S!Init, S!Next, S!vars, Down, DownFailed, Settled
<1>1. Init => S!Init
  BY DEF Init
<1>2. IInv /\ [Next]_vars => [S!Next]_(S!vars)
  <2> SUFFICES ASSUME IInv, [Next]_vars PROVE [S!Next]_(S!vars)
    OBVIOUS
  <2> USE DEF IInv, Shape, Answers
  <2>1. ASSUME UNCHANGED <<state, failed, once, shutdownErr, answer>>
        PROVE  UNCHANGED S!vars
    BY <2>1
  <2>2. CASE Build
    <3>1. \A p \in Providers : state[p] # "down" /\ state'[p] # "down"
      BY <2>2 DEF Build
    <3> QED
      BY <2>2, <3>1 DEF Build
  <2>3. ASSUME NEW p \in Providers, NEW ok \in BOOLEAN, ShutterStep(p, ok) PROVE [S!Next]_(S!vars)
    <3>1. UNCHANGED <<once, shutdownErr, answer>>
      BY <2>3 DEF ShutterStep
    <3>2. failed' = [failed EXCEPT ![p] = @ \/ ~ok]
      BY <2>3 DEF ShutterStep, Joined
    <3>3. CASE state[p] = "flushing"
      <4>1. state' = [state EXCEPT ![p] = "stopping"]
        BY <2>3, <3>3 DEF ShutterStep
      <4>2. Down' = Down /\ DownFailed' = DownFailed
        BY <3>2, <3>3, <4>1
      <4> QED
        BY <3>1, <4>2
    <3>4. CASE state[p] = "stopping"
      <4>1. state' = [state EXCEPT ![p] = "down"]
        BY <2>3, <3>4 DEF ShutterStep
      <4>2. Down' = [Down EXCEPT ![p] = TRUE] /\ ~Down[p]
        BY <3>4, <4>1
      <4>3. failed'[p] \in BOOLEAN
        BY <3>2
      <4>4. DownFailed' = [DownFailed EXCEPT ![p] = failed'[p]]
        BY <3>2, <4>1, <4>3
      <4>5. S!ShutDown(p)
        BY <3>1, <4>2, <4>3, <4>4 DEF S!ShutDown
      <4> QED
        BY <4>5
    <3> QED
      BY <2>3, <3>3, <3>4 DEF ShutterStep
  <2>4. ASSUME NEW c \in Callers, Close(c) PROVE UNCHANGED S!vars
    <3>1. CASE once = "free"
      <4>1. \A p \in Providers : state[p] # "down" /\ state'[p] # "down"
        BY <2>4, <3>1 DEF Close
      <4> QED
        BY <2>4, <3>1, <4>1 DEF Close
    <3>2. CASE once # "free"
      BY <2>4, <3>2 DEF Close
    <3> QED
      BY <3>1, <3>2
  <2>5. ASSUME NEW c \in Callers, Aggregate(c) PROVE [S!Next]_(S!vars)
    <3>1. DownFailed = failed /\ \A p \in Providers : Down[p]
      BY <2>5 DEF Aggregate, AllDown
    <3>2. shutdownErr' = S!Named(DownFailed)
      BY <2>5, <3>1, SameNames DEF Aggregate
    <3>3. S!Settle
      BY <2>5, <3>1, <3>2 DEF Aggregate, S!Settle
    <3> QED
      BY <3>3
  <2>6. ASSUME NEW c \in Callers, CloseReturns(c) PROVE [S!Next]_(S!vars)
    <3>1. S!Return(c)
      BY <2>6 DEF CloseReturns, S!Return
    <3> QED
      BY <3>1
  <2>7. ASSUME NEW p \in Providers, Emit(p) \/ Export(p) \/ WriteLine(p) \/ Deadline(p)
        PROVE  UNCHANGED <<state, failed, once, shutdownErr, answer>>
    BY <2>7 DEF Emit, Export, WriteLine, Deadline
  <2>8. ASSUME NEW p \in Providers, ExportFails(p)
        PROVE  UNCHANGED <<state, failed, once, shutdownErr, answer>>
    BY <2>8 DEF ExportFails
  <2>9. ASSUME NEW p \in Providers, NEW ok \in BOOLEAN, ForceFlush(p, ok)
        PROVE  UNCHANGED <<state, failed, once, shutdownErr, answer>>
    BY <2>9 DEF ForceFlush
  <2>10. CASE BuildFails \/ Tick \/ UNCHANGED vars
    BY <2>1, <2>10 DEF BuildFails, Tick, vars, own
  <2> QED
    BY <2>1, <2>2, <2>3, <2>4, <2>5, <2>6, <2>7, <2>8, <2>9, <2>10 DEF Next
<1> QED
  BY <1>1, <1>2, Safety, PTL DEF Spec, ImplementsShutdown, S!Spec

-----------------------------------------------------------------------------
(* The error handler, for any goroutines that report to it.                *)

\* Finite sets and their sizes, as the handler counts them.
LEMMA Counting ==
  /\ H!Cardinality({}) = 0
  /\ \A T : H!IsFiniteSet(T) /\ H!Cardinality(T) = 0 => T = {}
  /\ \A T, x : H!IsFiniteSet(T) /\ x \notin T => H!Cardinality(T \cup {x}) = H!Cardinality(T) + 1
  /\ \A T, U : H!IsFiniteSet(T) /\ U \in SUBSET T => H!IsFiniteSet(U) /\ H!Cardinality(U) \in Nat
<1>1. \A T : H!IsFiniteSet(T) <=> IsFiniteSet(T)
  BY DEF H!IsFiniteSet, IsFiniteSet
<1>2. \A T : H!Cardinality(T) = Cardinality(T)
  BY DEF H!Cardinality, Cardinality
<1> QED
  BY <1>1, <1>2, FS_EmptySet, FS_AddElement, FS_Subset, FS_CardinalityType, Zenon

\* The inductive invariant: that a goroutine without a line has no errors is
\* part of ErrorsConserved, and what lets it take those counted before it.
HandlerInv == H!TypeOK /\ H!ErrorsConserved

\* What stands at one place can be counted.
LEMMA Finite ==
  ASSUME NEW f
  PROVE  H!IsFiniteSet(H!At(f)) /\ H!Cardinality(H!At(f)) \in Nat
<1>1. H!IsFiniteSet(Errors) /\ H!At(f) \in SUBSET Errors
  BY HandlerAssumption DEF H!Parameters, H!At
<1> QED
  BY <1>1, Counting

\* The initial states satisfy the inductive invariant.
LEMMA HandlerStart == ASSUME H!Init PROVE HandlerInv
<1>1. H!TypeOK
  BY HandlerAssumption DEF H!Parameters, H!Init, H!TypeOK, H!NoLine
<1>2. H!At("hidden") = {} /\ \A r \in Providers : H!At(r) = {}
  BY HandlerAssumption DEF H!Parameters, H!Init, H!At
<1>3. H!ErrorsConserved
  BY <1>2, Counting DEF H!Init, H!ErrorsConserved
<1> QED
  BY <1>1, <1>3 DEF HandlerInv

\* The types are preserved by themselves.
LEMMA HandlerTypes == ASSUME H!TypeOK, [H!Next]_handler PROVE H!TypeOK'
<1> USE HandlerAssumption DEF H!TypeOK, H!Parameters, H!NoLine
<1>1. ASSUME NEW r \in Providers, NEW e \in Errors, H!Suppress(r, e) PROVE H!TypeOK'
  BY <1>1 DEF H!Suppress
<1>2. ASSUME NEW r \in Providers, NEW e \in Errors, H!Announce(r, e) PROVE H!TypeOK'
  BY <1>2 DEF H!Announce
<1>3. ASSUME NEW r \in Providers, H!WriteLine(r) PROVE H!TypeOK'
  BY <1>3 DEF H!WriteLine
<1>4. CASE H!Tick
  BY <1>4 DEF H!Tick
<1>5. CASE UNCHANGED handler
  BY <1>5 DEF handler
<1> QED
  BY <1>1, <1>2, <1>3, <1>4, <1>5 DEF H!Next, H!Handle

\* Every step keeps the account of errors.
LEMMA HandlerKept == ASSUME HandlerInv, [H!Next]_handler PROVE HandlerInv'
<1> USE DEF HandlerInv, H!ErrorsConserved
<1>1. H!TypeOK'
  BY HandlerTypes
<1>2. ASSUME NEW r \in Providers, NEW e \in Errors, fate[e] = "new", H!Suppress(r, e)
      PROVE  H!ErrorsConserved'
  <2>1. H!At("hidden")' = H!At("hidden") \cup {e} /\ e \notin H!At("hidden")
    BY <1>2 DEF H!Suppress, H!At, H!TypeOK
  <2>2. \A q \in Providers : H!At(q)' = H!At(q)
    BY <1>2, HandlerAssumption DEF H!Suppress, H!At, H!TypeOK, H!Parameters
  <2>3. H!Cardinality(H!At("hidden")') = H!Cardinality(H!At("hidden")) + 1
    BY <2>1, Finite, Counting
  <2> QED
    BY <1>2, <2>2, <2>3 DEF H!Suppress
<1>3. ASSUME NEW r \in Providers, NEW e \in Errors, line[r] = H!NoLine, fate[e] = "new", H!Announce(r, e)
      PROVE  H!ErrorsConserved'
  <2>1. H!At(r) = {}
    BY <1>3, Finite, Counting
  <2>2. H!At(r)' = H!At("hidden") \cup {e} /\ e \notin H!At("hidden")
    BY <1>3, <2>1 DEF H!Announce, H!At, H!TypeOK
  <2>3. H!Cardinality(H!At(r)') = suppressed + 1
    BY <2>2, Finite, Counting
  <2>4. H!At("hidden")' = {}
    BY <1>3, HandlerAssumption DEF H!Announce, H!At, H!TypeOK, H!Parameters
  <2>5. \A q \in Providers \ {r} : H!At(q)' = H!At(q)
    BY <1>3, HandlerAssumption DEF H!Announce, H!At, H!TypeOK, H!Parameters
  <2>6. line' = [line EXCEPT ![r] = suppressed] /\ suppressed' = 0
    BY <1>3 DEF H!Announce
  <2>7. suppressed # H!NoLine /\ line'[r] = suppressed
    BY <2>6 DEF H!TypeOK, H!NoLine
  <2>8. H!Cardinality(H!At("hidden")') = 0
    BY <2>4, Counting
  <2>9. ASSUME NEW q \in Providers
        PROVE  H!Cardinality(H!At(q)') = IF line'[q] = H!NoLine THEN 0 ELSE line'[q] + 1
    <3>1. CASE q = r
      BY <3>1, <2>3, <2>7
    <3>2. CASE q # r
      <4>1. line'[q] = line[q]
        BY <3>2, <2>6 DEF H!TypeOK
      <4> QED
        BY <3>2, <4>1, <2>5
    <3> QED
      BY <3>1, <3>2
  <2> QED
    BY <2>6, <2>8, <2>9
<1>4. ASSUME NEW r \in Providers, H!WriteLine(r) PROVE H!ErrorsConserved'
  <2>1. H!At(r)' = {}
    BY <1>4, HandlerAssumption DEF H!WriteLine, H!At, H!TypeOK, H!Parameters
  <2>2. H!At("hidden")' = H!At("hidden")
    BY <1>4, HandlerAssumption DEF H!WriteLine, H!At, H!TypeOK, H!Parameters
  <2>3. \A q \in Providers \ {r} : H!At(q)' = H!At(q)
    BY <1>4, HandlerAssumption DEF H!WriteLine, H!At, H!TypeOK, H!Parameters
  <2>4. line' = [line EXCEPT ![r] = H!NoLine] /\ suppressed' = suppressed
    BY <1>4 DEF H!WriteLine
  <2>5. H!Cardinality(H!At(r)') = 0
    BY <2>1, Counting
  <2>6. ASSUME NEW q \in Providers
        PROVE  H!Cardinality(H!At(q)') = IF line'[q] = H!NoLine THEN 0 ELSE line'[q] + 1
    <3>1. CASE q = r
      BY <3>1, <2>4, <2>5 DEF H!TypeOK
    <3>2. CASE q # r
      <4>1. line'[q] = line[q]
        BY <3>2, <2>4 DEF H!TypeOK
      <4> QED
        BY <3>2, <4>1, <2>3
    <3> QED
      BY <3>1, <3>2
  <2> QED
    BY <2>2, <2>4, <2>6
<1>5. ASSUME UNCHANGED <<suppressed, line, fate>> PROVE H!ErrorsConserved'
  BY <1>5 DEF H!At
<1> QED
  BY <1>1, <1>2, <1>3, <1>4, <1>5 DEF H!Next, H!Handle, H!Tick, handler

\* Whatever goroutines report, suppress and log, and in whatever order: each
\* error is accounted for by one report.
THEOREM HandlerConservation == H!Spec => []H!ErrorsConserved
<1>1. H!Init => HandlerInv
  BY HandlerStart
<1>2. HandlerInv /\ [H!Next]_(H!vars) => HandlerInv'
  BY HandlerKept DEF H!vars, handler
<1>3. HandlerInv => H!ErrorsConserved
  BY DEF HandlerInv
<1> QED
  BY <1>1, <1>2, <1>3, PTL DEF H!Spec

-----------------------------------------------------------------------------

\* While errors are still to come, the next one is one of them.
LEMMA NextErrorIsNew == H!At("new") # {} => NextError \in Errors /\ fate[NextError] = "new"
  BY DEF H!At, NextError

\* To the error handler, a step of the instance is one of its own, or none.
LEMMA HandlerStep == ASSUME [Next]_vars PROVE [H!Next]_handler
<1>1. ASSUME NEW p \in Providers, Emit(p) \/ Export(p) \/ Deadline(p) PROVE UNCHANGED handler
  BY <1>1 DEF Emit, Export, Deadline
<1>2. ASSUME NEW p \in Providers, WriteLine(p) PROVE H!Next
  BY <1>2 DEF WriteLine, H!Next
<1>3. ASSUME NEW p \in Providers, ExportFails(p) PROVE H!Next
  BY <1>3, NextErrorIsNew DEF ExportFails, H!Next
<1>4. ASSUME NEW p \in Providers, NEW ok \in BOOLEAN, ForceFlush(p, ok) \/ ShutterStep(p, ok)
      PROVE  UNCHANGED handler
  BY <1>4 DEF ForceFlush, ShutterStep
<1>5. ASSUME NEW c \in Callers, Close(c) \/ Aggregate(c) \/ CloseReturns(c) PROVE UNCHANGED handler
  BY <1>5 DEF Close, Aggregate, CloseReturns
<1>6. CASE Tick
  BY <1>6 DEF Tick, H!Next
<1>7. CASE Build \/ BuildFails \/ UNCHANGED vars
  BY <1>7 DEF Build, BuildFails, vars
<1> QED
  BY <1>1, <1>2, <1>3, <1>4, <1>5, <1>6, <1>7 DEF Next

\* The account of errors holds while their reporters flush and stop.
THEOREM Conservation == Spec => []ErrorsConserved
<1>1. Init => HandlerInv
  BY HandlerStart DEF Init
<1>2. HandlerInv /\ [Next]_vars => HandlerInv'
  BY HandlerStep, HandlerKept
<1>3. HandlerInv => ErrorsConserved
  BY DEF HandlerInv, ErrorsConserved
<1> QED
  BY <1>1, <1>2, <1>3, PTL DEF Spec

-----------------------------------------------------------------------------

\* Where lost data leaves its trace: a provider that is down has none waiting,
\* one that lost some to Close has an error in its slot, and an error that
\* names a loss has been reported.
Traces ==
  /\ data \in [Providers -> Marks \cup Errors]
  /\ \A p \in Providers : data[p] = "lost" => failed[p]
  /\ \A p \in Providers : data[p] \in Errors => fate[data[p]] # "new"
  /\ \A p \in Providers : state[p] = "down" => data[p] # "some"
  /\ once = "done" => /\ AllDown
                      /\ shutdownErr = Named(failed)

\* A record enters a provider before Close only.
LEMMA RecordedBeforeClose ==
  ASSUME Shape, Traces, NEW p \in Providers
  PROVE  /\ Recorded(p) \in [Providers -> Marks \cup Errors]
         /\ \A q \in Providers :
              Recorded(p)[q] = data[q] \/ (Recorded(p)[q] = "some" /\ state[q] # "down")
  BY DEF Recorded, Shape, Traces, Marks

\* The handler never takes an error back.
LEMMA ReportedForGood ==
  ASSUME HandlerInv, [Next]_vars
  PROVE  \A e \in Errors : fate[e] # "new" => fate'[e] # "new"
<1> USE HandlerAssumption DEF H!Parameters, H!TypeOK, HandlerInv
<1>1. ASSUME NEW r \in Providers, NEW e \in Errors, H!Handle(r, e)
      PROVE  \A x \in Errors : fate[x] # "new" => fate'[x] # "new"
  BY <1>1 DEF H!Handle, H!Suppress, H!Announce
<1>2. ASSUME NEW r \in Providers, H!WriteLine(r)
      PROVE  \A x \in Errors : fate[x] # "new" => fate'[x] # "new"
  BY <1>2 DEF H!WriteLine
<1>3. CASE H!Tick \/ UNCHANGED handler
  BY <1>3 DEF H!Tick, handler
<1> QED
  BY <1>1, <1>2, <1>3, HandlerStep DEF H!Next

\* The error a provider reports is reported at once.
LEMMA ReportedNow ==
  ASSUME HandlerInv, NEW p \in Providers, ExportFails(p)
  PROVE  NextError \in Errors /\ fate'[NextError] # "new"
<1> USE HandlerAssumption DEF H!Parameters, H!TypeOK, HandlerInv
<1>1. NextError \in Errors /\ H!Handle(p, NextError)
  BY NextErrorIsNew DEF ExportFails
<1> QED
  BY <1>1 DEF H!Handle, H!Suppress, H!Announce

LEMMA TracesStep == ASSUME Shape, HandlerInv, Traces, [Next]_vars PROVE Traces'
<1> USE DEF Shape, Traces, AllDown
<1>0. \A e \in Errors : fate[e] # "new" => fate'[e] # "new"
  BY ReportedForGood
<1>1. ASSUME UNCHANGED <<state, failed, once, shutdownErr>>,
             data' \in [Providers -> Marks \cup Errors],
             \A q \in Providers : \/ data'[q] \in {data[q], "none", "told"}
                                  \/ data'[q] \in Errors /\ fate'[data'[q]] # "new"
                                  \/ data'[q] = "some" /\ state[q] # "down"
      PROVE  Traces'
  <2>1. \A q \in Providers : data'[q] = "lost" => failed'[q]
    BY <1>1, ErrorsAssumption DEF Marks
  <2>2. \A q \in Providers : data'[q] \in Errors => fate'[data'[q]] # "new"
    BY <1>0, <1>1, ErrorsAssumption DEF Marks
  <2>3. \A q \in Providers : state'[q] = "down" => data'[q] # "some"
    BY <1>1, ErrorsAssumption DEF Marks
  <2> QED
    BY <1>1, <2>1, <2>2, <2>3
<1>2. ASSUME UNCHANGED <<state, failed, once, shutdownErr, data>> PROVE Traces'
  BY <1>1, <1>2
<1>3. CASE Build
  <2>1. once # "done" /\ \A p \in Providers : state'[p] # "down"
    BY <1>3 DEF Build
  <2>2. UNCHANGED <<failed, once, data>>
    BY <1>3 DEF Build
  <2> QED
    BY <1>0, <2>1, <2>2
<1>4. ASSUME NEW p \in Providers, Emit(p) \/ WriteLine(p) PROVE Traces'
  <2>1. Logs \in Providers
    BY OrderAssumption
  <2>2. PICK q \in Providers : data' = Recorded(q)
    BY <1>4, <2>1 DEF Emit, WriteLine
  <2>3. UNCHANGED <<state, failed, once, shutdownErr>>
    BY <1>4 DEF Emit, WriteLine
  <2> QED
    BY <1>1, <2>2, <2>3, RecordedBeforeClose
<1>5. ASSUME NEW p \in Providers, NEW ok \in BOOLEAN, NEW blame \in {"told"} \cup Errors,
             blame \in Errors => fate'[blame] # "new", data' = Exported(p, ok, blame),
             UNCHANGED <<state, failed, once, shutdownErr>>
      PROVE  Traces'
  <2>1. \A q \in Providers : \/ data'[q] \in {data[q], "none", "told"}
                             \/ data'[q] \in Errors /\ fate'[data'[q]] # "new"
    BY <1>5 DEF Exported
  <2>2. data' \in [Providers -> Marks \cup Errors]
    BY <1>5 DEF Exported, Marks
  <2> QED
    BY <1>1, <1>5, <2>1, <2>2
<1>6. ASSUME NEW p \in Providers, Export(p) PROVE Traces'
  <2>1. data' = Exported(p, TRUE, "told") /\ "told" \notin Errors
    BY <1>6, ErrorsAssumption DEF Export, Exported, Marks
  <2> QED
    BY <1>5, <1>6, <2>1 DEF Export
<1>7. ASSUME NEW p \in Providers, NEW ok \in BOOLEAN, ShutterStep(p, ok) PROVE Traces'
  <2>1. once # "free" /\ once # "done" /\ UNCHANGED <<once, handler>>
    BY <1>7 DEF ShutterStep
  <2>2. \A q \in Providers \ {p} : UNCHANGED <<state[q], failed[q], data[q]>>
    BY <1>7 DEF ShutterStep, Joined, Exported
  <2>3. data'[p] # "some" /\ (data'[p] = "lost" => failed'[p])
    BY <1>7 DEF ShutterStep, Joined, Exported
  <2>4. data' \in [Providers -> Marks \cup Errors]
    BY <1>7 DEF ShutterStep, Exported, Marks
  <2>5. data'[p] \in {data[p], "none", "lost"}
    BY <1>7 DEF ShutterStep, Exported
  <2>6. data'[p] \in Errors => fate'[data'[p]] # "new"
    BY <1>0, <2>5, ErrorsAssumption DEF Marks
  <2> QED
    BY <1>0, <2>1, <2>2, <2>3, <2>4, <2>6
<1>8. ASSUME NEW c \in Callers, Close(c) PROVE Traces'
  BY <1>0, <1>8 DEF Close
<1>9. ASSUME NEW c \in Callers, Aggregate(c) PROVE Traces'
  BY <1>0, <1>9 DEF Aggregate
<1>10. ASSUME NEW p \in Providers, ExportFails(p) PROVE Traces'
  <2>1. NextError \in Errors /\ fate'[NextError] # "new"
    BY <1>10, ReportedNow
  <2>2. data' = Exported(p, FALSE, NextError) /\ UNCHANGED <<state, failed, once, shutdownErr>>
    BY <1>10 DEF ExportFails
  <2> QED
    BY <1>5, <2>1, <2>2
<1>11. ASSUME NEW p \in Providers, NEW ok \in BOOLEAN, ForceFlush(p, ok) PROVE Traces'
  <2>1. "told" \notin Errors
    BY ErrorsAssumption DEF Marks
  <2> QED
    BY <1>5, <1>11, <2>1 DEF ForceFlush
<1>12. ASSUME NEW p \in Providers, Deadline(p) PROVE Traces'
  BY <1>2, <1>12 DEF Deadline
<1>13. ASSUME NEW c \in Callers, CloseReturns(c) PROVE Traces'
  BY <1>2, <1>13 DEF CloseReturns
<1> QED
  BY <1>2, <1>3, <1>4, <1>6, <1>7, <1>8, <1>9, <1>10, <1>11, <1>12, <1>13
     DEF Next, BuildFails, Tick, vars, own

\* Every error that was reported has its place in the handler's account.
LEMMA ReportedAccounted ==
  ASSUME HandlerInv, NEW e \in Errors, fate[e] # "new"
  PROVE  Accounted(e)
<1> USE DEF HandlerInv, H!TypeOK, H!ErrorsConserved
<1>1. \A f : fate[e] = f => H!Cardinality(H!At(f)) # 0
  <2> SUFFICES ASSUME NEW f, fate[e] = f PROVE H!Cardinality(H!At(f)) # 0
    OBVIOUS
  <2>1. H!At(f) # {}
    BY DEF H!At
  <2> QED
    BY <2>1, Finite, Counting
<1>2. CASE fate[e] = "told"
  BY <1>2 DEF Accounted
<1>3. CASE fate[e] = "hidden"
  <2>1. suppressed # 0 /\ suppressed \in Nat
    BY <1>1, <1>3
  <2> QED
    BY <1>3, <2>1 DEF Accounted
<1>4. ASSUME NEW r \in Providers, fate[e] = r PROVE Accounted(e)
  <2>1. line[r] # H!NoLine
    BY <1>1, <1>4
  <2> QED
    BY <1>4, <2>1 DEF Accounted
<1> QED
  BY <1>2, <1>3, <1>4

\* When Close is done it joined the errors of exactly the slots that hold one,
\* what it lost itself is in such a slot, and the errors of what was lost
\* before are the handler's.
LossesFail ==
  once = "done" =>
    /\ shutdownErr = Named(failed)
    /\ \A p \in Providers :
         \/ data[p] \in {"none", "told"}
         \/ data[p] \in Errors /\ Accounted(data[p])
         \/ data[p] = "lost" /\ failed[p]

\* Whatever was recorded before Close and lost by Close leaves an error in its
\* provider's slot, and no slot is left out; whatever the SDK lost on its own is
\* in the error handler's account, be it only as a part of a count.
THEOREM Losses == Spec => []LossesFail
<1>1. Init => Shape /\ HandlerInv /\ Traces
  <2>1. Init => HandlerInv
    BY HandlerStart DEF Init
  <2>2. Init => Shape /\ Traces
    BY ErrorsAssumption DEF Init, Shape, Traces, Marks
  <2> QED
    BY <2>1, <2>2
<1>2. Shape /\ HandlerInv /\ Traces /\ [Next]_vars => (Shape /\ HandlerInv /\ Traces)'
  BY ShapeStep, TracesStep, HandlerStep, HandlerKept
<1>3. Shape /\ HandlerInv /\ Traces => LossesFail
  <2> SUFFICES ASSUME Shape, HandlerInv, Traces, once = "done",
                      NEW p \in Providers
               PROVE  \/ data[p] \in {"none", "told"}
                      \/ data[p] \in Errors /\ Accounted(data[p])
                      \/ data[p] = "lost" /\ failed[p]
    BY DEF Traces, LossesFail
  <2>1. data[p] \in Marks \cup Errors /\ data[p] # "some"
    BY DEF Traces, AllDown
  <2>2. CASE data[p] \in Errors
    BY <2>2, ReportedAccounted DEF Traces
  <2>3. CASE data[p] = "lost"
    BY <2>3 DEF Traces
  <2> QED
    BY <2>1, <2>2, <2>3 DEF Marks
<1> QED
  BY <1>1, <1>2, <1>3, PTL DEF Spec

-----------------------------------------------------------------------------

\* Induction over the naturals, for a set.
LEMMA SetOfNaturals ==
  ASSUME NEW T, 0 \in T, \A n \in Nat : n \in T => n + 1 \in T
  PROVE  Nat \subseteq T
<1> SUFFICES ASSUME Nat \ T # {} PROVE FALSE
  OBVIOUS
<1> DEFINE U == Nat \ T
<1>1. PICK x \in U : \A y \in U : <<y, x>> \notin OpToRel(<, Nat)
  BY NatLessThanWellFounded, WFMin
<1>2. x \in Nat /\ x # 0
  BY <1>1
<1>3. x - 1 \in T
  <2> SUFFICES ASSUME x - 1 \in U PROVE FALSE
    BY <1>2
  <2>1. x - 1 \in Nat /\ x - 1 < x
    BY <1>2
  <2> QED
    BY <1>1, <1>2, <2>1 DEF OpToRel
<1>4. (x - 1) + 1 = x /\ x - 1 \in Nat
  BY <1>2
<1> QED
  BY <1>1, <1>3, <1>4

\* The loop, as far as slot n.
Loop(f, n) ==
  {agg \in [0..n -> Seq(Providers)] :
    \A i \in 0..n :
      agg[i] = IF i = 0 THEN <<>>
               ELSE IF f[Order[i]] THEN Append(agg[i - 1], Order[i]) ELSE agg[i - 1]}

LEMMA LoopExists == ASSUME NEW f PROVE \A n \in 0..Len(Order) : Loop(f, n) # {}
<1> DEFINE T == {n \in Nat : n <= Len(Order) => Loop(f, n) # {}}
<1>1. 0 \in T
  <2>1. [i \in 0..0 |-> <<>>] \in Loop(f, 0)
    BY DEF Loop
  <2> QED
    BY <2>1
<1>2. ASSUME NEW n \in Nat, n \in T PROVE n + 1 \in T
  <2> SUFFICES ASSUME n + 1 <= Len(Order) PROVE Loop(f, n + 1) # {}
    OBVIOUS
  <2>0. Order \in Seq(Providers)
    BY OrderAssumption
  <2>1. PICK agg \in Loop(f, n) : TRUE
    BY <1>2, <2>0
  <2> DEFINE new == IF f[Order[n + 1]] THEN Append(agg[n], Order[n + 1]) ELSE agg[n]
             more == [i \in 0..(n + 1) |-> IF i = n + 1 THEN new ELSE agg[i]]
  <2>2. agg \in [0..n -> Seq(Providers)]
    BY <2>1 DEF Loop
  <2>3. n + 1 \in DOMAIN Order /\ Order[n + 1] \in Providers
    BY <2>0
  <2>4. new \in Seq(Providers)
    BY <2>2, <2>3
  <2>5. more \in [0..(n + 1) -> Seq(Providers)]
    BY <2>2, <2>4
  <2>6. ASSUME NEW i \in 0..(n + 1)
        PROVE  more[i] = IF i = 0 THEN <<>>
                         ELSE IF f[Order[i]] THEN Append(more[i - 1], Order[i]) ELSE more[i - 1]
    <3>1. CASE i = n + 1
      <4>1. more[i - 1] = agg[n] /\ i # 0
        BY <3>1
      <4> QED
        BY <3>1, <4>1
    <3>2. CASE i \in 0..n
      <4>1. more[i] = agg[i] /\ (i # 0 => more[i - 1] = agg[i - 1])
        BY <3>2
      <4>2. agg[i] = IF i = 0 THEN <<>>
                     ELSE IF f[Order[i]] THEN Append(agg[i - 1], Order[i]) ELSE agg[i - 1]
        BY <2>1, <3>2 DEF Loop
      <4> HIDE DEF more
      <4> QED
        BY <4>1, <4>2
    <3> QED
      BY <3>1, <3>2
  <2> HIDE DEF more
  <2>7. more \in Loop(f, n + 1)
    BY <2>5, <2>6 DEF Loop
  <2> QED
    BY <2>7
<1>3. Nat \subseteq T
  <2> HIDE DEF T
  <2> QED
    BY <1>1, <1>2, SetOfNaturals
<1> QED
  BY <1>3

\* What Close joins: of the slots that hold an error, none is left out.
LEMMA NamesAll ==
  ASSUME NEW f
  PROVE  \A p \in Providers : f[p] => \E i \in DOMAIN Named(f) : Named(f)[i] = p
<1> DEFINE L == Len(Order)
           Body(agg, i) == IF i = 0 THEN <<>>
                           ELSE IF f[Order[i]] THEN Append(agg[i - 1], Order[i]) ELSE agg[i - 1]
           joined == CHOOSE agg : agg = [i \in 0..L |-> Body(agg, i)]
<1>0. Order \in Seq(Providers) /\ L \in Nat
  BY OrderAssumption
<1>1. PICK g : g \in Loop(f, L)
  BY <1>0, LoopExists
<1>2. g = [i \in 0..L |-> Body(g, i)] /\ \A i \in 0..L : g[i] \in Seq(Providers)
  BY <1>1 DEF Loop
<1>3. joined = [i \in 0..L |-> Body(joined, i)]
  <2> HIDE DEF Body
  <2> QED
    BY Zenon, <1>2
<1>4. Named(f) = joined[L]
  BY Zenon DEF Named
<1> DEFINE Good(n) == /\ joined[n] \in Seq(Providers)
                      /\ \A j \in 1..n : f[Order[j]] => \E k \in DOMAIN joined[n] : joined[n][k] = Order[j]
           T == {n \in Nat : n <= L => Good(n)}
<1> HIDE DEF joined
<1>5. 0 \in T
  <2>1. joined[0] = <<>>
    BY <1>0, <1>3
  <2>2. joined[0] \in Seq(Providers) /\ 1..0 = {}
    BY <2>1
  <2> QED
    BY <2>2
<1>6. ASSUME NEW n \in Nat, n \in T PROVE n + 1 \in T
  <2> SUFFICES ASSUME n + 1 <= L PROVE Good(n + 1)
    OBVIOUS
  <2>1. joined[n + 1] = IF f[Order[n + 1]] THEN Append(joined[n], Order[n + 1]) ELSE joined[n]
    <3>1. n + 1 \in 0..L /\ n + 1 # 0 /\ (n + 1) - 1 = n
      BY <1>0
    <3>2. joined[n + 1] = Body(joined, n + 1)
      <4> HIDE DEF Body
      <4> QED
        BY <1>3, <3>1
    <3> QED
      BY <3>1, <3>2
  <2>2. Good(n) /\ Order[n + 1] \in Providers
    BY <1>0, <1>6
  <2>3. CASE ~f[Order[n + 1]]
    BY <2>1, <2>2, <2>3
  <2>4. CASE f[Order[n + 1]]
    <3> DEFINE before == joined[n]
               after == joined[n + 1]
    <3>1. after = Append(before, Order[n + 1]) /\ before \in Seq(Providers)
      BY <2>1, <2>2, <2>4
    <3>2. ASSUME NEW j \in 1..(n + 1), f[Order[j]] PROVE \E k \in DOMAIN after : after[k] = Order[j]
      <4>1. CASE j = n + 1
        <5>1. Len(before) + 1 \in DOMAIN after /\ after[Len(before) + 1] = Order[j]
          BY <2>2, <3>1, <4>1
        <5> QED
          BY <5>1
      <4>2. CASE j \in 1..n
        <5>1. PICK k \in DOMAIN before : before[k] = Order[j]
          BY <2>2, <3>2, <4>2
        <5>2. k \in DOMAIN after /\ after[k] = before[k]
          BY <2>2, <3>1, <5>1
        <5> QED
          BY <5>1, <5>2
      <4> QED
        BY <4>1, <4>2
    <3>3. after \in Seq(Providers)
      BY <2>2, <3>1
    <3> QED
      BY <3>2, <3>3
  <2> QED
    BY <2>3, <2>4
<1>7. Nat \subseteq T
  <2> HIDE DEF T
  <2> QED
    BY <1>5, <1>6, SetOfNaturals
<1>8. Good(L)
  BY <1>0, <1>7
<1>9. \A p \in Providers : \E j \in 1..L : p = Order[j]
  BY <1>0 DEF Providers
<1> QED
  BY <1>4, <1>8, <1>9

\* What was recorded before Close and not exported has a trace when Close is
\* done: in Close's error, in a ForceFlush's, or in the handler's account.
THEOREM Traced == Spec => []LossesTraced
<1>1. LossesFail => LossesTraced
  BY NamesAll DEF LossesFail, LossesTraced
<1> QED
  BY <1>1, Losses, PTL
=============================================================================
