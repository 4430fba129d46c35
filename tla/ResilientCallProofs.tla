------------------------ MODULE ResilientCallProofs ------------------------
(***************************************************************************)
(* Theorems about the chain of policies, for any set of callers, settings  *)
(* of the policies, and choice of what is retried and waived.  The chain   *)
(* is shown to step its breaker and its bulkhead as those modules step, so *)
(* that what was proved of each holds inside it.                           *)
(***************************************************************************)
EXTENDS ResilientCall, TLAPS

CBP == INSTANCE CircuitBreakerProofs
         WITH pc <- at, Outcomes <- {"ok", "failure", "cancelled", "ignored", "panic"}
BHP == INSTANCE BulkheadProofs WITH pc <- place

\* The assumptions of the parts.
LEMMA BreakerAssumptions ==
  /\ CBP!ConfigAssumption /\ CBP!OutcomesAssumption
  /\ CBP!CallersAssumption /\ CBP!FailuresAssumption
  BY PoliciesAssumption, CallersAssumption, FailuresAssumption
     DEF CBP!ConfigAssumption, CBP!OutcomesAssumption, CBP!AllOutcomes,
         CBP!CallersAssumption, CBP!IsFiniteSet, IsFiniteSet,
         CBP!FailuresAssumption, CBP!threshold, CB!threshold

LEMMA BulkheadAssumptions == BHP!ConfigAssumption /\ BHP!CallersAssumption
  BY PoliciesAssumption, CallersAssumption
     DEF BHP!ConfigAssumption, BHP!CallersAssumption, BHP!IsFiniteSet, IsFiniteSet

-----------------------------------------------------------------------------
(* The parts inside the chain.                                             *)

\* What every call does to the breaker is a step of the breaker.
LEMMA BreakerStep == ASSUME [Next]_vars PROVE [CB!Next]_breakerVars
<1>1. ASSUME NEW c \in Callers, Arrive(c) \/ ReadState(c) \/ Allow(c) \/ Notify(c) PROVE CB!Next
  BY <1>1 DEF Arrive, ReadState, Allow, Notify, CB!Next
<1>2. ASSUME NEW c \in Callers, OperationPanics(c) PROVE CB!Next
  BY <1>2 DEF OperationPanics, CB!Next
<1>3. ASSUME NEW c \in Callers, Report(c) PROVE CB!Next
  BY <1>3 DEF Report, Classify, CB!Record, CB!Next
<1>4. ASSUME NEW c \in Callers,
             \/ Loop(c) \/ Enter(c) \/ Select(c) \/ Judge(c) \/ BackoffEnds(c)
             \/ BackoffCancelled(c) \/ Cancel(c) \/ NewContext(c)
      PROVE  UNCHANGED breakerVars
  BY <1>4 DEF Loop, Enter, Select, Judge, BackoffEnds, BackoffCancelled, Cancel, NewContext
<1>5. ASSUME NEW c \in Callers, NEW o \in OpResults, Operation(c, o) PROVE UNCHANGED breakerVars
  BY <1>5 DEF Operation
<1>6. CASE Tick
  BY <1>6 DEF Tick, CB!Next
<1>7. CASE UNCHANGED vars
  BY <1>7 DEF vars
<1> QED
  BY <1>1, <1>2, <1>3, <1>4, <1>5, <1>6, <1>7 DEF Next, Proceed

\* And what it does to the bulkhead a step of the bulkhead.
LEMMA BulkheadStep == ASSUME [Next]_vars PROVE [BH!Next]_bulkheadVars
<1>1. ASSUME NEW c \in Callers, Enter(c) \/ Select(c) \/ OperationPanics(c) \/ Cancel(c) \/ NewContext(c)
      PROVE  BH!Next
  BY <1>1 DEF Enter, Select, OperationPanics, Cancel, NewContext, BH!Next
<1>2. ASSUME NEW c \in Callers, NEW o \in OpResults, Operation(c, o) PROVE BH!Next
  BY <1>2 DEF Operation, BH!Next
<1>3. ASSUME NEW c \in Callers,
             \/ Arrive(c) \/ ReadState(c) \/ Allow(c) \/ Notify(c) \/ Loop(c) \/ Judge(c)
             \/ BackoffEnds(c) \/ BackoffCancelled(c) \/ Report(c)
      PROVE  UNCHANGED bulkheadVars
  BY <1>3 DEF Arrive, ReadState, Allow, Notify, Loop, Judge, BackoffEnds, BackoffCancelled, Report
<1>4. CASE Tick
  BY <1>4 DEF Tick, BH!Next
<1>5. CASE UNCHANGED vars
  BY <1>5 DEF vars
<1> QED
  BY <1>1, <1>2, <1>3, <1>4, <1>5 DEF Next, Proceed

\* The breaker of the chain behaves as CircuitBreaker specifies, the bulkhead
\* as Bulkhead does, whatever the layers between and around them do: all that is
\* proved of them alone holds in the chain.
THEOREM Parts == Spec => CBP!Spec /\ BHP!Spec
<1>1. Init => CBP!Init /\ BHP!Init
  BY DEF Init, CB!Init, CBP!Init, BH!Init, BHP!Init, CB!openTimeout, CBP!openTimeout,
         CB!States, CBP!States, CB!Closed, CBP!Closed, CB!Open, CBP!Open, CB!HalfOpen, CBP!HalfOpen,
         BH!maxWait, BHP!maxWait
<1>2. ASSUME [Next]_vars PROVE [CBP!Next]_(CBP!vars)
  BY <1>2, BreakerStep
     DEF breakerVars, CBP!vars, CB!Next, CBP!Next, CB!Tick, CBP!Tick, CB!Arrive, CBP!Arrive,
         CB!Allow, CBP!Allow, CB!ReadState, CBP!ReadState, CB!Record, CBP!Record,
         CB!Panic, CBP!Panic, CB!Notify, CBP!Notify, CB!At, CBP!At, CB!Ends, CBP!Ends,
         CB!RecordOk, CBP!RecordOk, CB!RecordCancelled, CBP!RecordCancelled,
         CB!RecordIgnored, CBP!RecordIgnored, CB!RecordFailure, CBP!RecordFailure,
         CB!ReleaseProbe, CBP!ReleaseProbe, CB!Trip, CBP!Trip, CB!Bump, CBP!Bump,
         CB!SetState, CBP!SetState, CB!StateAt, CBP!StateAt, CB!ProbingAt, CBP!ProbingAt,
         CB!ReadyAt, CBP!ReadyAt, CB!ProbesWithout, CBP!ProbesWithout,
         CB!FaultsStay, CBP!FaultsStay, CB!threshold, CBP!threshold,
         CB!openTimeout, CBP!openTimeout,
         CB!Closed, CBP!Closed, CB!Open, CBP!Open, CB!HalfOpen, CBP!HalfOpen
<1>3. ASSUME [Next]_vars PROVE [BHP!Next]_(BHP!vars)
  BY <1>3, BulkheadStep
     DEF bulkheadVars, BHP!vars, BH!Next, BHP!Next, BH!Tick, BHP!Tick, BH!Enter, BHP!Enter,
         BH!Select, BHP!Select, BH!Finish, BHP!Finish, BH!Cancel, BHP!Cancel,
         BH!NewContext, BHP!NewContext, BH!Acquire, BHP!Acquire, BH!CtxDone, BHP!CtxDone,
         BH!TimerFires, BHP!TimerFires, BH!Reject, BHP!Reject, BH!Park, BHP!Park,
         BH!Leave, BHP!Leave, BH!Return, BHP!Return, BH!Goto, BHP!Goto,
         BH!Receive, BHP!Receive, BH!Parked, BHP!Parked, BH!CanSend, BHP!CanSend,
         BH!capacity, BHP!capacity
<1> QED
  BY <1>1, <1>2, <1>3, PTL DEF Spec, CBP!Spec, BHP!Spec

\* The types of the parts hold in the chain.
LEMMA PartTypes == Spec => [](CB!TypeOK /\ BH!TypeOK)
<1>1. CBP!Spec => []CBP!TypeOK
  BY BreakerAssumptions, CBP!TypeCorrect
<1>2. BHP!Spec => []BHP!TypeOK
  BY BulkheadAssumptions, BHP!TypeCorrect
<1>3. CBP!TypeOK /\ BHP!TypeOK => CB!TypeOK /\ BH!TypeOK
  BY DEF CB!TypeOK, CBP!TypeOK, BH!TypeOK, BHP!TypeOK, CB!States, CBP!States, CB!Notes, CBP!Notes,
         CB!Closed, CBP!Closed, CB!Open, CBP!Open, CB!HalfOpen, CBP!HalfOpen,
         CB!threshold, CBP!threshold, CB!openTimeout, CBP!openTimeout,
         BH!Places, BHP!Places, BH!Results, BHP!Results, BH!capacity, BHP!capacity,
         BH!maxWait, BHP!maxWait
<1> QED
  BY <1>1, <1>2, <1>3, Parts, PTL

-----------------------------------------------------------------------------
(* Where a call is.                                                        *)

LEMMA Attempts == maxAttempts \in Nat \ {0}
  BY PoliciesAssumption DEF maxAttempts

OwnTypes ==
    /\ stage \in [Callers -> Stages]
    /\ attempt \in [Callers -> 1..maxAttempts]
    /\ err \in [Callers -> Errors \cup {"ok"}]
    /\ tries \in [Callers -> Nat]
    /\ blamed \in BOOLEAN

\* A call inside the breaker runs its loop, one held by the bulkhead is inside
\* it, and one on the way to an operation has not tried in this attempt; it
\* waits for another attempt only when it has one left.
Position(c) ==
    /\ stage[c] # "out" <=> at[c] = "running"
    /\ stage[c] = "held" <=> place[c] # "idle"
    /\ stage[c] = "out" => attempt[c] = 1 /\ tries[c] = 0 /\ err[c] = "ok"
    /\ stage[c] \in {"loop", "enter"} => tries[c] < attempt[c]
    /\ place[c] \in {"entered", "parked"} => tries[c] < attempt[c]
    /\ stage[c] = "backoff" => attempt[c] < maxAttempts
    /\ tries[c] <= attempt[c]

\* An error that counts was put down to somebody, and one of the caller's
\* context comes of a context that is done.
Blame ==
    /\ \A c \in Callers : Counts(c, err[c]) => blamed
    /\ \A c \in Callers : err[c] = "ctx" => done[c]
    /\ state # "closed" => blamed

IInv == OwnTypes /\ (\A c \in Callers : Position(c)) /\ Blame

PartsOK ==
    /\ state \in {"closed", "open", "halfopen"}
    /\ at \in [Callers -> {"idle", "allow", "running"}]
    /\ place \in [Callers -> {"idle", "entered", "parked", "running"}]
    /\ done \in [Callers -> BOOLEAN]
    /\ result \in [Callers -> {"none", "ran", "ctx", "full"}]

LEMMA PartsFollow == ASSUME CB!TypeOK, BH!TypeOK PROVE PartsOK
  BY DEF CB!TypeOK, BH!TypeOK, PartsOK, BH!Places, BH!Results, CB!States,
         CB!Closed, CB!Open, CB!HalfOpen

\* What a call does at the breaker.
LEMMA BreakerSide ==
  ASSUME IInv, PartsOK, NEW c \in Callers,
         Arrive(c) \/ ReadState(c) \/ Allow(c) \/ Notify(c)
  PROVE  IInv'
<1> USE DEF IInv, OwnTypes, Blame, PartsOK
<1>1. ASSUME UNCHANGED <<bulkheadVars, callVars>>,
             \A d \in Callers : at[d] = "running" <=> at'[d] = "running",
             state' # "closed" => state # "closed"
      PROVE  IInv'
  BY <1>1 DEF bulkheadVars, callVars, Position, Counts
<1>2. CASE Arrive(c)
  BY <1>1, <1>2 DEF Arrive, CB!Arrive, CB!At
<1>3. CASE ReadState(c)
  BY <1>1, <1>3 DEF ReadState, CB!ReadState, CB!SetState, CB!StateAt, CB!ReadyAt, CB!Open
<1>4. CASE Notify(c)
  BY <1>1, <1>4 DEF Notify, CB!Notify
<1>5. CASE Allow(c)
  <2>1. state' # "closed" => state # "closed"
    BY <1>5 DEF Allow, CB!Allow, CB!SetState, CB!StateAt, CB!ReadyAt, CB!Open
  <2>2. at[c] = "allow" /\ at' \in {[at EXCEPT ![c] = "running"], [at EXCEPT ![c] = "idle"]}
    BY <1>5 DEF Allow, CB!Allow, CB!At
  <2>3. stage' = [stage EXCEPT ![c] = IF at'[c] = "running" THEN "loop" ELSE "out"]
        /\ UNCHANGED <<bulkheadVars, attempt, err, tries, blamed>>
    BY <1>5 DEF Allow
  <2>4. stage[c] = "out"
    BY <2>2 DEF Position
  <2>5. \A d \in Callers : Position(d)'
    BY <2>2, <2>3, <2>4 DEF Position, bulkheadVars
  <2>6. OwnTypes'
    BY <2>3 DEF Stages
  <2> QED
    BY <2>1, <2>3, <2>5, <2>6 DEF Counts, bulkheadVars
<1> QED
  BY <1>2, <1>3, <1>4, <1>5

\* The steps of the retry loop.
LEMMA LoopSide ==
  ASSUME IInv, PartsOK, NEW c \in Callers,
         Loop(c) \/ Judge(c) \/ BackoffEnds(c) \/ BackoffCancelled(c)
  PROVE  IInv'
<1> USE Attempts DEF IInv, OwnTypes, Blame, PartsOK, Goto, In
<1>1. UNCHANGED <<breakerVars, bulkheadVars, tries, blamed>>
  BY DEF Loop, Judge, BackoffEnds, BackoffCancelled
<1>2. OwnTypes'
  <2>1. CASE Loop(c)
    BY <2>1 DEF Loop, Stages, Errors
  <2>2. CASE Judge(c)
    BY <2>2 DEF Judge, Stages
  <2>3. CASE BackoffEnds(c)
    BY <2>3 DEF BackoffEnds, Stages, Position
  <2>4. CASE BackoffCancelled(c)
    BY <2>4 DEF BackoffCancelled, Stages, Errors
  <2> QED
    BY <2>1, <2>2, <2>3, <2>4
<1>3. \A d \in Callers : Position(d)'
  <2>1. CASE Loop(c)
    BY <1>1, <2>1 DEF Loop, Position, breakerVars, bulkheadVars
  <2>2. CASE Judge(c)
    BY <1>1, <2>2 DEF Judge, GivesUp, Position, breakerVars, bulkheadVars
  <2>3. CASE BackoffEnds(c)
    BY <1>1, <2>3 DEF BackoffEnds, Position, breakerVars, bulkheadVars
  <2>4. CASE BackoffCancelled(c)
    BY <1>1, <2>4 DEF BackoffCancelled, Position, breakerVars, bulkheadVars
  <2> QED
    BY <2>1, <2>2, <2>3, <2>4
<1>4. Blame'
  <2>1. err' = err \/ (done[c] /\ err' = [err EXCEPT ![c] = "ctx"])
    BY DEF Loop, Judge, BackoffEnds, BackoffCancelled
  <2> QED
    BY <1>1, <2>1 DEF Counts, breakerVars, bulkheadVars
<1> QED
  BY <1>2, <1>3, <1>4

\* An attempt that ended with e, put down to somebody if it counts.
LEMMA AttemptEnds ==
  ASSUME IInv, PartsOK, NEW c \in Callers, NEW e \in Errors \cup {"ok"}, Ended(c, e),
         e = "ctx" => done[c], UNCHANGED <<state, done>>
  PROVE  /\ Blame'
         /\ stage' \in [Callers -> Stages] /\ err' \in [Callers -> Errors \cup {"ok"}]
         /\ blamed' \in BOOLEAN
<1> USE DEF IInv, OwnTypes, Blame, PartsOK, Ended
<1>1. blamed' = (blamed \/ Counts(c, e))
  OBVIOUS
<1>2. blamed' \in BOOLEAN /\ (blamed => blamed') /\ (Counts(c, e) => blamed')
  BY Zenon, <1>1
<1>3. stage' \in [Callers -> Stages] /\ err' \in [Callers -> Errors \cup {"ok"}]
  BY DEF Goto, Stages
<1>4. \A d \in Callers : Counts(d, err[d])' => blamed'
  BY <1>2 DEF Counts
<1> QED
  BY <1>2, <1>3, <1>4

\* The bulkhead lets a call in, or refuses it.
LEMMA EnterSide == ASSUME IInv, PartsOK, NEW c \in Callers, Enter(c) PROVE IInv'
<1> USE DEF IInv, OwnTypes, PartsOK
<1>1. UNCHANGED <<state, at, done, attempt, tries>> /\ stage[c] = "enter"
  BY DEF Enter, In, breakerVars, BH!Enter
<1>2. CASE place' = [place EXCEPT ![c] = "entered"]
  <2>1. stage' = [stage EXCEPT ![c] = "held"] /\ UNCHANGED <<err, blamed>>
    BY <1>2 DEF Enter, Goto
  <2> QED
    BY <1>1, <1>2, <2>1 DEF Position, Blame, Counts, Stages
<1>3. CASE done[c] /\ place' = [place EXCEPT ![c] = "idle"] /\ result'[c] = "ctx"
  <2>1. Ended(c, "ctx")
    BY <1>3 DEF Enter
  <2>2. stage' = [stage EXCEPT ![c] = "judge"] /\ err' = [err EXCEPT ![c] = "ctx"]
    BY <2>1 DEF Ended, Goto
  <2>3. \A d \in Callers : Position(d)'
    BY <1>1, <1>3, <2>2 DEF Position
  <2> QED
    BY <1>1, <1>3, <2>1, <2>3, AttemptEnds DEF Errors
<1> QED
  BY <1>2, <1>3 DEF Enter, BH!Enter, BH!Goto, BH!Return

\* Operations that started in a step, and where the step left the calls.
LEMMA Starts ==
  ASSUME IInv, PartsOK, PartsOK', tries' = Started,
         \A d \in Callers : place[d] # "running" /\ place'[d] = "running"
                              => place[d] \in {"entered", "parked"}
  PROVE  /\ tries' \in [Callers -> Nat]
         /\ \A d \in Callers : tries'[d] <= attempt[d]
         /\ \A d \in Callers : place'[d] # "running" => tries'[d] = tries[d]
  BY DEF IInv, OwnTypes, PartsOK, Started, Position

\* The select of the bulkhead.
LEMMA SelectSide == ASSUME IInv, PartsOK, PartsOK', NEW c \in Callers, Select(c) PROVE IInv'
<1> USE DEF IInv, OwnTypes, PartsOK
<1>1. UNCHANGED <<state, at, done, attempt>> /\ stage[c] = "held" /\ tries' = Started
  BY DEF Select, In, breakerVars, BH!Select, BH!Acquire, BH!CtxDone, BH!TimerFires, BH!Reject,
         BH!Park, BH!Leave
<1>2. /\ place[c] \in {"entered", "parked"}
      /\ \/ \E p \in {"running", "parked"} :
              place' = [place EXCEPT ![c] = p] /\ (p = "parked" => place[c] = "entered")
         \/ /\ place' = [place EXCEPT ![c] = "idle"]
            /\ result'[c] = "full" \/ (result'[c] = "ctx" /\ done[c])
  BY DEF Select, BH!Select, BH!Acquire, BH!CtxDone, BH!TimerFires, BH!Reject,
         BH!Park, BH!Leave, BH!Return, BH!Goto
<1>3. /\ tries' \in [Callers -> Nat]
      /\ \A d \in Callers : tries'[d] <= attempt[d]
      /\ \A d \in Callers : place'[d] # "running" => tries'[d] = tries[d]
  BY <1>1, <1>2, Starts
<1>4. \A d \in Callers \ {c} : place'[d] = place[d] /\ tries'[d] = tries[d]
  BY <1>1, <1>2 DEF Started
<1>5. CASE place'[c] # "idle"
  <2>1. UNCHANGED <<stage, err, blamed>>
    BY <1>5 DEF Select
  <2>2. \A d \in Callers : Position(d)'
    BY <1>1, <1>2, <1>3, <1>4, <1>5, <2>1 DEF Position
  <2> QED
    BY <1>1, <1>3, <2>1, <2>2 DEF Blame, Counts
<1>6. CASE place'[c] = "idle"
  <2>1. Ended(c, result'[c]) /\ result'[c] \in Errors /\ (result'[c] = "ctx" => done[c])
    BY <1>2, <1>6 DEF Select, Errors
  <2>2. /\ stage' = [stage EXCEPT ![c] = "judge"] /\ place' = [place EXCEPT ![c] = "idle"]
        /\ err' = [err EXCEPT ![c] = result'[c]]
    BY <1>2, <1>6, <2>1 DEF Ended, Goto
  <2>3. \A d \in Callers : Position(d)'
    BY <1>1, <1>3, <1>4, <2>2 DEF Position
  <2> QED
    BY <1>1, <1>3, <2>1, <2>3, AttemptEnds
<1> QED
  BY <1>5, <1>6

\* The end of an operation, by a result or a panic, as the bulkhead sees it: its
\* slot is free, or some other call's operation starts in it.
LEMMA Finishing ==
  ASSUME PartsOK, NEW c \in Callers, BH!Finish(c)
  PROVE  /\ place[c] = "running" /\ place'[c] = "idle" /\ UNCHANGED done
         /\ \A d \in Callers \ {c} :
              place'[d] = place[d] \/ (place[d] = "parked" /\ place'[d] = "running")
  BY DEF PartsOK, BH!Finish, BH!Receive, BH!Parked

\* An operation returns.
LEMMA OperationSide ==
  ASSUME IInv, PartsOK, PartsOK', NEW c \in Callers, NEW o \in OpResults, Operation(c, o)
  PROVE  IInv'
<1> USE DEF IInv, OwnTypes, PartsOK
<1>1. UNCHANGED <<state, at, done, attempt>> /\ stage[c] = "held" /\ tries' = Started
  BY DEF Operation, In, breakerVars, BH!Finish
<1>2. /\ place[c] = "running" /\ place'[c] = "idle"
      /\ \A d \in Callers \ {c} :
           place'[d] = place[d] \/ (place[d] = "parked" /\ place'[d] = "running")
  BY Finishing DEF Operation
<1>3. /\ tries' \in [Callers -> Nat]
      /\ \A d \in Callers : tries'[d] <= attempt[d]
      /\ \A d \in Callers : place'[d] # "running" => tries'[d] = tries[d]
  BY <1>1, <1>2, Starts
<1>4. Ended(c, o) /\ o \in Errors \cup {"ok"} /\ (o = "ctx" => done[c])
  BY DEF Operation, OpResults, Errors
<1>5. stage' = [stage EXCEPT ![c] = "judge"] /\ err' = [err EXCEPT ![c] = o]
  BY <1>4 DEF Ended, Goto
<1>6. \A d \in Callers : Position(d)'
  BY <1>1, <1>2, <1>3, <1>5 DEF Position
<1> QED
  BY <1>1, <1>3, <1>4, <1>6, AttemptEnds

\* A call that is over leaves no trace of its attempts.
LEMMA OverSide ==
  ASSUME IInv, NEW c \in Callers, CallOver(c)
  PROVE  /\ stage' = [stage EXCEPT ![c] = "out"] /\ attempt' = [attempt EXCEPT ![c] = 1]
         /\ err' = [err EXCEPT ![c] = "ok"] /\ blamed' = blamed
         /\ stage' \in [Callers -> Stages] /\ attempt' \in [Callers -> 1..maxAttempts]
         /\ err' \in [Callers -> Errors \cup {"ok"}]
  BY Attempts DEF IInv, OwnTypes, CallOver, Goto, Stages

\* An operation panics through every layer.
LEMMA PanicSide ==
  ASSUME IInv, PartsOK, PartsOK', NEW c \in Callers, OperationPanics(c)
  PROVE  IInv'
<1> USE DEF IInv, OwnTypes, PartsOK
<1>1. /\ UNCHANGED <<state, done>> /\ at[c] = "running" /\ at' = [at EXCEPT ![c] = "idle"]
      /\ tries' = [Started EXCEPT ![c] = 0]
  BY DEF OperationPanics, CB!Panic, CB!Ends, CB!At, BH!Finish
<1>2. /\ place[c] = "running" /\ place'[c] = "idle"
      /\ \A d \in Callers \ {c} :
           place'[d] = place[d] \/ (place[d] = "parked" /\ place'[d] = "running")
  BY Finishing DEF OperationPanics
<1>3. /\ stage' = [stage EXCEPT ![c] = "out"] /\ attempt' = [attempt EXCEPT ![c] = 1]
      /\ err' = [err EXCEPT ![c] = "ok"] /\ blamed' = blamed
      /\ stage' \in [Callers -> Stages] /\ attempt' \in [Callers -> 1..maxAttempts]
      /\ err' \in [Callers -> Errors \cup {"ok"}]
  BY OverSide DEF OperationPanics
<1>4. /\ tries' \in [Callers -> Nat] /\ tries'[c] = 0
      /\ \A d \in Callers \ {c} : tries'[d] <= attempt[d]
      /\ \A d \in Callers \ {c} : place'[d] # "running" => tries'[d] = tries[d]
  BY <1>1, <1>2 DEF Started, Position
<1>5. \A d \in Callers : Position(d)'
  BY <1>1, <1>2, <1>3, <1>4 DEF Position
<1>6. Blame'
  BY <1>1, <1>3 DEF Blame, Counts
<1> QED
  BY <1>3, <1>4, <1>5, <1>6

\* The breaker records what came of a call.
LEMMA ReportSide == ASSUME IInv, PartsOK, NEW c \in Callers, Report(c) PROVE IInv'
<1> USE DEF IInv, OwnTypes, PartsOK
<1>1. /\ UNCHANGED bulkheadVars /\ at[c] = "running" /\ at' = [at EXCEPT ![c] = "idle"]
      /\ tries' = [tries EXCEPT ![c] = 0] /\ stage[c] = "record"
  BY DEF Report, In, Classify, CB!RecordOk, CB!RecordCancelled, CB!RecordIgnored,
         CB!RecordFailure, CB!Ends, CB!At
<1>2. /\ stage' = [stage EXCEPT ![c] = "out"] /\ attempt' = [attempt EXCEPT ![c] = 1]
      /\ err' = [err EXCEPT ![c] = "ok"] /\ blamed' = blamed
      /\ stage' \in [Callers -> Stages] /\ attempt' \in [Callers -> 1..maxAttempts]
      /\ err' \in [Callers -> Errors \cup {"ok"}]
  BY OverSide DEF Report
<1>3. \A d \in Callers : Position(d)'
  BY <1>1, <1>2 DEF Position, bulkheadVars
<1>4. state' # "closed" => blamed
  <2>1. CASE err[c] = "ok" /\ CB!RecordOk(c)
    BY <2>1 DEF CB!RecordOk, CB!SetState, CB!Closed
  <2>2. CASE CB!RecordCancelled(c) \/ CB!RecordIgnored(c)
    BY <2>2 DEF CB!RecordCancelled, CB!RecordIgnored, CB!ReleaseProbe, Blame
  <2>3. CASE err[c] \notin Waived \cup {"ok"} /\ ~done[c]
    BY <2>3 DEF Blame, Counts
  <2> QED
    BY <2>1, <2>2, <2>3 DEF Report, Classify
<1> QED
  BY <1>1, <1>2, <1>3, <1>4 DEF Blame, Counts, bulkheadVars

\* Contexts and time.
LEMMA OutsideSide ==
  ASSUME IInv, PartsOK, Tick \/ \E c \in Callers : Cancel(c) \/ NewContext(c)
  PROVE  IInv'
<1> USE DEF IInv, OwnTypes, PartsOK
<1>1. UNCHANGED <<state, at, place, callVars>>
  BY DEF Tick, Cancel, NewContext, breakerVars, bulkheadVars, CB!Tick, BH!Tick, BH!Cancel,
         BH!NewContext
<1>2. \A d \in Callers : Position(d)'
  BY <1>1 DEF Position, callVars
<1>3. Blame'
  <2>1. CASE UNCHANGED done
    BY <1>1, <2>1 DEF Blame, Counts, callVars
  <2>2. ASSUME NEW c \in Callers, done' = [done EXCEPT ![c] = TRUE] PROVE Blame'
    BY <1>1, <2>2 DEF Blame, Counts, callVars
  <2>3. ASSUME NEW c \in Callers, NewContext(c) PROVE Blame'
    <3>1. err[c] = "ok" /\ done' = [done EXCEPT ![c] = FALSE]
      BY <2>3 DEF NewContext, BH!NewContext, Position
    <3> QED
      BY <1>1, <3>1 DEF Blame, Counts, callVars
  <2> QED
    BY <2>1, <2>2, <2>3 DEF Tick, Cancel, BH!Cancel, BH!Tick, bulkheadVars
<1> QED
  BY <1>1, <1>2, <1>3 DEF callVars

\* The inductive invariant holds in every reachable state.
THEOREM Safety == Spec => []IInv
<1>1. Init => IInv
  <2> SUFFICES ASSUME Init PROVE IInv
    OBVIOUS
  <2>1. /\ state = "closed" /\ at = [c \in Callers |-> "idle"]
        /\ place = [c \in Callers |-> "idle"]
    BY DEF Init, CB!Init, BH!Init, CB!Closed
  <2>2. OwnTypes
    <3>1. blamed \in BOOLEAN
      BY Zenon DEF Init
    <3>2. 1 \in 1..maxAttempts
      BY Attempts
    <3> QED
      BY <3>1, <3>2 DEF Init, OwnTypes, Stages
  <2>3. \A c \in Callers : Position(c)
    BY <2>1 DEF Init, Position
  <2>4. Blame
    BY <2>1 DEF Init, Blame, Counts
  <2> QED
    BY <2>2, <2>3, <2>4 DEF IInv
<1>2. IInv /\ PartsOK /\ PartsOK' /\ [Next]_vars => IInv'
  <2> SUFFICES ASSUME IInv, PartsOK, PartsOK', [Next]_vars PROVE IInv'
    OBVIOUS
  <2>1. CASE UNCHANGED vars
    BY <2>1 DEF vars, breakerVars, bulkheadVars, callVars, IInv, OwnTypes, Position, Blame, Counts
  <2>2. CASE Tick
    BY <2>2, OutsideSide
  <2>3. ASSUME NEW c \in Callers,
               Arrive(c) \/ ReadState(c) \/ Proceed(c) \/ Cancel(c) \/ NewContext(c)
        PROVE  IInv'
    BY <2>3, BreakerSide, LoopSide, EnterSide, SelectSide, OperationSide, PanicSide, ReportSide,
       OutsideSide DEF Proceed
  <2> QED
    BY <2>1, <2>2, <2>3 DEF Next
<1>3. CB!TypeOK /\ BH!TypeOK => PartsOK
  BY PartsFollow
<1> QED
  BY <1>1, <1>2, <1>3, PartTypes, PTL DEF Spec

\* Every variable keeps its type, and a call starts an operation at most once for
\* each of the attempts that its retry policy grants.
THEOREM TypeCorrect == Spec => []TypeOK
<1>1. CB!TypeOK /\ BH!TypeOK /\ IInv => TypeOK
  BY Attempts DEF IInv, OwnTypes, Position, TypeOK
<1> QED
  BY <1>1, PartTypes, Safety, PTL

\* A slot of the bulkhead is held only inside a call that the breaker admitted
\* and has not recorded.
THEOREM SlotsInside == Spec => []SlotsInsideBreaker
<1>1. IInv => SlotsInsideBreaker
  BY DEF IInv, Position, SlotsInsideBreaker
<1> QED
  BY <1>1, Safety, PTL

\* The circuit leaves closed only after an attempt ended in an error that
\* counts.
THEOREM Blameless == Spec => []OpensOnlyWhenBlamed
<1>1. IInv => OpensOnlyWhenBlamed
  BY DEF IInv, Blame, OpensOnlyWhenBlamed
<1> QED
  BY <1>1, Safety, PTL
=============================================================================
