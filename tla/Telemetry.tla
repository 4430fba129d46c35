------------------------------ MODULE Telemetry ------------------------------
(***************************************************************************)
(* The life of a Telemetry instance (telemetry/telemetry.go, with          *)
(* buildLogger, buildTracer, buildMeter and installErrorHandler): it is    *)
(* built provider by provider, flushed, and closed once, all providers in  *)
(* parallel, while their exporters report failures to the error handler.   *)
(***************************************************************************)
EXTENDS Naturals, Sequences, FiniteSets

CONSTANTS
  Order,    \* the signals, in the order they are built and their errors joined
  Logs,     \* the signal the handler's lines go to
  Callers,  \* goroutines, each of which calls Close once
  Errors,   \* occurrences of an export error, for the handler
  Window    \* errorLogWindow

Providers == {Order[i] : i \in DOMAIN Order}

ASSUME OrderAssumption == Order \in Seq(Providers) /\ Logs \in Providers

\* The value of shutdownErr, as long as nobody may read it.
Unsettled == <<"unsettled">>

VARIABLES
  otlp,         \* an endpoint is configured: providers have exporters
  phase,        \* NewWithOptions: "building", "ready", or "failed"
  state,        \* state[p]: "absent", "up", "flushing", "stopping", "down"
  expired,      \* expired[p]: the deadline Close gave p has passed
  failed,       \* failed[p]: Close's slot for p holds an error
  data,         \* data[p]: what was recorded before Close is "none", waits as
                \* "some", or was lost: to a failed Close as "lost", to a failed
                \* ForceFlush, whose caller is "told", or with the error e
  once,         \* shutdownOnce: "free", "running", "done"
  shutdownErr,  \* the providers whose errors Close joins
  pc,           \* pc[c]: "idle", "lead", "wait", "over"
  answer,       \* answer[c]: what c's Close has returned
  age, suppressed, line, fate  \* of the error handler

own == <<otlp, phase, state, expired, failed, data, once, shutdownErr, pc, answer>>
handler == <<age, suppressed, line, fate>>
vars == <<own, handler>>

H == INSTANCE ErrorHandler WITH Reporters <- Providers

ASSUME HandlerAssumption == H!Parameters

\* What may have become of the data, an error's name aside.
Marks == {"none", "some", "lost", "told"}

ASSUME ErrorsAssumption == Errors \cap Marks = {}

Init ==
  /\ otlp \in BOOLEAN
  /\ phase = "building"
  /\ state = [p \in Providers |-> "absent"]
  /\ expired = [p \in Providers |-> FALSE]
  /\ failed = [p \in Providers |-> FALSE]
  /\ data = [p \in Providers |-> "none"]
  /\ once = "free"
  /\ shutdownErr = Unsettled
  /\ pc = [c \in Callers |-> "idle"]
  /\ answer = [c \in Callers |-> Unsettled]
  /\ H!Init

-----------------------------------------------------------------------------
(* Construction, by one goroutine.                                         *)

\* The position of the provider that is built next.
NextToBuild == 1 + Cardinality({p \in Providers : state[p] # "absent"})

(* The handler is installed and the instance handed out after the last     *)
(* one.                                                                    *)
Build ==
  /\ phase = "building"
  /\ state' = [state EXCEPT ![Order[NextToBuild]] = "up"]
  /\ phase' = IF NextToBuild = Len(Order) THEN "ready" ELSE "building"
  /\ UNCHANGED <<otlp, expired, failed, data, once, shutdownErr, pc, answer, handler>>

(* An exporter that cannot be made ends the construction: the providers    *)
(* built before are up, and the caller gets nothing to close them with.    *)
BuildFails ==
  /\ phase = "building" /\ otlp
  /\ phase' = "failed"
  /\ UNCHANGED <<otlp, state, expired, failed, data, once, shutdownErr, pc, answer, handler>>

-----------------------------------------------------------------------------
(* The providers at work.                                                  *)

Running(p) == phase = "ready" /\ state[p] \in {"up", "flushing", "stopping"}

\* What is recorded through p from now on, if Close has not begun.
Recorded(p) ==
  IF otlp /\ once = "free" /\ data[p] = "none" THEN [data EXCEPT ![p] = "some"] ELSE data

Emit(p) ==
  /\ phase = "ready" /\ state[p] = "up"
  /\ Recorded(p) # data
  /\ data' = Recorded(p)
  /\ UNCHANGED <<otlp, phase, state, expired, failed, once, shutdownErr, pc, answer, handler>>

\* What becomes of p's data when an export ends well or badly.
Exported(p, ok, blame) ==
  IF data[p] # "some" THEN data ELSE [data EXCEPT ![p] = IF ok THEN "none" ELSE blame]

(* The SDK exports by itself.                                              *)
Export(p) ==
  /\ Running(p) /\ data[p] = "some"
  /\ data' = Exported(p, TRUE, "none")
  /\ UNCHANGED <<otlp, phase, state, expired, failed, once, shutdownErr, pc, answer, handler>>

\* Occurrences of errors are interchangeable: one that is still to come.
NextError == CHOOSE e \in Errors : fate[e] = "new"

(* A failure goes to the error handler and to nobody else: whether anyone   *)
(* learns of the loss is up to the handler, which may only count it.       *)
ExportFails(p) ==
  /\ Running(p) /\ otlp
  /\ H!At("new") # {}
  /\ data' = Exported(p, FALSE, NextError)
  /\ H!Handle(p, NextError)
  /\ UNCHANGED <<otlp, phase, state, expired, failed, once, shutdownErr, pc, answer>>

(* The handler's line goes to standard output, and is a log record itself,  *)
(* which nobody keeps when Close has begun.                                *)
WriteLine(p) ==
  /\ H!WriteLine(p)
  /\ data' = Recorded(Logs)
  /\ UNCHANGED <<otlp, phase, state, expired, failed, once, shutdownErr, pc, answer>>

(* One goroutine of a ForceFlush, which asks every provider at once and     *)
(* hands their errors to its caller, without keeping anything.  A provider  *)
(* that is down has nothing to flush.                                      *)
ForceFlush(p, ok) ==
  /\ Running(p) /\ data[p] = "some"
  /\ data' = Exported(p, ok, "told")
  /\ UNCHANGED <<otlp, phase, state, expired, failed, once, shutdownErr, pc, answer, handler>>

-----------------------------------------------------------------------------
(* Close.                                                                  *)

(* once.Do: the first call starts one goroutine per provider, the others   *)
(* wait for it.                                                            *)
Close(c) ==
  /\ phase = "ready" /\ pc[c] = "idle"
  /\ \/ /\ once = "free"
        /\ once' = "running"
        /\ pc' = [pc EXCEPT ![c] = "lead"]
        /\ state' = [p \in Providers |-> "flushing"]
     \/ /\ once # "free"
        /\ pc' = [pc EXCEPT ![c] = "wait"]
        /\ UNCHANGED <<once, state>>
  /\ UNCHANGED <<otlp, phase, expired, failed, data, shutdownErr, answer, handler>>

\* A slip: the deadline covers the flush only.
DeadlineOfFlush(p) ==
  /\ state[p] = "flushing"
  /\ ~expired[p]
  /\ expired' = [expired EXCEPT ![p] = TRUE]
  /\ UNCHANGED <<otlp, phase, state, failed, data, once, shutdownErr, pc, answer, handler>>

\* context.WithTimeout, one per provider, detached from the caller's context.
Deadline(p) ==
  /\ state[p] \in {"flushing", "stopping"}
  /\ ~expired[p]
  /\ expired' = [expired EXCEPT ![p] = TRUE]
  /\ UNCHANGED <<otlp, phase, state, failed, data, once, shutdownErr, pc, answer, handler>>

\* A slip: the second call's result overwrites the first's.
JoinedLast(p, ok) == [failed EXCEPT ![p] = ~ok]

\* errors.Join: the slot holds an error if either call returned one.
Joined(p, ok) == [failed EXCEPT ![p] = @ \/ ~ok]

(* ForceFlush and then Shutdown, whether or not the first succeeded.       *)
ShutterStep(p, ok) ==
  /\ state[p] \in {"flushing", "stopping"}
  /\ ok \/ otlp
  /\ state' = [state EXCEPT ![p] = IF @ = "flushing" THEN "stopping" ELSE "down"]
  /\ expired' = [expired EXCEPT ![p] = @ /\ state[p] = "flushing"]
  /\ failed' = Joined(p, ok)
  /\ data' = Exported(p, ok, "lost")
  /\ UNCHANGED <<otlp, phase, once, shutdownErr, pc, answer, handler>>

\* A slip: the slots are read before all goroutines are done with them.
LogsDown == state[Logs] = "down"

\* wg.Wait has returned.
AllDown == \A p \in Providers : state[p] = "down"

\* The loop over the slots, in the order of the providers.
Named(f) ==
  LET agg[i \in 0..Len(Order)] ==
        IF i = 0 THEN <<>>
        ELSE IF f[Order[i]] THEN Append(agg[i - 1], Order[i]) ELSE agg[i - 1]
  IN  agg[Len(Order)]

(* The errors are joined for all calls to read.                            *)
Aggregate(c) ==
  /\ pc[c] = "lead" /\ once = "running"
  /\ AllDown
  /\ once' = "done"
  /\ shutdownErr' = Named(failed)
  /\ UNCHANGED <<otlp, phase, state, expired, failed, data, pc, answer, handler>>

CloseReturns(c) ==
  /\ pc[c] \in {"lead", "wait"} /\ once = "done"
  /\ pc' = [pc EXCEPT ![c] = "over"]
  /\ answer' = [answer EXCEPT ![c] = shutdownErr]
  /\ UNCHANGED <<otlp, phase, state, expired, failed, data, once, shutdownErr, handler>>

-----------------------------------------------------------------------------

Tick == H!Tick /\ UNCHANGED own

Next ==
  \/ Build \/ BuildFails \/ Tick
  \/ \E p \in Providers :
       \/ Emit(p) \/ Export(p) \/ ExportFails(p) \/ WriteLine(p) \/ Deadline(p)
       \/ \E ok \in BOOLEAN : ForceFlush(p, ok) \/ ShutterStep(p, ok)
  \/ \E c \in Callers : Close(c) \/ Aggregate(c) \/ CloseReturns(c)

(* Timers fire, goroutines run, and the SDK's calls return at the latest   *)
(* when their deadline has passed; before that nothing is assumed of them. *)
Fairness ==
  /\ \A p \in Providers :
       /\ WF_vars(Deadline(p))
       /\ WF_vars(expired[p] /\ \E ok \in BOOLEAN : ShutterStep(p, ok))
  /\ \A c \in Callers : WF_vars(Aggregate(c)) /\ WF_vars(CloseReturns(c))

Spec == Init /\ [][Next]_vars
FairSpec == Spec /\ Fairness

-----------------------------------------------------------------------------

TypeOK ==
  /\ otlp \in BOOLEAN
  /\ phase \in {"building", "ready", "failed"}
  /\ state \in [Providers -> {"absent", "up", "flushing", "stopping", "down"}]
  /\ expired \in [Providers -> BOOLEAN]
  /\ failed \in [Providers -> BOOLEAN]
  /\ data \in [Providers -> Marks \cup Errors]
  /\ once \in {"free", "running", "done"}
  /\ shutdownErr \in Seq(Providers) \cup {Unsettled}
  /\ pc \in [Callers -> {"idle", "lead", "wait", "over"}]
  /\ answer \in [Callers -> Seq(Providers) \cup {Unsettled}]
  /\ H!TypeOK

\* However many goroutines call Close, in whatever order providers finish or
\* fail: all are shut down, then the errors are settled once in the stable
\* order, and every call returns the same.
S == INSTANCE Shutdown WITH
       Open <- Unsettled,
       down <- [p \in Providers |-> state[p] = "down"],
       failed <- [p \in Providers |-> state[p] = "down" /\ failed[p]],
       settled <- once = "done",
       outcome <- shutdownErr
ImplementsShutdown == S!Spec

\* The handler's account of errors holds while its reporters flush and stop.
ErrorsConserved == H!ErrorsConserved

\* Where the handler has error e: logged, in a line that is about to be, or
\* in the count, which nobody reads before another error opens a window.
Accounted(e) ==
  \/ fate[e] = "told"
  \/ \E r \in Providers : fate[e] = r /\ line[r] # H!NoLine
  \/ fate[e] = "hidden" /\ suppressed > 0

\* What was recorded before Close and not exported has a trace when Close is
\* done.  What Close itself lost is named in its error, what a ForceFlush lost
\* was told to its caller.  What the SDK lost on its own is the handler's, and
\* no more is promised of it than a place in the handler's account: the error
\* may stay in a count that is never logged.
LossesTraced ==
  once = "done" =>
    \A p \in Providers :
      \/ data[p] \in {"none", "told"}
      \/ data[p] \in Errors /\ Accounted(data[p])
      \/ data[p] = "lost" /\ p \in {shutdownErr[i] : i \in DOMAIN shutdownErr}

\* Close returns, although providers may hang until their deadlines.
CloseEnds == \A c \in Callers : pc[c] \in {"lead", "wait"} ~> pc[c] = "over"
=============================================================================
