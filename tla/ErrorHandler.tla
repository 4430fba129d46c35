---------------------------- MODULE ErrorHandler ----------------------------
(***************************************************************************)
(* The handler that installErrorHandler gives to the OpenTelemetry SDK     *)
(* (telemetry/errorhandler.go).  Exporters report their failures through   *)
(* it, from goroutines of their own.  One error per window is logged, with *)
(* the number of errors suppressed since the line before; the decision is  *)
(* taken under the mutex, the line is written after it is released.        *)
(***************************************************************************)
EXTENDS Integers, FiniteSets

CONSTANTS
  Reporters,  \* goroutines that report errors
  Errors,     \* occurrences of an error: each is reported once
  Window      \* errorLogWindow, in ticks of the model's clock

\* Assumed of the constants by whoever instantiates the handler.
Parameters ==
  /\ Window \in Nat
  /\ IsFiniteSet(Errors)
  /\ Reporters \cap {"new", "hidden", "told"} = {}

VARIABLES
  age,         \* time since `last`, cut at Window, which also stands for never
  suppressed,  \* the counter of the code
  line,        \* line[r]: the count r is about to log, NoLine when it logs nothing
  fate         \* history: where each error stands, fate[e] = r while r logs it

vars == <<age, suppressed, line, fate>>

NoLine == 0 - 1

\* The errors that stand at f: not reported, counted, in r's line, or logged.
At(f) == {e \in Errors : fate[e] = f}

Init ==
  /\ age = Window
  /\ suppressed = 0
  /\ line = [r \in Reporters |-> NoLine]
  /\ fate = [e \in Errors |-> "new"]

-----------------------------------------------------------------------------

(* Within the window an error is only counted. *)
Suppress(r, e) ==
  /\ age < Window
  /\ suppressed' = suppressed + 1
  /\ fate' = [fate EXCEPT ![e] = "hidden"]
  /\ UNCHANGED <<age, line>>

(* A slip: the count is not reset when a line takes it. *)
AnnounceKeepsCount(r, e) ==
  /\ age >= Window
  /\ age' = 0
  /\ line' = [line EXCEPT ![r] = suppressed]
  /\ fate' = [x \in Errors |-> IF x = e \/ fate[x] = "hidden" THEN r ELSE fate[x]]
  /\ UNCHANGED suppressed

(* Otherwise it opens a window and takes the count with it. *)
Announce(r, e) ==
  /\ age >= Window
  /\ age' = 0
  /\ line' = [line EXCEPT ![r] = suppressed]
  /\ suppressed' = 0
  /\ fate' = [x \in Errors |-> IF x = e \/ fate[x] = "hidden" THEN r ELSE fate[x]]

Handle(r, e) ==
  /\ line[r] = NoLine
  /\ fate[e] = "new"
  /\ Suppress(r, e) \/ Announce(r, e)

(* The line is written outside the mutex. *)
WriteLine(r) ==
  /\ line[r] # NoLine
  /\ line' = [line EXCEPT ![r] = NoLine]
  /\ fate' = [x \in Errors |-> IF fate[x] = r THEN "told" ELSE fate[x]]
  /\ UNCHANGED <<age, suppressed>>

Tick ==
  /\ age < Window
  /\ age' = age + 1
  /\ UNCHANGED <<suppressed, line, fate>>

Next ==
  \/ \E r \in Reporters : (\E e \in Errors : Handle(r, e)) \/ WriteLine(r)
  \/ Tick

Spec == Init /\ [][Next]_vars

-----------------------------------------------------------------------------

TypeOK ==
  /\ age \in 0..Window
  /\ suppressed \in Nat
  /\ line \in [Reporters -> Nat \cup {NoLine}]
  /\ fate \in [Errors -> Reporters \cup {"new", "hidden", "told"}]

(* Every error is accounted for by one report.  The counter is the number  *)
(* of errors no line has taken yet, and the line a goroutine is writing,   *)
(* possibly while others suppress or announce theirs, says exactly how     *)
(* many errors it stands for: itself and those suppressed before it.       *)
ErrorsConserved ==
  /\ suppressed = Cardinality(At("hidden"))
  /\ \A r \in Reporters :
       Cardinality(At(r)) = IF line[r] = NoLine THEN 0 ELSE line[r] + 1
=============================================================================
