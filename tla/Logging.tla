------------------------------- MODULE Logging -------------------------------
(***************************************************************************)
(* The way of a log record through the cores of telemetry/logging.go and   *)
(* telemetry/contract.go: where one call writes it and how often it counts *)
(* it in log_errors_total.  What the record says is left out.              *)
(***************************************************************************)
EXTENDS Integers

TraceLevel == 0 - 2
InfoLevel == 0
ErrorLevel == 2
CriticalLevel == 3
Levels == TraceLevel..CriticalLevel

\* What a call does: lines on stdout, records exported, increments.
Nothing == [stdout |-> 0, otlp |-> 0, counted |-> 0]

\* A slip of the hook: the boundary is left out.
HookAbove(level) == IF level > ErrorLevel THEN 1 ELSE 0

\* The hook buildLogger registers counts errors and worse.
Hook(level) == IF level >= ErrorLevel THEN 1 ELSE 0

(* zap: Logger.Check offers the entry to the tee of both cores and, if they *)
(* take it, adds the hook; Write then runs all of them.                    *)
Checked(level, exporting) ==
  [stdout |-> 1, otlp |-> exporting, counted |-> Hook(level)]

(* zap: Write of a core with hooks runs the hooks only, the cores below    *)
(* being served by Check.                                                  *)
WriteHooked(level) == [Nothing EXCEPT !.counted = Hook(level)]

(* log and logIn, for every level but the one that has a name of its own.  *)
Log(level, logLevel, exporting) ==
  IF level < logLevel THEN Nothing ELSE Checked(level, exporting)

(* logNamed, which serves Critical: it writes to the logger's core itself  *)
(* and counts the record, as the hook does.                                *)
LogNamed(logLevel, exporting) ==
  IF CriticalLevel < logLevel THEN Nothing
  ELSE LET w == WriteHooked(CriticalLevel) IN [w EXCEPT !.counted = @ + 1]

\* A slip: nothing is logged for want of an exporter.
EmitExported(level, logLevel, exporting) ==
  IF level < logLevel \/ exporting = 0 THEN Nothing
  ELSE [stdout |-> 1, otlp |-> 1, counted |-> Hook(level)]

(* The contract logger's emit: stdout first; a record nobody exports is    *)
(* neither emitted nor counted.                                            *)
Emit(level, logLevel, exporting) ==
  IF level < logLevel THEN Nothing
  ELSE [stdout |-> 1, otlp |-> exporting, counted |-> exporting * Hook(level)]

\* One call of the API named by api.
Call(api, level, logLevel, exporting) ==
  IF api = "emit" THEN Emit(level, logLevel, exporting)
  ELSE IF level = CriticalLevel THEN LogNamed(logLevel, exporting)
  ELSE Log(level, logLevel, exporting)
=============================================================================
