--------------------------- MODULE RuntimeMetrics ---------------------------
(***************************************************************************)
(* The callback of startRuntimeMetrics in telemetry/metrics.go: it reads   *)
(* the garbage collector's counter and its ring of recent pauses, and the  *)
(* CPU time of the process, and observes what is new since it last ran.    *)
(* The callbacks of a reader run one after the other.                      *)
(***************************************************************************)
EXTENDS Integers

CONSTANTS
  Ring,       \* pauses the runtime keeps (256)
  Modulus,    \* of the runtime's counter (2^32)
  MaxCycles,  \* bound: garbage collections
  MaxCPU      \* bound: CPU time

ASSUME RingAssumption ==
  /\ Ring \in Nat \ {0} /\ Modulus \in Nat \ {0} /\ Modulus % Ring = 0 /\ Ring < Modulus
  /\ MaxCycles \in Nat /\ MaxCPU \in Nat

VARIABLES
  cycles,     \* history: garbage collections so far
  numGC,      \* MemStats.NumGC
  pauseNs,    \* MemStats.PauseNs: the number of the cycle in each place
  lastNumGC,
  seen,       \* history: cycles when the callback last ran
  observed,   \* observed[c]: how often the pause of cycle c was recorded
  cpu,        \* CPU time of the process
  prevCPU,    \* prevCPUNs
  cpuInit,
  cpuSeen,    \* history: the CPU time in the ratios observed
  cpuSkipped  \* history: the CPU time nobody observed

gcVars == <<cycles, numGC, pauseNs, lastNumGC, seen, observed>>
cpuVars == <<cpu, prevCPU, cpuInit, cpuSeen, cpuSkipped>>
vars == <<gcVars, cpuVars>>

Init ==
  /\ cycles = 0 /\ numGC = 0 /\ lastNumGC = 0 /\ seen = 0
  /\ pauseNs = [i \in 0..(Ring - 1) |-> 0]
  /\ observed = [c \in 0..MaxCycles |-> 0]
  /\ cpu = 0 /\ prevCPU = 0 /\ cpuInit = FALSE /\ cpuSeen = 0 /\ cpuSkipped = 0

(* The runtime; its counter does not come round between two callbacks.     *)
GC ==
  /\ cycles < MaxCycles /\ cycles - seen < Modulus - 1
  /\ cycles' = cycles + 1
  /\ numGC' = (numGC + 1) % Modulus
  /\ pauseNs' = [pauseNs EXCEPT ![(numGC' + Ring - 1) % Ring] = cycles']
  /\ UNCHANGED <<lastNumGC, seen, observed, cpuVars>>

Work ==
  /\ cpu < MaxCPU
  /\ cpu' = cpu + 1
  /\ UNCHANGED <<gcVars, prevCPU, cpuInit, cpuSeen, cpuSkipped>>

\* A slip: the whole ring is read.
FreshAll == IF numGC # lastNumGC THEN Ring ELSE 0

(* How many pauses are new, as far as the ring goes.                       *)
Fresh ==
  LET delta == (numGC - lastNumGC) % Modulus IN IF delta > Ring THEN Ring ELSE delta

CollectPauses ==
  /\ LET read == {pauseNs[((numGC - i) % Modulus) % Ring] : i \in 1..Fresh}
     IN observed' = [c \in DOMAIN observed |-> observed[c] + (IF c \in read THEN 1 ELSE 0)]
  /\ lastNumGC' = numGC
  /\ seen' = cycles
  /\ UNCHANGED <<cycles, numGC, pauseNs>>

\* A slip: the sample is kept only when it was observed.
SampleKept(ahead) ==
  /\ cpuSeen' = cpuSeen + (IF cpuInit /\ ahead THEN cpu - prevCPU ELSE 0)
  /\ cpuSkipped' = cpuSkipped + (IF cpuInit /\ ahead THEN 0 ELSE cpu - prevCPU)
  /\ prevCPU' = (IF cpuInit /\ ~ahead THEN prevCPU ELSE cpu)
  /\ cpuInit' = TRUE

(* The ratio needs an earlier sample and a wall clock ahead of it; the new *)
(* sample replaces the old one in any case.                                *)
Sample(ahead) ==
  /\ cpuSeen' = cpuSeen + (IF cpuInit /\ ahead THEN cpu - prevCPU ELSE 0)
  /\ cpuSkipped' = cpuSkipped + (IF cpuInit /\ ahead THEN 0 ELSE cpu - prevCPU)
  /\ prevCPU' = cpu
  /\ cpuInit' = TRUE

(* The callback; /proc may not be readable, and the clock may be set back. *)
Collect ==
  /\ CollectPauses
  /\ \/ \E ahead \in BOOLEAN : Sample(ahead)
     \/ UNCHANGED <<prevCPU, cpuInit, cpuSeen, cpuSkipped>>
  /\ UNCHANGED cpu

Next == GC \/ Work \/ Collect

Spec == Init /\ [][Next]_vars

-----------------------------------------------------------------------------

\* Each run of the callback records the pauses of exactly the cycles since the
\* run before, the oldest given up when the ring has lost them, across every
\* turn of the ring and of the counter; so no pause is recorded twice.
PausesOnce ==
  LET oldest == IF cycles - seen > Ring THEN cycles - Ring + 1 ELSE seen + 1
  IN observed' = [c \in DOMAIN observed |-> IF c \in oldest..cycles THEN 1 ELSE observed[c]]

\* CPU time goes into one ratio or, before the first sample and over a step
\* back of the clock, into none: never into two.
CPUOnce == cpuSeen + cpuSkipped = prevCPU

SamplesOnce == [][Collect => PausesOnce /\ CPUOnce']_vars
=============================================================================
