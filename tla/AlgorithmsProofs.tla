-------------------------- MODULE AlgorithmsProofs --------------------------
(***************************************************************************)
(* Theorems about the algorithms: the callback of the runtime metrics, for *)
(* a ring of any size and a counter of any modulus that the size divides;  *)
(* the carrier, for any list of headers; and the delays, for Durations of  *)
(* any width.                                                              *)
(***************************************************************************)
EXTENDS MCAlgorithms, WellFoundedInduction, NaturalsInduction, SequenceTheorems, TLAPS

-----------------------------------------------------------------------------
(* Division with remainder.                                                *)

\* A number is its quotient times the divisor, and its remainder.
LEMMA Divided ==
  ASSUME NEW m \in Nat \ {0}, NEW x \in Int
  PROVE  x % m \in 0..(m - 1) /\ \E q \in Int : x = q * m + (x % m)
<1>1. x % m \in 0..(m - 1)
  OBVIOUS
<1>2. x \div m \in Int /\ x = (x \div m) * m + (x % m)
  OBVIOUS
<1> QED
  BY <1>1, <1>2

\* Multiples of the divisor do not count.
LEMMA Multiples ==
  ASSUME NEW m \in Nat \ {0}, NEW q \in Int, NEW x \in Int
  PROVE  (q * m + x) % m = x % m
<1>1. PICK k \in Int : x = k * m + (x % m)
  BY Divided
<1>2. q * m + x = (q + k) * m + (x % m)
  BY <1>1
<1>3. x % m \in 0..(m - 1) /\ q + k \in Int
  BY Divided
<1>4. ASSUME NEW a \in Int, NEW r \in 0..(m - 1) PROVE (a * m + r) % m = r
  OBVIOUS
<1> QED
  BY <1>2, <1>3, <1>4

\* A remainder may be taken early, by the divisor or a multiple of it.
LEMMA Early ==
  ASSUME NEW m \in Nat \ {0}, NEW k \in Nat \ {0}, NEW x \in Int, NEW d \in Int
  PROVE  ((x % (k * m)) + d) % m = (x + d) % m
<1>1. k * m \in Nat \ {0}
  OBVIOUS
<1>2. PICK q \in Int : x = q * (k * m) + (x % (k * m))
  BY <1>1, Divided
<1>3. x % (k * m) \in Int
  BY <1>1
<1> DEFINE r == x % (k * m)
<1> HIDE DEF r
<1>4. x = q * (k * m) + r /\ r \in Int
  BY <1>2, <1>3 DEF r
<1>5. q * (k * m) = (q * k) * m
  OBVIOUS
<1>6. x + d = (q * k) * m + (r + d) /\ q * k \in Int /\ r + d \in Int
  BY <1>4, <1>5
<1>7. ((q * k) * m + (r + d)) % m = (r + d) % m
  BY <1>6, Multiples, ZenonT(60)
<1> QED
  BY <1>6, <1>7 DEF r

\* Two numbers less than the divisor apart have different remainders.
LEMMA Apart ==
  ASSUME NEW m \in Nat \ {0}, NEW x \in Int, NEW y \in Int, x < y, y - x < m
  PROVE  x % m # y % m
<1>1. PICK q \in Int : x = q * m + (x % m)
  BY Divided
<1>2. PICK k \in Int : y = k * m + (y % m)
  BY Divided
<1>3. ASSUME x % m = y % m PROVE FALSE
  <2>1. y - x = (k - q) * m /\ x % m \in Int
    BY <1>1, <1>2, <1>3, Divided
  <2>2. k - q \in Int /\ (k - q <= 0 \/ k - q >= 1)
    OBVIOUS
  <2>3. ASSUME NEW a \in Int, a <= 0 \/ a >= 1 PROVE a * m <= 0 \/ a * m >= m
    BY <2>3
  <2> QED
    BY <2>1, <2>2, <2>3
<1> QED
  BY <1>3

\* The constants; the modulus is a multiple of the ring.
LEMMA Whole ==
  /\ Ring \in Nat \ {0} /\ Modulus \in Nat \ {0} /\ Ring < Modulus
  /\ MaxCycles \in Nat /\ MaxCPU \in Nat
  /\ \E k \in Nat \ {0} : Modulus = k * Ring
<1>1. Ring \in Nat \ {0} /\ Modulus \in Int
  BY RingAssumption
<1>2. PICK k \in Int : Modulus = k * Ring + (Modulus % Ring)
  BY <1>1, Divided, ZenonT(60)
<1>3. Modulus = k * Ring
  BY <1>2, RingAssumption
<1>4. k > 0
  <2>1. ASSUME k <= 0 PROVE k * Ring <= 0
    BY <2>1, RingAssumption
  <2> QED
    BY <1>3, <2>1, RingAssumption
<1> QED
  BY <1>3, <1>4, RingAssumption

\* The runtime counts modulo Modulus; its ring does not notice.
LEMMA Turns ==
  ASSUME NEW x \in Int, NEW d \in Int
  PROVE  /\ ((x % Modulus) + d) % Modulus = (x + d) % Modulus
         /\ ((x % Modulus) + d) % Ring = (x + d) % Ring
<1>1. PICK k \in Nat \ {0} : Modulus = k * Ring
  BY Whole
<1>2. Ring \in Nat \ {0} /\ Modulus \in Nat \ {0} /\ 1 \in Nat \ {0} /\ 1 * Modulus = Modulus
  BY Whole
<1>3. ((x % (1 * Modulus)) + d) % Modulus = (x + d) % Modulus
  BY <1>2, Early, ZenonT(60)
<1>4. ((x % (k * Ring)) + d) % Ring = (x + d) % Ring
  BY <1>2, Early, ZenonT(60)
<1> QED
  BY <1>1, <1>2, <1>3, <1>4, ZenonT(60)

-----------------------------------------------------------------------------
(* The runtime metrics.                                                    *)

Types ==
  /\ cycles \in 0..MaxCycles /\ seen \in 0..cycles
  /\ numGC \in Nat /\ lastNumGC \in Nat
  /\ pauseNs \in [0..(Ring - 1) -> Nat]
  /\ observed \in [0..MaxCycles -> Nat]
  /\ cpu \in Nat /\ prevCPU \in Nat /\ cpuSeen \in Int /\ cpuSkipped \in Int

\* The counters are those of the cycles, which have not come round since the
\* last callback.
Counters ==
  /\ cycles - seen < Modulus
  /\ numGC = cycles % Modulus /\ lastNumGC = seen % Modulus

\* The ring holds the last cycles, each in its place.
Recent == {c \in 1..cycles : cycles - Ring < c}
RingHolds == \A c \in Recent : pauseNs[(c - 1) % Ring] = c

\* What came after the last callback is yet to be observed.
Unobserved == \A c \in DOMAIN observed : c > seen => observed[c] = 0

IInv == Types /\ Counters /\ RingHolds /\ Unobserved /\ CPUOnce

\* Nothing has happened yet.
LEMMA Start == ASSUME Init PROVE IInv
<1> USE Whole
<1>1. Types
  BY DEF Init, Types
<1>2. 0 % Modulus = 0
  OBVIOUS
<1>3. Counters /\ Unobserved /\ CPUOnce
  BY <1>2 DEF Init, Counters, Unobserved, CPUOnce
<1>4. RingHolds
  BY DEF Init, RingHolds, Recent
<1> QED
  BY <1>1, <1>3, <1>4 DEF IInv

\* Another cycle goes into the place of the one that falls out of the ring.
LEMMA Collected == ASSUME IInv, GC PROVE IInv'
<1>1. /\ Ring \in Nat \ {0} /\ Modulus \in Nat \ {0} /\ MaxCycles \in Nat
      /\ cycles \in Nat /\ seen \in Nat /\ seen <= cycles
  BY Whole DEF IInv, Types
<1>2. /\ cycles < MaxCycles /\ cycles - seen < Modulus - 1 /\ cycles' = cycles + 1
      /\ numGC' = (numGC + 1) % Modulus /\ seen' = seen /\ lastNumGC' = lastNumGC
      /\ observed' = observed
      /\ pauseNs' = [pauseNs EXCEPT ![(numGC' + Ring - 1) % Ring] = cycles']
      /\ UNCHANGED cpuVars
  BY DEF GC
<1>3. numGC' = (cycles + 1) % Modulus
  <2>1. cycles \in Int /\ 1 \in Int
    BY <1>1
  <2>2. ((cycles % Modulus) + 1) % Modulus = (cycles + 1) % Modulus
    BY <2>1, Turns, ZenonT(60)
  <2> QED
    BY <1>2, <2>2 DEF IInv, Counters
<1>4. (numGC' + Ring - 1) % Ring = cycles % Ring
  <2>1. 1 \in Int /\ cycles \in Int /\ cycles + 1 \in Int /\ Ring - 1 \in Int
    BY <1>1
  <2>2. (((cycles + 1) % Modulus) + (Ring - 1)) % Ring = ((cycles + 1) + (Ring - 1)) % Ring
    BY <2>1, Turns, ZenonT(60)
  <2>3. (1 * Ring + cycles) % Ring = cycles % Ring
    BY <1>1, <2>1, Multiples, ZenonT(60)
  <2>4. (cycles + 1) + (Ring - 1) = 1 * Ring + cycles
    BY <1>1
  <2>5. (cycles + 1) % Modulus \in Nat
    BY <1>1
  <2>6. numGC' + Ring - 1 = ((cycles + 1) % Modulus) + (Ring - 1)
    BY <1>1, <1>3, <2>5
  <2> QED
    BY <2>2, <2>3, <2>4, <2>6, ZenonT(60)
<1>5. cycles % Ring \in 0..(Ring - 1)
  BY <1>1
<1>6. RingHolds'
  <2> SUFFICES ASSUME NEW c \in 1..(cycles + 1), (cycles + 1) - Ring < c
               PROVE  pauseNs'[(c - 1) % Ring] = c
    BY <1>2 DEF RingHolds, Recent
  <2>1. CASE c = cycles + 1
    BY <1>1, <1>2, <1>4, <1>5, <2>1 DEF IInv, Types
  <2>2. CASE c # cycles + 1
    <3>1. c \in Recent /\ c - 1 \in Int /\ c - 1 < cycles /\ cycles - (c - 1) < Ring
      BY <1>1, <2>2 DEF Recent
    <3>2. (c - 1) % Ring # cycles % Ring /\ (c - 1) % Ring \in 0..(Ring - 1)
      <4>1. cycles \in Int
        BY <1>1
      <4>2. (c - 1) % Ring # cycles % Ring
        BY <1>1, <3>1, <4>1, Apart, ZenonT(60)
      <4> QED
        BY <1>1, <3>1, <4>2
    <3>3. pauseNs[(c - 1) % Ring] = c
      BY <3>1 DEF IInv, RingHolds
    <3> QED
      BY <1>2, <1>4, <3>2, <3>3 DEF IInv, Types
  <2> QED
    BY <2>1, <2>2
<1>7. numGC' \in Nat
  BY <1>1, <1>3
<1>8. Types'
  BY <1>1, <1>2, <1>4, <1>5, <1>7 DEF IInv, Types, cpuVars
<1>9. Counters'
  BY <1>1, <1>2, <1>3 DEF IInv, Counters
<1>10. Unobserved' /\ CPUOnce'
  BY <1>2 DEF IInv, Unobserved, CPUOnce, cpuVars
<1> QED
  BY <1>6, <1>8, <1>9, <1>10 DEF IInv

\* The counter's difference is the number of new cycles.
LEMMA Difference ==
  ASSUME IInv
  PROVE  (numGC - lastNumGC) % Modulus = cycles - seen
<1>1. Modulus \in Nat \ {0} /\ cycles \in Nat /\ seen \in Nat /\ cycles - seen \in 0..(Modulus - 1)
  BY Whole DEF IInv, Types, Counters
<1>2. PICK q \in Int : cycles = q * Modulus + numGC
  <2>1. cycles \in Int /\ numGC = cycles % Modulus
    BY <1>1 DEF IInv, Counters
  <2> QED
    BY <1>1, <2>1, Divided, ZenonT(60)
<1>3. PICK k \in Int : seen = k * Modulus + lastNumGC
  <2>1. seen \in Int /\ lastNumGC = seen % Modulus
    BY <1>1 DEF IInv, Counters
  <2> QED
    BY <1>1, <2>1, Divided, ZenonT(60)
<1>4. numGC \in Nat /\ lastNumGC \in Nat
  BY DEF IInv, Types
<1>5. numGC - lastNumGC = (k - q) * Modulus + (cycles - seen) /\ k - q \in Int
                          /\ cycles - seen \in Int
  BY <1>1, <1>2, <1>3, <1>4
<1>6. ((k - q) * Modulus + (cycles - seen)) % Modulus = (cycles - seen) % Modulus
  BY <1>1, <1>5, Multiples, ZenonT(60)
<1>7. (cycles - seen) % Modulus = cycles - seen
  BY <1>1
<1> QED
  BY <1>5, <1>6, <1>7

\* The callback reads the places of the new cycles that the ring still holds.
LEMMA Reads ==
  ASSUME IInv
  PROVE  /\ Fresh \in 0..cycles /\ Fresh <= Ring
         /\ Fresh = IF cycles - seen > Ring THEN Ring ELSE cycles - seen
         /\ \A i \in 1..Fresh :
              pauseNs[((numGC - i) % Modulus) % Ring] = cycles - i + 1
<1>1. /\ Ring \in Nat \ {0} /\ Modulus \in Nat \ {0}
      /\ cycles \in Nat /\ seen \in Nat /\ seen <= cycles
      /\ numGC = cycles % Modulus
  BY Whole DEF IInv, Types, Counters
<1>2. Fresh = IF cycles - seen > Ring THEN Ring ELSE cycles - seen
  BY Difference DEF Fresh
<1>3. Fresh \in 0..cycles /\ Fresh <= Ring
  BY <1>1, <1>2
<1>4. ASSUME NEW i \in 1..Fresh
      PROVE  pauseNs[((numGC - i) % Modulus) % Ring] = cycles - i + 1
  <2>1. i \in Int /\ i >= 1 /\ i <= cycles /\ i <= Ring
    BY <1>1, <1>3
  <2>2. 0 \in Int /\ cycles \in Int /\ numGC - i \in Int /\ 0 - i \in Int
    BY <1>1, <2>1
  <2>3. (((numGC - i) % Modulus) + 0) % Ring = ((numGC - i) + 0) % Ring
    BY <2>2, Turns, ZenonT(60)
  <2>4. (numGC - i) % Modulus \in Int
    BY <1>1, <2>2
  <2>5. ((numGC - i) % Modulus) % Ring = (numGC - i) % Ring
    BY <2>2, <2>3, <2>4
  <2>6. ((cycles % Modulus) + (0 - i)) % Ring = (cycles + (0 - i)) % Ring
    BY <2>2, Turns, ZenonT(60)
  <2>7. numGC - i = numGC + (0 - i)
    BY <1>1, <2>1
  <2>8. cycles - i + 1 \in Recent /\ (cycles - i + 1) - 1 = cycles + (0 - i)
    BY <1>1, <2>1 DEF Recent
  <2> QED
    BY <1>1, <2>5, <2>6, <2>7, <2>8 DEF IInv, RingHolds
<1> QED
  BY <1>2, <1>3, <1>4

\* So it records exactly these, for the first time.
LEMMA Records == ASSUME IInv, CollectPauses PROVE PausesOnce
<1> DEFINE read == {pauseNs[((numGC - i) % Modulus) % Ring] : i \in 1..Fresh}
           oldest == IF cycles - seen > Ring THEN cycles - Ring + 1 ELSE seen + 1
<1>1. /\ Ring \in Nat \ {0} /\ cycles \in Nat /\ seen \in Nat /\ seen <= cycles
  BY Whole DEF IInv, Types
<1>2. observed' = [c \in DOMAIN observed |-> observed[c] + (IF c \in read THEN 1 ELSE 0)]
  BY DEF CollectPauses
<1>3. read = oldest..cycles
  <2>1. Fresh \in 0..cycles /\ oldest = cycles - Fresh + 1
    BY <1>1, Reads
  <2>2. \A i \in 1..Fresh : pauseNs[((numGC - i) % Modulus) % Ring] = cycles - i + 1
    BY Reads
  <2>3. read = {cycles - i + 1 : i \in 1..Fresh}
    BY <2>2
  <2>4. ASSUME NEW c \in oldest..cycles PROVE c \in {cycles - i + 1 : i \in 1..Fresh}
    <3>1. cycles - c + 1 \in 1..Fresh /\ c = cycles - (cycles - c + 1) + 1
      BY <1>1, <2>1
    <3> QED
      BY <3>1
  <2>5. ASSUME NEW i \in 1..Fresh PROVE cycles - i + 1 \in oldest..cycles
    BY <1>1, <2>1
  <2> QED
    BY <2>3, <2>4, <2>5
<1>4. ASSUME NEW c \in DOMAIN observed
      PROVE  observed[c] + (IF c \in read THEN 1 ELSE 0)
               = IF c \in oldest..cycles THEN 1 ELSE observed[c]
  <2>1. observed[c] \in Nat /\ c \in Nat
    BY Whole DEF IInv, Types
  <2>2. CASE c \in oldest..cycles
    <3>1. c > seen
      BY <1>1, <2>1, <2>2
    <3>2. observed[c] = 0
      BY <3>1 DEF IInv, Unobserved
    <3> QED
      BY <1>3, <2>2, <3>2
  <2>3. CASE c \notin oldest..cycles
    BY <1>3, <2>1, <2>3
  <2> QED
    BY <2>2, <2>3
<1> HIDE DEF read, oldest
<1>5. observed' = [c \in DOMAIN observed |-> IF c \in oldest..cycles THEN 1 ELSE observed[c]]
  BY <1>2, <1>4
<1> QED
  BY <1>5 DEF PausesOnce, oldest

\* After it nothing is new.
LEMMA Observed == ASSUME IInv, Collect PROVE IInv'
<1>1. /\ Ring \in Nat \ {0} /\ MaxCycles \in Nat /\ Modulus \in Nat \ {0}
      /\ cycles \in Nat /\ seen \in Nat /\ seen <= cycles /\ cycles <= MaxCycles
      /\ cpu \in Nat /\ prevCPU \in Nat /\ cpuSeen \in Int /\ cpuSkipped \in Int
      /\ observed \in [0..MaxCycles -> Nat]
  BY Whole DEF IInv, Types
<1>2. /\ cycles' = cycles /\ numGC' = numGC /\ pauseNs' = pauseNs
      /\ lastNumGC' = numGC /\ seen' = cycles /\ cpu' = cpu
  BY DEF Collect, CollectPauses
<1>3. PausesOnce
  BY Records DEF Collect
<1>4. observed' \in [0..MaxCycles -> Nat] /\ \A c \in DOMAIN observed' : c > cycles => observed'[c] = 0
  BY <1>1, <1>3 DEF PausesOnce, IInv, Unobserved
<1>5. cpuSeen' + cpuSkipped' = prevCPU' /\ prevCPU' \in Nat /\ cpuSeen' \in Int /\ cpuSkipped' \in Int
  <2>1. ASSUME NEW ahead \in BOOLEAN, Sample(ahead)
        PROVE  cpuSeen' + cpuSkipped' = prevCPU' /\ prevCPU' \in Nat
               /\ cpuSeen' \in Int /\ cpuSkipped' \in Int
    BY <1>1, <2>1 DEF Sample, IInv, CPUOnce
  <2>2. CASE UNCHANGED <<prevCPU, cpuInit, cpuSeen, cpuSkipped>>
    BY <1>1, <2>2 DEF IInv, CPUOnce
  <2> QED
    BY <2>1, <2>2 DEF Collect
<1>6. Types'
  BY <1>1, <1>2, <1>4, <1>5 DEF IInv, Types
<1>7. Counters'
  BY <1>1, <1>2 DEF IInv, Counters
<1>8. RingHolds'
  BY <1>2 DEF IInv, RingHolds, Recent
<1>9. Unobserved' /\ CPUOnce'
  BY <1>2, <1>4, <1>5 DEF Unobserved, CPUOnce
<1> QED
  BY <1>6, <1>7, <1>8, <1>9 DEF IInv

\* Across every turn of the ring and of the counter each pause is recorded at
\* most once, and lost only if the ring has lost it; and each stretch of CPU
\* time goes into at most one ratio.
THEOREM Samples == Spec => SamplesOnce
<1>1. Init => IInv
  BY Start
<1>2. IInv /\ [Next]_vars => IInv'
  <2> SUFFICES ASSUME IInv, [Next]_vars PROVE IInv'
    OBVIOUS
  <2>1. CASE Work
    <3>1. cpu \in Nat
      BY DEF IInv, Types
    <3> QED
      BY <2>1, <3>1 DEF Work, IInv, Types, Counters, RingHolds, Recent, Unobserved, CPUOnce, gcVars
  <2>2. CASE UNCHANGED vars
    BY <2>2 DEF vars, gcVars, cpuVars, IInv, Types, Counters, RingHolds, Recent, Unobserved, CPUOnce
  <2> QED
    BY <2>1, <2>2, Collected, Observed DEF Next
<1>3. IInv /\ IInv' => (Collect => PausesOnce /\ CPUOnce')
  BY Records DEF Collect, IInv
<1> QED
  BY <1>1, <1>2, <1>3, PTL DEF Spec, SamplesOnce

-----------------------------------------------------------------------------
(* Induction, and loops.                                                   *)

\* Induction over the naturals, for a set.
LEMMA SetOfNaturals ==
  ASSUME NEW T, 0 \in T, \A n \in Nat : n \in T => n + 1 \in T
  PROVE  Nat \subseteq T
<1> SUFFICES ASSUME Nat \ T # {} PROVE FALSE
  OBVIOUS
<1> DEFINE U == Nat \ T
<1>1. PICK x \in U : \A y \in U : <<y, x>> \notin OpToRel(<, Nat)
  BY NatLessThanWellFounded, WFMin
<1>2. x \in Nat /\ x # 0
  BY <1>1
<1>3. x - 1 \in T
  <2> SUFFICES ASSUME x - 1 \in U PROVE FALSE
    BY <1>2
  <2>1. x - 1 \in Nat /\ x - 1 < x
    BY <1>2
  <2> QED
    BY <1>1, <1>2, <2>1 DEF OpToRel
<1>4. (x - 1) + 1 = x /\ x - 1 \in Nat
  BY <1>2
<1> QED
  BY <1>1, <1>3, <1>4

\* Induction up to a bound.
LEMMA UpTo ==
  ASSUME NEW n \in Nat, NEW T, 0 \in T, \A i \in 1..n : i - 1 \in T => i \in T
  PROVE  0..n \subseteq T
<1> DEFINE U == {i \in Nat : i <= n => i \in T}
<1>1. 0 \in U
  OBVIOUS
<1>2. ASSUME NEW i \in Nat, i \in U PROVE i + 1 \in U
  <2> SUFFICES ASSUME i + 1 <= n PROVE i + 1 \in T
    OBVIOUS
  <2>1. i + 1 \in 1..n /\ (i + 1) - 1 = i /\ i \in T
    BY <1>2
  <2> QED
    BY <2>1
<1>3. Nat \subseteq U
  <2> HIDE DEF U
  <2> QED
    BY <1>1, <1>2, SetOfNaturals
<1> QED
  BY <1>3

\* Induction over lists, for a set.
LEMMA SetOfLists ==
  ASSUME NEW S, NEW P, <<>> \in P, \A s \in Seq(S), x \in S : s \in P => Append(s, x) \in P
  PROVE  Seq(S) \subseteq P
<1> DEFINE T == {n \in Nat : \A s \in Seq(S) : Len(s) = n => s \in P}
<1>1. 0 \in T
  OBVIOUS
<1>2. ASSUME NEW n \in Nat, n \in T PROVE n + 1 \in T
  <2> SUFFICES ASSUME NEW s \in Seq(S), Len(s) = n + 1 PROVE s \in P
    OBVIOUS
  <2>1. s # <<>>
    OBVIOUS
  <2>2. PICK t \in Seq(S), x \in S : s = Append(t, x)
    BY <2>1, SequenceEmptyOrAppend
  <2>3. Len(t) = n
    BY <2>2
  <2> QED
    BY <1>2, <2>2, <2>3
<1>3. Nat \subseteq T
  <2> HIDE DEF T
  <2> QED
    BY <1>1, <1>2, SetOfNaturals
<1> QED
  BY <1>3, LenProperties

\* The runs of a loop of n turns over a state in T.
Runs(n, T, first, turn) ==
  {g \in [0..n -> T] : \A i \in 0..n : g[i] = IF i = 0 THEN first ELSE turn[i][g[i - 1]]}

\* There is one.
LEMMA Loop ==
  ASSUME NEW n \in Nat, NEW T, NEW first \in T, NEW turn \in [1..n -> [T -> T]]
  PROVE  Runs(n, T, first, turn) # {}
<1> DEFINE U == {m \in 0..n : Runs(m, T, first, turn) # {}}
<1>1. 0 \in U
  <2>1. [i \in 0..0 |-> first] \in Runs(0, T, first, turn)
    BY DEF Runs
  <2> QED
    BY <2>1
<1>2. ASSUME NEW m \in 1..n, m - 1 \in U PROVE m \in U
  <2>1. PICK g : g \in Runs(m - 1, T, first, turn)
    BY <1>2
  <2>2. g \in [0..(m - 1) -> T] /\ m - 1 \in 0..(m - 1)
    BY <2>1 DEF Runs
  <2> DEFINE more == [i \in 0..m |-> IF i = m THEN turn[m][g[m - 1]] ELSE g[i]]
  <2>3. more \in [0..m -> T]
    BY <2>2
  <2>4. ASSUME NEW i \in 0..m
        PROVE  more[i] = IF i = 0 THEN first ELSE turn[i][more[i - 1]]
    <3>1. CASE i = m
      <4>1. more[i - 1] = g[m - 1] /\ i # 0
        BY <3>1
      <4> QED
        BY <3>1, <4>1
    <3>2. CASE i \in 0..(m - 1)
      <4>1. more[i] = g[i] /\ (i # 0 => more[i - 1] = g[i - 1])
        BY <3>2
      <4>2. g[i] = IF i = 0 THEN first ELSE turn[i][g[i - 1]]
        BY <2>1, <3>2 DEF Runs
      <4> HIDE DEF more
      <4> QED
        BY <4>1, <4>2
    <3> QED
      BY <3>1, <3>2
  <2> HIDE DEF more
  <2>5. more \in Runs(m, T, first, turn)
    BY <2>3, <2>4 DEF Runs
  <2> QED
    BY <2>5
<1>3. 0..n \subseteq U
  <2> HIDE DEF U
  <2> QED
    BY <1>1, <1>2, UpTo
<1> QED
  BY <1>3

-----------------------------------------------------------------------------
(* The loop of the carrier.                                                *)

\* What the loop has kept, turn by turn, and in the end.
Passes(S, s, W) ==
  {g \in [0..Len(s) -> Seq(S)] :
    /\ g[0] = <<>>
    /\ \A i \in 1..Len(s) : g[i] = IF s[i] \in W THEN Append(g[i - 1], s[i]) ELSE g[i - 1]
    /\ K!Filtered(s, W) = g[Len(s)]}

LEMMA Kept ==
  ASSUME NEW S, NEW s \in Seq(S), NEW W
  PROVE  Passes(S, s, W) # {}
<1> DEFINE L == Len(s)
           Body(kept, n) == IF n = 0 THEN <<>>
                            ELSE IF s[n] \in W THEN Append(kept[n - 1], s[n]) ELSE kept[n - 1]
           turn == [i \in 1..L |-> [t \in Seq(S) |-> IF s[i] \in W THEN Append(t, s[i]) ELSE t]]
           chosen == CHOOSE kept : kept = [n \in 0..L |-> Body(kept, n)]
<1>1. L \in Nat /\ \A i \in 1..L : s[i] \in S
  OBVIOUS
<1>2. turn \in [1..L -> [Seq(S) -> Seq(S)]] /\ <<>> \in Seq(S)
  BY <1>1
<1>3. PICK g : g \in Runs(L, Seq(S), <<>>, turn)
  <2> HIDE DEF L, turn
  <2> QED
    BY <1>1, <1>2, Loop
<1>4. /\ g \in [0..L -> Seq(S)]
       /\ \A i \in 0..L : g[i] = IF i = 0 THEN <<>> ELSE turn[i][g[i - 1]]
  <2> HIDE DEF turn
  <2> QED
    BY <1>3 DEF Runs
<1>5. ASSUME NEW i \in 0..L PROVE g[i] = Body(g, i)
  <2>1. CASE i = 0
    BY <1>4, <2>1
  <2>2. CASE i # 0
    <3>1. i \in 1..L /\ g[i - 1] \in Seq(S)
      BY <1>1, <1>4, <2>2
    <3> QED
      BY <1>4, <2>2, <3>1
  <2> QED
    BY <2>1, <2>2
<1>6. g = [i \in 0..L |-> Body(g, i)]
  BY <1>4, <1>5
<1>7. chosen = [i \in 0..L |-> Body(chosen, i)]
  <2> HIDE DEF Body
  <2> QED
    BY <1>6, Zenon
<1>8. K!Filtered(s, W) = chosen[L]
  BY Zenon DEF K!Filtered
<1> HIDE DEF chosen
<1>9. \A i \in 0..L : chosen[i] = g[i]
  <2> DEFINE T == {i \in 0..L : chosen[i] = g[i]}
  <2>1. 0 \in T
    BY <1>1, <1>5, <1>7
  <2>2. ASSUME NEW i \in 1..L, i - 1 \in T PROVE i \in T
    <3>1. i \in 0..L /\ i # 0 /\ chosen[i - 1] = g[i - 1]
      BY <1>1, <2>2
    <3>2. chosen[i] = Body(chosen, i) /\ g[i] = Body(g, i)
      BY <1>5, <1>7, <3>1
    <3> QED
      BY <3>1, <3>2
  <2>3. 0..L \subseteq T
    <3> HIDE DEF T
    <3> QED
      BY <1>1, <2>1, <2>2, UpTo
  <2> QED
    BY <2>3
<1>10. K!Filtered(s, W) = g[L]
  BY <1>1, <1>8, <1>9
<1>11. g[0] = <<>>
  BY <1>1, <1>5
<1>12. ASSUME NEW i \in 1..L PROVE g[i] = IF s[i] \in W THEN Append(g[i - 1], s[i]) ELSE g[i - 1]
  <2>1. i \in 0..L /\ i # 0
    BY <1>1
  <2> QED
    BY <1>5, <2>1
<1> HIDE DEF L
<1>13. g \in Passes(S, s, W)
  BY <1>4, <1>10, <1>11, <1>12 DEF L, Passes
<1> QED
  BY <1>13

\* An empty list has nothing to keep.
LEMMA FilteredEmpty == ASSUME NEW W PROVE K!Filtered(<<>>, W) = <<>>
<1>1. <<>> \in Seq(Nat) /\ Len(<<>>) = 0
  OBVIOUS
<1>2. PICK g : g \in Passes(Nat, <<>>, W)
  BY <1>1, Kept
<1>3. g[0] = <<>> /\ K!Filtered(<<>>, W) = g[Len(<<>>)]
  BY <1>2 DEF Passes
<1> QED
  BY <1>1, <1>3

\* The last of a list is kept last, if it is kept.
LEMMA FilteredAppend ==
  ASSUME NEW S, NEW s \in Seq(S), NEW x \in S, NEW W
  PROVE  K!Filtered(Append(s, x), W) =
           IF x \in W THEN Append(K!Filtered(s, W), x) ELSE K!Filtered(s, W)
<1> DEFINE L == Len(s)
           longer == Append(s, x)
<1>1. /\ L \in Nat /\ longer \in Seq(S) /\ Len(longer) = L + 1
      /\ longer[L + 1] = x /\ \A i \in 1..L : longer[i] = s[i]
  OBVIOUS
<1> HIDE DEF longer
<1>2. PICK g : g \in Passes(S, s, W)
  BY Kept
<1>3. PICK h : h \in Passes(S, longer, W)
  BY <1>1, Kept
<1>4. /\ g[0] = <<>>
      /\ \A i \in 1..L : g[i] = IF s[i] \in W THEN Append(g[i - 1], s[i]) ELSE g[i - 1]
      /\ K!Filtered(s, W) = g[L]
  BY <1>2 DEF Passes
<1>5. /\ h[0] = <<>>
      /\ \A i \in 1..Len(longer) :
           h[i] = IF longer[i] \in W THEN Append(h[i - 1], longer[i]) ELSE h[i - 1]
      /\ K!Filtered(longer, W) = h[Len(longer)]
  BY <1>3 DEF Passes
<1> HIDE DEF L
<1>6. 0..L \subseteq {i \in 0..L : g[i] = h[i]}
  <2> DEFINE T == {i \in 0..L : g[i] = h[i]}
  <2>1. 0 \in T
    BY <1>1, <1>4, <1>5
  <2>2. ASSUME NEW i \in 1..L, i - 1 \in T PROVE i \in T
    <3>1. i \in 0..L /\ i \in 1..Len(longer) /\ longer[i] = s[i] /\ g[i - 1] = h[i - 1]
      BY <1>1, <2>2
    <3> QED
      BY <1>4, <1>5, <3>1
  <2> HIDE DEF T
  <2>3. 0..L \subseteq T
    BY <1>1, <2>1, <2>2, UpTo
  <2> QED
    BY <2>3 DEF T
<1>7. g[L] = h[L] /\ L + 1 \in 1..Len(longer) /\ (L + 1) - 1 = L
  BY <1>1, <1>6
<1>8. h[L + 1] = IF x \in W THEN Append(g[L], x) ELSE g[L]
  BY <1>1, <1>5, <1>7
<1>9. K!Filtered(longer, W) = h[L + 1]
  BY <1>1, <1>5
<1> QED
  BY <1>4, <1>8, <1>9 DEF longer

\* What is kept is a list of the same kind.
LEMMA FilteredType ==
  ASSUME NEW S, NEW s \in Seq(S), NEW W
  PROVE  K!Filtered(s, W) \in Seq(S)
<1>1. PICK g : g \in Passes(S, s, W)
  BY Kept
<1>2. Len(s) \in 0..Len(s)
  BY LenProperties
<1> QED
  BY <1>1, <1>2 DEF Passes

\* Of one.
LEMMA FilteredOne ==
  ASSUME NEW S, NEW x \in S, NEW W, x \in W
  PROVE  K!Filtered(<<x>>, W) = <<x>>
<1> DEFINE none == <<>>
<1>1. none \in Seq(S) /\ Append(none, x) = <<x>> /\ K!Filtered(none, W) = none
  BY FilteredEmpty
<1> HIDE DEF none
<1>2. K!Filtered(Append(none, x), W) = Append(K!Filtered(none, W), x)
  BY <1>1, FilteredAppend
<1> QED
  BY <1>1, <1>2

\* Two loops, one after the other, keep what both keep.
LEMMA FilteredTwice ==
  ASSUME NEW S, NEW s \in Seq(S), NEW A, NEW B
  PROVE  K!Filtered(K!Filtered(s, A), B) = K!Filtered(s, A \cap B)
<1> DEFINE P == {t \in Seq(S) : K!Filtered(K!Filtered(t, A), B) = K!Filtered(t, A \cap B)}
<1>1. <<>> \in P
  <2>1. <<>> \in Seq(S)
    OBVIOUS
  <2> QED
    BY <2>1, FilteredEmpty
<1>2. ASSUME NEW t \in Seq(S), NEW x \in S, t \in P PROVE Append(t, x) \in P
  <2>1. Append(t, x) \in Seq(S) /\ K!Filtered(t, A) \in Seq(S)
    BY FilteredType
  <2>2. K!Filtered(Append(t, x), A) = IF x \in A THEN Append(K!Filtered(t, A), x) ELSE K!Filtered(t, A)
    BY FilteredAppend
  <2>3. K!Filtered(Append(K!Filtered(t, A), x), B) =
          IF x \in B THEN Append(K!Filtered(K!Filtered(t, A), B), x) ELSE K!Filtered(K!Filtered(t, A), B)
    BY <2>1, FilteredAppend
  <2>4. K!Filtered(Append(t, x), A \cap B) =
          IF x \in A \cap B THEN Append(K!Filtered(t, A \cap B), x) ELSE K!Filtered(t, A \cap B)
    BY FilteredAppend
  <2>5. K!Filtered(K!Filtered(t, A), B) = K!Filtered(t, A \cap B)
    BY <1>2
  <2>6. K!Filtered(K!Filtered(Append(t, x), A), B) = K!Filtered(Append(t, x), A \cap B)
    <3>1. CASE x \in A /\ x \in B
      BY <2>2, <2>3, <2>4, <2>5, <3>1
    <3>2. CASE x \in A /\ x \notin B
      BY <2>2, <2>3, <2>4, <2>5, <3>2
    <3>3. CASE x \notin A
      BY <2>2, <2>4, <2>5, <3>3
    <3> QED
      BY <3>1, <3>2, <3>3
  <2> QED
    BY <2>1, <2>6
<1>3. Seq(S) \subseteq P
  <2> HIDE DEF P
  <2> QED
    BY <1>1, <1>2, SetOfLists
<1> QED
  BY <1>3

\* Nothing wanted, nothing kept.
LEMMA FilteredNone ==
  ASSUME NEW S, NEW s \in Seq(S)
  PROVE  K!Filtered(s, {}) = <<>>
<1> DEFINE P == {t \in Seq(S) : K!Filtered(t, {}) = <<>>}
<1>1. <<>> \in P
  <2>1. <<>> \in Seq(S)
    OBVIOUS
  <2> QED
    BY <2>1, FilteredEmpty
<1>2. ASSUME NEW t \in Seq(S), NEW x \in S, t \in P PROVE Append(t, x) \in P
  <2>1. Append(t, x) \in Seq(S)
    OBVIOUS
  <2>2. K!Filtered(Append(t, x), {}) = IF x \in {} THEN Append(K!Filtered(t, {}), x) ELSE K!Filtered(t, {})
    BY FilteredAppend
  <2> QED
    BY <1>2, <2>1, <2>2
<1>3. Seq(S) \subseteq P
  <2> HIDE DEF P
  <2> QED
    BY <1>1, <1>2, SetOfLists
<1> QED
  BY <1>3

\* Another header has another name.
LEMMA HeaderKeysAppend ==
  ASSUME NEW t \in Seq(K!Header), NEW x \in K!Header
  PROVE  /\ K!HeaderKeys(t) \in Seq(Keys \X BOOLEAN)
         /\ K!HeaderKeys(Append(t, x)) = Append(K!HeaderKeys(t), <<x.key, x.lower>>)
<1>1. \A h \in K!Header : h.key \in Keys /\ h.lower \in BOOLEAN
  BY DEF K!Header
<1>2. \A i \in DOMAIN t : <<t[i].key, t[i].lower>> \in Keys \X BOOLEAN
  BY <1>1
<1>3. K!HeaderKeys(t) \in Seq(Keys \X BOOLEAN)
  BY <1>2 DEF K!HeaderKeys
<1> DEFINE longer == K!HeaderKeys(Append(t, x))
           other == Append(K!HeaderKeys(t), <<x.key, x.lower>>)
<1>4. Append(t, x) \in Seq(K!Header) /\ <<x.key, x.lower>> \in Keys \X BOOLEAN
  BY <1>1
<1>5. \A i \in DOMAIN Append(t, x) :
        <<Append(t, x)[i].key, Append(t, x)[i].lower>> \in Keys \X BOOLEAN
  BY <1>1, <1>4
<1>6. longer \in Seq(Keys \X BOOLEAN) /\ Len(longer) = Len(t) + 1
  BY <1>4, <1>5 DEF K!HeaderKeys
<1>7. other \in Seq(Keys \X BOOLEAN) /\ Len(other) = Len(t) + 1
  BY <1>3, <1>4 DEF K!HeaderKeys
<1>8. ASSUME NEW i \in 1..(Len(t) + 1) PROVE longer[i] = other[i]
  BY <1>3, <1>4 DEF K!HeaderKeys
<1>9. longer = other
  <2> HIDE DEF longer, other
  <2> QED
    BY <1>6, <1>7, <1>8, SeqEqual
<1> QED
  BY <1>3, <1>9

\* The names of a key's headers are the names of that key.
LEMMA KeysOfFiltered ==
  ASSUME NEW s \in Seq(K!Header), NEW k \in Keys
  PROVE  K!Filtered(K!HeaderKeys(s), {k} \X BOOLEAN) = K!HeaderKeys(K!Filtered(s, K!Of(k)))
<1> DEFINE Names == {k} \X BOOLEAN
           P == {t \in Seq(K!Header) :
                   K!Filtered(K!HeaderKeys(t), Names) = K!HeaderKeys(K!Filtered(t, K!Of(k)))}
<1>1. K!HeaderKeys(<<>>) = <<>>
  BY DEF K!HeaderKeys
<1>2. <<>> \in P
  <2>1. <<>> \in Seq(K!Header)
    OBVIOUS
  <2> QED
    BY <1>1, <2>1, FilteredEmpty
<1>3. ASSUME NEW t \in Seq(K!Header), NEW x \in K!Header, t \in P PROVE Append(t, x) \in P
  <2> DEFINE name == <<x.key, x.lower>>
  <2>1. /\ x.key \in Keys /\ x.lower \in BOOLEAN
        /\ name \in Names <=> x \in K!Of(k)
    BY DEF K!Header, K!Of
  <2>2. name \in Keys \X BOOLEAN
    BY <2>1
  <2>3. K!HeaderKeys(Append(t, x)) = Append(K!HeaderKeys(t), name) /\ K!HeaderKeys(t) \in Seq(Keys \X BOOLEAN)
    BY HeaderKeysAppend DEF name
  <2> HIDE DEF name, Names
  <2>4. K!Filtered(Append(K!HeaderKeys(t), name), Names) =
          IF name \in Names THEN Append(K!Filtered(K!HeaderKeys(t), Names), name)
          ELSE K!Filtered(K!HeaderKeys(t), Names)
    <3> DEFINE S == Keys \X BOOLEAN
               names == K!HeaderKeys(t)
    <3>1. names \in Seq(S) /\ name \in S
      BY <2>2, <2>3
    <3> HIDE DEF S, names
    <3>2. K!Filtered(Append(names, name), Names) =
            IF name \in Names THEN Append(K!Filtered(names, Names), name) ELSE K!Filtered(names, Names)
      BY <3>1, FilteredAppend
    <3> QED
      BY <3>2 DEF names
  <2>5. K!Filtered(Append(t, x), K!Of(k)) =
          IF x \in K!Of(k) THEN Append(K!Filtered(t, K!Of(k)), x) ELSE K!Filtered(t, K!Of(k))
    BY FilteredAppend
  <2>6. K!Filtered(t, K!Of(k)) \in Seq(K!Header)
    BY FilteredType
  <2>7. K!HeaderKeys(Append(K!Filtered(t, K!Of(k)), x)) = Append(K!HeaderKeys(K!Filtered(t, K!Of(k))), name)
    BY <2>6, HeaderKeysAppend DEF name
  <2>8. K!Filtered(K!HeaderKeys(t), Names) = K!HeaderKeys(K!Filtered(t, K!Of(k)))
    BY <1>3
  <2>9. Append(t, x) \in Seq(K!Header)
    OBVIOUS
  <2>10. K!Filtered(K!HeaderKeys(Append(t, x)), Names) = K!HeaderKeys(K!Filtered(Append(t, x), K!Of(k)))
    BY <2>1, <2>3, <2>4, <2>5, <2>7, <2>8
  <2> QED
    BY <2>9, <2>10
<1>4. Seq(K!Header) \subseteq P
  <2> HIDE DEF P
  <2> QED
    BY <1>2, <1>3, SetOfLists
<1> QED
  BY <1>4

-----------------------------------------------------------------------------
(* The carrier.                                                            *)

\* The one header Set leaves for a key.
Own(k) == [key |-> k, lower |-> TRUE, value |-> written[k]]

\* The headers of a key are the one it was set to, or those it was received with.
Mine(k) ==
  K!Filtered(headers, K!Of(k)) =
    IF written[k] # Unset THEN <<Own(k)>> ELSE K!Filtered(received, K!Of(k))

CarrierInv ==
  /\ received \in Seq(K!Header) /\ headers \in Seq(K!Header)
  /\ written \in [Keys -> Values \cup {Unset}]
  /\ \A k \in Keys : Mine(k)

\* A new carrier holds what it was given.
LEMMA CarrierStart ==
  ASSUME NEW given \in Seq(K!Header), K!NewCarrier(given)
  PROVE  CarrierInv
BY DEF K!NewCarrier, CarrierInv, Mine

\* Whatever it was given.
LEMMA CarrierInit == K!Init => CarrierInv
<1> SUFFICES ASSUME NEW n \in 0..MaxHeaders, NEW given \in [1..n -> K!Header], K!NewCarrier(given)
             PROVE  CarrierInv
  BY DEF K!Init
<1>1. given \in Seq(K!Header)
  OBVIOUS
<1> QED
  BY <1>1, CarrierStart

\* Set replaces the headers of its key and keeps those of the others.
LEMMA CarrierSet ==
  ASSUME NEW k \in Keys, NEW v \in Values, CarrierInv, K!Set(k, v)
  PROVE  CarrierInv'
<1> DEFINE kept == K!Filtered(headers, K!Others(k))
           new == [key |-> k, lower |-> TRUE, value |-> v]
<1>1. /\ received \in Seq(K!Header) /\ headers \in Seq(K!Header)
      /\ written \in [Keys -> Values \cup {Unset}]
  BY DEF CarrierInv
<1>2. headers' = Append(kept, new) /\ written' = [written EXCEPT ![k] = v] /\ received' = received
  BY DEF K!Set, K!Without
<1>3. new \in K!Header
  BY DEF K!Header
<1>4. kept \in Seq(K!Header)
  BY <1>1, FilteredType
<1>5. headers' \in Seq(K!Header) /\ written' \in [Keys -> Values \cup {Unset}]
  BY <1>1, <1>2, <1>3, <1>4
<1>6. ASSUME NEW j \in Keys PROVE Mine(j)'
  <2> HIDE DEF new
  <2>1. K!Filtered(headers', K!Of(j)) =
          IF new \in K!Of(j) THEN Append(K!Filtered(kept, K!Of(j)), new) ELSE K!Filtered(kept, K!Of(j))
    <3> HIDE DEF kept
    <3> QED
      BY <1>2, <1>3, <1>4, FilteredAppend
  <2>2. K!Filtered(kept, K!Of(j)) = K!Filtered(headers, K!Others(k) \cap K!Of(j))
    BY <1>1, FilteredTwice
  <2>3. CASE j = k
    <3>1. new \in K!Of(j) /\ K!Others(k) \cap K!Of(j) = {}
      BY <1>3, <2>3 DEF K!Of, K!Others, new
    <3>2. K!Filtered(headers, {}) = <<>>
      BY <1>1, FilteredNone
    <3>3. K!Filtered(headers', K!Of(j)) = Append(<<>>, new)
      <4> HIDE DEF kept
      <4> QED
        BY <2>1, <2>2, <3>1, <3>2
    <3>4. written'[j] = v /\ v # Unset
      BY <1>1, <1>2, <2>3, ParametersAssumption DEF K!Parameters
    <3> QED
      <4>1. \A x : Append(<<>>, x) = <<x>>
        OBVIOUS
      <4>2. Own(k)' = new
        BY <2>3, <3>4 DEF Own, new
      <4> QED
        BY <2>3, <3>3, <3>4, <4>1, <4>2 DEF Mine
  <2>4. CASE j # k
    <3>1. new \notin K!Of(j) /\ K!Others(k) \cap K!Of(j) = K!Of(j)
      BY <2>4 DEF K!Of, K!Others, new
    <3>2. K!Filtered(headers', K!Of(j)) = K!Filtered(headers, K!Of(j))
      BY <2>1, <2>2, <3>1
    <3>3. written'[j] = written[j] /\ received' = received
      BY <1>1, <1>2, <2>4
    <3>4. Mine(j)
      BY DEF CarrierInv
    <3> QED
      BY <3>2, <3>3, <3>4 DEF Mine, Own
  <2> QED
    BY <2>3, <2>4
<1> QED
  BY <1>1, <1>2, <1>5, <1>6 DEF CarrierInv

\* What Get and Keys then say.
LEMMA CarrierGet == ASSUME CarrierInv PROVE ReadsAsWritten
<1> SUFFICES ASSUME NEW k \in Keys
             PROVE  LET mine == K!Variants(headers, k)
                        theirs == K!Variants(received, k)
                        exact == K!Filtered(theirs, K!Lower)
                    IN IF written[k] # Unset
                       THEN /\ K!Get(k) = written[k]
                            /\ K!Filtered(K!HeaderKeys(headers), {k} \X BOOLEAN) = <<<<k, TRUE>>>>
                       ELSE /\ mine = theirs
                            /\ K!Get(k) = K!FirstValue(IF exact = <<>> THEN theirs ELSE exact)
  BY DEF ReadsAsWritten, K!ReadsAsWritten
<1> DEFINE mine == K!Filtered(headers, K!Of(k))
           theirs == K!Filtered(received, K!Of(k))
<1>1. headers \in Seq(K!Header) /\ written \in [Keys -> Values \cup {Unset}] /\ Mine(k)
  BY DEF CarrierInv
<1>2. K!Filtered(headers, K!Of(k) \cap K!Lower) = K!Filtered(mine, K!Lower)
  BY <1>1, FilteredTwice
<1>3. K!Filtered(K!HeaderKeys(headers), {k} \X BOOLEAN) = K!HeaderKeys(mine)
  BY <1>1, KeysOfFiltered
<1>4. K!Get(k) = IF K!Filtered(mine, K!Lower) # <<>> THEN K!FirstValue(K!Filtered(mine, K!Lower))
                 ELSE K!FirstValue(mine)
  BY <1>2 DEF K!Get, K!Variants
<1>5. CASE written[k] # Unset
  <2>1. mine = <<Own(k)>>
    BY <1>1, <1>5 DEF Mine
  <2>2. Own(k) \in K!Header /\ Own(k) \in K!Lower
    BY <1>1, <1>5 DEF Own, K!Header, K!Lower
  <2>3. K!Filtered(mine, K!Lower) = <<Own(k)>>
    BY <2>1, <2>2, FilteredOne
  <2>4. K!Get(k) = written[k]
    BY <1>4, <2>3 DEF K!FirstValue, Own
  <2>5. K!HeaderKeys(mine) = <<<<k, TRUE>>>>
    <3> DEFINE own == Own(k)
               name == <<k, TRUE>>
    <3>1. own \in K!Header /\ <<own.key, own.lower>> = name
      BY <2>2 DEF Own
    <3>2. <<>> \in Seq(K!Header) /\ K!HeaderKeys(<<>>) = <<>>
      BY DEF K!HeaderKeys
    <3> HIDE DEF own, name, mine
    <3>3. K!HeaderKeys(Append(<<>>, own)) = Append(<<>>, name)
      BY <3>1, <3>2, HeaderKeysAppend
    <3>4. Append(<<>>, own) = <<own>> /\ Append(<<>>, name) = <<name>>
      OBVIOUS
    <3> QED
      BY <2>1, <3>3, <3>4 DEF own, name
  <2> QED
    BY <1>3, <1>5, <2>4, <2>5
<1>6. CASE written[k] = Unset
  <2>1. mine = theirs
    BY <1>1, <1>6 DEF Mine
  <2> QED
    BY <1>4, <1>6, <2>1 DEF K!Variants
<1> QED
  BY <1>5, <1>6

\* Keys read as they were last set, or as they were received, whatever the list
\* of headers, its length and the capitalization of its keys.
THEOREM CarrierReads == K!Spec => []ReadsAsWritten
<1>1. K!Init => CarrierInv
  BY CarrierInit
<1>2. CarrierInv /\ [K!Next]_(K!vars) => CarrierInv'
  <2>1. ASSUME CarrierInv, K!Next PROVE CarrierInv'
    BY <2>1, CarrierSet DEF K!Next
  <2>2. ASSUME CarrierInv, UNCHANGED K!vars PROVE CarrierInv'
    BY <2>2 DEF K!vars, CarrierInv, Mine, Own
  <2> QED
    BY <2>1, <2>2
<1>3. CarrierInv => ReadsAsWritten
  BY CarrierGet
<1> QED
  BY <1>1, <1>2, <1>3, PTL DEF K!Spec

\* So they do in the instance that is checked.
COROLLARY AlgorithmsRead == Algorithms => []ReadsAsWritten
<1>1. Inits => CarrierInv
  <2>1. <<>> \in Seq(K!Header)
    OBVIOUS
  <2>2. K!NewCarrier(<<>>) => CarrierInv
    BY <2>1, CarrierStart
  <2>3. K!Init => CarrierInv
    BY CarrierInit
  <2> QED
    BY <2>2, <2>3 DEF Inits
<1>2. CarrierInv /\ [Steps]_allVars => CarrierInv'
  <2>1. CarrierInv /\ K!Next => CarrierInv'
    BY CarrierSet DEF K!Next
  <2>2. CarrierInv /\ UNCHANGED carrierVars => CarrierInv'
    BY DEF carrierVars, CarrierInv, Mine, Own
  <2> QED
    BY <2>1, <2>2 DEF Steps, allVars
<1> QED
  BY <1>1, <1>2, CarrierGet, PTL DEF Algorithms

-----------------------------------------------------------------------------
(* The delays.                                                             *)

\* The settings fit a Duration.
LEMMA Fits ==
  /\ MaxDuration \in Nat \ {0} /\ Second \in Nat \ {0} /\ Cap \in 1..MaxDuration
BY ParametersAssumption DEF D!Parameters

\* What fits a Duration does not wrap around.
LEMMA WrappedFits ==
  ASSUME NEW x \in 0..MaxDuration
  PROVE  D!Wrapped(x) = x
<1> DEFINE half == MaxDuration + 1
           y == x + half
<1>1. half \in Nat /\ y \in 0..(2 * half - 1) /\ y - half = x
  BY Fits
<1>2. \A h \in Nat : \A z \in 0..(2 * h - 1) : z % (2 * h) = z
  OBVIOUS
<1>3. y % (2 * half) = y
  <2> HIDE DEF half, y
  <2> QED
    BY <1>1, <1>2
<1> QED
  BY <1>1, <1>3 DEF D!Wrapped

\* What wraps around is a number.
LEMMA WrappedInt == ASSUME NEW x \in Int PROVE D!Wrapped(x) \in Int
<1>1. MaxDuration + 1 \in Nat \ {0}
  BY Fits
<1> DEFINE half == MaxDuration + 1
<1> HIDE DEF half
<1>2. half \in Nat \ {0} /\ 2 * half \in Nat \ {0} /\ x + half \in Int
  BY <1>1 DEF half
<1>3. (x + half) % (2 * half) \in Int
  BY <1>2
<1> QED
  BY <1>2, <1>3 DEF D!Wrapped, half

\* The powers of two, in their order, up to the last.
Powers(n) ==
  {p \in [0..n -> Nat \ {0}] :
    /\ p[0] = 1
    /\ \A i \in 1..n : p[i] = 2 * p[i - 1]
    /\ D!Power(n) = p[n]}

LEMMA PowersExist == ASSUME NEW n \in Nat PROVE Powers(n) # {}
<1> DEFINE T == Nat \ {0}
           Body(p, i) == IF i = 0 THEN 1 ELSE 2 * p[i - 1]
           turn == [i \in 1..n |-> [x \in T |-> 2 * x]]
           chosen == CHOOSE p : p = [i \in 0..n |-> Body(p, i)]
<1>1. turn \in [1..n -> [T -> T]] /\ 1 \in T
  OBVIOUS
<1>2. PICK g : g \in Runs(n, T, 1, turn)
  <2> HIDE DEF T, turn
  <2> QED
    BY <1>1, Loop
<1>3. /\ g \in [0..n -> T]
      /\ \A i \in 0..n : g[i] = IF i = 0 THEN 1 ELSE turn[i][g[i - 1]]
  <2> HIDE DEF turn, T
  <2> QED
    BY <1>2 DEF Runs
<1>4. ASSUME NEW i \in 0..n PROVE g[i] = Body(g, i)
  <2>1. CASE i = 0
    BY <1>3, <2>1
  <2>2. CASE i # 0
    <3>1. i \in 1..n /\ g[i - 1] \in T
      BY <1>3, <2>2
    <3> QED
      BY <1>3, <2>2, <3>1
  <2> QED
    BY <2>1, <2>2
<1>5. g = [i \in 0..n |-> Body(g, i)]
  BY <1>3, <1>4
<1>6. chosen = [i \in 0..n |-> Body(chosen, i)]
  <2> HIDE DEF Body
  <2> QED
    BY <1>5, Zenon
<1>7. D!Power(n) = chosen[n]
  BY Zenon DEF D!Power
<1> HIDE DEF chosen
<1>8. 0..n \subseteq {i \in 0..n : chosen[i] = g[i]}
  <2> DEFINE U == {i \in 0..n : chosen[i] = g[i]}
  <2>1. 0 \in U
    BY <1>4, <1>6
  <2>2. ASSUME NEW i \in 1..n, i - 1 \in U PROVE i \in U
    <3>1. i \in 0..n /\ i # 0 /\ chosen[i - 1] = g[i - 1]
      BY <2>2
    <3>2. chosen[i] = Body(chosen, i) /\ g[i] = Body(g, i)
      BY <1>4, <1>6, <3>1
    <3> QED
      BY <3>1, <3>2
  <2> HIDE DEF U
  <2>3. 0..n \subseteq U
    BY <2>1, <2>2, UpTo
  <2> QED
    BY <2>3 DEF U
<1>9. D!Power(n) = g[n]
  BY <1>7, <1>8
<1>10. g[0] = 1
  BY <1>4
<1>11. ASSUME NEW i \in 1..n PROVE g[i] = 2 * g[i - 1]
  <2>1. i \in 0..n /\ i # 0
    OBVIOUS
  <2> QED
    BY <1>4, <2>1
<1>12. g \in Powers(n)
  BY <1>3, <1>9, <1>10, <1>11 DEF Powers
<1> QED
  BY <1>12

\* The delays, in their order, up to the last: none wraps around.
Backoffs(base, max, n) ==
  {d \in [0..n -> 1..MaxDuration] :
    /\ d[0] = base
    /\ \A i \in 1..n : d[i] = IF d[i - 1] >= max THEN d[i - 1]
                              ELSE IF d[i - 1] > max \div 2 THEN max ELSE 2 * d[i - 1]
    /\ D!Doubled(base, max, n) = d[n]}

LEMMA BackoffsExist ==
  ASSUME NEW base \in 1..MaxDuration, NEW max \in 1..MaxDuration, NEW n \in Nat
  PROVE  Backoffs(base, max, n) # {}
<1> DEFINE T == 1..MaxDuration
           Body(d, i) == IF i = 0 THEN base
                         ELSE IF d[i - 1] >= max THEN d[i - 1]
                         ELSE IF d[i - 1] > max \div 2 THEN max
                         ELSE D!Wrapped(2 * d[i - 1])
           next == [x \in T |-> IF x >= max THEN x ELSE IF x > max \div 2 THEN max ELSE 2 * x]
           turn == [i \in 1..n |-> next]
           chosen == CHOOSE d : d = [i \in 0..n |-> Body(d, i)]
<1>1. ASSUME NEW x \in T, ~(x >= max), ~(x > max \div 2)
      PROVE  2 * x \in T /\ D!Wrapped(2 * x) = 2 * x
  <2>1. 2 * x \in T /\ 2 * x \in 0..MaxDuration
    BY <1>1, Fits
  <2> QED
    BY <2>1, WrappedFits
<1>2. next \in [T -> T] /\ base \in T
  BY <1>1
<1>3. turn \in [1..n -> [T -> T]]
  <2> HIDE DEF next, T
  <2> QED
    BY <1>2
<1>4. PICK g : g \in Runs(n, T, base, turn)
  <2>1. n \in Nat /\ base \in T /\ turn \in [1..n -> [T -> T]]
    BY <1>2, <1>3
  <2> HIDE DEF T, next, turn
  <2>2. Runs(n, T, base, turn) # {}
    BY <2>1, Loop, ZenonT(60)
  <2> QED
    BY <2>2
<1>5. /\ g \in [0..n -> T]
      /\ \A i \in 0..n : g[i] = IF i = 0 THEN base ELSE turn[i][g[i - 1]]
  <2> HIDE DEF turn, T
  <2> QED
    BY <1>4 DEF Runs
<1>6. g[0] = base
  <2>1. 0 \in 0..n
    OBVIOUS
  <2> HIDE DEF T, turn
  <2> QED
    BY <1>5, <2>1
<1>7. ASSUME NEW i \in 1..n
      PROVE  /\ g[i - 1] \in T
             /\ g[i] = IF g[i - 1] >= max THEN g[i - 1]
                       ELSE IF g[i - 1] > max \div 2 THEN max ELSE 2 * g[i - 1]
  <2>1. i \in 0..n /\ i # 0 /\ i - 1 \in 0..n
    OBVIOUS
  <2>2. g[i - 1] \in T /\ g[i] = turn[i][g[i - 1]]
    <3> HIDE DEF turn, T
    <3> QED
      BY <1>5, <2>1
  <2>3. turn[i] = next
    OBVIOUS
  <2> QED
    BY <2>2, <2>3
<1>8. ASSUME NEW i \in 0..n PROVE g[i] = Body(g, i)
  <2>1. CASE i = 0
    BY <1>6, <2>1
  <2>2. CASE i # 0
    <3>1. i \in 1..n
      BY <2>2
    <3> QED
      BY <1>1, <1>7, <2>2, <3>1
  <2> QED
    BY <2>1, <2>2
<1>9. g = [i \in 0..n |-> Body(g, i)]
  <2> HIDE DEF Body, T
  <2> QED
    BY <1>5, <1>8
<1>10. chosen = [i \in 0..n |-> Body(chosen, i)]
  <2> HIDE DEF Body
  <2> QED
    BY <1>9, Zenon
<1>11. D!Doubled(base, max, n) = chosen[n]
  BY Zenon DEF D!Doubled
<1> HIDE DEF chosen
<1>12. 0..n \subseteq {i \in 0..n : chosen[i] = g[i]}
  <2> DEFINE U == {i \in 0..n : chosen[i] = g[i]}
  <2>1. 0 \in U
    BY <1>8, <1>10
  <2>2. ASSUME NEW i \in 1..n, i - 1 \in U PROVE i \in U
    <3>1. i \in 0..n /\ i # 0 /\ chosen[i - 1] = g[i - 1]
      BY <2>2
    <3>2. chosen[i] = Body(chosen, i) /\ g[i] = Body(g, i)
      <4> HIDE DEF Body
      <4> QED
        BY <1>8, <1>10, <3>1
    <3> QED
      BY <3>1, <3>2
  <2> HIDE DEF U
  <2>3. 0..n \subseteq U
    BY <2>1, <2>2, UpTo
  <2> QED
    BY <2>3 DEF U
<1>13. D!Doubled(base, max, n) = g[n]
  BY <1>11, <1>12
<1>14. g \in Backoffs(base, max, n)
  <2> HIDE DEF turn, next
  <2> QED
    BY <1>5, <1>6, <1>7, <1>13 DEF Backoffs
<1> QED
  BY <1>14

\* One more doubling under the limit max.
LEMMA DoubledOnce ==
  ASSUME NEW max \in Nat \ {0}, NEW q \in Nat, NEW d \in Nat, d = D!Least(max, q)
  PROVE  D!Least(max, 2 * q) = IF d >= max THEN d ELSE IF d > max \div 2 THEN max ELSE 2 * d
BY DEF D!Least

\* The doubling keeps to its closed form, and leaves alone what starts beyond
\* the limit.
LEMMA Doublings ==
  ASSUME NEW base \in 1..MaxDuration, NEW max \in 1..MaxDuration, NEW n \in Nat
  PROVE  /\ D!Doubled(base, max, n) \in 1..MaxDuration
         /\ D!Backoff(base, max, n) \in 1..max
         /\ D!Least(max, D!Doubled(base, max, n)) = D!Backoff(base, max, n)
<1>1. PICK p : p \in Powers(n)
  BY PowersExist
<1>2. PICK d : d \in Backoffs(base, max, n)
  BY BackoffsExist
<1>3. /\ p \in [0..n -> Nat \ {0}] /\ p[0] = 1 /\ D!Power(n) = p[n]
      /\ \A i \in 1..n : p[i] = 2 * p[i - 1]
  BY <1>1 DEF Powers
<1>4. /\ d \in [0..n -> 1..MaxDuration] /\ d[0] = base /\ D!Doubled(base, max, n) = d[n]
      /\ \A i \in 1..n : d[i] = IF d[i - 1] >= max THEN d[i - 1]
                                ELSE IF d[i - 1] > max \div 2 THEN max ELSE 2 * d[i - 1]
  BY <1>2 DEF Backoffs
<1>5. base \in Nat \ {0} /\ max \in Nat \ {0}
  BY Fits
<1> DEFINE U == {i \in 0..n : d[i] = IF base > max THEN base ELSE D!Least(max, base * p[i])}
<1>6. 0 \in U
  <2>1. base * p[0] = base
    BY <1>3, <1>5
  <2> QED
    BY <1>4, <1>5, <2>1 DEF D!Least
<1>7. ASSUME NEW i \in 1..n, i - 1 \in U PROVE i \in U
  <2>1. i \in 0..n /\ i - 1 \in 0..n
    OBVIOUS
  <2>2. p[i - 1] \in Nat \ {0} /\ d[i - 1] \in Nat /\ p[i] = 2 * p[i - 1]
    BY <1>3, <1>4, <2>1
  <2>3. CASE base > max
    BY <1>4, <1>5, <1>7, <2>1, <2>3
  <2>4. CASE ~(base > max)
    <3> DEFINE q == base * p[i - 1]
    <3>1. q \in Nat
      BY <1>5, <2>2
    <3>2. base * p[i] = 2 * q
      <4>1. \A a \in Nat, b \in Nat : a * (2 * b) = 2 * (a * b)
        OBVIOUS
      <4> QED
        BY <1>5, <2>2, <4>1
    <3>3. d[i - 1] = D!Least(max, q)
      BY <1>7, <2>4
    <3> HIDE DEF q
    <3>4. d[i] = D!Least(max, 2 * q)
      BY <1>4, <1>5, <2>2, <3>1, <3>3, DoubledOnce
    <3> QED
      BY <2>1, <2>4, <3>2, <3>4
  <2> QED
    BY <2>3, <2>4
<1>8. n \in U
  <2> HIDE DEF U
  <2>1. 0..n \subseteq U
    BY <1>6, <1>7, UpTo
  <2> QED
    BY <2>1
<1>9. d[n] \in 1..MaxDuration /\ p[n] \in Nat \ {0}
  BY <1>3, <1>4
<1> DEFINE q == base * p[n]
<1>10. q \in Nat /\ q >= base
  <2>1. \A a \in Nat \ {0}, b \in Nat \ {0} : a * b \in Nat /\ a * b >= a
    OBVIOUS
  <2> QED
    BY <1>5, <1>9, <2>1
<1>11. d[n] = IF base > max THEN base ELSE D!Least(max, q)
  BY <1>8
<1>12. D!Backoff(base, max, n) = D!Least(max, q)
  BY <1>3 DEF D!Backoff
<1> HIDE DEF q
<1>13. D!Least(max, q) \in 1..max /\ D!Least(max, d[n]) = D!Least(max, q)
  BY <1>5, <1>10, <1>11 DEF D!Least
<1> QED
  BY <1>4, <1>9, <1>12, <1>13

\* The quarters of the jittered interval, before the conversion.
LEMMA Jittered ==
  ASSUME NEW b \in Nat, NEW jitter \in 0..2, NEW draw \in 0..3,
         NEW delay, delay = IF jitter = 0 THEN b ELSE (b * (4 - 2 * jitter + draw * jitter)) \div 4
  PROVE  /\ delay \in Nat
         /\ 4 * delay \in (b * (4 - 2 * jitter) - 3)..(b * (4 + 2 * jitter))
<1>1. draw = 0 \/ draw = 1 \/ draw = 2 \/ draw = 3
  OBVIOUS
<1>2. CASE jitter = 0
  BY <1>2
<1>3. CASE jitter = 1
  <2>1. delay = (b * (2 + draw)) \div 4
    BY <1>3
  <2> QED
    BY <1>1, <1>3, <2>1
<1>4. CASE jitter = 2
  <2>1. (4 - 2 * jitter + draw * jitter) = 2 * draw /\ jitter # 0
    BY <1>4
  <2>2. delay = (b * (2 * draw)) \div 4
    BY <2>1
  <2>3. /\ b * (2 * 0) = 0 /\ b * (2 * 1) = 2 * b /\ b * (2 * 2) = 4 * b /\ b * (2 * 3) = 6 * b
        /\ b * (4 - 2 * 2) = 0 /\ b * (4 + 2 * 2) = 8 * b
    OBVIOUS
  <2> QED
    BY <1>1, <1>4, <2>2, <2>3
<1> QED
  BY <1>2, <1>3, <1>4

\* What Retry waits is a Duration, and within the jitter of the backoff where
\* the whole interval fits one.
LEMMA RetryBounded ==
  ASSUME NEW base \in 1..MaxDuration, NEW max \in base..MaxDuration, NEW n \in Nat \ {0},
         NEW jitter \in 0..2, NEW draw \in 0..3
  PROVE  D!RetryInBounds(base, max, jitter, n, draw)
<1> DEFINE d == D!Doubled(base, max, n - 1)
           b == D!Backoff(base, max, n - 1)
           delay == IF jitter = 0 THEN b ELSE (b * (4 - 2 * jitter + draw * jitter)) \div 4
           delays == D!RetryDelays(base, max, jitter, n, draw)
<1>1. max \in 1..MaxDuration /\ n - 1 \in Nat /\ MaxDuration \in Nat
  BY Fits
<1>2. d \in Nat /\ b \in Nat /\ b <= MaxDuration /\ D!Least(max, d) = b
  <2>1. d \in 1..MaxDuration /\ b \in 1..max /\ D!Least(max, d) = b
    BY <1>1, Doublings
  <2> HIDE DEF d, b
  <2> QED
    BY <1>1, <2>1, Fits
<1>3. (IF d > max THEN max ELSE d) = b
  <2> HIDE DEF d, b
  <2> QED
    BY <1>1, <1>2, Fits DEF D!Least
<1>4. delays = IF jitter = 0 THEN {b} ELSE D!Converted(delay)
  <2> HIDE DEF b
  <2> QED
    BY <1>3 DEF D!RetryDelays
<1> HIDE DEF d, b, delays
<1>5. delay \in Nat /\ 4 * delay \in (b * (4 - 2 * jitter) - 3)..(b * (4 + 2 * jitter))
  BY <1>2, Jittered
<1>6. jitter = 0 => delay = b
  OBVIOUS
<1> HIDE DEF delay
<1>7. (delays = {delay} /\ delay <= MaxDuration) \/ (delays = D!Durations /\ ~(delay <= MaxDuration))
  <2>1. CASE jitter = 0
    BY <1>2, <1>4, <1>6, <2>1
  <2>2. CASE jitter # 0
    BY <1>4, <2>2 DEF D!Converted
  <2> QED
    BY <2>1, <2>2
<1>8. delays # {} /\ delays \subseteq D!Durations
  <2>1. 0 \in D!Durations
    BY <1>1 DEF D!Durations
  <2>2. delay <= MaxDuration => delay \in D!Durations
    BY <1>1, <1>5 DEF D!Durations
  <2> QED
    BY <1>7, <2>1, <2>2
<1>9. ASSUME b * (4 + 2 * jitter) <= 4 * MaxDuration PROVE delays = {delay}
  <2>1. 4 * delay <= 4 * MaxDuration
    <3>1. b * (4 + 2 * jitter) \in Int
      BY <1>2
    <3> QED
      BY <1>1, <1>5, <1>9, <3>1
  <2> QED
    BY <1>1, <1>5, <1>7, <2>1
<1> QED
  BY <1>5, <1>8, <1>9 DEF D!RetryInBounds, b, delays

\* The longer of the two waits, within the cap.
LEMMA HttpBounded ==
  ASSUME NEW base \in 1..MaxDuration, NEW n \in Nat, NEW seconds \in 0..MaxDuration
  PROVE  D!HttpInBounds(base, n, seconds)
<1> DEFINE d == D!Doubled(base, Cap, n)
           b == D!Backoff(base, Cap, n)
           after == D!RetryAfterDelay(seconds)
           Wait(x) == LET longer == IF after > x THEN after ELSE x
                      IN IF longer > Cap THEN Cap ELSE longer
           waits == {Wait(x) : x \in 0..d}
<1>1. Cap \in 1..MaxDuration /\ Cap \in Nat \ {0} /\ seconds \in Nat /\ Second \in Nat \ {0}
  BY Fits
<1>2. d \in Nat \ {0} /\ b \in Nat /\ D!Least(Cap, d) = b
  <2>1. d \in 1..MaxDuration /\ b \in 1..Cap /\ D!Least(Cap, d) = b
    BY <1>1, Doublings
  <2> HIDE DEF d, b
  <2> QED
    BY <1>1, <2>1, Fits
<1>3. D!HttpWaits(base, n, seconds) = waits
  <2>1. D!HttpRetryDelays(base, n) = 0..d
    <3>1. ~(d <= 0)
      <4> HIDE DEF d
      <4> QED
        BY <1>2
    <3> HIDE DEF d
    <3> QED
      BY <3>1 DEF D!HttpRetryDelays, d
  <2> QED
    BY <2>1 DEF D!HttpWaits
<1>4. seconds * Second \in Nat
  BY <1>1
<1>5. after \in Int
  BY <1>4, WrappedInt DEF D!RetryAfterDelay
<1>6. seconds * Second <= MaxDuration => after = seconds * Second
  <2> SUFFICES ASSUME seconds * Second <= MaxDuration PROVE after = seconds * Second
    OBVIOUS
  <2>1. seconds * Second \in 0..MaxDuration
    BY <1>4, Fits
  <2> QED
    BY <2>1, WrappedFits DEF D!RetryAfterDelay
<1>7. seconds = 0 => after = 0
  <2>1. 0 * Second = 0 /\ 0 <= MaxDuration
    BY <1>1, Fits
  <2> QED
    BY <1>6, <2>1
<1> HIDE DEF d, b, after
<1>8. ASSUME NEW x \in 0..d PROVE Wait(x) \in 0..Cap /\ Wait(x) >= D!Least(Cap, after)
  BY <1>1, <1>2, <1>5 DEF D!Least
<1>9. Wait(d) = b \/ seconds > 0
  BY <1>1, <1>2, <1>7 DEF D!Least
<1>10. d \in 0..d
  BY <1>2
<1> HIDE DEF Wait
<1>11. waits \subseteq 0..Cap /\ (b \in waits \/ seconds > 0)
  BY <1>8, <1>9, <1>10
<1>12. seconds * Second <= MaxDuration => \A w \in waits : w >= D!Least(Cap, seconds * Second)
  BY <1>6, <1>8
<1> HIDE DEF waits
<1> QED
  BY <1>3, <1>11, <1>12 DEF D!HttpInBounds, b

\* For Durations of any width and any number of attempts: the client's backoff
\* stays in its bounds for any base; the policy's for any base, limit and jitter
\* whose interval fits a Duration, and is a Duration, any, where it does not fit.
THEOREM Delays == Algorithms => []DelaysInBounds
<1> DEFINE Attempts == attempt \in Nat \ {0}
<1>1. Inits => Attempts
  BY DEF Inits
<1>2. Attempts /\ [Steps]_allVars => Attempts'
  BY DEF Steps, Again, allVars
<1>3. Attempts => DelaysInBounds
  <2> SUFFICES ASSUME Attempts PROVE DelaysInBounds
    OBVIOUS
  <2>1. ASSUME NEW base \in 1..MaxDuration, NEW max \in base..MaxDuration,
               NEW jitter \in 0..2, NEW draw \in 0..3
        PROVE  D!RetryInBounds(base, max, jitter, attempt, draw)
    BY RetryBounded
  <2>2. ASSUME NEW base \in 1..MaxDuration, NEW seconds \in 0..MaxDuration
        PROVE  D!HttpInBounds(base, attempt - 1, seconds)
    <3>1. attempt - 1 \in Nat
      OBVIOUS
    <3> QED
      BY <3>1, HttpBounded
  <2> QED
    BY <2>1, <2>2 DEF DelaysInBounds
<1> HIDE DEF Attempts
<1> QED
  BY <1>1, <1>2, <1>3, PTL DEF Algorithms
=============================================================================
