------------------------ MODULE InstrumentationProofs ------------------------
(***************************************************************************)
(* Theorems about spans, jobs, requests and the lines they log, for any    *)
(* finite set of goroutines and any bounds on their calls.                 *)
(***************************************************************************)
EXTENDS Instrumentation, FiniteSetTheorems, SequenceTheorems, TLAPS

\* What is left of the deferred functions of a call.
Remaining(kind) ==
  CASE kind = "span" -> {<<"recover", "end">>, <<"recover">>, <<>>}
    [] kind = "worker" -> {<<"leave", "end", "recover">>, <<"leave", "end">>, <<"leave">>, <<>>}
    [] kind = "request" -> {<<"leave">>, <<>>}

\* Whether the deferred function that ends the span is still to come.
Unended(f) == f.kind = "request" \/ f.defers \in {<<"recover", "end">>, <<"leave", "end">>, Deferred("worker")}

\* Whether the span of a call bears an error: its function failed, or panicked
\* and was recovered before the span ended.
Marked(f) ==
  f.kind # "request" /\ (f.how = "error" \/ (f.how = "panic" /\ f.kind = "worker" /\ f.defers # Deferred("worker")))

\* The frames there can be.
FrameRecords ==
  [kind : Kinds, how : Hows \cup {"running"}, defers : UNION {Remaining(k) : k \in Kinds},
   open : BOOLEAN, status : {"unset", "error"}]
Frame ==
  {f \in FrameRecords :
     /\ f.defers \in Remaining(f.kind)
     /\ f.how = "running" => f.defers = Deferred(f.kind)
     /\ f.open <=> Unended(f)
     /\ f.status = "error" <=> Marked(f)}

\* Only the innermost call of a goroutine can be past its function.
Stacks ==
  /\ stack \in [Goroutines -> Seq(Frame)]
  /\ \A g \in Goroutines : Len(stack[g]) <= MaxDepth
  /\ \A g \in Goroutines : \A i \in 1..(Len(stack[g]) - 1) : stack[g][i].how = "running"

\* The frames of F on the stacks.
Places(F) ==
  {x \in Goroutines \X (1..MaxDepth) : x[2] <= Len(stack[x[1]]) /\ stack[x[1]][x[2]] \in F}
N(F) == Cardinality(Places(F))

\* Frames whose gauge is up, whose function ended as how, and whose panic is
\* counted.
Holding(kind) == {f \in Frame : f.kind = kind /\ f.defers # <<>>}
Ended(kind, how) == {f \in Frame : f.kind = kind /\ f.how = how}
Recovered(kind) ==
  {f \in Frame : f.kind = kind /\ f.how = "panic"
                 /\ IF kind = "span" THEN f.defers = <<>> ELSE f.defers # Deferred("worker")}

\* The gauges and counters are those of the calls that are over and of those on
\* the stacks.
Balance ==
  /\ gauge["span"] = 0
  /\ gauge["worker"] = N(Holding("worker")) /\ gauge["request"] = N(Holding("request"))
  /\ count["exceptions"] = left[<<"span", "panic">>] + N(Recovered("span"))
                           + left[<<"worker", "panic">>] + N(Recovered("worker"))
  /\ count["jobs_ok"] = left[<<"worker", "ok">>] + N(Ended("worker", "ok"))
  /\ count["jobs_error"] = left[<<"worker", "error">>] + N(Ended("worker", "error"))
  /\ count["requests"] = left[<<"request", "ok">>] + N(Ended("request", "ok"))
                         + left[<<"request", "error">>] + N(Ended("request", "error"))
  /\ count["request_errors"] <= client.errors + client.rewritten
  /\ count["request_errors"] >= client.errors - client.rewritten

\* The spans handed to the SDK.
Spans ==
  ended \subseteq {s \in [kind : Kinds, how : Hows, status : {"unset", "error"}] :
                     s.status = "error" <=> (s.how # "ok" /\ ~(s.kind = "span" /\ s.how = "panic"))}

OtherTypes ==
  /\ exporting \in 0..1
  /\ calls \in [Goroutines -> 0..MaxCalls]
  /\ gauge \in [Kinds -> Nat]
  /\ count \in [Counters -> Nat]
  /\ client \in [errors : Nat, rewritten : Nat]
  /\ left \in [Kinds \X Hows -> Nat]
  /\ out \in [Apis -> [stdout : Nat, otlp : Nat, counted : Nat]]
  /\ due \in [Apis -> [records : Nat, errors : Nat]]

IInv == OtherTypes /\ Stacks /\ Balance /\ Spans /\ LinesAccounted

-----------------------------------------------------------------------------
(* Frames and stacks.                                                      *)

\* A sequence that is not empty, its last element taken away.
LEMMA Tops ==
  ASSUME NEW S, NEW s \in Seq(S), s # <<>>
  PROVE  /\ Len(s) \in Nat \ {0} /\ Last(s) = s[Len(s)] /\ Last(s) \in S
         /\ Front(s) \in Seq(S) /\ Len(Front(s)) = Len(s) - 1
         /\ \A i \in 1..(Len(s) - 1) : Front(s)[i] = s[i]
<1>1. Len(s) \in Nat \ {0} /\ \A i \in 1..Len(s) : s[i] \in S
  BY EmptySeq, ElementOfSeq
<1>2. \A i \in 1..(Len(s) - 1) : s[i] \in S
  BY <1>1
<1>3. /\ Front(s) \in Seq(S)
      /\ Len(Front(s)) = IF 1 <= Len(s) - 1 THEN Len(s) - 1 - 1 + 1 ELSE 0
      /\ \A i \in 1..(Len(s) - 1 - 1 + 1) : Front(s)[i] = s[1 + i - 1]
  BY <1>1, <1>2, SubSeqProperties DEF Front
<1>4. Len(Front(s)) = Len(s) - 1
  <2> DEFINE n == Len(s)
  <2>1. n \in Nat \ {0} /\ Len(Front(s)) = IF 1 <= n - 1 THEN n - 1 - 1 + 1 ELSE 0
    BY <1>1, <1>3
  <2> HIDE DEF n
  <2>2. (IF 1 <= n - 1 THEN n - 1 - 1 + 1 ELSE 0) = n - 1
    BY <2>1
  <2> QED
    BY <2>1, <2>2 DEF n
<1>5. ASSUME NEW i \in 1..(Len(s) - 1) PROVE Front(s)[i] = s[i]
  <2>1. i \in 1..(Len(s) - 1 - 1 + 1) /\ 1 + i - 1 = i
    BY <1>1
  <2> QED
    BY <1>3, <2>1
<1>6. Last(s) = s[Len(s)] /\ Last(s) \in S
  BY <1>1 DEF Last
<1> QED
  BY <1>1, <1>3, <1>4, <1>5, <1>6

\* The last element replaced by f.
LEMMA Replaced ==
  ASSUME NEW S, NEW s \in Seq(S), s # <<>>, NEW f \in S
  PROVE  /\ Append(Front(s), f) \in Seq(S) /\ Len(Append(Front(s), f)) = Len(s)
         /\ \A i \in 1..Len(s) : Append(Front(s), f)[i] = IF i = Len(s) THEN f ELSE s[i]
  BY Tops, AppendProperties

\* The tuples of deferred functions, taken apart.
LEMMA Tuples ==
  /\ \A a : Front(<<a>>) = <<>> /\ Last(<<a>>) = a /\ <<a>> # <<>>
  /\ \A a, b : Front(<<a, b>>) = <<a>> /\ Last(<<a, b>>) = b /\ <<a, b>> # <<>>
  /\ \A a, b, c : Front(<<a, b, c>>) = <<a, b>> /\ Last(<<a, b, c>>) = c /\ <<a, b, c>> # <<>>
<1>1. ASSUME NEW S, NEW t \in Seq(S), NEW u \in Seq(S), t # <<>>, Len(u) = Len(t) - 1,
             \A i \in 1..Len(u) : u[i] = t[i]
      PROVE  Front(t) = u
  <2>1. /\ Front(t) \in Seq(S) /\ Len(Front(t)) = Len(u)
        /\ \A i \in 1..Len(u) : Front(t)[i] = u[i]
    BY <1>1, Tops
  <2> HIDE DEF Front
  <2> QED
    BY <1>1, <2>1, SeqEqual
<1>2. ASSUME NEW a PROVE Front(<<a>>) = <<>> /\ Last(<<a>>) = a /\ <<a>> # <<>>
  BY SubSeqEmpty DEF Front, Last
<1>3. ASSUME NEW a, NEW b PROVE Front(<<a, b>>) = <<a>> /\ Last(<<a, b>>) = b /\ <<a, b>> # <<>>
  <2>1. /\ <<a, b>> \in Seq({a, b}) /\ <<a>> \in Seq({a, b}) /\ <<a, b>> # <<>>
        /\ Len(<<a>>) = Len(<<a, b>>) - 1 /\ \A i \in 1..Len(<<a>>) : <<a>>[i] = <<a, b>>[i]
    OBVIOUS
  <2> QED
    BY <1>1, <2>1 DEF Last
<1>4. ASSUME NEW a, NEW b, NEW c
      PROVE  Front(<<a, b, c>>) = <<a, b>> /\ Last(<<a, b, c>>) = c /\ <<a, b, c>> # <<>>
  <2>1. /\ <<a, b, c>> \in Seq({a, b, c}) /\ <<a, b>> \in Seq({a, b, c}) /\ <<a, b, c>> # <<>>
        /\ Len(<<a, b>>) = Len(<<a, b, c>>) - 1
        /\ \A i \in 1..Len(<<a, b>>) : <<a, b>>[i] = <<a, b, c>>[i]
    OBVIOUS
  <2> QED
    BY <1>1, <2>1 DEF Last
<1> QED
  BY <1>2, <1>3, <1>4

-----------------------------------------------------------------------------
(* How many frames of a set are on the stacks.                             *)

One(f, F) == IF f \in F THEN 1 ELSE 0

LEMMA PlacesFinite ==
  ASSUME NEW F
  PROVE  IsFiniteSet(Places(F)) /\ IsFiniteSet(Places(F)') /\ N(F) \in Nat /\ N(F)' \in Nat
<1>1. IsFiniteSet(Goroutines \X (1..MaxDepth))
  <2>1. IsFiniteSet(1..MaxDepth)
    BY BoundsAssumption, FS_Interval
  <2> QED
    BY <2>1, GoroutinesAssumption, FS_Product
<1>2. /\ Places(F) \subseteq Goroutines \X (1..MaxDepth)
      /\ Places(F)' \subseteq Goroutines \X (1..MaxDepth)
  BY DEF Places
<1> QED
  BY <1>1, <1>2, FS_Subset, FS_CardinalityType DEF N

\* Two sets that differ in one element at most.
LEMMA Flip ==
  ASSUME NEW A, NEW B, IsFiniteSet(A), IsFiniteSet(B), NEW x, A \ {x} = B \ {x}
  PROVE  Cardinality(B) = Cardinality(A) + One(x, B) - One(x, A)
<1>1. Cardinality(A) \in Nat /\ Cardinality(B) \in Nat
  BY FS_CardinalityType
<1>2. ASSUME NEW C, IsFiniteSet(C), x \in C PROVE Cardinality(C \ {x}) = Cardinality(C) - 1
  BY <1>2, FS_RemoveElement
<1>3. CASE x \in A /\ x \in B
  <2>1. A = B
    BY <1>3
  <2> QED
    BY <1>1, <1>3, <2>1 DEF One
<1>4. CASE x \in A /\ x \notin B
  <2>1. B = A \ {x}
    BY <1>4
  <2> QED
    BY <1>1, <1>2, <1>4, <2>1 DEF One
<1>5. CASE x \notin A /\ x \in B
  <2>1. A = B \ {x}
    BY <1>5
  <2> QED
    BY <1>1, <1>2, <1>5, <2>1 DEF One
<1>6. CASE x \notin A /\ x \notin B
  <2>1. A = B
    BY <1>6
  <2> QED
    BY <1>1, <1>6, <2>1 DEF One
<1> QED
  BY <1>3, <1>4, <1>5, <1>6

\* A step that changes what is at one place.
LEMMA OnePlace ==
  ASSUME NEW F, NEW x,
         \A y \in Goroutines \X (1..MaxDepth) : y # x => (y \in Places(F) <=> y \in Places(F)')
  PROVE  N(F)' = N(F) + One(x, Places(F)') - One(x, Places(F))
<1>1. /\ Places(F) \subseteq Goroutines \X (1..MaxDepth)
      /\ Places(F)' \subseteq Goroutines \X (1..MaxDepth)
  BY DEF Places
<1>2. Places(F) \ {x} = Places(F)' \ {x}
  BY <1>1
<1> QED
  BY <1>2, Flip, PlacesFinite DEF N

\* A stack that is not empty: its top is a frame, and only it may be past its
\* function.
LEMMA TopFrame ==
  ASSUME Stacks, NEW g \in Goroutines, stack[g] # <<>>
  PROVE  /\ stack[g] \in Seq(Frame) /\ Len(stack[g]) \in 1..MaxDepth
         /\ Top(g) \in Frame /\ Top(g) = stack[g][Len(stack[g])]
         /\ <<g, Len(stack[g])>> \in Goroutines \X (1..MaxDepth)
         /\ \A F : <<g, Len(stack[g])>> \in Places(F) <=> Top(g) \in F
<1>1. stack[g] \in Seq(Frame) /\ Len(stack[g]) <= MaxDepth
  BY DEF Stacks
<1>2. /\ Len(stack[g]) \in Nat \ {0} /\ Last(stack[g]) = stack[g][Len(stack[g])]
      /\ Last(stack[g]) \in Frame
  BY <1>1, Tops
<1>3. Len(stack[g]) \in 1..MaxDepth
  BY <1>1, <1>2, BoundsAssumption
<1> QED
  BY <1>1, <1>2, <1>3 DEF Top, Places

\* A call begins.
LEMMA Pushed ==
  ASSUME Stacks, NEW g \in Goroutines, InApplication(g), Len(stack[g]) < MaxDepth,
         NEW f \in Frame, stack' = [stack EXCEPT ![g] = Append(@, f)]
  PROVE  Stacks' /\ \A F : N(F)' = N(F) + One(f, F)
<1> DEFINE s == stack[g]
           n == Len(s)
<1>1. s \in Seq(Frame) /\ n \in Nat
  BY DEF Stacks
<1>2. /\ stack'[g] \in Seq(Frame) /\ Len(stack'[g]) = n + 1 /\ stack'[g][n + 1] = f
      /\ \A i \in 1..n : stack'[g][i] = s[i]
  BY <1>1, AppendProperties DEF Stacks
<1>3. \A h \in Goroutines \ {g} : stack'[h] = stack[h]
  BY DEF Stacks
<1>4. \A i \in 1..n : s[i].how = "running"
  <2>1. CASE s = <<>>
    BY <2>1
  <2>2. CASE s # <<>>
    <3>1. s[n].how = "running"
      BY <2>2, TopFrame DEF InApplication
    <3>2. \A i \in 1..(n - 1) : s[i].how = "running"
      BY DEF Stacks
    <3> QED
      BY <1>1, <3>1, <3>2
  <2> QED
    BY <2>1, <2>2
<1> HIDE DEF s, n
<1>5. Stacks'
  <2>1. stack' \in [Goroutines -> Seq(Frame)]
    BY <1>2, <1>3 DEF Stacks
  <2>2. \A i \in 1..(Len(stack'[g]) - 1) : stack'[g][i].how = "running"
    BY <1>1, <1>2, <1>4
  <2>3. Len(stack'[g]) <= MaxDepth
    BY <1>1, <1>2, BoundsAssumption DEF s, n
  <2> QED
    BY <1>3, <2>1, <2>2, <2>3 DEF Stacks
<1>6. ASSUME NEW F PROVE N(F)' = N(F) + One(f, F)
  <2> DEFINE x == <<g, n + 1>>
  <2>1. x \notin Places(F) /\ (x \in Places(F)' <=> f \in F)
    BY <1>1, <1>2, BoundsAssumption DEF Places, s, n
  <2>2. ASSUME NEW y \in Goroutines \X (1..MaxDepth), y # x
        PROVE  y \in Places(F) <=> y \in Places(F)'
    <3>1. CASE y[1] = g
      <4>1. y[2] # n + 1 /\ y[2] \in Nat
        BY <2>2, <3>1
      <4>2. y[2] <= n + 1 <=> y[2] <= n
        BY <1>1, <4>1
      <4>3. y[2] \in 1..MaxDepth
        OBVIOUS
      <4>4. y[2] <= n => stack'[g][y[2]] = s[y[2]]
        BY <1>1, <1>2, <4>3
      <4> QED
        BY <1>2, <3>1, <4>2, <4>4 DEF Places, s, n
    <3>2. CASE y[1] # g
      BY <1>3, <3>2 DEF Places
    <3> QED
      BY <3>1, <3>2
  <2> HIDE DEF x
  <2>3. N(F)' = N(F) + One(x, Places(F)') - One(x, Places(F))
    BY <2>2, OnePlace
  <2>5. One(x, Places(F)) = 0 /\ One(x, Places(F)') = One(f, F) /\ One(f, F) \in Nat
    BY <2>1 DEF One
  <2> QED
    BY <2>3, <2>5, PlacesFinite
<1> QED
  BY <1>5, <1>6

\* The innermost call goes on.
LEMMA TopSet ==
  ASSUME Stacks, NEW g \in Goroutines, stack[g] # <<>>, NEW f \in Frame, SetTop(g, f)
  PROVE  Stacks' /\ \A F : N(F)' = N(F) + One(f, F) - One(Top(g), F)
<1> DEFINE n == Len(stack[g])
<1>1. stack[g] \in Seq(Frame) /\ n \in 1..MaxDepth
  BY TopFrame
<1>2. /\ stack'[g] \in Seq(Frame) /\ Len(stack'[g]) = n
      /\ \A i \in 1..n : stack'[g][i] = IF i = n THEN f ELSE stack[g][i]
  <2>1. stack'[g] = Append(Front(stack[g]), f)
    BY DEF SetTop, Stacks
  <2> QED
    BY <1>1, <2>1, Replaced
<1>3. stack' = [stack EXCEPT ![g] = stack'[g]]
  BY DEF SetTop, Stacks
<1> HIDE DEF n
<1>4. Stacks'
  <2>1. stack' \in [Goroutines -> Seq(Frame)]
    BY <1>2, <1>3 DEF Stacks
  <2>2. \A h \in Goroutines : Len(stack'[h]) <= MaxDepth
    BY <1>1, <1>2, <1>3 DEF Stacks, n
  <2>3. \A i \in 1..(n - 1) : stack'[g][i] = stack[g][i]
    BY <1>1, <1>2
  <2>4. \A h \in Goroutines : \A i \in 1..(Len(stack'[h]) - 1) : stack'[h][i].how = "running"
    BY <1>2, <1>3, <2>3 DEF Stacks, n
  <2> QED
    BY <2>1, <2>2, <2>4 DEF Stacks
<1>5. ASSUME NEW F PROVE N(F)' = N(F) + One(f, F) - One(Top(g), F)
  <2> DEFINE x == <<g, n>>
  <2>1. (x \in Places(F) <=> Top(g) \in F) /\ (x \in Places(F)' <=> f \in F)
    <3>1. x \in Goroutines \X (1..MaxDepth) /\ (x \in Places(F) <=> Top(g) \in F)
      BY TopFrame DEF n
    <3>2. stack'[g][n] = f /\ n <= Len(stack'[g])
      BY <1>1, <1>2
    <3> QED
      BY <3>1, <3>2 DEF Places
  <2>2. ASSUME NEW y \in Goroutines \X (1..MaxDepth), y # x
        PROVE  y \in Places(F) <=> y \in Places(F)'
    <3>1. CASE y[1] = g
      <4>1. y[2] # n /\ y[2] \in 1..MaxDepth
        BY <2>2, <3>1
      <4>2. y[2] <= n => stack'[g][y[2]] = stack[g][y[2]]
        BY <1>1, <1>2, <4>1
      <4> QED
        BY <1>2, <3>1, <4>2 DEF Places, n
    <3>2. CASE y[1] # g
      <4>1. stack'[y[1]] = stack[y[1]]
        BY <1>3, <3>2 DEF Stacks
      <4> QED
        BY <4>1 DEF Places
    <3> QED
      BY <3>1, <3>2
  <2> HIDE DEF x
  <2>3. N(F)' = N(F) + One(x, Places(F)') - One(x, Places(F))
    BY <2>2, OnePlace
  <2>4. One(x, Places(F)) = One(Top(g), F) /\ One(x, Places(F)') = One(f, F)
    BY <2>1 DEF One
  <2> QED
    BY <2>3, <2>4
<1> QED
  BY <1>4, <1>5

\* The innermost call is over, and the one around it goes on.
LEMMA Removed ==
  ASSUME Stacks, NEW g \in Goroutines, stack[g] # <<>>, stack' = [stack EXCEPT ![g] = Front(@)]
  PROVE  Stacks' /\ \A F : N(F)' = N(F) - One(Top(g), F)
<1> DEFINE n == Len(stack[g])
<1>1. stack[g] \in Seq(Frame) /\ n \in 1..MaxDepth
  BY TopFrame
<1>2. /\ stack'[g] \in Seq(Frame) /\ Len(stack'[g]) = n - 1
      /\ \A i \in 1..(n - 1) : stack'[g][i] = stack[g][i]
  <2>1. stack'[g] = Front(stack[g])
    BY DEF Stacks
  <2> QED
    BY <1>1, <2>1, Tops
<1>3. \A h \in Goroutines \ {g} : stack'[h] = stack[h]
  BY DEF Stacks
<1>4. stack' \in [Goroutines -> Seq(Frame)]
  BY <1>2, <1>3 DEF Stacks
<1> HIDE DEF n
<1>5. Stacks'
  <2>1. \A h \in Goroutines : Len(stack'[h]) <= MaxDepth
    <3>1. n - 1 <= MaxDepth
      BY <1>1, BoundsAssumption
    <3> QED
      BY <1>2, <1>3, <3>1 DEF Stacks
  <2>2. \A i \in 1..(Len(stack'[g]) - 1) : stack'[g][i].how = "running"
    BY <1>1, <1>2 DEF Stacks, n
  <2>3. \A h \in Goroutines : \A i \in 1..(Len(stack'[h]) - 1) : stack'[h][i].how = "running"
    BY <1>3, <2>2 DEF Stacks
  <2> QED
    BY <1>4, <2>1, <2>3 DEF Stacks
<1>6. ASSUME NEW F PROVE N(F)' = N(F) - One(Top(g), F)
  <2> DEFINE x == <<g, n>>
  <2>1. (x \in Places(F) <=> Top(g) \in F) /\ x \notin Places(F)'
    <3>1. x \in Places(F) <=> Top(g) \in F
      BY TopFrame DEF n
    <3>2. ~(n <= Len(stack'[g]))
      BY <1>1, <1>2
    <3> QED
      BY <3>1, <3>2 DEF Places
  <2>2. ASSUME NEW y \in Goroutines \X (1..MaxDepth), y # x
        PROVE  y \in Places(F) <=> y \in Places(F)'
    <3>1. CASE y[1] = g
      <4>1. y[2] # n /\ y[2] \in 1..MaxDepth
        BY <2>2, <3>1
      <4>2. (y[2] <= n <=> y[2] <= n - 1) /\ (y[2] <= n - 1 => stack'[g][y[2]] = stack[g][y[2]])
        BY <1>1, <1>2, <4>1
      <4> QED
        BY <1>2, <3>1, <4>2 DEF Places, n
    <3>2. CASE y[1] # g
      BY <1>3, <3>2 DEF Places
    <3> QED
      BY <3>1, <3>2
  <2> HIDE DEF x
  <2>3. N(F)' = N(F) + One(x, Places(F)') - One(x, Places(F))
    BY <2>2, OnePlace
  <2>4. One(x, Places(F)) = One(Top(g), F) /\ One(x, Places(F)') = 0
    BY <2>1 DEF One
  <2> QED
    BY <2>3, <2>4, PlacesFinite DEF One
<1> QED
  BY <1>5, <1>6

\* A running call whose function panics.
LEMMA PanicFrame ==
  ASSUME NEW f \in Frame, f.how = "running"
  PROVE  [f EXCEPT !.how = "panic"] \in Frame
  BY DEF Frame, FrameRecords, Kinds, Hows, Unended, Marked, Deferred, Remaining

\* A panic goes from the innermost call into the one around it.
LEMMA Unwound ==
  ASSUME Stacks, NEW g \in Goroutines, stack[g] # <<>>, Len(stack[g]) # 1,
         stack' = [stack EXCEPT ![g] = [Front(@) EXCEPT ![Len(@) - 1].how = "panic"]]
  PROVE  LET around == stack[g][Len(stack[g]) - 1]
             f == [around EXCEPT !.how = "panic"]
         IN  /\ Stacks' /\ around \in Frame /\ around.how = "running" /\ f \in Frame
             /\ \A F : N(F)' = N(F) - One(Top(g), F) - One(around, F) + One(f, F)
<1> DEFINE n == Len(stack[g])
           around == stack[g][n - 1]
           f == [around EXCEPT !.how = "panic"]
<1>1. stack[g] \in Seq(Frame) /\ n \in 2..MaxDepth
  <2>1. stack[g] \in Seq(Frame) /\ n \in 1..MaxDepth /\ n # 1
    BY TopFrame
  <2> HIDE DEF n
  <2> QED
    BY <2>1, BoundsAssumption
<1>2. /\ Front(stack[g]) \in Seq(Frame) /\ Len(Front(stack[g])) = n - 1
      /\ \A i \in 1..(n - 1) : Front(stack[g])[i] = stack[g][i]
  BY Tops, <1>1
<1>3. around \in Frame /\ around.how = "running"
  <2>1. n - 1 \in 1..n /\ n - 1 \in 1..(n - 1)
    BY <1>1
  <2> QED
    BY <1>1, <2>1, ElementOfSeq DEF Stacks
<1>4. f \in Frame
  BY <1>3, PanicFrame
<1> HIDE DEF n
<1>5. /\ stack'[g] \in Seq(Frame) /\ Len(stack'[g]) = n - 1
      /\ \A i \in 1..(n - 1) : stack'[g][i] = IF i = n - 1 THEN f ELSE stack[g][i]
  <2>1. stack'[g] = [Front(stack[g]) EXCEPT ![n - 1].how = "panic"]
    BY DEF Stacks, n
  <2>2. n - 1 \in 1..(n - 1) /\ Front(stack[g])[n - 1] = around
    BY <1>1, <1>2
  <2>3. stack'[g] = [Front(stack[g]) EXCEPT ![n - 1] = f]
    BY <2>1, <2>2
  <2> HIDE DEF f, around
  <2> DEFINE s == Front(stack[g])
  <2>4. s \in Seq(Frame) /\ Len(s) = n - 1 /\ n - 1 \in 1..Len(s) /\ stack'[g] = [s EXCEPT ![n - 1] = f]
    BY <1>2, <2>2, <2>3
  <2>5. \A i \in 1..(n - 1) : s[i] = stack[g][i]
    BY <1>2
  <2> HIDE DEF s
  <2>6. /\ stack'[g] \in Seq(Frame) /\ Len(stack'[g]) = Len(s)
        /\ \A i \in 1..Len(s) : stack'[g][i] = IF i = n - 1 THEN f ELSE s[i]
    <3> DEFINE t == [s EXCEPT ![n - 1] = f]
    <3>1. /\ t \in Seq(Frame) /\ Len(t) = Len(s)
          /\ \A i \in 1..Len(s) : t[i] = IF i = n - 1 THEN f ELSE s[i]
      BY <1>4, <2>4, ExceptSeq
    <3> QED
      BY <2>4, <3>1
  <2> QED
    BY <2>4, <2>5, <2>6
<1> HIDE DEF f, around
<1>6. \A h \in Goroutines \ {g} : stack'[h] = stack[h]
  BY DEF Stacks
<1>7. stack' \in [Goroutines -> Seq(Frame)]
  BY <1>5, <1>6 DEF Stacks
<1>8. Stacks'
  <2>1. \A h \in Goroutines : Len(stack'[h]) <= MaxDepth
    <3>1. n - 1 <= MaxDepth
      BY <1>1, BoundsAssumption
    <3> QED
      BY <1>5, <1>6, <3>1 DEF Stacks
  <2>2. \A i \in 1..(Len(stack'[g]) - 1) : stack'[g][i].how = "running"
    BY <1>1, <1>5 DEF Stacks, n
  <2>3. \A h \in Goroutines : \A i \in 1..(Len(stack'[h]) - 1) : stack'[h][i].how = "running"
    BY <1>6, <2>2 DEF Stacks
  <2> QED
    BY <1>7, <2>1, <2>3 DEF Stacks
<1>9. ASSUME NEW F PROVE N(F)' = N(F) - One(Top(g), F) - One(around, F) + One(f, F)
  <2> DEFINE x == <<g, n>>
             y == <<g, n - 1>>
             Less == Places(F) \ {x}
  <2>1. (x \in Places(F) <=> Top(g) \in F) /\ x \notin Places(F)'
    <3>1. x \in Places(F) <=> Top(g) \in F
      BY TopFrame DEF n
    <3>2. ~(n <= Len(stack'[g]))
      BY <1>1, <1>5
    <3> QED
      BY <3>1, <3>2 DEF Places
  <2>2. x # y /\ (y \in Less <=> around \in F) /\ (y \in Places(F)' <=> f \in F)
    <3>1. n # n - 1 /\ n - 1 <= n /\ n - 1 \in 1..MaxDepth /\ n - 1 \in 1..(n - 1)
      BY <1>1, BoundsAssumption
    <3>2. y \in Places(F) <=> around \in F
      BY <3>1 DEF Places, n, around
    <3>3. y \in Places(F)' <=> f \in F
      BY <1>5, <3>1 DEF Places
    <3> QED
      BY <3>1, <3>2, <3>3
  <2>3. ASSUME NEW z \in Goroutines \X (1..MaxDepth), z # x, z # y
        PROVE  z \in Places(F) <=> z \in Places(F)'
    <3>1. CASE z[1] = g
      <4>1. z[2] # n /\ z[2] # n - 1 /\ z[2] \in 1..MaxDepth
        BY <2>3, <3>1
      <4>2. (z[2] <= n <=> z[2] <= n - 1) /\ (z[2] <= n - 1 => stack'[g][z[2]] = stack[g][z[2]])
        BY <1>1, <1>5, <4>1
      <4> QED
        BY <1>5, <3>1, <4>2 DEF Places, n
    <3>2. CASE z[1] # g
      BY <1>6, <3>2 DEF Places
    <3> QED
      BY <3>1, <3>2
  <2>4. /\ Places(F) \subseteq Goroutines \X (1..MaxDepth)
        /\ Places(F)' \subseteq Goroutines \X (1..MaxDepth)
    BY DEF Places
  <2> HIDE DEF x, y
  <2>5. Places(F) \ {x} = Less \ {x} /\ Less \ {y} = Places(F)' \ {y}
    BY <2>1, <2>3, <2>4
  <2>6. IsFiniteSet(Less)
    BY PlacesFinite, FS_Subset
  <2>7. Cardinality(Less) = N(F) + One(x, Less) - One(x, Places(F))
    BY <2>5, <2>6, Flip, PlacesFinite DEF N
  <2>8. N(F)' = Cardinality(Less) + One(y, Places(F)') - One(y, Less)
    BY <2>5, <2>6, Flip, PlacesFinite DEF N
  <2>9. /\ One(x, Less) = 0 /\ One(x, Places(F)) = One(Top(g), F)
        /\ One(y, Places(F)') = One(f, F) /\ One(y, Less) = One(around, F)
    BY <2>1, <2>2 DEF One
  <2>10. One(f, F) \in Nat /\ One(around, F) \in Nat /\ One(Top(g), F) \in Nat
    BY DEF One
  <2> QED
    BY <2>7, <2>8, <2>9, <2>10, PlacesFinite
<1> QED
  BY <1>3, <1>4, <1>8, <1>9 DEF f, around, n

-----------------------------------------------------------------------------
(* What becomes of a frame.                                                *)

\* The tuples a call may still have to run.
LEMMA Distinct ==
  /\ <<"recover", "end">> # <<"recover">> /\ <<"leave", "end", "recover">> # <<"leave", "end">>
  /\ <<"leave", "end", "recover">> # <<"leave">> /\ <<"leave", "end">> # <<"leave">>
  /\ <<"recover">> # <<"leave">> /\ <<"recover", "end">> # <<"leave", "end">>
  /\ <<"recover">> # <<"leave", "end">> /\ <<"recover">> # <<"leave", "end", "recover">>
  /\ <<"leave">> # <<"recover", "end">> /\ <<>> # <<"recover", "end">> /\ <<>> # <<"leave", "end">>
  /\ <<>> # <<"leave", "end", "recover">> /\ <<>> # <<"leave">> /\ <<>> # <<"recover">>
  OBVIOUS

LEMMA DeferCases ==
  ASSUME NEW f \in Frame, f.defers # <<>>
  PROVE  \/ /\ f.kind = "span" /\ f.defers = <<"recover", "end">>
            /\ Last(f.defers) = "end" /\ Front(f.defers) = <<"recover">>
         \/ /\ f.kind = "span" /\ f.defers = <<"recover">>
            /\ Last(f.defers) = "recover" /\ Front(f.defers) = <<>>
         \/ /\ f.kind = "worker" /\ f.defers = <<"leave", "end", "recover">>
            /\ Last(f.defers) = "recover" /\ Front(f.defers) = <<"leave", "end">>
         \/ /\ f.kind = "worker" /\ f.defers = <<"leave", "end">>
            /\ Last(f.defers) = "end" /\ Front(f.defers) = <<"leave">>
         \/ /\ f.kind \in {"worker", "request"} /\ f.defers = <<"leave">>
            /\ Last(f.defers) = "leave" /\ Front(f.defers) = <<>>
<1>1. f.defers \in Remaining(f.kind) /\ f.kind \in Kinds
  BY DEF Frame, FrameRecords
<1>2. CASE f.kind = "span"
  <2>1. f.defers \in {<<"recover", "end">>, <<"recover">>}
    BY <1>1, <1>2 DEF Remaining
  <2> QED
    BY <1>2, <2>1, Tuples
<1>3. CASE f.kind = "worker"
  <2>1. f.defers \in {<<"leave", "end", "recover">>, <<"leave", "end">>, <<"leave">>}
    BY <1>1, <1>3 DEF Remaining
  <2> QED
    BY <1>3, <2>1, Tuples
<1>4. CASE f.kind = "request"
  <2>1. f.defers = <<"leave">>
    BY <1>1, <1>4 DEF Remaining
  <2> QED
    BY <1>4, <2>1, Tuples
<1> QED
  BY <1>1, <1>2, <1>3, <1>4 DEF Kinds

\* A record with the fields a frame must have.
LEMMA IsFrame ==
  ASSUME NEW f \in FrameRecords, f.defers \in Remaining(f.kind),
         f.how = "running" => f.defers = Deferred(f.kind),
         f.open <=> Unended(f), f.status = "error" <=> Marked(f)
  PROVE  f \in Frame
  BY DEF Frame

LEMMA FrameFields ==
  ASSUME NEW f \in Frame
  PROVE  /\ f \in FrameRecords /\ f.kind \in Kinds /\ f.defers \in Remaining(f.kind)
         /\ f.how = "running" => f.defers = Deferred(f.kind)
         /\ f.open <=> Unended(f)
         /\ f.status = "error" <=> Marked(f)
  BY DEF Frame, FrameRecords

\* A call that begins.
LEMMA NewFrame ==
  ASSUME NEW k \in Kinds
  PROVE  LET f == [kind |-> k, how |-> "running", defers |-> Deferred(k), open |-> TRUE, status |-> "unset"]
         IN  /\ f \in Frame /\ f.defers # <<>> /\ f.kind = k /\ f.how = "running"
<1>1. Deferred(k) \in Remaining(k) /\ Deferred(k) # <<>>
  BY Tuples DEF Kinds, Deferred, Remaining
<1> QED
  BY <1>1, Distinct DEF Frame, FrameRecords, Kinds, Hows, Unended, Marked, Deferred

\* A call whose function returns.
LEMMA ReturnFrame ==
  ASSUME NEW f \in Frame, f.how = "running", NEW how \in {"ok", "error"}
  PROVE  /\ f.kind # "request" =>
              [f EXCEPT !.how = how, !.status = IF how = "error" THEN "error" ELSE @] \in Frame
         /\ f.kind = "request" => [f EXCEPT !.how = how] \in Frame
<1>1. f.status = "unset" /\ f.defers = Deferred(f.kind)
  BY DEF Frame, FrameRecords, Marked
<1>2. CASE f.kind # "request"
  <2> DEFINE e == [f EXCEPT !.how = how, !.status = IF how = "error" THEN "error" ELSE @]
  <2>1. /\ e \in FrameRecords /\ e.kind = f.kind /\ e.how = how /\ e.defers = f.defers
        /\ e.open = f.open /\ (e.status = "error" <=> how = "error")
    BY <1>1 DEF Frame, FrameRecords, Hows
  <2> HIDE DEF e
  <2>2. e \in Frame
    BY <1>1, <1>2, <2>1, FrameFields, IsFrame DEF Unended, Marked
  <2> QED
    BY <1>2, <2>2 DEF e
<1>3. CASE f.kind = "request"
  <2> DEFINE e == [f EXCEPT !.how = how]
  <2>1. /\ e \in FrameRecords /\ e.kind = f.kind /\ e.how = how /\ e.defers = f.defers
        /\ e.open = f.open /\ e.status = f.status
    BY DEF Frame, FrameRecords, Hows
  <2> HIDE DEF e
  <2>2. e \in Frame
    BY <1>1, <1>3, <2>1, FrameFields, IsFrame DEF Unended, Marked
  <2> QED
    BY <1>3, <2>2 DEF e
<1> QED
  BY <1>2, <1>3

\* Its deferred functions.
LEMMA EndFrame ==
  ASSUME NEW f \in Frame, f.how # "running", f.defers # <<>>, Last(f.defers) = "end"
  PROVE  LET e == [f EXCEPT !.defers = Front(@), !.open = FALSE]
         IN  /\ e \in Frame /\ e.kind = f.kind /\ e.how = f.how
             /\ \/ f.kind = "span" /\ f.defers = <<"recover", "end">> /\ e.defers = <<"recover">>
                \/ f.kind = "worker" /\ f.defers = <<"leave", "end">> /\ e.defers = <<"leave">>
<1> DEFINE e == [f EXCEPT !.defers = Front(@), !.open = FALSE]
<1>1. \/ f.kind = "span" /\ f.defers = <<"recover", "end">> /\ Front(f.defers) = <<"recover">>
      \/ f.kind = "worker" /\ f.defers = <<"leave", "end">> /\ Front(f.defers) = <<"leave">>
  BY DeferCases
<1>2. Front(f.defers) \in Remaining(f.kind) /\ f.kind \in Kinds
  BY <1>1 DEF Remaining, Kinds
<1>3. /\ e \in FrameRecords /\ e.kind = f.kind /\ e.how = f.how /\ e.defers = Front(f.defers)
      /\ ~e.open /\ e.status = f.status
  BY <1>2 DEF Frame, FrameRecords
<1> HIDE DEF e
<1>4. ~Unended(e) /\ (Marked(e) <=> Marked(f))
  BY <1>1, <1>3, Distinct DEF Unended, Marked, Deferred
<1>5. e \in Frame
  BY <1>2, <1>3, <1>4, FrameFields, IsFrame
<1> QED
  BY <1>1, <1>3, <1>5 DEF e

LEMMA RecoverFrame ==
  ASSUME NEW f \in Frame, f.how # "running", f.defers # <<>>, Last(f.defers) = "recover"
  PROVE  LET e == [f EXCEPT !.defers = Front(@),
                            !.status = IF f.how = "panic" /\ f.open THEN "error" ELSE @]
         IN  /\ e \in Frame /\ e.kind = f.kind /\ e.how = f.how
             /\ \/ f.kind = "span" /\ f.defers = <<"recover">> /\ e.defers = <<>>
                \/ f.kind = "worker" /\ f.defers = <<"leave", "end", "recover">> /\ e.defers = <<"leave", "end">>
<1> DEFINE e == [f EXCEPT !.defers = Front(@),
                          !.status = IF f.how = "panic" /\ f.open THEN "error" ELSE @]
<1>1. \/ f.kind = "span" /\ f.defers = <<"recover">> /\ Front(f.defers) = <<>>
      \/ f.kind = "worker" /\ f.defers = <<"leave", "end", "recover">> /\ Front(f.defers) = <<"leave", "end">>
  BY DeferCases
<1>2. Front(f.defers) \in Remaining(f.kind) /\ f.kind \in Kinds
  BY <1>1 DEF Remaining, Kinds
<1>3. /\ e \in FrameRecords /\ e.kind = f.kind /\ e.how = f.how /\ e.defers = Front(f.defers)
      /\ e.open = f.open /\ e.status = IF f.how = "panic" /\ f.open THEN "error" ELSE f.status
  BY <1>2 DEF Frame, FrameRecords
<1> HIDE DEF e
<1>4. Unended(e) <=> Unended(f)
  BY <1>1, <1>3, Distinct, Tuples DEF Unended, Deferred
<1>5. e.status = "error" <=> Marked(e)
  <2>1. (f.open <=> Unended(f)) /\ (f.status = "error" <=> Marked(f))
    BY FrameFields
  <2> QED
    BY <1>1, <1>3, <2>1, Distinct DEF Marked, Unended, Deferred
<1>6. e \in Frame
  BY <1>2, <1>3, <1>4, <1>5, FrameFields, IsFrame
<1> QED
  BY <1>1, <1>3, <1>6 DEF e

LEMMA LeaveFrame ==
  ASSUME NEW f \in Frame, f.how # "running", f.defers # <<>>, Last(f.defers) = "leave"
  PROVE  LET e == [f EXCEPT !.defers = Front(@)]
         IN  /\ e \in Frame /\ e.kind = f.kind /\ e.how = f.how
             /\ f.kind # "span" /\ f.defers = <<"leave">> /\ e.defers = <<>>
<1> DEFINE e == [f EXCEPT !.defers = Front(@)]
<1>1. f.kind \in {"worker", "request"} /\ f.defers = <<"leave">> /\ Front(f.defers) = <<>>
  BY DeferCases
<1>2. Front(f.defers) \in Remaining(f.kind) /\ f.kind \in Kinds
  BY <1>1 DEF Remaining, Kinds
<1>3. /\ e \in FrameRecords /\ e.kind = f.kind /\ e.how = f.how /\ e.defers = <<>>
      /\ e.open = f.open /\ e.status = f.status
  BY <1>1, <1>2 DEF Frame, FrameRecords
<1> HIDE DEF e
<1>4. (Unended(e) <=> Unended(f)) /\ (Marked(e) <=> Marked(f))
  BY <1>1, <1>3, Distinct, Tuples DEF Unended, Marked, Deferred
<1>5. e \in Frame
  BY <1>1, <1>2, <1>3, <1>4, FrameFields, IsFrame
<1> QED
  BY <1>1, <1>3, <1>5 DEF e

-----------------------------------------------------------------------------
(* The steps.                                                              *)


\* What a step adds to the calls whose gauge is up, that ended, and whose panic
\* is counted.
Moves(hw, hr, rs, rw, ok, err, rok, rerr) ==
  /\ N(Holding("worker"))' = N(Holding("worker")) + hw
  /\ N(Holding("request"))' = N(Holding("request")) + hr
  /\ N(Recovered("span"))' = N(Recovered("span")) + rs
  /\ N(Recovered("worker"))' = N(Recovered("worker")) + rw
  /\ N(Ended("worker", "ok"))' = N(Ended("worker", "ok")) + ok
  /\ N(Ended("worker", "error"))' = N(Ended("worker", "error")) + err
  /\ N(Ended("request", "ok"))' = N(Ended("request", "ok")) + rok
  /\ N(Ended("request", "error"))' = N(Ended("request", "error")) + rerr

LEMMA Naturals8 ==
  /\ N(Holding("worker")) \in Nat /\ N(Holding("request")) \in Nat
  /\ N(Recovered("span")) \in Nat /\ N(Recovered("worker")) \in Nat
  /\ N(Ended("worker", "ok")) \in Nat /\ N(Ended("worker", "error")) \in Nat
  /\ N(Ended("request", "ok")) \in Nat /\ N(Ended("request", "error")) \in Nat
  /\ N(Holding("worker"))' \in Nat /\ N(Holding("request"))' \in Nat
  BY PlacesFinite

LEMMA OneOf ==
  ASSUME NEW f \in Frame
  PROVE  /\ \A k : One(f, Holding(k)) = IF f.kind = k /\ f.defers # <<>> THEN 1 ELSE 0
         /\ \A k, h : One(f, Ended(k, h)) = IF f.kind = k /\ f.how = h THEN 1 ELSE 0
         /\ One(f, Recovered("span")) =
              IF f.kind = "span" /\ f.how = "panic" /\ f.defers = <<>> THEN 1 ELSE 0
         /\ One(f, Recovered("worker")) =
              IF f.kind = "worker" /\ f.how = "panic" /\ f.defers # <<"leave", "end", "recover">> THEN 1 ELSE 0
  BY DEF One, Holding, Ended, Recovered, Deferred

LEMMA BeginStep ==
  ASSUME IInv, NEW g \in Goroutines, NEW k \in Kinds, Begin(g, k)
  PROVE  IInv'
<1> DEFINE f == [kind |-> k, how |-> "running", defers |-> Deferred(k), open |-> TRUE, status |-> "unset"]
<1>1. f \in Frame /\ f.defers # <<>> /\ f.kind = k /\ f.how = "running"
  BY NewFrame
<1>2. stack' = [stack EXCEPT ![g] = Append(@, f)] /\ InApplication(g) /\ Len(stack[g]) < MaxDepth
  BY DEF Begin
<1> HIDE DEF f
<1>3. Stacks' /\ \A F : N(F)' = N(F) + One(f, F)
  BY <1>1, <1>2, Pushed DEF IInv
<1>4. Moves(IF k = "worker" THEN 1 ELSE 0, IF k = "request" THEN 1 ELSE 0, 0, 0, 0, 0, 0, 0)
  BY <1>1, <1>3, OneOf, Naturals8 DEF Moves
<1>5. gauge' = [gauge EXCEPT ![k] = @ + (IF k = "span" THEN 0 ELSE 1)] /\ UNCHANGED <<count, client, left>>
  BY DEF Begin
<1>6. Balance'
  <2>1. /\ gauge' \in [Kinds -> Nat] /\ gauge'["span"] = gauge["span"]
        /\ gauge'["worker"] = gauge["worker"] + (IF k = "worker" THEN 1 ELSE 0)
        /\ gauge'["request"] = gauge["request"] + (IF k = "request" THEN 1 ELSE 0)
    BY <1>5 DEF IInv, OtherTypes, Kinds
  <2>2. /\ N(Recovered("span"))' = N(Recovered("span"))
        /\ N(Recovered("worker"))' = N(Recovered("worker"))
        /\ N(Ended("worker", "ok"))' = N(Ended("worker", "ok"))
        /\ N(Ended("worker", "error"))' = N(Ended("worker", "error"))
        /\ N(Ended("request", "ok"))' = N(Ended("request", "ok"))
        /\ N(Ended("request", "error"))' = N(Ended("request", "error"))
    BY <1>4, Naturals8 DEF Moves
  <2>3. /\ gauge'["worker"] = N(Holding("worker"))' /\ gauge'["request"] = N(Holding("request"))'
        /\ gauge'["span"] = 0
    <3>1. /\ gauge["worker"] = N(Holding("worker")) /\ gauge["request"] = N(Holding("request"))
          /\ gauge["span"] = 0
      BY DEF IInv, Balance
    <3> QED
      BY <1>4, <2>1, <3>1 DEF Moves
  <2> QED
    BY <1>5, <2>2, <2>3 DEF IInv, Balance
<1>7. OtherTypes'
  <2>1. calls' = [calls EXCEPT ![g] = @ + 1] /\ calls[g] < MaxCalls
        /\ UNCHANGED <<exporting, count, client, left, out, due>>
    BY DEF Begin
  <2>2. calls' \in [Goroutines -> 0..MaxCalls]
    BY <2>1, BoundsAssumption DEF IInv, OtherTypes
  <2>3. gauge' \in [Kinds -> Nat]
    BY <1>5 DEF IInv, OtherTypes
  <2> QED
    BY <2>1, <2>2, <2>3 DEF IInv, OtherTypes
<1> QED
  BY <1>3, <1>6, <1>7 DEF IInv, Begin, Spans, LinesAccounted, WentOut

\* A step of the innermost call that moves it from no set to another.
LEMMA SameBalance ==
  ASSUME Balance, UNCHANGED <<gauge, count, client, left>>, Moves(0, 0, 0, 0, 0, 0, 0, 0)
  PROVE  Balance'
<1>1. gauge' = gauge /\ count' = count /\ client' = client /\ left' = left
  OBVIOUS
<1>2. /\ N(Holding("worker"))' = N(Holding("worker"))
      /\ N(Holding("request"))' = N(Holding("request"))
      /\ N(Recovered("span"))' = N(Recovered("span"))
      /\ N(Recovered("worker"))' = N(Recovered("worker"))
      /\ N(Ended("worker", "ok"))' = N(Ended("worker", "ok"))
      /\ N(Ended("worker", "error"))' = N(Ended("worker", "error"))
      /\ N(Ended("request", "ok"))' = N(Ended("request", "ok"))
      /\ N(Ended("request", "error"))' = N(Ended("request", "error"))
  BY Naturals8 DEF Moves
<1> QED
  BY <1>1, <1>2 DEF Balance

LEMMA FnPanicsStep ==
  ASSUME IInv, NEW g \in Goroutines, FnPanics(g)
  PROVE  IInv'
<1> DEFINE t == Top(g)
           f == [t EXCEPT !.how = "panic"]
<1>1. t \in Frame /\ t.how = "running" /\ stack[g] # <<>> /\ SetTop(g, f)
  BY TopFrame DEF FnPanics, IInv
<1>2. f \in Frame /\ f.kind = t.kind /\ f.how = "panic" /\ f.defers = t.defers /\ t.defers = Deferred(t.kind)
      /\ t.defers # <<>>
  <2>1. t \in FrameRecords /\ t.kind \in Kinds /\ t.defers = Deferred(t.kind)
    BY <1>1, FrameFields
  <2>2. Deferred(t.kind) # <<>>
    BY <2>1, Distinct DEF Deferred, Kinds
  <2>3. f.kind = t.kind /\ f.how = "panic" /\ f.defers = t.defers
    BY <2>1 DEF FrameRecords, Hows
  <2> QED
    BY <1>1, <2>1, <2>2, <2>3, PanicFrame
<1> HIDE DEF t, f
<1>3. Stacks' /\ \A F : N(F)' = N(F) + One(f, F) - One(t, F)
  BY <1>1, <1>2, TopSet DEF IInv, t
<1>4. Moves(0, 0, 0, 0, 0, 0, 0, 0)
  <2>1. t.kind = "worker" => t.defers = <<"leave", "end", "recover">>
    BY <1>2 DEF Deferred
  <2> QED
    BY <1>1, <1>2, <1>3, <2>1, OneOf, Naturals8 DEF Moves
<1>5. Balance'
  BY <1>4, SameBalance DEF IInv, FnPanics
<1>6. OtherTypes' /\ Spans' /\ LinesAccounted'
  <2>1. UNCHANGED <<exporting, calls, gauge, count, out, due, client, left, ended>>
    BY DEF FnPanics
  <2> QED
    BY <2>1 DEF IInv, OtherTypes, Spans, LinesAccounted, WentOut
<1> QED
  BY <1>3, <1>5, <1>6 DEF IInv

\* A record through the logger or the contract logger keeps the accounts.
LEMMA LogStep ==
  ASSUME OtherTypes, LinesAccounted, UNCHANGED exporting,
         NEW api \in Apis, NEW level \in L!Levels, api = "critical" <=> level = L!CriticalLevel,
         LogLine(api, level)
  PROVE  /\ out' \in [Apis -> [stdout : Nat, otlp : Nat, counted : Nat]]
         /\ due' \in [Apis -> [records : Nat, errors : Nat]]
         /\ LinesAccounted'
<1> DEFINE w == L!Call(api, level, L!InfoLevel, exporting)
           r == IF level >= L!InfoLevel THEN 1 ELSE 0
           e == IF level >= L!ErrorLevel THEN 1 ELSE 0
<1>1. /\ w.stdout \in Nat /\ w.otlp \in Nat /\ w.counted \in Nat /\ r \in Nat /\ e \in Nat
      /\ api = "log" => w.stdout = r /\ w.otlp = (IF exporting = 1 THEN r ELSE 0) /\ w.counted = e
      /\ api = "emit" => /\ w.stdout = r
                         /\ IF exporting = 1 THEN w.otlp = r /\ w.counted = e ELSE w.counted = 0
      /\ api = "critical" => w.counted >= e
  <2> USE DEF L!Nothing, L!Hook, L!Levels, L!TraceLevel, L!InfoLevel, L!ErrorLevel, L!CriticalLevel
  <2>1. exporting \in {0, 1} /\ level \in (-2)..3
    BY DEF OtherTypes
  <2>2. CASE api = "log"
    <3>1. level # 3 /\ w = IF level < 0 THEN L!Nothing ELSE L!Checked(level, exporting)
      BY <2>2 DEF L!Call, L!Log
    <3> HIDE DEF w
    <3> QED
      BY <2>1, <2>2, <3>1 DEF L!Checked
  <2>3. CASE api = "critical"
    <3>1. w = [L!WriteHooked(3) EXCEPT !.counted = @ + 1]
      BY <2>3 DEF L!Call, L!LogNamed
    <3> HIDE DEF w
    <3> QED
      BY <2>1, <2>3, <3>1 DEF L!WriteHooked
  <2>4. CASE api = "emit"
    <3>1. w = IF level < 0 THEN L!Nothing
              ELSE [stdout |-> 1, otlp |-> exporting, counted |-> exporting * L!Hook(level)]
      BY <2>4 DEF L!Call, L!Emit
    <3> HIDE DEF w
    <3>2. CASE exporting = 0
      BY <2>1, <2>4, <3>1, <3>2
    <3>3. CASE exporting = 1
      BY <2>1, <2>4, <3>1, <3>3
    <3> QED
      BY <2>1, <3>2, <3>3
  <2> QED
    BY <2>2, <2>3, <2>4 DEF Apis
<1>2. /\ out' = [out EXCEPT ![api] = [stdout |-> @.stdout + w.stdout, otlp |-> @.otlp + w.otlp,
                                      counted |-> @.counted + w.counted]]
      /\ due' = [due EXCEPT ![api] = [records |-> @.records + r, errors |-> @.errors + e]]
  BY DEF LogLine
<1> HIDE DEF w, r, e
<1>3. /\ out \in [Apis -> [stdout : Nat, otlp : Nat, counted : Nat]]
      /\ due \in [Apis -> [records : Nat, errors : Nat]]
      /\ exporting \in {0, 1} /\ exporting' = exporting
  BY DEF OtherTypes
<1>4. /\ out' \in [Apis -> [stdout : Nat, otlp : Nat, counted : Nat]]
      /\ due' \in [Apis -> [records : Nat, errors : Nat]]
  BY <1>1, <1>2, <1>3
<1>5. /\ out'[api].stdout = out[api].stdout + w.stdout /\ out'[api].otlp = out[api].otlp + w.otlp
      /\ out'[api].counted = out[api].counted + w.counted
      /\ due'[api].records = due[api].records + r /\ due'[api].errors = due[api].errors + e
      /\ \A a \in Apis \ {api} : out'[a] = out[a] /\ due'[a] = due[a]
  BY <1>2, <1>3
<1>6. /\ WentOut("log") /\ out["emit"].stdout = due["emit"].records
      /\ IF exporting = 1 THEN WentOut("emit") ELSE out["emit"].counted = 0
      /\ out["critical"].counted >= due["critical"].errors
  BY DEF LinesAccounted
<1>7. /\ out["emit"].stdout \in Nat /\ out["log"].stdout \in Nat /\ out["emit"].otlp \in Nat
      /\ out["log"].otlp \in Nat /\ out["emit"].counted \in Nat /\ out["log"].counted \in Nat
      /\ due["emit"].records \in Nat /\ due["log"].records \in Nat
      /\ due["emit"].errors \in Nat /\ due["log"].errors \in Nat
      /\ out["critical"].counted \in Nat /\ due["critical"].errors \in Nat
  BY <1>3 DEF Apis
<1>8. WentOut("log")'
  <2>1. CASE api = "log"
    <3>1. CASE exporting = 0
      BY <1>1, <1>3, <1>5, <1>6, <1>7, <2>1, <3>1 DEF WentOut
    <3>2. CASE exporting = 1
      BY <1>1, <1>3, <1>5, <1>6, <1>7, <2>1, <3>2 DEF WentOut
    <3> QED
      BY <1>3, <3>1, <3>2
  <2>2. CASE api # "log"
    BY <1>3, <1>5, <1>6, <2>2 DEF WentOut, Apis
  <2> QED
    BY <2>1, <2>2
<1>9. /\ out'["emit"].stdout = due'["emit"].records
      /\ IF exporting' = 1 THEN WentOut("emit")' ELSE out'["emit"].counted = 0
  <2>1. CASE api = "emit"
    <3>1. CASE exporting = 0
      BY <1>1, <1>3, <1>5, <1>6, <1>7, <2>1, <3>1
    <3>2. CASE exporting = 1
      BY <1>1, <1>3, <1>5, <1>6, <1>7, <2>1, <3>2 DEF WentOut
    <3> QED
      BY <1>3, <3>1, <3>2
  <2>2. CASE api # "emit"
    BY <1>3, <1>5, <1>6, <2>2 DEF WentOut, Apis
  <2> QED
    BY <2>1, <2>2
<1>10. out'["critical"].counted >= due'["critical"].errors
  <2>1. CASE api = "critical"
    BY <1>1, <1>5, <1>6, <1>7, <2>1
  <2>2. CASE api # "critical"
    BY <1>5, <1>6, <2>2 DEF Apis
  <2> QED
    BY <2>1, <2>2
<1> QED
  BY <1>4, <1>8, <1>9, <1>10 DEF LinesAccounted

LEMMA LineStep ==
  ASSUME IInv, NEW g \in Goroutines, NEW a \in Apis, NEW l \in L!Levels, Line(g, a, l)
  PROVE  IInv'
<1>1. UNCHANGED <<exporting, stack, calls, gauge, count, client, left, ended>>
  BY DEF Line
<1>2. /\ out' \in [Apis -> [stdout : Nat, otlp : Nat, counted : Nat]]
      /\ due' \in [Apis -> [records : Nat, errors : Nat]]
      /\ LinesAccounted'
  BY <1>1, LogStep DEF IInv, Line
<1>3. OtherTypes' /\ Spans'
  BY <1>1, <1>2 DEF IInv, OtherTypes, Spans
<1>4. Stacks' /\ \A F : N(F)' = N(F)
  BY <1>1 DEF IInv, Stacks, N, Places
<1>5. Balance'
  BY <1>1, <1>4 DEF IInv, Balance
<1> QED
  BY <1>2, <1>3, <1>4, <1>5 DEF IInv

\* A job that returns is counted and logged.
LEMMA FnReturnsStep ==
  ASSUME IInv, NEW g \in Goroutines, NEW how \in {"ok", "error"}, FnReturns(g, how)
  PROVE  IInv'
<1> DEFINE t == Top(g)
           f == [t EXCEPT !.how = how, !.status = IF how = "error" THEN "error" ELSE @]
           ok == IF t.kind = "worker" /\ how = "ok" THEN 1 ELSE 0
           err == IF t.kind = "worker" /\ how = "error" THEN 1 ELSE 0
<1>1. /\ t \in Frame /\ t.how = "running" /\ t.kind # "request" /\ stack[g] # <<>> /\ SetTop(g, f)
      /\ UNCHANGED <<exporting, calls, gauge, client, left, ended>>
      /\ t.kind = "worker" => CountJob(how)
      /\ t.kind # "worker" => UNCHANGED <<count, out, due>>
  BY TopFrame DEF FnReturns, IInv
<1>2. f \in Frame /\ f.kind = t.kind /\ f.how = how /\ f.defers = t.defers /\ t.defers = Deferred(t.kind)
      /\ t.defers # <<>> /\ t.kind \in {"span", "worker"}
  <2>1. t \in FrameRecords /\ t.kind \in {"span", "worker"} /\ t.defers = Deferred(t.kind)
    BY <1>1, FrameFields DEF Kinds
  <2>2. Deferred(t.kind) # <<>>
    BY <2>1, Distinct DEF Deferred
  <2>3. f.kind = t.kind /\ f.how = how /\ f.defers = t.defers
    BY <2>1 DEF FrameRecords, Hows
  <2> QED
    BY <1>1, <2>1, <2>2, <2>3, ReturnFrame
<1> HIDE DEF t, f
<1>3. Stacks' /\ \A F : N(F)' = N(F) + One(f, F) - One(t, F)
  BY <1>1, <1>2, TopSet DEF IInv, t
<1>4. Moves(0, 0, 0, 0, ok, err, 0, 0)
  <2>1. t.kind = "worker" => t.defers = <<"leave", "end", "recover">>
    BY <1>2 DEF Deferred
  <2>2. /\ One(f, Ended("worker", "ok")) = ok /\ One(f, Ended("worker", "error")) = err
        /\ One(t, Ended("worker", "ok")) = 0 /\ One(t, Ended("worker", "error")) = 0
        /\ ok \in Nat /\ err \in Nat
    BY <1>1, <1>2, OneOf
  <2>3. /\ One(f, Holding("worker")) = One(t, Holding("worker"))
        /\ One(f, Holding("request")) = One(t, Holding("request"))
        /\ One(t, Holding("worker")) \in Nat /\ One(t, Holding("request")) \in Nat
        /\ One(f, Recovered("span")) = 0 /\ One(f, Recovered("worker")) = 0
        /\ One(t, Recovered("span")) = 0 /\ One(t, Recovered("worker")) = 0
        /\ One(f, Ended("request", "ok")) = 0 /\ One(f, Ended("request", "error")) = 0
        /\ One(t, Ended("request", "ok")) = 0 /\ One(t, Ended("request", "error")) = 0
    BY <1>1, <1>2, <2>1, OneOf
  <2> HIDE DEF ok, err
  <2> QED
    BY <1>3, <2>2, <2>3, Naturals8 DEF Moves
<1>5. /\ count' \in [Counters -> Nat]
      /\ count'["jobs_ok"] = count["jobs_ok"] + ok /\ count'["jobs_error"] = count["jobs_error"] + err
      /\ \A c \in {"exceptions", "requests", "request_errors"} : count'[c] = count[c]
  <2>1. count \in [Counters -> Nat]
    BY DEF IInv, OtherTypes
  <2>2. CASE t.kind = "worker"
    <3>1. count' = [count EXCEPT ![IF how = "ok" THEN "jobs_ok" ELSE "jobs_error"] = @ + 1]
      BY <1>1, <2>2 DEF CountJob
    <3>2. CASE how = "ok"
      BY <2>1, <2>2, <3>1, <3>2 DEF Counters
    <3>3. CASE how = "error"
      BY <2>1, <2>2, <3>1, <3>3 DEF Counters
    <3> QED
      BY <3>2, <3>3
  <2>3. CASE t.kind # "worker"
    <3>1. count' = count /\ ok = 0 /\ err = 0 /\ count["jobs_ok"] \in Nat /\ count["jobs_error"] \in Nat
      BY <1>1, <2>1, <2>3 DEF Counters
    <3> HIDE DEF ok, err
    <3> QED
      BY <2>1, <3>1
  <2> QED
    BY <2>2, <2>3
<1>6. /\ out' \in [Apis -> [stdout : Nat, otlp : Nat, counted : Nat]]
      /\ due' \in [Apis -> [records : Nat, errors : Nat]]
      /\ LinesAccounted'
  <2>1. CASE t.kind = "worker"
    <3>1. LogLine("log", IF how = "ok" THEN L!InfoLevel ELSE L!ErrorLevel)
      BY <1>1, <2>1 DEF CountJob
    <3>2. /\ (IF how = "ok" THEN L!InfoLevel ELSE L!ErrorLevel) \in L!Levels
          /\ (IF how = "ok" THEN L!InfoLevel ELSE L!ErrorLevel) # L!CriticalLevel
      BY DEF L!Levels, L!TraceLevel, L!InfoLevel, L!ErrorLevel, L!CriticalLevel
    <3>3. "log" \in Apis
      BY DEF Apis
    <3> QED
      BY <1>1, <3>1, <3>2, <3>3, LogStep DEF IInv
  <2>2. CASE t.kind # "worker"
    BY <1>1, <2>2 DEF IInv, OtherTypes, LinesAccounted, WentOut
  <2> QED
    BY <2>1, <2>2
<1>7. Balance'
  <2>1. /\ N(Holding("worker"))' = N(Holding("worker"))
        /\ N(Holding("request"))' = N(Holding("request"))
        /\ N(Recovered("span"))' = N(Recovered("span"))
        /\ N(Recovered("worker"))' = N(Recovered("worker"))
        /\ N(Ended("request", "ok"))' = N(Ended("request", "ok"))
        /\ N(Ended("request", "error"))' = N(Ended("request", "error"))
    BY <1>4, Naturals8 DEF Moves
  <2>2. /\ count'["jobs_ok"] = left[<<"worker", "ok">>] + N(Ended("worker", "ok"))'
        /\ count'["jobs_error"] = left[<<"worker", "error">>] + N(Ended("worker", "error"))'
    <3>1. /\ count["jobs_ok"] = left[<<"worker", "ok">>] + N(Ended("worker", "ok"))
          /\ count["jobs_error"] = left[<<"worker", "error">>] + N(Ended("worker", "error"))
          /\ left[<<"worker", "ok">>] \in Nat /\ left[<<"worker", "error">>] \in Nat
      BY DEF IInv, Balance, OtherTypes, Kinds, Hows
    <3>2. /\ N(Ended("worker", "ok"))' = N(Ended("worker", "ok")) + ok
          /\ N(Ended("worker", "error"))' = N(Ended("worker", "error")) + err
          /\ ok \in Nat /\ err \in Nat
      BY <1>4 DEF Moves
    <3>3. count'["jobs_ok"] = count["jobs_ok"] + ok /\ count'["jobs_error"] = count["jobs_error"] + err
      BY <1>5
    <3> HIDE DEF ok, err
    <3> QED
      BY <3>1, <3>2, <3>3, Naturals8
  <2>3. UNCHANGED <<gauge, client, left>>
    BY <1>1
  <2> HIDE DEF ok, err
  <2> QED
    BY <1>5, <2>1, <2>2, <2>3 DEF IInv, Balance
<1>8. OtherTypes' /\ Spans'
  BY <1>1, <1>5, <1>6 DEF IInv, OtherTypes, Spans
<1> QED
  BY <1>3, <1>6, <1>7, <1>8 DEF IInv

\* What a handler makes of its status: the client may get another.
LEMMA Statuses ==
  ASSUME NEW writes \in Writes
  PROVE  /\ StatusCode(writes) \in {"ok", "error"} /\ Len(writes) \in Nat
         /\ StatusCode(writes) = "error" => Sent(writes) = "error" \/ Len(writes) > 1
         /\ Sent(writes) = "error" => StatusCode(writes) = "error" \/ Len(writes) > 1
<1>1. PICK n \in 0..2 : writes \in [1..n -> {"ok", "error"}]
  BY DEF Writes
<1>2. writes \in Seq({"ok", "error"}) /\ Len(writes) = n
  BY <1>1
<1>3. CASE n = 0
  BY <1>2, <1>3, EmptySeq DEF StatusCode, Sent
<1>4. CASE n = 1
  <2>1. writes # <<>> /\ Last(writes) = writes[1] /\ Head(writes) = writes[1] /\ writes[1] \in {"ok", "error"}
    BY <1>1, <1>2, <1>4 DEF Last
  <2> QED
    BY <1>2, <1>4, <2>1 DEF StatusCode, Sent
<1>5. CASE n = 2
  <2>1. writes # <<>> /\ Last(writes) = writes[2] /\ writes[2] \in {"ok", "error"}
    BY <1>1, <1>2, <1>5 DEF Last
  <2> QED
    BY <1>2, <1>5, <2>1 DEF StatusCode, Sent
<1> QED
  BY <1>1, <1>3, <1>4, <1>5

\* A request that returns is counted and logged.
LEMMA HandlerReturnsStep ==
  ASSUME IInv, NEW g \in Goroutines, NEW writes \in Writes, HandlerReturns(g, writes)
  PROVE  IInv'
<1> DEFINE t == Top(g)
           how == StatusCode(writes)
           f == [t EXCEPT !.how = how]
           ok == IF how = "ok" THEN 1 ELSE 0
           err == IF how = "ok" THEN 0 ELSE 1
           sent == IF Sent(writes) = "error" THEN 1 ELSE 0
           more == IF Len(writes) > 1 THEN 1 ELSE 0
<1>1. /\ t \in Frame /\ t.how = "running" /\ t.kind = "request" /\ stack[g] # <<>> /\ SetTop(g, f)
      /\ UNCHANGED <<exporting, calls, gauge, left, ended>>
  BY TopFrame DEF HandlerReturns, IInv
<1>2. /\ how \in {"ok", "error"} /\ ok \in Nat /\ err \in Nat /\ ok + err = 1 /\ sent \in Nat /\ more \in Nat
      /\ err <= sent + more /\ sent <= err + more
  BY Statuses
<1>3. /\ count' = [count EXCEPT !["requests"] = @ + 1, !["request_errors"] = @ + err]
      /\ client' = [errors |-> client.errors + sent, rewritten |-> client.rewritten + more]
      /\ LogLine("log", L!InfoLevel)
  BY DEF HandlerReturns, CountRequest
<1> HIDE DEF how
<1>4. f \in Frame /\ f.kind = t.kind /\ f.how = how /\ f.defers = t.defers
  <2>1. f.kind = t.kind /\ f.how = how /\ f.defers = t.defers
    BY <1>1 DEF Frame, FrameRecords
  <2> QED
    BY <1>1, <1>2, <2>1, ReturnFrame
<1> HIDE DEF t, f
<1>5. Stacks' /\ \A F : N(F)' = N(F) + One(f, F) - One(t, F)
  BY <1>1, <1>4, TopSet DEF IInv, t
<1>6. Moves(0, 0, 0, 0, 0, 0, ok, err)
  <2>1. /\ One(f, Ended("request", "ok")) = ok /\ One(f, Ended("request", "error")) = err
        /\ One(t, Ended("request", "ok")) = 0 /\ One(t, Ended("request", "error")) = 0
    BY <1>1, <1>2, <1>4, OneOf
  <2>2. /\ One(f, Holding("worker")) = One(t, Holding("worker"))
        /\ One(f, Holding("request")) = One(t, Holding("request"))
        /\ One(t, Holding("worker")) \in Nat /\ One(t, Holding("request")) \in Nat
        /\ One(f, Recovered("span")) = 0 /\ One(f, Recovered("worker")) = 0
        /\ One(t, Recovered("span")) = 0 /\ One(t, Recovered("worker")) = 0
        /\ One(f, Ended("worker", "ok")) = 0 /\ One(f, Ended("worker", "error")) = 0
        /\ One(t, Ended("worker", "ok")) = 0 /\ One(t, Ended("worker", "error")) = 0
    BY <1>1, <1>4, OneOf
  <2> HIDE DEF ok, err
  <2> QED
    BY <1>2, <1>5, <2>1, <2>2, Naturals8 DEF Moves
<1> HIDE DEF ok, err, sent, more
<1>7. /\ count' \in [Counters -> Nat] /\ client' \in [errors : Nat, rewritten : Nat]
      /\ count'["requests"] = count["requests"] + 1
      /\ count'["request_errors"] = count["request_errors"] + err
      /\ \A c \in {"exceptions", "jobs_ok", "jobs_error"} : count'[c] = count[c]
      /\ client'.errors = client.errors + sent /\ client'.rewritten = client.rewritten + more
  BY <1>2, <1>3 DEF IInv, OtherTypes, Counters
<1>8. /\ out' \in [Apis -> [stdout : Nat, otlp : Nat, counted : Nat]]
      /\ due' \in [Apis -> [records : Nat, errors : Nat]]
      /\ LinesAccounted'
  <2>1. "log" \in Apis /\ L!InfoLevel \in L!Levels /\ L!InfoLevel # L!CriticalLevel
    BY DEF Apis, L!Levels, L!TraceLevel, L!InfoLevel, L!CriticalLevel
  <2> QED
    BY <1>1, <1>3, <2>1, LogStep DEF IInv
<1>9. Balance'
  <2>1. /\ N(Holding("worker"))' = N(Holding("worker"))
        /\ N(Holding("request"))' = N(Holding("request"))
        /\ N(Recovered("span"))' = N(Recovered("span"))
        /\ N(Recovered("worker"))' = N(Recovered("worker"))
        /\ N(Ended("worker", "ok"))' = N(Ended("worker", "ok"))
        /\ N(Ended("worker", "error"))' = N(Ended("worker", "error"))
    BY <1>6, Naturals8 DEF Moves
  <2>2. count'["requests"] = left[<<"request", "ok">>] + N(Ended("request", "ok"))'
                             + left[<<"request", "error">>] + N(Ended("request", "error"))'
    <3>1. /\ count["requests"] = left[<<"request", "ok">>] + N(Ended("request", "ok"))
                                 + left[<<"request", "error">>] + N(Ended("request", "error"))
          /\ left[<<"request", "ok">>] \in Nat /\ left[<<"request", "error">>] \in Nat
      BY DEF IInv, Balance, OtherTypes, Kinds, Hows
    <3>2. /\ N(Ended("request", "ok"))' = N(Ended("request", "ok")) + ok
          /\ N(Ended("request", "error"))' = N(Ended("request", "error")) + err
      BY <1>6 DEF Moves
    <3> QED
      BY <1>2, <1>7, <3>1, <3>2, Naturals8
  <2>3. /\ count'["request_errors"] <= client'.errors + client'.rewritten
        /\ count'["request_errors"] >= client'.errors - client'.rewritten
    <3>1. /\ count["request_errors"] <= client.errors + client.rewritten
          /\ count["request_errors"] >= client.errors - client.rewritten
          /\ count["request_errors"] \in Nat /\ client.errors \in Nat /\ client.rewritten \in Nat
      BY DEF IInv, Balance, OtherTypes, Counters
    <3> QED
      BY <1>2, <1>7, <3>1
  <2>4. UNCHANGED <<gauge, left>>
    BY <1>1
  <2> QED
    BY <1>7, <2>1, <2>2, <2>3, <2>4 DEF IInv, Balance
<1>10. OtherTypes' /\ Spans'
  BY <1>1, <1>7, <1>8 DEF IInv, OtherTypes, Spans
<1> QED
  BY <1>5, <1>8, <1>9, <1>10 DEF IInv

\* The span that ends bears the status its frame has.
LEMMA EndSpanStep ==
  ASSUME IInv, NEW g \in Goroutines, EndSpan(g)
  PROVE  IInv'
<1> DEFINE t == Top(g)
           f == [t EXCEPT !.defers = Front(@), !.open = FALSE]
           s == [kind |-> t.kind, how |-> t.how, status |-> t.status]
<1>1. /\ t \in Frame /\ t.how # "running" /\ t.defers # <<>> /\ Last(t.defers) = "end" /\ stack[g] # <<>>
      /\ ended' = ended \cup {s}
      /\ UNCHANGED <<exporting, calls, gauge, count, out, due, client, left>>
  BY TopFrame DEF EndSpan, Runs, IInv
<1>2. t \in FrameRecords /\ (t.status = "error" <=> Marked(t))
  BY <1>1, FrameFields
<1>3. SetTop(g, f)
  <2>1. [Popped(g) EXCEPT !.open = FALSE] = f
    BY <1>2 DEF Popped, FrameRecords
  <2> QED
    BY <2>1 DEF EndSpan
<1>4. /\ f \in Frame /\ f.kind = t.kind /\ f.how = t.how
      /\ \/ t.kind = "span" /\ t.defers = <<"recover", "end">> /\ f.defers = <<"recover">>
         \/ t.kind = "worker" /\ t.defers = <<"leave", "end">> /\ f.defers = <<"leave">>
  BY <1>1, EndFrame
<1> HIDE DEF t, f
<1>5. Stacks' /\ \A F : N(F)' = N(F) + One(f, F) - One(t, F)
  BY <1>1, <1>3, <1>4, TopSet DEF IInv, t
<1>6. Moves(0, 0, 0, 0, 0, 0, 0, 0)
  <2>0. f.defers # <<>> /\ f.defers # <<"leave", "end", "recover">> /\ t.defers # <<"leave", "end", "recover">>
    <3>1. CASE t.kind = "span"
      <4>1. t.defers = <<"recover", "end">> /\ f.defers = <<"recover">>
        BY <1>4, <3>1
      <4> QED
        BY <4>1
    <3>2. CASE t.kind = "worker"
      <4>1. t.defers = <<"leave", "end">> /\ f.defers = <<"leave">>
        BY <1>4, <3>2
      <4> QED
        BY <4>1
    <3> QED
      BY <1>4, <3>1, <3>2
  <2>1. /\ One(f, Holding("worker")) = One(t, Holding("worker"))
        /\ One(f, Holding("request")) = One(t, Holding("request"))
        /\ One(f, Recovered("span")) = One(t, Recovered("span"))
        /\ One(f, Recovered("worker")) = One(t, Recovered("worker"))
        /\ One(f, Ended("worker", "ok")) = One(t, Ended("worker", "ok"))
        /\ One(f, Ended("worker", "error")) = One(t, Ended("worker", "error"))
        /\ One(f, Ended("request", "ok")) = One(t, Ended("request", "ok"))
        /\ One(f, Ended("request", "error")) = One(t, Ended("request", "error"))
    BY <1>1, <1>4, <2>0, OneOf
  <2>2. \A F : One(t, F) \in Nat
    BY DEF One
  <2> QED
    BY <1>5, <2>1, <2>2, Naturals8 DEF Moves
<1>7. Balance'
  BY <1>1, <1>6, SameBalance DEF IInv
<1>8. Spans'
  <2>1. Marked(t) <=> (t.how # "ok" /\ ~(t.kind = "span" /\ t.how = "panic"))
    BY <1>1, <1>2, <1>4, Distinct DEF Marked, Deferred, FrameRecords, Hows
  <2>2. t.kind \in Kinds /\ t.how \in Hows /\ t.status \in {"unset", "error"}
    BY <1>1, <1>2 DEF FrameRecords
  <2> QED
    BY <1>1, <1>2, <2>1, <2>2 DEF IInv, Spans
<1>9. OtherTypes' /\ LinesAccounted'
  BY <1>1 DEF IInv, OtherTypes, LinesAccounted, WentOut
<1> QED
  BY <1>5, <1>7, <1>8, <1>9 DEF IInv

\* A panic is counted, and marks a span that is open.
LEMMA RecoverStep ==
  ASSUME IInv, NEW g \in Goroutines, Recover(g)
  PROVE  IInv'
<1> DEFINE t == Top(g)
           f == [t EXCEPT !.defers = Front(@),
                          !.status = IF t.how = "panic" /\ t.open THEN "error" ELSE @]
           rs == IF t.kind = "span" /\ t.how = "panic" THEN 1 ELSE 0
           rw == IF t.kind = "worker" /\ t.how = "panic" THEN 1 ELSE 0
           panics == IF t.how = "panic" THEN 1 ELSE 0
<1>1. /\ t \in Frame /\ t.how # "running" /\ t.defers # <<>> /\ Last(t.defers) = "recover" /\ stack[g] # <<>>
      /\ count' = [count EXCEPT !["exceptions"] = @ + panics]
      /\ UNCHANGED <<exporting, calls, gauge, out, due, client, left, ended>>
  BY TopFrame DEF Recover, Runs, IInv
<1>2. SetTop(g, f)
  <2>1. t \in FrameRecords
    BY <1>1, FrameFields
  <2>2. [Popped(g) EXCEPT !.status = IF t.how = "panic" /\ t.open THEN "error" ELSE @] = f
    BY <2>1 DEF Popped, FrameRecords
  <2> QED
    BY <2>2 DEF Recover
<1>3. /\ f \in Frame /\ f.kind = t.kind /\ f.how = t.how
      /\ \/ t.kind = "span" /\ t.defers = <<"recover">> /\ f.defers = <<>>
         \/ t.kind = "worker" /\ t.defers = <<"leave", "end", "recover">> /\ f.defers = <<"leave", "end">>
  BY <1>1, RecoverFrame
<1> HIDE DEF t, f
<1>4. Stacks' /\ \A F : N(F)' = N(F) + One(f, F) - One(t, F)
  BY <1>1, <1>2, <1>3, TopSet DEF IInv, t
<1>5. Moves(0, 0, rs, rw, 0, 0, 0, 0)
  <2>1. CASE t.kind = "span"
    <3>1. t.defers = <<"recover">> /\ f.defers = <<>>
      BY <1>3, <2>1
    <3>2. /\ One(f, Recovered("span")) = rs /\ One(t, Recovered("span")) = 0
          /\ One(f, Recovered("worker")) = rw /\ One(t, Recovered("worker")) = 0
      BY <1>1, <1>3, <2>1, <3>1, OneOf
    <3>3. /\ One(f, Holding("worker")) = 0 /\ One(t, Holding("worker")) = 0
          /\ One(f, Holding("request")) = 0 /\ One(t, Holding("request")) = 0
          /\ One(f, Ended("worker", "ok")) = 0 /\ One(t, Ended("worker", "ok")) = 0
          /\ One(f, Ended("worker", "error")) = 0 /\ One(t, Ended("worker", "error")) = 0
          /\ One(f, Ended("request", "ok")) = 0 /\ One(t, Ended("request", "ok")) = 0
          /\ One(f, Ended("request", "error")) = 0 /\ One(t, Ended("request", "error")) = 0
      BY <1>1, <1>3, <2>1, OneOf
    <3>4. rs \in Nat /\ rw \in Nat
      OBVIOUS
    <3> HIDE DEF rs, rw
    <3> QED
      BY <1>4, <3>2, <3>3, <3>4, Naturals8 DEF Moves
  <2>2. CASE t.kind = "worker"
    <3>1. /\ t.defers = <<"leave", "end", "recover">> /\ f.defers = <<"leave", "end">>
          /\ f.defers # <<"leave", "end", "recover">> /\ f.defers # <<>> /\ t.defers # <<>>
      BY <1>3, <2>2, Distinct
    <3>2. /\ One(f, Recovered("span")) = rs /\ One(t, Recovered("span")) = 0
          /\ One(f, Recovered("worker")) = rw /\ One(t, Recovered("worker")) = 0
      BY <1>1, <1>3, <2>2, <3>1, OneOf
    <3>3. /\ One(f, Holding("worker")) = 1 /\ One(t, Holding("worker")) = 1
          /\ One(f, Holding("request")) = 0 /\ One(t, Holding("request")) = 0
          /\ One(f, Ended("request", "ok")) = 0 /\ One(t, Ended("request", "ok")) = 0
          /\ One(f, Ended("request", "error")) = 0 /\ One(t, Ended("request", "error")) = 0
      BY <1>1, <1>3, <2>2, <3>1, OneOf
    <3>5. /\ One(f, Ended("worker", "ok")) = One(t, Ended("worker", "ok"))
          /\ One(f, Ended("worker", "error")) = One(t, Ended("worker", "error"))
      BY <1>1, <1>3, OneOf
    <3>4. /\ rs \in Nat /\ rw \in Nat
          /\ One(t, Ended("worker", "ok")) \in Nat /\ One(t, Ended("worker", "error")) \in Nat
      BY DEF One
    <3> HIDE DEF rs, rw
    <3> QED
      BY <1>4, <3>2, <3>3, <3>4, <3>5, Naturals8 DEF Moves
  <2> QED
    BY <1>3, <2>1, <2>2
<1>6. /\ count' \in [Counters -> Nat] /\ count'["exceptions"] = count["exceptions"] + rs + rw
      /\ \A c \in Counters \ {"exceptions"} : count'[c] = count[c]
      /\ rs \in Nat /\ rw \in Nat
  <2>1. panics = rs + rw /\ rs \in Nat /\ rw \in Nat
    BY <1>3
  <2> HIDE DEF panics, rs, rw
  <2> QED
    BY <1>1, <2>1 DEF IInv, OtherTypes, Counters
<1> HIDE DEF rs, rw
<1>7. Balance'
  <2>1. /\ N(Holding("worker"))' = N(Holding("worker"))
        /\ N(Holding("request"))' = N(Holding("request"))
        /\ N(Ended("worker", "ok"))' = N(Ended("worker", "ok"))
        /\ N(Ended("worker", "error"))' = N(Ended("worker", "error"))
        /\ N(Ended("request", "ok"))' = N(Ended("request", "ok"))
        /\ N(Ended("request", "error"))' = N(Ended("request", "error"))
    BY <1>5, Naturals8 DEF Moves
  <2>2. count'["exceptions"] = left[<<"span", "panic">>] + N(Recovered("span"))'
                               + left[<<"worker", "panic">>] + N(Recovered("worker"))'
    <3>1. /\ count["exceptions"] = left[<<"span", "panic">>] + N(Recovered("span"))
                                   + left[<<"worker", "panic">>] + N(Recovered("worker"))
          /\ left[<<"span", "panic">>] \in Nat /\ left[<<"worker", "panic">>] \in Nat
      BY DEF IInv, Balance, OtherTypes, Kinds, Hows
    <3>2. /\ N(Recovered("span"))' = N(Recovered("span")) + rs
          /\ N(Recovered("worker"))' = N(Recovered("worker")) + rw
      BY <1>5 DEF Moves
    <3> QED
      BY <1>6, <3>1, <3>2, Naturals8
  <2>3. \A c \in {"jobs_ok", "jobs_error", "requests", "request_errors"} : count'[c] = count[c]
    BY <1>6 DEF Counters
  <2>4. UNCHANGED <<gauge, client, left>>
    BY <1>1
  <2> QED
    BY <2>1, <2>2, <2>3, <2>4 DEF IInv, Balance
<1>8. OtherTypes' /\ Spans' /\ LinesAccounted'
  BY <1>1, <1>6 DEF IInv, OtherTypes, Spans, LinesAccounted, WentOut
<1> QED
  BY <1>4, <1>7, <1>8 DEF IInv

\* The gauge goes down once for the call that raised it.
LEMMA LeaveStep ==
  ASSUME IInv, NEW g \in Goroutines, LeaveGauge(g)
  PROVE  IInv'
<1> DEFINE t == Top(g)
           f == [t EXCEPT !.defers = Front(@)]
           hw == IF t.kind = "worker" THEN 1 ELSE 0
           hr == IF t.kind = "request" THEN 1 ELSE 0
<1>1. /\ t \in Frame /\ t.how # "running" /\ t.defers # <<>> /\ Last(t.defers) = "leave" /\ stack[g] # <<>>
      /\ SetTop(g, f) /\ gauge' = [gauge EXCEPT ![t.kind] = @ - 1]
      /\ UNCHANGED <<exporting, calls, count, out, due, client, left, ended>>
  BY TopFrame DEF LeaveGauge, Runs, IInv, Popped
<1>2. /\ f \in Frame /\ f.kind = t.kind /\ f.how = t.how
      /\ t.kind # "span" /\ t.defers = <<"leave">> /\ f.defers = <<>>
  BY <1>1, LeaveFrame
<1>3. t.kind \in {"worker", "request"}
  BY <1>1, <1>2, FrameFields DEF Kinds
<1> HIDE DEF t, f
<1>4. Stacks' /\ \A F : N(F)' = N(F) + One(f, F) - One(t, F)
  BY <1>1, <1>2, TopSet DEF IInv, t
<1>5. /\ Moves(-hw, -hr, 0, 0, 0, 0, 0, 0)
      /\ hw \in Nat /\ hr \in Nat
  <2>1. /\ t.defers # <<"leave", "end", "recover">> /\ f.defers # <<"leave", "end", "recover">>
        /\ t.defers # <<>>
    BY <1>2, Distinct
  <2>2. /\ One(f, Holding("worker")) = 0 /\ One(t, Holding("worker")) = hw
        /\ One(f, Holding("request")) = 0 /\ One(t, Holding("request")) = hr
    BY <1>1, <1>2, <2>1, OneOf
  <2>3. /\ One(f, Recovered("span")) = 0 /\ One(t, Recovered("span")) = 0
        /\ One(f, Recovered("worker")) = One(t, Recovered("worker"))
        /\ One(f, Ended("worker", "ok")) = One(t, Ended("worker", "ok"))
        /\ One(f, Ended("worker", "error")) = One(t, Ended("worker", "error"))
        /\ One(f, Ended("request", "ok")) = One(t, Ended("request", "ok"))
        /\ One(f, Ended("request", "error")) = One(t, Ended("request", "error"))
    BY <1>1, <1>2, <2>1, OneOf
  <2>4. (\A F : One(t, F) \in Nat) /\ hw \in Nat /\ hr \in Nat
    BY DEF One
  <2> HIDE DEF hw, hr
  <2> QED
    BY <1>4, <2>2, <2>3, <2>4, Naturals8 DEF Moves
<1>6. /\ gauge' \in [Kinds -> Nat] /\ gauge'["span"] = 0
      /\ gauge'["worker"] = N(Holding("worker"))' /\ gauge'["request"] = N(Holding("request"))'
  <2>1. /\ gauge["worker"] = N(Holding("worker")) /\ gauge["request"] = N(Holding("request"))
        /\ gauge["span"] = 0 /\ gauge \in [Kinds -> Nat]
    BY DEF IInv, Balance, OtherTypes
  <2>2. N(Holding("worker"))' = N(Holding("worker")) - hw /\ N(Holding("request"))' = N(Holding("request")) - hr
    BY <1>5, Naturals8 DEF Moves
  <2>3. CASE t.kind = "worker"
    <3>0. hw = 1 /\ hr = 0
      BY <2>3
    <3> HIDE DEF hw, hr
    <3>1. gauge' = [gauge EXCEPT !["worker"] = gauge["worker"] - 1]
      BY <1>1, <2>3
    <3>2. gauge["worker"] - 1 = N(Holding("worker"))' /\ gauge["request"] = N(Holding("request"))'
      BY <2>1, <2>2, <3>0, Naturals8
    <3>3. gauge["worker"] - 1 \in Nat
      BY <3>2, Naturals8
    <3> QED
      BY <2>1, <3>1, <3>2, <3>3 DEF Kinds
  <2>4. CASE t.kind = "request"
    <3>0. hw = 0 /\ hr = 1
      BY <2>4
    <3> HIDE DEF hw, hr
    <3>1. gauge' = [gauge EXCEPT !["request"] = gauge["request"] - 1]
      BY <1>1, <2>4
    <3>2. gauge["request"] - 1 = N(Holding("request"))' /\ gauge["worker"] = N(Holding("worker"))'
      BY <2>1, <2>2, <3>0, Naturals8
    <3>3. gauge["request"] - 1 \in Nat
      BY <3>2, Naturals8
    <3> QED
      BY <2>1, <3>1, <3>2, <3>3 DEF Kinds
  <2> QED
    BY <1>3, <2>3, <2>4
<1>7. Balance'
  <2>1. /\ N(Recovered("span"))' = N(Recovered("span"))
        /\ N(Recovered("worker"))' = N(Recovered("worker"))
        /\ N(Ended("worker", "ok"))' = N(Ended("worker", "ok"))
        /\ N(Ended("worker", "error"))' = N(Ended("worker", "error"))
        /\ N(Ended("request", "ok"))' = N(Ended("request", "ok"))
        /\ N(Ended("request", "error"))' = N(Ended("request", "error"))
    BY <1>5, Naturals8 DEF Moves
  <2>2. UNCHANGED <<count, client, left>>
    BY <1>1
  <2> QED
    BY <1>6, <2>1, <2>2 DEF IInv, Balance
<1>8. OtherTypes' /\ Spans' /\ LinesAccounted'
  BY <1>1, <1>6 DEF IInv, OtherTypes, Spans, LinesAccounted, WentOut
<1> QED
  BY <1>4, <1>7, <1>8 DEF IInv

\* Whether f is a call of this kind that ended so.
Was(f, kind, how) == IF f.kind = kind /\ f.how = how THEN 1 ELSE 0

\* A call that is over leaves the stack; its panic may reach the call around it.
LEMMA Returned ==
  ASSUME Stacks, NEW g \in Goroutines, NEW caught \in BOOLEAN, Return(g, caught)
  PROVE  /\ Stacks' /\ Top(g) \in Frame /\ Top(g).how # "running" /\ Top(g).defers = <<>>
         /\ Moves(0, 0, -Was(Top(g), "span", "panic"), -Was(Top(g), "worker", "panic"),
                  -Was(Top(g), "worker", "ok"), -Was(Top(g), "worker", "error"),
                  -Was(Top(g), "request", "ok"), -Was(Top(g), "request", "error"))
<1> DEFINE t == Top(g)
           n == Len(stack[g])
           around == stack[g][n - 1]
           f == [around EXCEPT !.how = "panic"]
           Less == Moves(-One(t, Holding("worker")), -One(t, Holding("request")), -One(t, Recovered("span")),
                         -One(t, Recovered("worker")), -One(t, Ended("worker", "ok")), -One(t, Ended("worker", "error")),
                         -One(t, Ended("request", "ok")), -One(t, Ended("request", "error")))
<1>1. t \in Frame /\ t.how # "running" /\ t.defers = <<>> /\ stack[g] # <<>>
  BY TopFrame DEF Return
<1>2. ASSUME n = 1 \/ caught \/ t.how # "panic"
      PROVE  Stacks' /\ Less
  <2>1. stack' = [stack EXCEPT ![g] = Front(@)]
    BY <1>2 DEF Return, Stacks
  <2> HIDE DEF t, n
  <2>2. Stacks' /\ \A F : N(F)' = N(F) - One(t, F)
    BY <1>1, <2>1, Removed DEF t
  <2>3. Less
    <3>1. \A F : One(t, F) \in Nat
      BY DEF One
    <3> QED
      BY <2>2, <3>1, Naturals8 DEF Moves
  <2> QED
    BY <2>2, <2>3
<1>3. ASSUME ~(n = 1 \/ caught \/ t.how # "panic")
      PROVE  Stacks' /\ Less
  <2>1. stack' = [stack EXCEPT ![g] = [Front(@) EXCEPT ![Len(@) - 1].how = "panic"]] /\ n # 1
    BY <1>3 DEF Return, Stacks
  <2>2. /\ Stacks' /\ around \in Frame /\ around.how = "running" /\ f \in Frame
        /\ \A F : N(F)' = N(F) - One(t, F) - One(around, F) + One(f, F)
    BY <1>1, <2>1, Unwound
  <2>3. /\ f.kind = around.kind /\ f.how = "panic" /\ f.defers = around.defers
        /\ around.defers = Deferred(around.kind) /\ around.kind \in Kinds
    <3>1. around \in FrameRecords /\ around.defers = Deferred(around.kind) /\ around.kind \in Kinds
      BY <2>2, FrameFields
    <3> QED
      BY <3>1 DEF FrameRecords
  <2> HIDE DEF t, n, around, f
  <2>4. /\ One(f, Holding("worker")) = One(around, Holding("worker"))
        /\ One(f, Holding("request")) = One(around, Holding("request"))
        /\ One(f, Ended("worker", "ok")) = 0 /\ One(around, Ended("worker", "ok")) = 0
        /\ One(f, Ended("worker", "error")) = 0 /\ One(around, Ended("worker", "error")) = 0
        /\ One(f, Ended("request", "ok")) = 0 /\ One(around, Ended("request", "ok")) = 0
        /\ One(f, Ended("request", "error")) = 0 /\ One(around, Ended("request", "error")) = 0
    BY <2>2, <2>3, OneOf
  <2>5. /\ One(f, Recovered("span")) = 0 /\ One(around, Recovered("span")) = 0
        /\ One(f, Recovered("worker")) = 0 /\ One(around, Recovered("worker")) = 0
    <3>1. around.kind = "worker" => around.defers = <<"leave", "end", "recover">>
      BY <2>3 DEF Deferred
    <3>2. around.defers # <<>>
      BY <2>3, Distinct DEF Deferred, Kinds
    <3> QED
      BY <2>2, <2>3, <3>1, <3>2, OneOf
  <2>6. Less
    <3>1. \A F : One(t, F) \in Nat /\ One(around, F) \in Nat
      BY DEF One
    <3> QED
      BY <2>2, <2>4, <2>5, <3>1, Naturals8 DEF Moves
  <2> QED
    BY <2>2, <2>6
<1> HIDE DEF t, n
<1>4. /\ One(t, Holding("worker")) = 0 /\ One(t, Holding("request")) = 0
      /\ One(t, Recovered("span")) = Was(t, "span", "panic")
      /\ One(t, Recovered("worker")) = Was(t, "worker", "panic")
      /\ One(t, Ended("worker", "ok")) = Was(t, "worker", "ok")
      /\ One(t, Ended("worker", "error")) = Was(t, "worker", "error")
      /\ One(t, Ended("request", "ok")) = Was(t, "request", "ok")
      /\ One(t, Ended("request", "error")) = Was(t, "request", "error")
  <2>1. t.defers # <<"leave", "end", "recover">>
    BY <1>1, Distinct
  <2> QED
    BY <1>1, <2>1, OneOf DEF Was
<1>5. Moves(0, 0, -Was(t, "span", "panic"), -Was(t, "worker", "panic"), -Was(t, "worker", "ok"),
            -Was(t, "worker", "error"), -Was(t, "request", "ok"), -Was(t, "request", "error"))
  <2>1. Less
    BY <1>2, <1>3
  <2>2. \A F : One(t, F) \in Nat
    BY DEF One
  <2> QED
    BY <1>4, <2>1, <2>2, Naturals8 DEF Moves
<1> QED
  BY <1>1, <1>2, <1>3, <1>5 DEF t

LEMMA ReturnStep ==
  ASSUME IInv, NEW g \in Goroutines, NEW caught \in BOOLEAN, Return(g, caught)
  PROVE  IInv'
<1> DEFINE t == Top(g)
<1>1. /\ Stacks' /\ t \in Frame /\ t.how # "running" /\ t.defers = <<>>
      /\ Moves(0, 0, -Was(t, "span", "panic"), -Was(t, "worker", "panic"), -Was(t, "worker", "ok"),
               -Was(t, "worker", "error"), -Was(t, "request", "ok"), -Was(t, "request", "error"))
  BY Returned DEF IInv
<1>2. /\ left' = [left EXCEPT ![<<t.kind, t.how>>] = @ + 1]
      /\ UNCHANGED <<exporting, calls, gauge, count, out, due, client, ended>>
  BY DEF Return
<1> HIDE DEF t
<1>3. t.kind \in Kinds /\ t.how \in Hows
  BY <1>1, FrameFields DEF FrameRecords
<1>4. /\ left' \in [Kinds \X Hows -> Nat]
      /\ \A k \in Kinds, h \in Hows : left'[<<k, h>>] = left[<<k, h>>] + Was(t, k, h)
  <2>1. left \in [Kinds \X Hows -> Nat] /\ <<t.kind, t.how>> \in Kinds \X Hows
    BY <1>3 DEF IInv, OtherTypes
  <2>2. left' \in [Kinds \X Hows -> Nat]
    BY <1>2, <2>1
  <2>3. ASSUME NEW k \in Kinds, NEW h \in Hows PROVE left'[<<k, h>>] = left[<<k, h>>] + Was(t, k, h)
    <3>1. <<k, h>> \in Kinds \X Hows /\ left[<<k, h>>] \in Nat
      BY <2>1
    <3>2. CASE t.kind = k /\ t.how = h
      BY <1>2, <2>1, <3>1, <3>2 DEF Was
    <3>3. CASE ~(t.kind = k /\ t.how = h)
      <4>1. <<k, h>> # <<t.kind, t.how>>
        BY <3>3
      <4>2. left'[<<k, h>>] = left[<<k, h>>] /\ Was(t, k, h) = 0
        BY <1>2, <2>1, <3>1, <3>3, <4>1 DEF Was
      <4> QED
        BY <3>1, <4>2
    <3> QED
      BY <3>2, <3>3
  <2> QED
    BY <2>2, <2>3
<1>5. Balance'
  <2>1. /\ Was(t, "span", "panic") \in Nat /\ Was(t, "worker", "panic") \in Nat
        /\ Was(t, "worker", "ok") \in Nat /\ Was(t, "worker", "error") \in Nat
        /\ Was(t, "request", "ok") \in Nat /\ Was(t, "request", "error") \in Nat
    BY DEF Was
  <2>2. /\ N(Holding("worker"))' = N(Holding("worker"))
        /\ N(Holding("request"))' = N(Holding("request"))
        /\ N(Recovered("span"))' = N(Recovered("span")) - Was(t, "span", "panic")
        /\ N(Recovered("worker"))' = N(Recovered("worker")) - Was(t, "worker", "panic")
        /\ N(Ended("worker", "ok"))' = N(Ended("worker", "ok")) - Was(t, "worker", "ok")
        /\ N(Ended("worker", "error"))' = N(Ended("worker", "error")) - Was(t, "worker", "error")
        /\ N(Ended("request", "ok"))' = N(Ended("request", "ok")) - Was(t, "request", "ok")
        /\ N(Ended("request", "error"))' = N(Ended("request", "error")) - Was(t, "request", "error")
    <3>1. /\ N(Holding("worker"))' = N(Holding("worker")) + 0
          /\ N(Holding("request"))' = N(Holding("request")) + 0
          /\ N(Recovered("span"))' = N(Recovered("span")) + (-Was(t, "span", "panic"))
          /\ N(Recovered("worker"))' = N(Recovered("worker")) + (-Was(t, "worker", "panic"))
          /\ N(Ended("worker", "ok"))' = N(Ended("worker", "ok")) + (-Was(t, "worker", "ok"))
          /\ N(Ended("worker", "error"))' = N(Ended("worker", "error")) + (-Was(t, "worker", "error"))
          /\ N(Ended("request", "ok"))' = N(Ended("request", "ok")) + (-Was(t, "request", "ok"))
          /\ N(Ended("request", "error"))' = N(Ended("request", "error")) + (-Was(t, "request", "error"))
      BY <1>1, Zenon DEF Moves
    <3> QED
      BY <2>1, <3>1, Naturals8
  <2>3. /\ left'[<<"span", "panic">>] = left[<<"span", "panic">>] + Was(t, "span", "panic")
        /\ left'[<<"worker", "panic">>] = left[<<"worker", "panic">>] + Was(t, "worker", "panic")
        /\ left'[<<"worker", "ok">>] = left[<<"worker", "ok">>] + Was(t, "worker", "ok")
        /\ left'[<<"worker", "error">>] = left[<<"worker", "error">>] + Was(t, "worker", "error")
        /\ left'[<<"request", "ok">>] = left[<<"request", "ok">>] + Was(t, "request", "ok")
        /\ left'[<<"request", "error">>] = left[<<"request", "error">>] + Was(t, "request", "error")
    BY <1>4 DEF Kinds, Hows
  <2>4. /\ left[<<"span", "panic">>] \in Nat /\ left[<<"worker", "panic">>] \in Nat
        /\ left[<<"worker", "ok">>] \in Nat /\ left[<<"worker", "error">>] \in Nat
        /\ left[<<"request", "ok">>] \in Nat /\ left[<<"request", "error">>] \in Nat
    BY DEF IInv, OtherTypes, Kinds, Hows
  <2>5. UNCHANGED <<gauge, count, client>>
    BY <1>2
  <2>6. /\ count["exceptions"] = left'[<<"span", "panic">>] + N(Recovered("span"))'
                                 + left'[<<"worker", "panic">>] + N(Recovered("worker"))'
        /\ count["jobs_ok"] = left'[<<"worker", "ok">>] + N(Ended("worker", "ok"))'
        /\ count["jobs_error"] = left'[<<"worker", "error">>] + N(Ended("worker", "error"))'
        /\ count["requests"] = left'[<<"request", "ok">>] + N(Ended("request", "ok"))'
                               + left'[<<"request", "error">>] + N(Ended("request", "error"))'
    <3>1. /\ count["exceptions"] = left[<<"span", "panic">>] + N(Recovered("span"))
                                   + left[<<"worker", "panic">>] + N(Recovered("worker"))
          /\ count["jobs_ok"] = left[<<"worker", "ok">>] + N(Ended("worker", "ok"))
          /\ count["jobs_error"] = left[<<"worker", "error">>] + N(Ended("worker", "error"))
          /\ count["requests"] = left[<<"request", "ok">>] + N(Ended("request", "ok"))
                                 + left[<<"request", "error">>] + N(Ended("request", "error"))
      BY DEF IInv, Balance
    <3> QED
      BY <2>1, <2>2, <2>3, <2>4, <3>1, Naturals8
  <2> QED
    BY <2>2, <2>5, <2>6 DEF IInv, Balance
<1>6. OtherTypes' /\ Spans' /\ LinesAccounted'
  BY <1>2, <1>4 DEF IInv, OtherTypes, Spans, LinesAccounted, WentOut
<1> QED
  BY <1>1, <1>5, <1>6 DEF IInv

-----------------------------------------------------------------------------
(* The theorems.                                                           *)

\* Nothing is on the stacks.
LEMMA NoFrames ==
  ASSUME Quiet
  PROVE  \A F : N(F) = 0
<1>1. ASSUME NEW F PROVE Places(F) = {}
  BY DEF Quiet, Places
<1> QED
  BY <1>1, FS_EmptySet DEF N

LEMMA Initially == Init => IInv
<1> SUFFICES ASSUME Init PROVE IInv
  OBVIOUS
<1>1. OtherTypes
  BY BoundsAssumption DEF Init, OtherTypes, L!Nothing
<1>2. Stacks
  <2>1. <<>> \in Seq(Frame) /\ Len(<<>>) = 0
    OBVIOUS
  <2> QED
    BY <2>1, BoundsAssumption DEF Init, Stacks
<1>3. Balance
  <2>1. \A F : N(F) = 0
    BY NoFrames DEF Init, Quiet
  <2>2. /\ gauge["span"] = 0 /\ gauge["worker"] = 0 /\ gauge["request"] = 0
        /\ \A c \in Counters : count[c] = 0
        /\ \A k \in Kinds, h \in Hows : left[<<k, h>>] = 0
        /\ client.errors = 0 /\ client.rewritten = 0
    BY DEF Init, Kinds
  <2>3. /\ count["exceptions"] = 0 /\ count["jobs_ok"] = 0 /\ count["jobs_error"] = 0
        /\ count["requests"] = 0 /\ count["request_errors"] = 0
        /\ left[<<"span", "panic">>] = 0 /\ left[<<"worker", "panic">>] = 0
        /\ left[<<"worker", "ok">>] = 0 /\ left[<<"worker", "error">>] = 0
        /\ left[<<"request", "ok">>] = 0 /\ left[<<"request", "error">>] = 0
    BY <2>2 DEF Counters, Kinds, Hows
  <2> QED
    BY <2>1, <2>2, <2>3 DEF Balance
<1>4. Spans
  BY DEF Init, Spans
<1>5. LinesAccounted
  <2>1. exporting \in {0, 1} /\ (\A a \in Apis : out[a] = L!Nothing /\ due[a] = [records |-> 0, errors |-> 0])
    BY DEF Init
  <2>2. out["log"] = L!Nothing /\ out["emit"] = L!Nothing
        /\ due["log"] = [records |-> 0, errors |-> 0] /\ due["emit"] = [records |-> 0, errors |-> 0]
        /\ out["critical"] = L!Nothing /\ due["critical"] = [records |-> 0, errors |-> 0]
    BY <2>1 DEF Apis
  <2>3. exporting * 0 = 0
    BY <2>1
  <2> QED
    BY <2>2, <2>3 DEF LinesAccounted, WentOut, L!Nothing
<1> QED
  BY <1>1, <1>2, <1>3, <1>4, <1>5 DEF IInv

\* The frames on the stacks are those of calls that are where the code puts
\* them, and the gauges and counters are those of the calls that are over and
\* of those on the stacks.
THEOREM Safety == Spec => []IInv
<1>1. ASSUME IInv, [Next]_vars PROVE IInv'
  <2>1. CASE Next
    <3>1. PICK g \in Goroutines :
            \/ \E k \in Kinds : Begin(g, k)
            \/ \E how \in {"ok", "error"} : FnReturns(g, how)
            \/ \E writes \in Writes : HandlerReturns(g, writes)
            \/ FnPanics(g) \/ EndSpan(g) \/ Recover(g) \/ LeaveGauge(g)
            \/ \E caught \in BOOLEAN : Return(g, caught)
            \/ \E a \in Apis, l \in L!Levels : Line(g, a, l)
      BY <2>1, Zenon DEF Next
    <3>2. CASE \E k \in Kinds : Begin(g, k)
      BY <1>1, <3>2, BeginStep
    <3>3. CASE \E how \in {"ok", "error"} : FnReturns(g, how)
      BY <1>1, <3>3, FnReturnsStep
    <3>4. CASE \E writes \in Writes : HandlerReturns(g, writes)
      BY <1>1, <3>4, HandlerReturnsStep
    <3>5. CASE FnPanics(g)
      BY <1>1, <3>5, FnPanicsStep
    <3>6. CASE EndSpan(g)
      BY <1>1, <3>6, EndSpanStep
    <3>7. CASE Recover(g)
      BY <1>1, <3>7, RecoverStep
    <3>8. CASE LeaveGauge(g)
      BY <1>1, <3>8, LeaveStep
    <3>9. CASE \E caught \in BOOLEAN : Return(g, caught)
      BY <1>1, <3>9, ReturnStep
    <3>10. CASE \E a \in Apis, l \in L!Levels : Line(g, a, l)
      BY <1>1, <3>10, LineStep
    <3> QED
      BY <3>1, <3>2, <3>3, <3>4, <3>5, <3>6, <3>7, <3>8, <3>9, <3>10
  <2>2. CASE UNCHANGED vars
    <3>1. UNCHANGED <<exporting, stack, calls, gauge, count, client, left, ended, out, due>>
      BY <2>2 DEF vars
    <3>2. OtherTypes' /\ Spans' /\ LinesAccounted'
      BY <1>1, <3>1 DEF IInv, OtherTypes, Spans, LinesAccounted, WentOut
    <3>3. Stacks' /\ \A F : N(F)' = N(F)
      BY <1>1, <3>1 DEF IInv, Stacks, N, Places
    <3>4. Balance'
      BY <1>1, <3>1, <3>3 DEF IInv, Balance
    <3> QED
      BY <3>2, <3>3, <3>4 DEF IInv
  <2> QED
    BY <1>1, <2>1, <2>2
<1> QED
  BY Initially, <1>1, PTL DEF Spec

\* Every variable keeps its type; above all, no gauge falls below zero.
THEOREM TypeCorrect == Spec => []TypeOK
<1>1. ASSUME IInv PROVE TypeOK
  <2> DEFINE R == [kind : Kinds, how : Hows \cup {"running"}, defers : Seq({"leave", "end", "recover"}),
                   open : BOOLEAN, status : {"unset", "error"}]
  <2>1. \A k \in Kinds : Remaining(k) \subseteq Seq({"leave", "end", "recover"})
    <3> DEFINE D == {"leave", "end", "recover"}
    <3>1. /\ <<>> \in Seq(D) /\ <<"recover">> \in Seq(D) /\ <<"leave">> \in Seq(D)
          /\ <<"recover", "end">> \in Seq(D) /\ <<"leave", "end">> \in Seq(D)
          /\ <<"leave", "end", "recover">> \in Seq(D)
      OBVIOUS
    <3> HIDE DEF D
    <3>2. \A k \in Kinds : Remaining(k) \subseteq Seq(D)
      BY <3>1 DEF Kinds, Remaining
    <3> QED
      BY <3>2 DEF D
  <2>2. \A f \in Frame : f \in R
    BY <2>1 DEF Frame, FrameRecords
  <2> HIDE DEF R
  <2>3. \A s \in Seq(Frame) : s \in Seq(R)
    BY <2>2
  <2>4. stack \in [Goroutines -> Seq(R)]
    BY <1>1, <2>3 DEF IInv, Stacks
  <2>5. ended \subseteq [kind : Kinds, how : Hows, status : {"unset", "error"}]
    BY <1>1 DEF IInv, Spans
  <2> QED
    BY <1>1, <2>4, <2>5 DEF IInv, OtherTypes, TypeOK, R
<1> QED
  BY Safety, <1>1, PTL

\* A span bears the outcome of its call but for a panic that runSpan recovers
\* too late, and no call is over before its span has ended.
THEOREM SpansTold == Spec => []SpansAccounted
<1>1. ASSUME IInv PROVE SpansAccounted
  <2>1. \A s \in ended : s.status = "error" <=> (s.how # "ok" /\ ~(s.kind = "span" /\ s.how = "panic"))
    BY <1>1 DEF IInv, Spans
  <2>2. ASSUME NEW g \in Goroutines, NEW i \in DOMAIN stack[g], stack[g][i].defers = <<>>
        PROVE  stack[g][i].kind = "request" \/ ~stack[g][i].open
    <3>1. stack[g][i] \in Frame
      BY <1>1 DEF IInv, Stacks
    <3> DEFINE f == stack[g][i]
    <3>2. f \in Frame /\ f.defers = <<>>
      BY <2>2, <3>1
    <3> HIDE DEF f
    <3>3. f.kind = "request" \/ ~f.open
      BY <3>2, FrameFields, Distinct DEF Unended, Deferred
    <3> QED
      BY <3>3 DEF f
  <2> QED
    BY <2>1, <2>2 DEF SpansAccounted
<1> QED
  BY Safety, <1>1, PTL

\* The inflight gauges cover the calls in their functions, and are zero when
\* no call is left, whatever panics went through them.
THEOREM GaugesTold == Spec => []GaugesPaired
<1>1. ASSUME IInv PROVE GaugesPaired
  <2>1. ASSUME Quiet, NEW k \in Kinds PROVE gauge[k] = 0
    BY <1>1, <2>1, NoFrames DEF IInv, Balance, Kinds
  <2>2. ASSUME NEW k \in {"worker", "request"}
        PROVE  gauge[k] >= Cardinality({x \in Frames(k) : stack[x[1]][x[2]].how = "running"})
    <3> DEFINE S == {x \in Frames(k) : stack[x[1]][x[2]].how = "running"}
    <3>1. S \subseteq Places(Holding(k))
      <4> SUFFICES ASSUME NEW x \in S PROVE x \in Places(Holding(k))
        OBVIOUS
      <4> DEFINE f == stack[x[1]][x[2]]
      <4>1. /\ x \in Goroutines \X (1..MaxDepth) /\ x[2] <= Len(stack[x[1]])
            /\ f.kind = k /\ f.how = "running"
        BY DEF Frames
      <4>2. f \in Frame
        <5>1. stack[x[1]] \in Seq(Frame) /\ x[1] \in Goroutines /\ x[2] \in 1..MaxDepth
          BY <1>1, <4>1 DEF IInv, Stacks
        <5>2. x[2] \in 1..Len(stack[x[1]])
          BY <4>1, <5>1, BoundsAssumption
        <5> QED
          BY <5>1, <5>2, ElementOfSeq
      <4> HIDE DEF f, S
      <4>3. f.defers = Deferred(k)
        BY <4>1, <4>2, FrameFields
      <4>4. Deferred(k) # <<>>
        BY Distinct DEF Deferred
      <4>5. f \in Holding(k)
        BY <4>1, <4>2, <4>3, <4>4 DEF Holding
      <4> QED
        BY <4>1, <4>5 DEF Places, f
    <3> HIDE DEF S
    <3>2. IsFiniteSet(Places(Holding(k)))
      BY PlacesFinite
    <3>3. Cardinality(S) <= N(Holding(k)) /\ Cardinality(S) \in Nat /\ N(Holding(k)) \in Nat
      BY <3>1, <3>2, FS_Subset, FS_CardinalityType, PlacesFinite DEF N
    <3>4. gauge[k] = N(Holding(k))
      BY <1>1 DEF IInv, Balance
    <3> QED
      BY <3>3, <3>4 DEF S
  <2> QED
    BY <2>1, <2>2 DEF GaugesPaired
<1> QED
  BY Safety, <1>1, PTL

\* The counters tell how the calls ended.
THEOREM Counted == Spec => []Tallies
<1>1. ASSUME IInv PROVE Tallies
  <2> SUFFICES ASSUME Quiet PROVE Tallies
    BY DEF Tallies
  <2>1. \A F : N(F) = 0
    BY NoFrames
  <2>2. /\ left[<<"span", "panic">>] \in Nat /\ left[<<"worker", "panic">>] \in Nat
        /\ left[<<"worker", "ok">>] \in Nat /\ left[<<"worker", "error">>] \in Nat
        /\ left[<<"request", "ok">>] \in Nat /\ left[<<"request", "error">>] \in Nat
    BY <1>1 DEF IInv, OtherTypes, Kinds, Hows
  <2> QED
    BY <1>1, <2>1, <2>2 DEF IInv, Balance, Tallies
<1> QED
  BY Safety, <1>1, PTL

\* Every record of the application went out and was counted as its way says.
THEOREM LinesTold == Spec => []LinesAccounted
<1>1. IInv => LinesAccounted
  BY DEF IInv
<1> QED
  BY Safety, <1>1, PTL
=============================================================================
