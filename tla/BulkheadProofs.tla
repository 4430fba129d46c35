--------------------------- MODULE BulkheadProofs ---------------------------
(***************************************************************************)
(* Theorems about the bulkhead, for any set of callers, limit and wait.    *)
(***************************************************************************)
EXTENDS Bulkhead, FiniteSetTheorems, TLAPS

\* The configured limit and wait, once resolved.
LEMMA Resolved == capacity \in Nat \ {0} /\ maxWait \in Nat
  BY ConfigAssumption DEF capacity, maxWait

(* The inductive invariant: the hand-over in Receive keeps the length of   *)
(* the channel, so its bound rests on SlotsHeld, and SlotsHeld on the type *)
(* of pc.                                                                  *)
IInv == TypeOK /\ SlotsHeld

LEMMA RunningFinite == Running \in SUBSET Callers /\ IsFiniteSet(Running)
  BY CallersAssumption, FS_Subset DEF Running

\* How the set of running callers changes with the program counters.
LEMMA RunningChanges ==
  ASSUME pc \in [Callers -> Places], NEW c \in Callers
  PROVE  /\ \A p \in Places \ {"running"} :
              Goto(c, p) => Running' = Running \ {c}
         /\ Goto(c, "running") => Running' = Running \cup {c}
         /\ \A d \in Callers \ {c} :
              pc' = [pc EXCEPT ![c] = "idle", ![d] = "running"]
                => Running' = (Running \ {c}) \cup {d}
  BY DEF Goto, Running, Places

\* The inductive invariant holds in every reachable state.
THEOREM Safety == Spec => []IInv
<1> USE Resolved DEF IInv
<1>1. Init => IInv
  <2> SUFFICES ASSUME Init PROVE IInv
    OBVIOUS
  <2>1. TypeOK
    BY DEF Init, TypeOK, Places, Results
  <2>2. Running = {}
    BY DEF Init, Running
  <2> QED
    BY <2>1, <2>2, FS_EmptySet DEF Init, SlotsHeld
<1>2. IInv /\ [Next]_vars => IInv'
  <2> SUFFICES ASSUME IInv, [Next]_vars PROVE IInv'
    OBVIOUS
  <2> USE DEF TypeOK
  <2>1. ASSUME Running' = Running, UNCHANGED buffered PROVE SlotsHeld'
    BY <2>1 DEF SlotsHeld
  <2>2. ASSUME NEW c \in Callers, NEW r \in Results, Return(c, r), UNCHANGED <<wait, buffered>>,
               pc[c] # "running", done' \in [Callers -> BOOLEAN]
        PROVE  IInv'
    <3>1. TypeOK'
      BY <2>2 DEF Return, Goto, Places
    <3>2. Running' = Running
      BY <2>2 DEF Return, Goto, Running, Places
    <3> QED
      BY <2>1, <2>2, <3>1, <3>2
  <2>3. ASSUME NEW c \in Callers, Enter(c) PROVE IInv'
    <3>1. CASE Return(c, "ctx")
      BY <2>2, <2>3, <3>1 DEF Enter, Results
    <3>2. CASE ~Return(c, "ctx")
      <4>1. TypeOK'
        BY <2>3, <3>2 DEF Enter, Goto, Places, Results
      <4>2. Running' = Running
        BY <2>3, <3>2 DEF Enter, Goto, Running, Places
      <4> QED
        BY <2>1, <2>3, <4>1, <4>2 DEF Enter
    <3> QED
      BY <3>1, <3>2
  <2>4. ASSUME NEW c \in Callers, Acquire(c) PROVE IInv'
    <3>1. TypeOK'
      BY <2>4 DEF Acquire, CanSend, Goto, Places
    <3>2. Running' = Running \cup {c} /\ c \notin Running
      BY <2>4, RunningChanges DEF Acquire, Running
    <3>3. SlotsHeld'
      BY <2>4, <3>2, RunningFinite, FS_AddElement DEF Acquire, SlotsHeld
    <3> QED
      BY <3>1, <3>3
  <2>5. ASSUME NEW c \in Callers, CtxDone(c) \/ TimerFires(c) \/ Reject(c) PROVE IInv'
    BY <2>2, <2>5 DEF CtxDone, TimerFires, Reject, Leave, Results
  <2>6. ASSUME NEW c \in Callers, Park(c) PROVE IInv'
    <3>1. TypeOK'
      BY <2>6 DEF Park, Goto, Places
    <3>2. Running' = Running
      BY <2>6 DEF Park, Goto, Running
    <3>3. SlotsHeld'
      BY <2>1, <2>6, <3>2 DEF Park
    <3> QED
      BY <3>1, <3>3
  <2>7. ASSUME NEW c \in Callers, Finish(c) PROVE IInv'
    <3>1. c \in Running /\ IsFiniteSet(Running \ {c})
          /\ Cardinality(Running \ {c}) = Cardinality(Running) - 1
          /\ Cardinality(Running) \in Nat
      BY <2>7, RunningFinite, FS_RemoveElement, FS_CardinalityType DEF Finish, Running
    <3>2. CASE Parked = {} /\ buffered' = buffered - 1 /\ Goto(c, "idle")
      <4>1. Running' = Running \ {c}
        BY <3>2, RunningChanges DEF Places
      <4>2. SlotsHeld' /\ buffered' \in 0..capacity
        BY <3>1, <3>2, <4>1, FS_CardinalityType DEF SlotsHeld
      <4>3. TypeOK'
        BY <2>7, <3>2, <4>2 DEF Finish, Goto, Places, Results
      <4> QED
        BY <4>2, <4>3
    <3>3. ASSUME NEW d \in Parked, buffered' = buffered,
                 pc' = [pc EXCEPT ![c] = "idle", ![d] = "running"]
          PROVE  IInv'
      <4>1. d \in Callers \ {c} /\ d \notin Running
        BY <2>7 DEF Parked, Finish, Running
      <4>2. Running' = (Running \ {c}) \cup {d}
        BY <3>3, <4>1, RunningChanges
      <4>3. SlotsHeld'
        <5>1. d \notin Running \ {c}
          BY <4>1
        <5>2. Cardinality((Running \ {c}) \cup {d}) = Cardinality(Running \ {c}) + 1
          BY <3>1, <5>1, FS_AddElement
        <5> QED
          BY <3>1, <3>3, <4>2, <5>2 DEF SlotsHeld
      <4>4. TypeOK'
        BY <2>7, <3>3, <4>1 DEF Finish, Places, Results
      <4> QED
        BY <4>3, <4>4
    <3> QED
      BY <2>7, <3>2, <3>3 DEF Finish, Receive, Goto
  <2>8. ASSUME NEW c \in Callers, Cancel(c) \/ NewContext(c) PROVE IInv'
    <3>1. TypeOK'
      BY <2>8 DEF Cancel, NewContext
    <3> QED
      BY <2>1, <2>8, <3>1 DEF Cancel, NewContext, Running
  <2>9. CASE Tick
    <3>1. TypeOK'
      BY <2>9 DEF Tick
    <3> QED
      BY <2>1, <2>9, <3>1 DEF Tick, Running
  <2>10. CASE UNCHANGED vars
    BY <2>1, <2>10 DEF vars, Running
  <2> QED
    BY <2>3, <2>4, <2>5, <2>6, <2>7, <2>8, <2>9, <2>10 DEF Next, Select
<1> QED
  BY <1>1, <1>2, PTL DEF Spec

\* The channel's length is the number of running operations.
THEOREM Accounting == Spec => []SlotsHeld
  BY Safety, PTL DEF IInv

\* Every variable keeps its type: the channel is never fuller than its capacity.
THEOREM TypeCorrect == Spec => []TypeOK
  BY Safety, PTL DEF IInv

\* The bulkhead implements the semaphore: no more than its limit of operations
\* ever run at a time, and each step acquires, releases or hands over one slot.
THEOREM Implementation == Spec => ImplementsSemaphore
<1> USE DEF S!Init, S!Next, S!Acquire, S!Release, S!HandOver
<1>1. Init => S!Init
  BY DEF Init, Running
<1>2. IInv /\ [Next]_vars => [S!Next]_Running
  <2> SUFFICES ASSUME IInv, [Next]_vars PROVE [S!Next]_Running
    OBVIOUS
  <2> USE DEF IInv, TypeOK
  <2>1. ASSUME NEW c \in Callers, Acquire(c) PROVE [S!Next]_Running
    <3>1. Running' = Running \cup {c} /\ c \notin Running
      BY <2>1, RunningChanges DEF Acquire, Running
    <3>2. Cardinality(Running) < capacity
      BY <2>1 DEF Acquire, CanSend, SlotsHeld
    <3>3. S!Cardinality(Running) = Cardinality(Running)
      BY DEF S!Cardinality, Cardinality
    <3>4. S!Acquire(c)
      BY <3>1, <3>2, <3>3
    <3> QED
      BY <3>4
  <2>2. ASSUME NEW c \in Callers, Finish(c) PROVE [S!Next]_Running
    <3>1. c \in Running
      BY <2>2 DEF Finish, Running
    <3>2. CASE Goto(c, "idle")
      BY <3>1, <3>2, RunningChanges DEF Places
    <3>3. ASSUME NEW d \in Parked, pc' = [pc EXCEPT ![c] = "idle", ![d] = "running"]
          PROVE  [S!Next]_Running
      <4>1. d \in Callers \ {c} /\ d \notin Running
        BY <2>2 DEF Parked, Finish, Running
      <4> QED
        BY <3>1, <3>3, <4>1, RunningChanges
    <3> QED
      BY <2>2, <3>2, <3>3 DEF Finish, Receive, Goto
  <2>3. ASSUME NEW c \in Callers, Enter(c) PROVE UNCHANGED Running
    BY <2>3 DEF Enter, Return, Goto, Running
  <2>4. ASSUME NEW c \in Callers, CtxDone(c) \/ TimerFires(c) \/ Reject(c)
        PROVE  UNCHANGED Running
    BY <2>4 DEF CtxDone, TimerFires, Reject, Leave, Return, Goto, Running
  <2>5. ASSUME NEW c \in Callers, Park(c) PROVE UNCHANGED Running
    BY <2>5 DEF Park, Goto, Running
  <2>6. ASSUME UNCHANGED pc PROVE UNCHANGED Running
    BY <2>6 DEF Running
  <2> QED
    BY <2>1, <2>2, <2>3, <2>4, <2>5, <2>6 DEF Next, Select, Cancel, NewContext, Tick, vars
<1> QED
  BY <1>1, <1>2, Safety, PTL DEF Spec, ImplementsSemaphore, S!Spec

\* Nobody is left waiting beside a free slot: a freed slot goes to a caller that
\* is parked before anybody else can take it, whoever else arrives, gives up or
\* is refused meanwhile.  The channel is what the callers park on, so its fullness
\* is the invariant, and SlotsHeld says that operations are what fills it.
FullWhileParked == Parked # {} => ~CanSend

THEOREM NoWakeupLost == Spec => []NoIdleSlot
<1> USE DEF FullWhileParked
<1>1. Init => FullWhileParked
  BY DEF Init, Parked
<1>2. IInv /\ FullWhileParked /\ [Next]_vars => FullWhileParked'
  <2> SUFFICES ASSUME IInv, FullWhileParked, [Next]_vars PROVE FullWhileParked'
    OBVIOUS
  <2>1. ASSUME Parked' \subseteq Parked, UNCHANGED buffered PROVE FullWhileParked'
    BY <2>1 DEF CanSend
  <2>2. pc \in [Callers -> Places]
    BY DEF IInv, TypeOK
  <2>3. ASSUME NEW c \in Callers, Enter(c) PROVE FullWhileParked'
    BY <2>1, <2>2, <2>3 DEF Enter, Return, Goto, Parked
  <2>4. ASSUME NEW c \in Callers, Acquire(c) PROVE FullWhileParked'
    <3>1. Parked = {}
      BY <2>4 DEF Acquire
    <3>2. Parked' = {}
      BY <2>2, <2>4, <3>1 DEF Acquire, Goto, Parked
    <3> QED
      BY <3>2
  <2>5. ASSUME NEW c \in Callers, CtxDone(c) \/ TimerFires(c) \/ Reject(c)
        PROVE  FullWhileParked'
    BY <2>1, <2>2, <2>5 DEF CtxDone, TimerFires, Reject, Leave, Return, Goto, Parked
  <2>6. ASSUME NEW c \in Callers, Park(c) PROVE FullWhileParked'
    BY <2>6 DEF Park, CanSend
  <2>7. ASSUME NEW c \in Callers, Finish(c) PROVE FullWhileParked'
    <3>1. CASE Parked = {} /\ pc' = [pc EXCEPT ![c] = "idle"]
      <4>1. Parked' = {}
        BY <2>2, <3>1 DEF Parked
      <4> QED
        BY <4>1
    <3>2. ASSUME NEW d \in Parked, UNCHANGED buffered,
                 pc' = [pc EXCEPT ![c] = "idle", ![d] = "running"]
          PROVE  FullWhileParked'
      BY <2>1, <2>2, <3>2 DEF Parked
    <3> QED
      BY <2>7, <3>1, <3>2 DEF Finish, Receive
  <2>8. ASSUME UNCHANGED <<pc, buffered>> PROVE FullWhileParked'
    BY <2>8 DEF Parked, CanSend
  <2> QED
    BY <2>3, <2>4, <2>5, <2>6, <2>7, <2>8
       DEF Next, Select, Cancel, NewContext, Tick, vars
<1>3. IInv /\ FullWhileParked => NoIdleSlot
  BY Resolved DEF IInv, TypeOK, SlotsHeld, NoIdleSlot, CanSend
<1> QED
  BY <1>1, <1>2, <1>3, Safety, PTL DEF Spec

=============================================================================
