------------------------------ MODULE Bulkhead ------------------------------
(***************************************************************************)
(* The bulkhead of resilience/bulkhead.go: a buffered channel used as a    *)
(* counting semaphore, with or without a bounded wait.                     *)
(*                                                                         *)
(* The channel, select and timers are Go's: a select with several ready    *)
(* cases takes any of them; with none ready it parks the goroutine as a    *)
(* blocked sender, and a receive from a full channel hands the freed place *)
(* to a parked sender.  The runtime picks the one that has waited longest; *)
(* nothing below depends on that, so the model lets it pick any.  A timer  *)
(* or a context that is due wakes the goroutine some time later, and a     *)
(* hand-over may come first.                                               *)
(***************************************************************************)
EXTENDS Integers, FiniteSets

CONSTANTS
    Callers,        \* goroutines that call through the policy
    MaxConcurrent,  \* maxConcurrent, as configured
    MaxWait         \* maxWait in ticks, as configured

ASSUME ConfigAssumption == MaxConcurrent \in Int /\ MaxWait \in Int
ASSUME CallersAssumption == IsFiniteSet(Callers)

\* A limit of zero or less means 1, and no wait of zero or less is waited.
capacity == IF MaxConcurrent <= 0 THEN 1 ELSE MaxConcurrent
maxWait == IF MaxWait > 0 THEN MaxWait ELSE 0

VARIABLES
    wait,      \* maxWait of the policy: 0 is Bulkhead, else BulkheadWait
    buffered,  \* len(semaphore)
    pc,        \* where each goroutine is
    timer,     \* ticks until its timer fires
    done,      \* whether its context is done
    result     \* what its last call returned

vars == <<wait, buffered, pc, timer, done, result>>

\* "entered": past the first check of the context, with the timer running;
\* "running": inside next(ctx), with a place in the channel.
Places == {"idle", "entered", "parked", "running"}
Results == {"none", "ran", "ctx", "full"}

TypeOK ==
    /\ wait \in {0, maxWait}
    /\ buffered \in 0..capacity
    /\ pc \in [Callers -> Places]
    /\ timer \in [Callers -> 0..wait]
    /\ done \in [Callers -> BOOLEAN]
    /\ result \in [Callers -> Results]

Init ==
    /\ wait \in {0, maxWait}
    /\ buffered = 0
    /\ pc = [c \in Callers |-> "idle"]
    /\ timer = [c \in Callers |-> 0]
    /\ done = [c \in Callers |-> FALSE]
    /\ result = [c \in Callers |-> "none"]

Running == {c \in Callers : pc[c] = "running"}
Parked == {c \in Callers : pc[c] = "parked"}

-----------------------------------------------------------------------------
Goto(c, p) == pc' = [pc EXCEPT ![c] = p]

(* The call of c ends and returns r.                                       *)
Return(c, r) ==
    /\ Goto(c, "idle")
    /\ result' = [result EXCEPT ![c] = r]
    /\ timer' = [timer EXCEPT ![c] = 0]

(* A call: the first look at its context, then the timer.                  *)
Enter(c) ==
    /\ pc[c] = "idle"
    /\ \/ /\ done[c]
          /\ Return(c, "ctx")
       \/ /\ ~done[c]
          /\ Goto(c, "entered")
          /\ timer' = [timer EXCEPT ![c] = wait]
          /\ result' = [result EXCEPT ![c] = "none"]
    /\ UNCHANGED <<wait, buffered, done>>

(* semaphore <- struct{}{} with room in the channel.                       *)
CanSendOneMore == buffered <= capacity
CanSend == buffered < capacity

Acquire(c) ==
    /\ pc[c] = "entered"
    /\ CanSend
    /\ buffered' = buffered + 1
    /\ Goto(c, "running")
    /\ UNCHANGED <<wait, timer, done, result>>

(* The other ways out of the select: its context is done or its timer has  *)
(* fired, whether it has been parked or has not.                           *)
Leave(c, r) ==
    /\ pc[c] \in {"entered", "parked"}
    /\ Return(c, r)
    /\ UNCHANGED <<wait, buffered, done>>

CtxDone(c) == wait > 0 /\ done[c] /\ Leave(c, "ctx")

TimerForgotten(c) == FALSE
TimerFires(c) == wait > 0 /\ timer[c] = 0 /\ Leave(c, "full")

(* The default case of the select without a wait.                          *)
Reject(c) == wait = 0 /\ ~CanSend /\ Leave(c, "full")

(* No case of the waiting select is ready.                                 *)
Park(c) ==
    /\ pc[c] = "entered"
    /\ wait > 0 /\ ~CanSend /\ ~done[c] /\ timer[c] > 0
    /\ Goto(c, "parked")
    /\ UNCHANGED <<wait, buffered, timer, done, result>>

(* A place given back past the senders that are parked for it.             *)
ReceiveWakesNobody(c) ==
    /\ buffered' = buffered - 1
    /\ pc' = [pc EXCEPT ![c] = "idle"]

(* <-semaphore by c, whose call is over: the place goes to a parked sender *)
(* if there is one.                                                        *)
Receive(c) ==
    \/ /\ Parked = {}
       /\ buffered' = buffered - 1
       /\ pc' = [pc EXCEPT ![c] = "idle"]
    \/ /\ buffered' = buffered
       /\ \E d \in Parked : pc' = [pc EXCEPT ![c] = "idle", ![d] = "running"]

(* A receive that is not deferred: a panic in next(ctx) keeps the slot.    *)
FinishWithoutDefer(c) ==
    /\ pc[c] = "running"
    /\ Receive(c) \/ (Goto(c, "idle") /\ UNCHANGED buffered)
    /\ timer' = [timer EXCEPT ![c] = 0]
    /\ result' = [result EXCEPT ![c] = "ran"]
    /\ UNCHANGED <<wait, done>>

(* next(ctx) returned or panicked: the deferred receive runs either way.   *)
Finish(c) ==
    /\ pc[c] = "running"
    /\ Receive(c)
    /\ timer' = [timer EXCEPT ![c] = 0]
    /\ result' = [result EXCEPT ![c] = "ran"]
    /\ UNCHANGED <<wait, done>>

(* The caller's context is cancelled or reaches its deadline; between      *)
(* calls the caller may take a new one.                                    *)
Cancel(c) ==
    /\ ~done[c]
    /\ done' = [done EXCEPT ![c] = TRUE]
    /\ UNCHANGED <<wait, buffered, pc, timer, result>>

NewContext(c) ==
    /\ pc[c] = "idle" /\ done[c]
    /\ done' = [done EXCEPT ![c] = FALSE]
    /\ UNCHANGED <<wait, buffered, pc, timer, result>>

Tick ==
    /\ \E c \in Callers : timer[c] > 0
    /\ timer' = [c \in Callers |-> IF timer[c] > 0 THEN timer[c] - 1 ELSE 0]
    /\ UNCHANGED <<wait, buffered, pc, done, result>>

Select(c) == Acquire(c) \/ CtxDone(c) \/ TimerFires(c) \/ Reject(c) \/ Park(c)

Next ==
    \/ Tick
    \/ \E c \in Callers :
        Enter(c) \/ Select(c) \/ Finish(c) \/ Cancel(c) \/ NewContext(c)

Spec == Init /\ [][Next]_vars

(* Time passes and a goroutine whose select can go on goes on.  Nothing is *)
(* assumed of the operations: they may never return.                       *)
FairSpec ==
    /\ Spec
    /\ WF_vars(Tick)
    /\ \A c \in Callers : WF_vars(Select(c))

-----------------------------------------------------------------------------
\* The channel holds one element for each running operation: no return path,
\* no hand-over to a parked caller and no cancellation leaks or doubles a slot.
SlotsHeld == buffered = Cardinality(Running)

\* The bulkhead is a semaphore of the configured size, whatever the order of
\* hand-overs, timeouts, cancellations and panics.
S == INSTANCE Semaphore WITH Clients <- Callers, Limit <- capacity, holders <- Running
ImplementsSemaphore == S!Spec

\* A caller is left waiting only beside a full set of running operations, so
\* that a caller which waited and is refused was refused by a full bulkhead:
\* however hand-overs, new arrivals, timers and cancellations interleave, no
\* slot comes free beside somebody who waits for one.  It holds of callers that
\* are parked: one whose timer has fired before its goroutine reaches the
\* select may be refused although a slot is free.
NoIdleSlot == Parked # {} => Cardinality(Running) = capacity

\* A caller that waits for a slot stops waiting, even when the operations that
\* hold the slots never return.
WaitEnds == \A c \in Callers : pc[c] \in {"entered", "parked"} ~> pc[c] \in {"idle", "running"}

=============================================================================
