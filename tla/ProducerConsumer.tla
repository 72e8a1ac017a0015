-------------------------- MODULE ProducerConsumer --------------------------
(***************************************************************************)
(* producer-consumer/producer-consumer.c: the bounded ring buffer through  *)
(* which the broker's listener hands registrations to its workers.         *)
(*                                                                         *)
(* Every statement of pcq_enqueue and pcq_dequeue that touches a mutex or  *)
(* a condition variable is a step of its own.  pcq_head_lock and           *)
(* pcq_tail_lock are only ever taken by the owner of pcq_current_size_lock *)
(* and released before it, so each of those critical sections is one step. *)
(***************************************************************************)
EXTENDS Naturals, FiniteSets

CONSTANTS
    Producers,    \* threads that call pcq_enqueue (the broker's main thread)
    Consumers,    \* threads that call pcq_dequeue (the broker's workers)
    Elems,        \* the pointers that are enqueued
    Capacity,     \* the capacity given to pcq_create
    MaxEnqueues,  \* bound: calls of pcq_enqueue by one producer
    MaxSpurious,  \* bound: spurious wake-ups of pthread_cond_wait in all
    NULL          \* the null pointer, also "no thread" and "junk"

ASSUME ConstantsAssumption ==
    /\ Producers \cap Consumers = {}
    /\ NULL \notin Producers \cup Consumers \cup Elems
    /\ Capacity \in Nat \ {0}
    /\ NULL \notin [0 .. Capacity - 1 -> Elems \cup {NULL}]
    /\ MaxEnqueues \in Nat
    /\ MaxSpurious \in Nat
    /\ IsFiniteSet(Producers) /\ IsFiniteSet(Consumers)

\* NULL, which stands for "no queue" in BoundedFifo, is not a queue.
ASSUME NullAssumption == \A n \in 0 .. Capacity : NULL \notin [1 .. n -> Elems]

VARIABLES
    pcq_buffer,        \* NULL, or the slots 0 .. Capacity-1
    pcq_head,
    pcq_tail,
    pcq_current_size,
    mutex,             \* owner of each mutex, NULL when it is free
    pc,                \* where each thread is
    elem,              \* each thread's elem: argument or result
    calls,             \* calls[p]: pcq_enqueue calls made by p
    spurious           \* spurious wake-ups so far

queue == <<pcq_buffer, pcq_head, pcq_tail, pcq_current_size>>
vars == <<queue, mutex, pc, elem, calls, spurious>>

Threads == Producers \cup Consumers

\* pcq_pusher_condvar_lock, pcq_popper_condvar_lock, pcq_current_size_lock
Mutexes == {"pusher", "popper", "size"}

Slots == 0 .. Capacity - 1

EnqueueLabels ==
    {"e_lockPusher", "e_lockSize", "e_test", "e_wait", "e_waiting", "e_relock",
     "e_put", "e_incSize", "e_unlockPusher", "e_lockPopper", "e_signal",
     "e_unlockPopper"}

DequeueLabels ==
    {"d_lockPopper", "d_lockSize", "d_test", "d_wait", "d_waiting", "d_relock",
     "d_get", "d_decSize", "d_unlockPopper", "d_lockPusher", "d_signal",
     "d_unlockPusher"}

Init ==
    /\ pcq_buffer = NULL
    /\ pcq_head = 0
    /\ pcq_tail = 0
    /\ pcq_current_size = 0
    /\ mutex = [m \in Mutexes |-> NULL]
    /\ pc = [t \in Threads |-> "idle"]
    /\ elem = [t \in Threads |-> NULL]
    /\ calls = [p \in Producers |-> 0]
    /\ spurious = 0

-----------------------------------------------------------------------------
(* The pthread calls behind utils/better-locks.c, as steps of thread t that *)
(* take it from one label to the next.                                      *)

Goto(t, from, to) ==
    /\ pc[t] = from
    /\ pc' = [pc EXCEPT ![t] = to]

mutex_lock(t, m, from, to) ==
    /\ Goto(t, from, to)
    /\ mutex[m] = NULL
    /\ mutex' = [mutex EXCEPT ![m] = t]
    /\ UNCHANGED <<queue, elem, calls, spurious>>

mutex_unlock(t, m, from, to) ==
    /\ Goto(t, from, to)
    /\ mutex' = [mutex EXCEPT ![m] = NULL]
    /\ UNCHANGED <<queue, elem, calls, spurious>>

\* Releasing m and starting to wait is one step.
cond_wait(t, m, from, waiting) == mutex_unlock(t, m, from, waiting)

\* One of the threads at label `waiting', if there is one, leaves the wait and
\* has to get its mutex back, which it does at label `woken'.
cond_signal(t, from, to, waiting, woken) ==
    /\ pc[t] = from
    /\ \/ /\ \A w \in Threads : pc[w] # waiting
          /\ pc' = [pc EXCEPT ![t] = to]
       \/ \E w \in Threads :
             /\ pc[w] = waiting
             /\ pc' = [pc EXCEPT ![t] = to, ![w] = woken]
    /\ UNCHANGED <<queue, mutex, elem, calls, spurious>>

\* pthread_cond_wait may return although nobody signalled.
SpuriousWakeup(t) ==
    /\ spurious < MaxSpurious
    /\ spurious' = spurious + 1
    /\ \/ Goto(t, "e_waiting", "e_relock")
       \/ Goto(t, "d_waiting", "d_relock")
    /\ UNCHANGED <<queue, mutex, elem, calls>>

-----------------------------------------------------------------------------
(* pcq_create and pcq_destroy run while no other thread is inside the queue.*)

\* malloc may fail: the caller still gets 0, and the buffer stays NULL.
pcq_create ==
    /\ pcq_buffer = NULL
    /\ \A t \in Threads : pc[t] = "idle"
    /\ pcq_current_size' = 0
    /\ pcq_head' = 0
    /\ pcq_tail' = 0
    /\ pcq_buffer' \in {NULL, [i \in Slots |-> NULL]}
    /\ UNCHANGED <<mutex, pc, elem, calls, spurious>>

pcq_destroy ==
    /\ pcq_buffer # NULL
    /\ \A t \in Threads : pc[t] = "idle"
    /\ pcq_buffer' = NULL
    /\ UNCHANGED <<pcq_head, pcq_tail, pcq_current_size, mutex, pc, elem, calls, spurious>>

-----------------------------------------------------------------------------
(* pcq_enqueue                                                             *)

\* A call: refused without a buffer, otherwise the first lock comes next.
EnqueueCall(p) ==
    /\ pc[p] = "idle"
    /\ calls[p] < MaxEnqueues
    /\ calls' = [calls EXCEPT ![p] = @ + 1]
    /\ \/ /\ pcq_buffer = NULL
          /\ UNCHANGED <<pc, elem>>
       \/ /\ pcq_buffer # NULL
          /\ pc' = [pc EXCEPT ![p] = "e_lockPusher"]
          /\ \E e \in Elems : elem' = [elem EXCEPT ![p] = e]
    /\ UNCHANGED <<queue, mutex, spurious>>

EnqueueLockPusher(p) == mutex_lock(p, "pusher", "e_lockPusher", "e_lockSize")

EnqueueLockSize(p) == mutex_lock(p, "size", "e_lockSize", "e_test")

EnqueueFull(p) ==
    /\ pcq_current_size = Capacity
    /\ mutex_unlock(p, "size", "e_test", "e_wait")

EnqueueWait(p) == cond_wait(p, "pusher", "e_wait", "e_waiting")

EnqueueRelock(p) == mutex_lock(p, "pusher", "e_relock", "e_lockSize")

\* Mutant: the test for a full queue is lost.
EnqueueNotFull_NoTest(p) ==
    /\ Goto(p, "e_test", "e_put")
    /\ UNCHANGED <<queue, mutex, elem, calls, spurious>>

EnqueueNotFull(p) ==
    /\ pcq_current_size # Capacity
    /\ Goto(p, "e_test", "e_put")
    /\ UNCHANGED <<queue, mutex, elem, calls, spurious>>

\* Mutant: the tail does not wrap around.
EnqueuePut_NoWrap(p) ==
    /\ Goto(p, "e_put", "e_incSize")
    /\ pcq_buffer' = [pcq_buffer EXCEPT ![pcq_tail] = elem[p]]
    /\ pcq_tail' = pcq_tail + 1
    /\ UNCHANGED <<pcq_head, pcq_current_size, mutex, elem, calls, spurious>>

EnqueuePut(p) ==
    /\ Goto(p, "e_put", "e_incSize")
    /\ pcq_buffer' = [pcq_buffer EXCEPT ![pcq_tail] = elem[p]]
    /\ pcq_tail' = (pcq_tail + 1) % Capacity
    /\ UNCHANGED <<pcq_head, pcq_current_size, mutex, elem, calls, spurious>>

EnqueueIncSize(p) ==
    /\ Goto(p, "e_incSize", "e_unlockPusher")
    /\ pcq_current_size' = pcq_current_size + 1
    /\ mutex' = [mutex EXCEPT !["size"] = NULL]
    /\ UNCHANGED <<pcq_buffer, pcq_head, pcq_tail, elem, calls, spurious>>

EnqueueUnlockPusher(p) == mutex_unlock(p, "pusher", "e_unlockPusher", "e_lockPopper")

EnqueueLockPopper(p) == mutex_lock(p, "popper", "e_lockPopper", "e_signal")

\* Mutant: the signal is sent only when the queue was empty.
EnqueueSignal_OnlyFirst(p) ==
    IF pcq_current_size <= 1
    THEN cond_signal(p, "e_signal", "e_unlockPopper", "d_waiting", "d_relock")
    ELSE Goto(p, "e_signal", "e_unlockPopper") /\ UNCHANGED <<queue, mutex, elem, calls, spurious>>

\* Mutant: the signal goes to the wrong condition variable.
EnqueueSignal_Pushers(p) == cond_signal(p, "e_signal", "e_unlockPopper", "e_waiting", "e_relock")

EnqueueSignal(p) == cond_signal(p, "e_signal", "e_unlockPopper", "d_waiting", "d_relock")

EnqueueReturn(p) == mutex_unlock(p, "popper", "e_unlockPopper", "idle")

\* What p does inside pcq_enqueue.
pcq_enqueue(p) ==
    \/ EnqueueLockPusher(p)   \/ EnqueueLockSize(p)
    \/ EnqueueFull(p)         \/ EnqueueNotFull(p)
    \/ EnqueueWait(p)         \/ EnqueueRelock(p)
    \/ EnqueuePut(p)          \/ EnqueueIncSize(p)
    \/ EnqueueUnlockPusher(p) \/ EnqueueLockPopper(p)
    \/ EnqueueSignal(p)       \/ EnqueueReturn(p)

-----------------------------------------------------------------------------
(* pcq_dequeue                                                             *)

\* A call: NULL at once without a buffer, otherwise the first lock comes next.
DequeueCall(c) ==
    /\ pc[c] = "idle"
    /\ elem' = [elem EXCEPT ![c] = NULL]
    /\ pc' = [pc EXCEPT ![c] = IF pcq_buffer = NULL THEN "idle" ELSE "d_lockPopper"]
    /\ UNCHANGED <<queue, mutex, calls, spurious>>

DequeueLockPopper(c) == mutex_lock(c, "popper", "d_lockPopper", "d_lockSize")

DequeueLockSize(c) == mutex_lock(c, "size", "d_lockSize", "d_test")

DequeueEmpty(c) ==
    /\ pcq_current_size = 0
    /\ mutex_unlock(c, "size", "d_test", "d_wait")

DequeueWait(c) == cond_wait(c, "popper", "d_wait", "d_waiting")

DequeueRelock(c) == mutex_lock(c, "popper", "d_relock", "d_lockSize")

DequeueNotEmpty(c) ==
    /\ pcq_current_size # 0
    /\ Goto(c, "d_test", "d_get")
    /\ UNCHANGED <<queue, mutex, elem, calls, spurious>>

\* Mutant: the head advances before the slot is read.
DequeueGet_AdvanceFirst(c) ==
    /\ Goto(c, "d_get", "d_decSize")
    /\ elem' = [elem EXCEPT ![c] = pcq_buffer[(pcq_head + 1) % Capacity]]
    /\ pcq_head' = (pcq_head + 1) % Capacity
    /\ UNCHANGED <<pcq_buffer, pcq_tail, pcq_current_size, mutex, calls, spurious>>

DequeueGet(c) ==
    /\ Goto(c, "d_get", "d_decSize")
    /\ elem' = [elem EXCEPT ![c] = pcq_buffer[pcq_head]]
    /\ pcq_head' = (pcq_head + 1) % Capacity
    /\ UNCHANGED <<pcq_buffer, pcq_tail, pcq_current_size, mutex, calls, spurious>>

DequeueDecSize(c) ==
    /\ Goto(c, "d_decSize", "d_unlockPopper")
    /\ pcq_current_size' = pcq_current_size - 1
    /\ mutex' = [mutex EXCEPT !["size"] = NULL]
    /\ UNCHANGED <<pcq_buffer, pcq_head, pcq_tail, elem, calls, spurious>>

DequeueUnlockPopper(c) == mutex_unlock(c, "popper", "d_unlockPopper", "d_lockPusher")

DequeueLockPusher(c) == mutex_lock(c, "pusher", "d_lockPusher", "d_signal")

\* Mutant: no producer is signalled.
DequeueSignal_None(c) ==
    /\ Goto(c, "d_signal", "d_unlockPusher")
    /\ UNCHANGED <<queue, mutex, elem, calls, spurious>>

DequeueSignal(c) == cond_signal(c, "d_signal", "d_unlockPusher", "e_waiting", "e_relock")

DequeueReturn(c) == mutex_unlock(c, "pusher", "d_unlockPusher", "idle")

\* What c does inside pcq_dequeue.
pcq_dequeue(c) ==
    \/ DequeueLockPopper(c)   \/ DequeueLockSize(c)
    \/ DequeueEmpty(c)        \/ DequeueNotEmpty(c)
    \/ DequeueWait(c)         \/ DequeueRelock(c)
    \/ DequeueGet(c)          \/ DequeueDecSize(c)
    \/ DequeueUnlockPopper(c) \/ DequeueLockPusher(c)
    \/ DequeueSignal(c)       \/ DequeueReturn(c)

-----------------------------------------------------------------------------

Next ==
    \/ pcq_create
    \/ pcq_destroy
    \/ \E p \in Producers : EnqueueCall(p) \/ pcq_enqueue(p)
    \/ \E c \in Consumers : DequeueCall(c) \/ pcq_dequeue(c)
    \/ \E t \in Threads : SpuriousWakeup(t)

Spec == Init /\ [][Next]_vars

\* A thread inside the queue keeps running, and a worker whose queue exists
\* comes back for the next registration (workers_reception is a loop).  No
\* fairness on calls of pcq_enqueue, on pcq_create, on pcq_destroy or on
\* spurious wake-ups, and none that a mutex is handed out fairly.
FairSpec ==
    /\ Spec
    /\ \A p \in Producers : WF_vars(pcq_enqueue(p))
    /\ \A c \in Consumers : WF_vars(pcq_dequeue(c)) /\ WF_vars(DequeueCall(c))

-----------------------------------------------------------------------------
(* Properties                                                              *)

QueueTypeOK ==
    /\ pcq_buffer \in [Slots -> Elems \cup {NULL}] \cup {NULL}
    /\ pcq_head \in Slots
    /\ pcq_tail \in Slots
    /\ pcq_current_size \in 0 .. Capacity

ControlTypeOK ==
    /\ mutex \in [Mutexes -> Threads \cup {NULL}]
    /\ pc \in [Threads -> {"idle"} \cup EnqueueLabels \cup DequeueLabels]
    /\ \A p \in Producers : pc[p] \notin DequeueLabels
    /\ \A c \in Consumers : pc[c] \notin EnqueueLabels

DataTypeOK ==
    /\ elem \in [Threads -> Elems \cup {NULL}]
    /\ calls \in [Producers -> 0 .. MaxEnqueues]
    /\ spurious \in 0 .. MaxSpurious

\* The values every variable takes: the indices stay inside the buffer, the
\* size inside 0 .. capacity, and each thread inside its own function.
TypeOK == QueueTypeOK /\ ControlTypeOK /\ DataTypeOK

\* The elements really in the ring: between the two statements of a critical
\* section an index has already moved and pcq_current_size has not.
Stored ==
    pcq_current_size
      + (IF \E p \in Producers : pc[p] = "e_incSize" THEN 1 ELSE 0)
      - (IF \E c \in Consumers : pc[c] = "d_decSize" THEN 1 ELSE 0)

\* The size and the two indices, which are guarded by three different mutexes,
\* always describe one run of at most Capacity slots, and every slot of that
\* run holds an enqueued element: nothing is overwritten before it is read and
\* no dequeue reads a slot that was never written.
RingConsistent ==
    pcq_buffer # NULL =>
        /\ Stored \in 0 .. Capacity
        /\ pcq_tail = (pcq_head + Stored) % Capacity
        /\ \A i \in 0 .. Capacity - 1 :
              i < Stored => pcq_buffer[(pcq_head + i) % Capacity] \in Elems

\* The labels at which a thread owns each mutex.
HoldsPusher ==
    {"e_lockSize", "e_test", "e_wait", "e_put", "e_incSize", "e_unlockPusher",
     "d_signal", "d_unlockPusher"}
HoldsPopper ==
    {"d_lockSize", "d_test", "d_wait", "d_get", "d_decSize", "d_unlockPopper",
     "e_signal", "e_unlockPopper"}
HoldsSize == {"e_test", "e_put", "e_incSize", "d_test", "d_get", "d_decSize"}

\* A mutex has the owner its holders' labels say: mutual exclusion, and no
\* thread unlocks a mutex it does not own or forgets one.
MutexOwners ==
    \A t \in Threads :
        /\ mutex["pusher"] = t <=> pc[t] \in HoldsPusher
        /\ mutex["popper"] = t <=> pc[t] \in HoldsPopper
        /\ mutex["size"] = t <=> pc[t] \in HoldsSize

\* What a thread has established and relies on at its label.
LabelFacts ==
    \A t \in Threads :
        /\ pc[t] # "idle" => pcq_buffer # NULL
        /\ pc[t] \in EnqueueLabels => elem[t] \in Elems
        /\ pc[t] \in {"e_put", "e_incSize"} => pcq_current_size < Capacity
        /\ pc[t] \in {"d_get", "d_decSize"} => pcq_current_size > 0

\* The inductive invariant behind TypeOK and RingConsistent.
IndInv == TypeOK /\ MutexOwners /\ LabelFacts /\ RingConsistent

At(labels) == {t \in Threads : pc[t] \in labels}

\* The threads an element waits for: producers that stored one and still owe
\* the signal for it, and consumers that will test the size before they wait.
TowardsPoppers ==
    At({"e_unlockPusher", "e_lockPopper", "e_signal",
        "d_relock", "d_lockSize", "d_test", "d_get", "d_decSize"})

\* The same for a free slot.
TowardsPushers ==
    At({"d_unlockPopper", "d_lockPusher", "d_signal",
        "e_relock", "e_lockSize", "e_test", "e_put", "e_incSize"})

ElementsCovered ==
    At({"d_wait", "d_waiting"}) # {} => pcq_current_size <= Cardinality(TowardsPoppers)

SlotsCovered ==
    At({"e_wait", "e_waiting"}) # {} =>
        Capacity - pcq_current_size <= Cardinality(TowardsPushers)

\* No signal is lost although the size is tested under one mutex and the
\* condition is signalled under another: while a thread waits (or has decided
\* to), every element it could take, and every slot it could fill, is matched
\* by a thread on its way to take it or by a signal still to come.
NoLostWakeup == ElementsCovered /\ SlotsCovered

\* Every call of pcq_enqueue returns, under any finite number of calls, as
\* long as consumers keep calling pcq_dequeue.
EnqueueReturns ==
    \A p \in Producers : pc[p] \in EnqueueLabels ~> pc[p] = "idle"

\* No element stays behind: the consumers empty the queue, unless it is
\* destroyed with elements in it.
QueueDrains ==
    pcq_current_size > 0 ~> (pcq_current_size = 0 \/ pcq_buffer = NULL)

-----------------------------------------------------------------------------
(* Refinement: the ring implements the bounded FIFO of BoundedFifo.tla.     *)
(* An enqueue takes effect when its element is in the buffer, a dequeue     *)
(* when it has read the slot; the size lock orders the two.                 *)

fifo ==
    IF pcq_buffer = NULL THEN NULL
    ELSE [i \in 1 .. Stored |-> pcq_buffer[(pcq_head + i - 1) % Capacity]]

Effective ==
    {"e_incSize", "e_unlockPusher", "e_lockPopper", "e_signal", "e_unlockPopper",
     "d_decSize", "d_unlockPopper", "d_lockPusher", "d_signal", "d_unlockPusher"}

phase ==
    [t \in Threads |-> IF pc[t] = "idle" THEN "idle"
                       ELSE IF pc[t] \in Effective THEN "done" ELSE "called"]

Fifo == INSTANCE BoundedFifo WITH q <- fifo, call <- phase, val <- elem

\* pcq_enqueue and pcq_dequeue are linearizable: every behaviour of the ring
\* is a behaviour of an atomic bounded FIFO queue with the same calls.
ImplementsFifo == Fifo!Spec
=============================================================================
