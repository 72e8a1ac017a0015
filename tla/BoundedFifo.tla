---------------------------- MODULE BoundedFifo ----------------------------
(***************************************************************************)
(* What producer-consumer.h promises: a FIFO queue of fixed capacity.  An  *)
(* enqueue or a dequeue takes effect atomically at one instant between its *)
(* call and its return; an enqueue waits while the queue is full and a     *)
(* dequeue waits while it is empty.  A queue that was not created, or was  *)
(* destroyed, refuses both.                                                *)
(***************************************************************************)
EXTENDS Naturals, Sequences

CONSTANTS
    Producers,  \* threads that call pcq_enqueue
    Consumers,  \* threads that call pcq_dequeue
    Elems,      \* the pointers that are enqueued
    Capacity,   \* the capacity given to pcq_create
    NULL        \* the null pointer

VARIABLES
    q,      \* the queued elements, oldest first, or NULL when there is no queue
    call,   \* call[t]: "idle", "called" (not yet effective) or "done"
    val     \* val[t]: the argument of an enqueue or the result of a dequeue

vars == <<q, call, val>>

Threads == Producers \cup Consumers

Init ==
    /\ q = NULL
    /\ call = [t \in Threads |-> "idle"]
    /\ val = [t \in Threads |-> NULL]

Create ==
    /\ q = NULL
    /\ q' = << >>
    /\ UNCHANGED <<call, val>>

Destroy ==
    /\ q # NULL
    /\ \A t \in Threads : call[t] = "idle"
    /\ q' = NULL
    /\ UNCHANGED <<call, val>>

CallEnq(p, e) ==
    /\ q # NULL
    /\ call[p] = "idle"
    /\ call' = [call EXCEPT ![p] = "called"]
    /\ val' = [val EXCEPT ![p] = e]
    /\ UNCHANGED q

Enq(p) ==
    /\ call[p] = "called"
    /\ Len(q) < Capacity
    /\ q' = Append(q, val[p])
    /\ call' = [call EXCEPT ![p] = "done"]
    /\ UNCHANGED val

RetEnq(p) ==
    /\ call[p] = "done"
    /\ call' = [call EXCEPT ![p] = "idle"]
    /\ UNCHANGED <<q, val>>

CallDeq(c) ==
    /\ q # NULL
    /\ call[c] = "idle"
    /\ call' = [call EXCEPT ![c] = "called"]
    /\ val' = [val EXCEPT ![c] = NULL]
    /\ UNCHANGED q

\* A dequeue on a queue that does not exist returns NULL at once.
RefuseDeq(c) ==
    /\ q = NULL
    /\ call[c] = "idle"
    /\ val' = [val EXCEPT ![c] = NULL]
    /\ UNCHANGED <<q, call>>

Deq(c) ==
    /\ call[c] = "called"
    /\ Len(q) > 0
    /\ val' = [val EXCEPT ![c] = Head(q)]
    /\ q' = Tail(q)
    /\ call' = [call EXCEPT ![c] = "done"]

RetDeq(c) ==
    /\ call[c] = "done"
    /\ call' = [call EXCEPT ![c] = "idle"]
    /\ UNCHANGED <<q, val>>

Next ==
    \/ Create
    \/ Destroy
    \/ \E p \in Producers : (\E e \in Elems : CallEnq(p, e)) \/ Enq(p) \/ RetEnq(p)
    \/ \E c \in Consumers : CallDeq(c) \/ RefuseDeq(c) \/ Deq(c) \/ RetDeq(c)

Spec == Init /\ [][Next]_vars
=============================================================================
