--------------------------- MODULE FifoRefinement ---------------------------
(***************************************************************************)
(* The ring buffer of producer-consumer.c implements the atomic queue of   *)
(* module BoundedFifo: the argument for ProducerConsumer!ImplementsFifo.   *)
(***************************************************************************)
EXTENDS ProducerConsumerProofs, SequenceTheorems

(* The slot of the k-th stored element. *)
Nth(k) == pcq_buffer[(pcq_head + k - 1) % Capacity]

(* Different places of the run are different slots. *)
LEMMA ModInjective ==
    ASSUME NEW N \in Nat \ {0}, NEW h \in 0 .. N - 1,
           NEW i \in 0 .. N - 1, NEW j \in 0 .. N - 1, i # j
    PROVE  (h + i) % N # (h + j) % N
  <1> DEFINE Wrap(x) == IF x < N THEN x ELSE x - N
  <1>1. \A x \in Nat : x < 2 * N => x % N = Wrap(x)
    BY ModSmall
  <1>2. h + i \in Nat /\ h + i < 2 * N /\ h + j \in Nat /\ h + j < 2 * N
    OBVIOUS
  <1>3. (h + i) % N = Wrap(h + i) /\ (h + j) % N = Wrap(h + j)
    <2> HIDE DEF Wrap
    <2> QED BY <1>1, <1>2
  <1> QED BY <1>3

(* In a state of the invariant the abstract queue is NULL or a sequence of the stored elements. *)
LEMMA FifoValue ==
    ASSUME IndInv
    PROVE  /\ pcq_buffer = NULL => fifo = NULL
           /\ pcq_buffer # NULL => /\ Stored \in 0 .. Capacity
                                   /\ fifo = [k \in 1 .. Stored |-> Nth(k)]
                                   /\ fifo \in Seq(Elems)
                                   /\ Len(fifo) = Stored
                                   /\ fifo # NULL
  <1> USE ConstantsAssumption DEF IndInv, TypeOK
  <1>1. pcq_buffer = NULL => fifo = NULL
    BY DEF fifo
  <1> SUFFICES ASSUME pcq_buffer # NULL
               PROVE  /\ Stored \in 0 .. Capacity
                      /\ fifo = [k \in 1 .. Stored |-> Nth(k)]
                      /\ fifo \in Seq(Elems)
                      /\ Len(fifo) = Stored
                      /\ fifo # NULL
    BY <1>1
  <1>2. /\ Stored \in 0 .. Capacity /\ Stored \in Nat
        /\ pcq_head \in Nat
    BY DEF RingConsistent, QueueTypeOK, Slots
  <1>3. fifo = [k \in 1 .. Stored |-> Nth(k)]
    BY DEF fifo, Nth
  <1>4. ASSUME NEW k \in 1 .. Stored PROVE Nth(k) \in Elems
    <2>1. k - 1 \in 0 .. Capacity - 1 /\ k - 1 < Stored /\ pcq_head + (k - 1) = pcq_head + k - 1
      BY <1>2
    <2>2. pcq_buffer[(pcq_head + (k - 1)) % Capacity] \in Elems
      BY <2>1 DEF RingConsistent
    <2> QED BY <2>1, <2>2 DEF Nth
  <1>5. fifo \in [1 .. Stored -> Elems]
    BY <1>3, <1>4
  <1> QED BY <1>2, <1>3, <1>5, NullAssumption

(* The abstract calls depend on the labels only through three classes of them. *)
LEMMA PhaseUpdate ==
    ASSUME ControlTypeOK, NEW t \in Threads, NEW to, pc' = [pc EXCEPT ![t] = to],
           NEW ph, ph = IF to = "idle" THEN "idle" ELSE IF to \in Effective THEN "done" ELSE "called"
    PROVE  phase' = [phase EXCEPT ![t] = ph]
  BY DEF phase, ControlTypeOK, Threads

(* A step that keeps the ring, the elements in hand and every thread's class is a stutter. *)
LEMMA FifoStutter ==
    ASSUME UNCHANGED <<queue, elem>>, Stored' = Stored, phase' = phase
    PROVE  UNCHANGED Fifo!vars
  BY DEF Fifo!vars, fifo, queue

(* Every step of the ring is a step of the atomic queue or leaves it unchanged. *)
LEMMA FifoStep == IndInv /\ [Next]_vars => [Fifo!Next]_(Fifo!vars)
  <1> SUFFICES ASSUME IndInv, [Next]_vars PROVE [Fifo!Next]_(Fifo!vars)
    OBVIOUS
  <1> USE ConstantsAssumption
  <1>i. IndInv' /\ ControlTypeOK /\ QueueTypeOK /\ DataTypeOK /\ MutexOwners /\ LabelFacts
    BY StepIndInv DEF IndInv, TypeOK
  <1>0. ASSUME UNCHANGED <<queue, elem>>, phase' = phase,
               \A t \in Threads : /\ (pc'[t] = "e_incSize") <=> (pc[t] = "e_incSize")
                                  /\ (pc'[t] = "d_decSize") <=> (pc[t] = "d_decSize")
        PROVE  UNCHANGED Fifo!vars
    BY <1>0, StoredSame, FifoStutter DEF queue
  <1>1. CASE pcq_create
    <2>1. phase' = phase /\ elem' = elem
      BY <1>1 DEF pcq_create, phase
    <2>2. CASE pcq_buffer' = NULL
      BY <1>1, <2>1, <2>2 DEF pcq_create, Fifo!vars, fifo
    <2>3. CASE pcq_buffer' # NULL
      <3>1. fifo = NULL
        BY <1>1 DEF pcq_create, fifo
      <3>2. Stored' = 0
        <4>1. \A t \in Threads : pc'[t] = "idle"
          BY <1>1 DEF pcq_create
        <4>2. /\ ~\E p \in Producers : pc'[p] = "e_incSize"
              /\ ~\E c \in Consumers : pc'[c] = "d_decSize"
          BY <4>1 DEF Threads
        <4> QED BY <1>1, <4>2 DEF pcq_create, Stored
      <3>3. fifo' = << >>
        BY <2>3, <3>2 DEF fifo
      <3> QED BY <2>1, <3>1, <3>3 DEF Fifo!Next, Fifo!Create
    <2> QED BY <2>2, <2>3
  <1>2. CASE pcq_destroy
    <2>1. phase' = phase /\ elem' = elem /\ fifo # NULL /\ fifo' = NULL
      BY <1>2, FifoValue DEF pcq_destroy, phase, fifo
    <2>2. \A t \in Threads : phase[t] = "idle"
      BY <1>2 DEF pcq_destroy, phase
    <2> QED BY <2>1, <2>2 DEF Fifo!Next, Fifo!Destroy, Fifo!Threads, Threads
  <1>3. ASSUME NEW p \in Producers, EnqueueCall(p) PROVE [Fifo!Next]_(Fifo!vars)
    <2>1. CASE pcq_buffer = NULL
      <3>1. UNCHANGED <<queue, pc, elem>>
        BY <1>3, <2>1 DEF EnqueueCall
      <3>2. UNCHANGED <<queue, elem>> /\ phase' = phase /\ pc' = pc
        BY <3>1 DEF phase
      <3>3. UNCHANGED Fifo!vars
        BY <1>0, <3>2
      <3> QED BY <3>3
    <2>2. CASE pcq_buffer # NULL
      <3>1. /\ pc[p] = "idle" /\ p \in Threads
            /\ pc' = [pc EXCEPT ![p] = "e_lockPusher"] /\ UNCHANGED queue
        BY <1>3, <2>2 DEF EnqueueCall, Threads
      <3>2. PICK e \in Elems : elem' = [elem EXCEPT ![p] = e]
        BY <1>3, <2>2 DEF EnqueueCall
      <3>3. phase[p] = "idle" /\ phase' = [phase EXCEPT ![p] = "called"]
        BY <1>i, <3>1 DEF phase, Effective, ControlTypeOK
      <3>4. fifo' = fifo
        BY <1>i, <3>1, StoredSame DEF fifo, queue, ControlTypeOK
      <3>5. fifo # NULL
        BY <2>2, FifoValue
      <3> QED BY <3>2, <3>3, <3>4, <3>5 DEF Fifo!Next, Fifo!CallEnq
    <2> QED BY <2>1, <2>2
  <1>4. ASSUME NEW p \in Producers, EnqueuePut(p) PROVE Fifo!Enq(p)
    <2>1. /\ p \in Threads /\ pc[p] = "e_put" /\ pc' = [pc EXCEPT ![p] = "e_incSize"]
          /\ pcq_buffer' = [pcq_buffer EXCEPT ![pcq_tail] = elem[p]]
          /\ UNCHANGED <<pcq_head, pcq_current_size, elem>>
      BY <1>4 DEF EnqueuePut, Goto, Threads
    <2>2. /\ pcq_buffer # NULL /\ pcq_current_size < Capacity /\ elem[p] \in Elems
          /\ pcq_buffer \in [Slots -> Elems \cup {NULL}] /\ pcq_tail \in Slots
      BY <1>i, <2>1 DEF LabelFacts, QueueTypeOK, EnqueueLabels
    <2>3. Stored = pcq_current_size
      <3>1. \A t \in Threads : pc[t] \notin {"e_incSize", "d_decSize"}
        BY <1>i, <2>1 DEF MutexOwners, HoldsSize
      <3> QED BY <1>i, <3>1, StoredValue
    <2>4. Stored' = Stored + 1
      <3>1. pc'[p] = "e_incSize"
        BY <1>i, <2>1 DEF ControlTypeOK
      <3>2. /\ \E r \in Producers : pc'[r] = "e_incSize"
            /\ ~\E c \in Consumers : pc'[c] = "d_decSize"
        BY <1>i, <3>1 DEF IndInv, MutexOwners, HoldsSize, Threads
      <3> QED BY <1>i, <2>1, <2>3, <3>2 DEF Stored, QueueTypeOK
    <2>5. /\ Stored \in Nat /\ Stored < Capacity
          /\ fifo = [k \in 1 .. Stored |-> Nth(k)]
          /\ fifo \in Seq(Elems) /\ Len(fifo) = Stored
      BY <1>i, <2>2, <2>3, FifoValue
    <2>6. /\ fifo' \in Seq(Elems) /\ Len(fifo') = Stored + 1
          /\ fifo' = [k \in 1 .. Stored + 1 |-> Nth(k)']
      <3>1. pcq_buffer' # NULL
        BY <2>1, <1>i, <2>2 DEF IndInv, LabelFacts, ControlTypeOK
      <3>2. (pcq_buffer # NULL => /\ fifo = [k \in 1 .. Stored |-> Nth(k)]
                                  /\ fifo \in Seq(Elems)
                                  /\ Len(fifo) = Stored)'
        BY <1>i, FifoValue, PTL
      <3> QED BY <2>4, <3>1, <3>2
    <2>7. ASSUME NEW k \in 1 .. Stored + 1
          PROVE  Nth(k)' = IF k = Stored + 1 THEN elem[p] ELSE Nth(k)
      <3>1. /\ k - 1 \in 0 .. Capacity - 1 /\ pcq_head + (k - 1) = pcq_head + k - 1
            /\ pcq_head \in 0 .. Capacity - 1
        BY <1>i, <2>5 DEF QueueTypeOK, Slots
      <3>2. (pcq_head + k - 1) % Capacity \in Slots
        BY <1>i, <3>1, SlotRange DEF QueueTypeOK
      <3>3. pcq_tail = (pcq_head + Stored) % Capacity
        BY <2>2 DEF IndInv, RingConsistent
      <3>4. CASE k = Stored + 1
        BY <2>1, <2>2, <2>5, <3>1, <3>3, <3>4 DEF Nth
      <3>5. CASE k # Stored + 1
        <4>1. (pcq_head + k - 1) % Capacity # pcq_tail
          <5>1. k - 1 # Stored /\ Stored \in 0 .. Capacity - 1
            BY <2>5, <3>5
          <5> QED BY <3>1, <3>3, <5>1, ModInjective
        <4> QED BY <2>1, <2>2, <3>2, <3>5, <4>1 DEF Nth
      <3> QED BY <3>4, <3>5
    <2>8. fifo' = Append(fifo, elem[p])
      <3>1. ASSUME NEW k \in 1 .. Stored + 1 PROVE fifo'[k] = Append(fifo, elem[p])[k]
        <4>1. fifo'[k] = IF k = Stored + 1 THEN elem[p] ELSE Nth(k)
          BY <2>6, <2>7
        <4>2. k # Stored + 1 => fifo[k] = Nth(k)
          BY <2>5
        <4> QED BY <2>2, <2>5, <4>1, <4>2
      <3>2. Append(fifo, elem[p]) \in Seq(Elems) /\ Len(Append(fifo, elem[p])) = Stored + 1
        BY <2>2, <2>5
      <3> QED BY <2>6, <3>1, <3>2, SeqEqual
    <2>9. phase[p] = "called" /\ phase' = [phase EXCEPT ![p] = "done"]
      BY <1>i, <2>1, PhaseUpdate DEF phase, Effective
    <2> QED BY <2>1, <2>5, <2>8, <2>9 DEF Fifo!Enq
  <1>5. ASSUME NEW p \in Producers, EnqueueReturn(p) PROVE Fifo!RetEnq(p)
    <2>1. /\ p \in Threads /\ pc[p] = "e_unlockPopper" /\ pc' = [pc EXCEPT ![p] = "idle"]
          /\ UNCHANGED <<queue, elem>>
      BY <1>5 DEF EnqueueReturn, mutex_unlock, Goto, Threads
    <2>2. phase[p] = "done" /\ phase' = [phase EXCEPT ![p] = "idle"]
      BY <1>i, <2>1, PhaseUpdate DEF phase, Effective
    <2>3. fifo' = fifo
      BY <1>i, <2>1, StoredSame DEF fifo, queue, ControlTypeOK
    <2> QED BY <2>1, <2>2, <2>3 DEF Fifo!RetEnq
  <1>6. ASSUME NEW p \in Producers, EnqueueIncSize(p) PROVE UNCHANGED Fifo!vars
    <2>1. /\ p \in Threads /\ pc[p] = "e_incSize" /\ pc' = [pc EXCEPT ![p] = "e_unlockPusher"]
          /\ pcq_current_size' = pcq_current_size + 1
          /\ UNCHANGED <<pcq_buffer, pcq_head, elem>>
      BY <1>6 DEF EnqueueIncSize, Goto, Threads
    <2>2. phase' = phase
      BY <1>i, <2>1 DEF phase, Effective, ControlTypeOK
    <2>3. Stored = pcq_current_size + 1
      BY <1>i, <2>1, StoredValue
    <2>4. Stored' = pcq_current_size'
      <3>1. \A t \in Threads : pc'[t] \notin {"e_incSize", "d_decSize"}
        BY <1>i, <2>1 DEF MutexOwners, HoldsSize, ControlTypeOK
      <3> QED BY <1>i, <2>1, <3>1 DEF Stored, QueueTypeOK, Threads
    <2> QED BY <2>1, <2>2, <2>3, <2>4 DEF Fifo!vars, fifo
  <1>7. ASSUME NEW p \in Producers, pcq_enqueue(p) PROVE [Fifo!Next]_(Fifo!vars)
    <2>1. CASE EnqueuePut(p) \/ EnqueueReturn(p) \/ EnqueueIncSize(p)
      BY <1>4, <1>5, <1>6, <2>1 DEF Fifo!Next
    <2>2. CASE ~(EnqueuePut(p) \/ EnqueueReturn(p) \/ EnqueueIncSize(p))
      <3>1. UNCHANGED <<queue, elem>> /\ phase' = phase
        BY <1>7, <2>2, <1>i DEF phase, Effective, ControlTypeOK, Threads,
          pcq_enqueue, EnqueueLockPusher, EnqueueLockSize, EnqueueFull,
          EnqueueNotFull, EnqueueWait, EnqueueRelock,
          EnqueueUnlockPusher, EnqueueLockPopper, EnqueueSignal,
          mutex_lock, mutex_unlock, cond_wait, cond_signal, Goto
      <3>2. \A t \in Threads : /\ (pc'[t] = "e_incSize") <=> (pc[t] = "e_incSize")
                               /\ (pc'[t] = "d_decSize") <=> (pc[t] = "d_decSize")
        BY <1>7, <2>2, <1>i DEF ControlTypeOK, Threads,
          pcq_enqueue, EnqueueLockPusher, EnqueueLockSize, EnqueueFull,
          EnqueueNotFull, EnqueueWait, EnqueueRelock,
          EnqueueUnlockPusher, EnqueueLockPopper, EnqueueSignal,
          mutex_lock, mutex_unlock, cond_wait, cond_signal, Goto
      <3> QED BY <1>0, <3>1, <3>2
    <2> QED BY <2>1, <2>2
  <1>8. ASSUME NEW c \in Consumers, DequeueCall(c) PROVE [Fifo!Next]_(Fifo!vars)
    <2>1. /\ c \in Threads /\ pc[c] = "idle" /\ elem' = [elem EXCEPT ![c] = NULL]
          /\ UNCHANGED queue /\ phase[c] = "idle"
      BY <1>8 DEF DequeueCall, Threads, phase
    <2>2. fifo' = fifo
      BY <1>8, <1>i, StoredSame DEF DequeueCall, fifo, queue, ControlTypeOK, Threads
    <2>3. CASE pcq_buffer = NULL
      <3>1. pc' = [pc EXCEPT ![c] = "idle"]
        BY <1>8, <2>3 DEF DequeueCall
      <3>2. phase' = phase
        BY <1>i, <2>1, <3>1 DEF phase, ControlTypeOK
      <3>3. fifo = NULL
        BY <2>3 DEF fifo
      <3> QED BY <2>1, <2>2, <3>2, <3>3 DEF Fifo!Next, Fifo!RefuseDeq
    <2>4. CASE pcq_buffer # NULL
      <3>1. pc' = [pc EXCEPT ![c] = "d_lockPopper"]
        BY <1>8, <2>4 DEF DequeueCall
      <3>2. phase' = [phase EXCEPT ![c] = "called"]
        BY <1>i, <2>1, <3>1 DEF phase, Effective, ControlTypeOK
      <3>3. fifo # NULL
        BY <2>4, FifoValue
      <3> QED BY <2>1, <2>2, <3>2, <3>3 DEF Fifo!Next, Fifo!CallDeq
    <2> QED BY <2>3, <2>4
  <1>9. ASSUME NEW c \in Consumers, DequeueGet(c) PROVE Fifo!Deq(c)
    <2>1. /\ c \in Threads /\ pc[c] = "d_get" /\ pc' = [pc EXCEPT ![c] = "d_decSize"]
          /\ elem' = [elem EXCEPT ![c] = pcq_buffer[pcq_head]]
          /\ pcq_head' = (pcq_head + 1) % Capacity
          /\ UNCHANGED <<pcq_buffer, pcq_current_size>>
      BY <1>9 DEF DequeueGet, Goto, Threads
    <2>2. pcq_buffer # NULL /\ pcq_current_size > 0 /\ pcq_head \in 0 .. Capacity - 1
      BY <1>i, <2>1 DEF LabelFacts, QueueTypeOK, Slots
    <2>3. Stored = pcq_current_size
      <3>1. \A t \in Threads : pc[t] \notin {"e_incSize", "d_decSize"}
        BY <1>i, <2>1 DEF MutexOwners, HoldsSize
      <3> QED BY <1>i, <3>1, StoredValue
    <2>4. Stored' = Stored - 1
      <3>1. pc'[c] = "d_decSize"
        BY <1>i, <2>1 DEF ControlTypeOK
      <3>2. /\ ~\E p \in Producers : pc'[p] = "e_incSize"
            /\ \E r \in Consumers : pc'[r] = "d_decSize"
        BY <1>i, <3>1 DEF IndInv, MutexOwners, HoldsSize, Threads
      <3> QED BY <1>i, <2>1, <2>3, <3>2 DEF Stored, QueueTypeOK
    <2>5. /\ Stored \in 1 .. Capacity
          /\ fifo = [k \in 1 .. Stored |-> Nth(k)]
          /\ fifo \in Seq(Elems) /\ Len(fifo) = Stored
      BY <1>i, <2>2, <2>3, FifoValue
    <2>6. /\ fifo' \in Seq(Elems) /\ Len(fifo') = Stored - 1
          /\ fifo' = [k \in 1 .. Stored - 1 |-> Nth(k)']
      <3>1. (pcq_buffer # NULL => /\ fifo = [k \in 1 .. Stored |-> Nth(k)]
                                  /\ fifo \in Seq(Elems)
                                  /\ Len(fifo) = Stored)'
        BY <1>i, FifoValue, PTL
      <3> QED BY <2>1, <2>2, <2>4, <3>1
    <2>7. ASSUME NEW k \in 1 .. Stored - 1 PROVE Nth(k)' = Nth(k + 1)
      <3>1. /\ k - 1 \in 0 .. Capacity - 1
            /\ pcq_head' + k - 1 = pcq_head' + (k - 1)
            /\ pcq_head + (k - 1) + 1 = pcq_head + (k + 1) - 1
        BY <1>i, <2>2, <2>5 DEF IndInv, TypeOK, QueueTypeOK, Slots
      <3>2. (pcq_head' + (k - 1)) % Capacity = (pcq_head + (k - 1) + 1) % Capacity
        BY <2>1, <2>2, <3>1, ModAdvance
      <3> QED BY <2>1, <3>1, <3>2 DEF Nth
    <2>8. fifo' = Tail(fifo)
      <3>1. /\ Tail(fifo) \in Seq(Elems) /\ Len(Tail(fifo)) = Stored - 1
            /\ \A k \in 1 .. Stored - 1 : Tail(fifo)[k] = fifo[k + 1]
        BY <2>5
      <3>2. ASSUME NEW k \in 1 .. Stored - 1 PROVE fifo'[k] = Tail(fifo)[k]
        <4>1. fifo'[k] = Nth(k + 1)
          BY <2>6, <2>7
        <4>2. k + 1 \in 1 .. Stored
          BY <2>5
        <4>3. fifo[k + 1] = Nth(k + 1)
          BY <2>5, <4>2
        <4> QED BY <3>1, <4>1, <4>3
      <3> QED BY <2>6, <3>1, <3>2, SeqEqual
    <2>9. Head(fifo) = pcq_buffer[pcq_head]
      <3>1. fifo[1] = Nth(1)
        BY <2>5
      <3>2. pcq_head + 1 - 1 = pcq_head /\ pcq_head % Capacity = pcq_head
        BY <2>2
      <3> QED BY <2>5, <3>1, <3>2 DEF Nth
    <2>10. phase[c] = "called" /\ phase' = [phase EXCEPT ![c] = "done"]
      BY <1>i, <2>1, PhaseUpdate DEF phase, Effective
    <2>11. Len(fifo) > 0
      BY <2>5
    <2>12. elem' = [elem EXCEPT ![c] = Head(fifo)]
      BY <2>1, <2>9, Zenon
    <2> QED BY <2>8, <2>10, <2>11, <2>12 DEF Fifo!Deq
  <1>10. ASSUME NEW c \in Consumers, DequeueReturn(c) PROVE Fifo!RetDeq(c)
    <2>1. /\ c \in Threads /\ pc[c] = "d_unlockPusher" /\ pc' = [pc EXCEPT ![c] = "idle"]
          /\ UNCHANGED <<queue, elem>>
      BY <1>10 DEF DequeueReturn, mutex_unlock, Goto, Threads
    <2>2. phase[c] = "done" /\ phase' = [phase EXCEPT ![c] = "idle"]
      BY <1>i, <2>1, PhaseUpdate DEF phase, Effective
    <2>3. fifo' = fifo
      BY <1>i, <2>1, StoredSame DEF fifo, queue, ControlTypeOK
    <2> QED BY <2>1, <2>2, <2>3 DEF Fifo!RetDeq
  <1>11. ASSUME NEW c \in Consumers, DequeueDecSize(c) PROVE UNCHANGED Fifo!vars
    <2>1. /\ c \in Threads /\ pc[c] = "d_decSize" /\ pc' = [pc EXCEPT ![c] = "d_unlockPopper"]
          /\ pcq_current_size' = pcq_current_size - 1
          /\ UNCHANGED <<pcq_buffer, pcq_head, elem>>
      BY <1>11 DEF DequeueDecSize, Goto, Threads
    <2>2. phase' = phase
      BY <1>i, <2>1 DEF phase, Effective, ControlTypeOK
    <2>3. Stored = pcq_current_size - 1
      BY <1>i, <2>1, StoredValue
    <2>4. Stored' = pcq_current_size'
      <3>1. \A t \in Threads : pc'[t] \notin {"e_incSize", "d_decSize"}
        BY <1>i, <2>1 DEF MutexOwners, HoldsSize, ControlTypeOK
      <3> QED BY <1>i, <2>1, <3>1 DEF IndInv, TypeOK, Stored, QueueTypeOK, Threads
    <2> QED BY <2>1, <2>2, <2>3, <2>4 DEF Fifo!vars, fifo
  <1>12. ASSUME NEW c \in Consumers, pcq_dequeue(c) PROVE [Fifo!Next]_(Fifo!vars)
    <2>1. CASE DequeueGet(c) \/ DequeueReturn(c) \/ DequeueDecSize(c)
      BY <1>9, <1>10, <1>11, <2>1 DEF Fifo!Next
    <2>2. CASE ~(DequeueGet(c) \/ DequeueReturn(c) \/ DequeueDecSize(c))
      <3>1. UNCHANGED <<queue, elem>> /\ phase' = phase
        BY <1>12, <2>2, <1>i DEF phase, Effective, ControlTypeOK, Threads,
          pcq_dequeue, DequeueLockPopper, DequeueLockSize, DequeueEmpty,
          DequeueNotEmpty, DequeueWait, DequeueRelock,
          DequeueUnlockPopper, DequeueLockPusher, DequeueSignal,
          mutex_lock, mutex_unlock, cond_wait, cond_signal, Goto
      <3>2. \A t \in Threads : /\ (pc'[t] = "e_incSize") <=> (pc[t] = "e_incSize")
                               /\ (pc'[t] = "d_decSize") <=> (pc[t] = "d_decSize")
        BY <1>12, <2>2, <1>i DEF ControlTypeOK, Threads,
          pcq_dequeue, DequeueLockPopper, DequeueLockSize, DequeueEmpty,
          DequeueNotEmpty, DequeueWait, DequeueRelock,
          DequeueUnlockPopper, DequeueLockPusher, DequeueSignal,
          mutex_lock, mutex_unlock, cond_wait, cond_signal, Goto
      <3> QED BY <1>0, <3>1, <3>2
    <2> QED BY <2>1, <2>2
  <1>13. ASSUME NEW t \in Threads, SpuriousWakeup(t) PROVE UNCHANGED Fifo!vars
    <2>1. UNCHANGED <<queue, elem>> /\ phase' = phase
      BY <1>13, <1>i DEF SpuriousWakeup, Goto, phase, Effective, ControlTypeOK
    <2>2. \A u \in Threads : /\ (pc'[u] = "e_incSize") <=> (pc[u] = "e_incSize")
                             /\ (pc'[u] = "d_decSize") <=> (pc[u] = "d_decSize")
      BY <1>13, <1>i DEF SpuriousWakeup, Goto, ControlTypeOK
    <2> QED BY <1>0, <2>1, <2>2
  <1>14. CASE UNCHANGED vars
    <2>1. UNCHANGED <<queue, elem, pc>> /\ phase' = phase
      BY <1>14 DEF vars, phase
    <2>2. UNCHANGED Fifo!vars
      BY <1>0, <2>1
    <2> QED BY <2>2
  <1> QED BY <1>1, <1>2, <1>3, <1>7, <1>8, <1>12, <1>13, <1>14 DEF Next

(* pcq_enqueue and pcq_dequeue are linearizable: for any number of threads and any capacity,
   every behaviour of the ring buffer and its three mutexes is one of an atomic bounded FIFO,
   in which an enqueue takes effect when its element is stored and a dequeue when it is read. *)
THEOREM RingImplementsFifo == Spec => ImplementsFifo
  <1>1. Init => Fifo!Init
    BY DEF Init, Fifo!Init, fifo, phase, Fifo!Threads, Threads
  <1> QED BY <1>1, FifoStep, Invariance, PTL DEF Spec, ImplementsFifo, Fifo!Spec
=============================================================================
