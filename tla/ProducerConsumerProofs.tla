----------------------- MODULE ProducerConsumerProofs -----------------------
(***************************************************************************)
(* Proofs about module ProducerConsumer, for every capacity and number of  *)
(* threads: the indices and the size describe one run of filled slots, and *)
(* no wake-up is lost.                                                     *)
(***************************************************************************)
EXTENDS ProducerConsumer, FiniteSetTheorems, TLAPS

(* Indices stay below 2 * Capacity, so % is one comparison and subtraction. *)
LEMMA ModSmall ==
    ASSUME NEW N \in Nat \ {0}, NEW x \in Nat, x < 2 * N
    PROVE  x % N = IF x < N THEN x ELSE x - N
  <1>1. CASE x < N
    BY <1>1
  <1>2. CASE x >= N
    BY <1>2
  <1> QED BY <1>1, <1>2

(* Advancing the tail of a run of n slots, and advancing its head.          *)
LEMMA ModAdvance ==
    ASSUME NEW N \in Nat \ {0}, NEW h \in 0 .. N - 1, NEW n \in 0 .. N - 1
    PROVE  /\ (((h + n) % N) + 1) % N = (h + n + 1) % N
           /\ (((h + 1) % N) + n) % N = (h + n + 1) % N
  <1> DEFINE Wrap(x) == IF x < N THEN x ELSE x - N
  <1>1. \A x \in Nat : x < 2 * N => x % N = Wrap(x)
    BY ModSmall
  <1>2. /\ h + n \in Nat /\ h + n < 2 * N
        /\ h + 1 \in Nat /\ h + 1 < 2 * N
        /\ h + n + 1 \in Nat /\ h + n + 1 < 2 * N
        /\ Wrap(h + n) + 1 \in Nat /\ Wrap(h + n) + 1 < 2 * N
        /\ Wrap(h + 1) + n \in Nat /\ Wrap(h + 1) + n < 2 * N
    OBVIOUS
  <1>3. /\ (h + n) % N = Wrap(h + n)
        /\ (h + 1) % N = Wrap(h + 1)
        /\ (h + n + 1) % N = Wrap(h + n + 1)
        /\ (Wrap(h + n) + 1) % N = Wrap(Wrap(h + n) + 1)
        /\ (Wrap(h + 1) + n) % N = Wrap(Wrap(h + 1) + n)
    <2> HIDE DEF Wrap
    <2> QED BY <1>1, <1>2
  <1> QED BY <1>3

(* Every step keeps the program counters and the mutex owners within their types. *)
LEMMA ControlTypeStep == IndInv /\ [Next]_vars => ControlTypeOK'
  <1> SUFFICES ASSUME IndInv, [Next]_vars PROVE ControlTypeOK'
    OBVIOUS
  <1> USE ConstantsAssumption
      DEF IndInv, TypeOK, ControlTypeOK, Threads, Mutexes,
          EnqueueLabels, DequeueLabels
  <1>1. CASE pcq_create
    BY <1>1 DEF pcq_create
  <1>2. CASE pcq_destroy
    BY <1>2 DEF pcq_destroy
  <1>3. ASSUME NEW p \in Producers, EnqueueCall(p) PROVE ControlTypeOK'
    BY <1>3 DEF EnqueueCall
  <1>4. ASSUME NEW p \in Producers, pcq_enqueue(p) PROVE ControlTypeOK'
    BY <1>4 DEF pcq_enqueue, EnqueueLockPusher, EnqueueLockSize, EnqueueFull,
        EnqueueNotFull, EnqueueWait, EnqueueRelock, EnqueuePut, EnqueueIncSize,
        EnqueueUnlockPusher, EnqueueLockPopper, EnqueueSignal, EnqueueReturn,
        mutex_lock, mutex_unlock, cond_wait, cond_signal, Goto
  <1>5. ASSUME NEW c \in Consumers, DequeueCall(c) PROVE ControlTypeOK'
    BY <1>5 DEF DequeueCall
  <1>6. ASSUME NEW c \in Consumers, pcq_dequeue(c) PROVE ControlTypeOK'
    BY <1>6 DEF pcq_dequeue, DequeueLockPopper, DequeueLockSize, DequeueEmpty,
        DequeueNotEmpty, DequeueWait, DequeueRelock, DequeueGet, DequeueDecSize,
        DequeueUnlockPopper, DequeueLockPusher, DequeueSignal, DequeueReturn,
        mutex_lock, mutex_unlock, cond_wait, cond_signal, Goto
  <1>7. ASSUME NEW t \in Threads, SpuriousWakeup(t) PROVE ControlTypeOK'
    BY <1>7 DEF SpuriousWakeup, Goto
  <1>8. CASE UNCHANGED vars
    BY <1>8 DEF vars
  <1> QED BY <1>1, <1>2, <1>3, <1>4, <1>5, <1>6, <1>7, <1>8 DEF Next

(* A mutex is owned by a thread exactly while the thread is between its lock and its unlock. *)
LEMMA MutexStep == IndInv /\ [Next]_vars => MutexOwners'
  <1> SUFFICES ASSUME IndInv, [Next]_vars PROVE MutexOwners'
    OBVIOUS
  <1> USE ConstantsAssumption
      DEF IndInv, TypeOK, ControlTypeOK, MutexOwners, Threads, Mutexes,
          HoldsPusher, HoldsPopper, HoldsSize
  <1>1. CASE pcq_create
    BY <1>1 DEF pcq_create
  <1>2. CASE pcq_destroy
    BY <1>2 DEF pcq_destroy
  <1>3. ASSUME NEW p \in Producers, EnqueueCall(p) PROVE MutexOwners'
    BY <1>3 DEF EnqueueCall
  <1>4. ASSUME NEW p \in Producers, pcq_enqueue(p) PROVE MutexOwners'
    BY <1>4 DEF pcq_enqueue, EnqueueLockPusher, EnqueueLockSize, EnqueueFull,
        EnqueueNotFull, EnqueueWait, EnqueueRelock, EnqueuePut, EnqueueIncSize,
        EnqueueUnlockPusher, EnqueueLockPopper, EnqueueSignal, EnqueueReturn,
        mutex_lock, mutex_unlock, cond_wait, cond_signal, Goto
  <1>5. ASSUME NEW c \in Consumers, DequeueCall(c) PROVE MutexOwners'
    BY <1>5 DEF DequeueCall
  <1>6. ASSUME NEW c \in Consumers, pcq_dequeue(c) PROVE MutexOwners'
    BY <1>6 DEF pcq_dequeue, DequeueLockPopper, DequeueLockSize, DequeueEmpty,
        DequeueNotEmpty, DequeueWait, DequeueRelock, DequeueGet, DequeueDecSize,
        DequeueUnlockPopper, DequeueLockPusher, DequeueSignal, DequeueReturn,
        mutex_lock, mutex_unlock, cond_wait, cond_signal, Goto
  <1>7. ASSUME NEW t \in Threads, SpuriousWakeup(t) PROVE MutexOwners'
    BY <1>7 DEF SpuriousWakeup, Goto
  <1>8. CASE UNCHANGED vars
    BY <1>8 DEF vars
  <1> QED BY <1>1, <1>2, <1>3, <1>4, <1>5, <1>6, <1>7, <1>8 DEF Next

(* Every step keeps the arguments and results of the calls, and the bounds, within their types. *)
LEMMA DataTypeStep == IndInv /\ [Next]_vars => DataTypeOK'
  <1> SUFFICES ASSUME IndInv, [Next]_vars PROVE DataTypeOK'
    OBVIOUS
  <1> USE ConstantsAssumption
      DEF IndInv, TypeOK, QueueTypeOK, DataTypeOK, LabelFacts, Threads, Slots, queue
  <1>1. CASE pcq_create
    BY <1>1 DEF pcq_create
  <1>2. CASE pcq_destroy
    BY <1>2 DEF pcq_destroy
  <1>3. ASSUME NEW p \in Producers, EnqueueCall(p) PROVE DataTypeOK'
    BY <1>3 DEF EnqueueCall
  <1>4. ASSUME NEW p \in Producers, pcq_enqueue(p) PROVE DataTypeOK'
    BY <1>4 DEF pcq_enqueue, EnqueueLockPusher, EnqueueLockSize, EnqueueFull,
        EnqueueNotFull, EnqueueWait, EnqueueRelock, EnqueuePut, EnqueueIncSize,
        EnqueueUnlockPusher, EnqueueLockPopper, EnqueueSignal, EnqueueReturn,
        mutex_lock, mutex_unlock, cond_wait, cond_signal, Goto
  <1>5. ASSUME NEW c \in Consumers, DequeueCall(c) PROVE DataTypeOK'
    BY <1>5 DEF DequeueCall
  <1>6. ASSUME NEW c \in Consumers, pcq_dequeue(c) PROVE DataTypeOK'
    BY <1>6 DEF pcq_dequeue, DequeueLockPopper, DequeueLockSize, DequeueEmpty,
        DequeueNotEmpty, DequeueWait, DequeueRelock, DequeueGet, DequeueDecSize,
        DequeueUnlockPopper, DequeueLockPusher, DequeueSignal, DequeueReturn,
        mutex_lock, mutex_unlock, cond_wait, cond_signal, Goto
  <1>7. ASSUME NEW t \in Threads, SpuriousWakeup(t) PROVE DataTypeOK'
    BY <1>7 DEF SpuriousWakeup, Goto
  <1>8. CASE UNCHANGED vars
    BY <1>8 DEF vars
  <1> QED BY <1>1, <1>2, <1>3, <1>4, <1>5, <1>6, <1>7, <1>8 DEF Next

(* The ring indices stay below the capacity and the size within 0..Capacity: a thread between
   the test of pcq_current_size and its update holds the size lock. *)
LEMMA QueueTypeStep == IndInv /\ [Next]_vars => QueueTypeOK'
  <1> SUFFICES ASSUME IndInv, [Next]_vars PROVE QueueTypeOK'
    OBVIOUS
  <1> USE ConstantsAssumption
      DEF IndInv, TypeOK, QueueTypeOK, DataTypeOK, LabelFacts, Threads, Slots, queue
  <1>1. CASE pcq_create
    BY <1>1 DEF pcq_create
  <1>2. CASE pcq_destroy
    BY <1>2 DEF pcq_destroy
  <1>3. ASSUME NEW p \in Producers, EnqueueCall(p) PROVE QueueTypeOK'
    BY <1>3 DEF EnqueueCall
  <1>4. ASSUME NEW p \in Producers, pcq_enqueue(p) PROVE QueueTypeOK'
    BY <1>4, SMTT(60) DEF pcq_enqueue, EnqueueLockPusher, EnqueueLockSize, EnqueueFull,
        EnqueueNotFull, EnqueueWait, EnqueueRelock, EnqueuePut, EnqueueIncSize,
        EnqueueUnlockPusher, EnqueueLockPopper, EnqueueSignal, EnqueueReturn,
        mutex_lock, mutex_unlock, cond_wait, cond_signal, Goto
  <1>5. ASSUME NEW c \in Consumers, DequeueCall(c) PROVE QueueTypeOK'
    BY <1>5 DEF DequeueCall
  <1>6. ASSUME NEW c \in Consumers, pcq_dequeue(c) PROVE QueueTypeOK'
    BY <1>6 DEF pcq_dequeue, DequeueLockPopper, DequeueLockSize, DequeueEmpty,
        DequeueNotEmpty, DequeueWait, DequeueRelock, DequeueGet, DequeueDecSize,
        DequeueUnlockPopper, DequeueLockPusher, DequeueSignal, DequeueReturn,
        mutex_lock, mutex_unlock, cond_wait, cond_signal, Goto
  <1>7. ASSUME NEW t \in Threads, SpuriousWakeup(t) PROVE QueueTypeOK'
    BY <1>7 DEF SpuriousWakeup, Goto
  <1>8. CASE UNCHANGED vars
    BY <1>8 DEF vars
  <1> QED BY <1>1, <1>2, <1>3, <1>4, <1>5, <1>6, <1>7, <1>8 DEF Next

(* What a thread that holds the size lock has tested is still true: the queue is not full where
   pcq_enqueue stores, and not empty where pcq_dequeue reads. *)
LEMMA LabelStep == IndInv /\ [Next]_vars => LabelFacts'
  <1> SUFFICES ASSUME IndInv, [Next]_vars PROVE LabelFacts'
    OBVIOUS
  <1> USE ConstantsAssumption
      DEF IndInv, TypeOK, ControlTypeOK, QueueTypeOK, DataTypeOK, MutexOwners, LabelFacts,
          Threads, Slots, queue, EnqueueLabels, HoldsSize
  <1>1. CASE pcq_create
    BY <1>1 DEF pcq_create
  <1>2. CASE pcq_destroy
    BY <1>2 DEF pcq_destroy
  <1>3. ASSUME NEW p \in Producers, EnqueueCall(p) PROVE LabelFacts'
    BY <1>3, SMTT(60) DEF EnqueueCall
  <1>4. ASSUME NEW p \in Producers, pcq_enqueue(p) PROVE LabelFacts'
    <2> USE DEF pcq_enqueue, EnqueueLockPusher, EnqueueLockSize, EnqueueFull,
        EnqueueNotFull, EnqueueWait, EnqueueRelock, EnqueuePut, EnqueueIncSize,
        EnqueueUnlockPusher, EnqueueLockPopper, EnqueueSignal, EnqueueReturn,
        mutex_lock, mutex_unlock, cond_wait, cond_signal, Goto
    <2> SUFFICES ASSUME NEW t \in Threads
                 PROVE  /\ pc'[t] # "idle" => pcq_buffer' # NULL
                        /\ pc'[t] \in EnqueueLabels => elem'[t] \in Elems
                        /\ pc'[t] \in {"e_put", "e_incSize"} => pcq_current_size' < Capacity
                        /\ pc'[t] \in {"d_get", "d_decSize"} => pcq_current_size' > 0
      OBVIOUS
    <2>1. pc'[t] # "idle" => pcq_buffer' # NULL
      <3>1. pcq_buffer # NULL
        BY <1>4
      <3> QED BY <1>4, <3>1
    <2>2. pc'[t] \in EnqueueLabels => elem'[t] \in Elems
      <3>1. pc'[t] \in EnqueueLabels => pc[t] \in EnqueueLabels
        BY <1>4
      <3>2. elem' = elem
        BY <1>4
      <3> QED BY <3>1, <3>2
    <2>3. pc'[t] \in {"e_put", "e_incSize"} => pcq_current_size' < Capacity
      BY <1>4
    <2>4. pc'[t] \in {"d_get", "d_decSize"} => pcq_current_size' > 0
      BY <1>4
    <2> QED BY <2>1, <2>2, <2>3, <2>4
  <1>5. ASSUME NEW c \in Consumers, DequeueCall(c) PROVE LabelFacts'
    BY <1>5 DEF DequeueCall
  <1>6. ASSUME NEW c \in Consumers, pcq_dequeue(c) PROVE LabelFacts'
    BY <1>6 DEF pcq_dequeue, DequeueLockPopper, DequeueLockSize, DequeueEmpty,
        DequeueNotEmpty, DequeueWait, DequeueRelock, DequeueGet, DequeueDecSize,
        DequeueUnlockPopper, DequeueLockPusher, DequeueSignal, DequeueReturn,
        mutex_lock, mutex_unlock, cond_wait, cond_signal, Goto
  <1>7. ASSUME NEW t \in Threads, SpuriousWakeup(t) PROVE LabelFacts'
    BY <1>7 DEF SpuriousWakeup, Goto
  <1>8. CASE UNCHANGED vars
    BY <1>8 DEF vars
  <1> QED BY <1>1, <1>2, <1>3, <1>4, <1>5, <1>6, <1>7, <1>8 DEF Next

(* Between two states in which the same thread, if any, is in the middle of *)
(* an update, and which agree on the size, the ring holds as many elements. *)
LEMMA StoredSame ==
    ASSUME pcq_current_size' = pcq_current_size,
           \A t \in Threads : /\ (pc'[t] = "e_incSize") <=> (pc[t] = "e_incSize")
                              /\ (pc'[t] = "d_decSize") <=> (pc[t] = "d_decSize")
    PROVE  Stored' = Stored
  BY DEF Stored, Threads

(* The size lock lets at most one thread be in the middle of an update.     *)
LEMMA StoredValue ==
    ASSUME ControlTypeOK, QueueTypeOK, MutexOwners
    PROVE  /\ \A p \in Producers : pc[p] = "e_incSize" => Stored = pcq_current_size + 1
           /\ \A c \in Consumers : pc[c] = "d_decSize" => Stored = pcq_current_size - 1
           /\ (\A t \in Threads : pc[t] \notin {"e_incSize", "d_decSize"})
                => Stored = pcq_current_size
  BY ConstantsAssumption
     DEF Stored, ControlTypeOK, QueueTypeOK, MutexOwners, HoldsSize, Threads

(* Every index of the ring, reduced modulo the capacity, is a slot of the buffer. *)
LEMMA SlotRange ==
    ASSUME NEW h \in Slots, NEW i \in 0 .. Capacity - 1
    PROVE  (h + i) % Capacity \in Slots
  BY ConstantsAssumption, ModSmall DEF Slots

(* Every step keeps head, tail, size and buffer consistent. *)
LEMMA RingStep == IndInv /\ [Next]_vars => RingConsistent'
  <1> SUFFICES ASSUME IndInv, [Next]_vars PROVE RingConsistent'
    OBVIOUS
  <1> USE ConstantsAssumption DEF IndInv, TypeOK
  <1>1. /\ ControlTypeOK' /\ QueueTypeOK' /\ MutexOwners'
    BY ControlTypeStep, QueueTypeStep, MutexStep
  <1>2. ASSUME UNCHANGED queue,
               \A t \in Threads : /\ (pc'[t] = "e_incSize") <=> (pc[t] = "e_incSize")
                                  /\ (pc'[t] = "d_decSize") <=> (pc[t] = "d_decSize")
        PROVE  RingConsistent'
    BY <1>2, StoredSame DEF queue, RingConsistent
  <1>3. CASE pcq_create
    <2>1. Stored' = 0
      BY <1>1, <1>3, StoredValue, StoredSame DEF pcq_create, Stored, Threads
    <2> QED BY <1>3, <2>1 DEF pcq_create, RingConsistent
  <1>4. CASE pcq_destroy
    BY <1>4 DEF pcq_destroy, RingConsistent
  <1>5. ASSUME NEW p \in Producers, EnqueuePut(p) PROVE RingConsistent'
    <2> USE DEF EnqueuePut, Goto
    <2>1. /\ pc[p] = "e_put" /\ pcq_current_size \in 0 .. Capacity - 1
          /\ pcq_buffer # NULL /\ pcq_buffer \in [Slots -> Elems \cup {NULL}]
          /\ elem[p] \in Elems
      BY <1>5 DEF LabelFacts, QueueTypeOK, Threads, EnqueueLabels
    <2>2. \A t \in Threads : pc[t] \notin {"e_incSize", "d_decSize"}
      BY <2>1 DEF MutexOwners, HoldsSize, Threads
    <2>3. Stored = pcq_current_size
      BY <2>2, StoredValue
    <2>4. pc'[p] = "e_incSize"
      BY <1>5 DEF ControlTypeOK, Threads
    <2>5. Stored' = pcq_current_size + 1
      <3>1. Stored' = pcq_current_size' + 1
        <4>1. pc'[p] = "e_incSize" => Stored' = pcq_current_size' + 1
          BY <1>1, <1>5 DEF Stored, ControlTypeOK, QueueTypeOK, MutexOwners, HoldsSize, Threads
        <4> QED BY <2>4, <4>1
      <3> QED BY <3>1, <1>5
    <2>6. pcq_tail' = (pcq_head + pcq_current_size + 1) % Capacity
      <3>1. /\ pcq_tail = (pcq_head + pcq_current_size) % Capacity
            /\ pcq_tail' = (pcq_tail + 1) % Capacity
        BY <1>5, <2>1, <2>3 DEF RingConsistent
      <3>2. pcq_head \in 0 .. Capacity - 1
        BY DEF QueueTypeOK, Slots
      <3> QED BY <2>1, <3>1, <3>2, ModAdvance
    <2>7. ASSUME NEW i \in 0 .. Capacity - 1, i < pcq_current_size + 1
          PROVE  pcq_buffer'[(pcq_head + i) % Capacity] \in Elems
      <3>1. (pcq_head + i) % Capacity \in Slots
        BY SlotRange DEF QueueTypeOK
      <3>2. CASE i < pcq_current_size
        BY <1>5, <2>1, <2>3, <3>1, <3>2 DEF RingConsistent
      <3>3. CASE i = pcq_current_size
        BY <1>5, <2>1, <2>3, <3>1, <3>3 DEF RingConsistent
      <3> QED BY <2>1, <2>7, <3>2, <3>3
    <2>8. (pcq_head + (pcq_current_size + 1)) % Capacity = pcq_tail'
      BY <2>1, <2>6 DEF QueueTypeOK, Slots
    <2> QED BY <1>5, <2>1, <2>5, <2>7, <2>8 DEF RingConsistent, QueueTypeOK, Slots
  <1>6. ASSUME NEW p \in Producers, EnqueueIncSize(p) PROVE RingConsistent'
    <2>1. pc[p] = "e_incSize" /\ pcq_current_size' = pcq_current_size + 1
      BY <1>6 DEF EnqueueIncSize, Goto
    <2>2. Stored = pcq_current_size + 1
      BY <2>1, StoredValue
    <2>3. \A t \in Threads : pc'[t] \notin {"e_incSize", "d_decSize"}
      BY <1>1, <1>6, <2>1
         DEF EnqueueIncSize, Goto, MutexOwners, HoldsSize, ControlTypeOK, Threads
    <2>4. Stored' = pcq_current_size'
      <3>1. /\ ~\E r \in Producers : pc'[r] = "e_incSize"
            /\ ~\E r \in Consumers : pc'[r] = "d_decSize"
        BY <2>3 DEF Threads
      <3>2. pcq_current_size' \in Nat
        BY <1>1 DEF QueueTypeOK
      <3>3. Stored' = pcq_current_size' + 0 - 0
        BY <3>1 DEF Stored
      <3> QED BY <3>2, <3>3
    <2> QED BY <1>6, <2>1, <2>2, <2>4 DEF EnqueueIncSize, RingConsistent
  <1>7. ASSUME NEW c \in Consumers, DequeueGet(c) PROVE RingConsistent'
    <2> USE DEF DequeueGet, Goto
    <2>1. /\ pc[c] = "d_get" /\ pcq_current_size \in 1 .. Capacity
          /\ pcq_buffer # NULL /\ pcq_head \in 0 .. Capacity - 1
      BY <1>7 DEF LabelFacts, QueueTypeOK, Threads, Slots
    <2>2. \A t \in Threads : pc[t] \notin {"e_incSize", "d_decSize"}
      BY <2>1 DEF MutexOwners, HoldsSize, Threads
    <2>3. Stored = pcq_current_size
      BY <2>2, StoredValue
    <2>4. pc'[c] = "d_decSize"
      BY <1>7 DEF ControlTypeOK, Threads
    <2>5. Stored' = pcq_current_size - 1
      <3>1. Stored' = pcq_current_size' - 1
        BY <1>1, <2>4 DEF Stored, ControlTypeOK, QueueTypeOK, MutexOwners, HoldsSize, Threads
      <3> QED BY <3>1, <1>7
    <2>6. \A i \in 0 .. Capacity - 1 :
            (pcq_head' + i) % Capacity = (pcq_head + i + 1) % Capacity
      BY <1>7, <2>1, ModAdvance
    <2>7. pcq_tail' = (pcq_head' + (pcq_current_size - 1)) % Capacity
      <3>1. pcq_tail' = (pcq_head + pcq_current_size) % Capacity
        BY <1>7, <2>1, <2>3 DEF RingConsistent
      <3>2. /\ pcq_current_size - 1 \in 0 .. Capacity - 1
            /\ pcq_head + (pcq_current_size - 1) + 1 = pcq_head + pcq_current_size
        BY <2>1
      <3> QED BY <2>6, <3>1, <3>2
    <2>8. ASSUME NEW i \in 0 .. Capacity - 1, i < pcq_current_size - 1
          PROVE  pcq_buffer'[(pcq_head' + i) % Capacity] \in Elems
      <3>1. i + 1 \in 0 .. Capacity - 1 /\ i + 1 < pcq_current_size
        BY <2>1, <2>8
      <3>2. pcq_buffer[(pcq_head + (i + 1)) % Capacity] \in Elems
        BY <2>1, <2>3, <3>1 DEF RingConsistent
      <3>3. pcq_head + (i + 1) = pcq_head + i + 1
        BY <2>1
      <3> QED BY <1>7, <2>6, <3>2, <3>3
    <2> QED BY <2>1, <2>5, <2>7, <2>8 DEF RingConsistent
  <1>8. ASSUME NEW c \in Consumers, DequeueDecSize(c) PROVE RingConsistent'
    <2>1. pc[c] = "d_decSize" /\ pcq_current_size' = pcq_current_size - 1
      BY <1>8 DEF DequeueDecSize, Goto
    <2>2. Stored = pcq_current_size - 1
      BY <2>1, StoredValue
    <2>3. \A t \in Threads : pc'[t] \notin {"e_incSize", "d_decSize"}
      BY <1>1, <1>8, <2>1
         DEF DequeueDecSize, Goto, MutexOwners, HoldsSize, ControlTypeOK, Threads
    <2>4. Stored' = pcq_current_size'
      <3>1. /\ ~\E r \in Producers : pc'[r] = "e_incSize"
            /\ ~\E r \in Consumers : pc'[r] = "d_decSize"
        BY <2>3 DEF Threads
      <3>2. pcq_current_size' \in Nat
        BY <1>1 DEF QueueTypeOK
      <3>3. Stored' = pcq_current_size' + 0 - 0
        BY <3>1 DEF Stored
      <3> QED BY <3>2, <3>3
    <2> QED BY <1>8, <2>1, <2>2, <2>4 DEF DequeueDecSize, RingConsistent
  <1>9. ASSUME NEW p \in Producers, EnqueueCall(p) PROVE RingConsistent'
    BY <1>2, <1>9 DEF EnqueueCall, ControlTypeOK, Threads
  <1>10. ASSUME NEW p \in Producers, pcq_enqueue(p) PROVE RingConsistent'
    <2>1. CASE EnqueuePut(p) \/ EnqueueIncSize(p)
      BY <1>5, <1>6, <2>1
    <2>2. CASE ~(EnqueuePut(p) \/ EnqueueIncSize(p))
      BY <1>2, <1>10, <2>2 DEF ControlTypeOK, Threads,
        pcq_enqueue, EnqueueLockPusher, EnqueueLockSize, EnqueueFull,
        EnqueueNotFull, EnqueueWait, EnqueueRelock,
        EnqueueUnlockPusher, EnqueueLockPopper, EnqueueSignal, EnqueueReturn,
        mutex_lock, mutex_unlock, cond_wait, cond_signal, Goto
    <2> QED BY <2>1, <2>2
  <1>11. ASSUME NEW c \in Consumers, DequeueCall(c) PROVE RingConsistent'
    BY <1>2, <1>11 DEF DequeueCall, ControlTypeOK, Threads
  <1>12. ASSUME NEW c \in Consumers, pcq_dequeue(c) PROVE RingConsistent'
    <2>1. CASE DequeueGet(c) \/ DequeueDecSize(c)
      BY <1>7, <1>8, <2>1
    <2>2. CASE ~(DequeueGet(c) \/ DequeueDecSize(c))
      BY <1>2, <1>12, <2>2 DEF ControlTypeOK, Threads,
        pcq_dequeue, DequeueLockPopper, DequeueLockSize, DequeueEmpty,
        DequeueNotEmpty, DequeueWait, DequeueRelock,
        DequeueUnlockPopper, DequeueLockPusher, DequeueSignal, DequeueReturn,
        mutex_lock, mutex_unlock, cond_wait, cond_signal, Goto
    <2> QED BY <2>1, <2>2
  <1>13. ASSUME NEW t \in Threads, SpuriousWakeup(t) PROVE RingConsistent'
    BY <1>2, <1>13 DEF SpuriousWakeup, Goto, ControlTypeOK
  <1>14. CASE UNCHANGED vars
    BY <1>2, <1>14 DEF vars
  <1> QED BY <1>3, <1>4, <1>9, <1>10, <1>11, <1>12, <1>13, <1>14 DEF Next

(* The inductive invariant holds of the queue that is not created yet. *)
LEMMA InitIndInv == Init => IndInv
  <1> SUFFICES ASSUME Init PROVE IndInv
    OBVIOUS
  <1> USE ConstantsAssumption DEF Init
  <1>1. QueueTypeOK /\ DataTypeOK
    BY DEF QueueTypeOK, DataTypeOK, Slots
  <1>2. ControlTypeOK
    BY DEF ControlTypeOK, EnqueueLabels, DequeueLabels, Threads
  <1>3. MutexOwners
    BY DEF MutexOwners, Mutexes, Threads, HoldsPusher, HoldsPopper, HoldsSize
  <1>4. LabelFacts
    BY DEF LabelFacts, EnqueueLabels
  <1>5. RingConsistent
    BY DEF RingConsistent
  <1> QED BY <1>1, <1>2, <1>3, <1>4, <1>5 DEF IndInv, TypeOK

(* Every step of pcq_create, pcq_destroy, pcq_enqueue and pcq_dequeue keeps the invariant. *)
LEMMA StepIndInv == IndInv /\ [Next]_vars => IndInv'
  BY ControlTypeStep, MutexStep, DataTypeStep, QueueTypeStep, LabelStep, RingStep
     DEF IndInv, TypeOK

(* The inductive invariant holds throughout, for any number of threads and any capacity. *)
THEOREM Invariance == Spec => []IndInv
  BY InitIndInv, StepIndInv, PTL DEF Spec

(* The state is always of its type; the indices of the ring never leave the buffer. *)
THEOREM TypeCorrect == Spec => []TypeOK
  <1>1. IndInv => TypeOK
    BY DEF IndInv
  <1> QED BY <1>1, Invariance, PTL

(* The size and the two indices always describe one run of at most Capacity slots, each holding
   an enqueued element: no element is overwritten before it is read and none is read from an
   empty slot, although head, tail and size are under three different mutexes. *)
THEOREM RingCorrect == Spec => []RingConsistent
  <1>1. IndInv => RingConsistent
    BY DEF IndInv
  <1> QED BY <1>1, Invariance, PTL

-----------------------------------------------------------------------------
(* No lost wake-up.                                                        *)

(* Cardinality of a set of threads that gains or loses one member.         *)
LEMMA OneThread ==
    ASSUME NEW S \in SUBSET Threads, NEW t \in Threads
    PROVE  /\ Cardinality(S) \in Nat
           /\ t \notin S => Cardinality(S \cup {t}) = Cardinality(S) + 1
           /\ t \in S => Cardinality(S \ {t}) = Cardinality(S) - 1
           /\ Cardinality(S) <= Cardinality(S \cup {t})
  <1>1. IsFiniteSet(Threads)
    BY ConstantsAssumption, FS_Union DEF Threads
  <1>2. IsFiniteSet(S)
    BY <1>1, FS_Subset
  <1>3. Cardinality(S) \in Nat
    BY <1>2, FS_CardinalityType
  <1>4. t \notin S => Cardinality(S \cup {t}) = Cardinality(S) + 1
    BY <1>2, FS_AddElement
  <1>5. t \in S => Cardinality(S \ {t}) = Cardinality(S) - 1
    BY <1>2, FS_RemoveElement
  <1>6. t \in S => S \cup {t} = S
    OBVIOUS
  <1> QED BY <1>3, <1>4, <1>5, <1>6

(* Every step keeps enough threads on their way to the poppers for the elements in the queue. *)
LEMMA ElementsStep ==
    IndInv /\ ElementsCovered /\ [Next]_vars => ElementsCovered'
  <1> SUFFICES ASSUME IndInv, ElementsCovered, [Next]_vars PROVE ElementsCovered'
    OBVIOUS
  <1> DEFINE W == At({"d_wait", "d_waiting"})
             H == TowardsPoppers
  <1>1. /\ ControlTypeOK /\ QueueTypeOK /\ MutexOwners
        /\ QueueTypeOK' /\ W \subseteq Threads /\ H \subseteq Threads
    BY QueueTypeStep DEF IndInv, TypeOK, At, TowardsPoppers
  <1>2. ASSUME NEW t \in Threads, pcq_current_size' = pcq_current_size,
               H' = H \/ H' = H \cup {t}, W' # {} => W # {}
        PROVE  ElementsCovered'
    <2>1. /\ Cardinality(H) \in Nat /\ Cardinality(H') \in Nat
          /\ Cardinality(H) <= Cardinality(H')
      <3>1. H' \subseteq Threads
        BY <1>1, <1>2
      <3>2. Cardinality(H) \in Nat /\ Cardinality(H) <= Cardinality(H \cup {t})
        BY <1>1, OneThread
      <3>3. Cardinality(H') \in Nat
        BY <3>1, OneThread
      <3> HIDE DEF H
      <3> QED BY <1>2, <3>2, <3>3
    <2> QED BY <1>1, <1>2, <2>1 DEF ElementsCovered, QueueTypeOK
  <1> USE ConstantsAssumption DEF ControlTypeOK, QueueTypeOK, Threads, queue
  <1>3. CASE pcq_create
    <2>1. W' = {}
      BY <1>1, <1>3 DEF pcq_create, At
    <2> QED BY <2>1 DEF ElementsCovered
  <1>4. CASE pcq_destroy
    <2>1. W' = {}
      BY <1>1, <1>4 DEF pcq_destroy, At
    <2> QED BY <2>1 DEF ElementsCovered
  <1>5. ASSUME NEW p \in Producers, EnqueueCall(p) PROVE ElementsCovered'
    <2>1. H' = H /\ W' = W /\ pcq_current_size' = pcq_current_size
      BY <1>1, <1>5 DEF EnqueueCall, At, TowardsPoppers
    <2> QED BY <1>2, <2>1
  <1>6. ASSUME NEW p \in Producers, EnqueueIncSize(p) PROVE ElementsCovered'
    <2> USE DEF EnqueueIncSize, Goto, At, TowardsPoppers
    <2>1. H' = H \cup {p} /\ p \notin H /\ W' = W
      BY <1>1, <1>6
    <2>2. Cardinality(H') = Cardinality(H) + 1 /\ Cardinality(H) \in Nat
      BY <1>1, <2>1, OneThread
    <2> QED BY <1>1, <1>6, <2>1, <2>2 DEF ElementsCovered
  <1>7. ASSUME NEW p \in Producers, EnqueueSignal(p) PROVE ElementsCovered'
    <2> USE DEF EnqueueSignal, cond_signal, At
    <2>1. pc[p] = "e_signal" /\ pcq_current_size' = pcq_current_size
      BY <1>7
    <2>2. \A t \in Threads : pc[t] # "d_wait"
      BY <1>1, <2>1 DEF MutexOwners, HoldsPopper
    <2>3. CASE \A w \in Threads : pc[w] # "d_waiting"
      <3>1. W' = {}
        BY <1>1, <1>7, <2>2, <2>3
      <3> QED BY <3>1 DEF ElementsCovered
    <2>4. ASSUME NEW w \in Threads, pc[w] = "d_waiting",
                 pc' = [pc EXCEPT ![p] = "e_unlockPopper", ![w] = "d_relock"]
          PROVE  ElementsCovered'
      <3>1. /\ H' = (H \ {p}) \cup {w} /\ p \in H
            /\ w \notin H \ {p} /\ W # {}
        BY <1>1, <2>1, <2>4 DEF TowardsPoppers
      <3>2. Cardinality(H') = Cardinality(H)
        <4>1. Cardinality(H \ {p}) = Cardinality(H) - 1 /\ Cardinality(H) \in Nat
          BY <1>1, <3>1, OneThread
        <4>2. Cardinality((H \ {p}) \cup {w}) = Cardinality(H \ {p}) + 1
          BY <1>1, <3>1, OneThread
        <4> QED BY <3>1, <4>1, <4>2
      <3> QED BY <2>1, <3>1, <3>2 DEF ElementsCovered
    <2> QED BY <1>7, <2>3, <2>4
  <1>8. ASSUME NEW p \in Producers, pcq_enqueue(p) PROVE ElementsCovered'
    <2>1. CASE EnqueueIncSize(p) \/ EnqueueSignal(p)
      BY <1>6, <1>7, <2>1
    <2>2. CASE ~(EnqueueIncSize(p) \/ EnqueueSignal(p))
      <3>1. H' = H /\ W' = W /\ pcq_current_size' = pcq_current_size
        BY <1>1, <1>8, <2>2 DEF At, TowardsPoppers,
          pcq_enqueue, EnqueueLockPusher, EnqueueLockSize, EnqueueFull,
          EnqueueNotFull, EnqueueWait, EnqueueRelock, EnqueuePut,
          EnqueueUnlockPusher, EnqueueLockPopper, EnqueueReturn,
          mutex_lock, mutex_unlock, cond_wait, Goto
      <3> QED BY <1>2, <3>1
    <2> QED BY <2>1, <2>2
  <1>9. ASSUME NEW c \in Consumers, DequeueCall(c) PROVE ElementsCovered'
    <2>1. H' = H /\ W' = W /\ pcq_current_size' = pcq_current_size
      BY <1>1, <1>9 DEF DequeueCall, At, TowardsPoppers
    <2> QED BY <1>2, <2>1
  <1>10. ASSUME NEW c \in Consumers, DequeueLockPopper(c) \/ DequeueRelock(c)
         PROVE  ElementsCovered'
    <2>1. H' = H \cup {c} /\ W' = W /\ pcq_current_size' = pcq_current_size
      BY <1>1, <1>10 DEF DequeueLockPopper, DequeueRelock, mutex_lock, Goto, At, TowardsPoppers
    <2> QED BY <1>2, <2>1
  <1>11. ASSUME NEW c \in Consumers, DequeueEmpty(c) PROVE ElementsCovered'
    <2>1. pcq_current_size' = 0
      BY <1>11 DEF DequeueEmpty, mutex_unlock
    <2>2. H' \subseteq Threads
      BY DEF At, TowardsPoppers
    <2>3. Cardinality(H') \in Nat
      BY <2>2, OneThread
    <2> QED BY <2>1, <2>3 DEF ElementsCovered
  <1>12. ASSUME NEW c \in Consumers, DequeueDecSize(c) PROVE ElementsCovered'
    <2> USE DEF DequeueDecSize, Goto, At, TowardsPoppers
    <2>1. H' = H \ {c} /\ c \in H /\ W' = W
      BY <1>1, <1>12
    <2>2. Cardinality(H') = Cardinality(H) - 1 /\ Cardinality(H) \in Nat
      BY <1>1, <2>1, OneThread
    <2> QED BY <1>1, <1>12, <2>1, <2>2 DEF ElementsCovered
  <1>13. ASSUME NEW c \in Consumers, pcq_dequeue(c) PROVE ElementsCovered'
    <2>1. CASE DequeueLockPopper(c) \/ DequeueRelock(c) \/ DequeueEmpty(c) \/ DequeueDecSize(c)
      BY <1>10, <1>11, <1>12, <2>1
    <2>2. CASE ~(DequeueLockPopper(c) \/ DequeueRelock(c) \/ DequeueEmpty(c) \/ DequeueDecSize(c))
      <3>1. H' = H /\ W' = W /\ pcq_current_size' = pcq_current_size
        BY <1>1, <1>13, <2>2 DEF At, TowardsPoppers,
          pcq_dequeue, DequeueLockSize, DequeueNotEmpty, DequeueWait, DequeueGet,
          DequeueUnlockPopper, DequeueLockPusher, DequeueSignal, DequeueReturn,
          mutex_lock, mutex_unlock, cond_wait, cond_signal, Goto
      <3> QED BY <1>2, <3>1
    <2> QED BY <2>1, <2>2
  <1>14. ASSUME NEW t \in Threads, SpuriousWakeup(t) PROVE ElementsCovered'
    <2>1. (H' = H \/ H' = H \cup {t}) /\ (W' # {} => W # {})
      BY <1>1, <1>14 DEF SpuriousWakeup, Goto, At, TowardsPoppers
    <2>2. pcq_current_size' = pcq_current_size
      BY <1>14 DEF SpuriousWakeup
    <2> QED BY <1>2, <2>1, <2>2
  <1>15. CASE UNCHANGED vars
    BY <1>15 DEF vars, ElementsCovered, At, TowardsPoppers
  <1> QED BY <1>3, <1>4, <1>5, <1>8, <1>9, <1>13, <1>14, <1>15 DEF Next

(* Every step keeps enough threads on their way to the pushers for the free slots. *)
LEMMA SlotsStep ==
    IndInv /\ SlotsCovered /\ [Next]_vars => SlotsCovered'
  <1> SUFFICES ASSUME IndInv, SlotsCovered, [Next]_vars PROVE SlotsCovered'
    OBVIOUS
  <1> DEFINE W == At({"e_wait", "e_waiting"})
             H == TowardsPushers
  <1>1. /\ ControlTypeOK /\ QueueTypeOK /\ MutexOwners
        /\ QueueTypeOK' /\ W \subseteq Threads /\ H \subseteq Threads
    BY QueueTypeStep DEF IndInv, TypeOK, At, TowardsPushers
  <1>2. ASSUME NEW t \in Threads, pcq_current_size' = pcq_current_size,
               H' = H \/ H' = H \cup {t}, W' # {} => W # {}
        PROVE  SlotsCovered'
    <2>1. /\ Cardinality(H) \in Nat /\ Cardinality(H') \in Nat
          /\ Cardinality(H) <= Cardinality(H')
      <3>1. H' \subseteq Threads
        BY <1>1, <1>2
      <3>2. Cardinality(H) \in Nat /\ Cardinality(H) <= Cardinality(H \cup {t})
        BY <1>1, OneThread
      <3>3. Cardinality(H') \in Nat
        BY <3>1, OneThread
      <3> HIDE DEF H
      <3> QED BY <1>2, <3>2, <3>3
    <2> QED BY ConstantsAssumption, <1>1, <1>2, <2>1 DEF SlotsCovered, QueueTypeOK
  <1> USE ConstantsAssumption DEF ControlTypeOK, QueueTypeOK, Threads, queue
  <1>3. CASE pcq_create
    <2>1. W' = {}
      BY <1>1, <1>3 DEF pcq_create, At
    <2> QED BY <2>1 DEF SlotsCovered
  <1>4. CASE pcq_destroy
    <2>1. W' = {}
      BY <1>1, <1>4 DEF pcq_destroy, At
    <2> QED BY <2>1 DEF SlotsCovered
  <1>5. ASSUME NEW c \in Consumers, DequeueCall(c) PROVE SlotsCovered'
    <2>1. H' = H /\ W' = W /\ pcq_current_size' = pcq_current_size
      BY <1>1, <1>5 DEF DequeueCall, At, TowardsPushers
    <2> QED BY <1>2, <2>1
  <1>6. ASSUME NEW c \in Consumers, DequeueDecSize(c) PROVE SlotsCovered'
    <2> USE DEF DequeueDecSize, Goto, At, TowardsPushers
    <2>1. H' = H \cup {c} /\ c \notin H /\ W' = W
      BY <1>1, <1>6
    <2>2. Cardinality(H') = Cardinality(H) + 1 /\ Cardinality(H) \in Nat
      BY <1>1, <2>1, OneThread
    <2> QED BY <1>1, <1>6, <2>1, <2>2 DEF SlotsCovered
  <1>7. ASSUME NEW c \in Consumers, DequeueSignal(c) PROVE SlotsCovered'
    <2> USE DEF DequeueSignal, cond_signal, At
    <2>1. pc[c] = "d_signal" /\ pcq_current_size' = pcq_current_size
      BY <1>7
    <2>2. \A t \in Threads : pc[t] # "e_wait"
      BY <1>1, <2>1 DEF MutexOwners, HoldsPusher
    <2>3. CASE \A w \in Threads : pc[w] # "e_waiting"
      <3>1. W' = {}
        BY <1>1, <1>7, <2>2, <2>3
      <3> QED BY <3>1 DEF SlotsCovered
    <2>4. ASSUME NEW w \in Threads, pc[w] = "e_waiting",
                 pc' = [pc EXCEPT ![c] = "d_unlockPusher", ![w] = "e_relock"]
          PROVE  SlotsCovered'
      <3>1. /\ H' = (H \ {c}) \cup {w} /\ c \in H
            /\ w \notin H \ {c} /\ W # {}
        BY <1>1, <2>1, <2>4 DEF TowardsPushers
      <3>2. Cardinality(H') = Cardinality(H)
        <4>1. Cardinality(H \ {c}) = Cardinality(H) - 1 /\ Cardinality(H) \in Nat
          BY <1>1, <3>1, OneThread
        <4>2. Cardinality((H \ {c}) \cup {w}) = Cardinality(H \ {c}) + 1
          BY <1>1, <3>1, OneThread
        <4> QED BY <3>1, <4>1, <4>2
      <3> QED BY <2>1, <3>1, <3>2 DEF SlotsCovered
    <2> QED BY <1>7, <2>3, <2>4
  <1>8. ASSUME NEW c \in Consumers, pcq_dequeue(c) PROVE SlotsCovered'
    <2>1. CASE DequeueDecSize(c) \/ DequeueSignal(c)
      BY <1>6, <1>7, <2>1
    <2>2. CASE ~(DequeueDecSize(c) \/ DequeueSignal(c))
      <3>1. H' = H /\ W' = W /\ pcq_current_size' = pcq_current_size
        BY <1>1, <1>8, <2>2 DEF At, TowardsPushers,
          pcq_dequeue, DequeueLockPopper, DequeueLockSize, DequeueEmpty,
          DequeueNotEmpty, DequeueWait, DequeueRelock, DequeueGet,
          DequeueUnlockPopper, DequeueLockPusher, DequeueReturn,
          mutex_lock, mutex_unlock, cond_wait, Goto
      <3> QED BY <1>2, <3>1
    <2> QED BY <2>1, <2>2
  <1>9. ASSUME NEW p \in Producers, EnqueueCall(p) PROVE SlotsCovered'
    <2>1. H' = H /\ W' = W /\ pcq_current_size' = pcq_current_size
      BY <1>1, <1>9 DEF EnqueueCall, At, TowardsPushers
    <2> QED BY <1>2, <2>1
  <1>10. ASSUME NEW p \in Producers, EnqueueLockPusher(p) \/ EnqueueRelock(p)
         PROVE  SlotsCovered'
    <2>1. H' = H \cup {p} /\ W' = W /\ pcq_current_size' = pcq_current_size
      BY <1>1, <1>10 DEF EnqueueLockPusher, EnqueueRelock, mutex_lock, Goto, At, TowardsPushers
    <2> QED BY <1>2, <2>1
  <1>11. ASSUME NEW p \in Producers, EnqueueFull(p) PROVE SlotsCovered'
    <2>1. pcq_current_size' = Capacity
      BY <1>11 DEF EnqueueFull, mutex_unlock
    <2>2. H' \subseteq Threads
      BY DEF At, TowardsPushers
    <2>3. Cardinality(H') \in Nat
      BY <2>2, OneThread
    <2> QED BY <2>1, <2>3 DEF SlotsCovered
  <1>12. ASSUME NEW p \in Producers, EnqueueIncSize(p) PROVE SlotsCovered'
    <2> USE DEF EnqueueIncSize, Goto, At, TowardsPushers
    <2>1. H' = H \ {p} /\ p \in H /\ W' = W
      BY <1>1, <1>12
    <2>2. Cardinality(H') = Cardinality(H) - 1 /\ Cardinality(H) \in Nat
      BY <1>1, <2>1, OneThread
    <2> QED BY <1>1, <1>12, <2>1, <2>2 DEF SlotsCovered
  <1>13. ASSUME NEW p \in Producers, pcq_enqueue(p) PROVE SlotsCovered'
    <2>1. CASE EnqueueLockPusher(p) \/ EnqueueRelock(p) \/ EnqueueFull(p) \/ EnqueueIncSize(p)
      BY <1>10, <1>11, <1>12, <2>1
    <2>2. CASE ~(EnqueueLockPusher(p) \/ EnqueueRelock(p) \/ EnqueueFull(p) \/ EnqueueIncSize(p))
      <3>1. H' = H /\ W' = W /\ pcq_current_size' = pcq_current_size
        BY <1>1, <1>13, <2>2 DEF At, TowardsPushers,
          pcq_enqueue, EnqueueLockSize, EnqueueNotFull, EnqueueWait, EnqueuePut,
          EnqueueUnlockPusher, EnqueueLockPopper, EnqueueSignal, EnqueueReturn,
          mutex_lock, mutex_unlock, cond_wait, cond_signal, Goto
      <3> QED BY <1>2, <3>1
    <2> QED BY <2>1, <2>2
  <1>14. ASSUME NEW t \in Threads, SpuriousWakeup(t) PROVE SlotsCovered'
    <2>1. (H' = H \/ H' = H \cup {t}) /\ (W' # {} => W # {})
      BY <1>1, <1>14 DEF SpuriousWakeup, Goto, At, TowardsPushers
    <2>2. pcq_current_size' = pcq_current_size
      BY <1>14 DEF SpuriousWakeup
    <2> QED BY <1>2, <2>1, <2>2
  <1>15. CASE UNCHANGED vars
    BY <1>15 DEF vars, SlotsCovered, At, TowardsPushers
  <1> QED BY <1>3, <1>4, <1>5, <1>8, <1>9, <1>13, <1>14, <1>15 DEF Next

(* A wake-up is never lost: while a consumer waits and the queue holds elements, as many threads
   are on their way to take or announce them, and likewise for producers and free slots.  One
   pthread_cond_signal per call is enough, although the test of the size is made before the
   waiter is on the condition variable. *)
THEOREM NoLostWakeups == Spec => []NoLostWakeup
  <1>1. Init => NoLostWakeup
    BY DEF Init, NoLostWakeup, ElementsCovered, SlotsCovered, At, Threads
  <1>2. IndInv /\ NoLostWakeup /\ [Next]_vars => NoLostWakeup'
    BY ElementsStep, SlotsStep DEF NoLostWakeup
  <1> QED BY <1>1, <1>2, Invariance, PTL DEF Spec
=============================================================================
