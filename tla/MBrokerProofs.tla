--------------------------- MODULE MBrokerProofs ---------------------------
(***************************************************************************)
(* Proofs about module MBroker, for every number of workers, boxes, slots  *)
(* and requests.                                                           *)
(*                                                                         *)
(* BrokerInv holds of every instance.  CreatedOnceInv needs that no name   *)
(* is created twice, NeverRemovedInv also that no box is removed: the code *)
(* does not keep OnePublisher, NoMissedMessage and DeliveredInOrder        *)
(* otherwise.                                                              *)
(***************************************************************************)
EXTENDS MBroker, FiniteSetTheorems, TLAPS

-----------------------------------------------------------------------------
(* The inductive invariant of every instance                               *)

Creating == {"c_exists", "c_create", "c_claim", "c_clear", "c_fill", "c_close"}
Removing == {"r_delete", "r_free", "r_unlink"}
Listing == {"l_open", "l_scan"}
Session == PubSession \cup SubSession
Closing == {"p_close", "s_close"}
HasSlot == Session \cup {"p_register", "s_register", "c_clear", "c_fill", "r_free"}

Packet == [last : BOOLEAN, name : BoxNames \cup {NULL}]
Locals ==
    [request : Requests \cup {NULL}, box_i : Int, box_f : Files \cup {NoFile}, offset : Nat,
     message : Nat, return_code : {0, -1}, delivered : Seq(Nat), packets : Seq(Packet)]
Box ==
    [name : BoxNames \cup {NULL}, size : 0 .. Uint64 - 1, n_publishers : 0 .. Uint64 - 1,
     n_subscribers : 0 .. Uint64 - 1]

\* What a worker's local variables hold, by the label it is at.
SetAt(at, l) ==
    /\ at = "idle" => l = NoLocals
    /\ at # "idle" => l.request \in Requests
    /\ at \in Creating => l.request.code = "CREATE"
    /\ at \in Removing => l.request.code = "REMOVE"
    /\ at \notin Listing \cup {"idle"} => l.request.box_name \in BoxNames
    /\ at \in HasSlot => l.box_i \in Slots
    /\ at = "l_scan" => l.box_i \in 0 .. InodeCount
    /\ at \notin HasSlot \cup {"l_scan"} => l.box_i \in Slots \cup {-1}
    /\ at \in Session => l.box_f \in Files
    /\ at \notin Session \cup Closing => l.offset = 0 /\ l.delivered = << >>
    /\ at # "l_scan" => l.packets = << >>
    /\ at \in {"p_check", "p_write"} => l.message > 0

TablesOK ==
    /\ n_boxes \in Int
    /\ boxes_table \in [Slots -> Box]
    /\ free_boxes \in [Slots -> {"FREE", "TAKEN"}]
    /\ box_mutex \in [Slots -> Workers \cup {NULL}]
    /\ box_cond \in [Slots -> SUBSET Workers]
    /\ boxes_rd \subseteq Workers
    /\ boxes_wr \in Workers \cup {NULL}

\* A handle's offset is not beyond the end of its file.
FilesOK ==
    /\ tfs_dir \in [BoxNames -> Files \cup {NoFile}]
    /\ tfs_data \in [Files -> Seq(Nat)]
    /\ published \in [Files -> Seq(Nat)]
    /\ \A f \in Files :
           /\ Len(tfs_data[f]) <= BoxCapacity
           /\ \A k \in 1 .. Len(tfs_data[f]) : tfs_data[f][k] \in 1 .. n_messages
    /\ \A w \in Workers :
           pc[w] \in Session => loc[w].offset <= Len(tfs_data[loc[w].box_f])

RequestsOK ==
    /\ requests_queue \in Seq(Requests)
    /\ \A k \in 1 .. Len(requests_queue) : requests_queue[k] \in sent
    /\ sent \subseteq Requests /\ gone \subseteq sent
    /\ answers \in [Requests -> {NULL, 0, -1}]
    /\ n_messages \in Nat

WorkersOK ==
    /\ pc \in [Workers -> Labels]
    /\ loc \in [Workers -> Locals]
    /\ \A w \in Workers : /\ SetAt(pc[w], loc[w])
                          /\ loc[w].request \in sent \cup {NULL}
                          /\ loc[w].message <= n_messages

TypeInv == TablesOK /\ FilesOK /\ RequestsOK /\ WorkersOK

\* free_boxes_lock is held by those that list or delete a box; a deletion does not
\* release it before it has freed the slot.
LocksHeld ==
    /\ \A w \in Workers : /\ boxes_wr = w <=> pc[w] = "r_free"
                          /\ w \in boxes_rd <=> pc[w] = "l_scan"
                          /\ pc[w] = "r_free" => free_boxes[loc[w].box_i] = "TAKEN"
    /\ boxes_wr # NULL => boxes_rd = {}

Taken == {i \in Slots : free_boxes[i] = "TAKEN"}
BoxesCounted == n_boxes = Cardinality(Taken)

\* At most one worker serves a publisher on a slot, and n_publishers tells.
PublishersCounted ==
    /\ \A w, x \in Workers :
           pc[w] \in PubSession /\ pc[x] \in PubSession /\ loc[w].box_i = loc[x].box_i => w = x
    /\ \A i \in Slots : boxes_table[i].n_publishers \in {0, 1}
    /\ \A w \in Workers : pc[w] \in PubSession => boxes_table[loc[w].box_i].n_publishers = 1
    /\ \A i \in Slots : boxes_table[i].n_publishers = 1 =>
           \E w \in Workers : pc[w] \in PubSession /\ loc[w].box_i = i

\* A listing has sent a packet for each box below the slot it looks at, or the empty
\* one when there are no boxes.
ListingCounted ==
    \A w \in Workers : pc[w] = "l_scan" =>
        LET p == loc[w].packets
        IN  /\ n_boxes = 0 => Len(p) = loc[w].box_i /\ Len(p) <= 1
            /\ n_boxes > 0 => Len(p) = Cardinality({i \in Taken : i < loc[w].box_i})
            /\ \A k \in 1 .. Len(p) : p[k].last <=> (n_boxes = 0 \/ k = n_boxes)

BrokerInv == TypeInv /\ LocksHeld /\ BoxesCounted /\ PublishersCounted /\ ListingCounted
-----------------------------------------------------------------------------
(* The inductive invariant of files and requests                           *)

\* Two names never share a file, not even while one of them has it open only.
FilesApart ==
    /\ \A m, n \in BoxNames : tfs_dir[m] = tfs_dir[n] /\ tfs_dir[m] # NoFile => m = n
    /\ \A w \in Workers, n \in BoxNames :
           loc[w].box_f # NoFile /\ tfs_dir[n] = loc[w].box_f => n = Name(w)
    /\ \A w, x \in Workers :
           loc[w].box_f # NoFile /\ loc[x].box_f = loc[w].box_f => Name(w) = Name(x)

\* A request is in one place.
RequestsOnce ==
    /\ \A j, k \in 1 .. Len(requests_queue) : requests_queue[j] = requests_queue[k] => j = k
    /\ \A k \in 1 .. Len(requests_queue), w \in Workers : requests_queue[k] # loc[w].request
    /\ \A w, x \in Workers :
           loc[w].request # NULL /\ loc[x].request = loc[w].request => w = x

\* The creation r has not named its box yet.
Unnamed(r) ==
    \/ r \notin sent
    \/ \E k \in 1 .. Len(requests_queue) : requests_queue[k] = r
    \/ \E w \in Workers : loc[w].request = r /\ pc[w] \in Creating \ {"c_close"}

\* The worker works on a box that it found by its name.
Found(w) == pc[w] \in Session \cup {"p_register", "s_register"}

\* A name that is created once is written in one slot, and those who look for it find
\* that slot, even when they use it after the removal of the box.
OneSlot ==
    /\ \A r \in Requests : r.code = "CREATE" /\ Unnamed(r) =>
           /\ \A i \in Slots : boxes_table[i].name # r.box_name
           /\ \A w \in Workers : Found(w) => Name(w) # r.box_name
    /\ \A i, j \in Slots :
           boxes_table[i].name \in BoxNames /\ boxes_table[j].name = boxes_table[i].name => i = j
    /\ \A i \in Slots, w \in Workers :
           Found(w) /\ boxes_table[i].name = Name(w) => loc[w].box_i = i
    /\ \A w, x \in Workers : Found(w) /\ Found(x) /\ Name(w) = Name(x) =>
           loc[w].box_i = loc[x].box_i

\* The mutexes that a subscriber or a creation holds across steps.
Holding == {"s_test", "s_wait", "c_fill"}
MutexesHeld == \A w \in Workers : pc[w] \in Holding => box_mutex[loc[w].box_i] = w

Waiting ==
    \A i \in Slots : \A w \in box_cond[i] : pc[w] = "s_waiting" /\ loc[w].box_i = i

\* A publisher that is about to broadcast to w.
Waker(w, x) ==
    pc[x] = "p_update" /\ loc[x].box_i = loc[w].box_i /\ loc[x].box_f = loc[w].box_f

\* A subscriber that has decided to wait, or waits, misses nothing.
Waits(w) == pc[w] = "s_wait" \/ (pc[w] = "s_waiting" /\ w \in box_cond[loc[w].box_i])
NothingMissed ==
    \A w \in Workers : Waits(w) /\ Unread(w) => \E x \in Workers : Waker(w, x)

\* Publishers write at the end of the file: what they wrote is still there.
Appending ==
    /\ published = tfs_data
    /\ \A w \in Workers :
           pc[w] \in PubSession => loc[w].offset = Len(tfs_data[loc[w].box_f])

BoxesStay == \A w \in Workers : Found(w) => free_boxes[loc[w].box_i] = "TAKEN"

\* A subscriber with locals l has sent what it has read of file s, but for the message in
\* hand.
Ordered(at, l, s) ==
    LET d == l.delivered
        o == l.offset
    IN  /\ Len(d) <= o
        /\ \A k \in 1 .. Len(d) : d[k] = s[k]
        /\ at \in {"s_check", "s_send"} => o > 0 /\ Len(d) = o - 1 /\ l.message = s[o]
        /\ at \notin {"s_check", "s_send", "s_leave"} => Len(d) = o
InOrder ==
    \A w \in Workers :
        pc[w] \in SubSession => Ordered(pc[w], loc[w], tfs_data[loc[w].box_f])
-----------------------------------------------------------------------------
(* How the steps move a worker                                             *)

\* Worker w goes from one label to another; its locals become r.
Moves(w, from, to, r) ==
    /\ pc[w] = from
    /\ pc' = [pc EXCEPT ![w] = to]
    /\ loc' = [loc EXCEPT ![w] = r]

Finds(w, from, to) ==
    \/ Moves(w, from, "idle", NoLocals)
    \/ /\ Matching(Name(w)) # {}
       /\ Moves(w, from, to, [loc[w] EXCEPT !.box_i = First(Matching(Name(w)))])

Reads(w, from, to) ==
    /\ Unread(w)
    /\ Moves(w, from, to, [loc[w] EXCEPT
           !.message = tfs_data[loc[w].box_f][loc[w].offset + 1], !.offset = @ + 1])

\* Where the reception and the steps of a publisher's session go, and what they leave in
\* the locals of the worker.
LEMMA PubMoves ==
    ASSUME loc \in [Workers -> Locals], NEW w \in Workers
    PROVE  /\ workers_reception(w) => Moves(w, "idle", Handler[Head(requests_queue).code],
                  [loc[w] EXCEPT !.request = Head(requests_queue)])
           /\ PubFind(w) => Finds(w, "p_find", "p_register")
           /\ PubRegister(w) =>
                  \/ Moves(w, "p_register", "idle", NoLocals)
                  \/ /\ ~PubRefused(w)
                     /\ Moves(w, "p_register", "p_code", [loc[w] EXCEPT
                            !.box_f = tfs_dir[Name(w)], !.offset = Len(tfs_data[tfs_dir[Name(w)]])])
           /\ PubCode(w) =>
                  \/ Moves(w, "p_code", "p_leave", loc[w]) /\ UNCHANGED n_messages
                  \/ /\ Moves(w, "p_code", "p_check", [loc[w] EXCEPT !.message = n_messages + 1])
                     /\ n_messages' = n_messages + 1
           /\ PubCheck(w) =>
                  Moves(w, "p_check", "p_write", loc[w]) \/ Moves(w, "p_check", "p_leave", loc[w])
           /\ PubWrite(w) =>
                  \/ Moves(w, "p_write", "p_leave", loc[w])
                  \/ Moves(w, "p_write", "p_update", [loc[w] EXCEPT !.offset = @ + 1])
           /\ PubUpdate(w) => Moves(w, "p_update", "p_code", loc[w])
           /\ PubLeave(w) => Moves(w, "p_leave", "p_close", loc[w])
           /\ tfs_close(w, "p_close") => Moves(w, "p_close", "idle", NoLocals)
  <1>1. UNCHANGED loc => loc' = [loc EXCEPT ![w] = loc[w]]
    OBVIOUS
  <1>2. workers_reception(w) => Moves(w, "idle", Handler[Head(requests_queue).code],
                  [loc[w] EXCEPT !.request = Head(requests_queue)])
    BY Zenon DEF workers_reception, Moves, Goto
  <1>3. PubFind(w) => Finds(w, "p_find", "p_register")
    BY Zenon DEF PubFind, box_find, Finds, Moves, Goto, Return
  <1>4. PubRegister(w) =>
                  \/ Moves(w, "p_register", "idle", NoLocals)
                  \/ /\ ~PubRefused(w)
                     /\ Moves(w, "p_register", "p_code", [loc[w] EXCEPT
                            !.box_f = tfs_dir[Name(w)], !.offset = Len(tfs_data[tfs_dir[Name(w)]])])
    BY Zenon DEF PubRegister, Moves, Goto, Return
  <1>5. PubCode(w) =>
                  \/ Moves(w, "p_code", "p_leave", loc[w]) /\ UNCHANGED n_messages
                  \/ /\ Moves(w, "p_code", "p_check", [loc[w] EXCEPT !.message = n_messages + 1])
                     /\ n_messages' = n_messages + 1
    BY <1>1, Zenon DEF PubCode, Moves, Goto
  <1>6. PubCheck(w) =>
                  Moves(w, "p_check", "p_write", loc[w]) \/ Moves(w, "p_check", "p_leave", loc[w])
    BY <1>1, Zenon DEF PubCheck, Moves, Goto
  <1>7. PubWrite(w) =>
                  \/ Moves(w, "p_write", "p_leave", loc[w])
                  \/ Moves(w, "p_write", "p_update", [loc[w] EXCEPT !.offset = @ + 1])
    BY <1>1, Zenon DEF PubWrite, Moves, Goto
  <1>8. PubUpdate(w) => Moves(w, "p_update", "p_code", loc[w])
    BY <1>1, Zenon DEF PubUpdate, Moves, Goto
  <1>9. PubLeave(w) => Moves(w, "p_leave", "p_close", loc[w])
    BY <1>1, Zenon DEF PubLeave, Leave, Moves, Goto
  <1>10. tfs_close(w, "p_close") => Moves(w, "p_close", "idle", NoLocals)
    BY Zenon DEF tfs_close, Moves, Goto, Return
  <1> QED BY <1>2, <1>3, <1>4, <1>5, <1>6, <1>7, <1>8, <1>9, <1>10

\* The same of a subscriber's session.
LEMMA SubMoves ==
    ASSUME loc \in [Workers -> Locals], NEW w \in Workers
    PROVE  /\ SubFind(w) => Finds(w, "s_find", "s_register")
           /\ SubRegister(w) =>
                  \/ Moves(w, "s_register", "idle", NoLocals)
                  \/ /\ tfs_dir[Name(w)] # NoFile
                     /\ Moves(w, "s_register", "s_lock", [loc[w] EXCEPT !.box_f = tfs_dir[Name(w)]])
           /\ SubLock(w) => Moves(w, "s_lock", "s_test", loc[w])
           /\ SubTest(w) =>
                  \/ Moves(w, "s_test", "s_wait", loc[w]) /\ ~Unread(w)
                  \/ Reads(w, "s_test", "s_check")
                  \/ Moves(w, "s_test", "s_check", loc[w]) /\ free_boxes[loc[w].box_i] = "FREE"
           /\ SubWait(w) => Moves(w, "s_wait", "s_waiting", loc[w])
           /\ SubWake(w) => Moves(w, "s_waiting", "s_test", loc[w])
           /\ SubCheck(w) =>
                  Moves(w, "s_check", "s_send", loc[w]) \/ Moves(w, "s_check", "s_leave", loc[w])
           /\ SubSend(w) =>
                  \/ Moves(w, "s_send", "s_leave", loc[w])
                  \/ Moves(w, "s_send", "s_more",
                         [loc[w] EXCEPT !.delivered = Append(@, loc[w].message)])
           /\ SubMore(w) => Reads(w, "s_more", "s_send") \/ Moves(w, "s_more", "s_lock", loc[w])
           /\ SubLeave(w) => Moves(w, "s_leave", "s_close", loc[w])
           /\ tfs_close(w, "s_close") => Moves(w, "s_close", "idle", NoLocals)
  <1>1. UNCHANGED loc => loc' = [loc EXCEPT ![w] = loc[w]]
    OBVIOUS
  <1>2. SubFind(w) => Finds(w, "s_find", "s_register")
    BY Zenon DEF SubFind, box_find, Finds, Moves, Goto, Return
  <1>3. SubRegister(w) =>
                  \/ Moves(w, "s_register", "idle", NoLocals)
                  \/ /\ tfs_dir[Name(w)] # NoFile
                     /\ Moves(w, "s_register", "s_lock", [loc[w] EXCEPT !.box_f = tfs_dir[Name(w)]])
    BY Zenon DEF SubRegister, Moves, Goto, Return
  <1>4. SubLock(w) => Moves(w, "s_lock", "s_test", loc[w])
    BY <1>1, Zenon DEF SubLock, Moves, Goto
  <1>5. SubTest(w) =>
                  \/ Moves(w, "s_test", "s_wait", loc[w]) /\ ~Unread(w)
                  \/ Reads(w, "s_test", "s_check")
                  \/ Moves(w, "s_test", "s_check", loc[w]) /\ free_boxes[loc[w].box_i] = "FREE"
    BY <1>1, Zenon DEF SubTest, tfs_read, Reads, Moves, Goto
  <1>6. SubWait(w) => Moves(w, "s_wait", "s_waiting", loc[w])
    BY <1>1, Zenon DEF SubWait, Moves, Goto
  <1>7. SubWake(w) => Moves(w, "s_waiting", "s_test", loc[w])
    BY <1>1, Zenon DEF SubWake, Moves, Goto
  <1>8. SubCheck(w) =>
                  Moves(w, "s_check", "s_send", loc[w]) \/ Moves(w, "s_check", "s_leave", loc[w])
    BY <1>1, Zenon DEF SubCheck, Moves, Goto
  <1>9. SubSend(w) =>
                  \/ Moves(w, "s_send", "s_leave", loc[w])
                  \/ Moves(w, "s_send", "s_more",
                         [loc[w] EXCEPT !.delivered = Append(@, loc[w].message)])
    BY <1>1, Zenon DEF SubSend, Moves, Goto
  <1>10. SubMore(w) => Reads(w, "s_more", "s_send") \/ Moves(w, "s_more", "s_lock", loc[w])
    BY <1>1, Zenon DEF SubMore, tfs_read, Reads, Moves, Goto
  <1>11. SubLeave(w) => Moves(w, "s_leave", "s_close", loc[w])
    BY <1>1, Zenon DEF SubLeave, Leave, Moves, Goto
  <1>12. tfs_close(w, "s_close") => Moves(w, "s_close", "idle", NoLocals)
    BY Zenon DEF tfs_close, Moves, Goto, Return
  <1> QED BY <1>2, <1>3, <1>4, <1>5, <1>6, <1>7, <1>8, <1>9, <1>10, <1>11, <1>12

\* The same of the managers' requests.
LEMMA ManagerMoves ==
    ASSUME loc \in [Workers -> Locals], NEW w \in Workers
    PROVE  /\ CreateExists(w) =>
                  \/ Moves(w, "c_exists", "c_close",
                         [loc[w] EXCEPT !.box_f = tfs_dir[Name(w)], !.return_code = -1])
                  \/ Moves(w, "c_exists", "c_create", loc[w])
           /\ CreateFile(w) =>
                  \/ Moves(w, "c_create", "c_close", [loc[w] EXCEPT !.return_code = -1])
                  \/ \E f : /\ tfs_dir' = [tfs_dir EXCEPT ![Name(w)] = f]
                            /\ Moves(w, "c_create", "c_claim", [loc[w] EXCEPT !.box_f = f])
           /\ BoxClaim(w) =>
                  \/ Moves(w, "c_claim", "c_close", [loc[w] EXCEPT !.return_code = -1])
                  \/ /\ \E i \in Slots : free_boxes[i] = "FREE"
                     /\ Moves(w, "c_claim", "c_clear", [loc[w] EXCEPT
                            !.box_i = First({j \in Slots : free_boxes[j] = "FREE"})])
           /\ BoxClear(w) => Moves(w, "c_clear", "c_fill", loc[w])
           /\ BoxFill(w) => Moves(w, "c_fill", "c_close", [loc[w] EXCEPT !.return_code = 0])
           /\ CreateClose(w) => Moves(w, "c_close", "m_answer", [loc[w] EXCEPT !.box_f = NoFile])
           /\ BoxMissing(w) => Moves(w, "r_delete", "m_answer", [loc[w] EXCEPT !.return_code = -1])
           /\ BoxFound(w) =>
                  /\ Matching(Name(w)) # {}
                  /\ Moves(w, "r_delete", "r_free",
                         [loc[w] EXCEPT !.box_i = First(Matching(Name(w)))])
           /\ BoxFree(w) => Moves(w, "r_free", "r_unlink", loc[w])
           /\ RemoveUnlink(w) => \E c \in {0, -1} :
                  Moves(w, "r_unlink", "m_answer", [loc[w] EXCEPT !.return_code = c])
           /\ ManagerAnswer(w) => Moves(w, "m_answer", "idle", NoLocals)
           /\ ListOpen(w) => Moves(w, "l_open", "l_scan", [loc[w] EXCEPT !.box_i = 0])
           /\ ListPacket(w) =>
                  \/ Moves(w, "l_scan", "idle", NoLocals)
                  \/ Moves(w, "l_scan", "l_scan", [loc[w] EXCEPT !.box_i = @ + 1,
                         !.packets = Append(@,
                             [last |-> n_boxes = 0 \/ Len(loc[w].packets) + 1 = n_boxes,
                              name |-> IF n_boxes = 0 THEN NULL
                                       ELSE boxes_table[loc[w].box_i].name])])
           /\ ListSkip(w) => Moves(w, "l_scan", "l_scan", [loc[w] EXCEPT !.box_i = @ + 1])
           /\ ListEnd(w) => Moves(w, "l_scan", "idle", NoLocals)
  <1>1. UNCHANGED loc => loc' = [loc EXCEPT ![w] = loc[w]]
    OBVIOUS
  <1>2. CreateExists(w) =>
                  \/ Moves(w, "c_exists", "c_close",
                         [loc[w] EXCEPT !.box_f = tfs_dir[Name(w)], !.return_code = -1])
                  \/ Moves(w, "c_exists", "c_create", loc[w])
    BY <1>1, Zenon DEF CreateExists, Moves, Goto
  <1>3. CreateFile(w) =>
                  \/ Moves(w, "c_create", "c_close", [loc[w] EXCEPT !.return_code = -1])
                  \/ \E f : /\ tfs_dir' = [tfs_dir EXCEPT ![Name(w)] = f]
                            /\ Moves(w, "c_create", "c_claim", [loc[w] EXCEPT !.box_f = f])
    BY Zenon DEF CreateFile, Outcome, Moves, Goto
  <1>4. BoxClaim(w) =>
                  \/ Moves(w, "c_claim", "c_close", [loc[w] EXCEPT !.return_code = -1])
                  \/ /\ \E i \in Slots : free_boxes[i] = "FREE"
                     /\ Moves(w, "c_claim", "c_clear", [loc[w] EXCEPT
                            !.box_i = First({j \in Slots : free_boxes[j] = "FREE"})])
    BY Zenon DEF BoxClaim, First, Outcome, Moves, Goto
  <1>5. BoxClear(w) => Moves(w, "c_clear", "c_fill", loc[w])
    BY <1>1, Zenon DEF BoxClear, Moves, Goto
  <1>6. BoxFill(w) => Moves(w, "c_fill", "c_close", [loc[w] EXCEPT !.return_code = 0])
    BY Zenon DEF BoxFill, Outcome, Moves, Goto
  <1>7. CreateClose(w) => Moves(w, "c_close", "m_answer", [loc[w] EXCEPT !.box_f = NoFile])
    BY Zenon DEF CreateClose, Moves, Goto
  <1>8. BoxMissing(w) => Moves(w, "r_delete", "m_answer", [loc[w] EXCEPT !.return_code = -1])
    BY Zenon DEF BoxMissing, Outcome, Moves, Goto
  <1>9. BoxFound(w) =>
                  /\ Matching(Name(w)) # {}
                  /\ Moves(w, "r_delete", "r_free",
                         [loc[w] EXCEPT !.box_i = First(Matching(Name(w)))])
    BY Zenon DEF BoxFound, Moves, Goto
  <1>10. BoxFree(w) => Moves(w, "r_free", "r_unlink", loc[w])
    BY <1>1, Zenon DEF BoxFree, Moves, Goto
  <1>11. RemoveUnlink(w) => \E c \in {0, -1} :
                  Moves(w, "r_unlink", "m_answer", [loc[w] EXCEPT !.return_code = c])
    BY Zenon DEF RemoveUnlink, Outcome, Moves, Goto
  <1>12. ManagerAnswer(w) => Moves(w, "m_answer", "idle", NoLocals)
    BY Zenon DEF ManagerAnswer, Moves, Goto, Return
  <1>13. ListOpen(w) => Moves(w, "l_open", "l_scan", [loc[w] EXCEPT !.box_i = 0])
    BY Zenon DEF ListOpen, Moves, Goto
  <1>14. ListPacket(w) =>
                  \/ Moves(w, "l_scan", "idle", NoLocals)
                  \/ Moves(w, "l_scan", "l_scan", [loc[w] EXCEPT !.box_i = @ + 1,
                         !.packets = Append(@,
                             [last |-> n_boxes = 0 \/ Len(loc[w].packets) + 1 = n_boxes,
                              name |-> IF n_boxes = 0 THEN NULL
                                       ELSE boxes_table[loc[w].box_i].name])])
    BY Zenon DEF ListPacket, Moves, Goto, Return
  <1>15. ListSkip(w) => Moves(w, "l_scan", "l_scan", [loc[w] EXCEPT !.box_i = @ + 1])
    BY Zenon DEF ListSkip, Moves, Goto
  <1>16. ListEnd(w) => Moves(w, "l_scan", "idle", NoLocals)
    BY Zenon DEF ListEnd, Moves, Goto, Return
  <1> QED BY <1>2, <1>3, <1>4, <1>5, <1>6, <1>7, <1>8, <1>9, <1>10, <1>11, <1>12, <1>13, <1>14,
             <1>15, <1>16

\* Only the worker of the step moves.
LEMMA MovedWorker ==
    ASSUME pc \in [Workers -> Labels], loc \in [Workers -> Locals], NEW w \in Workers,
           NEW from, NEW to, NEW r, Moves(w, from, to, r)
    PROVE  /\ pc[w] = from /\ pc'[w] = to /\ loc'[w] = r
           /\ DOMAIN pc' = Workers /\ DOMAIN loc' = Workers
           /\ \A x \in Workers : x # w => pc'[x] = pc[x] /\ loc'[x] = loc[x]
           /\ to \in Labels => pc' \in [Workers -> Labels]
           /\ r \in Locals => loc' \in [Workers -> Locals]
  BY DEF Moves
-----------------------------------------------------------------------------
(* What the steps of a worker leave alone                                  *)

Works(w) == workers_reception(w) \/ Step(w)

\* The steps that change the count and the map of the boxes, their table, its locks ...
Untouched(w) ==
    /\ BoxClaim(w) \/ BoxFree(w) \/ UNCHANGED <<n_boxes, free_boxes>>
    /\ \/ PubRegister(w) \/ PubUpdate(w) \/ PubLeave(w) \/ SubRegister(w) \/ SubLeave(w)
       \/ BoxClear(w) \/ BoxFill(w)
       \/ UNCHANGED boxes_table
    /\ BoxFound(w) \/ BoxFree(w) \/ UNCHANGED boxes_wr
    /\ ListOpen(w) \/ ListPacket(w) \/ ListEnd(w) \/ UNCHANGED boxes_rd
    /\ \/ SubRegister(w) \/ SubLock(w) \/ SubTest(w) \/ SubWait(w) \/ SubWake(w)
       \/ BoxClear(w) \/ BoxFill(w)
       \/ UNCHANGED box_mutex
    /\ PubUpdate(w) \/ SubWait(w) \/ BoxFree(w) \/ UNCHANGED box_cond

\* ... and those that change the files, the queue and what clients see.
UntouchedFiles(w) ==
    /\ PubWrite(w) \/ CreateFile(w) \/ UNCHANGED <<tfs_data, published>>
    /\ CreateFile(w) \/ RemoveUnlink(w) \/ UNCHANGED tfs_dir
    /\ workers_reception(w) \/ UNCHANGED requests_queue
    /\ PubCode(w) \/ UNCHANGED n_messages
    /\ ManagerAnswer(w) \/ UNCHANGED answers
    /\ UNCHANGED <<sent, gone, spurious>>

\* The reception and a publisher's session keep to those frames,
LEMMA PubFrames ==
    ASSUME NEW w \in Workers, workers_reception(w) \/ workers_handle_pub_register(w)
    PROVE  Untouched(w) /\ UntouchedFiles(w)
  <1> USE DEF Untouched, UntouchedFiles, boxes, locks, tfs, clients
  <1>1. CASE workers_reception(w)
    BY <1>1, Zenon DEF workers_reception
  <1>2. CASE PubFind(w) \/ tfs_close(w, "p_close")
    BY <1>2, Zenon DEF PubFind, box_find, tfs_close
  <1>3. CASE PubRegister(w) \/ PubCode(w) \/ PubCheck(w)
    BY <1>3, Zenon DEF PubRegister, PubCode, PubCheck
  <1>4. CASE PubWrite(w)
    BY <1>4, Zenon DEF PubWrite
  <1>5. CASE PubUpdate(w) \/ PubLeave(w)
    BY <1>5, Zenon DEF PubUpdate, PubLeave, Leave
  <1> QED BY <1>1, <1>2, <1>3, <1>4, <1>5 DEF workers_handle_pub_register

\* so does a subscriber's,
LEMMA SubFrames ==
    ASSUME NEW w \in Workers, workers_handle_sub_register(w)
    PROVE  Untouched(w) /\ UntouchedFiles(w)
  <1> USE DEF Untouched, UntouchedFiles, boxes, locks, tfs, clients
  <1>1. CASE SubFind(w) \/ tfs_close(w, "s_close")
    BY <1>1, Zenon DEF SubFind, box_find, tfs_close
  <1>2. CASE SubRegister(w) \/ SubLock(w) \/ SubTest(w)
    BY <1>2, Zenon DEF SubRegister, SubLock, SubTest
  <1>3. CASE SubWait(w) \/ SubWake(w) \/ SubCheck(w)
    BY <1>3, Zenon DEF SubWait, SubWake, SubCheck
  <1>4. CASE SubSend(w) \/ SubMore(w) \/ SubLeave(w)
    BY <1>4, Zenon DEF SubSend, SubMore, SubLeave, Leave
  <1> QED BY <1>1, <1>2, <1>3, <1>4 DEF workers_handle_sub_register

\* and so do creation, removal and listing.
LEMMA ManagerFrames ==
    ASSUME NEW w \in Workers,
           \/ workers_handle_manager_create(w) \/ workers_handle_manager_remove(w)
           \/ ManagerAnswer(w) \/ workers_handle_manager_listing(w)
    PROVE  Untouched(w) /\ UntouchedFiles(w)
  <1> USE DEF Untouched, UntouchedFiles, boxes, locks, tfs, clients
  <1>1. CASE CreateExists(w) \/ CreateFile(w) \/ CreateClose(w)
    BY <1>1, Zenon DEF CreateExists, CreateFile, CreateClose
  <1>2. CASE BoxClaim(w) \/ BoxClear(w) \/ BoxFill(w)
    BY <1>2, Zenon DEF BoxClaim, BoxClear, BoxFill
  <1>3. CASE BoxMissing(w) \/ BoxFound(w) \/ BoxFree(w) \/ RemoveUnlink(w)
    BY <1>3, Zenon DEF BoxMissing, BoxFound, BoxFree, RemoveUnlink
  <1>4. CASE ManagerAnswer(w)
    BY <1>4, Zenon DEF ManagerAnswer
  <1>5. CASE ListOpen(w) \/ ListPacket(w) \/ ListSkip(w) \/ ListEnd(w)
    BY <1>5, Zenon DEF ListOpen, ListPacket, ListSkip, ListEnd
  <1> QED BY <1>1, <1>2, <1>3, <1>4, <1>5
          DEF workers_handle_manager_create, box_create, workers_handle_manager_remove, box_delete,
              workers_handle_manager_listing

\* Every step of a worker does.
LEMMA Frames ==
    ASSUME NEW w \in Workers, Works(w)
    PROVE  Untouched(w) /\ UntouchedFiles(w)
  BY PubFrames, SubFrames, ManagerFrames DEF Works, Step

\* What others do.
LEMMA OtherFrames ==
    /\ \A r \in Requests : mbroker_receive_connection(r) \/ ClientQuits(r) =>
           UNCHANGED <<boxes, locks, tfs, pc, loc, answers, n_messages>>
    /\ \A i \in Slots, w \in Workers : SpuriousWakeup(i, w) =>
           /\ UNCHANGED <<boxes, box_mutex, boxes_rd, boxes_wr, tfs, pc, loc, clients>>
           /\ box_cond' = [box_cond EXCEPT ![i] = @ \ {w}]
  BY Zenon DEF mbroker_receive_connection, ClientQuits, SpuriousWakeup

\* The three kinds of steps.
LEMMA Steps ==
    ASSUME Next
    PROVE  \/ \E r \in Requests : mbroker_receive_connection(r) \/ ClientQuits(r)
           \/ \E w \in Workers : Works(w)
           \/ \E i \in Slots, w \in Workers : SpuriousWakeup(i, w)
  BY DEF Next, Works
-----------------------------------------------------------------------------
(* Types                                                                   *)

\* The facts about the constants that the proofs use.
LEMMA Constants ==
    /\ NULL \notin Workers /\ NULL \notin BoxNames /\ NULL \notin Requests
    /\ \A r \in Requests : r.code \in Codes /\ (r.box_name \in BoxNames \/ r.code = "LIST")
    /\ InodeCount \in Nat \ {0} /\ BoxCapacity \in Nat \ {0}
    /\ Uint64 \in Nat \ {0, 1}
  BY BrokerAssumption

\* A set of numbers has a smallest one: searches return what they look for.
LEMMA FirstIn ==
    ASSUME NEW S \in SUBSET Nat, S # {}
    PROVE  First(S) \in S
  <1> DEFINE Upto == {0 .. n : n \in S}
  <1>1. Upto \subseteq FiniteSubsetsOf(Nat)
    <2>1. \A n \in Nat : 0 .. n \in SUBSET Nat
      OBVIOUS
    <2>2. \A n \in Nat : IsFiniteSet(0 .. n)
      BY FS_Interval
    <2> QED BY <2>1, <2>2 DEF FiniteSubsetsOf
  <1>2. Upto # {}
    OBVIOUS
  <1>3. PICK M \in Upto : \A U \in Upto : ~(<<U, M>> \in StrictSubsetOrdering(Nat))
    <2> HIDE DEF Upto
    <2> QED BY <1>1, <1>2, FS_StrictSubsetOrderingWellFounded, WFMin
  <1>4. PICK m \in S : M = 0 .. m
    BY <1>3
  <1>5. ASSUME NEW y \in S, y < m
        PROVE  FALSE
    <2>1. 0 .. y \in Upto /\ 0 .. y \subseteq 0 .. m /\ m \in 0 .. m /\ m \notin 0 .. y
      BY <1>5
    <2>2. <<0 .. y, M>> \in (SUBSET Nat) \X (SUBSET Nat)
      BY <1>4, <1>5
    <2>3. <<0 .. y, M>> \in StrictSubsetOrdering(Nat)
      BY <2>1, <2>2, <1>4 DEF StrictSubsetOrdering
    <2> QED BY <2>1, <2>3, <1>3
  <1>6. \A y \in S : m <= y
    BY <1>5
  <1>7. Min(S) \in S
    BY <1>6 DEF Min
  <1> QED BY <1>7 DEF First

\* A search that finds something returns a slot.
LEMMA FirstSlot ==
    ASSUME NEW S \in SUBSET Slots, S # {}
    PROVE  First(S) \in S /\ First(S) \in Slots
  <1>1. S \in SUBSET Nat
    BY Constants DEF Slots
  <1> QED BY <1>1, FirstIn

\* A worker without a request has nothing else.
LEMMA NoLocalsOK ==
    NoLocals \in Locals /\ SetAt("idle", NoLocals) /\ NoLocals.request = NULL /\ NoLocals.message = 0
  BY DEF NoLocals, Locals, SetAt, NoFile, Listing, Creating, Removing, HasSlot, Session, Closing,
         PubSession, SubSession

\* What is to be shown of a worker that moves.
LocalsGood(to, r) ==
    /\ to \in Labels /\ r \in Locals /\ SetAt(to, r)
    /\ r.request \in sent \cup {NULL}
    /\ r.message <= n_messages'

\* A worker that moves to a label with locals that fit it leaves the workers' types alone.
LEMMA WorkerKept ==
    ASSUME WorkersOK, NEW w \in Workers, NEW from, NEW to, NEW r, Moves(w, from, to, r),
           LocalsGood(to, r), UNCHANGED sent,
           n_messages \in Nat, n_messages' \in Nat, n_messages <= n_messages'
    PROVE  WorkersOK'
  <1>1. /\ pc'[w] = to /\ loc'[w] = r
        /\ \A x \in Workers : x # w => pc'[x] = pc[x] /\ loc'[x] = loc[x]
        /\ pc' \in [Workers -> Labels] /\ loc' \in [Workers -> Locals]
    BY MovedWorker DEF WorkersOK, LocalsGood
  <1>2. ASSUME NEW x \in Workers
        PROVE  /\ SetAt(pc'[x], loc'[x])
               /\ loc'[x].request \in sent' \cup {NULL}
               /\ loc'[x].message <= n_messages'
    <2>1. CASE x = w
      BY <1>1, <2>1 DEF LocalsGood
    <2>2. CASE x # w
      <3>1. loc[x].message \in Nat
        BY DEF WorkersOK, Locals
      <3> QED BY <1>1, <2>2, <3>1 DEF WorkersOK
    <2> QED BY <2>1, <2>2
  <1> QED BY <1>1, <1>2 DEF WorkersOK

\* The worker is where LocalsGood takes it.
LEMMA GoodMove ==
    ASSUME TypeInv, NEW w \in Workers, Works(w)
    PROVE  /\ n_messages \in Nat /\ n_messages' \in Nat /\ n_messages <= n_messages' /\ UNCHANGED sent
           /\ \A from, to, r : Moves(w, from, to, r) /\ LocalsGood(to, r) => WorkersOK'
           /\ LocalsGood("idle", NoLocals)
           /\ \A to \in Labels : SetAt(to, loc[w]) => LocalsGood(to, loc[w])
           /\ loc[w] \in Locals /\ loc[w].request \in sent \cup {NULL} /\ SetAt(pc[w], loc[w])
           /\ loc[w].message <= n_messages' /\ loc[w].message \in Nat
  <1>1. /\ loc \in [Workers -> Locals] /\ n_messages \in Nat /\ WorkersOK
        /\ loc[w] \in Locals /\ loc[w].request \in sent \cup {NULL} /\ SetAt(pc[w], loc[w])
        /\ loc[w].message <= n_messages /\ loc[w].message \in Nat
    BY DEF TypeInv, WorkersOK, RequestsOK, Locals
  <1>2. UNCHANGED sent /\ (PubCode(w) \/ UNCHANGED n_messages)
    BY Frames DEF UntouchedFiles
  <1>3. n_messages' \in Nat /\ n_messages <= n_messages'
    <2>1. PubCode(w) => n_messages' = n_messages \/ n_messages' = n_messages + 1
      BY <1>1, PubMoves
    <2> QED BY <1>1, <1>2, <2>1
  <1>4. LocalsGood("idle", NoLocals)
    BY <1>3, NoLocalsOK DEF LocalsGood, Labels
  <1>5. \A from, to, r : Moves(w, from, to, r) /\ LocalsGood(to, r) => WorkersOK'
    BY <1>1, <1>2, <1>3, WorkerKept
  <1> QED BY <1>1, <1>2, <1>3, <1>4, <1>5 DEF LocalsGood

\* LocalsGood, one fact at a time.
LEMMA GoodLocals ==
    ASSUME NEW to \in Labels, NEW r \in Locals, SetAt(to, r), NEW l, r.request = l.request,
           l.request \in sent \cup {NULL}, r.message <= n_messages'
    PROVE  LocalsGood(to, r)
  BY DEF LocalsGood

\* box_find leaves a slot in box_i or ends the session.
LEMMA FoundMoves ==
    ASSUME TypeInv, NEW w \in Workers, Works(w), NEW from, NEW to, Finds(w, from, to), pc[w] = from,
           \/ from = "p_find" /\ to = "p_register"
           \/ from = "s_find" /\ to = "s_register"
    PROVE  WorkersOK'
  <1>1. CASE Moves(w, from, "idle", NoLocals)
    BY <1>1, GoodMove
  <1>2. CASE /\ Matching(Name(w)) # {}
             /\ Moves(w, from, to, [loc[w] EXCEPT !.box_i = First(Matching(Name(w)))])
    <2>1. PICK i \in Slots : i = First(Matching(Name(w)))
      BY <1>2, FirstSlot DEF Matching
    <2>2. PICK r : r = [loc[w] EXCEPT !.box_i = i]
      OBVIOUS
    <2>3. i \in Int
      BY Constants DEF Slots
    <2>4. loc[w] \in Locals /\ SetAt(from, loc[w]) /\ loc[w].message <= n_messages'
             /\ loc[w].request \in sent \cup {NULL}
      BY GoodMove
    <2>5. LocalsGood(to, r)
      BY <2>1, <2>2, <2>3, <2>4
         DEF LocalsGood, Locals, SetAt, Labels, HasSlot, Session, Closing, PubSession, SubSession,
             Creating, Removing, Listing
    <2> QED BY <1>2, <2>1, <2>2, <2>5, GoodMove
  <1> QED BY <1>1, <1>2 DEF Finds

\* The steps of a publisher's session keep the types of the locals.
LEMMA PubWorkers ==
    ASSUME TypeInv, NEW w \in Workers, workers_handle_pub_register(w)
    PROVE  WorkersOK'
  <1> PICK l : l = loc[w]
    OBVIOUS
  <1>0. Works(w)
    BY DEF Works, Step
  <1>1. /\ l \in Locals /\ SetAt(pc[w], l) /\ l.request \in sent \cup {NULL}
        /\ l.message <= n_messages' /\ l.message \in Nat
        /\ n_messages \in Nat /\ loc \in [Workers -> Locals]
    BY <1>0, GoodMove DEF TypeInv, WorkersOK
  <1>2. \A from, to, r : Moves(w, from, to, r) /\ LocalsGood(to, r) => WorkersOK'
    BY <1>0, GoodMove
  <1>3. LocalsGood("idle", NoLocals) /\ \A to \in Labels : SetAt(to, l) => LocalsGood(to, l)
    BY <1>0, GoodMove
  <1> USE DEF Labels, HasSlot, Session, Closing, PubSession, SubSession, Creating, Removing,
              Listing
  <1>4. CASE PubFind(w)
    BY <1>0, <1>1, <1>4, PubMoves, FoundMoves DEF Finds, Moves
  <1>5. CASE PubRegister(w)
    <2>1. PICK f, o : f = tfs_dir[Name(w)] /\ o = Len(tfs_data[f])
      OBVIOUS
    <2>2. pc[w] = "p_register" /\ (~PubRefused(w) => f # NoFile)
      BY <1>5, <2>1, Zenon DEF PubRegister, PubRefused
    <2>3. CASE Moves(w, "p_register", "idle", NoLocals)
      BY <1>2, <1>3, <2>3
    <2>4. CASE ~PubRefused(w) /\ Moves(w, "p_register", "p_code", [l EXCEPT !.box_f = f, !.offset = o])
      <3>1. Name(w) \in BoxNames
        BY <1>1, <2>2 DEF Name, SetAt
      <3>2. f \in Files /\ o \in Nat
        BY <2>1, <2>2, <2>4, <3>1 DEF TypeInv, FilesOK
      <3>3. PICK r : r = [l EXCEPT !.box_f = f, !.offset = o]
        OBVIOUS
      <3>4. r \in Locals /\ r.request = l.request /\ r.message <= n_messages'
        BY <1>1, <3>2, <3>3 DEF Locals
      <3>5. SetAt("p_code", r)
        BY <1>1, <2>2, <3>2, <3>3 DEF Locals, SetAt
      <3> QED BY <1>1, <1>2, <2>4, <3>3, <3>4, <3>5, GoodLocals
    <2> QED BY <1>1, <1>5, <2>1, <2>3, <2>4, PubMoves
  <1>6. CASE PubCode(w)
    <2>1. CASE Moves(w, "p_code", "p_leave", l)
      BY <1>1, <1>2, <1>3, <2>1 DEF Moves, SetAt
    <2>2. CASE /\ Moves(w, "p_code", "p_check", [l EXCEPT !.message = n_messages + 1])
               /\ n_messages' = n_messages + 1
      <3>1. pc[w] = "p_code" /\ n_messages' = n_messages + 1
        BY <2>2 DEF Moves
      <3>2. PICK m \in Nat : m = n_messages + 1
        BY <1>1
      <3>3. PICK r : r = [l EXCEPT !.message = m]
        OBVIOUS
      <3>4. r \in Locals /\ r.request = l.request /\ r.message = m
        BY <1>1, <3>3 DEF Locals
      <3>5. SetAt("p_check", r)
        BY <1>1, <3>1, <3>2, <3>3 DEF Locals, SetAt
      <3>6. LocalsGood("p_check", r)
        BY <1>1, <3>1, <3>2, <3>4, <3>5, GoodLocals
      <3> QED BY <1>2, <2>2, <3>2, <3>3, <3>6
    <2> QED BY <1>1, <1>6, <2>1, <2>2, PubMoves
  <1>7. CASE PubCheck(w)
    BY <1>1, <1>2, <1>3, <1>7, PubMoves, ZenonT(60) DEF Moves, SetAt
  <1>8. CASE PubWrite(w)
    <2>1. CASE Moves(w, "p_write", "p_update", [l EXCEPT !.offset = l.offset + 1])
      <3>1. pc[w] = "p_write"
        BY <2>1 DEF Moves
      <3>2. PICK o \in Nat : o = l.offset + 1
        BY <1>1 DEF Locals
      <3>3. PICK r : r = [l EXCEPT !.offset = o]
        OBVIOUS
      <3>4. r \in Locals /\ r.request = l.request /\ r.message <= n_messages'
        BY <1>1, <3>3 DEF Locals
      <3>5. SetAt("p_update", r)
        BY <1>1, <3>1, <3>3 DEF Locals, SetAt
      <3> QED BY <1>1, <1>2, <2>1, <3>2, <3>3, <3>4, <3>5, GoodLocals
    <2>2. CASE Moves(w, "p_write", "p_leave", l)
      BY <1>1, <1>2, <1>3, <2>2 DEF Moves, SetAt
    <2> QED BY <1>1, <1>8, <2>1, <2>2, PubMoves
  <1>9. CASE PubUpdate(w) \/ PubLeave(w) \/ tfs_close(w, "p_close")
    BY <1>1, <1>2, <1>3, <1>9, PubMoves, ZenonT(60) DEF Moves, SetAt
  <1> QED BY <1>4, <1>5, <1>6, <1>7, <1>8, <1>9 DEF workers_handle_pub_register

\* tfs_read gives a message of the file.
LEMMA ReadMoves ==
    ASSUME TypeInv, NEW w \in Workers, Works(w), NEW from, NEW to, Reads(w, from, to),
           from \in SubSession, to \in SubSession
    PROVE  WorkersOK'
  <1> PICK l : l = loc[w]
    OBVIOUS
  <1>1. /\ l \in Locals /\ SetAt(pc[w], l) /\ l.request \in sent \cup {NULL}
        /\ n_messages \in Nat /\ n_messages' \in Nat /\ n_messages <= n_messages' /\ pc[w] = from
    BY GoodMove DEF Reads, Moves
  <1>2. l.box_f \in Files /\ l.offset \in Nat
    BY <1>1 DEF SetAt, Locals, Session
  <1>3. PICK s : s = tfs_data[l.box_f]
    OBVIOUS
  <1>4. s \in Seq(Nat) /\ \A k \in 1 .. Len(s) : s[k] \in 1 .. n_messages
    BY <1>2, <1>3 DEF TypeInv, FilesOK
  <1>5. l.offset < Len(s) /\ Moves(w, from, to, [l EXCEPT !.message = s[l.offset + 1], !.offset = l.offset + 1])
    BY <1>3, Zenon DEF Reads, Unread
  <1>6. PICK o \in Nat : o = l.offset + 1
    BY <1>2
  <1>7. PICK m : m = s[o]
    OBVIOUS
  <1>8. m \in Nat /\ m <= n_messages'
    <2>1. o \in 1 .. Len(s)
      BY <1>2, <1>4, <1>5, <1>6
    <2>2. m \in 1 .. n_messages
      BY <1>4, <1>7, <2>1
    <2> QED BY <1>1, <2>2
  <1>9. PICK r : r = [l EXCEPT !.message = m, !.offset = o]
    OBVIOUS
  <1>10. r \in Locals /\ r.request = l.request /\ r.message <= n_messages'
    BY <1>1, <1>8, <1>9 DEF Locals
  <1>11. to \in Labels
    BY DEF Labels
  <1>12. SetAt(to, r)
    BY <1>1, <1>9 DEF SetAt, Locals, HasSlot, Session, SubSession, PubSession, Closing, Creating,
                      Removing, Listing
  <1>13. LocalsGood(to, r)
    BY <1>1, <1>10, <1>11, <1>12, GoodLocals
  <1> QED BY <1>5, <1>6, <1>7, <1>9, <1>13, GoodMove

\* So do those of a subscriber's session,
LEMMA SubWorkers ==
    ASSUME TypeInv, NEW w \in Workers, workers_handle_sub_register(w)
    PROVE  WorkersOK'
  <1> PICK l : l = loc[w]
    OBVIOUS
  <1>0. Works(w)
    BY DEF Works, Step
  <1>1. /\ l \in Locals /\ SetAt(pc[w], l) /\ l.request \in sent \cup {NULL}
        /\ l.message <= n_messages' /\ l.message \in Nat
        /\ n_messages \in Nat /\ loc \in [Workers -> Locals]
    BY <1>0, GoodMove DEF TypeInv, WorkersOK
  <1>2. \A from, to, r : Moves(w, from, to, r) /\ LocalsGood(to, r) => WorkersOK'
    BY <1>0, GoodMove
  <1>3. LocalsGood("idle", NoLocals) /\ \A to \in Labels : SetAt(to, l) => LocalsGood(to, l)
    BY <1>0, GoodMove
  <1> USE DEF Labels, HasSlot, Session, Closing, PubSession, SubSession, Creating, Removing, Listing
  <1>4. CASE SubFind(w)
    BY <1>0, <1>1, <1>4, SubMoves, FoundMoves DEF Finds, Moves
  <1>5. CASE SubRegister(w)
    <2>1. PICK f : f = tfs_dir[Name(w)]
      OBVIOUS
    <2>2. CASE Moves(w, "s_register", "idle", NoLocals)
      BY <1>2, <1>3, <2>2
    <2>3. CASE f # NoFile /\ Moves(w, "s_register", "s_lock", [l EXCEPT !.box_f = f])
      <3>1. pc[w] = "s_register"
        BY <2>3 DEF Moves
      <3>2. Name(w) \in BoxNames
        BY <1>1, <3>1 DEF Name, SetAt
      <3>3. f \in Files
        BY <2>1, <2>3, <3>2 DEF TypeInv, FilesOK
      <3>4. PICK r : r = [l EXCEPT !.box_f = f]
        OBVIOUS
      <3>5. r \in Locals /\ r.request = l.request /\ r.message <= n_messages'
        BY <1>1, <3>3, <3>4 DEF Locals
      <3>6. SetAt("s_lock", r)
        BY <1>1, <3>1, <3>3, <3>4 DEF Locals, SetAt
      <3> QED BY <1>1, <1>2, <2>3, <3>4, <3>5, <3>6, GoodLocals
    <2> QED BY <1>1, <1>5, <2>1, <2>2, <2>3, SubMoves
  <1>6. CASE SubLock(w) \/ SubWait(w) \/ SubWake(w) \/ SubCheck(w)
    <2>1. CASE Moves(w, "s_lock", "s_test", l) \/ Moves(w, "s_wait", "s_waiting", l)
      BY <1>1, <1>2, <1>3, <2>1 DEF Moves, SetAt
    <2>2. CASE Moves(w, "s_waiting", "s_test", l)
      BY <1>1, <1>2, <1>3, <2>2 DEF Moves, SetAt
    <2>3. CASE Moves(w, "s_check", "s_send", l) \/ Moves(w, "s_check", "s_leave", l)
      BY <1>1, <1>2, <1>3, <2>3 DEF Moves, SetAt
    <2> QED BY <1>1, <1>6, <2>1, <2>2, <2>3, SubMoves
  <1>7. CASE SubTest(w) \/ SubMore(w)
    <2>1. CASE Reads(w, "s_test", "s_check") \/ Reads(w, "s_more", "s_send")
      BY <1>0, <2>1, ReadMoves
    <2>2. CASE Moves(w, "s_test", "s_wait", l) \/ Moves(w, "s_test", "s_check", l) \/ Moves(w, "s_more", "s_lock", l)
      BY <1>1, <1>2, <1>3, <2>2 DEF Moves, SetAt
    <2> QED BY <1>1, <1>7, <2>1, <2>2, SubMoves
  <1>8. CASE SubSend(w)
    <2>1. CASE Moves(w, "s_send", "s_more", [l EXCEPT !.delivered = Append(l.delivered, l.message)])
      <3>1. pc[w] = "s_send"
        BY <2>1 DEF Moves
      <3>2. PICK d \in Seq(Nat) : d = Append(l.delivered, l.message)
        <4>1. l.delivered \in Seq(Nat) /\ l.message \in Nat
          BY <1>1 DEF Locals
        <4>2. \A s \in Seq(Nat), m \in Nat : Append(s, m) \in Seq(Nat)
          OBVIOUS
        <4> QED BY <4>1, <4>2, Zenon
      <3>3. PICK r : r = [l EXCEPT !.delivered = d]
        OBVIOUS
      <3>4. r \in Locals /\ r.request = l.request /\ r.message <= n_messages'
        BY <1>1, <3>3 DEF Locals
      <3>5. SetAt("s_more", r)
        BY <1>1, <3>1, <3>3 DEF Locals, SetAt
      <3> QED BY <1>1, <1>2, <2>1, <3>2, <3>3, <3>4, <3>5, GoodLocals
    <2>2. CASE Moves(w, "s_send", "s_leave", l)
      BY <1>1, <1>2, <1>3, <2>2 DEF Moves, SetAt
    <2> QED BY <1>1, <1>8, <2>1, <2>2, SubMoves
  <1>9. CASE SubLeave(w) \/ tfs_close(w, "s_close")
    BY <1>1, <1>2, <1>3, <1>9, SubMoves, ZenonT(60) DEF Moves, SetAt
  <1> QED BY <1>4, <1>5, <1>6, <1>7, <1>8, <1>9 DEF workers_handle_sub_register

\* tfs_open of a creation: no inode is left, the file exists by now, or it is a new
\* and empty one that nobody uses.
LEMMA CreatedFile ==
    ASSUME TypeInv, NEW w \in Workers, CreateFile(w)
    PROVE  \/ /\ UNCHANGED tfs
              /\ Moves(w, "c_create", "c_close", [loc[w] EXCEPT !.return_code = -1])
           \/ \E f \in Files :
                 /\ Moves(w, "c_create", "c_claim", [loc[w] EXCEPT !.box_f = f])
                 /\ \/ f = tfs_dir[Name(w)] /\ UNCHANGED tfs
                    \/ /\ f \notin Live /\ tfs_dir[Name(w)] = NoFile
                       /\ tfs_dir' = [tfs_dir EXCEPT ![Name(w)] = f]
                       /\ tfs_data' = [tfs_data EXCEPT ![f] = << >>]
                       /\ published' = [published EXCEPT ![f] = << >>]
  <1>1. pc[w] = "c_create" /\ loc[w] \in Locals /\ SetAt(pc[w], loc[w])
    BY DEF CreateFile, TypeInv, WorkersOK
  <1>2. Name(w) \in BoxNames
    BY <1>1 DEF SetAt, Name, Listing
  <1>3. PICK old \in Files \cup {NoFile} : old = tfs_dir[Name(w)]
    BY <1>2 DEF TypeInv, FilesOK
  <1>4. PICK f : f = IF old # NoFile THEN old ELSE First(Files \ Live)
    OBVIOUS
  <1>5. CASE f = -1
    <2>1. UNCHANGED tfs /\ Moves(w, "c_create", "c_close", [loc[w] EXCEPT !.return_code = -1])
      BY <1>3, <1>4, <1>5, Zenon DEF CreateFile, Outcome, Goto, Moves
    <2> QED BY <2>1
  <1>6. CASE f # -1
    <2>1. /\ Moves(w, "c_create", "c_claim", [loc[w] EXCEPT !.box_f = f])
          /\ tfs_dir' = [tfs_dir EXCEPT ![Name(w)] = f]
          /\ tfs_data' = [tfs_data EXCEPT ![f] = IF old # NoFile THEN tfs_data[f] ELSE << >>]
          /\ published' = [published EXCEPT ![f] = IF old # NoFile THEN published[f] ELSE << >>]
      BY <1>3, <1>4, <1>6, Zenon DEF CreateFile, Outcome, Goto, Moves
    <2>2. CASE old # NoFile
      <3>1. f \in Files /\ f = tfs_dir[Name(w)]
        BY <1>3, <1>4, <2>2
      <3>2. UNCHANGED tfs_dir
        BY <1>2, <2>1, <3>1 DEF TypeInv, FilesOK
      <3>3. UNCHANGED tfs_data
        BY <2>1, <2>2, <3>1 DEF TypeInv, FilesOK
      <3>4. UNCHANGED published
        BY <2>1, <2>2, <3>1 DEF TypeInv, FilesOK
      <3> QED BY <2>1, <3>1, <3>2, <3>3, <3>4 DEF tfs
    <2>3. CASE old = NoFile
      <3>1. Files \ Live # {}
        BY <1>4, <1>6, <2>3 DEF First
      <3>2. Files \ Live \in SUBSET Nat
        BY Constants DEF Files
      <3>3. f \in Files \ Live
        BY <1>4, <2>3, <3>1, <3>2, FirstIn
      <3>4. tfs_data' = [tfs_data EXCEPT ![f] = << >>] /\ published' = [published EXCEPT ![f] = << >>]
        BY <2>1, <2>3
      <3> QED BY <1>3, <2>1, <2>3, <3>3, <3>4
    <2> QED BY <2>2, <2>3
  <1> QED BY <1>5, <1>6

\* of a creation,
LEMMA CreateWorkers ==
    ASSUME TypeInv, NEW w \in Workers, workers_handle_manager_create(w)
    PROVE  WorkersOK'
  <1> PICK l : l = loc[w]
    OBVIOUS
  <1>0. Works(w)
    BY DEF Works, Step
  <1>1. /\ l \in Locals /\ SetAt(pc[w], l) /\ l.request \in sent \cup {NULL}
        /\ l.message <= n_messages' /\ l.message \in Nat
        /\ n_messages \in Nat /\ loc \in [Workers -> Locals]
    BY <1>0, GoodMove DEF TypeInv, WorkersOK
  <1>2. \A from, to, r : Moves(w, from, to, r) /\ LocalsGood(to, r) => WorkersOK'
    BY <1>0, GoodMove
  <1>3. LocalsGood("idle", NoLocals) /\ \A to \in Labels : SetAt(to, l) => LocalsGood(to, l)
    BY <1>0, GoodMove
  <1> USE DEF Labels, HasSlot, Session, Closing, PubSession, SubSession, Creating, Removing, Listing,
              ManagerSteps
  <1>4. pc[w] = "c_exists" \/ pc[w] = "c_create" => Name(w) \in BoxNames
    BY <1>1 DEF SetAt, Name
  <1>5. \A c \in {0, -1}, from \in {"c_create", "c_claim", "c_fill"} :
            Moves(w, from, "c_close", [l EXCEPT !.return_code = c]) => WorkersOK'
    <2> SUFFICES ASSUME NEW c \in {0, -1}, NEW from \in {"c_create", "c_claim", "c_fill"},
                        Moves(w, from, "c_close", [l EXCEPT !.return_code = c])
                 PROVE  WorkersOK'
      OBVIOUS
    <2>1. pc[w] = from
      BY DEF Moves
    <2>2. PICK r : r = [l EXCEPT !.return_code = c]
      OBVIOUS
    <2>3. r \in Locals /\ r.request = l.request /\ r.message <= n_messages'
      BY <1>1, <2>2 DEF Locals
    <2>4. SetAt("c_close", r)
      BY <1>1, <2>1, <2>2 DEF Locals, SetAt
    <2> QED BY <1>1, <1>2, <2>2, <2>3, <2>4, GoodLocals
  <1>6. CASE CreateExists(w)
    <2>1. CASE Moves(w, "c_exists", "c_create", l)
      BY <1>1, <1>2, <1>3, <2>1 DEF Moves, SetAt
    <2>2. CASE Moves(w, "c_exists", "c_close", [l EXCEPT !.box_f = tfs_dir[Name(w)], !.return_code = -1])
      <3>1. pc[w] = "c_exists"
        BY <2>2 DEF Moves
      <3>2. PICK f \in Files \cup {NoFile} : f = tfs_dir[Name(w)]
        BY <1>4, <3>1 DEF TypeInv, FilesOK
      <3>3. PICK r : r = [l EXCEPT !.box_f = f, !.return_code = -1]
        OBVIOUS
      <3>4. r \in Locals /\ r.request = l.request /\ r.message <= n_messages'
        BY <1>1, <3>3 DEF Locals
      <3>5. SetAt("c_close", r)
        BY <1>1, <3>1, <3>3 DEF Locals, SetAt
      <3> QED BY <1>1, <1>2, <2>2, <3>2, <3>3, <3>4, <3>5, GoodLocals
    <2> QED BY <1>1, <1>6, <2>1, <2>2, ManagerMoves
  <1>7. CASE CreateFile(w)
    <2>1. CASE \E f \in Files : Moves(w, "c_create", "c_claim", [l EXCEPT !.box_f = f])
      <3>1. PICK f \in Files : Moves(w, "c_create", "c_claim", [l EXCEPT !.box_f = f])
        BY <2>1
      <3>2. pc[w] = "c_create"
        BY <3>1 DEF Moves
      <3>3. PICK r : r = [l EXCEPT !.box_f = f]
        OBVIOUS
      <3>4. r \in Locals /\ r.request = l.request /\ r.message <= n_messages'
        BY <1>1, <3>3 DEF Locals
      <3>5. SetAt("c_claim", r)
        BY <1>1, <3>2, <3>3 DEF Locals, SetAt
      <3> QED BY <1>1, <1>2, <3>1, <3>3, <3>4, <3>5, GoodLocals
    <2> QED BY <1>5, <1>7, <2>1, CreatedFile
  <1>8. CASE BoxClaim(w)
    <2>1. CASE /\ \E i \in Slots : free_boxes[i] = "FREE"
               /\ Moves(w, "c_claim", "c_clear", [l EXCEPT
                            !.box_i = First({j \in Slots : free_boxes[j] = "FREE"})])
      <3>1. pc[w] = "c_claim"
        BY <2>1 DEF Moves
      <3>2. PICK i \in Slots : i = First({j \in Slots : free_boxes[j] = "FREE"})
        BY <2>1, FirstSlot
      <3>3. i \in Int
        BY Constants DEF Slots
      <3>4. PICK r : r = [l EXCEPT !.box_i = i]
        OBVIOUS
      <3>5. r \in Locals /\ r.request = l.request /\ r.message <= n_messages'
        BY <1>1, <3>3, <3>4 DEF Locals
      <3>6. SetAt("c_clear", r)
        BY <1>1, <3>1, <3>4 DEF Locals, SetAt
      <3> QED BY <1>1, <1>2, <2>1, <3>2, <3>4, <3>5, <3>6, GoodLocals
    <2> QED BY <1>1, <1>5, <1>8, <2>1, ManagerMoves
  <1>9. CASE BoxClear(w)
    BY <1>1, <1>2, <1>3, <1>9, ManagerMoves DEF Moves, SetAt
  <1>10. CASE BoxFill(w)
    BY <1>1, <1>5, <1>10, ManagerMoves
  <1>11. CASE CreateClose(w)
    <2>1. Moves(w, "c_close", "m_answer", [l EXCEPT !.box_f = NoFile])
      BY <1>1, <1>11, ManagerMoves
    <2>2. pc[w] = "c_close"
      BY <2>1 DEF Moves
    <2>3. PICK r : r = [l EXCEPT !.box_f = NoFile]
      OBVIOUS
    <2>4. r \in Locals /\ r.request = l.request /\ r.message <= n_messages'
      BY <1>1, <2>3 DEF Locals
    <2>5. SetAt("m_answer", r)
      BY <1>1, <2>2, <2>3 DEF Locals, SetAt
    <2> QED BY <1>1, <1>2, <2>1, <2>3, <2>4, <2>5, GoodLocals
  <1> QED BY <1>6, <1>7, <1>8, <1>9, <1>10, <1>11 DEF workers_handle_manager_create, box_create

\* of a removal,
LEMMA RemoveWorkers ==
    ASSUME TypeInv, NEW w \in Workers, workers_handle_manager_remove(w) \/ ManagerAnswer(w)
    PROVE  WorkersOK'
  <1> PICK l : l = loc[w]
    OBVIOUS
  <1>0. Works(w)
    BY DEF Works, Step
  <1>1. /\ l \in Locals /\ SetAt(pc[w], l) /\ l.request \in sent \cup {NULL}
        /\ l.message <= n_messages' /\ l.message \in Nat
        /\ n_messages \in Nat /\ loc \in [Workers -> Locals]
    BY <1>0, GoodMove DEF TypeInv, WorkersOK
  <1>2. \A from, to, r : Moves(w, from, to, r) /\ LocalsGood(to, r) => WorkersOK'
    BY <1>0, GoodMove
  <1>3. LocalsGood("idle", NoLocals) /\ \A to \in Labels : SetAt(to, l) => LocalsGood(to, l)
    BY <1>0, GoodMove
  <1> USE DEF Labels, HasSlot, Session, Closing, PubSession, SubSession, Creating, Removing, Listing,
              ManagerSteps
  <1>4. \A c \in {0, -1}, from \in {"r_delete", "r_unlink"} :
            Moves(w, from, "m_answer", [l EXCEPT !.return_code = c]) => WorkersOK'
    <2> SUFFICES ASSUME NEW c \in {0, -1}, NEW from \in {"r_delete", "r_unlink"},
                        Moves(w, from, "m_answer", [l EXCEPT !.return_code = c])
                 PROVE  WorkersOK'
      OBVIOUS
    <2>1. pc[w] = from
      BY DEF Moves
    <2>2. PICK r : r = [l EXCEPT !.return_code = c]
      OBVIOUS
    <2>3. r \in Locals /\ r.request = l.request /\ r.message <= n_messages'
      BY <1>1, <2>2 DEF Locals
    <2>4. SetAt("m_answer", r)
      BY <1>1, <2>1, <2>2 DEF Locals, SetAt
    <2> QED BY <1>1, <1>2, <2>2, <2>3, <2>4, GoodLocals
  <1>5. CASE BoxMissing(w) \/ RemoveUnlink(w)
    BY <1>1, <1>4, <1>5, ManagerMoves
  <1>6. CASE BoxFound(w)
    <2>1. /\ Matching(Name(w)) # {}
          /\ Moves(w, "r_delete", "r_free", [l EXCEPT !.box_i = First(Matching(Name(w)))])
      BY <1>1, <1>6, ManagerMoves
    <2>2. pc[w] = "r_delete"
      BY <2>1 DEF Moves
    <2>3. PICK i \in Slots : i = First(Matching(Name(w)))
      BY <2>1, FirstSlot DEF Matching
    <2>4. i \in Int
      BY Constants DEF Slots
    <2>5. PICK r : r = [l EXCEPT !.box_i = i]
      OBVIOUS
    <2>6. r \in Locals /\ r.request = l.request /\ r.message <= n_messages'
      BY <1>1, <2>4, <2>5 DEF Locals
    <2>7. SetAt("r_free", r)
      BY <1>1, <2>2, <2>5 DEF Locals, SetAt
    <2> QED BY <1>1, <1>2, <2>1, <2>3, <2>5, <2>6, <2>7, GoodLocals
  <1>7. CASE BoxFree(w)
    BY <1>1, <1>2, <1>3, <1>7, Constants, ManagerMoves, ZenonT(60) DEF Moves, SetAt
  <1>8. CASE ManagerAnswer(w)
    BY <1>1, <1>2, <1>3, <1>8, ManagerMoves
  <1> QED BY <1>5, <1>6, <1>7, <1>8 DEF workers_handle_manager_remove, box_delete

\* of a listing,
LEMMA ListWorkers ==
    ASSUME TypeInv, NEW w \in Workers, workers_handle_manager_listing(w)
    PROVE  WorkersOK'
  <1> PICK l : l = loc[w]
    OBVIOUS
  <1>0. Works(w)
    BY DEF Works, Step
  <1>1. /\ l \in Locals /\ SetAt(pc[w], l) /\ l.request \in sent \cup {NULL}
        /\ l.message <= n_messages' /\ l.message \in Nat
        /\ n_messages \in Nat /\ loc \in [Workers -> Locals]
    BY <1>0, GoodMove DEF TypeInv, WorkersOK
  <1>2. \A from, to, r : Moves(w, from, to, r) /\ LocalsGood(to, r) => WorkersOK'
    BY <1>0, GoodMove
  <1>3. LocalsGood("idle", NoLocals) /\ \A to \in Labels : SetAt(to, l) => LocalsGood(to, l)
    BY <1>0, GoodMove
  <1> USE DEF Labels, HasSlot, Session, Closing, PubSession, SubSession, Creating, Removing, Listing,
              ManagerSteps
  <1>4. \A i \in 0 .. InodeCount, p \in Seq(Packet), from \in Listing :
            Moves(w, from, "l_scan", [l EXCEPT !.box_i = i, !.packets = p]) => WorkersOK'
    <2> SUFFICES ASSUME NEW i \in 0 .. InodeCount, NEW p \in Seq(Packet), NEW from \in Listing,
                        Moves(w, from, "l_scan", [l EXCEPT !.box_i = i, !.packets = p])
                 PROVE  WorkersOK'
      OBVIOUS
    <2>1. pc[w] = from /\ i \in Int
      BY DEF Moves
    <2>2. PICK r : r = [l EXCEPT !.box_i = i, !.packets = p]
      OBVIOUS
    <2>3. r \in Locals /\ r.request = l.request /\ r.message <= n_messages'
      BY <1>1, <2>1, <2>2 DEF Locals
    <2>4. SetAt("l_scan", r)
      BY <1>1, <2>1, <2>2 DEF Locals, SetAt
    <2> QED BY <1>1, <1>2, <2>2, <2>3, <2>4, GoodLocals
  <1>5. \A i : [l EXCEPT !.box_i = i] = [l EXCEPT !.box_i = i, !.packets = l.packets]
    BY <1>1 DEF Locals
  <1>6. l.packets \in Seq(Packet) /\ l.box_i \in Int /\ (pc[w] = "l_scan" => l.box_i \in 0 .. InodeCount)
    BY <1>1 DEF Locals, SetAt
  <1>7. CASE ListOpen(w)
    <2>1. Moves(w, "l_open", "l_scan", [l EXCEPT !.box_i = 0])
      BY <1>1, <1>7, ManagerMoves
    <2>2. Moves(w, "l_open", "l_scan", [l EXCEPT !.box_i = 0, !.packets = l.packets])
      BY <1>5, <2>1, Zenon
    <2>3. 0 \in 0 .. InodeCount
      BY Constants
    <2> QED BY <1>4, <1>6, <2>2, <2>3
  <1>8. CASE ListSkip(w)
    <2>1. pc[w] = "l_scan" /\ l.box_i < InodeCount
      BY <1>8, Zenon DEF ListSkip
    <2>2. l.box_i + 1 \in 0 .. InodeCount
      BY <1>6, <2>1, Constants
    <2>3. Moves(w, "l_scan", "l_scan", [l EXCEPT !.box_i = l.box_i + 1])
      BY <1>1, <1>8, ManagerMoves
    <2>4. Moves(w, "l_scan", "l_scan", [l EXCEPT !.box_i = l.box_i + 1, !.packets = l.packets])
      BY <1>5, <2>3, Zenon
    <2> QED BY <1>4, <1>6, <2>2, <2>4
  <1>9. CASE ListPacket(w)
    <2>1. pc[w] = "l_scan" /\ l.box_i < InodeCount
      BY <1>9, Zenon DEF ListPacket
    <2>2. l.box_i \in Slots /\ l.box_i + 1 \in 0 .. InodeCount
      BY <1>6, <2>1, Constants DEF Slots
    <2>3. PICK e : e = [last |-> n_boxes = 0 \/ Len(loc[w].packets) + 1 = n_boxes,
                              name |-> IF n_boxes = 0 THEN NULL
                                       ELSE boxes_table[loc[w].box_i].name]
      OBVIOUS
    <2>4. boxes_table[l.box_i].name \in BoxNames \cup {NULL}
      BY <2>2 DEF TypeInv, TablesOK, Box
    <2>5. e \in Packet
      BY <2>3, <2>4 DEF Packet
    <2>6. Append(l.packets, e) \in Seq(Packet)
      BY <1>6, <2>5
    <2>7. CASE Moves(w, "l_scan", "idle", NoLocals)
      BY <1>2, <1>3, <2>7
    <2>8. CASE Moves(w, "l_scan", "l_scan", [l EXCEPT !.box_i = l.box_i + 1, !.packets = Append(l.packets, e)])
      BY <1>4, <2>2, <2>6, <2>8
    <2> QED BY <1>1, <1>9, <2>3, <2>7, <2>8, ManagerMoves
  <1>10. CASE ListEnd(w)
    BY <1>1, <1>2, <1>3, <1>10, ManagerMoves
  <1> QED BY <1>7, <1>8, <1>9, <1>10 DEF workers_handle_manager_listing

\* and the reception of a request.
LEMMA ReceptionWorkers ==
    ASSUME TypeInv, NEW w \in Workers, workers_reception(w)
    PROVE  WorkersOK'
  <1> PICK l : l = loc[w]
    OBVIOUS
  <1>0. Works(w)
    BY DEF Works, Step
  <1>1. /\ l \in Locals /\ SetAt(pc[w], l) /\ l.message <= n_messages' /\ l.message \in Nat
        /\ loc \in [Workers -> Locals]
    BY <1>0, GoodMove DEF TypeInv, WorkersOK
  <1>2. \A from, to, r : Moves(w, from, to, r) /\ LocalsGood(to, r) => WorkersOK'
    BY <1>0, GoodMove
  <1>3. PICK q : q = Head(requests_queue)
    OBVIOUS
  <1>4. requests_queue # << >> /\ Moves(w, "idle", Handler[q.code], [l EXCEPT !.request = q])
    BY <1>1, <1>3, PubMoves DEF workers_reception
  <1>5. q \in Requests /\ q \in sent
    BY <1>3, <1>4 DEF TypeInv, RequestsOK
  <1>6. q.code \in Codes /\ (q.box_name \in BoxNames \/ q.code = "LIST")
    BY <1>5, Constants
  <1>7. pc[w] = "idle"
    BY <1>4 DEF Moves
  <1>8. PICK r : r = [l EXCEPT !.request = q]
    OBVIOUS
  <1>9. r \in Locals /\ r.request = q /\ r.message = l.message
    BY <1>1, <1>5, <1>8 DEF Locals
  <1>10. Handler[q.code] \in Labels /\ SetAt(Handler[q.code], r)
    <2>1. l.box_i = -1 /\ l.offset = 0 /\ l.delivered = << >> /\ l.packets = << >>
      BY <1>1, <1>7 DEF SetAt, NoLocals
    <2>2. r.box_i = -1 /\ r.offset = 0 /\ r.delivered = << >> /\ r.packets = << >>
      BY <1>1, <1>8, <2>1 DEF Locals
    <2> QED BY <1>5, <1>6, <1>9, <2>2 DEF Handler, Codes, SetAt, Labels, HasSlot, Session,
                                          Closing,
                                   PubSession, SubSession, Creating, Removing, Listing, ManagerSteps
  <1>11. LocalsGood(Handler[q.code], r)
    BY <1>1, <1>5, <1>9, <1>10 DEF LocalsGood
  <1> QED BY <1>2, <1>4, <1>8, <1>11

\* Every step of a worker keeps the types of the locals.
LEMMA WorkersStep ==
    ASSUME TypeInv, NEW w \in Workers, Works(w)
    PROVE  WorkersOK'
  BY PubWorkers, SubWorkers, CreateWorkers, RemoveWorkers, ListWorkers, ReceptionWorkers
     DEF Works, Step
-----------------------------------------------------------------------------
(* The table of boxes                                                      *)

\* A count that wraps stays below Uint64.
LEMMA Modulo == \A a \in Int : a % Uint64 \in 0 .. Uint64 - 1
  BY Constants

\* A count of a box changes, and nothing else of the table does.
LEMMA Counted ==
    ASSUME boxes_table \in [Slots -> Box], NEW i \in Slots, NEW n \in Int
    PROVE  /\ Count(i, "n_publishers", n) => \E b \in Box :
                  /\ boxes_table' = [boxes_table EXCEPT ![i] = b] /\ b.name = boxes_table[i].name
                  /\ b.n_publishers = (boxes_table[i].n_publishers + n) % Uint64
           /\ Count(i, "n_subscribers", n) \/ Count(i, "size", n) => \E b \in Box :
                  /\ boxes_table' = [boxes_table EXCEPT ![i] = b] /\ b.name = boxes_table[i].name
                  /\ b.n_publishers = boxes_table[i].n_publishers
  <1> PICK c \in Box : c = boxes_table[i]
    OBVIOUS
  <1>1. ASSUME Count(i, "n_publishers", n)
        PROVE  \E b \in Box :
                  /\ boxes_table' = [boxes_table EXCEPT ![i] = b] /\ b.name = boxes_table[i].name
                  /\ b.n_publishers = (boxes_table[i].n_publishers + n) % Uint64
    <2>1. PICK k \in 0 .. Uint64 - 1 : k = (c.n_publishers + n) % Uint64
      <3>1. c.n_publishers + n \in Int
        BY DEF Box
      <3> QED BY <3>1, Modulo
    <2>2. boxes_table' = [boxes_table EXCEPT ![i] = [c EXCEPT !["n_publishers"] = k]]
      BY <1>1, <2>1, Zenon DEF Count
    <2>3. PICK b : b = [c EXCEPT !["n_publishers"] = k]
      OBVIOUS
    <2>4. b \in Box /\ b.name = c.name /\ b.n_publishers = k
      BY <2>3 DEF Box
    <2> QED BY <2>1, <2>2, <2>3, <2>4, Zenon
  <1>2. ASSUME Count(i, "n_subscribers", n)
        PROVE  \E b \in Box :
                  /\ boxes_table' = [boxes_table EXCEPT ![i] = b] /\ b.name = boxes_table[i].name
                  /\ b.n_publishers = boxes_table[i].n_publishers
    <2>1. PICK k \in 0 .. Uint64 - 1 : k = (c.n_subscribers + n) % Uint64
      <3>1. c.n_subscribers + n \in Int
        BY DEF Box
      <3> QED BY <3>1, Modulo
    <2>2. boxes_table' = [boxes_table EXCEPT ![i] = [c EXCEPT !["n_subscribers"] = k]]
      BY <1>2, <2>1, Zenon DEF Count
    <2>3. PICK b : b = [c EXCEPT !["n_subscribers"] = k]
      OBVIOUS
    <2>4. b \in Box /\ b.name = c.name /\ b.n_publishers = c.n_publishers
      BY <2>3 DEF Box
    <2> QED BY <2>1, <2>2, <2>3, <2>4, Zenon
  <1>3. ASSUME Count(i, "size", n)
        PROVE  \E b \in Box :
                  /\ boxes_table' = [boxes_table EXCEPT ![i] = b] /\ b.name = boxes_table[i].name
                  /\ b.n_publishers = boxes_table[i].n_publishers
    <2>1. PICK k \in 0 .. Uint64 - 1 : k = (c.size + n) % Uint64
      <3>1. c.size + n \in Int
        BY DEF Box
      <3> QED BY <3>1, Modulo
    <2>2. boxes_table' = [boxes_table EXCEPT ![i] = [c EXCEPT !["size"] = k]]
      BY <1>3, <2>1, Zenon DEF Count
    <2>3. PICK b : b = [c EXCEPT !["size"] = k]
      OBVIOUS
    <2>4. b \in Box /\ b.name = c.name /\ b.n_publishers = c.n_publishers
      BY <2>3 DEF Box
    <2> QED BY <2>1, <2>2, <2>3, <2>4, Zenon
  <1> QED BY <1>1, <1>2, <1>3

\* What a step of w does to the names and to the counts of publishers.
NamesChange(w) ==
    \A i \in Slots :
        \/ boxes_table'[i].name = boxes_table[i].name
        \/ i = loc[w].box_i /\ BoxClear(w) /\ boxes_table'[i].name = NULL
        \/ i = loc[w].box_i /\ BoxFill(w) /\ boxes_table'[i].name = Name(w)

PublishersChange(w) ==
    \A i \in Slots :
        IF i = loc[w].box_i /\ PubLeave(w)
        THEN boxes_table'[i].n_publishers = (boxes_table[i].n_publishers - 1) % Uint64
        ELSE IF i = loc[w].box_i /\ PubRegister(w) /\ pc'[w] = "p_code"
        THEN /\ boxes_table[i].n_publishers = 0
             /\ boxes_table'[i].n_publishers = (boxes_table[i].n_publishers + 1) % Uint64
        ELSE boxes_table'[i].n_publishers = boxes_table[i].n_publishers

\* Only a creation renames a box, and only a publisher that comes or leaves counts.
LEMMA TableStep ==
    ASSUME TypeInv, NEW w \in Workers, Works(w)
    PROVE  boxes_table' \in [Slots -> Box] /\ NamesChange(w) /\ PublishersChange(w)
  <1> PICK s : s = loc[w].box_i
    OBVIOUS
  <1>1. /\ boxes_table \in [Slots -> Box] /\ loc \in [Workers -> Locals] /\ pc \in [Workers -> Labels]
        /\ SetAt(pc[w], loc[w])
    BY DEF TypeInv, TablesOK, WorkersOK
  <1>2. /\ PubRegister(w) => pc[w] = "p_register"
        /\ PubLeave(w) => pc[w] = "p_leave"
        /\ BoxClear(w) => pc[w] = "c_clear"
        /\ BoxFill(w) => pc[w] = "c_fill"
    BY Zenon DEF PubRegister, PubLeave, Leave, BoxClear, BoxFill
  <1>3. pc[w] \in HasSlot => s \in Slots
    BY <1>1 DEF SetAt
  <1>4. ASSUME NEW b \in Box, s \in Slots, boxes_table' = [boxes_table EXCEPT ![s] = b]
        PROVE  /\ boxes_table' \in [Slots -> Box] /\ boxes_table'[s] = b
               /\ \A i \in Slots : i # s => boxes_table'[i] = boxes_table[i]
    BY <1>1, <1>4
  <1> USE DEF HasSlot, Session, PubSession, SubSession
  <1>5. CASE PubRegister(w)
    <2>1. pc[w] = "p_register" /\ s \in Slots /\ ~PubLeave(w) /\ ~BoxClear(w) /\ ~BoxFill(w)
      BY <1>2, <1>3, <1>5
    <2>2. CASE PubRefused(w)
      <3>1. UNCHANGED boxes_table /\ pc' = [pc EXCEPT ![w] = "idle"]
        BY <1>5, <2>2, Zenon DEF PubRegister, Return, Goto
      <3>2. pc'[w] # "p_code"
        BY <1>1, <3>1
      <3> QED BY <1>1, <2>1, <3>1, <3>2 DEF NamesChange, PublishersChange
    <2>3. CASE ~PubRefused(w)
      <3>1. Count(s, "n_publishers", 1) /\ pc' = [pc EXCEPT ![w] = "p_code"]
        BY <1>5, <2>3, Zenon DEF PubRegister, Goto
      <3>2. pc'[w] = "p_code"
        BY <1>1, <3>1
      <3>3. PICK b \in Box :
                  /\ boxes_table' = [boxes_table EXCEPT ![s] = b] /\ b.name = boxes_table[s].name
                  /\ b.n_publishers = (boxes_table[s].n_publishers + 1) % Uint64
        BY <1>1, <2>1, <3>1, Counted
      <3>4. boxes_table[s].n_publishers = 0
        BY <1>1, <2>1, <2>3 DEF PubRefused, Box
      <3>5. /\ boxes_table' \in [Slots -> Box] /\ boxes_table'[s] = b
            /\ \A i \in Slots : i # s => boxes_table'[i] = boxes_table[i]
        BY <1>4, <2>1, <3>3
      <3>6. NamesChange(w)
        BY <3>3, <3>5 DEF NamesChange
      <3>7. PublishersChange(w)
        BY <1>5, <2>1, <3>2, <3>3, <3>4, <3>5 DEF PublishersChange
      <3> QED BY <3>5, <3>6, <3>7
    <2> QED BY <2>2, <2>3
  <1>6. CASE PubLeave(w)
    <2>1. pc[w] = "p_leave" /\ s \in Slots
      BY <1>2, <1>3, <1>6
    <2>2. Count(s, "n_publishers", -1)
      BY <1>6 DEF PubLeave, Leave
    <2>3. PICK b \in Box :
                  /\ boxes_table' = [boxes_table EXCEPT ![s] = b] /\ b.name = boxes_table[s].name
                  /\ b.n_publishers = (boxes_table[s].n_publishers + (-1)) % Uint64
      BY <1>1, <2>1, <2>2, Counted
    <2>4. /\ boxes_table' \in [Slots -> Box] /\ boxes_table'[s] = b
          /\ \A i \in Slots : i # s => boxes_table'[i] = boxes_table[i]
      BY <1>4, <2>1, <2>3
    <2>5. NamesChange(w)
      BY <2>3, <2>4 DEF NamesChange
    <2>6. boxes_table[s].n_publishers + (-1) = boxes_table[s].n_publishers - 1
      BY <1>1, <2>1 DEF Box
    <2>7. ~PubRegister(w)
      BY <2>1 DEF PubRegister
    <2>8. PublishersChange(w)
      BY <1>6, <2>1, <2>3, <2>4, <2>6, <2>7 DEF PublishersChange
    <2> QED BY <2>4, <2>5, <2>8
  <1>7. CASE PubUpdate(w) \/ SubRegister(w) \/ SubLeave(w)
    <2>1. pc[w] \in {"p_update", "s_register", "s_leave"} /\ s \in Slots
      BY <1>3, <1>7 DEF PubUpdate, SubRegister, SubLeave, Leave
    <2>2. \/ UNCHANGED boxes_table
          \/ Count(s, "size", 1) \/ Count(s, "n_subscribers", 1) \/ Count(s, "n_subscribers", -1)
      BY <1>7, Zenon DEF PubUpdate, SubRegister, SubLeave, Leave
    <2>3. ~PubRegister(w) /\ ~PubLeave(w)
      BY <1>2, <2>1
    <2>4. CASE UNCHANGED boxes_table
      BY <1>1, <2>3, <2>4 DEF NamesChange, PublishersChange
    <2>5. CASE ~UNCHANGED boxes_table
      <3>1. PICK b \in Box :
                  /\ boxes_table' = [boxes_table EXCEPT ![s] = b] /\ b.name = boxes_table[s].name
                  /\ b.n_publishers = boxes_table[s].n_publishers
        BY <1>1, <2>1, <2>2, <2>5, Counted
      <3>2. /\ boxes_table' \in [Slots -> Box] /\ boxes_table'[s] = b
            /\ \A i \in Slots : i # s => boxes_table'[i] = boxes_table[i]
        BY <1>4, <2>1, <3>1
      <3> QED BY <2>3, <3>1, <3>2 DEF NamesChange, PublishersChange
    <2> QED BY <2>4, <2>5
  <1>8. CASE BoxClear(w) \/ BoxFill(w)
    <2>1. pc[w] \in {"c_clear", "c_fill"} /\ s \in Slots
      BY <1>3, <1>8 DEF BoxClear, BoxFill
    <2>2. ~PubRegister(w) /\ ~PubLeave(w)
      BY <1>2, <2>1
    <2>3. PICK c \in Box : c = boxes_table[s]
      BY <1>1, <2>1
    <2>4. CASE BoxClear(w)
      <3>1. PICK b : b = [c EXCEPT !.name = NULL]
        OBVIOUS
      <3>2. boxes_table' = [boxes_table EXCEPT ![s] = b]
        BY <2>3, <2>4, <3>1, Zenon DEF BoxClear
      <3>3. b \in Box /\ b.name = NULL /\ b.n_publishers = c.n_publishers
        BY <3>1 DEF Box
      <3>4. /\ boxes_table' \in [Slots -> Box] /\ boxes_table'[s] = b
            /\ \A i \in Slots : i # s => boxes_table'[i] = boxes_table[i]
        BY <1>4, <2>1, <3>2, <3>3
      <3> QED BY <2>2, <2>3, <2>4, <3>3, <3>4 DEF NamesChange, PublishersChange
    <2>5. CASE BoxFill(w)
      <3>0. Name(w) \in BoxNames
        BY <1>1, <2>1 DEF SetAt, Name, Listing
      <3>1. PICK b : b = [c EXCEPT !.name = Name(w), !.size = 0, !.n_subscribers = 0]
        OBVIOUS
      <3>9. 0 \in 0 .. Uint64 - 1
        BY Constants
      <3>2. boxes_table' = [boxes_table EXCEPT ![s] = b]
        BY <2>3, <2>5, <3>1, Zenon DEF BoxFill
      <3>3. b \in Box /\ b.name = Name(w) /\ b.n_publishers = c.n_publishers
        BY <3>0, <3>1, <3>9 DEF Box
      <3>4. /\ boxes_table' \in [Slots -> Box] /\ boxes_table'[s] = b
            /\ \A i \in Slots : i # s => boxes_table'[i] = boxes_table[i]
        BY <1>4, <2>1, <3>2, <3>3
      <3> QED BY <2>2, <2>3, <2>5, <3>3, <3>4 DEF NamesChange, PublishersChange
    <2> QED BY <1>8, <2>4, <2>5
  <1>9. CASE /\ UNCHANGED boxes_table
             /\ ~(PubRegister(w) \/ PubLeave(w))
    BY <1>1, <1>9 DEF NamesChange, PublishersChange
  <1> QED BY <1>5, <1>6, <1>7, <1>8, <1>9, Frames DEF Untouched

\* The slot of a step that claims or frees one.
LEMMA ClaimStep ==
    ASSUME TypeInv, NEW w \in Workers, BoxClaim(w)
    PROVE  /\ boxes_wr = NULL /\ boxes_rd = {}
           /\ \/ UNCHANGED <<n_boxes, free_boxes>>
              \/ \E i \in Slots : /\ free_boxes[i] = "FREE" /\ n_boxes' = n_boxes + 1
                                  /\ free_boxes' = [free_boxes EXCEPT ![i] = "TAKEN"]
  <1> DEFINE F == {j \in Slots : free_boxes[j] = "FREE"}
  <1>1. PICK i : i = First(F)
    OBVIOUS
  <1>2. boxes_wr = NULL /\ boxes_rd = {}
    BY DEF BoxClaim
  <1>3. CASE i = -1
    <2>1. UNCHANGED boxes
      BY <1>1, <1>3, Zenon DEF BoxClaim
    <2> QED BY <1>2, <2>1 DEF boxes
  <1>4. CASE i # -1
    <2>1. free_boxes' = [free_boxes EXCEPT ![i] = "TAKEN"] /\ n_boxes' = n_boxes + 1
      BY <1>1, <1>4, Zenon DEF BoxClaim
    <2>2. i \in F
      <3>1. F # {} /\ F \in SUBSET Slots
        BY <1>1, <1>4 DEF First
      <3> HIDE DEF F
      <3> QED BY <1>1, <3>1, FirstSlot
    <2> QED BY <1>2, <2>1, <2>2
  <1> QED BY <1>3, <1>4

\* box_delete frees the slot it found and wakes those who wait there.
LEMMA FreeStep ==
    ASSUME TypeInv, NEW w \in Workers, BoxFree(w)
    PROVE  /\ pc[w] = "r_free" /\ loc[w].box_i \in Slots
           /\ n_boxes' = n_boxes - 1 /\ boxes_wr' = NULL
           /\ free_boxes' = [free_boxes EXCEPT ![loc[w].box_i] = "FREE"]
           /\ box_cond' = [box_cond EXCEPT ![loc[w].box_i] = {}]
  <1>1. /\ pc[w] = "r_free" /\ n_boxes' = n_boxes - 1 /\ boxes_wr' = NULL
        /\ free_boxes' = [free_boxes EXCEPT ![loc[w].box_i] = "FREE"]
        /\ box_cond' = [box_cond EXCEPT ![loc[w].box_i] = {}]
    BY Zenon DEF BoxFree, cond_broadcast
  <1>2. SetAt(pc[w], loc[w])
    BY DEF TypeInv, WorkersOK
  <1> QED BY <1>1, <1>2 DEF SetAt, HasSlot

\* The tables a step leaves have their types.
LEMMA TablesTyped ==
    ASSUME TypeInv, NEW w \in Workers, Works(w)
    PROVE  TablesOK'
  <1> PICK s : s = loc[w].box_i
    OBVIOUS
  <1>0. /\ n_boxes \in Int /\ free_boxes \in [Slots -> {"FREE", "TAKEN"}]
        /\ box_mutex \in [Slots -> Workers \cup {NULL}]
        /\ box_cond \in [Slots -> SUBSET Workers]
        /\ boxes_rd \subseteq Workers /\ boxes_wr \in Workers \cup {NULL}
        /\ SetAt(pc[w], loc[w])
    BY DEF TypeInv, TablesOK, WorkersOK
  <1>1. Untouched(w)
    BY Frames
  <1>2. pc[w] \in HasSlot => s \in Slots
    BY <1>0 DEF SetAt
  <1>3. n_boxes' \in Int /\ free_boxes' \in [Slots -> {"FREE", "TAKEN"}]
    <2>1. CASE BoxClaim(w)
      BY <1>0, <2>1, ClaimStep
    <2>2. CASE BoxFree(w)
      BY <1>0, <2>2, FreeStep
    <2> QED BY <1>0, <1>1, <2>1, <2>2 DEF Untouched
  <1>4. box_mutex' \in [Slots -> Workers \cup {NULL}]
    <2>1. \/ UNCHANGED box_mutex
          \/ box_mutex' = [box_mutex EXCEPT ![s] = w] \/ box_mutex' = [box_mutex EXCEPT ![s] = NULL]
      <3>1. CASE SubRegister(w) \/ SubLock(w) \/ SubTest(w) \/ SubWait(w) \/ SubWake(w)
        BY <3>1, Zenon DEF SubRegister, SubLock, SubTest, SubWait, SubWake
      <3>2. CASE BoxClear(w) \/ BoxFill(w)
        BY <3>2, Zenon DEF BoxClear, BoxFill
      <3> QED BY <1>1, <3>1, <3>2 DEF Untouched
    <2> QED BY <1>0, <2>1
  <1>5. box_cond' \in [Slots -> SUBSET Workers]
    <2>1. CASE PubUpdate(w) \/ SubWait(w) \/ BoxFree(w)
      <3>1. box_cond' = [box_cond EXCEPT ![s] = {}] \/ box_cond' = [box_cond EXCEPT ![s] = box_cond[s] \cup {w}]
        BY <2>1, Zenon DEF PubUpdate, SubWait, BoxFree, cond_broadcast
      <3>2. s \in Slots
        BY <1>2, <2>1 DEF PubUpdate, SubWait, BoxFree, HasSlot, Session, PubSession, SubSession
      <3> QED BY <1>0, <3>1, <3>2
    <2> QED BY <1>0, <1>1, <2>1 DEF Untouched
  <1>6. boxes_rd' \subseteq Workers
    <2>1. CASE ListOpen(w) \/ ListPacket(w) \/ ListEnd(w)
      <3>1. boxes_rd' = boxes_rd \/ boxes_rd' = boxes_rd \cup {w} \/ boxes_rd' = boxes_rd \ {w}
        BY <2>1, Zenon DEF ListOpen, ListPacket, ListEnd
      <3> QED BY <1>0, <3>1
    <2> QED BY <1>0, <1>1, <2>1 DEF Untouched
  <1>7. boxes_wr' \in Workers \cup {NULL}
    BY <1>0, <1>1 DEF Untouched, BoxFound, BoxFree
  <1> QED BY <1>3, <1>4, <1>5, <1>6, <1>7, TableStep DEF TablesOK
-----------------------------------------------------------------------------
(* Sessions                                                                *)

Same(w) ==
    /\ loc'[w].request = loc[w].request /\ loc'[w].box_i = loc[w].box_i
    /\ loc'[w].box_f = loc[w].box_f

\* The worker begins a session, or goes on with it.
Enters(w) ==
    /\ \/ PubRegister(w) /\ pc[w] = "p_register" /\ pc'[w] = "p_code"
          /\ loc'[w].offset = Len(tfs_data[loc'[w].box_f])
       \/ SubRegister(w) /\ pc[w] = "s_register" /\ pc'[w] = "s_lock"
          /\ loc'[w].offset = 0 /\ loc'[w].delivered = << >>
    /\ loc'[w].request = loc[w].request /\ loc'[w].box_i = loc[w].box_i
    /\ loc'[w].box_f = tfs_dir[Name(w)] /\ loc'[w].box_f \in Files

Continues(w) ==
    /\ pc[w] \in Session /\ Same(w)
    /\ pc'[w] \in PubSession <=> pc[w] \in PubSession
    /\ \/ loc'[w].offset = loc[w].offset
       \/ PubWrite(w) /\ pc'[w] = "p_update" /\ loc'[w].offset = loc[w].offset + 1
       \/ /\ pc'[w] \in SubSession
          /\ loc[w].offset < Len(tfs_data[loc[w].box_f]) /\ loc'[w].offset = loc[w].offset + 1

\* Facts about a worker that most proofs need.
LEMMA Places ==
    ASSUME TypeInv, NEW w \in Workers
    PROVE  /\ \A from, to, r : Moves(w, from, to, r) =>
                  /\ pc[w] = from /\ pc'[w] = to /\ loc'[w] = r
                  /\ \A x \in Workers : x # w => pc'[x] = pc[x] /\ loc'[x] = loc[x]
           /\ loc \in [Workers -> Locals] /\ loc[w] \in Locals /\ SetAt(pc[w], loc[w])
  BY MovedWorker DEF TypeInv, WorkersOK

\* A worker that is in a session after a step has begun it or goes on with it.
LEMMA SessionMoves ==
    ASSUME TypeInv, NEW w \in Workers, Works(w), pc'[w] \in Session
    PROVE  Enters(w) \/ Continues(w)
  <1> PICK l : l = loc[w]
    OBVIOUS
  <1>1. \A from, to, r : Moves(w, from, to, r) => pc[w] = from /\ pc'[w] = to /\ loc'[w] = r
    BY Places
  <1>2. l \in Locals /\ SetAt(pc[w], l) /\ loc \in [Workers -> Locals]
    BY Places
  <1>3. \A from, to : Moves(w, from, to, l) /\ from \in Session /\ (to \in PubSession <=> from \in PubSession) =>
            Continues(w)
    BY <1>1 DEF Continues, Same
  <1>4. \A from, to : Reads(w, from, to) /\ from \in SubSession /\ to \in SubSession => Continues(w)
    <2> SUFFICES ASSUME NEW from, NEW to, Reads(w, from, to), from \in SubSession, to \in SubSession
                 PROVE  Continues(w)
      OBVIOUS
    <2>1. PICK m, o : m = tfs_data[l.box_f][l.offset + 1] /\ o = l.offset + 1
      OBVIOUS
    <2>2. l.offset < Len(tfs_data[l.box_f])
      BY DEF Reads, Unread
    <2>3. pc[w] = from /\ pc'[w] = to /\ loc'[w] = [l EXCEPT !.message = m, !.offset = o]
      BY <1>1, <2>1, Zenon DEF Reads
    <2>4. Same(w) /\ loc'[w].offset = o
      BY <1>2, <2>3 DEF Same, Locals
    <2> QED BY <2>1, <2>2, <2>3, <2>4 DEF Continues, Session, PubSession, SubSession
  <1>18. \A to : pc' = [pc EXCEPT ![w] = to] => pc'[w] = to
    BY DEF TypeInv, WorkersOK
  <1> USE DEF Session, PubSession, SubSession
  <1>5. CASE workers_reception(w)
    <2>1. pc'[w] = Handler[Head(requests_queue).code] /\ requests_queue # << >>
      BY <1>1, <1>2, <1>5, PubMoves DEF workers_reception
    <2>2. Head(requests_queue) \in Requests
      BY <2>1 DEF TypeInv, RequestsOK
    <2> QED BY <2>1, <2>2, Constants DEF Handler, Codes
  <1>6. CASE PubRegister(w)
    <2>1. PICK f, o : f = tfs_dir[Name(w)] /\ o = Len(tfs_data[f])
      OBVIOUS
    <2>2. ~PubRefused(w) /\ Moves(w, "p_register", "p_code", [l EXCEPT !.box_f = f, !.offset = o])
      BY <1>1, <1>2, <1>6, <2>1, PubMoves, ZenonT(60)
    <2>3. pc[w] = "p_register" /\ pc'[w] = "p_code" /\ loc'[w] = [l EXCEPT !.box_f = f, !.offset = o]
      BY <1>1, <2>2
    <2>4. Name(w) \in BoxNames
      BY <1>2, <2>3 DEF SetAt, Name, Listing
    <2>5. f \in Files
      BY <2>1, <2>2, <2>4 DEF PubRefused, TypeInv, FilesOK
    <2>6. /\ loc'[w].request = l.request /\ loc'[w].box_i = l.box_i
          /\ loc'[w].box_f = f /\ loc'[w].offset = o
      BY <1>2, <2>3 DEF Locals
    <2> QED BY <1>6, <2>1, <2>3, <2>5, <2>6 DEF Enters
  <1>7. CASE SubRegister(w)
    <2>1. PICK f : f = tfs_dir[Name(w)]
      OBVIOUS
    <2>2. f # NoFile /\ Moves(w, "s_register", "s_lock", [l EXCEPT !.box_f = f])
      <3>1. ~Moves(w, "s_register", "idle", NoLocals)
        BY <1>1
      <3>2. \/ Moves(w, "s_register", "idle", NoLocals)
            \/ /\ tfs_dir[Name(w)] # NoFile
               /\ Moves(w, "s_register", "s_lock", [loc[w] EXCEPT !.box_f = tfs_dir[Name(w)]])
        BY <1>2, <1>7, SubMoves, Zenon
      <3> QED BY <2>1, <3>1, <3>2, Zenon
    <2>3. pc[w] = "s_register" /\ pc'[w] = "s_lock" /\ loc'[w] = [l EXCEPT !.box_f = f]
      BY <1>1, <2>2
    <2>4. Name(w) \in BoxNames
      BY <1>2, <2>3 DEF SetAt, Name, Listing
    <2>5. f \in Files
      BY <2>1, <2>2, <2>4 DEF TypeInv, FilesOK
    <2>6. l.offset = 0 /\ l.delivered = << >>
      BY <1>2, <2>3 DEF SetAt, Closing
    <2>7. /\ loc'[w].request = l.request /\ loc'[w].box_i = l.box_i
          /\ loc'[w].box_f = f /\ loc'[w].offset = 0 /\ loc'[w].delivered = << >>
      BY <1>2, <2>3, <2>6 DEF Locals
    <2> QED BY <1>7, <2>1, <2>3, <2>5, <2>7 DEF Enters
  <1>8. CASE PubCode(w)
    <2>1. CASE Moves(w, "p_code", "p_check", [l EXCEPT !.message = n_messages + 1])
      <3>1. pc[w] = "p_code" /\ pc'[w] = "p_check" /\ loc'[w] = [l EXCEPT !.message = n_messages + 1]
        BY <1>1, <2>1
      <3>2. Same(w) /\ loc'[w].offset = l.offset
        BY <1>2, <3>1 DEF Same, Locals
      <3> QED BY <3>1, <3>2 DEF Continues
    <2> QED BY <1>2, <1>3, <1>8, <2>1, PubMoves
  <1>9. CASE PubWrite(w)
    <2>1. CASE Moves(w, "p_write", "p_update", [l EXCEPT !.offset = l.offset + 1])
      <3>1. pc[w] = "p_write" /\ pc'[w] = "p_update" /\ loc'[w] = [l EXCEPT !.offset = l.offset + 1]
        BY <1>1, <2>1
      <3>2. Same(w) /\ loc'[w].offset = l.offset + 1
        BY <1>2, <3>1 DEF Same, Locals
      <3> QED BY <1>9, <3>1, <3>2 DEF Continues
    <2> QED BY <1>2, <1>3, <1>9, <2>1, PubMoves
  <1>10. CASE PubCheck(w) \/ PubUpdate(w)
    BY <1>2, <1>3, <1>10, PubMoves
  <1>11. CASE PubFind(w) \/ PubLeave(w) \/ tfs_close(w, "p_close")
    <2>1. \E to \in {"idle", "p_register", "p_close"} : pc' = [pc EXCEPT ![w] = to]
      BY <1>11, Zenon DEF PubFind, box_find, PubLeave, Leave, tfs_close, Return, Goto
    <2> QED BY <1>18, <2>1
  <1>12. CASE SubFind(w) \/ SubLeave(w) \/ tfs_close(w, "s_close")
    <2>1. \E to \in {"idle", "s_register", "s_close"} : pc' = [pc EXCEPT ![w] = to]
      BY <1>12, Zenon DEF SubFind, box_find, SubLeave, Leave, tfs_close, Return, Goto
    <2> QED BY <1>18, <2>1
  <1>13. CASE SubLock(w) \/ SubTest(w) \/ SubWait(w) \/ SubWake(w) \/ SubCheck(w) \/ SubMore(w)
    BY <1>2, <1>3, <1>4, <1>13, SubMoves
  <1>14. CASE SubSend(w)
    <2>1. CASE Moves(w, "s_send", "s_more", [l EXCEPT !.delivered = Append(l.delivered, l.message)])
      <3>1. PICK d : d = Append(l.delivered, l.message)
        OBVIOUS
      <3>2. pc[w] = "s_send" /\ pc'[w] = "s_more" /\ loc'[w] = [l EXCEPT !.delivered = d]
        BY <1>1, <2>1, <3>1
      <3>3. Same(w) /\ loc'[w].offset = l.offset
        BY <1>2, <3>2 DEF Same, Locals
      <3> QED BY <3>2, <3>3 DEF Continues
    <2> QED BY <1>2, <1>3, <1>14, <2>1, SubMoves
  <1>15. CASE CreateExists(w) \/ CreateFile(w) \/ BoxClaim(w) \/ BoxClear(w) \/ BoxFill(w) \/ CreateClose(w)
    <2>1. \E to \in {"c_create", "c_claim", "c_clear", "c_fill", "c_close", "m_answer"} :
              pc' = [pc EXCEPT ![w] = to]
      BY <1>15, Zenon DEF CreateExists, CreateFile, BoxClaim, BoxClear, BoxFill, CreateClose,
                          Outcome, Goto
    <2> QED BY <1>18, <2>1
  <1>16. CASE BoxMissing(w) \/ BoxFound(w) \/ BoxFree(w) \/ RemoveUnlink(w) \/ ManagerAnswer(w)
    <2>1. \E to \in {"r_free", "r_unlink", "m_answer", "idle"} : pc' = [pc EXCEPT ![w] = to]
      BY <1>16, Zenon DEF BoxMissing, BoxFound, BoxFree, RemoveUnlink, ManagerAnswer, Outcome,
                          Return, Goto
    <2> QED BY <1>18, <2>1
  <1>17. CASE ListOpen(w) \/ ListPacket(w) \/ ListSkip(w) \/ ListEnd(w)
    <2>1. \E to \in {"l_scan", "idle"} : pc' = [pc EXCEPT ![w] = to]
      BY <1>17, Zenon DEF ListOpen, ListPacket, ListSkip, ListEnd, Return, Goto
    <2> QED BY <1>18, <2>1
  <1> QED BY <1>5, <1>6, <1>7, <1>8, <1>9, <1>10, <1>11, <1>12, <1>13, <1>14, <1>15, <1>16, <1>17
          DEF Works, Step, workers_handle_pub_register, workers_handle_sub_register,
              workers_handle_manager_create, box_create, workers_handle_manager_remove, box_delete,
              workers_handle_manager_listing

\* A step of w moves no other worker.
LEMMA Alone ==
    ASSUME TypeInv, NEW w \in Workers, Works(w)
    PROVE  \A x \in Workers : x # w => pc'[x] = pc[x] /\ loc'[x] = loc[x]
  <1>1. loc \in [Workers -> Locals]
    BY DEF TypeInv, WorkersOK
  <1>2. \A from, to, r : Moves(w, from, to, r) =>
            \A x \in Workers : x # w => pc'[x] = pc[x] /\ loc'[x] = loc[x]
    BY Places
  <1>3. \A from, to : Finds(w, from, to) \/ Reads(w, from, to) => \E a, b, r : Moves(w, a, b, r)
    BY Zenon DEF Finds, Reads
  <1>4. CASE workers_reception(w) \/ workers_handle_pub_register(w)
    BY <1>1, <1>2, <1>3, <1>4, PubMoves DEF workers_handle_pub_register
  <1>5. CASE workers_handle_sub_register(w)
    BY <1>1, <1>2, <1>3, <1>5, SubMoves DEF workers_handle_sub_register
  <1>6. CASE workers_handle_manager_create(w) \/ workers_handle_manager_remove(w)
    BY <1>1, <1>2, <1>6, ManagerMoves
       DEF workers_handle_manager_create, box_create, workers_handle_manager_remove, box_delete
  <1>7. CASE ManagerAnswer(w) \/ workers_handle_manager_listing(w)
    BY <1>1, <1>2, <1>7, ManagerMoves DEF workers_handle_manager_listing
  <1> QED BY <1>4, <1>5, <1>6, <1>7 DEF Works, Step
-----------------------------------------------------------------------------
(* Files                                                                   *)

\* The larger of two numbers.
LEMMA Larger == \A a, b \in Nat : a <= b => Max({a, b}) = b /\ Max({b, a}) = b
  BY DEF Max

\* A message is written over an old one or, when the handle is at the end, appended.
Written(w, s) ==
    LET f == loc[w].box_f
        o == loc[w].offset
        old == tfs_data[f]
    IN  /\ s \in Seq(Nat)
        /\ Len(s) <= BoxCapacity /\ Len(old) <= Len(s) /\ o + 1 <= Len(s)
        /\ o = Len(old) => s = Append(old, loc[w].message)
        /\ \A k \in 1 .. Len(s) :
               s[k] = loc[w].message \/ (k \in 1 .. Len(old) /\ s[k] = old[k])
        /\ tfs_data' = [tfs_data EXCEPT ![f] = s]

\* tfs_write stops at the end of the block, or writes one message.
LEMMA WriteStep ==
    ASSUME TypeInv, NEW w \in Workers, PubWrite(w)
    PROVE  /\ pc[w] = "p_write" /\ loc[w].box_f \in Files /\ loc[w].message \in 1 .. n_messages
           /\ UNCHANGED tfs_dir
           /\ \/ UNCHANGED <<tfs_data, published>> /\ Moves(w, "p_write", "p_leave", loc[w])
              \/ /\ \E s : Written(w, s)
                 /\ published' = [published EXCEPT ![loc[w].box_f] = Append(@, loc[w].message)]
                 /\ Moves(w, "p_write", "p_update", [loc[w] EXCEPT !.offset = @ + 1])
  <1> PICK l : l = loc[w]
    OBVIOUS
  <1>1. l \in Locals /\ SetAt(pc[w], l) /\ loc \in [Workers -> Locals]
    BY Places
  <1>2. pc[w] = "p_write" /\ UNCHANGED tfs_dir
    BY Zenon DEF PubWrite, tfs
  <1>3. PICK f, o, m : f = l.box_f /\ o = l.offset /\ m = l.message
    OBVIOUS
  <1>4. f \in Files /\ o \in Nat /\ m \in Nat /\ m > 0
    BY <1>1, <1>2, <1>3 DEF Locals, SetAt, Session, PubSession
  <1>5. m \in 1 .. n_messages
    BY <1>3, <1>4 DEF TypeInv, WorkersOK, RequestsOK
  <1>6. PICK old : old = tfs_data[f]
    OBVIOUS
  <1>7. old \in Seq(Nat) /\ Len(old) <= BoxCapacity /\ o <= Len(old)
    BY <1>2, <1>3, <1>4, <1>6 DEF TypeInv, FilesOK, Session, PubSession
  <1>8. CASE o = BoxCapacity
    <2>1. UNCHANGED tfs /\ pc' = [pc EXCEPT ![w] = "p_leave"] /\ UNCHANGED loc
      <3>1. ~(o < BoxCapacity)
        BY <1>8, Constants
      <3> QED BY <1>3, <3>1, Zenon DEF PubWrite, Goto
    <2>2. loc' = [loc EXCEPT ![w] = l]
      BY <1>1, <2>1
    <2> QED BY <1>2, <1>3, <1>4, <1>5, <2>1, <2>2 DEF tfs, Moves
  <1>9. CASE o < BoxCapacity
    <2>1. PICK n : n = Max({o + 1, Len(old)})
      OBVIOUS
    <2>2. PICK s : s = [k \in 1 .. n |-> IF k = o + 1 THEN m ELSE old[k]]
      OBVIOUS
    <2>3. /\ tfs_data' = [tfs_data EXCEPT ![f] = s]
          /\ published' = [published EXCEPT ![f] = Append(published[f], m)]
          /\ pc' = [pc EXCEPT ![w] = "p_update"]
          /\ loc' = [loc EXCEPT ![w] = [l EXCEPT !.offset = l.offset + 1]]
      <3>1. o # BoxCapacity
        BY <1>4, <1>9, Constants
      <3> QED BY <1>3, <1>6, <2>1, <2>2, <3>1, Zenon DEF PubWrite, Goto
    <2>4. n \in Nat /\ n <= BoxCapacity /\ Len(old) <= n /\ o + 1 <= n
             /\ (o = Len(old) => n = Len(old) + 1) /\ (o # Len(old) => n = Len(old))
      <3>1. CASE o = Len(old)
        <4>1. n = o + 1
          BY <1>4, <1>7, <2>1, <3>1, Larger
        <4> QED BY <1>4, <1>7, <1>9, <3>1, <4>1, Constants
      <3>2. CASE o # Len(old)
        <4>1. n = Len(old)
          BY <1>4, <1>7, <2>1, <3>2, Larger, SMTT(60)
        <4> QED BY <1>4, <1>7, <1>9, <3>2, <4>1, Constants
      <3> QED BY <3>1, <3>2
    <2>5. \A k \in 1 .. n : k # o + 1 => k \in 1 .. Len(old)
      BY <1>4, <1>7, <2>4
    <2>6. s \in Seq(Nat) /\ Len(s) = n
      BY <1>4, <1>7, <2>2, <2>4, <2>5
    <2>7. \A k \in 1 .. Len(s) : s[k] = m \/ (k \in 1 .. Len(old) /\ s[k] = old[k])
      BY <2>2, <2>5, <2>6
    <2>8. o = Len(old) => s = Append(old, m)
      <3> SUFFICES ASSUME o = Len(old)
                   PROVE  s = Append(old, m)
        OBVIOUS
      <3>1. PICK t : t = Append(old, m)
        OBVIOUS
      <3>2. /\ t \in Seq(Nat) /\ Len(t) = o + 1 /\ t[o + 1] = m
            /\ \A k \in 1 .. Len(old) : t[k] = old[k]
        BY <1>4, <1>7, <3>1
      <3>3. \A k \in 1 .. o + 1 : s[k] = t[k]
        BY <1>4, <2>2, <2>4, <2>5, <3>2
      <3>4. s = [k \in 1 .. o + 1 |-> s[k]] /\ t = [k \in 1 .. o + 1 |-> t[k]]
        BY <1>4, <2>4, <2>6, <3>2
      <3> QED BY <3>1, <3>3, <3>4
    <2>9. Written(w, s)
      BY <1>3, <1>6, <2>3, <2>4, <2>6, <2>7, <2>8 DEF Written
    <2> QED BY <1>2, <1>3, <1>4, <1>5, <2>3, <2>9 DEF Moves
  <1> QED BY <1>4, <1>7, <1>8, <1>9, Constants

\* What is to be shown of the files: a file in use does not shrink.
FilesGrow ==
    \A f \in Files : /\ Len(tfs_data'[f]) <= BoxCapacity
                     /\ \A k \in 1 .. Len(tfs_data'[f]) : tfs_data'[f][k] \in 1 .. n_messages
                     /\ f \in Live => Len(tfs_data[f]) <= Len(tfs_data'[f])

\* The files a step leaves have their types.
LEMMA FilesTyped ==
    ASSUME TypeInv, NEW w \in Workers, Works(w)
    PROVE  /\ tfs_dir' \in [BoxNames -> Files \cup {NoFile}]
           /\ tfs_data' \in [Files -> Seq(Nat)] /\ published' \in [Files -> Seq(Nat)]
           /\ FilesGrow
  <1>1. /\ tfs_dir \in [BoxNames -> Files \cup {NoFile}]
        /\ tfs_data \in [Files -> Seq(Nat)] /\ published \in [Files -> Seq(Nat)]
        /\ \A f \in Files :
               /\ Len(tfs_data[f]) <= BoxCapacity
               /\ \A k \in 1 .. Len(tfs_data[f]) : tfs_data[f][k] \in 1 .. n_messages
    BY DEF TypeInv, FilesOK
  <1>2. UNCHANGED tfs_data => FilesGrow
    BY <1>1 DEF FilesGrow
  <1>3. CASE PubWrite(w)
    <2>1. PICK f, m : f = loc[w].box_f /\ m = loc[w].message
      OBVIOUS
    <2>2. f \in Files /\ m \in 1 .. n_messages /\ UNCHANGED tfs_dir /\ n_messages \in Nat
      BY <1>3, <2>1, WriteStep DEF TypeInv, RequestsOK
    <2>3. CASE UNCHANGED <<tfs_data, published>>
      BY <1>1, <1>2, <2>2, <2>3
    <2>4. CASE ~UNCHANGED <<tfs_data, published>>
      <3>1. PICK s : Written(w, s)
        BY <1>3, <2>4, WriteStep
      <3>2. published' = [published EXCEPT ![f] = Append(published[f], m)]
        BY <1>3, <2>1, <2>4, WriteStep
      <3>3. published' \in [Files -> Seq(Nat)]
        BY <1>1, <2>2, <3>2
      <3>4. PICK old : old = tfs_data[f]
        OBVIOUS
      <3>5. /\ s \in Seq(Nat) /\ Len(s) <= BoxCapacity /\ Len(old) <= Len(s)
            /\ \A k \in 1 .. Len(s) : s[k] = m \/ (k \in 1 .. Len(old) /\ s[k] = old[k])
            /\ tfs_data' = [tfs_data EXCEPT ![f] = s]
        BY <2>1, <3>1, <3>4 DEF Written
      <3>6. \A k \in 1 .. Len(old) : old[k] \in 1 .. n_messages
        BY <1>1, <2>2, <3>4
      <3>7. \A k \in 1 .. Len(s) : s[k] \in 1 .. n_messages
        BY <2>2, <3>5, <3>6
      <3>8. /\ tfs_data' \in [Files -> Seq(Nat)] /\ tfs_data'[f] = s
            /\ \A g \in Files : g # f => tfs_data'[g] = tfs_data[g]
        BY <1>1, <2>2, <3>5
      <3>9. FilesGrow
        BY <1>1, <2>2, <3>4, <3>5, <3>7, <3>8 DEF FilesGrow
      <3> QED BY <1>1, <2>2, <3>3, <3>8, <3>9
    <2> QED BY <2>3, <2>4
  <1>4. CASE CreateFile(w)
    <2>1. CASE UNCHANGED tfs
      BY <1>1, <1>2, <2>1 DEF tfs
    <2>2. CASE ~UNCHANGED tfs
      <3>1. PICK f \in Files : /\ f \notin Live
                               /\ tfs_dir' = [tfs_dir EXCEPT ![Name(w)] = f]
                               /\ tfs_data' = [tfs_data EXCEPT ![f] = << >>]
                               /\ published' = [published EXCEPT ![f] = << >>]
        BY <1>4, <2>2, CreatedFile
      <3>2. /\ tfs_data' \in [Files -> Seq(Nat)] /\ tfs_data'[f] = << >>
            /\ \A g \in Files : g # f => tfs_data'[g] = tfs_data[g]
        BY <1>1, <3>1
      <3>3. FilesGrow
        BY <1>1, <3>1, <3>2, Constants DEF FilesGrow
      <3>4. tfs_dir' \in [BoxNames -> Files \cup {NoFile}]
        BY <1>1, <3>1
      <3>5. published' \in [Files -> Seq(Nat)]
        BY <1>1, <3>1
      <3> QED BY <3>2, <3>3, <3>4, <3>5
    <2> QED BY <2>1, <2>2
  <1>5. CASE UNCHANGED <<tfs_data, published>> /\ (RemoveUnlink(w) \/ UNCHANGED tfs_dir)
    <2>1. tfs_dir' \in [BoxNames -> Files \cup {NoFile}]
      BY <1>1, <1>5 DEF RemoveUnlink
    <2> QED BY <1>1, <1>2, <1>5, <2>1
  <1>6. UntouchedFiles(w)
    BY Frames
  <1>7. PubWrite(w) \/ CreateFile(w) \/ UNCHANGED <<tfs_data, published>>
    BY <1>6 DEF UntouchedFiles
  <1>8. CreateFile(w) \/ RemoveUnlink(w) \/ UNCHANGED tfs_dir
    BY <1>6 DEF UntouchedFiles
  <1> QED BY <1>3, <1>4, <1>5, <1>7, <1>8

\* No handle is beyond the end of its file, for none that is in use is emptied.
LEMMA FilesStep ==
    ASSUME TypeInv, NEW w \in Workers, Works(w)
    PROVE  FilesOK'
  <1>1. /\ tfs_dir' \in [BoxNames -> Files \cup {NoFile}]
        /\ tfs_data' \in [Files -> Seq(Nat)] /\ published' \in [Files -> Seq(Nat)]
        /\ FilesGrow
    BY FilesTyped
  <1>2. \A f \in Files : /\ Len(tfs_data'[f]) <= BoxCapacity
                         /\ \A k \in 1 .. Len(tfs_data'[f]) : tfs_data'[f][k] \in 1 .. n_messages'
    <2>1. n_messages \in Nat /\ n_messages' \in Nat /\ n_messages <= n_messages'
      BY GoodMove
    <2> QED BY <1>1, <2>1 DEF FilesGrow
  <1>3. ASSUME NEW x \in Workers, pc'[x] \in Session
        PROVE  loc'[x].offset <= Len(tfs_data'[loc'[x].box_f])
    <2>1. PICK f, o : f = loc[x].box_f /\ o = loc[x].offset
      OBVIOUS
    <2>2. f \in Live
      BY <2>1, Zenon DEF Live
    <2>3. loc[x] \in Locals /\ SetAt(pc[x], loc[x])
      BY Places
    <2>4. o \in Nat
      BY <2>1, <2>3 DEF Locals
    <2>5. pc[x] \in Session =>
              /\ f \in Files /\ o <= Len(tfs_data[f]) /\ Len(tfs_data[f]) \in Nat
              /\ Len(tfs_data'[f]) \in Nat /\ Len(tfs_data[f]) <= Len(tfs_data'[f])
      <3>1. pc[x] \in Session => f \in Files
        BY <2>1, <2>3 DEF SetAt
      <3>2. \A g \in Files : Len(tfs_data[g]) \in Nat /\ Len(tfs_data'[g]) \in Nat
        BY <1>1 DEF TypeInv, FilesOK
      <3>3. pc[x] \in Session => o <= Len(tfs_data[f])
        BY <2>1 DEF TypeInv, FilesOK
      <3> QED BY <1>1, <2>2, <3>1, <3>2, <3>3 DEF FilesGrow
    <2>6. CASE x # w
      <3>1. pc'[x] = pc[x] /\ loc'[x] = loc[x]
        BY <2>6, Alone
      <3> QED BY <1>3, <2>1, <2>4, <2>5, <3>1
    <2>7. CASE x = w
      <3>1. CASE Enters(w)
        <4>1. pc[w] \in {"p_register", "s_register"} /\ loc'[w].box_f \in Files
          BY <3>1 DEF Enters
        <4>2. UNCHANGED tfs_data
          <5>1. ~PubWrite(w) /\ ~CreateFile(w)
            BY <4>1, Zenon DEF PubWrite, CreateFile
          <5> QED BY <5>1, Frames DEF UntouchedFiles
        <4>3. Len(tfs_data'[loc'[w].box_f]) \in Nat
          BY <1>1, <4>1
        <4> QED BY <2>7, <3>1, <4>2, <4>3 DEF Enters
      <3>2. CASE Continues(w)
        <4>1. pc[w] \in Session /\ loc'[w].box_f = f
          BY <2>1, <2>7, <3>2 DEF Continues, Same
        <4>2. CASE loc'[w].offset = o
          BY <2>4, <2>5, <2>7, <4>1, <4>2
        <4>3. CASE PubWrite(w) /\ pc'[w] = "p_update" /\ loc'[w].offset = o + 1
          <5>1. ~Moves(w, "p_write", "p_leave", loc[w])
            BY <4>3, Places
          <5>2. PICK s : Written(w, s)
            BY <4>3, <5>1, WriteStep
          <5>3. tfs_data' = [tfs_data EXCEPT ![f] = s] /\ o + 1 <= Len(s)
            BY <2>1, <2>7, <5>2 DEF Written
          <5>4. tfs_data'[f] = s
            BY <2>5, <2>7, <4>1, <5>3 DEF TypeInv, FilesOK
          <5> QED BY <2>7, <4>1, <4>3, <5>3, <5>4
        <4>4. CASE o < Len(tfs_data[f]) /\ loc'[w].offset = o + 1
          BY <2>4, <2>5, <2>7, <4>1, <4>4
        <4> QED BY <2>1, <2>7, <3>2, <4>2, <4>3, <4>4 DEF Continues
      <3> QED BY <1>3, <2>7, <3>1, <3>2, SessionMoves
    <2> QED BY <2>6, <2>7
  <1> QED BY <1>1, <1>2, <1>3 DEF FilesOK

\* The requests in the queue have been sent; managers are answered with 0 or -1.
LEMMA RequestsStep ==
    ASSUME TypeInv, NEW w \in Workers, Works(w)
    PROVE  RequestsOK'
  <1>1. /\ requests_queue \in Seq(Requests)
        /\ \A k \in 1 .. Len(requests_queue) : requests_queue[k] \in sent
        /\ sent \subseteq Requests /\ gone \subseteq sent
        /\ answers \in [Requests -> {NULL, 0, -1}]
    BY DEF TypeInv, RequestsOK
  <1>2. UntouchedFiles(w) /\ n_messages' \in Nat
    BY Frames, GoodMove
  <1>3. /\ requests_queue' \in Seq(Requests)
        /\ \A k \in 1 .. Len(requests_queue') : requests_queue'[k] \in sent
    <2>1. CASE workers_reception(w)
      <3>1. requests_queue # << >> /\ requests_queue' = Tail(requests_queue)
        BY <2>1 DEF workers_reception
      <3> QED BY <1>1, <3>1
    <2> QED BY <1>1, <1>2, <2>1 DEF UntouchedFiles
  <1>4. answers' \in [Requests -> {NULL, 0, -1}]
    <2>1. CASE ManagerAnswer(w)
      <3>1. answers' = [answers EXCEPT ![loc[w].request] = loc[w].return_code]
        BY <2>1 DEF ManagerAnswer
      <3>2. loc[w].return_code \in {0, -1}
        BY Places DEF Locals
      <3> QED BY <1>1, <3>1, <3>2
    <2> QED BY <1>1, <1>2, <2>1 DEF UntouchedFiles
  <1> QED BY <1>1, <1>2, <1>3, <1>4 DEF RequestsOK, UntouchedFiles

\* The steps of the clients, of the main thread and of cond_wait keep the types.
LEMMA OthersTyped ==
    ASSUME TypeInv,
           \/ \E r \in Requests : mbroker_receive_connection(r) \/ ClientQuits(r)
           \/ \E i \in Slots, w \in Workers : SpuriousWakeup(i, w)
           \/ UNCHANGED vars
    PROVE  TypeInv'
  <1>1. CASE \E r \in Requests : mbroker_receive_connection(r) \/ ClientQuits(r)
    <2>1. PICK r \in Requests : mbroker_receive_connection(r) \/ ClientQuits(r)
      BY <1>1
    <2>2. UNCHANGED <<boxes, locks, tfs, pc, loc, answers, n_messages>>
      BY <2>1, OtherFrames
    <2>3. RequestsOK' /\ sent \subseteq sent'
      <3>1. CASE mbroker_receive_connection(r)
        <4>1. sent' = sent \cup {r} /\ requests_queue' = Append(requests_queue, r) /\ UNCHANGED gone
          BY <3>1 DEF mbroker_receive_connection
        <4>2. requests_queue \in Seq(Requests)
          BY DEF TypeInv, RequestsOK
        <4>3. /\ requests_queue' \in Seq(Requests)
              /\ \A k \in 1 .. Len(requests_queue') :
                     requests_queue'[k] = r \/ \E j \in 1 .. Len(requests_queue) :
                         requests_queue'[k] = requests_queue[j]
          BY <4>1, <4>2
        <4> QED BY <2>2, <4>1, <4>3 DEF TypeInv, RequestsOK
      <3>2. CASE ClientQuits(r)
        <4>1. gone' = gone \cup {r} /\ r \in sent /\ UNCHANGED <<requests_queue, sent>>
          BY <3>2 DEF ClientQuits
        <4> QED BY <2>2, <4>1 DEF TypeInv, RequestsOK
      <3> QED BY <2>1, <3>1, <3>2
    <2>4. WorkersOK'
      BY <2>2, <2>3 DEF TypeInv, WorkersOK
    <2>5. TablesOK' /\ FilesOK'
      BY <2>2, Zenon DEF TypeInv, TablesOK, FilesOK, boxes, locks, tfs
    <2> QED BY <2>3, <2>4, <2>5 DEF TypeInv
  <1>2. CASE \E i \in Slots, w \in Workers : SpuriousWakeup(i, w)
    <2>1. PICK i \in Slots, w \in Workers :
              /\ UNCHANGED <<boxes, box_mutex, boxes_rd, boxes_wr, tfs, pc, loc, clients>>
              /\ box_cond' = [box_cond EXCEPT ![i] = @ \ {w}]
      BY <1>2, OtherFrames
    <2>2. box_cond' \in [Slots -> SUBSET Workers]
      BY <2>1 DEF TypeInv, TablesOK
    <2>3. TablesOK'
      BY <2>1, <2>2, Zenon DEF TypeInv, TablesOK, boxes
    <2>4. FilesOK' /\ RequestsOK' /\ WorkersOK'
      BY <2>1, Zenon DEF TypeInv, FilesOK, RequestsOK, WorkersOK, tfs, clients
    <2> QED BY <2>3, <2>4 DEF TypeInv
  <1>3. CASE UNCHANGED vars
    BY <1>3, Zenon
       DEF TypeInv, TablesOK, FilesOK, RequestsOK, WorkersOK, vars, boxes, locks, tfs, clients
  <1> QED BY <1>1, <1>2, <1>3

\* Every step keeps the types.
LEMMA TypeStep ==
    ASSUME TypeInv, [Next]_vars
    PROVE  TypeInv'
  <1>1. ASSUME NEW w \in Workers, Works(w)
        PROVE  TypeInv'
    BY <1>1, TablesTyped, FilesStep, RequestsStep, WorkersStep DEF TypeInv
  <1> QED BY <1>1, Steps, OthersTyped
-----------------------------------------------------------------------------
(* free_boxes_lock                                                         *)

\* The labels a handler takes its worker from and to.
LEMMA Ranges ==
    ASSUME TypeInv, NEW w \in Workers
    PROVE  /\ workers_handle_pub_register(w) =>
                  /\ pc[w] \in PubSession \cup {"p_find", "p_register", "p_close"}
                  /\ pc'[w] \in PubSession \cup {"idle", "p_register", "p_close"}
           /\ workers_handle_sub_register(w) =>
                  /\ pc[w] \in SubSession \cup {"s_find", "s_register", "s_close"}
                  /\ pc'[w] \in SubSession \cup {"idle", "s_register", "s_close"}
           /\ workers_handle_manager_create(w) =>
                  pc[w] \in Creating /\ pc'[w] \in Creating \cup {"m_answer"}
           /\ workers_handle_manager_remove(w) =>
                  pc[w] \in Removing /\ pc'[w] \in {"r_free", "r_unlink", "m_answer"}
           /\ ManagerAnswer(w) => pc[w] = "m_answer" /\ pc'[w] = "idle"
           /\ workers_handle_manager_listing(w) =>
                  pc[w] \in Listing /\ pc'[w] \in {"l_scan", "idle"}
  <1>1. \A to : pc' = [pc EXCEPT ![w] = to] => pc'[w] = to
    BY DEF TypeInv, WorkersOK
  <1>2. ASSUME workers_handle_pub_register(w)
        PROVE  /\ pc[w] \in PubSession \cup {"p_find", "p_register", "p_close"}
               /\ \E to \in PubSession \cup {"idle", "p_register", "p_close"} :
                      pc' = [pc EXCEPT ![w] = to]
    <2>1. CASE PubFind(w) \/ PubRegister(w) \/ PubCode(w) \/ tfs_close(w, "p_close")
      BY <2>1, Zenon DEF PubFind, box_find, PubRegister, PubCode, tfs_close, Return, Goto,
                         PubSession
    <2>2. CASE PubCheck(w) \/ PubWrite(w) \/ PubUpdate(w) \/ PubLeave(w)
      BY <2>2, Zenon DEF PubCheck, PubWrite, PubUpdate, PubLeave, Leave, Goto, PubSession
    <2> QED BY <1>2, <2>1, <2>2 DEF workers_handle_pub_register
  <1>3. ASSUME workers_handle_sub_register(w)
        PROVE  /\ pc[w] \in SubSession \cup {"s_find", "s_register", "s_close"}
               /\ \E to \in SubSession \cup {"idle", "s_register", "s_close"} :
                      pc' = [pc EXCEPT ![w] = to]
    <2>1. CASE SubFind(w) \/ SubRegister(w) \/ SubLock(w) \/ SubTest(w) \/ tfs_close(w, "s_close")
      BY <2>1, Zenon DEF SubFind, box_find, SubRegister, SubLock, SubTest, tfs_close, Return,
                         Goto,
                         SubSession
    <2>2. CASE SubWait(w) \/ SubWake(w) \/ SubCheck(w) \/ SubSend(w) \/ SubMore(w) \/ SubLeave(w)
      BY <2>2, Zenon DEF SubWait, SubWake, SubCheck, SubSend, SubMore, SubLeave, Leave, Goto,
                         SubSession
    <2> QED BY <1>3, <2>1, <2>2 DEF workers_handle_sub_register
  <1>4. ASSUME workers_handle_manager_create(w)
        PROVE  /\ pc[w] \in Creating
               /\ \E to \in Creating \cup {"m_answer"} : pc' = [pc EXCEPT ![w] = to]
    BY <1>4, Zenon DEF workers_handle_manager_create, box_create, CreateExists, CreateFile,
                       BoxClaim,
                       BoxClear, BoxFill, CreateClose, Outcome, Goto, Creating
  <1>5. ASSUME workers_handle_manager_remove(w)
        PROVE  /\ pc[w] \in Removing
               /\ \E to \in {"r_free", "r_unlink", "m_answer"} : pc' = [pc EXCEPT ![w] = to]
    BY <1>5, Zenon DEF workers_handle_manager_remove, box_delete, BoxMissing, BoxFound, BoxFree,
                       RemoveUnlink, Outcome, Goto, Removing
  <1>6. ManagerAnswer(w) => pc[w] = "m_answer" /\ pc' = [pc EXCEPT ![w] = "idle"]
    BY Zenon DEF ManagerAnswer, Return, Goto
  <1>7. ASSUME workers_handle_manager_listing(w)
        PROVE  /\ pc[w] \in Listing
               /\ \E to \in {"l_scan", "idle"} : pc' = [pc EXCEPT ![w] = to]
    BY <1>7, Zenon DEF workers_handle_manager_listing, ListOpen, ListPacket, ListSkip, ListEnd,
                       Return, Goto, Listing
  <1> QED BY <1>1, <1>2, <1>3, <1>4, <1>5, <1>6, <1>7, Zenon

\* A request is handed to the handler of its kind.
LEMMA Handled ==
    ASSUME TypeInv, NEW w \in Workers, workers_reception(w)
    PROVE  /\ requests_queue # << >> /\ pc[w] = "idle"
           /\ pc'[w] \in {"p_find", "s_find", "c_exists", "r_delete", "l_open"}
  <1>1. pc[w] = "idle" /\ pc'[w] = Handler[Head(requests_queue).code] /\ requests_queue # << >>
    <2>1. /\ pc[w] = "idle" /\ requests_queue # << >>
          /\ pc' = [pc EXCEPT ![w] = Handler[Head(requests_queue).code]]
      BY DEF workers_reception, Goto
    <2> QED BY <2>1 DEF TypeInv, WorkersOK
  <1>2. Head(requests_queue) \in Requests
    BY <1>1 DEF TypeInv, RequestsOK
  <1> QED BY <1>1, <1>2, Constants DEF Handler, Codes

\* The steps by which a worker begins or ends to hold free_boxes_lock.
LockSteps(w) ==
    \/ BoxFound(w) \/ BoxFree(w)
    \/ ListOpen(w) \/ ListPacket(w) \/ ListSkip(w) \/ ListEnd(w)

\* Steps that do not touch free_boxes_lock stay off the labels that hold it.
LEMMA OtherLabels ==
    ASSUME TypeInv, NEW w \in Workers, Works(w), ~LockSteps(w)
    PROVE  pc[w] \notin {"r_free", "l_scan"} /\ pc'[w] \notin {"r_free", "l_scan"}
  <1>1. CASE workers_reception(w)
    BY <1>1, Handled
  <1>2. CASE workers_handle_pub_register(w)
    BY <1>2, Ranges DEF PubSession
  <1>3. CASE workers_handle_sub_register(w)
    BY <1>3, Ranges DEF SubSession
  <1>4. CASE workers_handle_manager_create(w)
    BY <1>4, Ranges DEF Creating
  <1>5. CASE BoxMissing(w) \/ RemoveUnlink(w) \/ ManagerAnswer(w)
    <2>1. /\ pc[w] \in {"r_delete", "r_unlink", "m_answer"}
          /\ \E to \in {"m_answer", "idle"} : pc' = [pc EXCEPT ![w] = to]
      BY <1>5, Zenon DEF BoxMissing, RemoveUnlink, ManagerAnswer, Outcome, Return, Goto
    <2> QED BY <2>1 DEF TypeInv, WorkersOK
  <1> QED BY <1>1, <1>2, <1>3, <1>4, <1>5
          DEF Works, Step, LockSteps, workers_handle_manager_remove, box_delete,
              workers_handle_manager_listing

\* What the steps of LockSteps do.
LEMMA LockMoves ==
    ASSUME TypeInv, NEW w \in Workers
    PROVE  /\ BoxFound(w) =>
                  /\ boxes_wr = NULL /\ boxes_rd = {} /\ boxes_wr' = w /\ pc[w] = "r_delete"
                  /\ pc'[w] = "r_free" /\ UNCHANGED <<boxes, boxes_rd>>
                  /\ loc'[w].box_i \in Slots /\ free_boxes[loc'[w].box_i] = "TAKEN"
           /\ BoxFree(w) =>
                  /\ pc[w] = "r_free" /\ boxes_wr' = NULL /\ pc'[w] = "r_unlink"
                  /\ UNCHANGED boxes_rd
           /\ ListOpen(w) =>
                  /\ boxes_wr = NULL /\ boxes_rd' = boxes_rd \cup {w} /\ UNCHANGED <<boxes, boxes_wr>>
                  /\ pc[w] = "l_open" /\ pc'[w] = "l_scan" /\ loc'[w].box_i = 0
           /\ ListPacket(w) \/ ListSkip(w) \/ ListEnd(w) =>
                  /\ pc[w] = "l_scan" /\ UNCHANGED <<boxes, boxes_wr>>
                  /\ \/ pc'[w] = "l_scan" /\ UNCHANGED boxes_rd
                     \/ pc'[w] = "idle" /\ boxes_rd' = boxes_rd \ {w}
  <1>1. \A to : pc' = [pc EXCEPT ![w] = to] => pc'[w] = to
    BY DEF TypeInv, WorkersOK
  <1>2. ASSUME BoxFound(w)
        PROVE  /\ boxes_wr = NULL /\ boxes_rd = {} /\ boxes_wr' = w /\ pc[w] = "r_delete"
               /\ pc'[w] = "r_free" /\ UNCHANGED <<boxes, boxes_rd>>
               /\ loc'[w].box_i \in Slots /\ free_boxes[loc'[w].box_i] = "TAKEN"
    <2>1. /\ boxes_wr = NULL /\ boxes_rd = {} /\ boxes_wr' = w
          /\ UNCHANGED <<boxes, boxes_rd>> /\ Matching(Name(w)) # {}
      BY <1>2 DEF BoxFound
    <2>2. PICK i : i = First(Matching(Name(w)))
      OBVIOUS
    <2>3. pc[w] = "r_delete" /\ pc'[w] = "r_free" /\ loc'[w] = [loc[w] EXCEPT !.box_i = i]
      <3>1. Moves(w, "r_delete", "r_free", [loc[w] EXCEPT !.box_i = i])
        BY <1>2, <2>2, Zenon DEF BoxFound, Goto, Moves
      <3> QED BY <3>1, Places, ZenonT(60)
    <2>4. i \in Matching(Name(w)) /\ i \in Slots
      <3>1. Matching(Name(w)) \in SUBSET Slots
        BY DEF Matching
      <3> QED BY <2>1, <2>2, <3>1, FirstSlot
    <2>5. loc'[w].box_i = i
      BY <2>3, Places DEF Locals
    <2> QED BY <2>1, <2>3, <2>4, <2>5 DEF Matching
  <1>3. BoxFree(w) => /\ pc[w] = "r_free" /\ boxes_wr' = NULL /\ pc'[w] = "r_unlink"
                      /\ UNCHANGED boxes_rd
    BY <1>1, Zenon DEF BoxFree, Goto
  <1>4. ASSUME ListOpen(w)
        PROVE  /\ boxes_wr = NULL /\ boxes_rd' = boxes_rd \cup {w} /\ UNCHANGED <<boxes, boxes_wr>>
               /\ pc[w] = "l_open" /\ pc'[w] = "l_scan" /\ loc'[w].box_i = 0
    <2>1. boxes_wr = NULL /\ boxes_rd' = boxes_rd \cup {w} /\ UNCHANGED <<boxes, boxes_wr>>
      BY <1>4 DEF ListOpen
    <2>2. pc[w] = "l_open" /\ pc'[w] = "l_scan" /\ loc'[w] = [loc[w] EXCEPT !.box_i = 0]
      <3>1. Moves(w, "l_open", "l_scan", [loc[w] EXCEPT !.box_i = 0])
        BY <1>4, Zenon DEF ListOpen, Goto, Moves
      <3> QED BY <3>1, Places, ZenonT(60)
    <2> QED BY <2>1, <2>2, Places DEF Locals
  <1>5. ListPacket(w) \/ ListSkip(w) \/ ListEnd(w) =>
            /\ pc[w] = "l_scan" /\ UNCHANGED <<boxes, boxes_wr>>
            /\ \/ pc'[w] = "l_scan" /\ UNCHANGED boxes_rd
               \/ pc'[w] = "idle" /\ boxes_rd' = boxes_rd \ {w}
    BY <1>1, Zenon DEF ListPacket, ListSkip, ListEnd, Goto, Return, locks
  <1> QED BY <1>2, <1>3, <1>4, <1>5

\* The lock is held by those whose label says so.
LEMMA LocksStep ==
    ASSUME TypeInv, LocksHeld, NEW w \in Workers, Works(w)
    PROVE  LocksHeld'
  <1>1. /\ \A x \in Workers : x # w => pc'[x] = pc[x] /\ loc'[x] = loc[x]
        /\ Untouched(w)
    BY Alone, Frames
  <1>2. NULL \notin Workers
    BY Constants
  <1>3. CASE ~LockSteps(w)
    <2>1. pc[w] \notin {"r_free", "l_scan"} /\ pc'[w] \notin {"r_free", "l_scan"}
      BY <1>3, OtherLabels
    <2>2. UNCHANGED <<boxes_wr, boxes_rd>>
      BY <1>1, <1>3 DEF Untouched, LockSteps
    <2>3. boxes_wr = NULL \/ UNCHANGED free_boxes
      BY <1>1, <1>3, ClaimStep DEF Untouched, LockSteps
    <2> QED BY <1>1, <1>2, <2>1, <2>2, <2>3 DEF LocksHeld
  <1>4. CASE BoxFound(w)
    <2>1. /\ boxes_wr = NULL /\ boxes_rd = {} /\ boxes_wr' = w /\ pc[w] = "r_delete"
          /\ pc'[w] = "r_free" /\ UNCHANGED <<boxes, boxes_rd>>
          /\ free_boxes[loc'[w].box_i] = "TAKEN"
      BY <1>4, LockMoves
    <2> QED BY <1>1, <1>2, <2>1 DEF LocksHeld, boxes
  <1>5. CASE BoxFree(w)
    <2>1. pc[w] = "r_free" /\ boxes_wr' = NULL /\ pc'[w] = "r_unlink" /\ UNCHANGED boxes_rd
      BY <1>5, LockMoves
    <2> QED BY <1>1, <1>2, <2>1 DEF LocksHeld
  <1>6. CASE ListOpen(w)
    <2>1. /\ boxes_wr = NULL /\ boxes_rd' = boxes_rd \cup {w} /\ UNCHANGED <<boxes, boxes_wr>>
          /\ pc[w] = "l_open" /\ pc'[w] = "l_scan"
      BY <1>6, LockMoves
    <2> QED BY <1>1, <1>2, <2>1 DEF LocksHeld, boxes
  <1>7. CASE ListPacket(w) \/ ListSkip(w) \/ ListEnd(w)
    <2>1. /\ pc[w] = "l_scan" /\ UNCHANGED <<boxes, boxes_wr>>
          /\ \/ pc'[w] = "l_scan" /\ UNCHANGED boxes_rd
             \/ pc'[w] = "idle" /\ boxes_rd' = boxes_rd \ {w}
      BY <1>7, LockMoves
    <2> QED BY <1>1, <1>2, <2>1 DEF LocksHeld, boxes
  <1> QED BY <1>3, <1>4, <1>5, <1>6, <1>7 DEF LockSteps
-----------------------------------------------------------------------------
(* Counts                                                                  *)

\* The slots are finite in number.
LEMMA SlotsFinite ==
    ASSUME NEW S \in SUBSET Slots
    PROVE  IsFiniteSet(S) /\ Cardinality(S) \in 0 .. InodeCount
  <1>1. 0 \in Int /\ InodeCount - 1 \in Int /\ ~(0 > InodeCount - 1)
    BY Constants
  <1>2. IsFiniteSet(Slots) /\ Cardinality(Slots) = InodeCount - 1 - 0 + 1
    BY <1>1, FS_Interval, Zenon DEF Slots
  <1>3. Cardinality(Slots) = InodeCount
    BY <1>2, Constants
  <1>4. IsFiniteSet(S) /\ Cardinality(S) <= InodeCount
    BY <1>2, <1>3, FS_Subset
  <1>5. Cardinality(S) \in Nat
    BY <1>4, FS_CardinalityType
  <1> QED BY <1>4, <1>5, Constants

\* n_boxes is the number of slots that are taken.
LEMMA BoxesStep ==
    ASSUME TypeInv, LocksHeld, BoxesCounted, NEW w \in Workers, Works(w)
    PROVE  BoxesCounted'
  <1>1. IsFiniteSet(Taken) /\ Cardinality(Taken) \in 0 .. InodeCount
    BY SlotsFinite DEF Taken
  <1>2. free_boxes \in [Slots -> {"FREE", "TAKEN"}]
    BY DEF TypeInv, TablesOK
  <1>3. CASE UNCHANGED <<n_boxes, free_boxes>>
    BY <1>3 DEF BoxesCounted, Taken
  <1>4. CASE BoxClaim(w) /\ ~UNCHANGED <<n_boxes, free_boxes>>
    <2>1. PICK i \in Slots : /\ free_boxes[i] = "FREE" /\ n_boxes' = n_boxes + 1
                             /\ free_boxes' = [free_boxes EXCEPT ![i] = "TAKEN"]
      BY <1>4, ClaimStep
    <2>2. Taken' = Taken \cup {i} /\ i \notin Taken
      BY <1>2, <2>1 DEF Taken
    <2>3. Cardinality(Taken \cup {i}) = Cardinality(Taken) + 1
      BY <1>1, <2>2, FS_AddElement
    <2> QED BY <2>1, <2>2, <2>3 DEF BoxesCounted
  <1>5. CASE BoxFree(w)
    <2>1. PICK i : i = loc[w].box_i
      OBVIOUS
    <2>2. /\ pc[w] = "r_free" /\ i \in Slots /\ n_boxes' = n_boxes - 1
          /\ free_boxes' = [free_boxes EXCEPT ![i] = "FREE"]
      BY <1>5, <2>1, FreeStep
    <2>3. free_boxes[i] = "TAKEN"
      BY <2>1, <2>2 DEF LocksHeld
    <2>4. Taken' = Taken \ {i} /\ i \in Taken
      BY <1>2, <2>2, <2>3 DEF Taken
    <2>5. Cardinality(Taken \ {i}) = Cardinality(Taken) - 1
      BY <1>1, <2>4, FS_RemoveElement
    <2> QED BY <2>2, <2>4, <2>5 DEF BoxesCounted
  <1> QED BY <1>3, <1>4, <1>5, Frames DEF Untouched

\* A publisher's session ends with its step PubLeave and no other.
LEMMA PubStays ==
    ASSUME TypeInv, NEW w \in Workers, Works(w), pc[w] \in PubSession
    PROVE  \/ PubLeave(w) /\ pc'[w] = "p_close"
           \/ ~PubLeave(w) /\ pc'[w] \in PubSession
  <1>1. \A to : pc' = [pc EXCEPT ![w] = to] => pc'[w] = to
    BY DEF TypeInv, WorkersOK
  <1>2. ~workers_reception(w)
    BY DEF workers_reception, PubSession
  <1>3. ~workers_handle_sub_register(w)
    BY Ranges DEF SubSession, PubSession
  <1>4. /\ ~workers_handle_manager_create(w) /\ ~workers_handle_manager_remove(w)
        /\ ~ManagerAnswer(w) /\ ~workers_handle_manager_listing(w)
    BY Ranges DEF Creating, Removing, Listing, PubSession
  <1>5. ~PubFind(w) /\ ~PubRegister(w) /\ ~tfs_close(w, "p_close")
    <2>1. PubFind(w) \/ PubRegister(w) \/ tfs_close(w, "p_close") =>
              pc[w] \in {"p_find", "p_register", "p_close"}
      BY Zenon DEF PubFind, box_find, PubRegister, tfs_close
    <2> QED BY <2>1 DEF PubSession
  <1>6. CASE PubLeave(w)
    <2>1. pc' = [pc EXCEPT ![w] = "p_close"]
      BY <1>6 DEF PubLeave, Leave, Goto
    <2> QED BY <1>1, <1>6, <2>1
  <1>7. CASE ~PubLeave(w)
    <2>1. \E to \in PubSession : pc' = [pc EXCEPT ![w] = to]
      <3>1. PubCode(w) \/ PubCheck(w) \/ PubWrite(w) \/ PubUpdate(w)
        BY <1>2, <1>3, <1>4, <1>5, <1>7 DEF Works, Step, workers_handle_pub_register
      <3> QED BY <3>1, Zenon DEF PubCode, PubCheck, PubWrite, PubUpdate, Goto, PubSession
    <2> QED BY <1>1, <1>7, <2>1
  <1> QED BY <1>6, <1>7

\* n_publishers counts the sessions of publishers.
LEMMA PublishersStep ==
    ASSUME TypeInv, PublishersCounted, NEW w \in Workers, Works(w)
    PROVE  PublishersCounted'
  <1> PICK s : s = loc[w].box_i
    OBVIOUS
  <1>1. /\ \A x \in Workers : x # w => pc'[x] = pc[x] /\ loc'[x] = loc[x]
        /\ PublishersChange(w)
    BY Alone, TableStep
  <1>2. (0 + 1) % Uint64 = 1 /\ (1 - 1) % Uint64 = 0
    BY Constants
  <1>3. \A x \in Workers : pc[x] \in PubSession => loc[x].box_i \in Slots
    BY Places DEF SetAt, HasSlot, Session
  <1>4. CASE PubLeave(w)
    <2>1. pc[w] = "p_leave"
      BY <1>4 DEF PubLeave, Leave
    <2>2. pc'[w] = "p_close" /\ pc[w] \in PubSession
      BY <1>4, <2>1, PubStays DEF PubSession
    <2>3. boxes_table[s].n_publishers = 1 /\ s \in Slots
      BY <1>3, <2>2 DEF PublishersCounted
    <2>4. /\ boxes_table'[s].n_publishers = 0
          /\ \A i \in Slots : i # s => boxes_table'[i].n_publishers = boxes_table[i].n_publishers
      BY <1>1, <1>2, <1>4, <2>1, <2>3 DEF PublishersChange, PubRegister
    <2>5. pc'[w] \notin PubSession
      BY <2>2 DEF PubSession
    <2>6. \A x \in Workers : pc[x] \in PubSession /\ x # w => loc[x].box_i # s
      BY <2>2 DEF PublishersCounted
    <2> QED BY <1>1, <1>3, <2>2, <2>3, <2>4, <2>5, <2>6 DEF PublishersCounted
  <1>5. CASE PubRegister(w) /\ pc'[w] = "p_code"
    <2>1. pc[w] = "p_register" /\ ~PubLeave(w)
      BY <1>5, Zenon DEF PubRegister, PubLeave, Leave
    <2>2. loc'[w].box_i = s
      BY <1>5, <2>1, SessionMoves DEF Enters, Continues, Same, Session, PubSession
    <2>3. s \in Slots
      BY <2>1, Places DEF SetAt, HasSlot
    <2>4. /\ boxes_table[s].n_publishers = 0 /\ boxes_table'[s].n_publishers = 1
          /\ \A i \in Slots : i # s => boxes_table'[i].n_publishers = boxes_table[i].n_publishers
      BY <1>1, <1>2, <1>5, <2>1, <2>3 DEF PublishersChange
    <2>5. pc'[w] \in PubSession /\ pc[w] \notin PubSession
      BY <1>5, <2>1 DEF PubSession
    <2>6. \A x \in Workers : pc[x] \in PubSession => loc[x].box_i # s
      BY <2>4 DEF PublishersCounted
    <2> QED BY <1>1, <1>3, <2>2, <2>3, <2>4, <2>5, <2>6 DEF PublishersCounted
  <1>6. CASE ~PubLeave(w) /\ ~(PubRegister(w) /\ pc'[w] = "p_code")
    <2>1. \A i \in Slots : boxes_table'[i].n_publishers = boxes_table[i].n_publishers
      BY <1>1, <1>6 DEF PublishersChange
    <2>2. pc[w] \in PubSession => pc'[w] \in PubSession
      BY <1>6, PubStays
    <2>3. pc'[w] \in PubSession => pc[w] \in PubSession /\ loc'[w].box_i = s
      <3> SUFFICES ASSUME pc'[w] \in PubSession
                   PROVE  pc[w] \in PubSession /\ loc'[w].box_i = s
        OBVIOUS
      <3>1. ~Enters(w)
        BY <1>6 DEF Enters, PubSession
      <3>2. Continues(w)
        BY <3>1, SessionMoves DEF Session
      <3> QED BY <3>2 DEF Continues, Same
    <2> QED BY <1>1, <1>3, <2>1, <2>2, <2>3 DEF PublishersCounted
  <1> QED BY <1>4, <1>5, <1>6

\* What a listing has sent when it looks at slot i; ListingCounted says it of each.
Sent(p, i) ==
    /\ n_boxes = 0 => Len(p) = i /\ Len(p) <= 1
    /\ n_boxes > 0 => Len(p) = Cardinality({j \in Taken : j < i})
    /\ \A k \in 1 .. Len(p) : p[k].last <=> (n_boxes = 0 \/ k = n_boxes)

\* A listing that goes on has looked at one more slot.
LEMMA ListMoves ==
    ASSUME TypeInv, BoxesCounted, NEW w \in Workers, pc[w] = "l_scan",
           Sent(loc[w].packets, loc[w].box_i),
           ListPacket(w) \/ ListSkip(w), pc'[w] = "l_scan"
    PROVE  Sent(loc'[w].packets, loc'[w].box_i)
  <1> PICK l : l = loc[w]
    OBVIOUS
  <1> PICK i, p : i = l.box_i /\ p = l.packets
    OBVIOUS
  <1>1. l \in Locals /\ SetAt("l_scan", l) /\ loc \in [Workers -> Locals]
    BY Places
  <1>2. i \in 0 .. InodeCount /\ p \in Seq(Packet)
    BY <1>1 DEF Locals, SetAt
  <1>3. n_boxes \in Nat
    BY SlotsFinite DEF BoxesCounted, Taken
  <1>4. IsFiniteSet({j \in Taken : j < i}) /\ Cardinality({j \in Taken : j < i}) \in Nat
    BY SlotsFinite DEF Taken
  <1>5. Sent(p, i)
    OBVIOUS
  <1>6. i < InodeCount /\ Len(p) <= n_boxes
    BY Zenon DEF ListPacket, ListSkip
  <1>7. i \in Slots /\ i + 1 \in Nat
    BY <1>2, <1>6, Constants DEF Slots
  <1>8. \A j \in Slots : j < i + 1 <=> j < i \/ j = i
    BY <1>2, Constants DEF Slots
  <1>9. CASE ListSkip(w)
    <2>1. n_boxes > 0 /\ free_boxes[i] = "FREE"
      BY <1>9, Zenon DEF ListSkip
    <2>2. loc' = [loc EXCEPT ![w] = [l EXCEPT !.box_i = i + 1]]
      BY <1>9, Zenon DEF ListSkip
    <2>3. loc'[w] = [l EXCEPT !.box_i = i + 1]
      BY <1>1, <2>2
    <2>4. loc'[w].box_i = i + 1 /\ loc'[w].packets = p
      BY <1>1, <2>3 DEF Locals
    <2>5. {j \in Taken : j < i + 1} = {j \in Taken : j < i}
      BY <1>8, <2>1 DEF Taken
    <2>6. n_boxes # 0 /\ Len(p) = Cardinality({j \in Taken : j < i + 1})
      <3>1. Len(p) = Cardinality({j \in Taken : j < i})
        BY <1>5, <2>1, Zenon DEF Sent
      <3>2. n_boxes # 0
        BY <1>3, <2>1
      <3> QED BY <2>5, <3>1, <3>2, Zenon
    <2>7. Sent(p, i + 1)
      BY <1>5, <2>6 DEF Sent
    <2> QED BY <2>4, <2>7
  <1>10. CASE ListPacket(w)
    <2>1. n_boxes = 0 \/ free_boxes[i] = "TAKEN"
      BY <1>10, Zenon DEF ListPacket
    <2>2. PICK e : e = [last |-> n_boxes = 0 \/ Len(p) + 1 = n_boxes,
                        name |-> IF n_boxes = 0 THEN NULL ELSE boxes_table[i].name]
      OBVIOUS
    <2>3. PICK q : q = Append(p, e)
      OBVIOUS
    <2>4. loc'[w] = [l EXCEPT !.box_i = i + 1, !.packets = q]
      <3>1. \/ pc' = [pc EXCEPT ![w] = "idle"]
            \/ loc' = [loc EXCEPT ![w] = [l EXCEPT !.box_i = i + 1, !.packets = q]]
        BY <1>10, <2>2, <2>3, Zenon DEF ListPacket, Goto, Return
      <3>2. pc' # [pc EXCEPT ![w] = "idle"]
        BY DEF TypeInv, WorkersOK
      <3> QED BY <1>1, <3>1, <3>2
    <2>5. loc'[w].box_i = i + 1 /\ loc'[w].packets = q
      BY <1>1, <2>4 DEF Locals
    <2>6. e.last <=> (n_boxes = 0 \/ Len(p) + 1 = n_boxes)
      BY <2>2
    <2>7. boxes_table[i].name \in BoxNames \cup {NULL}
      BY <1>7 DEF TypeInv, TablesOK, Box
    <2>8. e \in Packet
      BY <2>2, <2>7 DEF Packet
    <2>9. /\ Len(q) = Len(p) + 1 /\ q[Len(p) + 1] = e
          /\ \A k \in 1 .. Len(p) : q[k] = p[k]
      BY <1>2, <2>3, <2>8
    <2>10. Len(p) \in Nat
      BY <1>2
    <2>11. \A k \in 1 .. Len(q) : q[k].last <=> (n_boxes = 0 \/ k = n_boxes)
      <3> SUFFICES ASSUME NEW k \in 1 .. Len(q)
                   PROVE  q[k].last <=> (n_boxes = 0 \/ k = n_boxes)
        OBVIOUS
      <3>1. CASE k = Len(p) + 1
        BY <2>6, <2>9, <3>1
      <3>2. CASE k \in 1 .. Len(p)
        BY <1>5, <2>9, <3>2 DEF Sent
      <3> QED BY <2>9, <2>10, <3>1, <3>2
    <2>12. CASE n_boxes = 0
      <3>1. Len(p) = 0 /\ i = 0
        BY <1>2, <1>5, <1>6, <2>10, <2>12 DEF Sent
      <3> QED BY <2>5, <2>9, <2>11, <2>12, <3>1 DEF Sent
    <2>13. CASE n_boxes > 0
      <3>1. free_boxes[i] = "TAKEN"
        BY <2>1, <2>13
      <3>2. /\ {j \in Taken : j < i + 1} = {j \in Taken : j < i} \cup {i}
            /\ i \notin {j \in Taken : j < i}
        BY <1>2, <1>7, <1>8, <3>1 DEF Taken
      <3>3. Cardinality({j \in Taken : j < i} \cup {i}) = Cardinality({j \in Taken : j < i}) + 1
        BY <1>4, <3>2, FS_AddElement
      <3>4. Len(q) = Cardinality({j \in Taken : j < i + 1})
        BY <1>5, <2>9, <2>13, <3>2, <3>3 DEF Sent
      <3> QED BY <2>5, <2>11, <2>13, <3>4 DEF Sent
    <2> QED BY <1>3, <2>12, <2>13
  <1> QED BY <1>9, <1>10

\* The table does not change while a listing reads it.
LEMMA ListingStep ==
    ASSUME TypeInv, LocksHeld, BoxesCounted, ListingCounted, NEW w \in Workers, Works(w)
    PROVE  ListingCounted'
  <1>1. \A x \in Workers : x # w => pc'[x] = pc[x] /\ loc'[x] = loc[x]
    BY Alone
  <1>2. \A x \in Workers : pc[x] = "l_scan" => Sent(loc[x].packets, loc[x].box_i)
    BY DEF ListingCounted, Sent
  <1>3. ASSUME NEW x \in Workers, pc'[x] = "l_scan"
        PROVE  UNCHANGED <<n_boxes, free_boxes>> /\ Sent(loc'[x].packets, loc'[x].box_i)
    <2>1. CASE x # w
      <3>1. pc[x] = "l_scan" /\ loc'[x] = loc[x]
        BY <1>1, <1>3, <2>1
      <3>2. x \in boxes_rd /\ boxes_wr = NULL
        BY <3>1 DEF LocksHeld
      <3>3. ~BoxClaim(w)
        BY <3>2, ClaimStep
      <3>4. ~BoxFree(w)
        BY <3>2, FreeStep, Constants DEF LocksHeld
      <3>5. UNCHANGED <<n_boxes, free_boxes>>
        BY <3>3, <3>4, Frames DEF Untouched
      <3> QED BY <1>2, <3>1, <3>5
    <2>2. CASE x = w
      <3>1. CASE ListOpen(w)
        <4>1. pc[w] = "l_open" /\ loc'[w] = [loc[w] EXCEPT !.box_i = 0] /\ UNCHANGED boxes
          <5>1. Moves(w, "l_open", "l_scan", [loc[w] EXCEPT !.box_i = 0]) /\ UNCHANGED boxes
            BY <3>1, Zenon DEF ListOpen, Goto, Moves
          <5> QED BY <5>1, Places, ZenonT(60)
        <4>2. loc[w].packets = << >>
          BY <4>1, Places DEF SetAt
        <4>3. loc'[w].box_i = 0 /\ loc'[w].packets = << >>
          BY <4>1, <4>2, Places DEF Locals
        <4>4. {j \in Taken : j < 0} = {}
          BY Constants DEF Taken, Slots
        <4>5. Len(<< >>) = 0 /\ Cardinality({j \in Taken : j < 0}) = 0
          BY <4>4, FS_EmptySet
        <4>6. Sent(<< >>, 0)
          BY <4>5 DEF Sent
        <4> QED BY <2>2, <4>1, <4>3, <4>6 DEF boxes
      <3>2. CASE ListPacket(w) \/ ListSkip(w) \/ ListEnd(w)
        <4>1. pc[w] = "l_scan" /\ UNCHANGED boxes
          BY <3>2, LockMoves
        <4>2. ~ListEnd(w)
          <5>1. ListEnd(w) => pc' = [pc EXCEPT ![w] = "idle"]
            BY Zenon DEF ListEnd, Return, Goto
          <5> QED BY <1>3, <2>2, <5>1 DEF TypeInv, WorkersOK
        <4> QED BY <1>2, <1>3, <2>2, <3>2, <4>1, <4>2, ListMoves DEF boxes
      <3>3. CASE BoxFound(w) \/ BoxFree(w)
        BY <1>3, <2>2, <3>3, LockMoves
      <3>4. CASE ~LockSteps(w)
        BY <1>3, <2>2, <3>4, OtherLabels
      <3> QED BY <3>1, <3>2, <3>3, <3>4 DEF LockSteps
    <2> QED BY <2>1, <2>2
  <1> QED BY <1>3, ZenonT(60) DEF ListingCounted, Sent, Taken
-----------------------------------------------------------------------------
(* The invariant of every instance                                         *)

\* Nothing is held, counted or sent at first.
LEMMA InitInv ==
    ASSUME Init
    PROVE  BrokerInv
  <1>1. \A w \in Workers : pc[w] = "idle" /\ loc[w] = NoLocals
    BY Zenon DEF Init
  <1>2. pc \in [Workers -> Labels] /\ loc \in [Workers -> Locals]
    BY NoLocalsOK DEF Init, Labels
  <1>3. TablesOK
    <2>1. 0 \in 0 .. Uint64 - 1
      BY Constants
    <2>2. [name |-> NULL, size |-> 0, n_publishers |-> 0, n_subscribers |-> 0] \in Box
      BY <2>1 DEF Box
    <2>3. boxes_table \in [Slots -> Box]
      BY <2>2 DEF Init
    <2> QED BY <2>3 DEF Init, TablesOK
  <1>4. FilesOK
    <2>1. << >> \in Seq(Nat) /\ Len(<< >>) = 0
      OBVIOUS
    <2>2. /\ tfs_data \in [Files -> Seq(Nat)] /\ published \in [Files -> Seq(Nat)]
          /\ \A f \in Files : tfs_data[f] = << >>
      BY <2>1 DEF Init
    <2>3. tfs_dir \in [BoxNames -> Files \cup {NoFile}]
      BY DEF Init
    <2>4. \A w \in Workers : pc[w] \notin Session
      BY <1>1 DEF Session, PubSession, SubSession
    <2> QED BY <2>1, <2>2, <2>3, <2>4, Constants DEF FilesOK
  <1>5. RequestsOK
    BY DEF Init, RequestsOK
  <1>6. WorkersOK
    <2>1. n_messages = 0
      BY DEF Init
    <2> QED BY <1>1, <1>2, <2>1, NoLocalsOK DEF WorkersOK
  <1>7. LocksHeld
    BY <1>1, Constants DEF Init, LocksHeld
  <1>8. BoxesCounted
    <2>1. Taken = {}
      BY DEF Init, Taken
    <2> QED BY <2>1, FS_EmptySet DEF Init, BoxesCounted
  <1>9. PublishersCounted
    <2>1. \A w \in Workers : pc[w] \notin PubSession
      BY <1>1 DEF PubSession
    <2>2. \A i \in Slots : boxes_table[i].n_publishers = 0
      BY DEF Init
    <2> QED BY <2>1, <2>2 DEF PublishersCounted
  <1>10. ListingCounted
    BY <1>1 DEF ListingCounted
  <1> QED BY <1>3, <1>4, <1>5, <1>6, <1>7, <1>8, <1>9, <1>10 DEF BrokerInv, TypeInv

\* Each part of the invariant is kept by every step.
LEMMA StepInv ==
    ASSUME BrokerInv, [Next]_vars
    PROVE  BrokerInv'
  <1>1. TypeInv /\ LocksHeld /\ BoxesCounted /\ PublishersCounted /\ ListingCounted
    BY DEF BrokerInv
  <1>2. TypeInv'
    BY <1>1, TypeStep
  <1>3. CASE \E w \in Workers : Works(w)
    BY <1>1, <1>2, <1>3, LocksStep, BoxesStep, PublishersStep, ListingStep DEF BrokerInv
  <1>4. CASE UNCHANGED <<boxes, boxes_rd, boxes_wr, pc, loc>>
    <2>1. LocksHeld' /\ BoxesCounted'
      BY <1>1, <1>4, Zenon DEF boxes, LocksHeld, BoxesCounted, Taken
    <2>2. PublishersCounted'
      BY <1>1, <1>4 DEF boxes, PublishersCounted
    <2>3. ListingCounted'
      BY <1>1, <1>4 DEF boxes, ListingCounted, Taken
    <2> QED BY <1>2, <2>1, <2>2, <2>3 DEF BrokerInv
  <1>5. \/ \E w \in Workers : Works(w)
        \/ UNCHANGED <<boxes, boxes_rd, boxes_wr, pc, loc>>
    BY Steps, OtherFrames DEF vars, boxes, locks
  <1> QED BY <1>3, <1>4, <1>5

\* BrokerInv holds in every state of every instance of the broker.
THEOREM BrokerInvariant == Spec => []BrokerInv
  BY InitInv, StepInv, PTL DEF Spec

\* The broker's tables, locks, files and its workers' locals keep their types: n_boxes,
\* a plain counter in box_create and box_delete, stays between 0 and the number of
\* slots, and no write outgrows the block of a file.
THEOREM TypeCorrect == Spec => []TypeOK
  <1>1. BrokerInv => TypeOK
    <2> SUFFICES ASSUME BrokerInv
                 PROVE  TypeOK
      OBVIOUS
    <2>1. TablesOK /\ FilesOK /\ RequestsOK /\ WorkersOK /\ BoxesCounted
      BY DEF BrokerInv, TypeInv
    <2>2. n_boxes \in 0 .. InodeCount
      BY <2>1, SlotsFinite DEF BoxesCounted, Taken
    <2>3. \A f \in Files : /\ Len(tfs_data[f]) <= BoxCapacity
                           /\ Range(tfs_data[f]) \subseteq 1 .. n_messages
      <3>1. \A f \in Files : tfs_data[f] \in Seq(Nat)
        BY <2>1 DEF FilesOK
      <3> QED BY <2>1, <3>1 DEF FilesOK, Range
    <2>4. Range(requests_queue) \subseteq sent
      BY <2>1 DEF RequestsOK, Range
    <2>5. ASSUME NEW w \in Workers
          PROVE  /\ loc[w].box_i \in Slots \cup {-1, InodeCount}
                 /\ loc[w].box_f \in Files \cup {NoFile}
                 /\ loc[w].request \in sent \cup {NULL}
      <3>1. loc[w] \in Locals /\ SetAt(pc[w], loc[w]) /\ loc[w].request \in sent \cup {NULL}
        BY <2>1 DEF WorkersOK
      <3>2. loc[w].box_i \in Slots \cup {-1} \/ loc[w].box_i \in 0 .. InodeCount
        BY <3>1 DEF SetAt
      <3>3. loc[w].box_i \in Slots \cup {-1, InodeCount}
        BY <3>2, Constants DEF Slots
      <3> QED BY <3>1, <3>3 DEF Locals
    <2> QED BY <2>1, <2>2, <2>3, <2>4, <2>5
            DEF TypeOK, TablesOK, Box, FilesOK, RequestsOK, WorkersOK
  <1> QED BY <1>1, BrokerInvariant, PTL

\* The count of publishers of a slot is the number of workers that serve one on it, and
\* at most one, whatever boxes the slot was given to in between: the test that refuses
\* a second publisher looks at the truth.
THEOREM PublishersAreExact == Spec => []PublishersExact
  <1>1. BrokerInv => PublishersExact
    <2> SUFFICES ASSUME BrokerInv, NEW i \in Slots
                 PROVE  /\ boxes_table[i].n_publishers <= 1
                        /\ boxes_table[i].n_publishers = Cardinality(
                               {w \in Workers : pc[w] \in PubSession /\ loc[w].box_i = i})
      BY DEF PublishersExact
    <2> DEFINE P == {w \in Workers : pc[w] \in PubSession /\ loc[w].box_i = i}
    <2>1. /\ boxes_table[i].n_publishers \in {0, 1}
          /\ boxes_table[i].n_publishers = 0 => P = {}
          /\ boxes_table[i].n_publishers = 1 => \E w : P = {w}
      <3>1. PublishersCounted
        BY DEF BrokerInv
      <3>2. \A w \in P, x \in P : w = x
        BY <3>1 DEF PublishersCounted
      <3>3. boxes_table[i].n_publishers = 1 => \E w : w \in P
        BY <3>1 DEF PublishersCounted
      <3>4. \A w \in P : boxes_table[i].n_publishers = 1
        BY <3>1 DEF PublishersCounted
      <3>5. boxes_table[i].n_publishers \in {0, 1}
        BY <3>1 DEF PublishersCounted
      <3> HIDE DEF P
      <3>6. \A w \in P : P = {w}
        BY <3>2
      <3>7. boxes_table[i].n_publishers = 1 => \E w : P = {w}
        BY <3>3, <3>6
      <3>8. boxes_table[i].n_publishers = 0 => P = {}
        BY <3>4
      <3> QED BY <3>5, <3>7, <3>8
    <2> HIDE DEF P
    <2>2. boxes_table[i].n_publishers = Cardinality(P)
      BY <2>1, FS_EmptySet, FS_Singleton
    <2> QED BY <2>1, <2>2 DEF P
  <1> QED BY <1>1, BrokerInvariant, PTL

\* A listing that is not given up sends one packet for each box, or an empty one, and
\* marks the last one: free_boxes_lock, held to the end, keeps the count it compares
\* with and the slots it reads in step.
THEOREM ListingsAreExact == Spec => []ListingExact
  <1>1. BrokerInv => ListingExact
    <2> SUFFICES ASSUME BrokerInv, NEW w \in Workers, pc[w] = "l_scan", ListEnds(w)
                 PROVE  /\ Len(loc[w].packets) = Max({1, Cardinality(Taken)})
                        /\ \A k \in 1 .. Len(loc[w].packets) :
                               loc[w].packets[k].last <=> k = Len(loc[w].packets)
      BY Zenon DEF ListingExact, Taken
    <2> PICK i, p : i = loc[w].box_i /\ p = loc[w].packets
      OBVIOUS
    <2>1. n_boxes = Cardinality(Taken) /\ IsFiniteSet(Taken) /\ n_boxes \in Nat
      BY SlotsFinite DEF BrokerInv, BoxesCounted, Taken
    <2>2. i \in 0 .. InodeCount /\ p \in Seq(Packet)
      <3>1. TypeInv
        BY DEF BrokerInv
      <3> QED BY <3>1, Places DEF SetAt, Locals
    <2>3. /\ n_boxes = 0 => Len(p) = i /\ Len(p) <= 1
          /\ n_boxes > 0 => Len(p) = Cardinality({j \in Taken : j < i})
          /\ \A k \in 1 .. Len(p) : p[k].last <=> (n_boxes = 0 \/ k = n_boxes)
      BY Zenon DEF BrokerInv, ListingCounted
    <2>4. Len(p) > n_boxes \/ i = InodeCount
      BY DEF ListEnds
    <2>5. CASE n_boxes = 0
      <3>1. Len(p) = 1
        <4>1. Len(p) \in Nat
          BY <2>2
        <4>2. Len(p) = i /\ Len(p) <= 1
          BY <2>3, <2>5, Zenon
        <4> QED BY <2>2, <2>4, <2>5, <4>1, <4>2, Constants
      <3>2. Max({1, 0}) = 1
        BY Larger
      <3> QED BY <2>1, <2>3, <2>5, <3>1, <3>2
    <2>6. CASE n_boxes > 0
      <3>1. Cardinality({j \in Taken : j < i}) <= n_boxes
        BY <2>1, FS_Subset
      <3>2. Len(p) \in Nat /\ Len(p) <= n_boxes
        BY <2>2, <2>3, <2>6, <3>1
      <3>3. i = InodeCount
        BY <2>1, <2>4, <3>2
      <3>4. {j \in Taken : j < i} = Taken
        BY <3>3, Constants DEF Taken, Slots
      <3>5. Len(p) = n_boxes
        BY <2>1, <2>3, <2>6, <3>4
      <3>6. Max({1, n_boxes}) = n_boxes
        BY <2>1, <2>6, Larger
      <3> QED BY <2>1, <2>3, <2>6, <3>5, <3>6
    <2> QED BY <2>1, <2>5, <2>6
  <1> QED BY <1>1, BrokerInvariant, PTL
-----------------------------------------------------------------------------
(* Requests and files                                                      *)

\* How a step changes the request a worker serves and the file it has open.
FileMoves(w) ==
    \/ pc'[w] = "idle" /\ loc'[w] = NoLocals
    \/ /\ workers_reception(w) /\ pc[w] = "idle"
       /\ loc'[w].request = Head(requests_queue) /\ loc'[w].box_f = loc[w].box_f
    \/ /\ loc'[w].request = loc[w].request
       /\ \/ loc'[w].box_f \in {NoFile, loc[w].box_f}
          \/ /\ ~CreateFile(w) /\ ~RemoveUnlink(w) /\ loc'[w].box_f = tfs_dir[Name(w)]
             /\ tfs_dir[Name(w)] # NoFile /\ Name(w) \in BoxNames
          \/ CreateFile(w)

\* Each step changes request and file in one of these ways.
LEMMA Followed ==
    ASSUME TypeInv, NEW w \in Workers, Works(w)
    PROVE  FileMoves(w)
  <1> PICK l : l = loc[w]
    OBVIOUS
  <1>1. \A from, to, r : Moves(w, from, to, r) => pc[w] = from /\ pc'[w] = to /\ loc'[w] = r
    BY Places
  <1>2. l \in Locals /\ SetAt(pc[w], l) /\ loc \in [Workers -> Locals]
    BY Places
  <1>3. \A from, to : Moves(w, from, to, l) => FileMoves(w)
    BY <1>1 DEF FileMoves
  <1>4. \A from : Moves(w, from, "idle", NoLocals) => FileMoves(w)
    BY <1>1, Zenon DEF FileMoves
  <1>5. \A from, to, r : Moves(w, from, to, r) /\ r.request = l.request /\ r.box_f = l.box_f =>
            FileMoves(w)
    BY <1>1, Zenon DEF FileMoves
  <1>6. \A from, to, u, v :
            /\ Moves(w, from, to, [l EXCEPT !.box_i = u]) => FileMoves(w)
            /\ Moves(w, from, to, [l EXCEPT !.offset = u]) => FileMoves(w)
            /\ Moves(w, from, to, [l EXCEPT !.message = u]) => FileMoves(w)
            /\ Moves(w, from, to, [l EXCEPT !.message = u, !.offset = v]) => FileMoves(w)
            /\ Moves(w, from, to, [l EXCEPT !.delivered = u]) => FileMoves(w)
            /\ Moves(w, from, to, [l EXCEPT !.return_code = u]) => FileMoves(w)
            /\ Moves(w, from, to, [l EXCEPT !.box_i = u, !.packets = v]) => FileMoves(w)
    <2> TAKE from, to, u, v
    <2>1. [l EXCEPT !.box_i = u].request = l.request /\ [l EXCEPT !.box_i = u].box_f = l.box_f
      BY <1>2 DEF Locals
    <2>2. [l EXCEPT !.offset = u].request = l.request /\ [l EXCEPT !.offset = u].box_f = l.box_f
      BY <1>2 DEF Locals
    <2>3. [l EXCEPT !.message = u].request = l.request /\ [l EXCEPT !.message = u].box_f = l.box_f
      BY <1>2 DEF Locals
    <2>4. [l EXCEPT !.message = u, !.offset = v].request = l.request /\ [l EXCEPT !.message = u, !.offset = v].box_f = l.box_f
      BY <1>2 DEF Locals
    <2>5. [l EXCEPT !.delivered = u].request = l.request /\ [l EXCEPT !.delivered = u].box_f = l.box_f
      BY <1>2 DEF Locals
    <2>6. [l EXCEPT !.return_code = u].request = l.request /\ [l EXCEPT !.return_code = u].box_f = l.box_f
      BY <1>2 DEF Locals
    <2>7. [l EXCEPT !.box_i = u, !.packets = v].request = l.request /\ [l EXCEPT !.box_i = u, !.packets = v].box_f = l.box_f
      BY <1>2 DEF Locals
    <2> QED BY <1>5, <2>1, <2>2, <2>3, <2>4, <2>5, <2>6, <2>7, Zenon
  <1>17. \A from, to, u, v :
            \/ Moves(w, from, to, [l EXCEPT !.box_f = u])
            \/ Moves(w, from, to, [l EXCEPT !.box_f = u, !.offset = v])
            \/ Moves(w, from, to, [l EXCEPT !.box_f = u, !.return_code = v])
            => loc'[w].request = l.request /\ loc'[w].box_f = u
    <2> TAKE from, to, u, v
    <2>1. [l EXCEPT !.box_f = u].request = l.request /\ [l EXCEPT !.box_f = u].box_f = u
      BY <1>2 DEF Locals
    <2>2. /\ [l EXCEPT !.box_f = u, !.offset = v].request = l.request
          /\ [l EXCEPT !.box_f = u, !.offset = v].box_f = u
      BY <1>2 DEF Locals
    <2>3. /\ [l EXCEPT !.box_f = u, !.return_code = v].request = l.request
          /\ [l EXCEPT !.box_f = u, !.return_code = v].box_f = u
      BY <1>2 DEF Locals
    <2>4. ASSUME Moves(w, from, to, [l EXCEPT !.box_f = u])
          PROVE  loc'[w].request = l.request /\ loc'[w].box_f = u
      <3>1. loc'[w] = [l EXCEPT !.box_f = u]
        BY <1>1, <2>4, Zenon
      <3> QED BY <2>1, <3>1
    <2>5. ASSUME Moves(w, from, to, [l EXCEPT !.box_f = u, !.offset = v])
          PROVE  loc'[w].request = l.request /\ loc'[w].box_f = u
      <3>1. loc'[w] = [l EXCEPT !.box_f = u, !.offset = v]
        BY <1>1, <2>5, Zenon
      <3> QED BY <2>2, <3>1
    <2>6. ASSUME Moves(w, from, to, [l EXCEPT !.box_f = u, !.return_code = v])
          PROVE  loc'[w].request = l.request /\ loc'[w].box_f = u
      <3>1. loc'[w] = [l EXCEPT !.box_f = u, !.return_code = v]
        BY <1>1, <2>6, Zenon
      <3> QED BY <2>3, <3>1
    <2> QED BY <2>4, <2>5, <2>6, Zenon
  <1>7. \A from, to : Finds(w, from, to) \/ Reads(w, from, to) => FileMoves(w)
    BY <1>4, <1>6, Zenon DEF Finds, Reads
  <1>8. CASE workers_reception(w)
    <2>1. PICK q : q = Head(requests_queue)
      OBVIOUS
    <2>2. Moves(w, "idle", Handler[q.code], [l EXCEPT !.request = q])
      BY <1>2, <1>8, <2>1, PubMoves, Zenon
    <2>3. pc[w] = "idle" /\ loc'[w] = [l EXCEPT !.request = q]
      BY <1>1, <2>2, Zenon
    <2> QED BY <1>2, <1>8, <2>1, <2>3 DEF FileMoves, Locals
  <1>9. CASE PubRegister(w) \/ SubRegister(w)
    <2>1. \/ Moves(w, "p_register", "idle", NoLocals) \/ Moves(w, "s_register", "idle", NoLocals)
          \/ /\ tfs_dir[Name(w)] # NoFile
             /\ \/ Moves(w, "s_register", "s_lock", [l EXCEPT !.box_f = tfs_dir[Name(w)]])
                \/ \E o : Moves(w, "p_register", "p_code",
                                [l EXCEPT !.box_f = tfs_dir[Name(w)], !.offset = o])
      BY <1>2, <1>9, PubMoves, SubMoves, Zenon DEF PubRefused
    <2>0. pc[w] \in {"p_register", "s_register"}
      BY <1>9 DEF PubRegister, SubRegister
    <2>2. ~CreateFile(w) /\ ~RemoveUnlink(w) /\ Name(w) \in BoxNames
      BY <1>2, <2>0 DEF CreateFile, RemoveUnlink, SetAt, Name, Listing
    <2>3. CASE Moves(w, "p_register", "idle", NoLocals) \/ Moves(w, "s_register", "idle", NoLocals)
      BY <1>4, <2>3
    <2>4. ASSUME ~Moves(w, "p_register", "idle", NoLocals), ~Moves(w, "s_register", "idle", NoLocals)
          PROVE  /\ tfs_dir[Name(w)] # NoFile /\ loc'[w].request = l.request
                 /\ loc'[w].box_f = tfs_dir[Name(w)]
      BY <1>17, <2>1, <2>4, Zenon
    <2> QED BY <2>2, <2>3, <2>4 DEF FileMoves
  <1>10. CASE workers_handle_pub_register(w) /\ ~PubRegister(w)
    BY <1>2, <1>3, <1>4, <1>6, <1>7, <1>10, PubMoves, Zenon DEF workers_handle_pub_register
  <1>11. CASE workers_handle_sub_register(w) /\ ~SubRegister(w)
    BY <1>2, <1>3, <1>4, <1>6, <1>7, <1>11, SubMoves, Zenon DEF workers_handle_sub_register
  <1>12. CASE CreateExists(w)
    <2>1. \/ Moves(w, "c_exists", "c_create", l)
          \/ /\ tfs_dir[Name(w)] # NoFile
             /\ Moves(w, "c_exists", "c_close",
                      [l EXCEPT !.box_f = tfs_dir[Name(w)], !.return_code = -1])
      <3>1. UNCHANGED loc => loc' = [loc EXCEPT ![w] = loc[w]]
        BY <1>2
      <3> QED BY <1>12, <3>1, Zenon DEF CreateExists, Goto, Moves
    <2>0. pc[w] = "c_exists"
      BY <1>12 DEF CreateExists
    <2>2. ~CreateFile(w) /\ ~RemoveUnlink(w) /\ Name(w) \in BoxNames
      BY <1>2, <2>0 DEF CreateFile, RemoveUnlink, SetAt, Name, Listing
    <2>3. ASSUME ~Moves(w, "c_exists", "c_create", l)
          PROVE  /\ tfs_dir[Name(w)] # NoFile /\ loc'[w].request = l.request
                 /\ loc'[w].box_f = tfs_dir[Name(w)]
      BY <1>17, <2>1, <2>3, Zenon
    <2> QED BY <1>3, <2>2, <2>3 DEF FileMoves
  <1>13. CASE CreateFile(w)
    <2>1. loc'[w].request = l.request
      <3>1. \/ Moves(w, "c_create", "c_close", [l EXCEPT !.return_code = -1])
            \/ \E f \in Files : Moves(w, "c_create", "c_claim", [l EXCEPT !.box_f = f])
        BY <1>13, CreatedFile, Zenon
      <3>2. [l EXCEPT !.return_code = -1].request = l.request
        BY <1>2 DEF Locals
      <3> QED BY <1>1, <1>17, <3>1, <3>2, Zenon
    <2> QED BY <1>13, <2>1 DEF FileMoves
  <1>14. CASE CreateClose(w)
    <2>1. Moves(w, "c_close", "m_answer", [l EXCEPT !.box_f = NoFile])
      BY <1>2, <1>14, ManagerMoves, Zenon
    <2>2. loc'[w].request = l.request /\ loc'[w].box_f = NoFile
      BY <1>17, <2>1, Zenon
    <2> QED BY <2>2 DEF FileMoves
  <1>15. CASE box_create(w) \/ workers_handle_manager_remove(w)
    BY <1>2, <1>3, <1>6, <1>15, ManagerMoves, ZenonT(60)
       DEF box_create, workers_handle_manager_remove, box_delete
  <1>16. CASE ManagerAnswer(w) \/ workers_handle_manager_listing(w)
    BY <1>2, <1>4, <1>6, <1>16, ManagerMoves, ZenonT(60) DEF workers_handle_manager_listing
  <1> QED BY <1>8, <1>9, <1>10, <1>11, <1>12, <1>13, <1>14, <1>15, <1>16
          DEF Works, Step, workers_handle_manager_create

\* A new file is one that nobody has: no two names come to share a file.
LEMMA ApartStep ==
    ASSUME TypeInv, FilesApart, NEW w \in Workers, Works(w)
    PROVE  FilesApart'
  <1> PICK n : n = Name(w)
    OBVIOUS
  <1>1. /\ \A x \in Workers : x # w => pc'[x] = pc[x] /\ loc'[x] = loc[x]
        /\ FileMoves(w) /\ UntouchedFiles(w)
    BY Alone, Followed, Frames
  <1>2. tfs_dir \in [BoxNames -> Files \cup {NoFile}] /\ NoFile \notin Files
    BY Constants DEF TypeInv, FilesOK, Files, NoFile
  <1>3. NoLocals.box_f = NoFile /\ (pc[w] = "idle" => loc[w].box_f = NoFile)
    BY Places DEF NoLocals, SetAt
  <1>4. ASSUME \/ loc'[w].box_f = NoFile
               \/ loc'[w].request = loc[w].request /\ loc'[w].box_f = loc[w].box_f,
               UNCHANGED tfs_dir \/ tfs_dir' = [tfs_dir EXCEPT ![n] = NoFile]
        PROVE  FilesApart'
    <2>1. \A m \in BoxNames : tfs_dir'[m] = NoFile \/ tfs_dir'[m] = tfs_dir[m]
      BY <1>2, <1>4
    <2>2. \A x \in Workers : \/ loc'[x].box_f = NoFile
                             \/ loc'[x].request = loc[x].request /\ loc'[x].box_f = loc[x].box_f
      BY <1>1, <1>4
    <2> QED BY <2>1, <2>2 DEF FilesApart, Name
  <1>5. ASSUME loc'[w].request = loc[w].request, loc'[w].box_f = tfs_dir[n], n \in BoxNames,
               UNCHANGED tfs_dir
        PROVE  FilesApart'
    <2>1. \A x \in Workers : x # w => loc'[x].request = loc[x].request /\ loc'[x].box_f = loc[x].box_f
      BY <1>1
    <2>2. loc'[w].request.box_name = n
      BY <1>5 DEF Name
    <2>3. \A x \in Workers : loc'[x].request = loc[x].request
      BY <1>1, <1>5
    <2>4. \A x \in Workers, m \in BoxNames :
              loc'[x].box_f # NoFile /\ tfs_dir[m] = loc'[x].box_f => m = loc'[x].request.box_name
      BY <1>5, <2>1, <2>2 DEF FilesApart, Name
    <2>5. \A x, y \in Workers : loc'[x].box_f # NoFile /\ loc'[y].box_f = loc'[x].box_f =>
              loc'[x].request.box_name = loc'[y].request.box_name
      <3> SUFFICES ASSUME NEW x \in Workers, NEW y \in Workers, loc'[x].box_f # NoFile,
                          loc'[y].box_f = loc'[x].box_f
                   PROVE  loc'[x].request.box_name = loc'[y].request.box_name
        OBVIOUS
      <3>1. CASE x = w \/ y = w
        BY <1>5, <2>2, <2>4, <3>1
      <3>2. CASE x # w /\ y # w
        BY <2>1, <3>2 DEF FilesApart, Name
      <3> QED BY <3>1, <3>2
    <2> QED BY <1>5, <2>4, <2>5 DEF FilesApart, Name
  <1>6. CASE CreateFile(w)
    <2>1. n \in BoxNames /\ loc[w] \in Locals
      <3>1. pc[w] = "c_create"
        BY <1>6 DEF CreateFile
      <3> QED BY <3>1, Places DEF SetAt, Name, Listing
    <2>2. \A from, to, r : Moves(w, from, to, r) => loc'[w] = r
      BY Places
    <2>3. CASE /\ UNCHANGED tfs
               /\ Moves(w, "c_create", "c_close", [loc[w] EXCEPT !.return_code = -1])
      <3>1. loc'[w] = [loc[w] EXCEPT !.return_code = -1]
        BY <2>2, <2>3, Zenon
      <3>2. loc'[w].request = loc[w].request /\ loc'[w].box_f = loc[w].box_f
        BY <2>1, <3>1 DEF Locals
      <3> QED BY <1>4, <2>3, <3>2 DEF tfs
    <2>4. ASSUME NEW f \in Files, Moves(w, "c_create", "c_claim", [loc[w] EXCEPT !.box_f = f])
          PROVE  loc'[w].request = loc[w].request /\ loc'[w].box_f = f
      <3>1. loc'[w] = [loc[w] EXCEPT !.box_f = f]
        BY <2>2, <2>4, Zenon
      <3> QED BY <2>1, <3>1 DEF Locals
    <2>5. ASSUME NEW f \in Files, f = tfs_dir[n], UNCHANGED tfs,
                 Moves(w, "c_create", "c_claim", [loc[w] EXCEPT !.box_f = f])
          PROVE  FilesApart'
      BY <1>5, <2>1, <2>4, <2>5 DEF tfs
    <2>6. ASSUME NEW f \in Files, f \notin Live, tfs_dir' = [tfs_dir EXCEPT ![n] = f],
                 Moves(w, "c_create", "c_claim", [loc[w] EXCEPT !.box_f = f])
          PROVE  FilesApart'
      <3>1. loc'[w].request = loc[w].request /\ loc'[w].box_f = f
        BY <2>4, <2>6
      <3>2. \A m \in BoxNames : tfs_dir[m] # f
        BY <2>6 DEF Live
      <3>3. \A x \in Workers : loc[x].box_f # f
        BY <2>6 DEF Live
      <3>4. tfs_dir'[n] = f /\ \A m \in BoxNames : m # n => tfs_dir'[m] = tfs_dir[m]
        BY <1>2, <2>1, <2>6
      <3>5. \A l, m \in BoxNames : tfs_dir'[l] = tfs_dir'[m] /\ tfs_dir'[l] # NoFile => l = m
        BY <3>2, <3>4 DEF FilesApart
      <3>6. \A x \in Workers : x # w => loc'[x] = loc[x]
        BY <1>1
      <3>7. loc'[w].request.box_name = n
        BY <3>1 DEF Name
      <3>8. \A x \in Workers, m \in BoxNames :
                loc'[x].box_f # NoFile /\ tfs_dir'[m] = loc'[x].box_f => m = loc'[x].request.box_name
        BY <3>1, <3>2, <3>3, <3>4, <3>6, <3>7 DEF FilesApart, Name
      <3>9. \A x, y \in Workers : loc'[x].box_f # NoFile /\ loc'[y].box_f = loc'[x].box_f =>
                loc'[x].request.box_name = loc'[y].request.box_name
        BY <3>1, <3>3, <3>6 DEF FilesApart, Name
      <3> QED BY <3>5, <3>8, <3>9 DEF FilesApart, Name
    <2> QED BY <1>6, <2>3, <2>5, <2>6, CreatedFile
  <1>7. CASE RemoveUnlink(w)
    <2>1. pc[w] = "r_unlink" /\ tfs_dir' = [tfs_dir EXCEPT ![n] = NoFile]
      BY <1>7 DEF RemoveUnlink
    <2>2. ~workers_reception(w) /\ ~CreateFile(w)
      BY <2>1 DEF workers_reception, CreateFile
    <2> QED BY <1>1, <1>3, <1>4, <1>7, <2>1, <2>2 DEF FileMoves
  <1>8. CASE ~CreateFile(w) /\ ~RemoveUnlink(w)
    <2>1. UNCHANGED tfs_dir
      BY <1>1, <1>8 DEF UntouchedFiles
    <2> QED BY <1>1, <1>3, <1>4, <1>5, <1>8, <2>1 DEF FileMoves
  <1> QED BY <1>6, <1>7, <1>8

\* The request that a worker takes, and the others.
LEMMA Received ==
    ASSUME TypeInv, NEW w \in Workers, workers_reception(w)
    PROVE  /\ requests_queue # << >> /\ requests_queue' = Tail(requests_queue)
           /\ loc'[w].request = requests_queue[1]
  <1>1. PICK q : q = Head(requests_queue)
    OBVIOUS
  <1>2. /\ requests_queue # << >> /\ requests_queue' = Tail(requests_queue)
        /\ loc' = [loc EXCEPT ![w] = [loc[w] EXCEPT !.request = q]]
    BY <1>1, Zenon DEF workers_reception
  <1>3. loc[w] \in Locals /\ loc'[w] = [loc[w] EXCEPT !.request = q]
    BY <1>2 DEF TypeInv, WorkersOK
  <1>4. loc'[w].request = q
    BY <1>3 DEF Locals
  <1>5. q = requests_queue[1]
    BY <1>1, <1>2 DEF TypeInv, RequestsOK
  <1> QED BY <1>2, <1>4, <1>5

\* A request leaves the queue when a worker takes it.
LEMMA OnceStep ==
    ASSUME TypeInv, RequestsOnce, NEW w \in Workers, Works(w)
    PROVE  RequestsOnce'
  <1> PICK q : q = requests_queue
    OBVIOUS
  <1>1. \A x \in Workers : x # w => loc'[x] = loc[x]
    BY Alone
  <1>2. q \in Seq(Requests)
    BY DEF TypeInv, RequestsOK
  <1>3. /\ \A j, k \in 1 .. Len(q) : q[j] = q[k] => j = k
        /\ \A k \in 1 .. Len(q), x \in Workers : q[k] # loc[x].request
        /\ \A x, y \in Workers : loc[x].request # NULL /\ loc[y].request = loc[x].request => x = y
    BY DEF RequestsOnce
  <1>4. CASE workers_reception(w)
    <2>1. q # << >> /\ requests_queue' = Tail(q) /\ loc'[w].request = q[1]
      BY <1>4, Received
    <2>2. PICK t : t = Tail(q)
      OBVIOUS
    <2>3. Len(t) \in Nat /\ Len(q) = Len(t) + 1 /\ \A k \in 1 .. Len(t) : t[k] = q[k + 1]
      BY <1>2, <2>1, <2>2
    <2>4. \A k \in 1 .. Len(t) : k + 1 \in 1 .. Len(q) /\ k + 1 # 1
      BY <2>3
    <2>5. 1 \in 1 .. Len(q)
      BY <2>3
    <2>6. \A j, k \in 1 .. Len(t) : t[j] = t[k] => j = k
      BY <1>3, <2>3, <2>4
    <2>7. \A k \in 1 .. Len(t), x \in Workers : t[k] # loc'[x].request
      BY <1>1, <1>3, <2>1, <2>3, <2>4, <2>5
    <2>8. \A x, y \in Workers : loc'[x].request # NULL /\ loc'[y].request = loc'[x].request => x = y
      BY <1>1, <1>3, <2>1, <2>5
    <2> QED BY <2>1, <2>2, <2>6, <2>7, <2>8 DEF RequestsOnce
  <1>5. CASE ~workers_reception(w)
    <2>1. requests_queue' = q
      BY <1>5, Frames DEF UntouchedFiles
    <2>2. loc'[w].request = loc[w].request \/ loc'[w].request = NULL
      BY <1>5, Followed, NoLocalsOK DEF FileMoves
    <2>3. \A k \in 1 .. Len(q) : q[k] # NULL
      BY <1>2, Constants
    <2> QED BY <1>1, <1>3, <2>1, <2>2, <2>3 DEF RequestsOnce
  <1> QED BY <1>4, <1>5

\* Files and requests, step by step.
LEMMA FilesAndRequests ==
    ASSUME TypeInv, FilesApart, RequestsOnce, [Next]_vars
    PROVE  FilesApart' /\ RequestsOnce'
  <1>1. CASE \E w \in Workers : Works(w)
    BY <1>1, ApartStep, OnceStep
  <1>2. CASE UNCHANGED <<tfs, loc, requests_queue>>
    <2>1. FilesApart'
      BY <1>2, Zenon DEF FilesApart, Name, tfs
    <2>2. RequestsOnce'
      BY <1>2, Zenon DEF RequestsOnce
    <2> QED BY <2>1, <2>2
  <1>3. ASSUME NEW r \in Requests, mbroker_receive_connection(r)
        PROVE  FilesApart' /\ RequestsOnce'
    <2>1. PICK q : q = requests_queue
      OBVIOUS
    <2>2. r \notin sent /\ requests_queue' = Append(q, r) /\ UNCHANGED <<tfs, loc>>
      BY <1>3, <2>1 DEF mbroker_receive_connection
    <2>3. FilesApart'
      BY <2>2, Zenon DEF FilesApart, Name, tfs
    <2>4. q \in Seq(Requests) /\ \A k \in 1 .. Len(q) : q[k] # r
      BY <2>1, <2>2 DEF TypeInv, RequestsOK
    <2>5. PICK p : p = Append(q, r)
      OBVIOUS
    <2>6. Len(q) \in Nat /\ Len(p) = Len(q) + 1 /\ p[Len(q) + 1] = r
             /\ \A k \in 1 .. Len(q) : p[k] = q[k]
      BY <2>4, <2>5
    <2>7. \A k \in 1 .. Len(p) : k = Len(q) + 1 \/ k \in 1 .. Len(q)
      BY <2>6
    <2>8. \A w \in Workers : loc[w].request # r
      <3>1. \A w \in Workers : loc[w].request \in sent \cup {NULL}
        BY DEF TypeInv, WorkersOK
      <3> QED BY <2>2, <3>1, Constants
    <2>9. \A j, k \in 1 .. Len(p) : p[j] = p[k] => j = k
      BY <2>1, <2>4, <2>6, <2>7 DEF RequestsOnce
    <2>10. \A k \in 1 .. Len(p), w \in Workers : p[k] # loc[w].request
      BY <2>1, <2>6, <2>7, <2>8 DEF RequestsOnce
    <2> QED BY <2>2, <2>3, <2>5, <2>9, <2>10 DEF RequestsOnce
  <1>4. ASSUME NEW r \in Requests, ClientQuits(r)
        PROVE  UNCHANGED <<tfs, loc, requests_queue>>
    BY <1>4 DEF ClientQuits
  <1>5. ASSUME NEW i \in Slots, NEW w \in Workers, SpuriousWakeup(i, w)
        PROVE  UNCHANGED <<tfs, loc, requests_queue>>
    BY <1>5 DEF SpuriousWakeup, clients
  <1>6. UNCHANGED vars => UNCHANGED <<tfs, loc, requests_queue>>
    BY DEF vars, clients
  <1> QED BY <1>1, <1>2, <1>3, <1>4, <1>5, <1>6, Steps
-----------------------------------------------------------------------------
(* Boxes that are created once                                             *)

\* No two requests create a box of the same name; a box may still be removed.
OneCreation ==
    \A q, r \in Requests :
        q.code = "CREATE" /\ r.code = "CREATE" /\ q.box_name = r.box_name => q = r

\* A creation that is not named yet was not before: the name is written once.
LEMMA UnnamedBefore ==
    ASSUME TypeInv, [Next]_vars, NEW r \in Requests, Unnamed(r)'
    PROVE  Unnamed(r)
  <1>1. ASSUME NEW w \in Workers, Works(w)
        PROVE  Unnamed(r)
    <2>1. /\ \A x \in Workers : x # w => pc'[x] = pc[x] /\ loc'[x] = loc[x]
          /\ UntouchedFiles(w)
      BY <1>1, Alone, Frames
    <2>2. requests_queue \in Seq(Requests)
      BY DEF TypeInv, RequestsOK
    <2>3. CASE r \notin sent'
      BY <2>1, <2>3 DEF Unnamed, UntouchedFiles
    <2>4. CASE \E k \in 1 .. Len(requests_queue') : requests_queue'[k] = r
      <3>1. CASE workers_reception(w)
        <4>1. requests_queue # << >> /\ requests_queue' = Tail(requests_queue)
          BY <3>1, Received
        <4>2. \E k \in 1 .. Len(requests_queue) : requests_queue[k] = r
          BY <2>2, <2>4, <4>1
        <4> QED BY <4>2 DEF Unnamed
      <3>2. CASE ~workers_reception(w)
        BY <2>1, <2>4, <3>2 DEF Unnamed, UntouchedFiles
      <3> QED BY <3>1, <3>2
    <2>5. CASE \E x \in Workers : loc'[x].request = r /\ pc'[x] \in Creating \ {"c_close"}
      <3>1. PICK x \in Workers : loc'[x].request = r /\ pc'[x] \in Creating \ {"c_close"}
        BY <2>5
      <3>2. CASE x # w
        BY <2>1, <3>1, <3>2 DEF Unnamed
      <3>3. CASE x = w /\ workers_reception(w)
        <4>1. requests_queue # << >> /\ requests_queue[1] = r
          BY <3>1, <3>3, Received
        <4>2. 1 \in 1 .. Len(requests_queue)
          BY <2>2, <4>1
        <4> QED BY <4>1, <4>2 DEF Unnamed
      <3>4. CASE x = w /\ ~workers_reception(w)
        <4>1. loc[w].request = r
          BY <1>1, <3>1, <3>4, Followed, NoLocalsOK, Constants DEF FileMoves
        <4>2. workers_handle_manager_create(w)
          BY <1>1, <3>1, <3>4, Ranges DEF Works, Step, Creating, PubSession, SubSession
        <4>3. /\ CreateClose(w) => pc' = [pc EXCEPT ![w] = "m_answer"]
              /\ pc[w] = "c_close" => CreateClose(w)
          <5>1. CreateClose(w) => pc' = [pc EXCEPT ![w] = "m_answer"]
            BY DEF CreateClose, Goto
          <5>2. pc[w] = "c_close" => CreateClose(w)
            BY <4>2 DEF workers_handle_manager_create, CreateExists, CreateFile, box_create,
                        BoxClaim, BoxClear, BoxFill
          <5> QED BY <5>1, <5>2
        <4>4. pc[w] # "c_close"
          BY <3>1, <3>4, <4>3 DEF TypeInv, WorkersOK, Creating
        <4>5. pc[w] \in Creating \ {"c_close"}
          BY <4>2, <4>4, Ranges
        <4> QED BY <4>1, <4>5 DEF Unnamed
      <3> QED BY <3>2, <3>3, <3>4
    <2> QED BY <2>3, <2>4, <2>5 DEF Unnamed
  <1>2. CASE UNCHANGED <<sent, requests_queue, loc, pc>>
    BY <1>2 DEF Unnamed
  <1>3. ASSUME NEW q \in Requests, mbroker_receive_connection(q)
        PROVE  Unnamed(r)
    <2>1. /\ q \notin sent /\ sent' = sent \cup {q} /\ UNCHANGED <<loc, pc>>
          /\ requests_queue' = Append(requests_queue, q)
      BY <1>3 DEF mbroker_receive_connection
    <2>2. requests_queue \in Seq(Requests)
      BY DEF TypeInv, RequestsOK
    <2>3. \A k \in 1 .. Len(requests_queue') : \/ requests_queue'[k] = q
              \/ \E j \in 1 .. Len(requests_queue) : requests_queue[j] = requests_queue'[k]
      BY <2>1, <2>2
    <2> QED BY <2>1, <2>3 DEF Unnamed
  <1>4. ASSUME NEW q \in Requests, ClientQuits(q)
        PROVE  UNCHANGED <<sent, requests_queue, loc, pc>>
    BY <1>4 DEF ClientQuits
  <1>5. ASSUME NEW i \in Slots, NEW w \in Workers, SpuriousWakeup(i, w)
        PROVE  UNCHANGED <<sent, requests_queue, loc, pc>>
    BY <1>5 DEF SpuriousWakeup, clients
  <1>6. UNCHANGED vars => UNCHANGED <<sent, requests_queue, loc, pc>>
    BY DEF vars, clients
  <1> QED BY <1>1, <1>2, <1>3, <1>4, <1>5, <1>6, Steps

\* A worker comes to a box by finding a slot with its name.
LEMMA FoundStep ==
    ASSUME TypeInv, NEW w \in Workers, Works(w), Found(w)'
    PROVE  /\ loc'[w].request = loc[w].request
           /\ \/ Found(w) /\ loc'[w].box_i = loc[w].box_i
              \/ /\ loc'[w].box_i \in Slots /\ boxes_table[loc'[w].box_i].name = Name(w)
                 /\ free_boxes[loc'[w].box_i] = "TAKEN"
                 /\ UNCHANGED <<boxes_table, free_boxes>> /\ Name(w) \in BoxNames
  <1>1. CASE pc'[w] \in Session
    BY <1>1, SessionMoves DEF Enters, Continues, Same, Found
  <1>2. CASE pc'[w] \notin Session
    <2>1. pc'[w] \in {"p_register", "s_register"}
      BY <1>2 DEF Found
    <2>2. ~workers_reception(w)
      BY <2>1, Handled
    <2>3. workers_handle_pub_register(w) \/ workers_handle_sub_register(w)
      BY <2>1, <2>2, Ranges DEF Works, Step, Creating
    <2>4. PubFind(w) \/ SubFind(w)
      <3>1. \A to : pc' = [pc EXCEPT ![w] = to] => pc'[w] = to
        BY DEF TypeInv, WorkersOK
      <3>2. PubRegister(w) \/ PubCode(w) \/ PubCheck(w) \/ PubWrite(w) \/ PubUpdate(w)
                \/ PubLeave(w) \/ tfs_close(w, "p_close") =>
                \E to \in PubSession \cup {"idle", "p_close"} : pc' = [pc EXCEPT ![w] = to]
        BY Zenon DEF PubRegister, PubCode, PubCheck, PubWrite, PubUpdate, PubLeave, Leave,
                     tfs_close,
                     Return, Goto, PubSession
      <3>3. SubRegister(w) \/ SubLock(w) \/ SubTest(w) \/ SubWait(w) \/ SubWake(w) \/ SubCheck(w)
                \/ SubSend(w) \/ SubMore(w) \/ SubLeave(w) \/ tfs_close(w, "s_close") =>
                \E to \in SubSession \cup {"idle", "s_close"} : pc' = [pc EXCEPT ![w] = to]
        BY Zenon DEF SubRegister, SubLock, SubTest, SubWait, SubWake, SubCheck, SubSend, SubMore,
                     SubLeave, Leave, tfs_close, Return, Goto, SubSession
      <3> QED BY <2>1, <2>3, <3>1, <3>2, <3>3
              DEF workers_handle_pub_register, workers_handle_sub_register, PubSession, SubSession
    <2>5. PICK i : i = First(Matching(Name(w)))
      OBVIOUS
    <2>6. pc[w] \in {"p_find", "s_find"} /\ UNCHANGED boxes
      BY <2>4, Zenon DEF PubFind, SubFind, box_find
    <2>7. /\ Matching(Name(w)) # {}
          /\ loc' = [loc EXCEPT ![w] = [loc[w] EXCEPT !.box_i = i]]
      <3>1. \/ pc' = [pc EXCEPT ![w] = "idle"]
            \/ /\ Matching(Name(w)) # {}
               /\ loc' = [loc EXCEPT ![w] = [loc[w] EXCEPT !.box_i = i]]
        BY <2>4, <2>5, Zenon DEF PubFind, SubFind, box_find, Return, Goto
      <3>2. pc' # [pc EXCEPT ![w] = "idle"]
        BY <2>1 DEF TypeInv, WorkersOK
      <3> QED BY <3>1, <3>2
    <2>8. loc[w] \in Locals /\ loc'[w] = [loc[w] EXCEPT !.box_i = i]
      BY <2>7 DEF TypeInv, WorkersOK
    <2>9. loc'[w].request = loc[w].request /\ loc'[w].box_i = i
      BY <2>8 DEF Locals
    <2>10. i \in Matching(Name(w)) /\ i \in Slots
      <3>1. Matching(Name(w)) \in SUBSET Slots
        BY DEF Matching
      <3> QED BY <2>5, <2>7, <3>1, FirstSlot
    <2>11. Name(w) \in BoxNames
      BY <2>6, Places DEF SetAt, Name, Listing
    <2> QED BY <2>6, <2>9, <2>10, <2>11 DEF Matching, boxes
  <1> QED BY <1>1, <1>2

\* The box of a name is where the name was first written.
LEMMA SlotStep ==
    ASSUME OneCreation, TypeInv, RequestsOnce', OneSlot, NEW w \in Workers, Works(w)
    PROVE  OneSlot'
  <1> PICK c : c = loc[w].request
    OBVIOUS
  <1>1. /\ \A x \in Workers : x # w => pc'[x] = pc[x] /\ loc'[x] = loc[x]
        /\ NamesChange(w)
    BY Alone, TableStep
  <1>2. /\ \A x \in Workers : Found(x)' => loc'[x].request = loc[x].request
        /\ \A x \in Workers : x # w /\ Found(x)' => Found(x) /\ loc'[x].box_i = loc[x].box_i
    BY <1>1, FoundStep DEF Found
  <1>3. ASSUME NEW x \in Workers, Found(x)'
        PROVE  Name(x) \in BoxNames
    <2>1. CASE Found(x)
      BY <2>1, Places DEF Found, SetAt, Name, Listing, Session, PubSession, SubSession
    <2>2. CASE ~Found(x)
      BY <1>1, <1>3, <2>2, FoundStep DEF Found
    <2> QED BY <2>1, <2>2
  <1>4. \A r \in Requests : Unnamed(r)' => Unnamed(r)
    BY UnnamedBefore DEF Next, Works
  <1>5. \A r \in Requests : r.code = "CREATE" => r.box_name \in BoxNames
    BY Constants
  <1>6. NULL \notin BoxNames
    BY Constants
  <1>7. ASSUME BoxFill(w)
        PROVE  /\ c \in Requests /\ c.code = "CREATE"
               /\ Unnamed(c) /\ ~Unnamed(c)'
               /\ \A x \in Workers : Found(x)' => Found(x) /\ loc'[x].box_i = loc[x].box_i
    <2>1. pc[w] = "c_fill" /\ pc' = [pc EXCEPT ![w] = "c_close"]
      BY <1>7 DEF BoxFill, Outcome, Goto
    <2>2. c \in Requests /\ c.code = "CREATE" /\ Unnamed(c)
      BY <2>1, Places DEF SetAt, Creating, Unnamed
    <2>3. pc'[w] = "c_close"
      BY <2>1 DEF TypeInv, WorkersOK
    <2>4. loc'[w].request = c
      <3>1. ~workers_reception(w)
        BY <2>1 DEF workers_reception
      <3> QED BY <2>3, <3>1, Followed DEF FileMoves
    <2>5. c \in sent /\ UNCHANGED sent
      <3>1. c \in sent \cup {NULL}
        BY DEF TypeInv, WorkersOK
      <3> QED BY <2>2, <3>1, Constants, Frames DEF UntouchedFiles
    <2>6. \A k \in 1 .. Len(requests_queue') : requests_queue'[k] # c
      BY <2>4 DEF RequestsOnce
    <2>7. \A x \in Workers : loc'[x].request = c => x = w
      BY <2>2, <2>4, Constants DEF RequestsOnce
    <2>8. ~Unnamed(c)'
      BY <2>3, <2>5, <2>6, <2>7 DEF Unnamed
    <2>9. ~Found(w)'
      BY <2>3 DEF Found, Session, PubSession, SubSession
    <2> QED BY <1>2, <2>2, <2>8, <2>9
  <1>8. \A r \in Requests : r.code = "CREATE" /\ Unnamed(r) =>
            /\ \A i \in Slots : boxes_table[i].name # r.box_name
            /\ \A x \in Workers : Found(x) => Name(x) # r.box_name
    BY DEF OneSlot
  <1>9. ASSUME NEW r \in Requests, r.code = "CREATE", Unnamed(r)'
        PROVE  /\ \A i \in Slots : boxes_table'[i].name # r.box_name
               /\ \A x \in Workers : Found(x)' => loc'[x].request.box_name # r.box_name
    <2>1. ASSUME NEW i \in Slots, boxes_table'[i].name = r.box_name
          PROVE  FALSE
      <3>1. boxes_table[i].name # r.box_name /\ r.box_name # NULL
        BY <1>4, <1>5, <1>6, <1>8, <1>9
      <3>2. BoxFill(w) /\ Name(w) = r.box_name
        BY <1>1, <2>1, <3>1 DEF NamesChange
      <3>3. c = r
        BY <1>7, <1>9, <3>2 DEF OneCreation, Name
      <3> QED BY <1>7, <1>9, <3>2, <3>3
    <2>2. ASSUME NEW x \in Workers, Found(x)', loc'[x].request.box_name = r.box_name
          PROVE  FALSE
      <3>1. Name(x) = r.box_name
        BY <1>2, <2>2 DEF Name
      <3>2. ~Found(x)
        BY <1>4, <1>8, <1>9, <3>1
      <3>3. x = w
        BY <1>2, <2>2, <3>2
      <3>4. loc'[w].box_i \in Slots /\ boxes_table[loc'[w].box_i].name = r.box_name
        BY <2>2, <3>1, <3>2, <3>3, FoundStep
      <3> QED BY <1>4, <1>8, <1>9, <3>4
    <2> QED BY <2>1, <2>2
  <1>10. ASSUME NEW i \in Slots, NEW j \in Slots, boxes_table'[i].name \in BoxNames,
                boxes_table'[j].name = boxes_table'[i].name
         PROVE  i = j
    <2>1. CASE BoxFill(w)
      <3>1. \A k \in Slots : boxes_table[k].name # Name(w)
        BY <1>7, <1>8, <2>1 DEF Name
      <3>2. ~BoxClear(w)
        BY <2>1 DEF BoxFill, BoxClear
      <3> QED BY <1>1, <1>10, <3>1, <3>2 DEF NamesChange, OneSlot
    <2>2. CASE ~BoxFill(w)
      BY <1>1, <1>6, <1>10, <2>2 DEF NamesChange, OneSlot
    <2> QED BY <2>1, <2>2
  <1>11. ASSUME NEW i \in Slots, NEW x \in Workers, Found(x)',
                boxes_table'[i].name = loc'[x].request.box_name
         PROVE  loc'[x].box_i = i
    <2>1. boxes_table'[i].name = Name(x) /\ Name(x) \in BoxNames
      BY <1>2, <1>3, <1>11 DEF Name
    <2>2. CASE BoxFill(w)
      <3>1. Found(x) /\ loc'[x].box_i = loc[x].box_i
        BY <1>7, <1>11, <2>2
      <3>2. Name(x) # Name(w)
        BY <1>7, <1>8, <2>2, <3>1 DEF Name
      <3>3. boxes_table[i].name = Name(x)
        BY <1>1, <1>6, <2>1, <3>2 DEF NamesChange
      <3> QED BY <3>1, <3>3 DEF OneSlot
    <2>3. CASE ~BoxFill(w)
      <3>1. boxes_table[i].name = Name(x)
        BY <1>1, <1>6, <2>1, <2>3 DEF NamesChange
      <3>2. CASE Found(x) /\ loc'[x].box_i = loc[x].box_i
        BY <3>1, <3>2 DEF OneSlot
      <3>3. CASE loc'[x].box_i \in Slots /\ boxes_table[loc'[x].box_i].name = Name(x)
        BY <2>1, <3>1, <3>3 DEF OneSlot
      <3> QED BY <1>2, <1>11, <3>2, <3>3, FoundStep
    <2> QED BY <2>2, <2>3
  <1>12. ASSUME NEW x \in Workers, NEW y \in Workers, Found(x)', Found(y)',
                loc'[x].request.box_name = loc'[y].request.box_name
         PROVE  loc'[x].box_i = loc'[y].box_i
    <2>1. Name(x) = Name(y) /\ Name(x) \in BoxNames
      BY <1>2, <1>3, <1>12 DEF Name
    <2>2. CASE x = y
      BY <2>2
    <2>3. ASSUME NEW z \in Workers, z # w, Found(z)', Found(w)', Name(z) = Name(w)
          PROVE  loc'[z].box_i = loc'[w].box_i
      <3>1. Found(z) /\ loc'[z].box_i = loc[z].box_i
        BY <1>2, <2>3
      <3>2. CASE Found(w) /\ loc'[w].box_i = loc[w].box_i
        BY <2>3, <3>1, <3>2 DEF OneSlot
      <3>3. CASE loc'[w].box_i \in Slots /\ boxes_table[loc'[w].box_i].name = Name(w)
        BY <2>3, <3>1, <3>3 DEF OneSlot
      <3> QED BY <2>3, <3>2, <3>3, FoundStep
    <2>4. CASE x # w /\ y # w
      BY <1>2, <1>12, <2>1, <2>4 DEF OneSlot
    <2> QED BY <1>12, <2>1, <2>2, <2>3, <2>4
  <1> QED BY <1>9, <1>10, <1>11, <1>12 DEF OneSlot, Name

\* OnePublisher follows: those who write to a file found the same slot.
LEMMA OneWriter ==
    ASSUME BrokerInv, FilesApart, OneSlot
    PROVE  OnePublisher
  <1> SUFFICES ASSUME NEW w \in Workers, NEW x \in Workers, pc[w] \in PubSession,
                      pc[x] \in PubSession, loc[w].box_f = loc[x].box_f
               PROVE  w = x
    BY DEF OnePublisher
  <1>1. TypeInv /\ PublishersCounted
    BY DEF BrokerInv
  <1>2. loc[w].box_f # NoFile
    <2>1. loc[w].box_f \in Files
      BY <1>1, Places DEF SetAt, Session
    <2> QED BY <2>1, Constants DEF Files, NoFile
  <1>3. Name(w) = Name(x)
    BY <1>2 DEF FilesApart
  <1>4. loc[w].box_i = loc[x].box_i
    BY <1>3 DEF OneSlot, Found, Session
  <1> QED BY <1>1, <1>4 DEF PublishersCounted
-----------------------------------------------------------------------------
(* Subscribers that wait                                                   *)

\* A step takes a mutex that is free or gives back the worker's own, and a worker that
\* is to hold one afterwards has just taken it or held it before.
LEMMA MutexMoves ==
    ASSUME TypeInv, NEW w \in Workers, Works(w)
    PROVE  /\ \/ UNCHANGED box_mutex
              \/ /\ loc[w].box_i \in Slots
                 /\ box_mutex[loc[w].box_i] = NULL \/ pc[w] \in Holding
                 /\ \E v : box_mutex' = [box_mutex EXCEPT ![loc[w].box_i] = v]
           /\ pc'[w] \in Holding =>
                  /\ UNCHANGED loc
                  /\ \/ UNCHANGED box_mutex /\ pc[w] = "s_test"
                     \/ box_mutex' = [box_mutex EXCEPT ![loc[w].box_i] = w]
  <1> PICK s : s = loc[w].box_i
    OBVIOUS
  <1>1. pc[w] \in HasSlot => s \in Slots
    BY Places DEF SetAt
  <1>2. \A to : pc' = [pc EXCEPT ![w] = to] => pc'[w] = to
    BY DEF TypeInv, WorkersOK
  <1>3. CASE SubRegister(w) \/ SubWait(w) \/ BoxFill(w)
    <2>1. \/ UNCHANGED box_mutex
          \/ /\ box_mutex[s] = NULL \/ pc[w] \in Holding
             /\ \E v : box_mutex' = [box_mutex EXCEPT ![s] = v]
      BY <1>3, Zenon DEF SubRegister, SubWait, BoxFill, Holding
    <2>2. pc[w] \in {"s_register", "s_wait", "c_fill"}
      BY <1>3 DEF SubRegister, SubWait, BoxFill
    <2>3. \E to \in {"idle", "s_lock", "s_waiting", "c_close"} : pc' = [pc EXCEPT ![w] = to]
      BY <1>3, Zenon DEF SubRegister, SubWait, BoxFill, Outcome, Return, Goto
    <2> QED BY <1>1, <1>2, <2>1, <2>2, <2>3 DEF Holding, HasSlot, Session, SubSession
  <1>4. CASE SubLock(w) \/ SubWake(w) \/ BoxClear(w)
    <2>1. UNCHANGED loc /\ box_mutex[s] = NULL /\ box_mutex' = [box_mutex EXCEPT ![s] = w]
      BY <1>4, Zenon DEF SubLock, SubWake, BoxClear
    <2>2. pc[w] \in {"s_lock", "s_waiting", "c_clear"}
      BY <1>4 DEF SubLock, SubWake, BoxClear
    <2> QED BY <1>1, <2>1, <2>2 DEF HasSlot, Session, SubSession
  <1>5. CASE SubTest(w)
    <2>1. /\ pc[w] = "s_test"
          /\ \/ pc' = [pc EXCEPT ![w] = "s_wait"] /\ UNCHANGED <<loc, box_mutex>>
             \/ /\ pc' = [pc EXCEPT ![w] = "s_check"]
                /\ box_mutex' = [box_mutex EXCEPT ![s] = NULL]
      BY <1>5, Zenon DEF SubTest, Goto
    <2> QED BY <1>1, <1>2, <2>1 DEF Holding, HasSlot, Session, SubSession
  <1>6. CASE ~(\/ SubRegister(w) \/ SubLock(w) \/ SubTest(w) \/ SubWait(w) \/ SubWake(w)
               \/ BoxClear(w) \/ BoxFill(w))
    <2>1. UNCHANGED box_mutex
      BY <1>6, Frames DEF Untouched
    <2>2. pc'[w] \notin Holding
      <3>1. CASE SubFind(w) \/ SubCheck(w) \/ SubSend(w) \/ SubMore(w) \/ SubLeave(w)
                 \/ tfs_close(w, "s_close")
        <4>1. \E to \in {"idle", "s_register", "s_send", "s_leave", "s_more", "s_lock", "s_close"} :
                  pc' = [pc EXCEPT ![w] = to]
          BY <3>1, Zenon DEF SubFind, box_find, SubCheck, SubSend, SubMore, SubLeave, Leave,
                             tfs_close, Return, Goto
        <4> QED BY <1>2, <4>1 DEF Holding
      <3>2. CASE CreateExists(w) \/ CreateFile(w) \/ BoxClaim(w) \/ CreateClose(w)
        <4>1. \E to \in {"c_create", "c_claim", "c_clear", "c_close", "m_answer"} :
                  pc' = [pc EXCEPT ![w] = to]
          BY <3>2, Zenon DEF CreateExists, CreateFile, BoxClaim, CreateClose, Outcome, Goto
        <4> QED BY <1>2, <4>1 DEF Holding
      <3>3. CASE workers_reception(w) \/ workers_handle_pub_register(w)
        BY <3>3, Handled, Ranges DEF Holding, PubSession
      <3>4. CASE \/ workers_handle_manager_remove(w) \/ ManagerAnswer(w)
                 \/ workers_handle_manager_listing(w)
        BY <3>4, Ranges DEF Holding
      <3> QED BY <1>6, <3>1, <3>2, <3>3, <3>4
              DEF Works, Step, workers_handle_sub_register, workers_handle_manager_create, box_create
    <2> QED BY <2>1, <2>2
  <1> QED BY <1>3, <1>4, <1>5, <1>6

\* Nobody takes a mutex that another holds.
LEMMA MutexStep ==
    ASSUME TypeInv, MutexesHeld, NEW w \in Workers, Works(w)
    PROVE  MutexesHeld'
  <1>1. \A x \in Workers : x # w => pc'[x] = pc[x] /\ loc'[x] = loc[x]
    BY Alone
  <1>2. box_mutex \in [Slots -> Workers \cup {NULL}] /\ NULL \notin Workers
    BY Constants DEF TypeInv, TablesOK
  <1>3. ASSUME NEW x \in Workers, pc[x] \in Holding
        PROVE  loc[x].box_i \in Slots /\ box_mutex[loc[x].box_i] = x
    <2>1. pc[x] \in HasSlot
      BY <1>3 DEF Holding, HasSlot, Session, SubSession
    <2> QED BY <1>3, <2>1, Places DEF SetAt, MutexesHeld
  <1>4. ASSUME NEW x \in Workers, pc'[x] \in Holding, x # w
        PROVE  box_mutex'[loc'[x].box_i] = x
    <2>1. pc[x] \in Holding /\ loc'[x] = loc[x]
      BY <1>1, <1>4
    <2>2. loc[x].box_i \in Slots /\ box_mutex[loc[x].box_i] = x
      BY <1>3, <2>1
    <2>3. box_mutex'[loc[x].box_i] = box_mutex[loc[x].box_i]
      BY <1>2, <1>3, <1>4, <2>2, MutexMoves
    <2> QED BY <2>1, <2>2, <2>3
  <1>5. ASSUME pc'[w] \in Holding
        PROVE  box_mutex'[loc'[w].box_i] = w
    <2>1. UNCHANGED loc
      BY <1>5, MutexMoves
    <2>2. CASE UNCHANGED box_mutex /\ pc[w] = "s_test"
      BY <1>3, <2>1, <2>2 DEF Holding
    <2>3. CASE box_mutex' = [box_mutex EXCEPT ![loc[w].box_i] = w]
      <3>1. loc[w].box_i \in Slots
        <4>1. WorkersOK'
          BY WorkersStep
        <4>2. SetAt(pc'[w], loc'[w])
          BY <4>1 DEF WorkersOK
        <4> QED BY <1>5, <2>1, <4>2 DEF SetAt, Holding, HasSlot, Session, SubSession
      <3> QED BY <1>2, <2>1, <2>3, <3>1
    <2> QED BY <1>5, <2>2, <2>3, MutexMoves
  <1> QED BY <1>4, <1>5 DEF MutexesHeld

\* The steps from and to the labels of a wait, and those that change who waits.
LEMMA WaitMoves ==
    ASSUME TypeInv, NEW w \in Workers, Works(w)
    PROVE  /\ pc[w] = "s_waiting" => w \notin box_cond[loc[w].box_i]
           /\ pc[w] = "p_update" => PubUpdate(w)
           /\ pc'[w] = "s_wait" => SubTest(w) /\ ~Unread(w) /\ UNCHANGED loc
           /\ pc'[w] = "s_waiting" => SubWait(w)
           /\ SubWait(w) => /\ pc[w] = "s_wait" /\ pc'[w] = "s_waiting" /\ UNCHANGED loc
                            /\ box_cond' = [box_cond EXCEPT ![loc[w].box_i] = @ \cup {w}]
           /\ PubUpdate(w) => /\ box_mutex[loc[w].box_i] = NULL /\ pc[w] = "p_update"
                              /\ box_cond' = [box_cond EXCEPT ![loc[w].box_i] = {}]
           /\ BoxFree(w) => box_cond' = [box_cond EXCEPT ![loc[w].box_i] = {}]
  <1>1. \A to : pc' = [pc EXCEPT ![w] = to] => pc'[w] = to
    BY DEF TypeInv, WorkersOK
  <1>2. pc[w] \in {"s_waiting", "p_update"} =>
            workers_handle_sub_register(w) \/ workers_handle_pub_register(w)
    BY Ranges, Handled DEF Works, Step, Creating, Removing, Listing
  <1>3. pc[w] = "s_waiting" => SubWake(w)
    <2>1. pc[w] = "s_waiting" => workers_handle_sub_register(w)
      BY <1>2, Ranges DEF PubSession
    <2> QED BY <2>1 DEF workers_handle_sub_register, SubFind, box_find, SubRegister, SubLock,
                        SubTest,
                        SubWait, SubCheck, SubSend, SubMore, SubLeave, Leave, tfs_close
  <1>4. pc[w] = "p_update" => PubUpdate(w)
    <2>1. pc[w] = "p_update" => workers_handle_pub_register(w)
      BY <1>2, Ranges DEF SubSession
    <2> QED BY <2>1 DEF workers_handle_pub_register, PubFind, box_find, PubRegister, PubCode,
                        PubCheck,
                        PubWrite, PubLeave, Leave, tfs_close
  <1>5. pc'[w] \in {"s_wait", "s_waiting"} => workers_handle_sub_register(w)
    BY Ranges, Handled DEF Works, Step, Creating, PubSession
  <1>6. ASSUME \/ SubFind(w) \/ SubRegister(w) \/ SubLock(w) \/ SubWake(w) \/ SubCheck(w)
               \/ SubSend(w) \/ SubMore(w) \/ SubLeave(w) \/ tfs_close(w, "s_close")
        PROVE  pc'[w] \notin {"s_wait", "s_waiting"}
    <2>1. \E to \in {"idle", "s_register", "s_lock", "s_test", "s_send", "s_leave", "s_more",
                         "s_close"} : pc' = [pc EXCEPT ![w] = to]
      BY <1>6, Zenon DEF SubFind, box_find, SubRegister, SubLock, SubWake, SubCheck, SubSend,
                         SubMore,
                   SubLeave, Leave, tfs_close, Return, Goto
    <2> QED BY <1>1, <2>1
  <1>7. SubTest(w) =>
            \/ pc' = [pc EXCEPT ![w] = "s_check"]
            \/ pc' = [pc EXCEPT ![w] = "s_wait"] /\ ~Unread(w) /\ UNCHANGED loc
    BY Zenon DEF SubTest, Goto
  <1>8. SubWait(w) => /\ pc[w] = "s_wait" /\ pc' = [pc EXCEPT ![w] = "s_waiting"] /\ UNCHANGED loc
                      /\ box_cond' = [box_cond EXCEPT ![loc[w].box_i] = @ \cup {w}]
    BY Zenon DEF SubWait, Goto
  <1>9. PubUpdate(w) => /\ box_mutex[loc[w].box_i] = NULL /\ pc[w] = "p_update"
                        /\ box_cond' = [box_cond EXCEPT ![loc[w].box_i] = {}]
    BY Zenon DEF PubUpdate, cond_broadcast
  <1>10. BoxFree(w) => box_cond' = [box_cond EXCEPT ![loc[w].box_i] = {}]
    BY Zenon DEF BoxFree, cond_broadcast
  <1>11. SubWake(w) => w \notin box_cond[loc[w].box_i]
    BY DEF SubWake
  <1>12. pc'[w] \in {"s_wait", "s_waiting"} => SubTest(w) \/ SubWait(w)
    BY <1>5, <1>6 DEF workers_handle_sub_register
  <1>13. SubTest(w) => \/ pc'[w] = "s_check"
                       \/ pc'[w] = "s_wait" /\ ~Unread(w) /\ UNCHANGED loc
    BY <1>1, <1>7, Zenon
  <1>14. SubWait(w) => pc'[w] = "s_waiting"
    BY <1>1, <1>8, Zenon
  <1>15. "s_wait" # "s_waiting" /\ "s_check" \notin {"s_wait", "s_waiting"}
    OBVIOUS
  <1>16. pc'[w] = "s_wait" => SubTest(w) /\ ~Unread(w) /\ UNCHANGED loc
    BY <1>12, <1>13, <1>14, <1>15, Zenon
  <1>17. pc'[w] = "s_waiting" => SubWait(w)
    BY <1>12, <1>13, <1>15, Zenon
  <1> QED BY <1>3, <1>4, <1>8, <1>9, <1>10, <1>11, <1>14, <1>16, <1>17

\* Those who join the waiters of a condition wait on that box.
LEMMA CondStep ==
    ASSUME TypeInv, NEW w \in Workers, Works(w), NEW i \in Slots, NEW x \in box_cond'[i]
    PROVE  x \in box_cond[i] \/ (x = w /\ SubWait(w) /\ i = loc[w].box_i)
  <1>1. box_cond \in [Slots -> SUBSET Workers]
    BY DEF TypeInv, TablesOK
  <1>2. CASE UNCHANGED box_cond
    BY <1>2
  <1>3. CASE box_cond' = [box_cond EXCEPT ![loc[w].box_i] = {}]
    BY <1>1, <1>3
  <1>4. CASE SubWait(w) /\ box_cond' = [box_cond EXCEPT ![loc[w].box_i] = @ \cup {w}]
    BY <1>1, <1>4
  <1> QED BY <1>2, <1>3, <1>4, WaitMoves, Frames DEF Untouched

\* Whoever is in a waiters' set waits there.
LEMMA WaitingStep ==
    ASSUME TypeInv, Waiting, NEW w \in Workers, Works(w)
    PROVE  Waiting'
  <1> SUFFICES ASSUME NEW i \in Slots, NEW x \in box_cond'[i]
               PROVE  pc'[x] = "s_waiting" /\ loc'[x].box_i = i
    BY DEF Waiting
  <1>1. CASE x \in box_cond[i]
    <2>1. pc[x] = "s_waiting" /\ loc[x].box_i = i
      BY <1>1 DEF Waiting
    <2>2. x # w /\ x \in Workers
      BY <1>1, <2>1, WaitMoves DEF TypeInv, TablesOK
    <2> QED BY <2>1, <2>2, Alone
  <1>2. CASE x = w /\ SubWait(w) /\ i = loc[w].box_i
    BY <1>2, WaitMoves
  <1> QED BY <1>1, <1>2, CondStep

\* The publisher that writes what a waiting subscriber has not read found the same slot,
\* and broadcasts there; it has to take the mutex first, which a subscriber that has
\* decided to wait still holds.
LEMMA MissedStep ==
    ASSUME TypeInv, FilesApart, OneSlot, MutexesHeld, Waiting, NothingMissed,
           NEW w \in Workers, Works(w)
    PROVE  NothingMissed'
  <1> SUFFICES ASSUME NEW x \in Workers, Waits(x)', Unread(x)'
               PROVE  \E y \in Workers : Waker(x, y)'
    BY DEF NothingMissed
  <1> PICK i, f, o : i = loc[x].box_i /\ f = loc[x].box_f /\ o = loc[x].offset
    OBVIOUS
  <1>1. \A y \in Workers : y # w => pc'[y] = pc[y] /\ loc'[y] = loc[y]
    BY Alone
  <1>2. pc'[x] \in {"s_wait", "s_waiting"}
    BY DEF Waits
  <1>3. loc'[x] = loc[x] /\ o < Len(tfs_data'[f])
    <2>1. loc'[x] = loc[x]
      BY <1>1, <1>2, WaitMoves
    <2> QED BY <2>1 DEF Unread
  <1>4. CASE x = w
    <2>1. SubTest(w) \/ SubWait(w)
      BY <1>2, <1>4, WaitMoves
    <2>2. UNCHANGED tfs_data
      BY <2>1 DEF SubTest, SubWait, tfs
    <2>3. Unread(w)
      BY <1>3, <1>4, <2>2 DEF Unread
    <2>4. pc[w] = "s_wait"
      BY <1>2, <1>4, <2>3, WaitMoves
    <2>5. PICK y \in Workers : Waker(w, y)
      BY <2>3, <2>4 DEF NothingMissed, Waits
    <2>6. y # w
      BY <2>4, <2>5 DEF Waker
    <2> QED BY <1>1, <1>3, <1>4, <2>5, <2>6 DEF Waker
  <1>5. CASE x # w
    <2>1. pc'[x] = pc[x] /\ loc'[x] = loc[x] /\ pc[x] \in {"s_wait", "s_waiting"}
      BY <1>1, <1>2, <1>5
    <2>2. i \in Slots /\ f \in Files
      BY <2>1, Places DEF SetAt, HasSlot, Session, SubSession
    <2>3. pc[x] = "s_waiting" => x \in box_cond'[i]
      BY <2>1 DEF Waits
    <2>4. Waits(x)
      BY <1>5, <2>1, <2>2, <2>3, CondStep DEF Waits
    <2>5. CASE Unread(x)
      <3>1. PICK y \in Workers : Waker(x, y)
        BY <2>4, <2>5 DEF NothingMissed
      <3>2. y # w
        <4> SUFFICES ASSUME y = w
                     PROVE  FALSE
          OBVIOUS
        <4>1. pc[w] = "p_update" /\ loc[w].box_i = i
          BY <3>1 DEF Waker
        <4>2. box_mutex[i] = NULL /\ box_cond' = [box_cond EXCEPT ![i] = {}]
          BY <4>1, WaitMoves
        <4>3. box_cond'[i] = {}
          BY <2>2, <4>2 DEF TypeInv, TablesOK
        <4>4. pc[x] = "s_wait"
          BY <2>1, <2>3, <4>3
        <4> QED BY <4>2, <4>4, Constants DEF MutexesHeld, Holding
      <3> QED BY <1>1, <2>1, <3>1, <3>2 DEF Waker
    <2>6. CASE ~Unread(x)
      <3>1. tfs_data'[f] # tfs_data[f]
        BY <1>3, <2>6 DEF Unread
      <3>2. f \in Live
        BY Zenon DEF Live
      <3>3. ~CreateFile(w)
        <4> SUFFICES ASSUME CreateFile(w)
                     PROVE  FALSE
          OBVIOUS
        <4>1. PICK g \in Files : g \notin Live /\ tfs_data' = [tfs_data EXCEPT ![g] = << >>]
          BY <3>1, CreatedFile DEF tfs
        <4>2. g # f
          BY <3>2, <4>1
        <4> QED BY <2>2, <3>1, <4>1, <4>2 DEF TypeInv, FilesOK
      <3>4. PubWrite(w)
        BY <3>1, <3>3, Frames DEF UntouchedFiles
      <3>5. /\ \E s : Written(w, s)
            /\ Moves(w, "p_write", "p_update", [loc[w] EXCEPT !.offset = @ + 1])
        BY <3>1, <3>4, WriteStep
      <3>6. PICK s : tfs_data' = [tfs_data EXCEPT ![loc[w].box_f] = s]
        BY <3>5 DEF Written
      <3>7. loc[w].box_f = f
        BY <2>2, <3>1, <3>6 DEF TypeInv, FilesOK
      <3>8. pc[w] = "p_write" /\ pc'[w] = "p_update"
        BY <3>5, Places
      <3>9. loc'[w].box_i = loc[w].box_i /\ loc'[w].box_f = f
        <4>1. pc'[w] \in Session /\ pc[w] \notin {"p_register", "s_register"}
          BY <3>8 DEF Session, PubSession
        <4> QED BY <3>7, <4>1, SessionMoves DEF Enters, Continues, Same
      <3>10. Name(w) = Name(x)
        BY <2>2, <3>7, Constants DEF FilesApart, Files, NoFile
      <3>11. Found(w) /\ Found(x)
        BY <2>1, <3>8 DEF Found, Session, PubSession, SubSession
      <3>12. loc[w].box_i = i
        BY <3>10, <3>11 DEF OneSlot
      <3> QED BY <1>3, <3>8, <3>9, <3>12 DEF Waker
    <2> QED BY <2>5, <2>6
  <1> QED BY <1>4, <1>5
-----------------------------------------------------------------------------
(* The invariant of boxes that are created once                            *)

CreatedOnceInv ==
    BrokerInv /\ FilesApart /\ RequestsOnce /\ OneSlot /\ MutexesHeld /\ Waiting /\ NothingMissed

\* Nobody works, waits or has a name at first.
LEMMA InitCreatedOnce ==
    ASSUME Init
    PROVE  CreatedOnceInv
  <1>1. \A w \in Workers : /\ pc[w] = "idle" /\ loc[w].request = NULL
                           /\ loc[w].box_f = NoFile
    BY DEF Init, NoLocals
  <1>2. FilesApart
    <2>1. \A n \in BoxNames : tfs_dir[n] = NoFile
      BY DEF Init
    <2> QED BY <1>1, <2>1 DEF FilesApart
  <1>3. RequestsOnce
    <2>1. Len(requests_queue) = 0
      BY DEF Init
    <2> QED BY <1>1, <2>1 DEF RequestsOnce
  <1>4. \A w \in Workers : ~Found(w) /\ pc[w] \notin Holding /\ ~Waits(w)
    BY <1>1 DEF Found, Session, PubSession, SubSession, Holding, Waits
  <1>5. OneSlot
    <2>1. \A i \in Slots : boxes_table[i].name = NULL
      BY DEF Init
    <2>2. \A r \in Requests : r.code = "CREATE" => r.box_name \in BoxNames
      BY Constants
    <2> QED BY <1>4, <2>1, <2>2, Constants DEF OneSlot
  <1>6. MutexesHeld /\ NothingMissed
    BY <1>4 DEF MutexesHeld, NothingMissed
  <1>7. Waiting
    BY DEF Init, Waiting
  <1> QED BY <1>2, <1>3, <1>5, <1>6, <1>7, InitInv DEF CreatedOnceInv

\* A spurious wake-up only makes fewer workers wait.
LEMMA OthersWait ==
    ASSUME Waiting, NothingMissed, UNCHANGED <<tfs, pc, loc>>,
           \A j \in Slots : box_cond'[j] \subseteq box_cond[j], TypeInv
    PROVE  Waiting' /\ NothingMissed'
  <1>1. Waiting'
    BY DEF Waiting
  <1> SUFFICES ASSUME NEW w \in Workers, Waits(w)', Unread(w)'
               PROVE  \E x \in Workers : Waker(w, x)'
    BY <1>1 DEF NothingMissed
  <1>2. Unread(w)
    BY DEF Unread, tfs
  <1>3. Waits(w)
    <2>1. pc[w] = "s_waiting" => loc[w].box_i \in Slots
      BY Places DEF SetAt, HasSlot, Session, SubSession
    <2> QED BY <2>1 DEF Waits
  <1>4. PICK x \in Workers : Waker(w, x)
    BY <1>2, <1>3 DEF NothingMissed
  <1> QED BY <1>4 DEF Waker

\* Clients, the main thread and spurious wake-ups leave the boxes and the workers alone.
LEMMA OthersCreatedOnce ==
    ASSUME OneCreation, TypeInv, [Next]_vars, OneSlot, MutexesHeld, Waiting, NothingMissed,
           ~ \E w \in Workers : Works(w)
    PROVE  OneSlot' /\ MutexesHeld' /\ Waiting' /\ NothingMissed'
  <1>1. box_cond \in [Slots -> SUBSET Workers]
    BY DEF TypeInv, TablesOK
  <1>2. /\ UNCHANGED <<boxes, box_mutex, tfs, pc, loc>>
        /\ \A j \in Slots : box_cond'[j] \subseteq box_cond[j]
    <2>1. CASE \E r \in Requests : mbroker_receive_connection(r) \/ ClientQuits(r)
      BY <2>1, OtherFrames DEF locks
    <2>2. ASSUME NEW i \in Slots, NEW w \in Workers, SpuriousWakeup(i, w)
          PROVE  /\ UNCHANGED <<boxes, box_mutex, tfs, pc, loc>>
                 /\ \A j \in Slots : box_cond'[j] \subseteq box_cond[j]
      BY <1>1, <2>2, OtherFrames
    <2>3. CASE UNCHANGED vars
      BY <2>3 DEF vars, locks
    <2> QED BY <2>1, <2>2, <2>3, Steps
  <1>3. OneSlot'
    <2>1. \A r \in Requests : Unnamed(r)' => Unnamed(r)
      BY UnnamedBefore
    <2>2. \A w \in Workers : (Found(w)' <=> Found(w)) /\ Name(w)' = Name(w)
      BY <1>2 DEF Found, Name
    <2>3. UNCHANGED <<boxes_table, loc>>
      BY <1>2 DEF boxes
    <2> QED BY <2>1, <2>2, <2>3 DEF OneSlot
  <1>4. MutexesHeld'
    BY <1>2 DEF MutexesHeld
  <1> QED BY <1>2, <1>3, <1>4, OthersWait

\* The invariant is kept by every step.
LEMMA StepCreatedOnce ==
    ASSUME OneCreation, CreatedOnceInv, [Next]_vars
    PROVE  CreatedOnceInv'
  <1>1. BrokerInv /\ TypeInv /\ FilesApart /\ RequestsOnce /\ OneSlot /\ MutexesHeld /\ Waiting
           /\ NothingMissed
    BY DEF CreatedOnceInv, BrokerInv
  <1>2. BrokerInv' /\ FilesApart' /\ RequestsOnce'
    BY <1>1, StepInv, FilesAndRequests
  <1>3. CASE \E w \in Workers : Works(w)
    BY <1>1, <1>2, <1>3, SlotStep, MutexStep, WaitingStep, MissedStep DEF CreatedOnceInv
  <1>4. CASE ~ \E w \in Workers : Works(w)
    BY <1>1, <1>2, <1>4, OthersCreatedOnce DEF CreatedOnceInv
  <1> QED BY <1>3, <1>4

\* When no name is created twice a file never has two publishers, whatever is removed:
\* PubRegister tests the count of the slot, and all who look for the box find that slot.
\* Without the hypothesis two creations of one name give it two slots and the test is of
\* no use.
THEOREM OnePublisherPerFile ==
    ASSUME OneCreation
    PROVE  Spec => []OnePublisher
  <1>1. CreatedOnceInv => OnePublisher
    BY OneWriter DEF CreatedOnceInv
  <1> QED BY <1>1, InitCreatedOnce, StepCreatedOnce, PTL DEF Spec

\* When no name is created twice a subscriber that waits in cond_wait has read all of its
\* box, or the publisher that wrote the rest has yet to broadcast: no wake-up falls
\* between the failed tfs_read and the wait, and none goes to another slot.
THEOREM NoWakeUpLost ==
    ASSUME OneCreation
    PROVE  Spec => []NoMissedMessage
  <1>1. ASSUME CreatedOnceInv
        PROVE  NoMissedMessage
    <2> SUFFICES ASSUME NEW i \in Slots, NEW w \in box_cond[i], Unread(w)
                 PROVE  \E x \in Workers : /\ pc[x] = "p_update"
                                           /\ loc[x].box_i = i
                                           /\ loc[x].box_f = loc[w].box_f
      BY DEF NoMissedMessage
    <2>1. TypeInv /\ Waiting /\ NothingMissed
      BY <1>1 DEF CreatedOnceInv, BrokerInv
    <2>2. w \in Workers
      BY <2>1 DEF TypeInv, TablesOK
    <2>3. pc[w] = "s_waiting" /\ loc[w].box_i = i
      BY <2>1 DEF Waiting
    <2>4. PICK x \in Workers : Waker(w, x)
      BY <2>1, <2>2, <2>3 DEF NothingMissed, Waits
    <2> QED BY <2>3, <2>4 DEF Waker
  <1> QED BY <1>1, InitCreatedOnce, StepCreatedOnce, PTL DEF Spec
-----------------------------------------------------------------------------
(* Boxes that are created once and never removed                           *)

\* What is in file f stays there.
Kept(f) ==
    /\ Len(tfs_data[f]) <= Len(tfs_data'[f])
    /\ \A k \in 1 .. Len(tfs_data[f]) : tfs_data'[f][k] = tfs_data[f][k]

\* A publisher that has the file for itself writes after the last message.
LEMMA AppendStep ==
    ASSUME TypeInv, OnePublisher, Appending, NEW w \in Workers, Works(w)
    PROVE  Appending' /\ \A f \in Files \cap Live : Kept(f)
  <1>1. \A x \in Workers : x # w => pc'[x] = pc[x] /\ loc'[x] = loc[x]
    BY Alone
  <1>2. /\ tfs_data \in [Files -> Seq(Nat)] /\ published = tfs_data
        /\ \A x \in Workers : pc[x] \in PubSession =>
               loc[x].offset = Len(tfs_data[loc[x].box_f]) /\ loc[x].box_f \in Files
    BY Places DEF TypeInv, FilesOK, Appending, SetAt, Session
  <1>3. CASE PubWrite(w)
    <2>1. PICK f, m : f = loc[w].box_f /\ m = loc[w].message
      OBVIOUS
    <2>2. pc[w] = "p_write" /\ f \in Files /\ pc[w] \in PubSession
      BY <1>3, <2>1, WriteStep DEF PubSession
    <2>3. CASE UNCHANGED <<tfs_data, published>> /\ Moves(w, "p_write", "p_leave", loc[w])
      <3>1. loc'[w] = loc[w] /\ UNCHANGED <<tfs_data, published>>
        BY <2>3, Places
      <3> QED BY <1>1, <1>2, <2>2, <3>1 DEF Appending, Kept
    <2>4. CASE ~(UNCHANGED <<tfs_data, published>> /\ Moves(w, "p_write", "p_leave", loc[w]))
      <3>1. PICK old : old = tfs_data[f]
        OBVIOUS
      <3>2. old \in Seq(Nat) /\ loc[w].offset = Len(old)
        BY <1>2, <2>1, <2>2, <3>1
      <3>3. /\ \E s : Written(w, s)
            /\ published' = [published EXCEPT ![f] = Append(published[f], m)]
            /\ Moves(w, "p_write", "p_update", [loc[w] EXCEPT !.offset = loc[w].offset + 1])
        BY <1>3, <2>1, <2>4, WriteStep
      <3>4. PICK s : /\ s \in Seq(Nat) /\ s = Append(old, m)
                     /\ tfs_data' = [tfs_data EXCEPT ![f] = s]
        BY <2>1, <3>1, <3>2, <3>3 DEF Written
      <3>5. published' = tfs_data'
        BY <1>2, <3>1, <3>3, <3>4, Zenon
      <3>6. Len(s) = Len(old) + 1 /\ \A k \in 1 .. Len(old) : s[k] = old[k]
        <4>1. loc[w] \in Locals
          BY Places
        <4>2. m \in Nat
          BY <2>1, <4>1 DEF Locals
        <4> QED BY <3>2, <3>4, <4>2
      <3>7. tfs_data'[f] = s /\ \A g \in Files : g # f => tfs_data'[g] = tfs_data[g]
        BY <1>2, <2>2, <3>4
      <3>8. \A g \in Files : Kept(g)
        BY <3>1, <3>2, <3>6, <3>7 DEF Kept
      <3>9. loc'[w].box_f = f /\ loc'[w].offset = loc[w].offset + 1
        BY <2>1, <3>3, Places DEF Locals
      <3>10. \A x \in Workers : x # w /\ pc[x] \in PubSession => loc[x].box_f # f
        BY <2>1, <2>2 DEF OnePublisher
      <3>11. \A x \in Workers : pc'[x] \in PubSession =>
                 loc'[x].offset = Len(tfs_data'[loc'[x].box_f])
        BY <1>1, <1>2, <3>2, <3>6, <3>7, <3>9, <3>10
      <3> QED BY <3>5, <3>8, <3>11 DEF Appending
    <2> QED BY <2>3, <2>4
  <1>4. CASE CreateFile(w)
    <2>1. pc'[w] \notin PubSession
      <3>1. \E to \in {"c_close", "c_claim"} : pc' = [pc EXCEPT ![w] = to]
        BY <1>4, Zenon DEF CreateFile, Outcome, Goto
      <3> QED BY <3>1 DEF PubSession, TypeInv, WorkersOK
    <2>2. CASE UNCHANGED tfs
      <3>1. UNCHANGED <<tfs_data, published>>
        BY <2>2 DEF tfs
      <3> QED BY <1>1, <1>2, <2>1, <3>1 DEF Appending, Kept
    <2>3. CASE ~UNCHANGED tfs
      <3>1. PICK f \in Files : /\ f \notin Live
                               /\ tfs_data' = [tfs_data EXCEPT ![f] = << >>]
                               /\ published' = [published EXCEPT ![f] = << >>]
        BY <1>4, <2>3, CreatedFile
      <3>2. \A g \in Files : g # f => tfs_data'[g] = tfs_data[g]
        BY <1>2, <3>1
      <3>3. published' = tfs_data'
        BY <1>2, <3>1
      <3>4. \A x \in Workers : loc[x].box_f # f
        BY <3>1 DEF Live
      <3>5. \A g \in Files \cap Live : Kept(g)
        BY <3>1, <3>2 DEF Kept
      <3>6. \A x \in Workers : pc'[x] \in PubSession =>
                loc'[x].offset = Len(tfs_data'[loc'[x].box_f])
        BY <1>1, <1>2, <2>1, <3>2, <3>4, ZenonT(60)
      <3> QED BY <3>3, <3>5, <3>6 DEF Appending
    <2> QED BY <2>2, <2>3
  <1>5. CASE ~PubWrite(w) /\ ~CreateFile(w)
    <2>1. UNCHANGED <<tfs_data, published>>
      BY <1>5, Frames DEF UntouchedFiles
    <2>2. pc'[w] \in PubSession => loc'[w].offset = Len(tfs_data[loc'[w].box_f])
      <3> SUFFICES ASSUME pc'[w] \in PubSession
                   PROVE  loc'[w].offset = Len(tfs_data[loc'[w].box_f])
        OBVIOUS
      <3>1. pc'[w] \notin SubSession /\ pc'[w] # "s_lock"
        BY DEF PubSession, SubSession
      <3>2. Enters(w) \/ Continues(w)
        BY SessionMoves DEF Session
      <3>3. CASE Enters(w)
        BY <3>1, <3>3 DEF Enters
      <3>4. CASE Continues(w)
        BY <1>2, <1>5, <3>1, <3>4 DEF Continues, Same
      <3> QED BY <3>2, <3>3, <3>4
    <2> QED BY <1>1, <1>2, <2>1, <2>2 DEF Appending, Kept
  <1> QED BY <1>3, <1>4, <1>5

\* No request removes a box.
NoRemoval == \A r \in Requests : r.code # "REMOVE"

\* Only a removal frees a slot.
LEMMA StayStep ==
    ASSUME NoRemoval, TypeInv, BoxesStay, NEW w \in Workers, Works(w)
    PROVE  BoxesStay'
  <1>1. \A x \in Workers : x # w => pc'[x] = pc[x] /\ loc'[x] = loc[x]
    BY Alone
  <1>2. ~BoxFree(w)
    <2>1. pc[w] # "r_free"
      BY Places DEF NoRemoval, SetAt, Removing
    <2> QED BY <2>1 DEF BoxFree
  <1>3. \A i \in Slots : free_boxes[i] = "TAKEN" => free_boxes'[i] = "TAKEN"
    <2>1. free_boxes \in [Slots -> {"FREE", "TAKEN"}]
      BY DEF TypeInv, TablesOK
    <2>2. BoxClaim(w) \/ UNCHANGED free_boxes
      BY <1>2, Frames DEF Untouched
    <2> QED BY <2>1, <2>2, ClaimStep
  <1>4. \A x \in Workers : Found(x) => loc[x].box_i \in Slots
    BY Places DEF Found, SetAt, HasSlot
  <1>5. ASSUME Found(w)'
        PROVE  loc'[w].box_i \in Slots /\ free_boxes[loc'[w].box_i] = "TAKEN"
    BY <1>4, <1>5, FoundStep DEF BoxesStay
  <1>6. \A x \in Workers : x # w => (Found(x)' <=> Found(x))
    BY <1>1 DEF Found
  <1> QED BY <1>1, <1>3, <1>4, <1>5, <1>6 DEF BoxesStay

\* The reads of a subscriber follow one another, and it sends each message before it
\* reads the next one.
LEMMA OrderMoves ==
    ASSUME TypeInv, BoxesStay, InOrder, NEW w \in Workers, Works(w), pc'[w] \in SubSession
    PROVE  /\ UNCHANGED tfs_data
           /\ Ordered(pc'[w], loc'[w], tfs_data[loc'[w].box_f])
  <1> PICK l : l = loc[w]
    OBVIOUS
  <1>1. \A from, to, r : Moves(w, from, to, r) => pc[w] = from /\ pc'[w] = to /\ loc'[w] = r
    BY Places
  <1>2. l \in Locals /\ SetAt(pc[w], l) /\ loc \in [Workers -> Locals]
    BY Places
  <1>3. workers_handle_sub_register(w)
    BY Ranges, Handled DEF Works, Step, Creating, PubSession, SubSession
  <1>4. UNCHANGED tfs_data
    BY <1>3, SubFrames, Ranges DEF UntouchedFiles, PubWrite, CreateFile, SubSession
  <1>5. CASE Enters(w)
    <2>1. pc'[w] = "s_lock" /\ loc'[w].offset = 0 /\ loc'[w].delivered = << >>
      BY <1>5 DEF Enters, SubSession
    <2> QED BY <1>4, <2>1 DEF Ordered
  <1>6. CASE Continues(w)
    <2>1. pc[w] \in SubSession /\ loc'[w].box_f = l.box_f
      BY <1>3, <1>6, Ranges DEF Continues, Same, Session, PubSession, SubSession
    <2>2. PICK s, d, o, m : /\ s = tfs_data[l.box_f] /\ d = l.delivered /\ o = l.offset
                            /\ m = l.message
      OBVIOUS
    <2>3. d \in Seq(Nat) /\ o \in Nat /\ m \in Nat
      BY <1>2, <2>2 DEF Locals
    <2>4. Ordered(pc[w], l, s)
      BY <2>1, <2>2 DEF InOrder
    <2>5. /\ Len(d) <= o /\ Len(d) \in Nat
          /\ \A k \in 1 .. Len(d) : d[k] = s[k]
          /\ pc[w] \in {"s_check", "s_send"} => o > 0 /\ Len(d) = o - 1 /\ m = s[o]
          /\ pc[w] \notin {"s_check", "s_send", "s_leave"} => Len(d) = o
      BY <2>2, <2>3, <2>4 DEF Ordered
    <2> DEFINE Held == {"s_check", "s_send", "s_leave"}
    <2>6. \A from, to : Moves(w, from, to, l) /\
              (\/ to = "s_leave"
               \/ from = "s_check" /\ to = "s_send"
               \/ from \notin Held /\ to \notin Held) =>
                  Ordered(to, loc'[w], s)
      <3> SUFFICES ASSUME NEW from, NEW to, Moves(w, from, to, l),
                          \/ to = "s_leave"
                          \/ from = "s_check" /\ to = "s_send"
                          \/ from \notin Held /\ to \notin Held
                   PROVE  Ordered(to, loc'[w], s)
        BY Zenon
      <3>1. pc[w] = from /\ loc'[w] = l
        BY <1>1
      <3> QED BY <2>2, <2>5, <3>1 DEF Ordered
    <2>7. \A from, to : Reads(w, from, to) /\ from \in {"s_test", "s_more"}
              /\ to \in {"s_check", "s_send"} => Ordered(to, loc'[w], s)
      <3> SUFFICES ASSUME NEW from, NEW to, Reads(w, from, to), from \in {"s_test", "s_more"},
                          to \in {"s_check", "s_send"}
                   PROVE  Ordered(to, loc'[w], s)
        BY Zenon
      <3>1. PICK n, p : n = s[o + 1] /\ p = o + 1
        OBVIOUS
      <3>2. pc[w] = from /\ loc'[w] = [l EXCEPT !.message = n, !.offset = p]
        BY <1>1, <2>2, <3>1, ZenonT(60) DEF Reads
      <3>3. loc'[w].message = n /\ loc'[w].offset = p /\ loc'[w].delivered = d
        BY <1>2, <2>2, <3>2 DEF Locals
      <3> QED BY <2>3, <2>5, <3>1, <3>2, <3>3 DEF Ordered
    <2> HIDE DEF Held
    <2> SUFFICES Ordered(pc'[w], loc'[w], s)
      BY <1>4, <2>1, <2>2
    <2>8. \A at \in {"s_lock", "s_test", "s_wait", "s_waiting", "s_more"} : at \notin Held
      BY DEF Held
    <2>9. CASE SubLock(w) \/ SubWait(w) \/ SubWake(w)
      <3>1. \E from, to \in {"s_lock", "s_test", "s_wait", "s_waiting"} : Moves(w, from, to, l)
        BY <1>2, <2>9, SubMoves
      <3> QED BY <1>1, <2>6, <2>8, <3>1
    <2>10. CASE SubTest(w)
      <3>1. free_boxes[l.box_i] # "FREE"
        BY <2>1 DEF BoxesStay, Found, Session
      <3>2. Moves(w, "s_test", "s_wait", l) \/ Reads(w, "s_test", "s_check")
        BY <1>2, <2>10, <3>1, SubMoves, Zenon
      <3>3. Reads(w, "s_test", "s_check") => pc'[w] = "s_check"
        BY <1>1, Zenon DEF Reads
      <3> QED BY <1>1, <2>6, <2>7, <2>8, <3>2, <3>3
    <2>11. CASE SubCheck(w)
      <3>1. Moves(w, "s_check", "s_send", l) \/ Moves(w, "s_check", "s_leave", l)
        BY <1>2, <2>11, SubMoves
      <3> QED BY <1>1, <2>6, <3>1
    <2>12. CASE SubSend(w)
      <3>1. PICK e : e = Append(d, m)
        OBVIOUS
      <3>2. Moves(w, "s_send", "s_leave", l) \/ Moves(w, "s_send", "s_more", [l EXCEPT !.delivered = e])
        BY <1>2, <2>2, <2>12, <3>1, SubMoves, Zenon
      <3>3. CASE Moves(w, "s_send", "s_leave", l)
        BY <1>1, <2>6, <3>3
      <3>4. CASE Moves(w, "s_send", "s_more", [l EXCEPT !.delivered = e])
        <4>1. pc[w] = "s_send" /\ pc'[w] = "s_more" /\ loc'[w] = [l EXCEPT !.delivered = e]
          BY <1>1, <3>4
        <4>2. loc'[w].delivered = e /\ loc'[w].offset = o
          BY <1>2, <2>2, <4>1 DEF Locals
        <4>3. o > 0 /\ Len(d) = o - 1 /\ m = s[o]
          BY <2>5, <4>1
        <4>4. Len(e) = o /\ \A k \in 1 .. o : e[k] = s[k]
          <5>1. Len(e) = Len(d) + 1 /\ e[Len(d) + 1] = m /\ \A k \in 1 .. Len(d) : e[k] = d[k]
            BY <2>3, <3>1
          <5> QED BY <2>3, <2>5, <4>3, <5>1
        <4> QED BY <4>1, <4>2, <4>4, <2>3 DEF Ordered
      <3> QED BY <3>2, <3>3, <3>4
    <2>13. CASE SubMore(w)
      <3>1. Reads(w, "s_more", "s_send") \/ Moves(w, "s_more", "s_lock", l)
        BY <1>2, <2>13, SubMoves, Zenon
      <3>2. Reads(w, "s_more", "s_send") => pc'[w] = "s_send"
        BY <1>1, Zenon DEF Reads
      <3> QED BY <1>1, <2>6, <2>7, <2>8, <3>1, <3>2
    <2>14. ~SubFind(w) /\ ~SubRegister(w) /\ ~SubLeave(w) /\ ~tfs_close(w, "s_close")
      <3>1. (SubFind(w) => pc[w] = "s_find") /\ (SubRegister(w) => pc[w] = "s_register")
        BY Zenon DEF SubFind, box_find, SubRegister
      <3>2. /\ SubLeave(w) => Moves(w, "s_leave", "s_close", loc[w])
            /\ tfs_close(w, "s_close") => Moves(w, "s_close", "idle", NoLocals)
        BY <1>2, SubMoves, Zenon
      <3>3. (SubLeave(w) => pc'[w] = "s_close") /\ (tfs_close(w, "s_close") => pc'[w] = "idle")
        BY <1>1, <3>2, Zenon
      <3> QED BY <2>1, <3>1, <3>3 DEF SubSession
    <2> QED BY <1>3, <2>9, <2>10, <2>11, <2>12, <2>13, <2>14, Zenon
               DEF workers_handle_sub_register
  <1> QED BY <1>4, <1>5, <1>6, SessionMoves DEF Session

\* What a subscriber has read stays as it was read.
LEMMA OrderStep ==
    ASSUME TypeInv, OnePublisher, Appending, BoxesStay, InOrder, NEW w \in Workers, Works(w)
    PROVE  InOrder'
  <1> SUFFICES ASSUME NEW x \in Workers, pc'[x] \in SubSession
               PROVE  Ordered(pc'[x], loc'[x], tfs_data'[loc'[x].box_f])
    BY DEF InOrder
  <1>1. CASE x = w
    <2>1. UNCHANGED tfs_data /\ Ordered(pc'[w], loc'[w], tfs_data[loc'[w].box_f])
      BY <1>1, OrderMoves
    <2> QED BY <1>1, <2>1, Zenon
  <1>2. CASE x # w
    <2>1. pc'[x] = pc[x] /\ loc'[x] = loc[x] /\ pc[x] \in SubSession
      BY <1>2, Alone
    <2>2. PICK f, o, d : f = loc[x].box_f /\ o = loc[x].offset /\ d = loc[x].delivered
      OBVIOUS
    <2>3. f \in Files /\ o \in Nat /\ d \in Seq(Nat)
      BY <2>1, <2>2, Places DEF SetAt, Session, Locals
    <2>4. o <= Len(tfs_data[f]) /\ Len(tfs_data[f]) \in Nat
      BY <2>1, <2>2, <2>3 DEF TypeInv, FilesOK, Session
    <2>5. Kept(f)
      <3>1. f \in Live
        BY <2>2, Zenon DEF Live
      <3> QED BY <2>3, <3>1, AppendStep
    <2>6. PICK s, t : s = tfs_data[f] /\ t = tfs_data'[f]
      OBVIOUS
    <2>7. \A k \in 1 .. o : t[k] = s[k]
      BY <2>3, <2>4, <2>5, <2>6 DEF Kept
    <2>8. Ordered(pc[x], loc[x], s)
      BY <2>1, <2>2, <2>6 DEF InOrder
    <2>9. Ordered(pc[x], loc[x], t)
      <3>1. /\ Len(d) <= o
            /\ \A k \in 1 .. Len(d) : d[k] = s[k]
            /\ pc[x] \in {"s_check", "s_send"} => o > 0 /\ Len(d) = o - 1 /\ loc[x].message = s[o]
            /\ pc[x] \notin {"s_check", "s_send", "s_leave"} => Len(d) = o
        BY <2>2, <2>8, Zenon DEF Ordered
      <3>2. \A k \in 1 .. Len(d) : d[k] = t[k]
        BY <2>3, <2>7, <3>1
      <3>3. o > 0 => t[o] = s[o]
        BY <2>3, <2>7
      <3> QED BY <2>2, <3>1, <3>2, <3>3 DEF Ordered
    <2> QED BY <2>1, <2>2, <2>6, <2>9
  <1> QED BY <1>1, <1>2

\* The invariant of boxes that are created once and never removed.
NeverRemovedInv == CreatedOnceInv /\ Appending /\ BoxesStay /\ InOrder

\* Each part is kept by every step.
LEMMA StepNeverRemoved ==
    ASSUME OneCreation, NoRemoval, NeverRemovedInv, [Next]_vars
    PROVE  NeverRemovedInv'
  <1>1. CreatedOnceInv /\ TypeInv /\ OnePublisher /\ Appending /\ BoxesStay /\ InOrder
    BY OneWriter DEF NeverRemovedInv, CreatedOnceInv, BrokerInv
  <1>2. CreatedOnceInv'
    BY <1>1, StepCreatedOnce
  <1>3. CASE \E w \in Workers : Works(w)
    BY <1>1, <1>2, <1>3, AppendStep, StayStep, OrderStep DEF NeverRemovedInv
  <1>4. CASE UNCHANGED <<boxes, tfs, pc, loc>>
    <2>1. UNCHANGED <<free_boxes, tfs_data, published, pc, loc>>
      BY <1>4 DEF boxes, tfs
    <2>2. Appending'
      BY <1>1, <2>1, Zenon DEF Appending
    <2>3. BoxesStay'
      BY <1>1, <2>1, Zenon DEF BoxesStay, Found
    <2>4. InOrder'
      BY <1>1, <2>1, Zenon DEF InOrder
    <2> QED BY <1>2, <2>2, <2>3, <2>4 DEF NeverRemovedInv
  <1>5. (\E w \in Workers : Works(w)) \/ UNCHANGED <<boxes, tfs, pc, loc>>
    BY Steps, OtherFrames DEF vars
  <1> QED BY <1>3, <1>4, <1>5

\* When no box is created twice or removed, what a subscriber was sent is the beginning of
\* what was published in its box, in order, for any number of publishers that come and go
\* and of subscribers: nothing is skipped, sent twice or written over.  A box that is
\* removed while its slot is used again breaks it: the subscriber may be sent
\* what is left in its buffer.
THEOREM DeliveryInOrder ==
    ASSUME OneCreation, NoRemoval
    PROVE  Spec => []DeliveredInOrder
  <1>1. Init => NeverRemovedInv
    <2> SUFFICES ASSUME Init
                 PROVE  NeverRemovedInv
      OBVIOUS
    <2>1. \A w \in Workers : ~Found(w) /\ pc[w] \notin PubSession /\ pc[w] \notin SubSession
      BY DEF Init, Found, Session, PubSession, SubSession
    <2>2. Appending /\ BoxesStay /\ InOrder
      BY <2>1 DEF Init, Appending, BoxesStay, InOrder
    <2> QED BY <2>2, InitCreatedOnce DEF NeverRemovedInv
  <1>2. ASSUME NeverRemovedInv
        PROVE  DeliveredInOrder
    <2> SUFFICES ASSUME NEW w \in Workers, pc[w] \in SubSession
                 PROVE  IsPrefix(loc[w].delivered, published[loc[w].box_f])
      BY DEF DeliveredInOrder
    <2>1. TypeInv /\ Appending /\ InOrder
      BY <1>2 DEF NeverRemovedInv, CreatedOnceInv, BrokerInv
    <2>2. PICK f, o, d, s : /\ f = loc[w].box_f /\ o = loc[w].offset /\ d = loc[w].delivered
                            /\ s = tfs_data[f]
      OBVIOUS
    <2>3. f \in Files /\ o \in Nat /\ d \in Seq(Nat)
      BY <2>1, <2>2, Places DEF SetAt, Session, Locals
    <2>4. s \in Seq(Nat) /\ o <= Len(s)
      BY <2>1, <2>2, <2>3 DEF TypeInv, FilesOK, Session
    <2>5. Len(d) <= o /\ \A k \in 1 .. Len(d) : d[k] = s[k]
      <3>1. Ordered(pc[w], loc[w], s)
        BY <2>1, <2>2 DEF InOrder
      <3> QED BY <2>2, <3>1 DEF Ordered
    <2>6. Len(d) <= Len(s)
      BY <2>3, <2>4, <2>5
    <2>7. SubSeq(d, 1, Len(d)) = SubSeq(s, 1, Len(d))
      BY <2>3, <2>4, <2>5, <2>6
    <2>8. IsPrefix(d, s)
      BY <2>6, <2>7 DEF IsPrefix
    <2> QED BY <2>1, <2>2, <2>8 DEF Appending
  <1> QED BY <1>1, <1>2, StepNeverRemoved, PTL DEF Spec
=============================================================================
