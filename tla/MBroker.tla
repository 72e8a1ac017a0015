------------------------------ MODULE MBroker ------------------------------
(***************************************************************************)
(* mbroker/mbroker.c: the main thread hands the requests of the clients to *)
(* the worker threads, which serve publishers, subscribers and managers on *)
(* a table of boxes, each kept in a file of TecnicoFS.                     *)
(*                                                                         *)
(* The file system is what the handlers use of it: a map from names to     *)
(* files and the messages in each file; its calls take effect at once.     *)
(* The queue is the one BoundedFifo specifies.  A message is its number: a *)
(* file is a sequence of whole messages, for the broker reads and writes   *)
(* MSG_MAX_LEN bytes at a time.                                            *)
(***************************************************************************)
EXTENDS Integers, Sequences, FiniteSets, FiniteSetsExt, SequencesExt

CONSTANTS
    Workers,        \* max_sessions threads
    BoxNames,
    Requests,       \* the requests the clients make, each sent once
    Quitters,       \* those whose client may close its pipe before it is served
    InodeCount,     \* inode_table_size(): slots for boxes; files, with the root's
    BoxCapacity,    \* messages that fit in the one block of a file
    QueueCapacity,  \* of requests_queue; the code passes max_sessions
    Uint64,         \* counts wrap at this bound, which stands for 2^64
    MaxMessages,    \* bound: messages sent by the publishers in all
    MaxSpurious,    \* bound: returns of cond_wait that nobody signalled
    NULL

Codes == {"PUB_REGISTER", "SUB_REGISTER", "CREATE", "REMOVE", "LIST"}

ASSUME BrokerAssumption ==
    /\ NULL \notin Workers /\ NULL \notin BoxNames /\ NULL \notin Requests
    /\ \A r \in Requests : r.code \in Codes /\ (r.box_name \in BoxNames \/ r.code = "LIST")
    /\ Quitters \subseteq Requests
    /\ InodeCount \in Nat \ {0}
    /\ {BoxCapacity, QueueCapacity} \subseteq Nat \ {0}
    /\ Uint64 \in Nat \ {0, 1}
    /\ {MaxMessages, MaxSpurious} \subseteq Nat

VARIABLES
    n_boxes,
    boxes_table,      \* name, size (in messages) and counts of each box
    free_boxes,       \* FREE or TAKEN
    box_mutex,        \* owner of each box's mutex, or NULL
    box_cond,         \* the workers that wait on each box's cond
    boxes_rd,         \* the workers that hold free_boxes_lock for reading
    boxes_wr,         \* the worker that holds it for writing, or NULL
    tfs_dir,          \* the file each name is linked to, NoFile if none
    tfs_data,         \* the messages in each file
    published,        \* history: the messages accepted in each file, in order
    requests_queue,
    pc,
    loc,              \* each worker's local variables
    sent,             \* requests already written to the register pipe
    gone,             \* requests whose client closed its pipe
    answers,          \* the return_code each manager was sent, NULL before
    n_messages,       \* messages sent so far
    spurious          \* unsignalled wake-ups so far

boxes == <<n_boxes, boxes_table, free_boxes>>
locks == <<box_mutex, box_cond, boxes_rd, boxes_wr>>
tfs == <<tfs_dir, tfs_data, published>>
clients == <<requests_queue, sent, gone, answers, n_messages>>
vars == <<boxes, locks, tfs, pc, loc, clients, spurious>>

Slots == 0 .. InodeCount - 1
Files == 1 .. InodeCount - 1   \* the root directory has the other inode
NoFile == 0

NoLocals ==
    [request |-> NULL, box_i |-> -1, box_f |-> NoFile, offset |-> 0, message |-> 0,
     return_code |-> 0, delivered |-> << >>, packets |-> << >>]

Init ==
    /\ n_boxes = 0
    /\ boxes_table = [i \in Slots |->
           [name |-> NULL, size |-> 0, n_publishers |-> 0, n_subscribers |-> 0]]
    /\ free_boxes = [i \in Slots |-> "FREE"]
    /\ box_mutex = [i \in Slots |-> NULL]
    /\ box_cond = [i \in Slots |-> {}]
    /\ boxes_rd = {}
    /\ boxes_wr = NULL
    /\ tfs_dir = [n \in BoxNames |-> NoFile]
    /\ tfs_data = [f \in Files |-> << >>]
    /\ published = [f \in Files |-> << >>]
    /\ requests_queue = << >>
    /\ pc = [w \in Workers |-> "idle"]
    /\ loc = [w \in Workers |-> NoLocals]
    /\ sent = {}
    /\ gone = {}
    /\ answers = [r \in Requests |-> NULL]
    /\ n_messages = 0
    /\ spurious = 0

-----------------------------------------------------------------------------
(* Clients and the main thread                                             *)

\* A client registers: the main thread reads the request and enqueues it, and
\* blocks while the queue is full.
mbroker_receive_connection(r) ==
    /\ r \notin sent
    /\ Len(requests_queue) < QueueCapacity
    /\ sent' = sent \cup {r}
    /\ requests_queue' = Append(requests_queue, r)
    /\ UNCHANGED <<boxes, locks, tfs, pc, loc, gone, answers, n_messages, spurious>>

\* The client ends its session: end of input, SIGINT or a failure of its own.
ClientQuits(r) ==
    /\ r \in (sent \cap Quitters) \ gone
    /\ gone' = gone \cup {r}
    /\ UNCHANGED <<boxes, locks, tfs, pc, loc, requests_queue, sent, answers,
                   n_messages, spurious>>

-----------------------------------------------------------------------------
(* Steps of a worker                                                       *)

Goto(w, to) == pc' = [pc EXCEPT ![w] = to]

\* The handler returns and the request is freed.
Return(w) ==
    /\ Goto(w, "idle")
    /\ loc' = [loc EXCEPT ![w] = NoLocals]

Name(w) == loc[w].request.box_name
Gone(w) == loc[w].request \in gone

\* The first slot of S, -1 if there is none.
First(S) == IF S = {} THEN -1 ELSE Min(S)

Handler ==
    [PUB_REGISTER |-> "p_find", SUB_REGISTER |-> "s_find", CREATE |-> "c_exists",
     REMOVE |-> "r_delete", LIST |-> "l_open"]

workers_reception(w) ==
    /\ pc[w] = "idle"
    /\ requests_queue # << >>
    /\ Goto(w, Handler[Head(requests_queue).code])
    /\ loc' = [loc EXCEPT ![w].request = Head(requests_queue)]
    /\ requests_queue' = Tail(requests_queue)
    /\ UNCHANGED <<boxes, locks, tfs, sent, gone, answers, n_messages, spurious>>

Matching(name) == {i \in Slots : free_boxes[i] = "TAKEN" /\ boxes_table[i].name = name}

\* The open of a session pipe fails only when the client, a subscriber that was
\* interrupted in its own open, has removed it.  Any other client that is gone by then
\* was killed: its pipe is still there and the open waits for ever.
PipeRemoved(w) == Gone(w) /\ loc[w].request.code = "SUB_REGISTER"

\* Opens the session pipe and finds the box under free_boxes_lock; the names are
\* read without the boxes' mutexes.
box_find(w, from, to) ==
    /\ pc[w] = from
    /\ \/ /\ PipeRemoved(w) \/ (~Gone(w) /\ boxes_wr = NULL /\ Matching(Name(w)) = {})
          /\ Return(w)
       \/ /\ ~Gone(w)
          /\ boxes_wr = NULL /\ Matching(Name(w)) # {}
          /\ Goto(w, to)
          /\ loc' = [loc EXCEPT ![w].box_i = First(Matching(Name(w)))]
    /\ UNCHANGED <<boxes, locks, tfs, clients, spurious>>

\* A count of boxes_table goes up or down by one, as uint64_t does.
Count(i, field, n) ==
    boxes_table' = [boxes_table EXCEPT ![i][field] = (@ + n) % Uint64]

\* The file a worker has open stays allocated after it is unlinked.
Live == {tfs_dir[n] : n \in BoxNames} \cup {loc[w].box_f : w \in Workers}

tfs_close(w, from) ==
    /\ pc[w] = from
    /\ Return(w)
    /\ UNCHANGED <<boxes, locks, tfs, clients, spurious>>

\* tfs_read of one message; the file has none left when Unread is FALSE.
Unread(w) == loc[w].offset < Len(tfs_data[loc[w].box_f])
tfs_read(w) ==
    loc' = [loc EXCEPT ![w].message = tfs_data[loc[w].box_f][loc[w].offset + 1],
                       ![w].offset = @ + 1]

-----------------------------------------------------------------------------
(* Publishers                                                              *)

PubFind(w) == box_find(w, "p_find", "p_register")

\* Mutant: a second publisher is let in.
PubRefused_NoTest(w) == tfs_dir[Name(w)] = NoFile

\* Mutant: the count is compared with the wrong bound.
PubRefused_OffByOne(w) ==
    boxes_table[loc[w].box_i].n_publishers > 1 \/ tfs_dir[Name(w)] = NoFile

\* The box has a publisher, or its file cannot be opened.
PubRefused(w) ==
    boxes_table[loc[w].box_i].n_publishers > 0 \/ tfs_dir[Name(w)] = NoFile

\* Under the box's mutex: the publisher is refused, or counted and the file opened
\* at its end.
PubRegister(w) ==
    LET i == loc[w].box_i
        f == tfs_dir[Name(w)]
    IN  /\ pc[w] = "p_register"
        /\ box_mutex[i] = NULL
        /\ \/ /\ PubRefused(w)
              /\ Return(w)
              /\ UNCHANGED boxes_table
           \/ /\ ~PubRefused(w)
              /\ Goto(w, "p_code")
              /\ loc' = [loc EXCEPT ![w].box_f = f, ![w].offset = Len(tfs_data[f])]
              /\ Count(i, "n_publishers", 1)
        /\ UNCHANGED <<n_boxes, free_boxes, locks, tfs, clients, spurious>>

\* Waits for the client: a message, or the end of the session.
PubCode(w) ==
    /\ pc[w] = "p_code"
    /\ \/ /\ Gone(w)
          /\ Goto(w, "p_leave")
          /\ UNCHANGED <<loc, n_messages>>
       \/ /\ ~Gone(w)
          /\ n_messages < MaxMessages
          /\ Goto(w, "p_check")
          /\ n_messages' = n_messages + 1
          /\ loc' = [loc EXCEPT ![w].message = n_messages + 1]
    /\ UNCHANGED <<boxes, locks, tfs, requests_queue, sent, gone, answers, spurious>>

\* The session ends when the box was deleted.
PubCheck(w) ==
    /\ pc[w] = "p_check"
    /\ boxes_wr = NULL
    /\ Goto(w, IF free_boxes[loc[w].box_i] = "TAKEN" THEN "p_write" ELSE "p_leave")
    /\ UNCHANGED <<boxes, locks, tfs, loc, clients, spurious>>

\* tfs_write at the handle's offset, which another handle does not move; it is
\* short, and ends the session, when the block is full.
PubWrite(w) ==
    LET f == loc[w].box_f
        o == loc[w].offset
    IN  /\ pc[w] = "p_write"
        /\ \/ /\ o = BoxCapacity
              /\ Goto(w, "p_leave")
              /\ UNCHANGED <<tfs, loc>>
           \/ /\ o < BoxCapacity
              /\ Goto(w, "p_update")
              /\ tfs_data' = [tfs_data EXCEPT ![f] =
                     [k \in 1 .. Max({o + 1, Len(@)}) |->
                         IF k = o + 1 THEN loc[w].message ELSE @[k]]]
              /\ published' = [published EXCEPT ![f] = Append(@, loc[w].message)]
              /\ loc' = [loc EXCEPT ![w].offset = @ + 1]
              /\ UNCHANGED tfs_dir
        /\ UNCHANGED <<boxes, locks, clients, spurious>>

\* cond_broadcast: every waiter has to take the mutex again.
cond_broadcast(i) == box_cond' = [box_cond EXCEPT ![i] = {}]

\* Mutant: only one subscriber is woken.
PubUpdate_Signal(w) ==
    LET i == loc[w].box_i
    IN  /\ pc[w] = "p_update"
        /\ box_mutex[i] = NULL
        /\ Goto(w, "p_code")
        /\ Count(i, "size", 1)
        /\ \E x \in box_cond[i] \cup {NULL} :
               /\ x = NULL => box_cond[i] = {}
               /\ box_cond' = [box_cond EXCEPT ![i] = @ \ {x}]
        /\ UNCHANGED <<n_boxes, free_boxes, box_mutex, boxes_rd, boxes_wr, tfs, loc,
                       clients, spurious>>

PubUpdate(w) ==
    LET i == loc[w].box_i
    IN  /\ pc[w] = "p_update"
        /\ box_mutex[i] = NULL
        /\ Goto(w, "p_code")
        /\ Count(i, "size", 1)
        /\ cond_broadcast(i)
        /\ UNCHANGED <<n_boxes, free_boxes, box_mutex, boxes_rd, boxes_wr, tfs, loc,
                       clients, spurious>>

\* The count goes down under the box's mutex, then the file is closed.
Leave(w, from, to, field) ==
    /\ pc[w] = from
    /\ box_mutex[loc[w].box_i] = NULL
    /\ Goto(w, to)
    /\ Count(loc[w].box_i, field, -1)
    /\ UNCHANGED <<n_boxes, free_boxes, locks, tfs, loc, clients, spurious>>

PubLeave(w) == Leave(w, "p_leave", "p_close", "n_publishers")

workers_handle_pub_register(w) ==
    \/ PubFind(w) \/ PubRegister(w) \/ PubCode(w) \/ PubCheck(w) \/ PubWrite(w)
    \/ PubUpdate(w) \/ PubLeave(w) \/ tfs_close(w, "p_close")

-----------------------------------------------------------------------------
(* Subscribers                                                             *)

SubFind(w) == box_find(w, "s_find", "s_register")

\* When the file cannot be opened the handler returns with the mutex locked.
SubRegister(w) ==
    LET i == loc[w].box_i
        f == tfs_dir[Name(w)]
    IN  /\ pc[w] = "s_register"
        /\ box_mutex[i] = NULL
        /\ \/ /\ f = NoFile
              /\ Return(w)
              /\ box_mutex' = [box_mutex EXCEPT ![i] = w]
              /\ UNCHANGED boxes_table
           \/ /\ f # NoFile
              /\ Goto(w, "s_lock")
              /\ loc' = [loc EXCEPT ![w].box_f = f]
              /\ Count(i, "n_subscribers", 1)
              /\ UNCHANGED box_mutex
        /\ UNCHANGED <<n_boxes, free_boxes, box_cond, boxes_rd, boxes_wr, tfs, clients,
                       spurious>>

SubLock(w) ==
    LET i == loc[w].box_i
    IN  /\ pc[w] = "s_lock"
        /\ box_mutex[i] = NULL
        /\ Goto(w, "s_test")
        /\ box_mutex' = [box_mutex EXCEPT ![i] = w]
        /\ UNCHANGED <<boxes, box_cond, boxes_rd, boxes_wr, tfs, loc, clients, spurious>>

\* The condition of the wait loop, with the mutex held: the loop is left, and the
\* mutex released, when the box is free or a message was read.
SubTest(w) ==
    LET i == loc[w].box_i
    IN  /\ pc[w] = "s_test"
        /\ \/ /\ free_boxes[i] = "TAKEN" /\ ~Unread(w)
              /\ Goto(w, "s_wait")
              /\ UNCHANGED <<loc, box_mutex>>
           \/ /\ free_boxes[i] = "TAKEN" /\ Unread(w)
              /\ Goto(w, "s_check")
              /\ tfs_read(w)
              /\ box_mutex' = [box_mutex EXCEPT ![i] = NULL]
           \/ /\ free_boxes[i] = "FREE"
              /\ Goto(w, "s_check")
              /\ box_mutex' = [box_mutex EXCEPT ![i] = NULL]
              /\ UNCHANGED loc
        /\ UNCHANGED <<boxes, box_cond, boxes_rd, boxes_wr, tfs, clients, spurious>>

\* cond_wait releases the mutex and waits in one step; the worker goes on from
\* s_waiting once it is no longer among the waiters and has the mutex again.
SubWait(w) ==
    LET i == loc[w].box_i
    IN  /\ pc[w] = "s_wait"
        /\ Goto(w, "s_waiting")
        /\ box_cond' = [box_cond EXCEPT ![i] = @ \cup {w}]
        /\ box_mutex' = [box_mutex EXCEPT ![i] = NULL]
        /\ UNCHANGED <<boxes, boxes_rd, boxes_wr, tfs, loc, clients, spurious>>

SubWake(w) ==
    LET i == loc[w].box_i
    IN  /\ pc[w] = "s_waiting"
        /\ w \notin box_cond[i]
        /\ box_mutex[i] = NULL
        /\ Goto(w, "s_test")
        /\ box_mutex' = [box_mutex EXCEPT ![i] = w]
        /\ UNCHANGED <<boxes, box_cond, boxes_rd, boxes_wr, tfs, loc, clients, spurious>>

SpuriousWakeup(i, w) ==
    /\ w \in box_cond[i]
    /\ spurious < MaxSpurious
    /\ spurious' = spurious + 1
    /\ box_cond' = [box_cond EXCEPT ![i] = @ \ {w}]
    /\ UNCHANGED <<boxes, box_mutex, boxes_rd, boxes_wr, tfs, pc, loc, clients>>

SubCheck(w) ==
    /\ pc[w] = "s_check"
    /\ boxes_wr = NULL
    /\ Goto(w, IF free_boxes[loc[w].box_i] = "TAKEN" THEN "s_send" ELSE "s_leave")
    /\ UNCHANGED <<boxes, locks, tfs, loc, clients, spurious>>

\* pipe_write fails once the client has closed its end.
SubSend(w) ==
    /\ pc[w] = "s_send"
    /\ \/ /\ Gone(w)
          /\ Goto(w, "s_leave")
          /\ UNCHANGED loc
       \/ /\ ~Gone(w)
          /\ Goto(w, "s_more")
          /\ loc' = [loc EXCEPT ![w].delivered = Append(@, loc[w].message)]
    /\ UNCHANGED <<boxes, locks, tfs, clients, spurious>>

\* Without the mutex and without looking at the box: goes on while there is more.
SubMore(w) ==
    /\ pc[w] = "s_more"
    /\ \/ /\ Unread(w)
          /\ Goto(w, "s_send")
          /\ tfs_read(w)
       \/ /\ ~Unread(w)
          /\ Goto(w, "s_lock")
          /\ UNCHANGED loc
    /\ UNCHANGED <<boxes, locks, tfs, clients, spurious>>

SubLeave(w) == Leave(w, "s_leave", "s_close", "n_subscribers")

workers_handle_sub_register(w) ==
    \/ SubFind(w) \/ SubRegister(w) \/ SubLock(w) \/ SubTest(w) \/ SubWait(w)
    \/ SubWake(w) \/ SubCheck(w) \/ SubSend(w) \/ SubMore(w) \/ SubLeave(w)
    \/ tfs_close(w, "s_close")

-----------------------------------------------------------------------------
(* Managers                                                                *)

\* The outcome is known. A creation closes the file it opened before it answers.
Outcome(w, to, code) ==
    /\ Goto(w, to)
    /\ loc' = [loc EXCEPT ![w].return_code = code]

\* tfs_open without TFS_O_CREAT: the box exists already when it succeeds.
CreateExists(w) ==
    LET f == tfs_dir[Name(w)]
    IN  /\ pc[w] = "c_exists"
        /\ \/ /\ f # NoFile
              /\ Goto(w, "c_close")
              /\ loc' = [loc EXCEPT ![w].box_f = f, ![w].return_code = -1]
           \/ /\ f = NoFile
              /\ Goto(w, "c_create")
              /\ UNCHANGED loc
        /\ UNCHANGED <<boxes, locks, tfs, clients, spurious>>

\* tfs_open with TFS_O_CREAT opens the file if it exists by now and fails only when
\* no inode is left.
CreateFile(w) ==
    LET old == tfs_dir[Name(w)]
        f == IF old # NoFile THEN old ELSE First(Files \ Live)
    IN  /\ pc[w] = "c_create"
        /\ \/ /\ f = -1
              /\ Outcome(w, "c_close", -1)
              /\ UNCHANGED tfs
           \/ /\ f # -1
              /\ Goto(w, "c_claim")
              /\ loc' = [loc EXCEPT ![w].box_f = f]
              /\ tfs_dir' = [tfs_dir EXCEPT ![Name(w)] = f]
              /\ tfs_data' = [tfs_data EXCEPT ![f] = IF old # NoFile THEN @ ELSE << >>]
              /\ published' = [published EXCEPT ![f] = IF old # NoFile THEN @ ELSE << >>]
        /\ UNCHANGED <<boxes, locks, clients, spurious>>

\* box_create takes the first free slot under free_boxes_lock,
BoxClaim(w) ==
    LET i == First({j \in Slots : free_boxes[j] = "FREE"})
    IN  /\ pc[w] = "c_claim"
        /\ boxes_wr = NULL /\ boxes_rd = {}
        /\ \/ /\ i = -1
              /\ Outcome(w, "c_close", -1)
              /\ UNCHANGED boxes
           \/ /\ i # -1
              /\ Goto(w, "c_clear")
              /\ loc' = [loc EXCEPT ![w].box_i = i]
              /\ free_boxes' = [free_boxes EXCEPT ![i] = "TAKEN"]
              /\ n_boxes' = n_boxes + 1
              /\ UNCHANGED boxes_table
        /\ UNCHANGED <<locks, tfs, clients, spurious>>

\* and fills it under the box's mutex only: the name is zeroed,
BoxClear(w) ==
    LET i == loc[w].box_i
    IN  /\ pc[w] = "c_clear"
        /\ box_mutex[i] = NULL
        /\ Goto(w, "c_fill")
        /\ box_mutex' = [box_mutex EXCEPT ![i] = w]
        /\ boxes_table' = [boxes_table EXCEPT ![i].name = NULL]
        /\ UNCHANGED <<n_boxes, free_boxes, box_cond, boxes_rd, boxes_wr, tfs, loc,
                       clients, spurious>>

\* Mutant: the count of publishers is reset as well.
BoxFill_ResetPublishers(w) ==
    LET i == loc[w].box_i
    IN  /\ pc[w] = "c_fill"
        /\ Outcome(w, "c_close", 0)
        /\ boxes_table' = [boxes_table EXCEPT ![i] =
               [name |-> Name(w), size |-> 0, n_publishers |-> 0, n_subscribers |-> 0]]
        /\ box_mutex' = [box_mutex EXCEPT ![i] = NULL]
        /\ UNCHANGED <<n_boxes, free_boxes, box_cond, boxes_rd, boxes_wr, tfs, clients,
                       spurious>>

\* written, and n_subscribers reset (twice) but not n_publishers.
BoxFill(w) ==
    LET i == loc[w].box_i
    IN  /\ pc[w] = "c_fill"
        /\ Outcome(w, "c_close", 0)
        /\ boxes_table' = [boxes_table EXCEPT ![i].name = Name(w), ![i].size = 0,
                                              ![i].n_subscribers = 0]
        /\ box_mutex' = [box_mutex EXCEPT ![i] = NULL]
        /\ UNCHANGED <<n_boxes, free_boxes, box_cond, boxes_rd, boxes_wr, tfs, clients,
                       spurious>>

box_create(w) == BoxClaim(w) \/ BoxClear(w) \/ BoxFill(w)

\* tfs_close of what was opened; closing the -1 of a failed tfs_open does nothing.
CreateClose(w) ==
    /\ pc[w] = "c_close"
    /\ Goto(w, "m_answer")
    /\ loc' = [loc EXCEPT ![w].box_f = NoFile]
    /\ UNCHANGED <<boxes, locks, tfs, clients, spurious>>

\* Mutant: free_boxes_lock is not given back when the box is not found.
BoxMissing_KeepLock(w) ==
    /\ pc[w] = "r_delete"
    /\ boxes_wr = NULL /\ boxes_rd = {}
    /\ Matching(Name(w)) = {}
    /\ Outcome(w, "m_answer", -1)
    /\ boxes_wr' = w
    /\ UNCHANGED <<boxes, box_mutex, box_cond, boxes_rd, tfs, clients, spurious>>

\* Mutant: a box that is not found is counted as deleted.
BoxMissing_CountAnyway(w) ==
    /\ pc[w] = "r_delete"
    /\ boxes_wr = NULL /\ boxes_rd = {}
    /\ Matching(Name(w)) = {}
    /\ Outcome(w, "m_answer", -1)
    /\ n_boxes' = n_boxes - 1
    /\ UNCHANGED <<boxes_table, free_boxes, locks, tfs, clients, spurious>>

\* box_delete takes free_boxes_lock and does not find the box,
BoxMissing(w) ==
    /\ pc[w] = "r_delete"
    /\ boxes_wr = NULL /\ boxes_rd = {}
    /\ Matching(Name(w)) = {}
    /\ Outcome(w, "m_answer", -1)
    /\ UNCHANGED <<boxes, locks, tfs, clients, spurious>>

\* or finds it and keeps free_boxes_lock until it has the box's mutex.
BoxFound(w) ==
    /\ pc[w] = "r_delete"
    /\ boxes_wr = NULL /\ boxes_rd = {}
    /\ Matching(Name(w)) # {}
    /\ Goto(w, "r_free")
    /\ loc' = [loc EXCEPT ![w].box_i = First(Matching(Name(w)))]
    /\ boxes_wr' = w
    /\ UNCHANGED <<boxes, box_mutex, box_cond, boxes_rd, tfs, clients, spurious>>


\* Frees the slot and wakes its subscribers.
BoxFree(w) ==
    LET i == loc[w].box_i
    IN  /\ pc[w] = "r_free"
        /\ box_mutex[i] = NULL
        /\ Goto(w, "r_unlink")
        /\ free_boxes' = [free_boxes EXCEPT ![i] = "FREE"]
        /\ cond_broadcast(i)
        /\ n_boxes' = n_boxes - 1
        /\ boxes_wr' = NULL
        /\ UNCHANGED <<boxes_table, box_mutex, boxes_rd, tfs, loc, clients, spurious>>

box_delete(w) == BoxMissing(w) \/ BoxFound(w) \/ BoxFree(w)

\* tfs_unlink fails when the name is not in the directory.
RemoveUnlink(w) ==
    /\ pc[w] = "r_unlink"
    /\ Outcome(w, "m_answer", IF tfs_dir[Name(w)] = NoFile THEN -1 ELSE 0)
    /\ tfs_dir' = [tfs_dir EXCEPT ![Name(w)] = NoFile]
    /\ UNCHANGED <<boxes, locks, tfs_data, published, clients, spurious>>

\* Opens the manager's pipe, where it waits for ever if the manager is gone.
ManagerAnswer(w) ==
    /\ pc[w] = "m_answer"
    /\ ~Gone(w)
    /\ Return(w)
    /\ answers' = [answers EXCEPT ![loc[w].request] = loc[w].return_code]
    /\ UNCHANGED <<boxes, locks, tfs, requests_queue, sent, gone, n_messages, spurious>>

workers_handle_manager_create(w) ==
    CreateExists(w) \/ CreateFile(w) \/ box_create(w) \/ CreateClose(w)

workers_handle_manager_remove(w) == box_delete(w) \/ RemoveUnlink(w)

\* Mutant: the listing does not keep free_boxes_lock.
ListOpen_NoLock(w) ==
    /\ pc[w] = "l_open"
    /\ ~Gone(w)
    /\ boxes_wr = NULL
    /\ Goto(w, "l_scan")
    /\ loc' = [loc EXCEPT ![w].box_i = 0]
    /\ UNCHANGED <<boxes, locks, tfs, clients, spurious>>

\* Opens the manager's pipe; the listing keeps free_boxes_lock to its end.
ListOpen(w) ==
    /\ pc[w] = "l_open"
    /\ ~Gone(w)
    /\ boxes_wr = NULL
    /\ Goto(w, "l_scan")
    /\ loc' = [loc EXCEPT ![w].box_i = 0]
    /\ boxes_rd' = boxes_rd \cup {w}
    /\ UNCHANGED <<boxes, box_mutex, box_cond, boxes_wr, tfs, clients, spurious>>

\* One packet: a box of the table or, when there is none, an empty name; the
\* listing is given up when the client does not take it.
ListPacket(w) ==
    LET i == loc[w].box_i
        n == Len(loc[w].packets)
    IN  /\ pc[w] = "l_scan"
        /\ n <= n_boxes /\ i < InodeCount
        /\ n_boxes = 0 \/ free_boxes[i] = "TAKEN"
        /\ box_mutex[i] = NULL
        /\ \/ /\ ~Gone(w)
              /\ Goto(w, "l_scan")
              /\ loc' = [loc EXCEPT ![w].box_i = i + 1,
                     ![w].packets = Append(@,
                         [last |-> n_boxes = 0 \/ n + 1 = n_boxes,
                          name |-> IF n_boxes = 0 THEN NULL ELSE boxes_table[i].name])]
              /\ UNCHANGED boxes_rd
           \/ /\ Gone(w)
              /\ Return(w)
              /\ boxes_rd' = boxes_rd \ {w}
        /\ UNCHANGED <<boxes, box_mutex, box_cond, boxes_wr, tfs, clients, spurious>>

ListSkip(w) ==
    LET i == loc[w].box_i
    IN  /\ pc[w] = "l_scan"
        /\ Len(loc[w].packets) <= n_boxes /\ i < InodeCount
        /\ n_boxes > 0 /\ free_boxes[i] = "FREE"
        /\ Goto(w, "l_scan")
        /\ loc' = [loc EXCEPT ![w].box_i = i + 1]
        /\ UNCHANGED <<boxes, locks, tfs, clients, spurious>>

ListEnds(w) == Len(loc[w].packets) > n_boxes \/ loc[w].box_i = InodeCount

ListEnd(w) ==
    /\ pc[w] = "l_scan"
    /\ ListEnds(w)
    /\ Return(w)
    /\ boxes_rd' = boxes_rd \ {w}
    /\ UNCHANGED <<boxes, box_mutex, box_cond, boxes_wr, tfs, clients, spurious>>

workers_handle_manager_listing(w) ==
    ListOpen(w) \/ ListPacket(w) \/ ListSkip(w) \/ ListEnd(w)

-----------------------------------------------------------------------------
Step(w) ==
    \/ workers_handle_pub_register(w) \/ workers_handle_sub_register(w)
    \/ workers_handle_manager_create(w) \/ workers_handle_manager_remove(w)
    \/ ManagerAnswer(w) \/ workers_handle_manager_listing(w)

Next ==
    \/ \E r \in Requests : mbroker_receive_connection(r) \/ ClientQuits(r)
    \/ \E w \in Workers : workers_reception(w) \/ Step(w)
    \/ \E i \in Slots, w \in Workers : SpuriousWakeup(i, w)

Spec == Init /\ [][Next]_vars

\* Every thread that can go on eventually does, and every client registers.
FairSpec ==
    /\ Spec
    /\ \A r \in Requests : WF_vars(mbroker_receive_connection(r))
    /\ \A w \in Workers : WF_vars(workers_reception(w) \/ Step(w))

-----------------------------------------------------------------------------
(* Properties                                                              *)

PubSession == {"p_code", "p_check", "p_write", "p_update", "p_leave"}
SubSession == {"s_lock", "s_test", "s_wait", "s_waiting", "s_check", "s_send", "s_more",
               "s_leave"}
ManagerSteps == {"c_exists", "c_create", "c_claim", "c_clear", "c_fill", "c_close",
                 "r_delete", "r_free", "r_unlink", "m_answer", "l_open", "l_scan"}
Labels == {"idle", "p_find", "p_register", "p_close", "s_find", "s_register", "s_close"}
              \cup PubSession \cup SubSession \cup ManagerSteps

\* The state is of the right type; n_boxes in particular never goes below zero and
\* no file outgrows its block.
TypeOK ==
    /\ n_boxes \in 0 .. InodeCount
    /\ boxes_table \in [Slots ->
           [name : BoxNames \cup {NULL}, size : 0 .. Uint64 - 1,
            n_publishers : 0 .. Uint64 - 1, n_subscribers : 0 .. Uint64 - 1]]
    /\ free_boxes \in [Slots -> {"FREE", "TAKEN"}]
    /\ box_mutex \in [Slots -> Workers \cup {NULL}]
    /\ box_cond \in [Slots -> SUBSET Workers]
    /\ boxes_rd \subseteq Workers
    /\ boxes_wr \in Workers \cup {NULL}
    /\ tfs_dir \in [BoxNames -> Files \cup {NoFile}]
    /\ \A f \in Files : /\ Len(tfs_data[f]) <= BoxCapacity
                        /\ Range(tfs_data[f]) \subseteq 1 .. n_messages
    /\ Range(requests_queue) \subseteq sent
    /\ sent \subseteq Requests /\ gone \subseteq sent
    /\ pc \in [Workers -> Labels]
    /\ \A w \in Workers : /\ loc[w].box_i \in Slots \cup {-1, InodeCount}
                          /\ loc[w].box_f \in Files \cup {NoFile}
                          /\ loc[w].request \in sent \cup {NULL}
    /\ answers \in [Requests -> {NULL, 0, -1}]

\* What a subscriber was sent is the beginning of what publishers wrote to the
\* box, in order: no message is skipped, repeated or overwritten (the writes of
\* two publishers with handles of their own would overlap).
DeliveredInOrder ==
    \A w \in Workers :
        pc[w] \in SubSession => IsPrefix(loc[w].delivered, published[loc[w].box_f])

\* A subscriber that waits for a message has read all of them, or the publisher
\* that wrote the next one has yet to broadcast: no wake-up is lost between the
\* failed tfs_read and cond_wait.
NoMissedMessage ==
    \A i \in Slots : \A w \in box_cond[i] :
        Unread(w) => \E x \in Workers : /\ pc[x] = "p_update"
                                        /\ loc[x].box_i = i
                                        /\ loc[x].box_f = loc[w].box_f

\* n_publishers is the number of workers that serve a publisher on the slot, and at
\* most 1, also when the slot is used again while the publisher of its last box
\* has not left.
PublishersExact ==
    \A i \in Slots :
        /\ boxes_table[i].n_publishers <= 1
        /\ boxes_table[i].n_publishers =
               Cardinality({w \in Workers : pc[w] \in PubSession /\ loc[w].box_i = i})

\* A file has one publisher at a time, so that no message is written over another.
OnePublisher ==
    \A w, x \in Workers :
        pc[w] \in PubSession /\ pc[x] \in PubSession /\ loc[w].box_f = loc[x].box_f => w = x

\* A listing that was not given up has sent one packet for each box, or a single
\* empty one, and the last flag is on the last packet and on no other.
ListingExact ==
    \A w \in Workers : pc[w] = "l_scan" /\ ListEnds(w) =>
        LET p == loc[w].packets
            taken == {i \in Slots : free_boxes[i] = "TAKEN"}
        IN  /\ Len(p) = Max({1, Cardinality(taken)})
            /\ \A k \in 1 .. Len(p) : p[k].last <=> k = Len(p)


\* A manager that waits for its answer gets it.
ManagersAnswered ==
    \A r \in Requests :
        (r \in sent /\ r.code \in {"CREATE", "REMOVE"}) ~> (answers[r] # NULL \/ r \in gone)
=============================================================================
