------------------------------ MODULE Sessions ------------------------------
(***************************************************************************)
(* The clients (publisher/pub.c, subscriber/sub.c, manager/manager.c) and  *)
(* the workers of mbroker/mbroker.c over their session pipes, on top of    *)
(* the registration of module Listener.                                    *)
(*                                                                         *)
(* What a worker does with the boxes is module MBroker's business: here it *)
(* may refuse a session, receive or send messages and end the session.     *)
(* Some of these steps take locks of the boxes.  A subscriber's handler may  *)
(* return with a box's mutex locked (mbroker.c:358-361), and whoever needs  *)
(* it later waits for ever: from then on such steps may still be taken,    *)
(* for there are other boxes, but they are not promised.                   *)
(*                                                                         *)
(* A packet is smaller than PIPE_BUF, enters a pipe whole and is read whole. *)
(* It is a message's number for a subscriber, its length for a publisher,  *)
(* and a last flag and a box name, a number, 0 if empty, for a listing.    *)
(***************************************************************************)
EXTENDS Listener, FiniteSets, FiniteSetsExt

CONSTANTS
    Roles,            \* which program each client runs: functions on Clients
    Workers,          \* max_sessions threads
    Interrupted,      \* the clients that a SIGINT may reach
    BrokerMayDie,     \* whether the broker may be killed
    PipeCapacity,     \* the packets a session pipe holds before a write blocks
    LineLengths,      \* of the lines typed to a publisher
    MessageLen,       \* MSG_MAX_LEN - 1
    BoxTables,        \* the names of the boxes when a listing is made
    MaxMessages       \* bound: messages in a session

ASSUME SessionsAssumption ==
    /\ Roles \subseteq [Clients -> {"pub", "sub", "manage", "list", "none"}]
    /\ Interrupted \subseteq Clients /\ BrokerMayDie \in BOOLEAN
    /\ LineLengths \subseteq Nat /\ {PipeCapacity, MessageLen} \subseteq Nat \ {0}
    /\ BoxTables \subseteq Seq(Nat)
    /\ MaxMessages \in Nat

VARIABLES
    role,                \* pub, sub, manager create or remove, manager list, none
    session,             \* each client's session pipe
    worker,              \* where each worker is
    serving,             \* the client whose request it handles, or NULL
    sent,                \* messages written to each session pipe so far
    printed,             \* the messages each subscriber printed
    shutdown_signaler,   \* its flag, for each subscriber
    line,                \* characters left of a publisher's line, -1 if it awaits one
    eof,                 \* whether its input ends behind those characters
    owed,                \* history: characters typed to a publisher and not sent
    packets,             \* what a worker has yet to send of a listing
    listed,              \* history: the names of the boxes listed for each manager
    boxes,               \* the boxes that each manager has read
    mutex_left           \* whether a handler has left a box's mutex locked

input == <<line, eof, owed>>
listing == <<packets, listed, boxes>>
vars == <<listenerVars, role, session, worker, serving, sent, printed, shutdown_signaler,
          input, listing, mutex_left>>

Runs(r) == {c \in Clients : role[c] = r}
Publishers == Runs("pub")
Subscribers == Runs("sub")
Managers == Runs("manage")
Listers == Runs("list")

\* rd, wr: an end that is open; met: both ends have been in open together, so that
\* neither open waits any longer.
NewPipe == [linked |-> FALSE, rd |-> FALSE, wr |-> FALSE, met |-> FALSE, data |-> << >>]

Init ==
    /\ ListenerInit
    /\ role \in Roles
    /\ session = [c \in Clients |-> NewPipe]
    /\ worker = [w \in Workers |-> "idle"]
    /\ serving = [w \in Workers |-> NULL]
    /\ sent = [c \in Clients |-> 0]
    /\ printed = [c \in Clients |-> << >>]
    /\ shutdown_signaler = [c \in Clients |-> FALSE]
    /\ line = [c \in Clients |-> -1]
    /\ eof = [c \in Clients |-> FALSE]
    /\ owed = [c \in Clients |-> 0]
    /\ packets = [w \in Workers |-> << >>]
    /\ listed = [c \in Clients |-> << >>]
    /\ boxes = [c \in Clients |-> << >>]
    /\ mutex_left = FALSE

-----------------------------------------------------------------------------
(* The session pipe                                                        *)

ClientEnd(c) == IF c \in Publishers THEN "wr" ELSE "rd"
WorkerEnd(c) == IF c \in Publishers THEN "rd" ELSE "wr"

EnterOpen(c, mine, theirs) ==
    session' = [session EXCEPT ![c][mine] = TRUE, ![c].met = @ \/ session[c][theirs]]

Close(c, end) == session' = [session EXCEPT ![c][end] = FALSE]

\* The client closes its end and removes the pipe.
CloseAndUnlink(c) ==
    session' = [session EXCEPT ![c][ClientEnd(c)] = FALSE, ![c].linked = FALSE]

\* A packet is written to the pipe by one side, which waits while the pipe is
\* full, and read from it by the other.
Put(c, p) ==
    /\ Len(session[c].data) < PipeCapacity
    /\ session' = [session EXCEPT ![c].data = Append(@, p)]
    /\ sent' = [sent EXCEPT ![c] = @ + 1]
Get(c) == session' = [session EXCEPT ![c].data = Tail(@)]

-----------------------------------------------------------------------------
(* What all the clients do                                                 *)

mkfifo(c) ==
    /\ role[c] # "none"
    /\ Goto(c, "start", "reg_open")
    /\ session' = [session EXCEPT ![c].linked = TRUE]
    /\ UNCHANGED <<mainVars, register_pipe, writers, pending,
                   worker, serving, sent, printed, shutdown_signaler, role, input, listing, mutex_left>>

Register(c) ==
    /\ client_request_connection(c)
    /\ session' = IF client'[c] = "failed"
                  THEN [session EXCEPT ![c].linked = FALSE] ELSE session
    /\ UNCHANGED <<worker, serving, sent, printed, shutdown_signaler, role, input, listing, mutex_left>>

OpenSession(c) ==
    /\ Goto(c, "registered", "ses_open")
    /\ EnterOpen(c, ClientEnd(c), WorkerEnd(c))
    /\ UNCHANGED <<mainVars, register_pipe, writers, pending,
                   worker, serving, sent, printed, shutdown_signaler, role, input, listing, mutex_left>>

SessionOpened(c) ==
    /\ Goto(c, "ses_open", "session")
    /\ session[c].met
    /\ UNCHANGED <<mainVars, register_pipe, writers, pending, session,
                   worker, serving, sent, printed, shutdown_signaler, role, input, listing, mutex_left>>

\* The program ends, for whatever reason, by its own exit.
Exit(c, from, to) ==
    /\ Goto(c, from, to)
    /\ CloseAndUnlink(c)
    /\ UNCHANGED <<mainVars, register_pipe, writers, pending,
                   worker, serving, sent, printed, shutdown_signaler, role, input, listing, mutex_left>>

-----------------------------------------------------------------------------
(* publisher_write_messages                                                *)

\* A line is typed ...
PubLine(c) ==
    \E n \in LineLengths :
        /\ c \in Publishers
        /\ Goto(c, "session", "session")
        /\ line[c] = -1
        /\ sent[c] < MaxMessages
        /\ line' = [line EXCEPT ![c] = n]
        /\ owed' = [owed EXCEPT ![c] = @ + n]
        /\ UNCHANGED <<mainVars, register_pipe, writers, pending, session, eof,
                       worker, serving, sent, printed, shutdown_signaler, role, listing, mutex_left>>

\* ... or the input ends, at the beginning of a line or in the middle of one.
PubEOF(c) ==
    \E n \in LineLengths \cup {0} :
        /\ c \in Publishers
        /\ Goto(c, "session", "session")
        /\ line[c] = -1
        /\ line' = [line EXCEPT ![c] = n]
        /\ eof' = [eof EXCEPT ![c] = TRUE]
        /\ owed' = [owed EXCEPT ![c] = @ + n]
        /\ UNCHANGED <<mainVars, register_pipe, writers, pending, session,
                       worker, serving, sent, printed, shutdown_signaler, role, listing, mutex_left>>

\* The loop reads up to the end of the line, of the message or of the input. What was
\* read of a message when the input ends is not sent.
PubExit(c) ==
    /\ c \in Publishers
    /\ eof[c] /\ line[c] < MessageLen
    /\ Exit(c, "session", "done")

\* Mutant: a character is read before the length is tested.
AfterMessage_ReadFirst(n) == IF n > MessageLen THEN n - MessageLen - 1 ELSE -1

\* What is left of a line after a message: a line that does not fit goes on in the
\* next message, also when nothing but its end is left.
AfterMessage(n) == IF n >= MessageLen THEN n - MessageLen ELSE -1

\* A message is sent, which fails with EPIPE once the worker has closed its end.
PubWrite(c) ==
    LET n == Min({line[c], MessageLen})
    IN  /\ line[c] # -1
        /\ eof[c] => line[c] >= MessageLen
        /\ \/ /\ session[c].rd
              /\ Goto(c, "session", "session")
              /\ Put(c, n)
              /\ line' = [line EXCEPT ![c] = AfterMessage(@)]
              /\ owed' = [owed EXCEPT ![c] = @ - n]
              /\ UNCHANGED <<mainVars, register_pipe, writers, pending, eof,
                             worker, serving, printed, shutdown_signaler, role, listing, mutex_left>>
           \/ /\ ~session[c].rd
              /\ Exit(c, "session", "failed")

-----------------------------------------------------------------------------
(* subscriber_read_messages                                                *)

\* Mutant: the loop does not look at the flag.
SubTest_NoFlag(c) ==
    /\ c \in Subscribers
    /\ Goto(c, "session", "reading")
    /\ UNCHANGED <<mainVars, register_pipe, writers, pending, session,
                   worker, serving, sent, printed, shutdown_signaler, role, input, listing, mutex_left>>

\* The loop ends, and the number of messages is printed, when the flag is set.
SubTest(c) ==
    /\ c \in Subscribers
    /\ \/ /\ shutdown_signaler[c]
          /\ Exit(c, "session", "done")
       \/ /\ ~shutdown_signaler[c]
          /\ Goto(c, "session", "reading")
          /\ UNCHANGED <<mainVars, register_pipe, writers, pending, session,
                         worker, serving, sent, printed, shutdown_signaler, role, input, listing, mutex_left>>

\* Nothing to read: from here on a signal interrupts the read.
SubBlock(c) ==
    /\ Goto(c, "reading", "waiting")
    /\ session[c].data = << >> /\ session[c].wr
    /\ UNCHANGED <<mainVars, register_pipe, writers, pending, session,
                   worker, serving, sent, printed, shutdown_signaler, role, input, listing, mutex_left>>

SubPrint(c, from) ==
    /\ Goto(c, from, "session")
    /\ Get(c)
    /\ printed' = [printed EXCEPT ![c] = Append(@, Head(session[c].data))]
    /\ UNCHANGED <<mainVars, register_pipe, writers, pending,
                   worker, serving, sent, shutdown_signaler, role, input, listing, mutex_left>>

\* Mutant: a closed pipe ends the loop although there are messages in it.
SubRead_DropRest(c) ==
    \E from \in {"reading", "waiting"} :
        \/ session[c].data # << >> /\ session[c].wr /\ SubPrint(c, from)
        \/ ~session[c].wr /\ Exit(c, from, "done")

\* A message, or the end of file when the worker has closed its end.
SubRead(c) ==
    \E from \in {"reading", "waiting"} :
        \/ session[c].data # << >> /\ SubPrint(c, from)
        \/ session[c].data = << >> /\ ~session[c].wr /\ Exit(c, from, "done")

-----------------------------------------------------------------------------
(* manager_handle_box_management and manager_handle_box_listing            *)

\* Mutant: pipe_read tries again at the end of file.
MgrEOF_Retry(c) ==
    /\ c \in Managers \cup Listers
    /\ session[c].data = << >> /\ ~session[c].wr
    /\ Goto(c, "session", "session")
    /\ UNCHANGED <<mainVars, register_pipe, writers, pending, session,
                   worker, serving, sent, printed, shutdown_signaler, role, input, listing, mutex_left>>

\* The pipe was closed before the answer, or the last packet, came.
MgrEOF(c) ==
    /\ c \in Managers \cup Listers
    /\ session[c].data = << >> /\ ~session[c].wr
    /\ Exit(c, "session", "failed")

MgrAnswer(c) ==
    /\ c \in Managers
    /\ session[c].data # << >>
    /\ Exit(c, "session", "done")

\* Mutant: the first box is not compared.
sorted_insert_NotFirst(bs, b) ==
    LET right == Max({k \in 1 .. Len(bs) : bs[k] <= b} \cup {Min({1, Len(bs)})})
    IN  InsertAt(bs, right + 1, b)

\* The new box goes behind the last one that is not greater.
sorted_insert(bs, b) ==
    LET right == Max({k \in 1 .. Len(bs) : bs[k] <= b} \cup {0})
    IN  InsertAt(bs, right + 1, b)

\* One packet of a listing; an empty name in the last one stands for no box.
MgrList(c) ==
    /\ c \in Listers
    /\ session[c].data # << >>
    /\ LET p == Head(session[c].data)
       IN  /\ boxes' = IF p.last /\ p.name = 0 THEN boxes
                       ELSE [boxes EXCEPT ![c] = sorted_insert(@, p.name)]
           /\ \/ /\ p.last
                 /\ Goto(c, "session", "done")
                 /\ CloseAndUnlink(c)
              \/ /\ ~p.last
                 /\ Goto(c, "session", "session")
                 /\ Get(c)
    /\ UNCHANGED <<mainVars, register_pipe, writers, pending, worker, serving, sent,
                   printed, shutdown_signaler, role, input, packets, listed, mutex_left>>

-----------------------------------------------------------------------------
(* Signals.  Only the subscriber handles SIGINT, and only the first: the     *)
(* build selects the signal() that resets the handler and does not restart *)
(* calls.  Any other SIGINT kills the program, which leaves its pipe behind. *)

Ended == {"done", "failed", "killed"}

Blocked(c) ==
    \/ client[c] = "waiting" /\ session[c].data = << >> /\ session[c].wr
    \/ client[c] = "ses_open" /\ ~session[c].met
    \/ client[c] = "orphaned"
    \/ client[c] = "reg_write" /\ main = "created"

\* The handler runs; a read or an open that is blocked returns with EINTR, which
\* ends the program. A read that has not begun is not interrupted: the flag is set, and
\* the read waits.
subscriber_shutdown(c) ==
    /\ c \in Subscribers \cap Interrupted
    /\ client[c] \notin Ended \cup {"start"}
    /\ ~shutdown_signaler[c]
    /\ shutdown_signaler' = [shutdown_signaler EXCEPT ![c] = TRUE]
    /\ \/ /\ ~Blocked(c)
          /\ UNCHANGED <<client, writers, session>>
       \/ /\ Blocked(c)
          /\ client' = [client EXCEPT ![c] = IF @ = "waiting" THEN "done" ELSE "failed"]
          /\ writers' = writers \ {c}
          /\ CloseAndUnlink(c)
    /\ UNCHANGED <<mainVars, register_pipe, pending, worker, serving, sent, printed, role,
                   input, listing, mutex_left>>

Killed(c) ==
    /\ c \in Interrupted
    /\ c \in Subscribers => shutdown_signaler[c]
    /\ client[c] \notin Ended \cup {"start"}
    /\ client' = [client EXCEPT ![c] = "killed"]
    /\ writers' = writers \ {c}
    /\ Close(c, ClientEnd(c))
    /\ UNCHANGED <<mainVars, register_pipe, pending,
                   worker, serving, sent, printed, shutdown_signaler, role, input, listing, mutex_left>>

\* The broker has no handler: its threads stop, its ends of the pipes are closed, and
\* the register pipe stays. A client that waits in the open of that pipe waits on.
BrokerKilled ==
    /\ BrokerMayDie
    /\ main \notin {"init", "dead"}
    /\ main' = "dead"
    /\ worker' = [w \in Workers |-> "dead"]
    /\ serving' = [w \in Workers |-> NULL]
    /\ packets' = [w \in Workers |-> << >>]
    /\ session' = [c \in Clients |-> [session[c] EXCEPT ![WorkerEnd(c)] = FALSE]]
    /\ client' = [c \in Clients |-> IF client[c] = "reg_write" /\ main = "created"
                                    THEN "orphaned" ELSE client[c]]
    /\ UNCHANGED <<request, requests_queue, register_pipe, writers, pending,
                   sent, printed, shutdown_signaler, role, input, listed, boxes, mutex_left>>

-----------------------------------------------------------------------------
(* The workers                                                             *)

WorkerGoto(w, from, to) ==
    /\ worker[w] = from
    /\ worker' = [worker EXCEPT ![w] = to]

\* The handler returns.
Return(w, from) ==
    /\ WorkerGoto(w, from, "idle")
    /\ serving' = [serving EXCEPT ![w] = NULL]

Dequeue(c) ==
    /\ requests_queue # << >>
    /\ c = Head(requests_queue)
    /\ pending' = Tail(pending)
    /\ requests_queue' = Tail(requests_queue)
    /\ UNCHANGED <<main, request, register_pipe, writers, client,
                   sent, printed, shutdown_signaler, role, input, listing, mutex_left>>

\* The worker opens the client's pipe. The open fails if the client has removed the
\* pipe, else it waits for the client.
OpenPipe(w, from, c) ==
    \/ /\ session[c].linked
       /\ WorkerGoto(w, from, "opening")
       /\ EnterOpen(c, WorkerEnd(c), ClientEnd(c))
       /\ serving' = [serving EXCEPT ![w] = c]
    \/ /\ ~session[c].linked
       /\ Return(w, from)
       /\ UNCHANGED session

\* Mutant: the pipe is opened with O_NONBLOCK.
workers_reception_NonBlock(w) ==
    \E c \in Clients :
        /\ Dequeue(c)
        /\ \/ /\ c \in Managers
              /\ WorkerGoto(w, "idle", "working")
              /\ serving' = [serving EXCEPT ![w] = c]
              /\ UNCHANGED session
           \/ /\ c \notin Managers
              /\ session[c][ClientEnd(c)]
              /\ OpenPipe(w, "idle", c)
           \/ /\ c \notin Managers
              /\ ~session[c][ClientEnd(c)]
              /\ Return(w, "idle")
              /\ UNCHANGED session

\* Takes a request. The handler opens the client's pipe, that of a creation or a
\* removal does its work on the boxes first.
workers_reception(w) ==
    \E c \in Clients :
        /\ Dequeue(c)
        /\ \/ /\ c \in Managers
              /\ WorkerGoto(w, "idle", "working")
              /\ serving' = [serving EXCEPT ![w] = c]
              /\ UNCHANGED session
           \/ /\ c \notin Managers
              /\ OpenPipe(w, "idle", c)

\* The work on the boxes, and the open that follows it.
ManageBox(w) ==
    /\ serving[w] \in Managers
    /\ OpenPipe(w, "working", serving[w])
    /\ UNCHANGED <<listenerVars, sent, printed, shutdown_signaler, role, input, listing, mutex_left>>

\* The handler closes its end and returns.
WorkerEnds(w, from) ==
    /\ Return(w, from)
    /\ Close(serving[w], WorkerEnd(serving[w]))
    /\ UNCHANGED <<listenerVars, sent, printed, shutdown_signaler, role, input, listing>>

\* The open returns. The session begins, or it is refused: there is no such box, or
\* it has a publisher.
Accept(w) ==
    /\ serving[w] \in Publishers \cup Subscribers
    /\ WorkerGoto(w, "opening", "session")
    /\ session[serving[w]].met
    /\ UNCHANGED <<listenerVars, session, serving, sent, printed, shutdown_signaler, role, input, listing, mutex_left>>

Refuse(w) ==
    /\ serving[w] \in Publishers \cup Subscribers
    /\ session[serving[w]].met
    /\ WorkerEnds(w, "opening")
    /\ UNCHANGED mutex_left

\* The box was removed after box_find: tfs_open fails, and the handler returns without
\* unlocking the box's mutex.
LeaveLocked(w) ==
    /\ serving[w] \in Subscribers
    /\ session[serving[w]].met
    /\ WorkerEnds(w, "opening")
    /\ mutex_left' = TRUE

\* A manager gets its answer, unless it is gone.
AnswerManager(w) ==
    LET c == serving[w]
    IN  /\ c \in Managers
        /\ Return(w, "opening")
        /\ session[c].met
        /\ session' = [session EXCEPT ![c].wr = FALSE,
                                      ![c].data = IF session[c].rd THEN <<0>> ELSE @]
        /\ UNCHANGED <<listenerVars, sent, printed, shutdown_signaler, role, input, listing, mutex_left>>

\* The packets of a listing, as module MBroker has them: one for each box and the
\* last flag on the last, or one with an empty name when there is no box.
Listing(table) ==
    IF table = << >> THEN << [last |-> TRUE, name |-> 0] >>
    ELSE [k \in 1 .. Len(table) |-> [last |-> k = Len(table), name |-> table[k]]]

ListBoxes(w) ==
    \E table \in BoxTables :
        /\ serving[w] \in Listers
        /\ WorkerGoto(w, "opening", "session")
        /\ session[serving[w]].met
        /\ packets' = [packets EXCEPT ![w] = Listing(table)]
        /\ listed' = [listed EXCEPT ![serving[w]] = table]
        /\ UNCHANGED <<listenerVars, session, serving, sent, printed, shutdown_signaler, role,
                       input, boxes, mutex_left>>

\* The listing is given up when the manager is gone.
SendPacket(w) ==
    /\ packets[w] # << >>
    /\ \/ /\ session[serving[w]].rd
          /\ Put(serving[w], Head(packets[w]))
          /\ packets' = [packets EXCEPT ![w] = Tail(@)]
       \/ /\ ~session[serving[w]].rd
          /\ packets' = [packets EXCEPT ![w] = << >>]
          /\ UNCHANGED <<session, sent>>
    /\ UNCHANGED <<listenerVars, worker, serving, printed, shutdown_signaler, role,
                   input, listed, boxes, mutex_left>>

ListingEnds(w) ==
    /\ serving[w] \in Listers
    /\ packets[w] = << >>
    /\ WorkerEnds(w, "session")
    /\ UNCHANGED mutex_left

\* workers_handle_pub_register reads a message, ...
ReadMessage(w) ==
    LET c == serving[w]
    IN  /\ c \in Publishers
        /\ session[c].data # << >>
        /\ WorkerGoto(w, "session", "storing")
        /\ Get(c)
        /\ UNCHANGED <<listenerVars, serving, sent, printed, shutdown_signaler, role,
                       input, listing, mutex_left>>

\* ... writes it to the box and updates the box under its mutex, ...
StoreMessage(w) ==
    /\ serving[w] \in Publishers
    /\ WorkerGoto(w, "storing", "session")
    /\ UNCHANGED <<listenerVars, session, serving, sent, printed, shutdown_signaler, role,
                   input, listing, mutex_left>>

\* ... unless the box is removed or full, which ends the session, ...
NotStored(w) ==
    /\ serving[w] \in Publishers
    /\ WorkerEnds(w, "storing")
    /\ UNCHANGED mutex_left

\* Mutant: the end of file is not told from a message.
PublisherGone_NoEOF(w) ==
    LET c == serving[w]
    IN  /\ c \in Publishers
        /\ session[c].data = << >> /\ ~session[c].wr
        /\ WorkerGoto(w, "session", "storing")
        /\ UNCHANGED <<listenerVars, session, serving, sent, printed, shutdown_signaler, role,
                       input, listing, mutex_left>>

\* ... or it meets the end of the session, and takes the publisher off the box, under
\* its mutex.
PublisherGone(w) ==
    LET c == serving[w]
    IN  /\ c \in Publishers
        /\ session[c].data = << >> /\ ~session[c].wr
        /\ WorkerEnds(w, "session")
        /\ UNCHANGED mutex_left

\* workers_handle_sub_register: there is a message in the box, or it is removed. The
\* session ends, also when the client is gone, under the box's mutex.
SendMessage(w) ==
    LET c == serving[w]
    IN  /\ c \in Subscribers
        /\ \/ /\ session[c].rd
              /\ sent[c] < MaxMessages
              /\ WorkerGoto(w, "session", "session")
              /\ Put(c, sent[c] + 1)
              /\ UNCHANGED <<listenerVars, serving, printed, shutdown_signaler, role, input,
                             listing, mutex_left>>
           \/ /\ ~session[c].rd
              /\ WorkerEnds(w, "session")
              /\ UNCHANGED mutex_left

BoxRemoved(w) ==
    /\ serving[w] \in Subscribers
    /\ WorkerEnds(w, "session")
    /\ UNCHANGED mutex_left

-----------------------------------------------------------------------------
MainStep ==
    /\ Main
    /\ UNCHANGED <<session, worker, serving, sent, printed, shutdown_signaler, role, input, listing, mutex_left>>

\* What goes on by itself: the programs, ...
ClientStep(c) ==
    \/ Register(c) \/ OpenSession(c) \/ SessionOpened(c) \/ PubWrite(c) \/ PubExit(c)
    \/ SubTest(c) \/ SubBlock(c) \/ SubRead(c) \/ MgrEOF(c) \/ MgrAnswer(c) \/ MgrList(c)

\* ... the workers, and their steps that take locks of the boxes as long as no mutex
\* was left locked. (A removal that waits for such a mutex holds free_boxes_lock, so a
\* step that takes no more than that lock is one of them.)
BoxStep(w) ==
    \/ Accept(w) \/ Refuse(w) \/ LeaveLocked(w) \/ ManageBox(w) \/ ListBoxes(w) \/ SendPacket(w)
    \/ StoreMessage(w) \/ NotStored(w) \/ PublisherGone(w)

WorkerStep(w) ==
    \/ workers_reception(w) \/ AnswerManager(w) \/ ListingEnds(w) \/ ReadMessage(w)
    \/ (~mutex_left /\ BoxStep(w))

\* What depends on the users, and on the boxes.
Environment ==
    \/ \E c \in Clients : mkfifo(c) \/ PubLine(c) \/ PubEOF(c)
                              \/ subscriber_shutdown(c) \/ Killed(c)
    \/ \E w \in Workers : SendMessage(w) \/ BoxRemoved(w) \/ (mutex_left /\ BoxStep(w))
    \/ BrokerKilled

Next ==
    \/ MainStep
    \/ \E c \in Clients : ClientStep(c)
    \/ \E w \in Workers : WorkerStep(w)
    \/ Environment

Spec == Init /\ [][Next]_vars

\* Every thread and program that can go on does; users and boxes need do nothing.
FairSpec ==
    /\ Spec
    /\ WF_vars(MainStep)
    /\ \A c \in Clients : WF_vars(ClientStep(c))
    /\ \A w \in Workers : WF_vars(WorkerStep(w))

-----------------------------------------------------------------------------
(* Properties                                                              *)

\* The type of the state, and the limits of the queue and the pipes.
TypeOK ==
    /\ main \in {"init", "created", "open", "read", "receive", "eof", "dummy", "dead"}
    /\ request \in Clients \cup {NULL}
    /\ {register_pipe, requests_queue, pending} \subseteq Seq(Clients)
    /\ Len(requests_queue) <= QueueCapacity /\ Len(register_pipe) <= RegisterCapacity
    /\ writers \subseteq Clients
    /\ client \in [Clients -> {"start", "reg_open", "reg_write", "reg_close", "registered",
                               "ses_open", "session", "reading", "waiting", "orphaned"}
                                  \cup Ended]
    /\ \A c \in Clients : Len(session[c].data) <= PipeCapacity
    /\ worker \in [Workers -> {"idle", "working", "opening", "session", "storing", "dead"}]
    /\ serving \in [Workers -> Clients \cup {NULL}]
    /\ shutdown_signaler \in [Clients -> BOOLEAN]
    /\ line \in [Clients -> Nat \cup {-1}] /\ eof \in [Clients -> BOOLEAN]
    /\ mutex_left \in BOOLEAN

\* The requests that no worker has taken yet are in the queue, in the main thread's
\* hands and in the register pipe, each in one place and in the order in which they
\* were written.  None is lost or doubled where the main thread blocks.
RequestsForwarded ==
    pending = requests_queue
                 \o (IF request = NULL THEN << >> ELSE <<request>>) \o register_pipe

\* A subscriber prints the messages of its session in order; when it ends without
\* having been interrupted it has printed every one that was written to its pipe,
\* also those that were in it when the worker closed it.
AllPrinted ==
    \A c \in Subscribers :
        /\ \A k \in 1 .. Len(printed[c]) : printed[c][k] = k
        /\ client[c] = "done" /\ ~shutdown_signaler[c] => Len(printed[c]) = sent[c]

\* A publisher cuts lines into messages and loses nothing at the cuts ("Doesn't
\* truncate the message", pub.c:76, where statement-p2.md:99 has a line truncated): what
\* was typed and not sent is what is left of the last line. When it is done at the end of
\* its input it has sent all but the end of a line that had no newline, less than a
\* message, which pub.c:83 drops.
LinesKept ==
    \A c \in Publishers :
        /\ owed[c] = Max({line[c], 0})
        /\ client[c] = "done" => eof[c] /\ owed[c] < MessageLen

\* A manager prints the boxes that were listed for it, all of them and sorted by
\* name, but for a last one that has no name yet.
ListingSorted ==
    \A c \in Listers : client[c] = "done" =>
        LET named == IF listed[c] # << >> /\ Last(listed[c]) = 0
                     THEN Front(listed[c]) ELSE listed[c]
        IN  /\ \A k \in 2 .. Len(boxes[c]) : boxes[c][k - 1] <= boxes[c][k]
            /\ \A b \in Range(boxes[c]) \cup Range(named) :
                   Cardinality({k \in DOMAIN boxes[c] : boxes[c][k] = b})
                     = Cardinality({k \in DOMAIN named : named[k] = b})

\* A client whose request was taken by a worker does not wait for ever in the open
\* of its session pipe, whichever of the two comes first and however soon the
\* worker closes its end, unless the broker dies.  A creation or a removal is not
\* answered if it needs a mutex that was left locked.
SessionOpens ==
    \A c \in Clients :
        (client[c] \in {"reg_close", "registered", "ses_open"} /\ c \notin Range(pending))
            ~> \/ client[c] \in {"session", "reading", "waiting"} \cup Ended
               \/ main = "dead"
               \/ mutex_left /\ c \in Managers

\* A request left in the register pipe while the main thread waits in its dummy
\* open (mbroker.c:97) is read once another client opens the pipe.
NextClientFlushes ==
    \A c \in Clients \ Interrupted :
        (main = "dummy" /\ register_pipe # << >> /\ client[c] = "reg_open")
            ~> main \in {"receive", "dead"}

\* A worker in a session with a publisher comes back to the queue after that client is
\* gone, whether it closed its pipe or was killed, unless a box's mutex was left locked.
WorkerReturns ==
    \A w \in Workers :
        (/\ worker[w] \in {"session", "storing"} /\ serving[w] \in Publishers
         /\ client[serving[w]] \in Ended) ~> worker[w] \in {"idle", "dead"} \/ mutex_left

\* A subscriber whose flag was set after it tested it (sub.c:71), so that the read
\* at sub.c:72 was not interrupted, ends at the latest when it has something to read.
InterruptNoticed ==
    \A c \in Interrupted :
        (/\ shutdown_signaler[c] /\ client[c] \in {"reading", "waiting"}
         /\ session[c].data # << >> \/ ~session[c].wr) ~> client[c] \in Ended

\* The death of the broker ends the sessions of subscribers and managers, also those
\* that wait for an answer or for the rest of a listing.
BrokerDeathNoticed ==
    main = "dead" ~> \A c \in Subscribers \cup Managers \cup Listers :
                        client[c] \notin {"session", "reading", "waiting"}

\* A request written to the register pipe is handed to the workers.
RequestsReceived ==
    \A c \in Clients :
        c \in Range(register_pipe) ~> c \notin Range(register_pipe)
=============================================================================
