------------------------------ MODULE Listener ------------------------------
(***************************************************************************)
(* The main thread of mbroker/mbroker.c, which reads the register pipe and *)
(* queues the requests, and client_request_connection of                   *)
(* protocol/protocol.c, which writes them.                                 *)
(*                                                                         *)
(* A request is smaller than PIPE_BUF, so it enters the pipe whole, and    *)
(* there is one reader, so its fields are read together: the pipe is a     *)
(* sequence of requests, each named by its client.  The kernel counts a    *)
(* process that is inside open as a reader or writer of the pipe; open     *)
(* returns once the other side is there, or was there since the call.      *)
(***************************************************************************)
EXTENDS Integers, Sequences, SequencesExt

CONSTANTS
    Clients,
    QueueCapacity,      \* of requests_queue; the code passes max_sessions
    RegisterCapacity,   \* what the register pipe holds before a write blocks
    NULL

ASSUME ListenerAssumption ==
    /\ {QueueCapacity, RegisterCapacity} \subseteq Nat \ {0}
    /\ NULL \notin Clients

VARIABLES
    main,            \* where the main thread is
    request,         \* the request it has in hand, or NULL
    register_pipe,   \* the requests in the register pipe
    writers,         \* the clients that have it open
    requests_queue,
    client,          \* where each client is
    pending          \* history: the requests written and not yet handled, in order

mainVars == <<main, request, requests_queue>>
listenerVars == <<mainVars, register_pipe, writers, client, pending>>

ListenerInit ==
    /\ main = "init"
    /\ request = NULL
    /\ register_pipe = << >>
    /\ writers = {}
    /\ requests_queue = << >>
    /\ client = [c \in Clients |-> "start"]
    /\ pending = << >>

Goto(c, from, to) ==
    /\ client[c] = from
    /\ client' = [client EXCEPT ![c] = to]

-----------------------------------------------------------------------------
(* client_request_connection                                               *)

\* Mutant: after the dummy open the pipe is opened again, not read.
WakeMain_Reopen ==
    main' = CASE main = "open" -> "read" [] main = "dummy" -> "eof" [] OTHER -> main

\* The kernel wakes the main thread when it waits in open for a writer.
WakeMain == main' = IF main \in {"open", "dummy"} THEN "read" ELSE main

\* Before mbroker_init has made its pipe the open fails, or finds the pipe that
\* an earlier broker left: that one is about to be removed, and nobody reads it.
\* Nor does anybody read the pipe that a dead broker leaves.
OpenRegister(c) ==
    \/ /\ \/ main = "init" /\ Goto(c, "reg_open", "failed")
          \/ main \in {"init", "dead"} /\ Goto(c, "reg_open", "orphaned")
       /\ UNCHANGED <<mainVars, register_pipe, writers, pending>>
    \/ /\ main \notin {"init", "dead"}
       /\ Goto(c, "reg_open", "reg_write")
       /\ writers' = writers \cup {c}
       /\ WakeMain
       /\ UNCHANGED <<request, requests_queue, register_pipe, pending>>

\* The open returns when the main thread opens the pipe, too; the write blocks
\* while the pipe is full, and fails with EPIPE when the broker is dead.
WriteRequest(c) ==
    \/ /\ Goto(c, "reg_write", "reg_close")
       /\ main \notin {"created", "dead"}
       /\ Len(register_pipe) < RegisterCapacity
       /\ register_pipe' = Append(register_pipe, c)
       /\ pending' = Append(pending, c)
       /\ UNCHANGED <<mainVars, writers>>
    \/ /\ Goto(c, "reg_write", "failed")
       /\ main = "dead"
       /\ writers' = writers \ {c}
       /\ UNCHANGED <<mainVars, register_pipe, pending>>

CloseRegister(c) ==
    /\ Goto(c, "reg_close", "registered")
    /\ writers' = writers \ {c}
    /\ UNCHANGED <<mainVars, register_pipe, pending>>

client_request_connection(c) == OpenRegister(c) \/ WriteRequest(c) \/ CloseRegister(c)

-----------------------------------------------------------------------------
(* The main thread                                                         *)

MainGoto(from, to) == main = from /\ main' = to

\* The old pipe is removed and a new one made.
mbroker_init ==
    /\ MainGoto("init", "created")
    /\ UNCHANGED <<request, requests_queue, register_pipe, writers, client, pending>>

\* Both open calls of main: they wait in "blocked" unless there is a writer now.
open(from, blocked) ==
    /\ MainGoto(from, IF writers = {} THEN blocked ELSE "read")
    /\ UNCHANGED <<request, requests_queue, register_pipe, writers, client, pending>>

\* pipe_read of a request, or the end of file that the pipe has when it is empty
\* and has no writer.
ReadCode ==
    /\ \/ /\ MainGoto("read", "receive")
          /\ register_pipe # << >>
          /\ request' = Head(register_pipe)
          /\ register_pipe' = Tail(register_pipe)
       \/ /\ MainGoto("read", "eof")
          /\ register_pipe = << >>
          /\ writers = {}
          /\ UNCHANGED <<request, register_pipe>>
    /\ UNCHANGED <<requests_queue, writers, client, pending>>

\* Mutant: a request that meets a full queue is dropped.
mbroker_receive_connection_Drop ==
    /\ MainGoto("receive", "read")
    /\ requests_queue' = IF Len(requests_queue) < QueueCapacity
                         THEN Append(requests_queue, request) ELSE requests_queue
    /\ request' = NULL
    /\ UNCHANGED <<register_pipe, writers, client, pending>>

\* Mutant: the queue is not waited for.
mbroker_receive_connection_NoWait ==
    /\ MainGoto("receive", "read")
    /\ requests_queue' = Append(requests_queue, request)
    /\ request' = NULL
    /\ UNCHANGED <<register_pipe, writers, client, pending>>

\* Blocks while the queue is full.
mbroker_receive_connection ==
    /\ MainGoto("receive", "read")
    /\ Len(requests_queue) < QueueCapacity
    /\ requests_queue' = Append(requests_queue, request)
    /\ request' = NULL
    /\ UNCHANGED <<register_pipe, writers, client, pending>>

Main ==
    \/ mbroker_init \/ open("created", "open") \/ ReadCode
    \/ mbroker_receive_connection \/ open("eof", "dummy")
=============================================================================
