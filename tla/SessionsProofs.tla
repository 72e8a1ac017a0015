--------------------------- MODULE SessionsProofs ---------------------------
(***************************************************************************)
(* Proofs about module Sessions, for every number of clients and workers,  *)
(* every capacity of the queue and the pipes, and every death and          *)
(* interruption: requests are forwarded once and in order, a subscriber    *)
(* prints all that was sent to it, a publisher keeps its lines, and a      *)
(* manager lists all the boxes, sorted.                                    *)
(***************************************************************************)
EXTENDS Sessions, SequenceTheorems, FiniteSetTheorems, TLAPS

MainLabels == {"init", "created", "open", "read", "receive", "eof", "dummy", "dead"}
ClientLabels ==
    {"start", "reg_open", "reg_write", "reg_close", "registered", "ses_open", "session",
     "reading", "waiting", "orphaned"} \cup Ended
WorkerLabels == {"idle", "working", "opening", "session", "storing", "dead"}
Packet == Int \cup [last : BOOLEAN, name : Nat]
Pipe == [linked : BOOLEAN, rd : BOOLEAN, wr : BOOLEAN, met : BOOLEAN, data : Seq(Packet)]

\* The main thread has a request in hand while it waits for room in the queue.
MainOK ==
    /\ main \in MainLabels
    /\ request \in Clients \cup {NULL}
    /\ main = "receive" => request # NULL
    /\ main \notin {"receive", "dead"} => request = NULL
    /\ register_pipe \in Seq(Clients) /\ Len(register_pipe) <= RegisterCapacity
    /\ requests_queue \in Seq(Clients) /\ Len(requests_queue) <= QueueCapacity
    /\ pending \in Seq(Clients)

\* Only publishers have lines, and only subscribers wait for messages.
ProgramsOK ==
    /\ role \in [Clients -> {"pub", "sub", "manage", "list", "none"}]
    /\ writers \subseteq Clients
    /\ client \in [Clients -> ClientLabels]
    /\ shutdown_signaler \in [Clients -> BOOLEAN]
    /\ line \in [Clients -> Nat \cup {-1}]
    /\ eof \in [Clients -> BOOLEAN]
    /\ owed \in [Clients -> Int]
    /\ \A c \in Clients : /\ line[c] # -1 => c \in Publishers
                          /\ client[c] \in {"reading", "waiting"} => c \in Subscribers

PipesOK ==
    /\ session \in [Clients -> Pipe]
    /\ \A c \in Clients : Len(session[c].data) <= PipeCapacity
    /\ sent \in [Clients -> Nat]
    /\ printed \in [Clients -> Seq(Packet)]

\* Only a worker that serves a listing has packets to send.
WorkersOK ==
    /\ worker \in [Workers -> WorkerLabels]
    /\ serving \in [Workers -> Clients \cup {NULL}]
    /\ packets \in [Workers -> Seq(Packet)]
    /\ mutex_left \in BOOLEAN
    /\ \A w \in Workers : /\ worker[w] = "idle" => serving[w] = NULL
                          /\ packets[w] # << >> => serving[w] \in Listers /\ worker[w] = "session"

TypeInv == MainOK /\ ProgramsOK /\ PipesOK /\ WorkersOK

\* What is in a subscriber's pipe are the messages that come after those it printed; a
\* subscriber that is done reads no more, and left nothing if it was not interrupted.
FlowAt(c) ==
    /\ sent[c] = Len(printed[c]) + Len(session[c].data)
    /\ \A k \in 1 .. Len(printed[c]) : printed[c][k] = k
    /\ \A k \in 1 .. Len(session[c].data) : session[c].data[k] = Len(printed[c]) + k
    /\ client[c] = "done" => /\ ~session[c].rd
                             /\ session[c].data = << >> \/ shutdown_signaler[c]
Flow == \A c \in Subscribers : FlowAt(c)

-----------------------------------------------------------------------------
(* Who changes what                                                        *)

ClientActs(c) ==
    \/ ClientStep(c) \/ mkfifo(c) \/ PubLine(c) \/ PubEOF(c) \/ subscriber_shutdown(c)
    \/ Killed(c)
WorkerActs(w) ==
    \/ workers_reception(w) \/ ManageBox(w) \/ AnswerManager(w)
    \/ Accept(w) \/ Refuse(w) \/ LeaveLocked(w)
    \/ ListBoxes(w) \/ SendPacket(w) \/ ListingEnds(w)
    \/ ReadMessage(w) \/ StoreMessage(w) \/ NotStored(w) \/ PublisherGone(w)
    \/ SendMessage(w) \/ BoxRemoved(w)

\* The steps of the model, by the process that takes them.
LEMMA Steps ==
    ASSUME Next
    PROVE  \/ MainStep \/ BrokerKilled
           \/ \E c \in Clients : ClientActs(c)
           \/ \E w \in Workers : WorkerActs(w)
  BY Zenon DEF Next, Environment, WorkerStep, BoxStep, ClientActs, WorkerActs

\* A client leaves the workers and the queue alone.
LEMMA ClientFrame ==
    ASSUME NEW c \in Clients, ClientActs(c)
    PROVE  /\ UNCHANGED <<role, worker, serving, packets, request, requests_queue>>
           /\ UNCHANGED mutex_left
           /\ Register(c) \/ UNCHANGED <<main, register_pipe, pending>>
  <1>1. CASE Register(c)
    BY <1>1, Zenon DEF Register, client_request_connection, OpenRegister, WriteRequest,
                       CloseRegister, WakeMain, mainVars, input, listing
  <1>2. \/ OpenSession(c) \/ SessionOpened(c) \/ mkfifo(c)
        \/ PubLine(c) \/ PubEOF(c) \/ PubWrite(c) \/ PubExit(c)
        => UNCHANGED <<role, worker, serving, packets, request, requests_queue, mutex_left,
                       main, register_pipe, pending>>
    BY Zenon DEF OpenSession, SessionOpened, PubWrite, mkfifo, PubLine, PubEOF, PubExit, Exit,
                       mainVars, input, listing
  <1>3. CASE SubTest(c) \/ SubBlock(c) \/ SubRead(c) \/ MgrEOF(c) \/ MgrAnswer(c) \/ MgrList(c)
    BY <1>3, Zenon DEF SubTest, SubBlock, SubRead, SubPrint, MgrEOF, MgrAnswer, MgrList, Exit,
                       mainVars, input, listing
  <1>4. CASE subscriber_shutdown(c) \/ Killed(c)
    BY <1>4, Zenon DEF subscriber_shutdown, Killed, mainVars, input, listing
  <1> QED BY <1>1, <1>2, <1>3, <1>4 DEF ClientActs, ClientStep

\* A worker leaves the clients and the register pipe alone.
LEMMA WorkerFrame ==
    ASSUME NEW w \in Workers, WorkerActs(w)
    PROVE  /\ UNCHANGED <<role, client, writers, printed, shutdown_signaler, line, eof, owed,
                          main, request, register_pipe>>
           /\ workers_reception(w) \/ UNCHANGED <<requests_queue, pending>>
           /\ mutex_left' \in {mutex_left, TRUE}
  <1>1. CASE workers_reception(w)
    BY <1>1, Zenon DEF workers_reception, Dequeue, input, listing
  <1>2. CASE Accept(w) \/ Refuse(w) \/ LeaveLocked(w) \/ AnswerManager(w) \/ ListBoxes(w) \/ SendPacket(w)
    BY <1>2, Zenon DEF Accept, Refuse, LeaveLocked, AnswerManager, ListBoxes, SendPacket, WorkerEnds,
                       listenerVars, mainVars, input, listing
  <1>3. CASE ListingEnds(w) \/ NotStored(w) \/ PublisherGone(w) \/ SendMessage(w) \/ BoxRemoved(w)
    BY <1>3, Zenon DEF ListingEnds, NotStored, PublisherGone, SendMessage, BoxRemoved, WorkerEnds,
                       listenerVars, mainVars, input, listing
  <1>4. CASE ManageBox(w) \/ ReadMessage(w) \/ StoreMessage(w)
    BY <1>4, Zenon DEF ManageBox, ReadMessage, StoreMessage, listenerVars, mainVars, input, listing
  <1> QED BY <1>1, <1>2, <1>3, <1>4 DEF WorkerActs

\* The main thread touches nothing but the register pipe and the queue.
LEMMA MainFrame ==
    ASSUME MainStep
    PROVE  UNCHANGED <<role, client, writers, printed, shutdown_signaler, line, eof, owed, pending,
                       worker, serving, packets, mutex_left, session, sent>>
  BY Zenon DEF MainStep, Main, mbroker_init, open, ReadCode, mbroker_receive_connection, input, listing

-----------------------------------------------------------------------------
(* Requests                                                                *)

\* Sequences in a row grow at the end of the last, and shrink at the first.
LEMMA AppendConcat ==
    \A s, t \in Seq(Clients) : \A e \in Clients : Append(s \o t, e) = s \o Append(t, e)
  OBVIOUS

\* See AppendConcat.
LEMMA TailConcat ==
    \A s, t \in Seq(Clients) : s # << >> => Tail(s \o t) = Tail(s) \o t
  OBVIOUS

\* How sequences in a row are grouped makes no difference.
LEMMA RowConcat ==
    \A q, h, r \in Seq(Clients) : q \o (h \o r) = (q \o h) \o r
  OBVIOUS

\* AppendConcat for three sequences.
LEMMA RowGrows ==
    ASSUME NEW q \in Seq(Clients), NEW h \in Seq(Clients), NEW r \in Seq(Clients),
           NEW e \in Clients
    PROVE  Append((q \o h) \o r, e) = (q \o h) \o Append(r, e)
  <1>1. PICK x : x = q \o h
    OBVIOUS
  <1>2. x \in Seq(Clients)
    BY <1>1
  <1>3. Append(x \o r, e) = x \o Append(r, e)
    BY <1>2, AppendConcat
  <1> QED BY <1>1, <1>3

\* TailConcat for three sequences.
LEMMA RowShrinks ==
    ASSUME NEW q \in Seq(Clients), NEW h \in Seq(Clients), NEW r \in Seq(Clients), q # << >>
    PROVE  Tail((q \o h) \o r) = (Tail(q) \o h) \o r
  <1>1. PICK x : x = q \o h
    OBVIOUS
  <1>2. x \in Seq(Clients) /\ x # << >>
    BY <1>1
  <1>3. Tail(x \o r) = Tail(x) \o r
    BY <1>2, TailConcat
  <1>4. Tail(x) = Tail(q) \o h
    BY <1>1, TailConcat
  <1> QED BY <1>1, <1>3, <1>4

\* A request is appended where it is written, and taken from the head.
LEMMA ForwardStep ==
    ASSUME MainOK, RequestsForwarded, Next
    PROVE  MainOK' /\ RequestsForwarded'
  <1> USE DEF MainOK, RequestsForwarded, MainLabels
  <1> DEFINE hand == IF request = NULL THEN << >> ELSE <<request>>
  <1>0. NULL \notin Clients /\ QueueCapacity \in Nat /\ RegisterCapacity \in Nat
    BY ListenerAssumption
  <1>1. ASSUME UNCHANGED <<main, request, register_pipe, requests_queue, pending>>
        PROVE  MainOK' /\ RequestsForwarded'
    BY <1>1
  <1>2. CASE MainStep
    <2>1. UNCHANGED pending
      BY <1>2, MainFrame
    <2>2. CASE mbroker_init \/ open("created", "open") \/ open("eof", "dummy")
      BY <2>1, <2>2 DEF mbroker_init, open, MainGoto
    <2>3. CASE ReadCode
      <3>1. CASE /\ main = "read" /\ main' = "receive" /\ register_pipe # << >>
                 /\ request' = Head(register_pipe) /\ register_pipe' = Tail(register_pipe)
                 /\ UNCHANGED requests_queue
        <4>1. /\ request' \in Clients /\ register_pipe' \in Seq(Clients)
              /\ Len(register_pipe') = Len(register_pipe) - 1 /\ Len(register_pipe) \in Nat
              /\ register_pipe = <<request'>> \o register_pipe'
          BY <3>1
        <4>2. pending = requests_queue \o register_pipe
          BY <3>1
        <4>3. pending' = (requests_queue' \o <<request'>>) \o register_pipe'
          BY <2>1, <3>1, <4>1, <4>2, ConcatAssociative, SMTT(60)
        <4> QED BY <1>0, <2>1, <3>1, <4>1, <4>3, SMTT(60)
      <3>2. CASE main = "read" /\ main' = "eof" /\ UNCHANGED <<requests_queue, request, register_pipe>>
        BY <2>1, <3>2
      <3> QED BY <2>3, <3>1, <3>2 DEF ReadCode, MainGoto
    <2>4. CASE mbroker_receive_connection
      <3>1. /\ main = "receive" /\ main' = "read" /\ request # NULL /\ request' = NULL
            /\ Len(requests_queue) < QueueCapacity
            /\ requests_queue' = Append(requests_queue, request)
            /\ UNCHANGED register_pipe
        BY <2>4 DEF mbroker_receive_connection, MainGoto
      <3>2. /\ requests_queue' = requests_queue \o <<request>> /\ requests_queue' \in Seq(Clients)
            /\ Len(requests_queue') = Len(requests_queue) + 1 /\ Len(requests_queue) \in Nat
        BY <3>1
      <3>3. pending' = (requests_queue' \o << >>) \o register_pipe'
        BY <2>1, <3>1, <3>2
      <3> QED BY <1>0, <2>1, <3>1, <3>2, <3>3
    <2> QED BY <1>2, <2>2, <2>3, <2>4 DEF MainStep, Main
  <1>3. CASE BrokerKilled
    BY <1>3, Zenon DEF BrokerKilled
  <1>4. ASSUME NEW c \in Clients, ClientActs(c)
        PROVE  MainOK' /\ RequestsForwarded'
    <2>1. UNCHANGED <<request, requests_queue>>
      BY <1>4, ClientFrame
    <2>2. CASE UNCHANGED <<main, register_pipe, pending>>
      BY <1>1, <2>1, <2>2
    <2>3. CASE OpenRegister(c) \/ CloseRegister(c)
      <3>1. /\ UNCHANGED <<register_pipe, pending>>
            /\ UNCHANGED main \/ main' = IF main \in {"open", "dummy"} THEN "read" ELSE main
        BY <2>3, Zenon DEF OpenRegister, CloseRegister, WakeMain, mainVars
      <3> QED BY <2>1, <3>1
    <2>4. CASE WriteRequest(c)
      <3>1. \/ UNCHANGED <<main, register_pipe, pending>>
            \/ /\ Len(register_pipe) < RegisterCapacity /\ UNCHANGED main
               /\ register_pipe' = Append(register_pipe, c) /\ pending' = Append(pending, c)
        BY <2>4, Zenon DEF WriteRequest, mainVars
      <3>2. CASE /\ Len(register_pipe) < RegisterCapacity /\ UNCHANGED main
                 /\ register_pipe' = Append(register_pipe, c) /\ pending' = Append(pending, c)
        <4>1. /\ register_pipe' = register_pipe \o <<c>> /\ pending' = pending \o <<c>>
              /\ register_pipe' \in Seq(Clients) /\ pending' \in Seq(Clients)
              /\ Len(register_pipe') = Len(register_pipe) + 1 /\ Len(register_pipe) \in Nat
          BY <3>2
        <4>2. hand \in Seq(Clients) /\ hand' = hand
          BY <2>1
        <4> HIDE DEF hand
        <4>3. pending' = (requests_queue \o hand) \o register_pipe'
          <5>1. pending = (requests_queue \o hand) \o register_pipe
            BY DEF hand
          <5>2. register_pipe \in Seq(Clients) /\ requests_queue \in Seq(Clients)
            OBVIOUS
          <5> HIDE DEF MainOK, RequestsForwarded
          <5>3. Append((requests_queue \o hand) \o register_pipe, c)
                  = (requests_queue \o hand) \o Append(register_pipe, c)
            BY <4>2, <5>2, RowGrows, ZenonT(60)
          <5> QED BY <3>2, <5>1, <5>3
        <4>4. RequestsForwarded'
          BY <2>1, <4>3 DEF hand
        <4>5. MainOK'
          BY <1>0, <2>1, <3>2, <4>1
        <4> QED BY <4>4, <4>5
      <3> QED BY <2>1, <2>2, <3>1, <3>2
    <2> QED BY <1>4, <2>2, <2>3, <2>4, ClientFrame DEF Register, client_request_connection
  <1>5. ASSUME NEW w \in Workers, WorkerActs(w)
        PROVE  MainOK' /\ RequestsForwarded'
    <2>1. UNCHANGED <<main, request, register_pipe>>
      BY <1>5, WorkerFrame
    <2>2. CASE UNCHANGED <<requests_queue, pending>>
      BY <1>1, <2>1, <2>2
    <2>3. CASE workers_reception(w)
      <3>1. requests_queue # << >> /\ requests_queue' = Tail(requests_queue) /\ pending' = Tail(pending)
        BY <2>3 DEF workers_reception, Dequeue
      <3>2. /\ requests_queue' \in Seq(Clients)
            /\ Len(requests_queue') = Len(requests_queue) - 1 /\ Len(requests_queue) \in Nat
        BY <3>1
      <3>3. hand \in Seq(Clients) /\ hand' = hand
        BY <2>1
      <3>4. pending = (requests_queue \o hand) \o register_pipe
        OBVIOUS
      <3>5. pending # << >>
        <4> HIDE DEF hand
        <4> QED BY <3>1, <3>3, <3>4
      <3> HIDE DEF hand
      <3>6. pending' = (requests_queue' \o hand) \o register_pipe
        <4>1. register_pipe \in Seq(Clients) /\ requests_queue \in Seq(Clients)
          OBVIOUS
        <4>2. Tail((requests_queue \o hand) \o register_pipe)
                = (Tail(requests_queue) \o hand) \o register_pipe
          BY <3>1, <3>3, <4>1, RowShrinks, SMTT(60)
        <4> QED BY <3>1, <3>4, <4>2
      <3>7. pending' \in Seq(Clients)
        BY <3>1, <3>5
      <3> QED BY <1>0, <2>1, <3>2, <3>3, <3>6, <3>7 DEF hand
    <2> QED BY <1>5, <2>2, <2>3, WorkerFrame
  <1> QED BY <1>2, <1>3, <1>4, <1>5, Steps

-----------------------------------------------------------------------------
(* Session pipes                                                           *)

\* A step changes the pipe of one client.
OnlyPipe(c) ==
    /\ session' \in [Clients -> Pipe]
    /\ \A d \in Clients \ {c} : session'[d] = session[d]

\* What an open does to a pipe: it neither moves data nor touches the other end.
LEMMA PipeOpened ==
    ASSUME session \in [Clients -> Pipe], NEW c \in Clients,
           \/ EnterOpen(c, ClientEnd(c), WorkerEnd(c))
           \/ EnterOpen(c, WorkerEnd(c), ClientEnd(c))
    PROVE  /\ OnlyPipe(c) /\ session'[c].data = session[c].data
           /\ EnterOpen(c, WorkerEnd(c), ClientEnd(c)) /\ c \notin Publishers
                => session'[c].rd = session[c].rd
  <1>1. ASSUME EnterOpen(c, "rd", "wr")
        PROVE  OnlyPipe(c) /\ session'[c].data = session[c].data
    <2> DEFINE p == [session[c] EXCEPT !.rd = TRUE, !.met = session[c].met \/ session[c].wr]
    <2>3. session' = [session EXCEPT ![c] = p]
      BY <1>1, Zenon DEF EnterOpen
    <2>4. p \in Pipe /\ p.data = session[c].data
      BY DEF Pipe
    <2>1. session' \in [Clients -> Pipe] /\ session'[c].data = session[c].data
      <3> HIDE DEF p
      <3> QED BY <2>3, <2>4
    <2>2. \A d \in Clients \ {c} : session'[d] = session[d]
      BY <1>1 DEF EnterOpen
    <2> QED BY <2>1, <2>2 DEF OnlyPipe
  <1>3. ASSUME EnterOpen(c, "wr", "rd")
        PROVE  OnlyPipe(c) /\ session'[c].data = session[c].data
    <2> DEFINE p == [session[c] EXCEPT !.wr = TRUE, !.met = session[c].met \/ session[c].rd]
    <2>3. session' = [session EXCEPT ![c] = p]
      BY <1>3, Zenon DEF EnterOpen
    <2>4. p \in Pipe /\ p.data = session[c].data
      BY DEF Pipe
    <2>1. session' \in [Clients -> Pipe] /\ session'[c].data = session[c].data
      <3> HIDE DEF p
      <3> QED BY <2>3, <2>4
    <2>2. \A d \in Clients \ {c} : session'[d] = session[d]
      BY <1>3 DEF EnterOpen
    <2> QED BY <2>1, <2>2 DEF OnlyPipe
  <1>2. EnterOpen(c, "wr", "rd") => session'[c].rd = session[c].rd
    BY ZenonT(60) DEF EnterOpen, Pipe
  <1> QED BY <1>1, <1>2, <1>3 DEF ClientEnd, WorkerEnd

\* What a close does to a pipe.
LEMMA PipeClosed ==
    ASSUME session \in [Clients -> Pipe], NEW c \in Clients,
           CloseAndUnlink(c) \/ Close(c, ClientEnd(c)) \/ Close(c, WorkerEnd(c))
    PROVE  /\ OnlyPipe(c) /\ session'[c].data = session[c].data
           /\ session'[c].rd => session[c].rd
           /\ CloseAndUnlink(c) /\ c \notin Publishers => ~session'[c].rd
  <1> DEFINE Closed == session'[c].data = session[c].data /\ (session'[c].rd => session[c].rd)
  <1>1. ASSUME CloseAndUnlink(c)
        PROVE  OnlyPipe(c) /\ Closed /\ (c \notin Publishers => ~session'[c].rd)
    BY <1>1, ZenonT(60) DEF CloseAndUnlink, ClientEnd, Pipe, OnlyPipe
  <1>2. ASSUME NEW e \in {"rd", "wr"}, Close(c, e)
        PROVE  OnlyPipe(c) /\ Closed
    BY <1>2, ZenonT(60) DEF Close, Pipe, OnlyPipe
  <1>3. ASSUME Close(c, "wr")
        PROVE  session'[c].rd = session[c].rd
    BY <1>3 DEF Close, Pipe
  <1> QED BY <1>1, <1>2, <1>3 DEF ClientEnd, WorkerEnd

\* The name of a pipe comes and goes.
LEMMA PipeLinked ==
    ASSUME session \in [Clients -> Pipe], NEW c \in Clients, NEW b \in BOOLEAN,
           session' = [session EXCEPT ![c].linked = b]
    PROVE  /\ OnlyPipe(c) /\ session'[c].data = session[c].data
           /\ session'[c].rd = session[c].rd
  BY DEF Pipe, OnlyPipe

\* What a write does to a pipe.
LEMMA PipePut ==
    ASSUME session \in [Clients -> Pipe], sent \in [Clients -> Nat], PipeCapacity \in Nat,
           NEW c \in Clients, NEW p \in Packet, Put(c, p)
    PROVE  /\ OnlyPipe(c) /\ session'[c].data = Append(session[c].data, p)
           /\ Len(session'[c].data) = Len(session[c].data) + 1
           /\ Len(session'[c].data) <= PipeCapacity
           /\ session'[c].rd = session[c].rd
           /\ sent' = [sent EXCEPT ![c] = sent[c] + 1]
  <1>1. session[c].data \in Seq(Packet)
    BY DEF Pipe
  <1>2. /\ Append(session[c].data, p) \in Seq(Packet)
        /\ Len(Append(session[c].data, p)) = Len(session[c].data) + 1
        /\ Len(session[c].data) \in Nat
    BY <1>1
  <1> DEFINE q == Append(session[c].data, p)
  <1>3. session' = [session EXCEPT ![c].data = q] /\ q \in Seq(Packet)
    BY <1>2 DEF Put
  <1> HIDE DEF q
  <1>4. OnlyPipe(c) /\ session'[c].data = q /\ session'[c].rd = session[c].rd
    BY <1>3 DEF Pipe, OnlyPipe
  <1> QED BY <1>2, <1>4 DEF q, Put

\* What a read does to a pipe.
LEMMA PipeGet ==
    ASSUME session \in [Clients -> Pipe], NEW c \in Clients, session[c].data # << >>, Get(c)
    PROVE  /\ OnlyPipe(c) /\ session'[c].data = Tail(session[c].data)
           /\ Len(session[c].data) \in Nat \ {0}
           /\ Len(session'[c].data) = Len(session[c].data) - 1
           /\ session'[c].rd = session[c].rd /\ Head(session[c].data) \in Packet
  <1>1. session[c].data \in Seq(Packet)
    BY DEF Pipe
  <1>2. /\ Tail(session[c].data) \in Seq(Packet) /\ Head(session[c].data) \in Packet
        /\ Len(session[c].data) \in Nat \ {0}
        /\ Len(Tail(session[c].data)) = Len(session[c].data) - 1
    BY <1>1
  <1> DEFINE q == Tail(session[c].data)
  <1>3. session' = [session EXCEPT ![c].data = q] /\ q \in Seq(Packet)
    BY <1>2 DEF Get
  <1> HIDE DEF q
  <1>4. OnlyPipe(c) /\ session'[c].data = q /\ session'[c].rd = session[c].rd
    BY <1>3 DEF Pipe, OnlyPipe
  <1> QED BY <1>2, <1>4 DEF q
-----------------------------------------------------------------------------
(* Steps of the clients                                                    *)

\* The smaller and the greater of two numbers.
LEMMA MinMaxOfTwo ==
    ASSUME NEW m \in Int, NEW n \in Int
    PROVE  /\ Min({m, n}) = IF m <= n THEN m ELSE n
           /\ Max({m, n}) = IF m <= n THEN n ELSE m
  <1>1. \E x \in {m, n} : \A y \in {m, n} : x <= y
    BY m <= n \/ n <= m
  <1>2. \E x \in {m, n} : \A y \in {m, n} : x >= y
    BY m <= n \/ n <= m
  <1>3. /\ Min({m, n}) \in {m, n} /\ \A y \in {m, n} : Min({m, n}) <= y
    BY <1>1 DEF Min
  <1>4. /\ Max({m, n}) \in {m, n} /\ \A y \in {m, n} : Max({m, n}) >= y
    BY <1>2 DEF Max
  <1> QED BY <1>3, <1>4

\* What a line counts for.
LEMMA MaxWithZero ==
    \A k \in Nat : Max({k, 0}) = k
  <1>1. ASSUME NEW k \in Nat
        PROVE  Max({k, 0}) = k
    <2>1. Max({k, 0}) = IF k <= 0 THEN 0 ELSE k
      BY MinMaxOfTwo
    <2> QED BY <2>1
  <1> QED BY <1>1

\* A message takes from the line what is left of it, or as much as fits.
LEMMA MessageFromLine ==
    ASSUME MessageLen \in Nat \ {0}, NEW k \in Nat
    PROVE  LET n == Min({k, MessageLen})
           IN  /\ n \in Nat /\ AfterMessage(k) \in Nat \cup {-1}
               /\ Max({k, 0}) - n = Max({AfterMessage(k), 0})
  <1>1. Min({k, MessageLen}) = IF k <= MessageLen THEN k ELSE MessageLen
    BY MinMaxOfTwo
  <1>2. Max({k, 0}) = k
    BY MinMaxOfTwo
  <1>3. AfterMessage(k) \in Nat \cup {-1}
    BY DEF AfterMessage
  <1>4. Max({AfterMessage(k), 0}) = IF AfterMessage(k) <= 0 THEN 0 ELSE AfterMessage(k)
    <2> DEFINE a == AfterMessage(k)
    <2>1. a \in Int
      BY <1>3
    <2> HIDE DEF a
    <2>2. Max({a, 0}) = IF a <= 0 THEN 0 ELSE a
      BY <2>1, MinMaxOfTwo
    <2> QED BY <2>2 DEF a
  <1> QED BY <1>1, <1>2, <1>3, <1>4 DEF AfterMessage

\* Where a client goes, and which other clients' programs it moves: none.
LEMMA ClientMoves ==
    ASSUME ProgramsOK, NEW c \in Clients, ClientActs(c)
    PROVE  /\ \E l \in ClientLabels :
                  /\ client' = [client EXCEPT ![c] = l]
                  /\ l \in {"reading", "waiting"} => c \in Subscribers
                  /\ l = "done" => c \notin Publishers \/ PubExit(c)
           /\ writers' \subseteq Clients
           /\ \/ UNCHANGED shutdown_signaler
              \/ shutdown_signaler' = [shutdown_signaler EXCEPT ![c] = TRUE]
           /\ UNCHANGED <<line, eof, owed>> \/ PubLine(c) \/ PubEOF(c) \/ PubWrite(c)
  <1> USE DEF Goto, ClientLabels, Ended, input, listing
  <1>0. /\ Publishers \cap Subscribers = {}
        /\ Publishers \cap (Managers \cup Listers) = {}
    BY DEF Publishers, Subscribers, Managers, Listers, Runs
  <1>1. CASE Register(c)
    <2>1. CASE OpenRegister(c)
      BY <1>1, <2>1 DEF OpenRegister, Register, ProgramsOK
    <2>2. CASE WriteRequest(c)
      BY <1>1, <2>2 DEF WriteRequest, Register, ProgramsOK
    <2>3. CASE CloseRegister(c)
      BY <1>1, <2>3 DEF CloseRegister, Register, ProgramsOK
    <2> QED BY <1>1, <2>1, <2>2, <2>3 DEF Register, client_request_connection
  <1>2. CASE OpenSession(c) \/ SessionOpened(c) \/ mkfifo(c)
    BY <1>2 DEF OpenSession, SessionOpened, mkfifo, ProgramsOK
  <1>3. CASE PubLine(c) \/ PubEOF(c) \/ PubWrite(c) \/ PubExit(c)
    <2>1. CASE PubExit(c)
      <3>1. /\ client' = [client EXCEPT ![c] = "done"]
            /\ UNCHANGED <<writers, shutdown_signaler, line, eof, owed>>
        BY <2>1, Zenon DEF PubExit, Exit
      <3> HIDE DEF input, listing
      <3> QED BY <2>1, <3>1 DEF ProgramsOK
    <2> QED BY <1>3, <2>1 DEF PubLine, PubEOF, PubWrite, Exit, ProgramsOK
  <1>4. CASE SubTest(c) \/ SubBlock(c) \/ SubRead(c)
    <2>1. c \in Subscribers
      BY <1>4 DEF SubTest, SubBlock, SubRead, SubPrint, Exit, ProgramsOK
    <2> QED BY <1>0, <1>4, <2>1 DEF SubTest, SubBlock, SubRead, SubPrint, Exit, ProgramsOK
  <1>5. CASE MgrEOF(c) \/ MgrAnswer(c) \/ MgrList(c)
    BY <1>0, <1>5 DEF MgrEOF, MgrAnswer, MgrList, Exit, ProgramsOK
  <1>6. CASE subscriber_shutdown(c)
    <2>1. /\ c \in Subscribers /\ UNCHANGED <<line, eof, owed>>
          /\ shutdown_signaler' = [shutdown_signaler EXCEPT ![c] = TRUE]
          /\ UNCHANGED <<client, writers>> \/ writers' = writers \ {c}
      BY <1>6, Zenon DEF subscriber_shutdown
    <2>0. c \notin Publishers
      BY <1>0, <2>1
    <2>2. \E l \in ClientLabels :
              /\ client' = [client EXCEPT ![c] = l]
              /\ l \in {"reading", "waiting"} => c \in Subscribers
              /\ l = "done" => c \notin Publishers \/ PubExit(c)
      <3>1. CASE Blocked(c)
        <4> DEFINE l == IF client[c] = "waiting" THEN "done" ELSE "failed"
        <4>1. client' = [client EXCEPT ![c] = l]
          BY <1>6, <3>1, Zenon DEF subscriber_shutdown
        <4>2. l \in ClientLabels
          OBVIOUS
        <4> HIDE DEF l, ClientLabels
        <4> QED BY <2>0, <2>1, <4>1, <4>2, Zenon
      <3>2. CASE ~Blocked(c)
        <4>1. UNCHANGED client
          BY <1>6, <3>2, Zenon DEF subscriber_shutdown
        <4>2. client' = [client EXCEPT ![c] = client[c]] /\ client[c] \in ClientLabels
          BY <4>1 DEF ProgramsOK
        <4> DEFINE l == client[c]
        <4> HIDE DEF l, ClientLabels
        <4>3. client' = [client EXCEPT ![c] = l] /\ l \in ClientLabels
          BY <4>2 DEF l
        <4> QED BY <2>0, <2>1, <4>3, Zenon
      <3> QED BY <3>1, <3>2
    <2>3. writers' \subseteq Clients
      BY <2>1 DEF ProgramsOK
    <2> HIDE DEF ClientLabels
    <2> QED BY <2>1, <2>2, <2>3, Zenon
  <1>7. CASE Killed(c)
    BY <1>7 DEF Killed, ProgramsOK
  <1> QED BY <1>1, <1>2, <1>3, <1>4, <1>5, <1>6, <1>7 DEF ClientActs, ClientStep

\* What is left of its line is all that a publisher owes.
LEMMA ClientLines ==
    ASSUME ProgramsOK, LinesKept, NEW c \in Clients, ClientActs(c)
    PROVE  ProgramsOK' /\ LinesKept'
  <1>0. MessageLen \in Nat \ {0}
    BY SessionsAssumption
  <1>1. /\ UNCHANGED role /\ Publishers' = Publishers /\ Subscribers' = Subscribers
        /\ Publishers \subseteq Clients
    BY ClientFrame DEF Publishers, Subscribers, Runs
  <1>2. PICK l \in ClientLabels : /\ client' = [client EXCEPT ![c] = l]
                                  /\ l \in {"reading", "waiting"} => c \in Subscribers
                                  /\ l = "done" => c \notin Publishers \/ PubExit(c)
    BY ClientMoves
  <1>3. /\ client' \in [Clients -> ClientLabels]
        /\ \A d \in Clients : client'[d] \in {"reading", "waiting"} => d \in Subscribers
        /\ \A d \in Clients : client'[d] = IF d = c THEN l ELSE client[d]
    <2>1. client \in [Clients -> ClientLabels]
      BY DEF ProgramsOK
    <2>2. client' \in [Clients -> ClientLabels]
      BY <1>2, <2>1
    <2>3. \A d \in Clients : client'[d] = IF d = c THEN l ELSE client[d]
      BY <1>2, <2>1
    <2> QED BY <1>2, <2>2, <2>3 DEF ProgramsOK
  <1>4. writers' \subseteq Clients /\ shutdown_signaler' \in [Clients -> BOOLEAN]
    BY ClientMoves DEF ProgramsOK
  <1>5. CASE UNCHANGED <<line, eof, owed>>
    <2>1. ProgramsOK'
      BY <1>1, <1>3, <1>4, <1>5 DEF ProgramsOK
    <2>2. ASSUME NEW d \in Publishers
          PROVE  /\ owed'[d] = Max({line'[d], 0})
                 /\ client'[d] = "done" => eof'[d] /\ owed'[d] < MessageLen
      <3>1. owed[d] = Max({line[d], 0}) /\ line[d] \in Nat \cup {-1}
        BY <1>1 DEF LinesKept, ProgramsOK
      <3>2. ASSUME PubExit(c), d = c
            PROVE  eof[d] /\ owed[d] < MessageLen
        <4>1. eof[d] /\ line[d] < MessageLen
          BY <3>2 DEF PubExit
        <4>2. PICK k : k = line[d]
          OBVIOUS
        <4>3. k \in Int
          BY <3>1, <4>2
        <4>4. Max({k, 0}) = IF k <= 0 THEN 0 ELSE k
          BY <4>3, MinMaxOfTwo
        <4> QED BY <1>0, <3>1, <4>1, <4>2, <4>3, <4>4
      <3>3. d # c /\ client[d] = "done" => eof[d] /\ owed[d] < MessageLen
        BY DEF LinesKept
      <3>4. client'[d] = "done" => eof[d] /\ owed[d] < MessageLen
        BY <1>1, <1>2, <1>3, <3>2, <3>3
      <3> QED BY <1>5, <3>1, <3>4
    <2> QED BY <1>1, <2>1, <2>2 DEF LinesKept
  <1>6. ASSUME NEW n \in Int, NEW m \in Nat \cup {-1}, c \in Publishers, client'[c] # "done",
               line' = [line EXCEPT ![c] = m], owed' = [owed EXCEPT ![c] = n],
               UNCHANGED eof \/ eof' = [eof EXCEPT ![c] = TRUE],
               n = Max({m, 0})
        PROVE  ProgramsOK' /\ LinesKept'
    <2>1. /\ line' \in [Clients -> Nat \cup {-1}] /\ owed' \in [Clients -> Int]
          /\ eof' \in [Clients -> BOOLEAN]
      BY <1>6 DEF ProgramsOK
    <2>2. \A d \in Clients : line'[d] # -1 => d \in Publishers
      BY <1>6 DEF ProgramsOK
    <2>3. ASSUME NEW d \in Publishers
          PROVE  /\ owed'[d] = Max({line'[d], 0})
                 /\ client'[d] = "done" => eof'[d] /\ owed'[d] < MessageLen
      <3>1. CASE d = c
        BY <1>6, <3>1 DEF ProgramsOK
      <3>2. CASE d # c
        <4>1. /\ owed'[d] = owed[d] /\ line'[d] = line[d] /\ eof'[d] = eof[d]
              /\ client'[d] = client[d]
          BY <1>1, <1>3, <1>6, <3>2 DEF ProgramsOK
        <4> QED BY <4>1 DEF LinesKept
      <3> QED BY <3>1, <3>2
    <2>4. LinesKept'
      BY <1>1, <2>3 DEF LinesKept
    <2> QED BY <1>1, <1>3, <1>4, <2>1, <2>2, <2>4 DEF ProgramsOK
  <1>7. CASE PubLine(c) \/ PubEOF(c)
    <2>1. PICK n \in LineLengths \cup {0} :
              /\ c \in Publishers /\ line[c] = -1
              /\ client' = [client EXCEPT ![c] = "session"]
              /\ line' = [line EXCEPT ![c] = n]
              /\ owed' = [owed EXCEPT ![c] = owed[c] + n]
              /\ UNCHANGED eof \/ eof' = [eof EXCEPT ![c] = TRUE]
      BY <1>7, Zenon DEF PubLine, PubEOF, Goto
    <2>2. n \in Nat /\ n = Max({n, 0}) /\ Max({-1, 0}) = 0
      <3>1. n \in Nat /\ n \in Int
        BY SessionsAssumption
      <3>2. Max({n, 0}) = n
        BY <3>1, MaxWithZero
      <3>3. Max({-1, 0}) = IF -1 <= 0 THEN 0 ELSE -1
        BY MinMaxOfTwo
      <3> QED BY <3>1, <3>2, <3>3
    <2>3. owed[c] = 0
      BY <2>1, <2>2 DEF LinesKept
    <2>4. owed' = [owed EXCEPT ![c] = n]
      BY <2>1, <2>2, <2>3
    <2>5. n \in Int /\ n \in Nat \cup {-1}
      BY <2>2
    <2>6. client'[c] # "done"
      BY <2>1 DEF ProgramsOK
    <2> QED BY <1>6, <2>1, <2>2, <2>4, <2>5, <2>6
  <1>8. CASE PubWrite(c) /\ ~UNCHANGED <<line, eof, owed>>
    <2> DEFINE n == Min({line[c], MessageLen})
    <2>1. /\ line[c] # -1 /\ UNCHANGED eof
          /\ client' = [client EXCEPT ![c] = "session"]
          /\ line' = [line EXCEPT ![c] = AfterMessage(line[c])]
          /\ owed' = [owed EXCEPT ![c] = owed[c] - n]
      BY <1>8, Zenon DEF PubWrite, Exit, input, Goto
    <2>2. line[c] \in Nat /\ c \in Publishers /\ owed[c] = Max({line[c], 0}) /\ owed[c] \in Int
      BY <2>1 DEF ProgramsOK, LinesKept
    <2>3. /\ AfterMessage(line[c]) \in Nat \cup {-1} /\ n \in Nat
          /\ owed[c] - n = Max({AfterMessage(line[c]), 0})
      BY <2>2, MessageFromLine, SessionsAssumption
    <2> HIDE DEF n
    <2>4. owed[c] - n \in Int
      BY <2>2, <2>3
    <2>5. client'[c] # "done"
      BY <2>1 DEF ProgramsOK
    <2> QED BY <1>6, <2>1, <2>2, <2>3, <2>4, <2>5
  <1> QED BY <1>5, <1>7, <1>8, ClientMoves

\* A client moves messages in no pipe but its own, and counts no others.
LEMMA ClientPipes ==
    ASSUME PipesOK, ProgramsOK, NEW c \in Clients, ClientActs(c)
    PROVE  /\ PipesOK'
           /\ \A d \in Clients \ {c} : /\ session'[d] = session[d]
                                       /\ sent'[d] = sent[d] /\ printed'[d] = printed[d]
  <1> USE DEF PipesOK
  <1>1. ASSUME UNCHANGED <<sent, printed>>,
               \/ UNCHANGED session
               \/ OnlyPipe(c) /\ session'[c].data = session[c].data
               \/ OnlyPipe(c) /\ Len(session'[c].data) <= PipeCapacity
        PROVE  /\ PipesOK'
               /\ \A d \in Clients \ {c} : /\ session'[d] = session[d]
                                           /\ sent'[d] = sent[d] /\ printed'[d] = printed[d]
    <2>1. \A d \in Clients : Len(session'[d].data) <= PipeCapacity
      BY <1>1 DEF OnlyPipe
    <2> QED BY <1>1, <2>1 DEF OnlyPipe
  <1>2. CASE Register(c) \/ mkfifo(c)
    <2>1. UNCHANGED <<sent, printed>>
      BY <1>2, Zenon DEF Register, mkfifo
    <2>2. \/ UNCHANGED session \/ session' = [session EXCEPT ![c].linked = TRUE]
          \/ session' = [session EXCEPT ![c].linked = FALSE]
      BY <1>2, Zenon DEF Register, mkfifo
    <2> QED BY <1>1, <2>1, <2>2, PipeLinked
  <1>3. CASE OpenSession(c) \/ SessionOpened(c)
    <2>1. UNCHANGED <<sent, printed>>
      BY <1>3, Zenon DEF OpenSession, SessionOpened
    <2>2. UNCHANGED session \/ EnterOpen(c, ClientEnd(c), WorkerEnd(c))
      BY <1>3, Zenon DEF OpenSession, SessionOpened
    <2> QED BY <1>1, <2>1, <2>2, PipeOpened
  <1>4. ASSUME CloseAndUnlink(c) \/ Close(c, ClientEnd(c)), UNCHANGED <<sent, printed>>
        PROVE  /\ PipesOK'
               /\ \A d \in Clients \ {c} : /\ session'[d] = session[d]
                                           /\ sent'[d] = sent[d] /\ printed'[d] = printed[d]
    BY <1>1, <1>4, PipeClosed
  <1>5. CASE \/ PubLine(c) \/ PubEOF(c) \/ PubExit(c) \/ SubTest(c) \/ SubBlock(c)
             \/ MgrEOF(c) \/ MgrAnswer(c)
    <2>1. /\ UNCHANGED <<sent, printed>>
          /\ UNCHANGED session \/ CloseAndUnlink(c)
      BY <1>5, Zenon DEF PubLine, PubEOF, PubExit, SubTest, SubBlock, MgrEOF, MgrAnswer, Exit
    <2> QED BY <1>1, <1>4, <2>1
  <1>6. CASE PubWrite(c)
    <2>1. CASE Exit(c, "session", "failed")
      BY <1>4, <2>1 DEF Exit
    <2> DEFINE n == Min({line[c], MessageLen})
    <2>2. CASE line[c] # -1 /\ Put(c, n) /\ UNCHANGED printed
      <3>1. n \in Packet
        <4>1. line[c] \in Nat /\ MessageLen \in Nat \ {0}
          BY <2>2, SessionsAssumption DEF ProgramsOK
        <4>2. n \in Nat
          BY <4>1, MessageFromLine
        <4> QED BY <4>2 DEF Packet
      <3> HIDE DEF n
      <3>2. /\ OnlyPipe(c) /\ Len(session'[c].data) <= PipeCapacity
            /\ sent' = [sent EXCEPT ![c] = sent[c] + 1]
        BY <2>2, <3>1, PipePut, SessionsAssumption
      <3>3. \A d \in Clients : Len(session'[d].data) <= PipeCapacity
        BY <3>2 DEF OnlyPipe
      <3> QED BY <2>2, <3>2, <3>3 DEF OnlyPipe
    <2> QED BY <1>6, <2>1, <2>2 DEF PubWrite
  <1>7. ASSUME session[c].data # << >>, Get(c)
        PROVE  OnlyPipe(c) /\ Len(session'[c].data) <= PipeCapacity /\ Head(session[c].data) \in Packet
    <2>1. /\ OnlyPipe(c) /\ Len(session[c].data) \in Nat \ {0}
          /\ Len(session'[c].data) = Len(session[c].data) - 1 /\ Head(session[c].data) \in Packet
      BY <1>7, PipeGet
    <2>2. Len(session[c].data) <= PipeCapacity /\ PipeCapacity \in Nat
      BY SessionsAssumption
    <2> QED BY <2>1, <2>2
  <1>8. CASE SubRead(c)
    <2>0. PICK from \in {"reading", "waiting"} :
              \/ session[c].data # << >> /\ SubPrint(c, from)
              \/ Exit(c, from, "done")
      BY <1>8, Zenon DEF SubRead
    <2>1. CASE session[c].data # << >> /\ SubPrint(c, from)
      <3>1. /\ OnlyPipe(c) /\ Len(session'[c].data) <= PipeCapacity
            /\ Head(session[c].data) \in Packet
        BY <2>1, <1>7 DEF SubPrint
      <3>2. \A d \in Clients : Len(session'[d].data) <= PipeCapacity
        BY <3>1 DEF OnlyPipe
      <3>3. /\ printed' = [printed EXCEPT ![c] = Append(printed[c], Head(session[c].data))]
            /\ UNCHANGED sent
        BY <2>1 DEF SubPrint
      <3>4. Append(printed[c], Head(session[c].data)) \in Seq(Packet)
        BY <3>1
      <3> QED BY <3>1, <3>2, <3>3, <3>4 DEF OnlyPipe
    <2>2. CASE Exit(c, from, "done")
      BY <1>4, <2>2 DEF Exit
    <2> QED BY <2>0, <2>1, <2>2
  <1>9. CASE MgrList(c)
    <2>1. /\ UNCHANGED <<sent, printed>> /\ session[c].data # << >>
          /\ CloseAndUnlink(c) \/ Get(c)
      BY <1>9, Zenon DEF MgrList
    <2> QED BY <1>1, <1>4, <1>7, <2>1
  <1>10. CASE subscriber_shutdown(c) \/ Killed(c)
    <2>1. /\ UNCHANGED <<sent, printed>>
          /\ UNCHANGED session \/ CloseAndUnlink(c) \/ Close(c, ClientEnd(c))
      BY <1>10, Zenon DEF subscriber_shutdown, Killed
    <2> QED BY <1>1, <1>4, <2>1
  <1> QED BY <1>2, <1>3, <1>5, <1>6, <1>8, <1>9, <1>10 DEF ClientActs, ClientStep

-----------------------------------------------------------------------------
(* Steps of the workers                                                    *)

\* A listing is made of packets.
LEMMA ListingType ==
    ASSUME NEW table \in Seq(Nat)
    PROVE  Listing(table) \in Seq(Packet)
  <1>1. [last |-> TRUE, name |-> 0] \in Packet
    BY DEF Packet
  <1>2. \A k \in 1 .. Len(table) : [last |-> k = Len(table), name |-> table[k]] \in Packet
    BY DEF Packet
  <1>3. Len(table) \in Nat
    OBVIOUS
  <1>4. [k \in 1 .. Len(table) |-> [last |-> k = Len(table), name |-> table[k]]] \in Seq(Packet)
    BY <1>2, <1>3
  <1> QED BY <1>1, <1>4 DEF Listing

\* A worker serves one client at a time, and has packets only for a listing.
LEMMA WorkersStep ==
    ASSUME TypeInv, NEW w \in Workers, WorkerActs(w)
    PROVE  WorkersOK'
  <1> USE DEF WorkersOK
  <1>0. /\ UNCHANGED role /\ Listers' = Listers /\ NULL \notin Clients
        /\ Publishers \cup Subscribers \cup Managers \cup Listers \subseteq Clients
        /\ (Publishers \cup Subscribers \cup Managers) \cap Listers = {}
        /\ mutex_left' \in BOOLEAN
    BY WorkerFrame, ListenerAssumption
       DEF Listers, Publishers, Subscribers, Managers, Runs, TypeInv
  <1>1. ASSUME NEW l \in WorkerLabels, NEW c \in Clients \cup {NULL},
               worker' = [worker EXCEPT ![w] = l], serving' = [serving EXCEPT ![w] = c],
               l = "idle" => c = NULL,
               UNCHANGED packets, packets[w] = << >>
        PROVE  WorkersOK'
    BY <1>0, <1>1 DEF TypeInv
  <1>2. ASSUME worker[w] = "idle" \/ serving[w] \notin Listers
        PROVE  packets[w] = << >>
    BY <1>0, <1>2 DEF TypeInv
  <1>3. CASE workers_reception(w) \/ ManageBox(w)
    <2>1. UNCHANGED packets /\ (worker[w] = "idle" \/ serving[w] \in Managers)
      BY <1>3, Zenon DEF workers_reception, ManageBox, OpenPipe, Return, WorkerGoto, Dequeue, listing
    <2>2. \/ \E c \in Clients : /\ \/ worker' = [worker EXCEPT ![w] = "opening"]
                                  \/ worker' = [worker EXCEPT ![w] = "working"]
                               /\ serving' = [serving EXCEPT ![w] = c]
          \/ /\ worker' = [worker EXCEPT ![w] = "idle"]
             /\ serving' = [serving EXCEPT ![w] = NULL]
      <3>1. CASE workers_reception(w)
        BY <3>1, Zenon DEF workers_reception, OpenPipe, Return, WorkerGoto
      <3>2. CASE ManageBox(w)
        <4>1. serving[w] \in Clients
          BY <1>0, <3>2 DEF ManageBox
        <4> QED BY <3>2, <4>1, Zenon DEF ManageBox, OpenPipe, Return, WorkerGoto
      <3> QED BY <1>3, <3>1, <3>2
    <2>3. {"opening", "working", "idle"} \subseteq WorkerLabels
      BY DEF WorkerLabels
    <2>4. packets[w] = << >>
      BY <1>0, <1>2, <2>1
    <2> QED BY <1>1, <2>1, <2>2, <2>3, <2>4
  <1>4. CASE Accept(w) \/ ReadMessage(w) \/ StoreMessage(w)
    <2>1. /\ \/ worker' = [worker EXCEPT ![w] = "session"]
             \/ worker' = [worker EXCEPT ![w] = "storing"]
          /\ UNCHANGED <<serving, packets>> /\ serving[w] \in Publishers \cup Subscribers
      BY <1>4, Zenon DEF Accept, ReadMessage, StoreMessage, WorkerGoto, listing
    <2>2. serving = [serving EXCEPT ![w] = serving[w]] /\ serving[w] \in Clients
      BY <1>0, <2>1 DEF TypeInv
    <2>3. {"session", "storing"} \subseteq WorkerLabels
      BY DEF WorkerLabels
    <2> QED BY <1>0, <1>1, <1>2, <2>1, <2>2, <2>3
  <1>5. ASSUME worker' = [worker EXCEPT ![w] = "idle"], serving' = [serving EXCEPT ![w] = NULL],
               UNCHANGED packets, packets[w] = << >>
        PROVE  WorkersOK'
    BY <1>1, <1>5 DEF WorkerLabels
  <1>6. CASE Refuse(w) \/ LeaveLocked(w) \/ AnswerManager(w)
    <2>1. /\ worker' = [worker EXCEPT ![w] = "idle"] /\ serving' = [serving EXCEPT ![w] = NULL]
          /\ UNCHANGED packets /\ serving[w] \in Publishers \cup Subscribers \cup Managers
      BY <1>6, Zenon DEF Refuse, LeaveLocked, AnswerManager, WorkerEnds, Return, WorkerGoto, listing
    <2> QED BY <1>0, <1>2, <1>5, <2>1
  <1>7. CASE ListBoxes(w)
    <2>1. PICK table \in BoxTables :
             /\ serving[w] \in Listers /\ UNCHANGED serving
             /\ worker' = [worker EXCEPT ![w] = "session"]
             /\ packets' = [packets EXCEPT ![w] = Listing(table)]
      BY <1>7, Zenon DEF ListBoxes, WorkerGoto
    <2>2. Listing(table) \in Seq(Packet)
      BY ListingType, SessionsAssumption
    <2> QED BY <1>0, <2>1, <2>2 DEF TypeInv, WorkerLabels
  <1>8. CASE SendPacket(w)
    <2>1. PICK p \in {Tail(packets[w]), << >>} :
             /\ packets[w] # << >> /\ UNCHANGED <<worker, serving>>
             /\ packets' = [packets EXCEPT ![w] = p]
      BY <1>8, Zenon DEF SendPacket
    <2>2. packets[w] \in Seq(Packet)
      BY DEF TypeInv
    <2>3. Tail(packets[w]) \in Seq(Packet) /\ << >> \in Seq(Packet)
      BY <2>1, <2>2
    <2>4. serving[w] \in Listers
      BY <2>1 DEF TypeInv
    <2> QED BY <1>0, <2>1, <2>3, <2>4 DEF TypeInv
  <1>9. CASE ListingEnds(w)
    <2>1. /\ worker' = [worker EXCEPT ![w] = "idle"] /\ serving' = [serving EXCEPT ![w] = NULL]
          /\ UNCHANGED packets /\ packets[w] = << >>
      BY <1>9, Zenon DEF ListingEnds, WorkerEnds, Return, WorkerGoto, listing
    <2> QED BY <1>5, <2>1
  <1>10. CASE SendMessage(w)
    <2>1. /\ serving[w] \in Publishers \cup Subscribers /\ UNCHANGED packets
          /\ \/ worker' = [worker EXCEPT ![w] = "session"] /\ UNCHANGED serving
             \/ /\ worker' = [worker EXCEPT ![w] = "idle"]
                /\ serving' = [serving EXCEPT ![w] = NULL]
      BY <1>10, Zenon DEF SendMessage, WorkerEnds, Return, WorkerGoto, listing
    <2>2. serving = [serving EXCEPT ![w] = serving[w]] /\ serving[w] \in Clients
      BY <1>0, <2>1 DEF TypeInv
    <2>3. "session" \in WorkerLabels
      BY DEF WorkerLabels
    <2> QED BY <1>0, <1>1, <1>2, <1>5, <2>1, <2>2, <2>3
  <1>11. CASE NotStored(w) \/ PublisherGone(w) \/ BoxRemoved(w)
    <2>1. /\ worker' = [worker EXCEPT ![w] = "idle"] /\ serving' = [serving EXCEPT ![w] = NULL]
          /\ UNCHANGED packets /\ serving[w] \in Publishers \cup Subscribers
      BY <1>11, Zenon DEF NotStored, PublisherGone, BoxRemoved, WorkerEnds, Return, WorkerGoto,
                          listing
    <2> QED BY <1>0, <1>2, <1>5, <2>1
  <1> QED BY <1>3, <1>4, <1>6, <1>7, <1>8, <1>9, <1>10, <1>11 DEF WorkerActs

\* A worker moves messages in the pipe of one client, the one it serves or takes on.
LEMMA WorkerPipes ==
    ASSUME TypeInv, NEW w \in Workers, WorkerActs(w)
    PROVE  /\ PipesOK'
           /\ \E c \in Clients : \A d \in Clients \ {c} :
                  session'[d] = session[d] /\ sent'[d] = sent[d]
  <1> USE DEF PipesOK
  <1>0. /\ UNCHANGED printed
        /\ Publishers \cup Subscribers \cup Managers \cup Listers \subseteq Clients
        /\ PipeCapacity \in Nat \ {0} /\ PipesOK
    BY WorkerFrame, SessionsAssumption DEF Publishers, Subscribers, Managers, Listers, Runs, TypeInv
  <1>1. ASSUME NEW c \in Clients, OnlyPipe(c), Len(session'[c].data) <= PipeCapacity,
               UNCHANGED sent \/ sent' = [sent EXCEPT ![c] = sent[c] + 1]
        PROVE  /\ PipesOK'
               /\ \E b \in Clients : \A d \in Clients \ {b} :
                      session'[d] = session[d] /\ sent'[d] = sent[d]
    <2>1. \A d \in Clients : Len(session'[d].data) <= PipeCapacity
      BY <1>0, <1>1 DEF OnlyPipe
    <2>2. sent' \in [Clients -> Nat] /\ \A d \in Clients \ {c} : sent'[d] = sent[d]
      <3>1. sent \in [Clients -> Nat]
        BY <1>0
      <3>2. CASE UNCHANGED sent
        BY <3>1, <3>2
      <3>3. CASE sent' = [sent EXCEPT ![c] = sent[c] + 1]
        BY <3>1, <3>3
      <3> QED BY <1>1, <3>2, <3>3
    <2> QED BY <1>0, <1>1, <2>1, <2>2 DEF OnlyPipe
  <1>2. ASSUME UNCHANGED <<session, sent>>, NEW c \in Clients
        PROVE  /\ PipesOK'
               /\ \E b \in Clients : \A d \in Clients \ {b} :
                      session'[d] = session[d] /\ sent'[d] = sent[d]
    BY <1>0, <1>2
  <1>3. CASE workers_reception(w) \/ ManageBox(w)
    <2>0. ManageBox(w) => serving[w] \in Clients
      BY <1>0 DEF ManageBox
    <2>1. PICK c \in Clients : UNCHANGED session \/ EnterOpen(c, WorkerEnd(c), ClientEnd(c))
      BY <1>3, <2>0, Zenon DEF workers_reception, ManageBox, OpenPipe
    <2>2. UNCHANGED sent
      BY <1>3, Zenon DEF workers_reception, ManageBox, Dequeue
    <2>3. EnterOpen(c, WorkerEnd(c), ClientEnd(c))
             => OnlyPipe(c) /\ session'[c].data = session[c].data
      BY <1>0, PipeOpened
    <2> QED BY <1>0, <1>1, <1>2, <2>1, <2>2, <2>3
  <1>4. CASE Accept(w) \/ ListBoxes(w) \/ StoreMessage(w)
    <2>1. UNCHANGED <<session, sent>> /\ serving[w] \in Publishers \cup Subscribers \cup Listers
      BY <1>4, Zenon DEF Accept, ListBoxes, StoreMessage
    <2> QED BY <1>0, <1>2, <2>1
  <1>5. ASSUME NEW c \in Clients, c = serving[w], Close(c, WorkerEnd(c)), UNCHANGED sent
        PROVE  /\ PipesOK'
               /\ \E b \in Clients : \A d \in Clients \ {b} :
                      session'[d] = session[d] /\ sent'[d] = sent[d]
    <2>1. OnlyPipe(c) /\ session'[c].data = session[c].data
      BY <1>0, <1>5, PipeClosed
    <2> QED BY <1>0, <1>1, <1>5, <2>1
  <1>6. CASE \/ Refuse(w) \/ LeaveLocked(w) \/ ListingEnds(w) \/ NotStored(w)
             \/ PublisherGone(w) \/ BoxRemoved(w)
    <2>1. /\ Close(serving[w], WorkerEnd(serving[w])) /\ UNCHANGED sent
          /\ serving[w] \in Publishers \cup Subscribers \cup Listers
      BY <1>6, Zenon DEF Refuse, LeaveLocked, ListingEnds, NotStored, PublisherGone, BoxRemoved,
                         WorkerEnds
    <2> QED BY <1>0, <1>5, <2>1
  <1>7. CASE AnswerManager(w)
    <2> DEFINE c == serving[w]
               q == IF session[c].rd THEN <<0>> ELSE session[c].data
    <2>1. /\ c \in Clients /\ UNCHANGED sent
          /\ session' = [session EXCEPT ![c].wr = FALSE, ![c].data = q]
      BY <1>0, <1>7 DEF AnswerManager
    <2>2. session[c].data \in Seq(Packet) /\ Len(session[c].data) <= PipeCapacity
      BY <1>0, <2>1 DEF Pipe
    <2>3. <<0>> \in Seq(Packet) /\ Len(<<0>>) = 1
      BY DEF Packet
    <2>4. q \in Seq(Packet) /\ Len(q) <= PipeCapacity
      BY <1>0, <2>2, <2>3
    <2> HIDE DEF q
    <2>5. [session[c] EXCEPT !.wr = FALSE, !.data = q] \in Pipe
      BY <1>0, <2>1, <2>4, ZenonT(60) DEF Pipe
    <2>6. session' = [session EXCEPT ![c] = [session[c] EXCEPT !.wr = FALSE, !.data = q]]
      BY <2>1, Zenon
    <2>8. [session[c] EXCEPT !.wr = FALSE, !.data = q].data = q
      BY <1>0, <2>1 DEF Pipe
    <2> DEFINE p == [session[c] EXCEPT !.wr = FALSE, !.data = q]
    <2>9. session' = [session EXCEPT ![c] = p] /\ p \in Pipe /\ p.data = q
      BY <2>5, <2>6, <2>8
    <2> HIDE DEF p, c
    <2>7. session'[c].data = q /\ OnlyPipe(c)
      BY <1>0, <2>1, <2>9, ZenonT(60) DEF OnlyPipe
    <2> QED BY <1>1, <2>1, <2>4, <2>7
  <1>8. ASSUME NEW c \in Clients, NEW p \in Packet, Put(c, p)
        PROVE  /\ PipesOK'
               /\ \E b \in Clients : \A d \in Clients \ {b} :
                      session'[d] = session[d] /\ sent'[d] = sent[d]
    <2>1. /\ OnlyPipe(c) /\ Len(session'[c].data) <= PipeCapacity
          /\ sent' = [sent EXCEPT ![c] = sent[c] + 1]
      BY <1>0, <1>8, PipePut
    <2> QED BY <1>1, <2>1
  <1>9. CASE SendPacket(w)
    <2>1. /\ packets[w] # << >>
          /\ UNCHANGED <<session, sent>> \/ Put(serving[w], Head(packets[w]))
      BY <1>9, Zenon DEF SendPacket
    <2>2. serving[w] \in Clients /\ packets[w] \in Seq(Packet)
      BY <1>0, <2>1 DEF TypeInv, WorkersOK
    <2>3. Head(packets[w]) \in Packet
      BY <2>1, <2>2
    <2> QED BY <1>2, <1>8, <2>1, <2>2, <2>3
  <1>10. CASE ReadMessage(w)
    <2> DEFINE c == serving[w]
    <2>1. c \in Publishers /\ UNCHANGED sent /\ session[c].data # << >> /\ Get(c)
      BY <1>10, Zenon DEF ReadMessage
    <2>2. /\ OnlyPipe(c) /\ Len(session[c].data) \in Nat \ {0}
          /\ Len(session'[c].data) = Len(session[c].data) - 1
      BY <1>0, <2>1, PipeGet
    <2>3. Len(session[c].data) <= PipeCapacity
      BY <1>0, <2>1
    <2> QED BY <1>0, <1>1, <2>1, <2>2, <2>3, SMTT(60)
  <1>11. CASE SendMessage(w)
    <2> DEFINE c == serving[w]
    <2>1. /\ c \in Subscribers
          /\ \/ Put(c, sent[c] + 1)
             \/ Close(c, WorkerEnd(c)) /\ UNCHANGED sent
      BY <1>11, Zenon DEF SendMessage, WorkerEnds
    <2>2. sent[c] + 1 \in Packet
      BY <1>0, <2>1 DEF Packet
    <2> QED BY <1>0, <1>5, <1>8, <2>1, <2>2
  <1> QED BY <1>3, <1>4, <1>6, <1>7, <1>9, <1>10, <1>11 DEF WorkerActs

-----------------------------------------------------------------------------
(* The messages of a subscriber                                            *)

\* A step that moves no message of a subscriber.
LEMMA FlowKept ==
    ASSUME NEW c, FlowAt(c), sent'[c] = sent[c], printed'[c] = printed[c],
           session'[c].data = session[c].data,
           client'[c] = "done" => /\ ~session'[c].rd
                                  /\ session[c].data = << >> \/ shutdown_signaler'[c]
    PROVE  FlowAt(c)'
  BY DEF FlowAt

\* A message is read from the pipe and printed.
LEMMA FlowPrinted ==
    ASSUME PipesOK, NEW c \in Clients, FlowAt(c), session[c].data # << >>,
           NEW from, SubPrint(c, from), ProgramsOK
    PROVE  FlowAt(c)'
  <1> DEFINE s == session[c].data
             p == printed[c]
  <1>1. s \in Seq(Packet) /\ p \in Seq(Packet) /\ s # << >>
    BY DEF PipesOK, Pipe
  <1>2. /\ session'[c].data = Tail(s) /\ Head(s) \in Packet
        /\ sent'[c] = sent[c] /\ printed'[c] = Append(p, Head(s)) /\ client'[c] # "done"
    <2>1. Get(c) /\ UNCHANGED sent /\ client' = [client EXCEPT ![c] = "session"]
      BY Zenon DEF SubPrint, Goto
    <2>2. printed' = [printed EXCEPT ![c] = Append(printed[c], Head(session[c].data))]
      BY Zenon DEF SubPrint
    <2>3. session'[c].data = Tail(s) /\ Head(s) \in Packet
      BY <2>1, PipeGet DEF PipesOK
    <2> QED BY <2>1, <2>2, <2>3 DEF PipesOK, ProgramsOK
  <1> DEFINE t == Tail(s)
             q == Append(p, Head(s))
  <1>3. /\ sent[c] = Len(p) + Len(s)
        /\ \A k \in 1 .. Len(p) : p[k] = k
        /\ \A k \in 1 .. Len(s) : s[k] = Len(p) + k
    BY DEF FlowAt
  <1> HIDE DEF s, p
  <1>4. /\ Len(t) = Len(s) - 1 /\ Len(s) \in Nat \ {0} /\ Len(p) \in Nat
        /\ Len(q) = Len(p) + 1 /\ q[Len(p) + 1] = s[1]
        /\ \A k \in 1 .. Len(p) : q[k] = p[k]
        /\ \A k \in 1 .. Len(s) - 1 : t[k] = s[k + 1]
    BY <1>1
  <1> HIDE DEF t, q
  <1>5. sent[c] = Len(q) + Len(t)
    BY <1>3, <1>4
  <1>6. \A k \in 1 .. Len(q) : q[k] = k
    <2>1. s[1] = Len(p) + 1
      BY <1>3, <1>4
    <2>2. \A k \in 1 .. Len(q) : k \in 1 .. Len(p) \/ k = Len(p) + 1
      BY <1>4
    <2> QED BY <1>3, <1>4, <2>1, <2>2
  <1>7. \A k \in 1 .. Len(t) : t[k] = Len(q) + k
    <2>1. ASSUME NEW k \in 1 .. Len(t)
          PROVE  t[k] = Len(q) + k
      <3>1. k + 1 \in 1 .. Len(s) /\ k \in 1 .. Len(s) - 1
        BY <1>4
      <3>2. s[k + 1] = Len(p) + (k + 1)
        BY <1>3, <3>1
      <3> QED BY <1>4, <3>1, <3>2
    <2> QED BY <2>1
  <1>8. session'[c].data = t /\ printed'[c] = q
    BY <1>2 DEF t, q, s, p
  <1> QED BY <1>2, <1>5, <1>6, <1>7, <1>8 DEF FlowAt

\* The next message is written to the pipe.
LEMMA FlowSent ==
    ASSUME PipesOK, NEW c \in Clients, FlowAt(c), Put(c, sent[c] + 1), session[c].rd,
           UNCHANGED <<printed, client, shutdown_signaler>>, PipeCapacity \in Nat
    PROVE  FlowAt(c)'
  <1> DEFINE s == session[c].data
             p == printed[c]
             e == sent[c] + 1
  <1>1. s \in Seq(Packet) /\ p \in Seq(Packet) /\ e \in Packet /\ sent[c] \in Nat
    BY DEF PipesOK, Pipe, Packet
  <1>2. session'[c].data = Append(s, e) /\ sent'[c] = e
    BY <1>1, PipePut DEF PipesOK
  <1>3. /\ sent[c] = Len(p) + Len(s)
        /\ \A k \in 1 .. Len(p) : p[k] = k
        /\ \A k \in 1 .. Len(s) : s[k] = Len(p) + k
        /\ client[c] # "done"
    BY DEF FlowAt
  <1> DEFINE t == Append(s, e)
  <1> HIDE DEF s, p
  <1>4. /\ Len(t) = Len(s) + 1 /\ Len(s) \in Nat /\ Len(p) \in Nat /\ t[Len(s) + 1] = e
        /\ \A k \in 1 .. Len(s) : t[k] = s[k]
    BY <1>1
  <1> HIDE DEF t
  <1>5. e = Len(p) + Len(t)
    BY <1>3, <1>4
  <1>6. \A k \in 1 .. Len(t) : t[k] = Len(p) + k
    <2>1. \A k \in 1 .. Len(t) : k \in 1 .. Len(s) \/ k = Len(s) + 1
      BY <1>4
    <2> QED BY <1>3, <1>4, <1>5, <2>1
  <1>7. session'[c].data = t /\ printed'[c] = p
    BY <1>2 DEF t, s, p
  <1> QED BY <1>2, <1>3, <1>5, <1>6, <1>7 DEF FlowAt

\* A subscriber's own steps.
LEMMA FlowClient ==
    ASSUME PipesOK, ProgramsOK, NEW c \in Subscribers, FlowAt(c), ClientActs(c)
    PROVE  FlowAt(c)'
  <1>0. /\ c \in Clients /\ c \notin Publishers /\ c \notin Managers /\ c \notin Listers
        /\ session \in [Clients -> Pipe] /\ client \in [Clients -> ClientLabels]
        /\ sent \in [Clients -> Nat] /\ printed \in [Clients -> Seq(Packet)]
        /\ shutdown_signaler \in [Clients -> BOOLEAN]
    BY DEF Subscribers, Publishers, Managers, Listers, Runs, PipesOK, ProgramsOK
  <1>1. ASSUME UNCHANGED <<sent, printed>>, client'[c] # "done",
               session'[c].data = session[c].data
        PROVE  FlowAt(c)'
    BY <1>1, FlowKept
  <1>2. CASE Register(c)
    <2>1. client' \in {[client EXCEPT ![c] = l] : l \in {"failed", "orphaned", "reg_write", "reg_close", "registered"}}
      BY <1>2, Zenon DEF Register, client_request_connection, OpenRegister, WriteRequest,
                         CloseRegister, Goto
    <2>2. /\ UNCHANGED <<sent, printed>>
          /\ UNCHANGED session \/ session' = [session EXCEPT ![c].linked = FALSE]
      BY <1>2, Zenon DEF Register
    <2>3. client'[c] # "done"
      BY <1>0, <2>1
    <2> QED BY <1>0, <1>1, <2>2, <2>3, PipeLinked
  <1>3. CASE OpenSession(c) \/ SessionOpened(c) \/ mkfifo(c)
    <2>1. \/ client' = [client EXCEPT ![c] = "ses_open"]
          \/ client' = [client EXCEPT ![c] = "session"]
          \/ client' = [client EXCEPT ![c] = "reg_open"]
      BY <1>3, Zenon DEF OpenSession, SessionOpened, mkfifo, Goto
    <2>2. /\ UNCHANGED <<sent, printed>>
          /\ \/ UNCHANGED session \/ EnterOpen(c, ClientEnd(c), WorkerEnd(c))
             \/ session' = [session EXCEPT ![c].linked = TRUE]
      BY <1>3, Zenon DEF OpenSession, SessionOpened, mkfifo
    <2>3. client'[c] # "done"
      BY <1>0, <2>1
    <2> QED BY <1>0, <1>1, <2>2, <2>3, PipeOpened, PipeLinked
  <1>4. CASE \/ PubLine(c) \/ PubEOF(c) \/ PubWrite(c) \/ PubExit(c)
             \/ MgrEOF(c) \/ MgrAnswer(c) \/ MgrList(c)
    BY <1>0, <1>4 DEF PubLine, PubEOF, PubWrite, PubExit, MgrEOF, MgrAnswer, MgrList, ProgramsOK
  <1>5. ASSUME UNCHANGED <<sent, printed>>, CloseAndUnlink(c),
               session[c].data = << >> \/ shutdown_signaler'[c]
        PROVE  FlowAt(c)'
    <2>1. ~session'[c].rd /\ session'[c].data = session[c].data
      BY <1>0, <1>5, PipeClosed
    <2> QED BY <1>5, <2>1, FlowKept
  <1>6. CASE SubTest(c)
    <2>1. CASE shutdown_signaler[c] /\ Exit(c, "session", "done")
      <3>1. UNCHANGED <<sent, printed, shutdown_signaler>> /\ CloseAndUnlink(c)
        BY <2>1, Zenon DEF Exit
      <3> QED BY <1>5, <2>1, <3>1
    <2>2. CASE UNCHANGED <<session, sent, printed>> /\ Goto(c, "session", "reading")
      BY <1>0, <1>1, <2>2 DEF Goto
    <2> QED BY <1>6, <2>1, <2>2, Zenon DEF SubTest
  <1>10. CASE SubBlock(c)
    <2>1. UNCHANGED <<session, sent, printed>> /\ client' = [client EXCEPT ![c] = "waiting"]
      BY <1>10, Zenon DEF SubBlock, Goto
    <2> QED BY <1>0, <1>1, <2>1
  <1>7. CASE SubRead(c)
    <2>0. PICK from \in {"reading", "waiting"} :
              \/ session[c].data # << >> /\ SubPrint(c, from)
              \/ session[c].data = << >> /\ Exit(c, from, "done")
      BY <1>7, Zenon DEF SubRead
    <2>1. CASE session[c].data # << >> /\ SubPrint(c, from)
      BY <1>0, <2>1, FlowPrinted
    <2>2. CASE session[c].data = << >> /\ Exit(c, from, "done")
      <3>1. UNCHANGED <<sent, printed>> /\ CloseAndUnlink(c)
        BY <2>2, Zenon DEF Exit
      <3> QED BY <1>5, <2>2, <3>1
    <2> QED BY <2>0, <2>1, <2>2
  <1>8. CASE subscriber_shutdown(c)
    <2>1. /\ UNCHANGED <<sent, printed>> /\ client[c] # "done"
          /\ shutdown_signaler' = [shutdown_signaler EXCEPT ![c] = TRUE]
          /\ UNCHANGED <<client, session>> \/ CloseAndUnlink(c)
      BY <1>8 DEF subscriber_shutdown, Ended
    <2>2. shutdown_signaler'[c]
      BY <1>0, <2>1
    <2> QED BY <1>1, <1>5, <2>1, <2>2
  <1>9. CASE Killed(c)
    <2>1. /\ UNCHANGED <<sent, printed>> /\ client' = [client EXCEPT ![c] = "killed"]
          /\ Close(c, ClientEnd(c))
      BY <1>9, Zenon DEF Killed
    <2>2. client'[c] # "done"
      BY <1>0, <2>1
    <2> QED BY <1>0, <1>1, <2>1, <2>2, PipeClosed
  <1> QED BY <1>2, <1>3, <1>4, <1>6, <1>7, <1>8, <1>9, <1>10 DEF ClientActs, ClientStep

\* The workers' steps.
LEMMA FlowWorker ==
    ASSUME TypeInv, Flow, NEW w \in Workers, WorkerActs(w)
    PROVE  Flow'
  <1>0. /\ PipesOK /\ WorkersOK /\ session \in [Clients -> Pipe]
        /\ UNCHANGED <<role, client, printed, shutdown_signaler>> /\ Subscribers' = Subscribers
        /\ Subscribers \subseteq Clients /\ PipeCapacity \in Nat
        /\ Subscribers \cap (Publishers \cup Managers \cup Listers) = {}
        /\ Publishers \cup Managers \cup Listers \subseteq Clients
    BY WorkerFrame, SessionsAssumption DEF TypeInv, PipesOK, Subscribers, Publishers, Managers,
                                           Listers, Runs
  <1>1. ASSUME NEW d \in Subscribers, session'[d] = session[d], sent'[d] = sent[d]
        PROVE  FlowAt(d)'
    BY <1>0, <1>1, FlowKept DEF Flow, FlowAt
  <1>2. ASSUME NEW d \in Subscribers, sent'[d] = sent[d], session'[d].data = session[d].data,
               session'[d].rd => session[d].rd
        PROVE  FlowAt(d)'
    BY <1>0, <1>2, FlowKept DEF Flow, FlowAt
  <1>3. ASSUME NEW c \in Clients, UNCHANGED sent,
               EnterOpen(c, WorkerEnd(c), ClientEnd(c)) \/ Close(c, WorkerEnd(c))
        PROVE  Flow'
    <2>1. ASSUME NEW d \in Subscribers
          PROVE  FlowAt(d)'
      <3>1. OnlyPipe(c) /\ session'[c].data = session[c].data
        BY <1>0, <1>3, PipeOpened, PipeClosed
      <3>2. CASE d = c
        BY <1>0, <1>2, <1>3, <3>1, <3>2, PipeOpened, PipeClosed
      <3>3. CASE d # c
        BY <1>0, <1>1, <1>3, <3>1, <3>3 DEF OnlyPipe
      <3> QED BY <3>2, <3>3
    <2> QED BY <1>0, <2>1 DEF Flow
  <1>4. ASSUME NEW c \in Clients \ Subscribers, OnlyPipe(c),
               UNCHANGED sent \/ sent' = [sent EXCEPT ![c] = sent[c] + 1]
        PROVE  Flow'
    <2>1. ASSUME NEW d \in Subscribers
          PROVE  FlowAt(d)'
      <3>1. d \in Clients \ {c} /\ sent \in [Clients -> Nat]
        BY <1>0 DEF PipesOK
      <3>2. session'[d] = session[d] /\ sent'[d] = sent[d]
        BY <1>4, <3>1 DEF OnlyPipe
      <3> QED BY <1>1, <3>2
    <2> QED BY <1>0, <2>1 DEF Flow
  <1>5. CASE workers_reception(w) \/ ManageBox(w)
    <2>0. ManageBox(w) => serving[w] \in Clients
      BY <1>0 DEF ManageBox
    <2>1. PICK c \in Clients : UNCHANGED session \/ EnterOpen(c, WorkerEnd(c), ClientEnd(c))
      BY <1>5, <2>0, Zenon DEF workers_reception, ManageBox, OpenPipe
    <2>2. UNCHANGED sent
      BY <1>5, Zenon DEF workers_reception, ManageBox, Dequeue
    <2> QED BY <1>0, <1>1, <1>3, <2>1, <2>2 DEF Flow
  <1>6. CASE Accept(w) \/ ListBoxes(w) \/ StoreMessage(w)
    <2>1. UNCHANGED <<session, sent>>
      BY <1>6, Zenon DEF Accept, ListBoxes, StoreMessage
    <2> QED BY <1>0, <1>1, <2>1 DEF Flow
  <1>7. CASE \/ Refuse(w) \/ LeaveLocked(w) \/ ListingEnds(w) \/ NotStored(w)
             \/ PublisherGone(w) \/ BoxRemoved(w)
    <2>1. /\ Close(serving[w], WorkerEnd(serving[w])) /\ UNCHANGED sent
          /\ serving[w] \in Publishers \cup Subscribers \cup Listers
      BY <1>7, Zenon DEF Refuse, LeaveLocked, ListingEnds, NotStored, PublisherGone, BoxRemoved,
                         WorkerEnds
    <2> QED BY <1>0, <1>3, <2>1
  <1>8. CASE AnswerManager(w)
    <2> DEFINE c == serving[w]
               q == IF session[c].rd THEN <<0>> ELSE session[c].data
    <2>1. /\ c \in Managers /\ UNCHANGED sent
          /\ session' = [session EXCEPT ![c].wr = FALSE, ![c].data = q]
      BY <1>0, <1>8 DEF AnswerManager
    <2> HIDE DEF q
    <2>2. session' = [session EXCEPT ![c] = [session[c] EXCEPT !.wr = FALSE, !.data = q]]
      BY <2>1, Zenon
    <2>3. \A d \in Clients \ {c} : session'[d] = session[d]
      BY <1>0, <2>2
    <2>4. ASSUME NEW d \in Subscribers
          PROVE  FlowAt(d)'
      BY <1>0, <1>1, <2>1, <2>3
    <2> QED BY <1>0, <2>4 DEF Flow
  <1>9. CASE SendPacket(w)
    <2>1. /\ packets[w] # << >>
          /\ UNCHANGED <<session, sent>> \/ Put(serving[w], Head(packets[w]))
      BY <1>9, Zenon DEF SendPacket
    <2>2. serving[w] \in Listers /\ packets[w] \in Seq(Packet)
      BY <1>0, <2>1 DEF WorkersOK
    <2>3. Head(packets[w]) \in Packet
      BY <2>1, <2>2
    <2>4. CASE Put(serving[w], Head(packets[w]))
      <3>1. serving[w] \in Clients \ Subscribers
        BY <1>0, <2>2
      <3>2. /\ OnlyPipe(serving[w])
            /\ sent' = [sent EXCEPT ![serving[w]] = sent[serving[w]] + 1]
        BY <1>0, <2>3, <2>4, <3>1, PipePut DEF PipesOK
      <3> QED BY <1>4, <3>1, <3>2
    <2> QED BY <1>0, <1>1, <2>1, <2>4 DEF Flow
  <1>10. CASE ReadMessage(w)
    <2> DEFINE c == serving[w]
    <2>1. c \in Publishers /\ UNCHANGED sent /\ session[c].data # << >> /\ Get(c)
      BY <1>10, Zenon DEF ReadMessage
    <2>2. c \in Clients \ Subscribers
      BY <1>0, <2>1
    <2>3. OnlyPipe(c)
      BY <1>0, <2>1, <2>2, PipeGet
    <2> QED BY <1>4, <2>1, <2>2, <2>3
  <1>11. CASE SendMessage(w)
    <2>1. PICK c \in Subscribers :
              \/ Put(c, sent[c] + 1) /\ session[c].rd
              \/ Close(c, WorkerEnd(c)) /\ UNCHANGED sent
      BY <1>11, Zenon DEF SendMessage, WorkerEnds
    <2>2. CASE Put(c, sent[c] + 1) /\ session[c].rd
      <3>1. FlowAt(c)'
        BY <1>0, <2>1, <2>2, FlowSent DEF Flow
      <3>2. sent \in [Clients -> Nat] /\ c \in Clients
        BY <1>0, <2>1 DEF PipesOK
      <3>3. OnlyPipe(c) /\ sent' = [sent EXCEPT ![c] = sent[c] + 1]
        <4>1. sent[c] + 1 \in Packet
          BY <3>2 DEF Packet
        <4> QED BY <1>0, <2>2, <3>2, <4>1, PipePut
      <3>4. ASSUME NEW d \in Subscribers, d # c
            PROVE  FlowAt(d)'
        BY <1>0, <1>1, <3>2, <3>3, <3>4 DEF OnlyPipe
      <3> QED BY <1>0, <3>1, <3>4 DEF Flow
    <2> QED BY <1>0, <1>3, <2>1, <2>2
  <1> QED BY <1>5, <1>6, <1>7, <1>8, <1>9, <1>10, <1>11 DEF WorkerActs

-----------------------------------------------------------------------------
(* The broker's death, and the inductive invariant                         *)

\* The threads of a killed broker stop and the kernel closes its ends of the pipes.
LEMMA BrokerKilledStep ==
    ASSUME TypeInv, LinesKept, Flow, BrokerKilled
    PROVE  ProgramsOK' /\ PipesOK' /\ WorkersOK' /\ LinesKept' /\ Flow'
  <1>1. /\ UNCHANGED <<role, writers, shutdown_signaler, line, eof, owed, sent, printed, mutex_left>>
        /\ Subscribers' = Subscribers /\ Publishers' = Publishers /\ Subscribers \subseteq Clients
    BY Zenon DEF BrokerKilled, input, Subscribers, Publishers, Runs
  <1>2. /\ client' \in [Clients -> ClientLabels]
        /\ \A c \in Clients : client'[c] = client[c] \/ client'[c] = "orphaned"
    BY DEF BrokerKilled, TypeInv, ProgramsOK, ClientLabels
  <1>3. /\ session' \in [Clients -> Pipe]
        /\ \A c \in Clients : /\ session'[c].data = session[c].data
                              /\ session'[c].rd => session[c].rd
    <2>1. session' = [c \in Clients |-> [session[c] EXCEPT ![WorkerEnd(c)] = FALSE]]
      BY Zenon DEF BrokerKilled
    <2>2. ASSUME NEW c \in Clients
          PROVE  /\ [session[c] EXCEPT ![WorkerEnd(c)] = FALSE] \in Pipe
                 /\ [session[c] EXCEPT ![WorkerEnd(c)] = FALSE].data = session[c].data
                 /\ [session[c] EXCEPT ![WorkerEnd(c)] = FALSE].rd => session[c].rd
      BY DEF TypeInv, PipesOK, Pipe, WorkerEnd
    <2> QED BY <2>1, <2>2
  <1>4. WorkersOK'
    BY <1>1 DEF BrokerKilled, TypeInv, WorkersOK, WorkerLabels
  <1>8. Publishers \subseteq Clients
    BY DEF Publishers, Runs
  <1>5. ProgramsOK' /\ LinesKept'
    BY <1>1, <1>2, <1>8 DEF TypeInv, ProgramsOK, LinesKept
  <1>6. PipesOK'
    BY <1>1, <1>3 DEF TypeInv, PipesOK
  <1>7. ASSUME NEW c \in Subscribers
        PROVE  FlowAt(c)'
    BY <1>1, <1>2, <1>3, FlowKept DEF Flow, FlowAt
  <1> QED BY <1>1, <1>4, <1>5, <1>6, <1>7 DEF Flow

SessionsInv == TypeInv /\ RequestsForwarded /\ LinesKept /\ Flow

\* Nothing has happened yet.
LEMMA SessionsInit ==
    ASSUME Init
    PROVE  SessionsInv
  <1>1. role \in [Clients -> {"pub", "sub", "manage", "list", "none"}]
    BY SessionsAssumption DEF Init
  <1>2. MainOK
    BY ListenerAssumption DEF Init, ListenerInit, MainOK, MainLabels
  <1>3. ProgramsOK
    BY <1>1 DEF Init, ListenerInit, ProgramsOK, ClientLabels
  <1>4. NewPipe \in Pipe /\ NewPipe.data = << >>
    BY DEF NewPipe, Pipe
  <1>5. PipesOK
    BY <1>4, SessionsAssumption DEF Init, PipesOK
  <1>6. WorkersOK
    <2>1. /\ \A w \in Workers : serving[w] = NULL /\ packets[w] = << >>
          /\ mutex_left \in BOOLEAN /\ worker \in [Workers -> WorkerLabels]
      BY DEF Init, WorkerLabels
    <2>2. serving \in [Workers -> Clients \cup {NULL}] /\ packets \in [Workers -> Seq(Packet)]
      BY DEF Init
    <2> QED BY <2>1, <2>2 DEF WorkersOK
  <1>7. RequestsForwarded
    BY DEF Init, ListenerInit, RequestsForwarded
  <1>8. LinesKept
    <2>1. Max({-1, 0}) = 0
      <3>1. Max({-1, 0}) = IF -1 <= 0 THEN 0 ELSE -1
        BY MinMaxOfTwo
      <3> QED BY <3>1
    <2> QED BY <2>1 DEF Init, ListenerInit, LinesKept, Publishers, Runs
  <1>9. Flow
    BY <1>4 DEF Init, ListenerInit, Flow, FlowAt, Subscribers, Runs
  <1> QED BY <1>2, <1>3, <1>5, <1>6, <1>7, <1>8, <1>9 DEF SessionsInv, TypeInv

\* Every step of the main thread, a client, a worker and the users preserves the invariant.
LEMMA SessionsStep ==
    ASSUME SessionsInv, [Next]_vars
    PROVE  SessionsInv'
  <1> USE DEF SessionsInv, TypeInv
  <1>1. CASE UNCHANGED vars
    <2>1. MainOK' /\ ProgramsOK' /\ PipesOK' /\ WorkersOK'
      BY <1>1 DEF vars, listenerVars, mainVars, input, listing, MainOK, ProgramsOK, PipesOK,
                  WorkersOK, Publishers, Subscribers, Listers, Runs
    <2>2. RequestsForwarded' /\ LinesKept' /\ Flow'
      BY <1>1 DEF vars, listenerVars, mainVars, input, listing, RequestsForwarded, LinesKept,
                  Flow, FlowAt, Publishers, Subscribers, Runs
    <2> QED BY <2>1, <2>2
  <1>2. CASE Next
    <2>1. MainOK' /\ RequestsForwarded'
      BY <1>2, ForwardStep
    <2>2. CASE MainStep
      <3>1. UNCHANGED <<role, client, writers, printed, shutdown_signaler, line, eof, owed, worker,
                        serving, packets, mutex_left, session, sent>>
        BY <2>2, MainFrame
      <3>2. ProgramsOK' /\ PipesOK' /\ WorkersOK'
        BY <3>1 DEF ProgramsOK, PipesOK, WorkersOK, Publishers, Subscribers, Listers, Runs
      <3>3. LinesKept'
        BY <3>1 DEF LinesKept, Publishers, Runs
      <3>4. Flow'
        BY <3>1 DEF Flow, FlowAt, Subscribers, Runs
      <3> QED BY <2>1, <3>2, <3>3, <3>4
    <2>3. CASE BrokerKilled
      BY <2>1, <2>3, BrokerKilledStep
    <2>4. ASSUME NEW c \in Clients, ClientActs(c)
          PROVE  SessionsInv'
      <3>1. ProgramsOK' /\ LinesKept' /\ PipesOK'
        BY <2>4, ClientLines, ClientPipes
      <3>2. UNCHANGED <<role, worker, serving, packets, mutex_left>>
        BY <2>4, ClientFrame
      <3>3. WorkersOK'
        BY <3>2 DEF WorkersOK, Listers, Runs
      <3>4. ASSUME NEW d \in Subscribers
            PROVE  FlowAt(d)'
        <4>1. CASE d = c
          BY <2>4, <4>1, FlowClient DEF Flow
        <4>2. CASE d # c
          <5>1. /\ d \in Clients \ {c} /\ client' \in [Clients -> ClientLabels]
                /\ client'[d] = client[d] /\ shutdown_signaler'[d] = shutdown_signaler[d]
            BY <2>4, <4>2, ClientMoves DEF ProgramsOK, Subscribers, Runs
          <5>2. session'[d] = session[d] /\ sent'[d] = sent[d] /\ printed'[d] = printed[d]
            BY <2>4, <5>1, ClientPipes
          <5> QED BY <5>1, <5>2, FlowKept DEF Flow, FlowAt
        <4> QED BY <4>1, <4>2
      <3>5. Flow'
        BY <3>2, <3>4 DEF Flow, Subscribers, Runs
      <3> QED BY <2>1, <3>1, <3>3, <3>5
    <2>5. ASSUME NEW w \in Workers, WorkerActs(w)
          PROVE  SessionsInv'
      <3>1. PipesOK' /\ WorkersOK' /\ Flow'
        BY <2>5, WorkerPipes, WorkersStep, FlowWorker
      <3>2. UNCHANGED <<role, client, writers, shutdown_signaler, line, eof, owed>>
        BY <2>5, WorkerFrame
      <3>3. ProgramsOK' /\ LinesKept'
        BY <3>2 DEF ProgramsOK, LinesKept, Publishers, Subscribers, Runs
      <3> QED BY <2>1, <3>1, <3>3
    <2> QED BY <1>2, <2>2, <2>3, <2>4, <2>5, Steps
  <1> QED BY <1>1, <1>2

\* The invariant that the theorems below are about: the types, the requests in
\* their places, the publishers' lines and the subscribers' messages.
THEOREM SessionsInvariant == Spec => []SessionsInv
  <1>1. Init => SessionsInv
    BY SessionsInit
  <1>2. SessionsInv /\ [Next]_vars => SessionsInv'
    BY SessionsStep
  <1> QED BY <1>1, <1>2, PTL DEF Spec

\* The state has its type, and the register pipe, the queue of requests and every
\* session pipe keep their limits.
THEOREM TypeCorrect == Spec => []TypeOK
  <1>1. SessionsInv => TypeOK
    BY DEF SessionsInv, TypeInv, MainOK, ProgramsOK, PipesOK, WorkersOK, TypeOK, MainLabels,
           ClientLabels, WorkerLabels
  <1> QED BY <1>1, SessionsInvariant, PTL

\* mbroker's main thread hands every request to the workers once and in the order in
\* which client_request_connection wrote it, wherever it blocks.
THEOREM RequestsInOrder == Spec => []RequestsForwarded
  <1>1. SessionsInv => RequestsForwarded
    BY DEF SessionsInv
  <1> QED BY <1>1, SessionsInvariant, PTL

\* publisher_write_messages cuts a line into as many messages as it takes and loses no
\* character at the cuts; it ends at the end of its input with less than a message unsent,
\* the end of a line that had no newline.
THEOREM LinesCutWithoutLoss == Spec => []LinesKept
  <1>1. SessionsInv => LinesKept
    BY DEF SessionsInv
  <1> QED BY <1>1, SessionsInvariant, PTL

\* subscriber_read_messages prints the messages in order, and all of them unless it
\* is interrupted: it ends only when the pipe is empty and the worker has closed it.
THEOREM EverythingPrinted == Spec => []AllPrinted
  <1>1. SessionsInv => AllPrinted
    <2>1. ASSUME SessionsInv, NEW c \in Subscribers
          PROVE  /\ \A k \in 1 .. Len(printed[c]) : printed[c][k] = k
                 /\ client[c] = "done" /\ ~shutdown_signaler[c] => Len(printed[c]) = sent[c]
      <3>1. FlowAt(c) /\ printed[c] \in Seq(Packet)
        BY <2>1 DEF SessionsInv, TypeInv, PipesOK, Flow, Subscribers, Runs
      <3>2. Len(printed[c]) \in Nat /\ Len(<< >>) = 0
        BY <3>1
      <3>3. client[c] = "done" /\ ~shutdown_signaler[c] => sent[c] = Len(printed[c]) + 0
        BY <3>1, <3>2 DEF FlowAt
      <3>4. client[c] = "done" /\ ~shutdown_signaler[c] => Len(printed[c]) = sent[c]
        BY <3>2, <3>3
      <3>5. \A k \in 1 .. Len(printed[c]) : printed[c][k] = k
        BY <3>1 DEF FlowAt
      <3> QED BY <3>4, <3>5
    <2> QED BY <2>1 DEF AllPrinted
  <1> QED BY <1>1, SessionsInvariant, PTL

-----------------------------------------------------------------------------
(* sorted_insert                                                           *)

\* A set of numbers that has a bound has a greatest one.
LEMMA GreatestIn ==
    ASSUME NEW n \in Nat, NEW S \in SUBSET (0 .. n), S # {}
    PROVE  Max(S) \in S /\ \A y \in S : y <= Max(S)
  <1> DEFINE From == {k .. n : k \in S}
  <1>1. From \subseteq FiniteSubsetsOf(Nat)
    <2>1. \A k \in 0 .. n : k .. n \in SUBSET Nat
      OBVIOUS
    <2>2. \A k \in 0 .. n : IsFiniteSet(k .. n)
      BY FS_Interval
    <2> QED BY <2>1, <2>2 DEF FiniteSubsetsOf
  <1>2. From # {}
    OBVIOUS
  <1>3. PICK M \in From : \A U \in From : ~(<<U, M>> \in StrictSubsetOrdering(Nat))
    <2> HIDE DEF From
    <2> QED BY <1>1, <1>2, FS_StrictSubsetOrderingWellFounded, WFMin
  <1>4. PICK m \in S : M = m .. n
    BY <1>3
  <1>5. ASSUME NEW y \in S, y > m
        PROVE  FALSE
    <2>1. y .. n \in From /\ y .. n \subseteq m .. n /\ m \in m .. n /\ m \notin y .. n
      BY <1>5
    <2>2. <<y .. n, M>> \in (SUBSET Nat) \X (SUBSET Nat)
      BY <1>4, <1>5
    <2>3. <<y .. n, M>> \in StrictSubsetOrdering(Nat)
      BY <2>1, <2>2, <1>4 DEF StrictSubsetOrdering
    <2> QED BY <2>1, <2>3, <1>3
  <1>6. \A y \in S : m >= y
    BY <1>5
  <1>7. Max(S) \in S /\ \A y \in S : Max(S) >= y
    BY <1>6 DEF Max
  <1> QED BY <1>7

Sorted(s) == \A k \in 2 .. Len(s) : s[k - 1] <= s[k]

\* t is s with b behind the first r elements.
Puts(t, s, r, b) ==
    /\ t \in Seq(Nat) /\ Len(t) = Len(s) + 1
    /\ \A i \in 1 .. r : t[i] = s[i]
    /\ t[r + 1] = b
    /\ \A i \in r + 1 .. Len(s) : t[i + 1] = s[i]

\* What InsertAt puts where.
LEMMA Inserted ==
    ASSUME NEW s \in Seq(Nat), NEW b \in Nat, NEW r \in 0 .. Len(s)
    PROVE  Puts(InsertAt(s, r + 1, b), s, r, b)
  <1>0. PICK n \in Nat : n = Len(s)
    OBVIOUS
  <1>1. PICK u : u = SubSeq(s, 1, r)
    OBVIOUS
  <1>2. PICK v : v = SubSeq(s, r + 1, n)
    OBVIOUS
  <1>3. u \in Seq(Nat) /\ Len(u) = r /\ \A i \in 1 .. r : u[i] = s[i]
    <2>1. \A i \in 1 .. r : s[i] \in Nat
      OBVIOUS
    <2> QED BY <1>1, <2>1, SubSeqProperties
  <1>4. v \in Seq(Nat) /\ Len(v) = n - r /\ \A i \in 1 .. n - r : v[i] = s[r + i]
    <2>1. PICK m \in Int : m = r + 1
      OBVIOUS
    <2>2. \A i \in m .. n : s[i] \in Nat
      BY <1>0, <2>1
    <2>3. n \in Int /\ v = SubSeq(s, m, n)
      BY <1>2, <2>1
    <2>4. /\ v \in Seq(Nat) /\ Len(v) = IF m <= n THEN n - m + 1 ELSE 0
          /\ \A i \in 1 .. n - m + 1 : v[i] = s[m + i - 1]
      <3>1. /\ SubSeq(s, m, n) \in Seq(Nat) /\ Len(SubSeq(s, m, n)) = IF m <= n THEN n - m + 1 ELSE 0
            /\ \A i \in 1 .. n - m + 1 : SubSeq(s, m, n)[i] = s[m + i - 1]
        BY <2>2, <2>3, SubSeqProperties, SMTT(30)
      <3> QED BY <2>3, <3>1, Zenon
    <2>5. (IF m <= n THEN n - m + 1 ELSE 0) = n - r /\ n - m + 1 = n - r
      BY <1>0, <2>1
    <2>6. \A i \in 1 .. n - r : m + i - 1 = r + i
      BY <1>0, <2>1
    <2> QED BY <2>4, <2>5, <2>6
  <1>5. PICK x : x = u \o <<b>>
    OBVIOUS
  <1>6. x \in Seq(Nat) /\ Len(x) = r + 1 /\ (\A i \in 1 .. r : x[i] = s[i]) /\ x[r + 1] = b
    BY <1>3, <1>5
  <1>7. PICK t : t = x \o v
    OBVIOUS
  <1>8. InsertAt(s, r + 1, b) = t
    <2>1. (r + 1) - 1 = r
      OBVIOUS
    <2> QED BY <1>0, <1>1, <1>2, <1>5, <1>7, <2>1, Zenon DEF InsertAt
  <1>9. /\ t \in Seq(Nat) /\ Len(t) = n + 1
        /\ \A i \in 1 .. r + 1 : t[i] = x[i]
        /\ \A i \in 1 .. n - r : t[(r + 1) + i] = v[i]
    <2>1. /\ t \in Seq(Nat) /\ Len(t) = (r + 1) + (n - r)
          /\ \A i \in 1 .. (r + 1) + (n - r) : t[i] = IF i <= r + 1 THEN x[i] ELSE v[i - (r + 1)]
      <3>1. /\ t \in Seq(Nat) /\ Len(t) = Len(x) + Len(v)
            /\ \A i \in 1 .. Len(x) + Len(v) : t[i] = IF i <= Len(x) THEN x[i] ELSE v[i - Len(x)]
        BY <1>4, <1>6, <1>7, ConcatProperties, Zenon
      <3> QED BY <1>4, <1>6, <3>1, Zenon
    <2>2. ASSUME NEW i \in 1 .. r + 1
          PROVE  t[i] = x[i]
      <3>1. i \in 1 .. (r + 1) + (n - r) /\ i <= r + 1
        BY <1>0
      <3> QED BY <2>1, <3>1
    <2>3. ASSUME NEW i \in 1 .. n - r
          PROVE  t[(r + 1) + i] = v[i]
      <3>1. PICK j \in 1 .. (r + 1) + (n - r) : j = (r + 1) + i
        BY <1>0
      <3>2. ~(j <= r + 1) /\ j - (r + 1) = i
        BY <1>0, <3>1
      <3> QED BY <2>1, <3>1, <3>2
    <2>4. (r + 1) + (n - r) = n + 1
      BY <1>0
    <2> QED BY <2>1, <2>2, <2>3, <2>4
  <1>10. ASSUME NEW i \in r + 1 .. n
         PROVE  t[i + 1] = s[i]
    <2>1. PICK j \in 1 .. n - r : i = r + j
      <3>1. i - r \in 1 .. n - r /\ i = r + (i - r)
        BY <1>0
      <3> QED BY <3>1
    <2>2. i + 1 = (r + 1) + j
      BY <2>1
    <2> QED BY <1>4, <1>9, <2>1, <2>2
  <1> QED BY <1>0, <1>6, <1>8, <1>9, <1>10 DEF Puts

\* sorted_insert keeps a table sorted: what is left of the new box is not greater and
\* what is right of it is.
LEMMA InsertedInOrder ==
    ASSUME NEW s \in Seq(Nat), Sorted(s), NEW b \in Nat, NEW t, t = sorted_insert(s, b)
    PROVE  Sorted(t) /\ \E r \in 0 .. Len(s) : Puts(t, s, r, b)
  <1> DEFINE NotGreater == {k \in 1 .. Len(s) : s[k] <= b} \cup {0}
  <1>1. NotGreater \in SUBSET (0 .. Len(s)) /\ NotGreater # {} /\ Len(s) \in Nat
    OBVIOUS
  <1>2. PICK r : r = Max(NotGreater)
    OBVIOUS
  <1>3. r \in NotGreater /\ \A y \in NotGreater : y <= r
    <2> HIDE DEF NotGreater
    <2> QED BY <1>1, <1>2, GreatestIn
  <1>4. r \in 0 .. Len(s) /\ t = InsertAt(s, r + 1, b)
    BY <1>1, <1>2, <1>3 DEF sorted_insert
  <1>5. Puts(t, s, r, b)
    BY <1>4, Inserted
  <1>6. /\ r > 0 => s[r] <= b
        /\ \A k \in 1 .. Len(s) : k > r => b < s[k]
    <2>1. \A k \in 1 .. Len(s) : s[k] \in Nat /\ (s[k] <= b => k <= r)
      BY <1>3
    <2>2. r > 0 => s[r] <= b
      BY <1>3
    <2> QED BY <1>4, <2>1, <2>2
  <1> HIDE DEF NotGreater
  <1>7. PICK n \in Nat : n = Len(s)
    BY <1>1
  <1>8. /\ r \in 0 .. n /\ t[r + 1] = b /\ Len(t) = n + 1
        /\ \A k \in 1 .. n : s[k] \in Nat
        /\ \A k \in 2 .. n : s[k - 1] <= s[k]
        /\ \A i \in 1 .. r : t[i] = s[i]
        /\ \A i \in r + 1 .. n : t[i + 1] = s[i] /\ b < s[i]
    <2>1. /\ r \in 0 .. n /\ t[r + 1] = b /\ Len(t) = n + 1
          /\ \A i \in 1 .. r : t[i] = s[i]
          /\ \A i \in r + 1 .. n : t[i + 1] = s[i]
      BY <1>4, <1>5, <1>7 DEF Puts
    <2>2. \A k \in 2 .. n : s[k - 1] <= s[k]
      BY <1>7 DEF Sorted
    <2>3. \A i \in r + 1 .. n : b < s[i]
      BY <1>6, <1>7, <2>1
    <2>4. \A k \in 1 .. n : s[k] \in Nat
      BY <1>7
    <2> QED BY <2>1, <2>2, <2>3, <2>4
  <1>9. ASSUME NEW k \in 2 .. n + 1
        PROVE  t[k - 1] <= t[k]
    <2>1. PICK j \in 1 .. n : j = k - 1 /\ k = j + 1
      OBVIOUS
    <2>2. CASE k <= r
      <3>1. t[k] = s[k] /\ t[j] = s[j] /\ k \in 2 .. n
        BY <1>8, <2>1, <2>2
      <3> QED BY <1>8, <2>1, <3>1
    <2>3. CASE k = r + 1
      <3>1. t[k] = b /\ j = r /\ t[j] = s[j] /\ s[j] <= b
        BY <1>6, <1>8, <2>1, <2>3
      <3> QED BY <2>1, <3>1
    <2>4. CASE k = r + 2
      <3>1. j = r + 1 /\ j \in r + 1 .. n
        BY <1>8, <2>1, <2>4
      <3>2. t[k] = s[j] /\ t[j] = b /\ b < s[j] /\ s[j] \in Nat
        BY <1>8, <2>1, <3>1
      <3> QED BY <2>1, <3>2
    <2>5. CASE k > r + 2
      <3>1. PICK i \in r + 1 .. n : i = j - 1 /\ j = i + 1 /\ j \in r + 1 .. n
        BY <1>8, <2>1, <2>5
      <3>2. t[k] = s[j] /\ t[j] = s[i] /\ j \in 2 .. n
        BY <1>8, <2>1, <3>1
      <3>3. s[j - 1] <= s[j]
        BY <1>8, <3>2
      <3> QED BY <2>1, <3>1, <3>2, <3>3
    <2> QED BY <1>8, <2>2, <2>3, <2>4, <2>5
  <1>10. Sorted(t)
    BY <1>8, <1>9 DEF Sorted
  <1> QED BY <1>4, <1>5, <1>10

-----------------------------------------------------------------------------
(* The same boxes in another order                                         *)

\* s has the first elements of table, in some order.
Permutes(s, table) ==
    \E p \in Bijection(1 .. Len(s), 1 .. Len(s)) : \A i \in 1 .. Len(s) : s[i] = table[p[i]]

\* An element more, wherever it is put.
LEMMA PermutesMore ==
    ASSUME NEW s \in Seq(Nat), NEW table, Permutes(s, table), NEW r \in 0 .. Len(s), NEW t,
           Puts(t, s, r, table[Len(s) + 1])
    PROVE  Permutes(t, table)
  <1>1. PICK n \in Nat : n = Len(s)
    OBVIOUS
  <1>0. /\ \A i \in 1 .. r : i \in 1 .. n /\ i \in 1 .. n + 1
        /\ \A i \in r + 1 .. n : i \in 1 .. n /\ i \notin 1 .. r
    BY <1>1
  <1>2. PICK p \in Bijection(1 .. n, 1 .. n) : \A i \in 1 .. n : s[i] = table[p[i]]
    BY <1>1 DEF Permutes
  <1>3. /\ p \in [1 .. n -> 1 .. n]
        /\ \A i, j \in 1 .. n : p[i] = p[j] => i = j
        /\ \A m \in 1 .. n : \E i \in 1 .. n : p[i] = m
    BY <1>2 DEF Bijection, Injection, Surjection, IsInjective
  <1> DEFINE At(i) == IF i <= r THEN p[i] ELSE IF i = r + 1 THEN n + 1 ELSE p[i - 1]
  <1>4. PICK q : q = [i \in 1 .. n + 1 |-> At(i)]
    OBVIOUS
  <1>5. /\ \A i \in 1 .. r : q[i] = p[i]
        /\ q[r + 1] = n + 1
        /\ \A i \in r + 1 .. n : q[i + 1] = p[i]
    <2>1. \A i \in 1 .. n + 1 : q[i] = At(i)
      BY <1>4
    <2>2. \A i \in 1 .. r : At(i) = p[i]
      OBVIOUS
    <2>3. At(r + 1) = n + 1
      OBVIOUS
    <2>4. ASSUME NEW i \in r + 1 .. n
          PROVE  At(i + 1) = p[i]
      <3>1. ~(i + 1 <= r) /\ i + 1 # r + 1 /\ (i + 1) - 1 = i
        BY <1>1
      <3> QED BY <3>1
    <2>5. /\ r + 1 \in 1 .. n + 1 /\ \A i \in 1 .. r : i \in 1 .. n + 1
          /\ \A i \in r + 1 .. n : i + 1 \in 1 .. n + 1
      BY <1>1
    <2> HIDE DEF At
    <2> QED BY <2>1, <2>2, <2>3, <2>4, <2>5
  <1> HIDE DEF At
  <1>6. ASSUME NEW k \in 1 .. n + 1
        PROVE  \/ k \in 1 .. r
               \/ k = r + 1
               \/ \E i \in r + 1 .. n : k = i + 1
    <2>1. CASE k > r + 1
      <3>1. k - 1 \in r + 1 .. n /\ k = (k - 1) + 1
        BY <1>1, <2>1
      <3> QED BY <3>1
    <2> QED BY <1>1, <2>1
  <1>7. q \in [1 .. n + 1 -> 1 .. n + 1]
    <2>1. ASSUME NEW k \in 1 .. n + 1
          PROVE  q[k] \in 1 .. n + 1
      <3>1. \A i \in 1 .. n : p[i] \in 1 .. n + 1
        BY <1>3
      <3>2. CASE k \in 1 .. r
        BY <1>0, <1>5, <3>1, <3>2
      <3>3. CASE k = r + 1
        BY <1>5, <3>3
      <3>4. CASE \E i \in r + 1 .. n : k = i + 1
        BY <1>0, <1>5, <3>1, <3>4
      <3> QED BY <1>6, <3>2, <3>3, <3>4
    <2> QED BY <1>4, <2>1
  <1>8. ASSUME NEW k \in 1 .. n + 1, NEW m \in 1 .. n + 1, q[k] = q[m]
        PROVE  k = m
    <2>1. \A i \in 1 .. n : p[i] # n + 1
      BY <1>3
    <2>2. CASE k = r + 1 \/ m = r + 1
      <3>1. ASSUME NEW j \in 1 .. n + 1, q[j] = n + 1
            PROVE  j = r + 1
        <4>1. j \notin 1 .. r
          BY <1>0, <1>5, <2>1, <3>1
        <4>2. ~ \E i \in r + 1 .. n : j = i + 1
          BY <1>0, <1>5, <2>1, <3>1
        <4> QED BY <1>6, <4>1, <4>2
      <3> QED BY <1>5, <1>8, <2>2, <3>1
    <2>3. ASSUME NEW j \in 1 .. n + 1, j # r + 1
          PROVE  \E i \in 1 .. n : q[j] = p[i] /\ j = (IF i \in 1 .. r THEN i ELSE i + 1)
      <3>1. CASE j \in 1 .. r
        <4>1. j \in 1 .. n /\ q[j] = p[j]
          BY <1>0, <1>5, <3>1, Zenon
        <4> QED BY <3>1, <4>1
      <3>2. CASE \E i \in r + 1 .. n : j = i + 1
        BY <1>0, <1>5, <3>2
      <3> QED BY <1>6, <2>3, <3>1, <3>2
    <2>4. CASE k # r + 1 /\ m # r + 1
      <3>1. PICK i \in 1 .. n : q[k] = p[i] /\ k = (IF i \in 1 .. r THEN i ELSE i + 1)
        BY <2>3, <2>4
      <3>2. PICK j \in 1 .. n : q[m] = p[j] /\ m = (IF j \in 1 .. r THEN j ELSE j + 1)
        BY <2>3, <2>4
      <3>3. i = j
        BY <1>3, <1>8, <3>1, <3>2
      <3> QED BY <3>1, <3>2, <3>3
    <2> QED BY <2>2, <2>4
  <1>9. ASSUME NEW m \in 1 .. n + 1
        PROVE  \E k \in 1 .. n + 1 : q[k] = m
    <2>1. CASE m = n + 1
      BY <1>1, <1>5, <2>1
    <2>2. CASE m # n + 1
      <3>1. PICK i \in 1 .. n : p[i] = m
        BY <1>3, <2>2
      <3>2. CASE i <= r
        <4>1. i \in 1 .. r /\ i \in 1 .. n + 1
          BY <1>1, <3>2
        <4> QED BY <1>5, <3>1, <4>1
      <3>3. CASE i > r
        <4>1. i \in r + 1 .. n /\ i + 1 \in 1 .. n + 1
          BY <1>1, <3>3
        <4> QED BY <1>5, <3>1, <4>1
      <3> QED BY <1>1, <3>2, <3>3
    <2> QED BY <2>1, <2>2
  <1>10. q \in Bijection(1 .. n + 1, 1 .. n + 1)
    BY <1>7, <1>8, <1>9 DEF Bijection, Injection, Surjection, IsInjective
  <1>11. /\ Len(t) = n + 1 /\ t[r + 1] = table[n + 1]
         /\ \A i \in 1 .. r : t[i] = s[i]
         /\ \A i \in r + 1 .. n : t[i + 1] = s[i]
    BY <1>1 DEF Puts
  <1>12. ASSUME NEW k \in 1 .. n + 1
         PROVE  t[k] = table[q[k]]
    <2>1. CASE k \in 1 .. r
      <3>1. k \in 1 .. n /\ q[k] = p[k] /\ t[k] = s[k]
        BY <1>0, <1>5, <1>11, <2>1, Zenon
      <3> QED BY <1>2, <3>1
    <2>2. CASE k = r + 1
      BY <1>5, <1>11, <2>2
    <2>3. CASE \E i \in r + 1 .. n : k = i + 1
      <3>1. PICK i \in r + 1 .. n : k = i + 1
        BY <2>3
      <3>2. i \in 1 .. n /\ q[k] = p[i] /\ t[k] = s[i]
        BY <1>0, <1>5, <1>11, <3>1
      <3> QED BY <1>2, <3>2
    <2> QED BY <1>6, <2>1, <2>2, <2>3
  <1> QED BY <1>10, <1>11, <1>12 DEF Permutes

\* A sequence with the elements of another in some order has each as often.
LEMMA PermutesCounts ==
    ASSUME NEW s \in Seq(Nat), NEW u \in Seq(Nat), Len(s) = Len(u), Permutes(s, u), NEW b
    PROVE  Cardinality({k \in DOMAIN s : s[k] = b}) = Cardinality({k \in DOMAIN u : u[k] = b})
  <1>1. PICK n \in Nat : n = Len(s) /\ DOMAIN s = 1 .. n /\ DOMAIN u = 1 .. n
    OBVIOUS
  <1>2. PICK p \in Bijection(1 .. n, 1 .. n) : \A i \in 1 .. n : s[i] = u[p[i]]
    BY <1>1 DEF Permutes
  <1>3. /\ p \in [1 .. n -> 1 .. n]
        /\ \A i, j \in 1 .. n : p[i] = p[j] => i = j
        /\ \A m \in 1 .. n : \E i \in 1 .. n : p[i] = m
    BY <1>2 DEF Bijection, Injection, Surjection, IsInjective
  <1>4. PICK A : A = {k \in DOMAIN s : s[k] = b}
    OBVIOUS
  <1>5. PICK B : B = {k \in DOMAIN u : u[k] = b}
    OBVIOUS
  <1>6. A \subseteq 1 .. n /\ \A i \in 1 .. n : i \in A <=> p[i] \in B
    BY <1>1, <1>2, <1>3, <1>4, <1>5
  <1>7. B \subseteq 1 .. n
    BY <1>1, <1>5
  <1>8. PICK f : f = [i \in A |-> p[i]]
    OBVIOUS
  <1>9. f \in Bijection(A, B)
    <2>1. f \in [A -> B]
      BY <1>6, <1>8
    <2>2. \A i, j \in A : f[i] = f[j] => i = j
      BY <1>3, <1>6, <1>8
    <2>3. \A m \in B : \E i \in A : f[i] = m
      BY <1>3, <1>6, <1>7, <1>8
    <2> QED BY <2>1, <2>2, <2>3 DEF Bijection, Injection, Surjection, IsInjective
  <1>10. IsFiniteSet(A)
    <2>1. IsFiniteSet(1 .. n)
      BY FS_Interval
    <2> QED BY <1>6, <2>1, FS_Subset
  <1>11. ExistsBijection(A, B)
    BY <1>9 DEF ExistsBijection
  <1> QED BY <1>4, <1>5, <1>10, <1>11, FS_Bijection

-----------------------------------------------------------------------------
(* A request is in one place                                               *)

\* A client that has not written its request.
Unregistered == {"start", "reg_open", "reg_write"}
Pending(c) == \E i \in 1 .. Len(pending) : pending[i] = c

\* A client has at most one request, and that is in one place: it is not written yet, or
\* in one place of the row of requests, or with one worker.
RequestOnce ==
    /\ \A i, j \in 1 .. Len(pending) : pending[i] = pending[j] => i = j
    /\ \A c \in Clients : Pending(c) => client[c] \notin Unregistered
    /\ \A w \in Workers, c \in Clients : serving[w] = c =>
           /\ client[c] \notin Unregistered
           /\ ~Pending(c)
           /\ \A x \in Workers \ {w} : serving[x] # c

\* A client registers once.
LEMMA RegistersOnce ==
    ASSUME ProgramsOK, NEW c \in Clients, ClientActs(c)
    PROVE  /\ client'[c] \in Unregistered => client[c] \in Unregistered
           /\ \/ UNCHANGED pending
              \/ /\ pending' = Append(pending, c)
                 /\ client[c] \in Unregistered /\ client'[c] \notin Unregistered
           /\ \A d \in Clients \ {c} : client'[d] = client[d]
  <1>0. client \in [Clients -> ClientLabels]
    BY DEF ProgramsOK
  <1>1. \A d \in Clients \ {c} : client'[d] = client[d]
    BY <1>0, ClientMoves
  <1>2. ASSUME NEW from, NEW to, client[c] = from, client' = [client EXCEPT ![c] = to]
        PROVE  client'[c] = to
    BY <1>0, <1>2
  <1>3. CASE Register(c)
    <2>1. CASE OpenRegister(c)
      <3>1. UNCHANGED pending /\ client[c] = "reg_open"
        BY <2>1, Zenon DEF OpenRegister, Goto
      <3> QED BY <1>1, <3>1 DEF Unregistered
    <2>2. CASE WriteRequest(c)
      <3>1. /\ client[c] = "reg_write"
            /\ client' = [client EXCEPT ![c] = "reg_close"] \/ client' = [client EXCEPT ![c] = "failed"]
            /\ pending' = Append(pending, c) \/ UNCHANGED pending
        BY <2>2, Zenon DEF WriteRequest, Goto
      <3>2. client'[c] \in {"reg_close", "failed"}
        BY <1>0, <3>1
      <3> QED BY <1>1, <3>1, <3>2 DEF Unregistered
    <2>3. CASE CloseRegister(c)
      <3>1. client' = [client EXCEPT ![c] = "registered"] /\ UNCHANGED pending
        BY <2>3, Zenon DEF CloseRegister, Goto
      <3>2. client'[c] = "registered"
        BY <1>0, <3>1
      <3> QED BY <1>1, <3>1, <3>2 DEF Unregistered
    <2> QED BY <1>3, <2>1, <2>2, <2>3 DEF Register, client_request_connection
  <1>4. CASE ~Register(c)
    <2>1. UNCHANGED pending
      BY <1>4, ClientFrame
    <2>2. CASE mkfifo(c)
      <3>1. client[c] = "start"
        BY <2>2 DEF mkfifo, Goto
      <3> QED BY <1>1, <2>1, <3>1 DEF Unregistered
    <2>3. CASE \/ OpenSession(c) \/ SessionOpened(c) \/ PubWrite(c) \/ PubLine(c) \/ PubEOF(c)
               \/ PubExit(c)
      <3>1. PICK l \in {"ses_open", "session", "failed", "done"} : client' = [client EXCEPT ![c] = l]
        BY <2>3, Zenon DEF OpenSession, SessionOpened, PubWrite, PubLine, PubEOF, PubExit, Exit, Goto
      <3>2. client'[c] = l
        BY <1>0, <3>1
      <3> QED BY <1>1, <2>1, <3>1, <3>2 DEF Unregistered
    <2>4. CASE \/ SubTest(c) \/ SubBlock(c) \/ SubRead(c) \/ MgrEOF(c) \/ MgrAnswer(c)
               \/ MgrList(c) \/ Killed(c)
      <3>1. PICK l \in {"reading", "waiting", "session", "failed", "done", "killed"} :
                client' = [client EXCEPT ![c] = l]
        BY <2>4, Zenon DEF SubTest, SubBlock, SubRead, SubPrint, MgrEOF, MgrAnswer, MgrList, Killed, Exit, Goto
      <3>2. client'[c] = l
        BY <1>0, <3>1
      <3> QED BY <1>1, <2>1, <3>1, <3>2 DEF Unregistered
    <2>5. CASE subscriber_shutdown(c)
      <3>1. \/ UNCHANGED client
            \/ client' = [client EXCEPT ![c] = IF client[c] = "waiting" THEN "done" ELSE "failed"]
        BY <2>5, Zenon DEF subscriber_shutdown
      <3>2. client'[c] = client[c] \/ client'[c] \in {"done", "failed"}
        BY <1>0, <3>1
      <3> QED BY <1>1, <2>1, <3>2 DEF Unregistered
    <2> QED BY <1>4, <2>2, <2>3, <2>4, <2>5 DEF ClientActs, ClientStep
  <1> QED BY <1>3, <1>4

\* A worker takes the first request of the row, and gives up the one it has.
LEMMA WorkerTakes ==
    ASSUME TypeInv, RequestsForwarded, NEW w \in Workers, WorkerActs(w)
    PROVE  \/ UNCHANGED <<pending, serving>>
           \/ UNCHANGED pending /\ serving' = [serving EXCEPT ![w] = NULL]
           \/ \E c \in Clients :
                  /\ pending # << >> /\ c = Head(pending) /\ pending' = Tail(pending)
                  /\ worker[w] = "idle" /\ serving[w] = NULL
                  /\ UNCHANGED serving \/ serving' = [serving EXCEPT ![w] = c]
  <1>1. CASE workers_reception(w)
    <2>1. PICK c \in Clients :
              /\ requests_queue # << >> /\ c = Head(requests_queue) /\ pending' = Tail(pending)
              /\ worker[w] = "idle"
              /\ \/ serving' = [serving EXCEPT ![w] = NULL]
                 \/ serving' = [serving EXCEPT ![w] = c]
      BY <1>1, Zenon DEF workers_reception, OpenPipe, Return, Dequeue, WorkerGoto
    <2>2. pending # << >> /\ Head(pending) = Head(requests_queue)
      <3>1. PICK r : r = (IF request = NULL THEN << >> ELSE <<request>>) \o register_pipe
        OBVIOUS
      <3>2. r \in Seq(Clients) /\ requests_queue \in Seq(Clients)
        BY <3>1 DEF TypeInv, MainOK
      <3>3. pending = requests_queue \o r
        <4>1. PICK h : h = IF request = NULL THEN << >> ELSE <<request>>
          OBVIOUS
        <4>2. h \in Seq(Clients) /\ register_pipe \in Seq(Clients)
          BY <4>1 DEF TypeInv, MainOK
        <4>3. pending = (requests_queue \o h) \o register_pipe
          BY <4>1 DEF RequestsForwarded
        <4>4. requests_queue \o (h \o register_pipe) = (requests_queue \o h) \o register_pipe
          BY <3>2, <4>2, RowConcat, Zenon
        <4> QED BY <3>1, <4>1, <4>3, <4>4, Zenon
      <3> QED BY <2>1, <3>2, <3>3
    <2>3. serving[w] = NULL /\ serving = [serving EXCEPT ![w] = NULL]
      BY <2>1 DEF TypeInv, WorkersOK
    <2> QED BY <2>1, <2>2, <2>3
  <1>2. CASE ~workers_reception(w)
    <2>1. UNCHANGED pending
      BY <1>2, WorkerFrame
    <2>2. CASE ManageBox(w)
      <3>1. \/ serving' = [serving EXCEPT ![w] = serving[w]]
            \/ serving' = [serving EXCEPT ![w] = NULL]
        BY <2>2, Zenon DEF ManageBox, OpenPipe, Return
      <3>2. serving = [serving EXCEPT ![w] = serving[w]]
        BY DEF TypeInv, WorkersOK
      <3> QED BY <2>1, <3>1, <3>2
    <2>3. CASE ~ManageBox(w)
      <3>1. UNCHANGED serving \/ serving' = [serving EXCEPT ![w] = NULL]
        BY <1>2, <2>3, Zenon DEF WorkerActs, Accept, Refuse, LeaveLocked, AnswerManager, ListBoxes,
                           SendPacket, ListingEnds, ReadMessage, StoreMessage, NotStored,
                           PublisherGone, SendMessage, BoxRemoved, WorkerEnds, Return
      <3> QED BY <2>1, <3>1
    <2> QED BY <2>2, <2>3
  <1> QED BY <1>1, <1>2

\* What is left of a row without its first element.
LEMMA WithoutFirst ==
    ASSUME NEW s \in Seq(Clients), s # << >>, NEW t, t = Tail(s)
    PROVE  /\ Len(s) \in Nat \ {0} /\ Len(t) = Len(s) - 1 /\ Head(s) = s[1]
           /\ \A i \in 1 .. Len(t) : i + 1 \in 1 .. Len(s) /\ i + 1 # 1 /\ t[i] = s[i + 1]
  BY HeadTailProperties

\* So a request is in one place after every step.
LEMMA RequestOnceStep ==
    ASSUME TypeInv, RequestsForwarded, RequestOnce, Next
    PROVE  RequestOnce'
  <1>0. /\ pending \in Seq(Clients) /\ serving \in [Workers -> Clients \cup {NULL}]
        /\ Len(pending) \in Nat /\ NULL \notin Clients
    BY ListenerAssumption DEF TypeInv, MainOK, WorkersOK
  <1>1. ASSUME UNCHANGED <<pending, serving>>,
               \A c \in Clients : client'[c] \in Unregistered => client[c] \in Unregistered
        PROVE  RequestOnce'
    BY <1>0, <1>1 DEF RequestOnce, Pending
  <1>2. CASE MainStep
    BY <1>1, <1>2, MainFrame
  <1>3. CASE BrokerKilled
    <2>1. /\ UNCHANGED pending /\ serving' = [w \in Workers |-> NULL]
          /\ client' = [c \in Clients |-> IF client[c] = "reg_write" /\ main = "created"
                                          THEN "orphaned" ELSE client[c]]
      BY <1>3, Zenon DEF BrokerKilled
    <2>2. \A c \in Clients : client'[c] \in Unregistered => client[c] \in Unregistered
      BY <2>1 DEF Unregistered
    <2> QED BY <1>0, <2>1, <2>2 DEF RequestOnce, Pending
  <1>4. ASSUME NEW c \in Clients, ClientActs(c)
        PROVE  RequestOnce'
    <2>1. /\ UNCHANGED serving
          /\ \A d \in Clients : client'[d] \in Unregistered => client[d] \in Unregistered
      BY <1>4, ClientFrame, RegistersOnce DEF TypeInv
    <2>2. CASE UNCHANGED pending
      BY <1>1, <2>1, <2>2
    <2>3. CASE /\ pending' = Append(pending, c)
               /\ client[c] \in Unregistered /\ client'[c] \notin Unregistered
      <3>1. PICK n \in Nat : n = Len(pending)
        BY <1>0
      <3>2. PICK t : t = pending'
        OBVIOUS
      <3>3. /\ Len(t) = n + 1 /\ t[n + 1] = c
            /\ \A i \in 1 .. n : t[i] = pending[i]
        BY <1>0, <2>3, <3>1, <3>2
      <3>4. ~Pending(c) /\ \A w \in Workers : serving[w] # c
        BY <1>0, <2>3 DEF RequestOnce
      <3>5. \A i \in 1 .. n : pending[i] # c
        BY <3>1, <3>4 DEF Pending
      <3>6. \A d \in Clients : Pending(d)' <=> Pending(d) \/ d = c
        BY <3>1, <3>2, <3>3 DEF Pending
      <3>7. \A i, j \in 1 .. n + 1 : t[i] = t[j] => i = j
        BY <3>1, <3>3, <3>5 DEF RequestOnce
      <3>8. \A d \in Clients : Pending(d)' => client'[d] \notin Unregistered
        BY <2>1, <2>3, <3>6 DEF RequestOnce
      <3>9. ASSUME NEW w \in Workers, NEW d \in Clients, serving'[w] = d
            PROVE  /\ client'[d] \notin Unregistered /\ ~Pending(d)'
                   /\ \A x \in Workers \ {w} : serving'[x] # d
        <4>1. serving[w] = d /\ d # c
          BY <2>1, <3>4, <3>9
        <4>2. /\ client[d] \notin Unregistered /\ ~Pending(d)
              /\ \A x \in Workers \ {w} : serving[x] # d
          BY <4>1 DEF RequestOnce
        <4> QED BY <2>1, <3>6, <4>1, <4>2
      <3> QED BY <3>2, <3>3, <3>7, <3>8, <3>9 DEF RequestOnce
    <2> QED BY <1>4, <2>2, <2>3, RegistersOnce DEF TypeInv
  <1>5. ASSUME NEW w \in Workers, WorkerActs(w)
        PROVE  RequestOnce'
    <2>1. UNCHANGED client
      BY <1>5, WorkerFrame
    <2>2. CASE UNCHANGED <<pending, serving>>
      BY <1>1, <2>1, <2>2
    <2>3. CASE UNCHANGED pending /\ serving' = [serving EXCEPT ![w] = NULL]
      BY <1>0, <2>1, <2>3 DEF RequestOnce, Pending
    <2>4. ASSUME NEW c \in Clients,
                 pending # << >>, c = Head(pending), pending' = Tail(pending), serving[w] = NULL,
                 UNCHANGED serving \/ serving' = [serving EXCEPT ![w] = c]
          PROVE  RequestOnce'
      <3>1. PICK t : t = pending'
        OBVIOUS
      <3>2. /\ Len(t) = Len(pending) - 1 /\ 1 \in 1 .. Len(pending) /\ pending[1] = c
            /\ \A i \in 1 .. Len(t) : /\ i + 1 \in 1 .. Len(pending) /\ i + 1 # 1
                                      /\ t[i] = pending[i + 1]
        BY <1>0, <2>4, <3>1, WithoutFirst
      <3>3. \A i, j \in 1 .. Len(t) : t[i] = t[j] => i = j
        BY <3>2 DEF RequestOnce
      <3>4. /\ \A d \in Clients : Pending(d)' => Pending(d)
            /\ Pending(c) /\ ~Pending(c)'
        BY <3>1, <3>2 DEF Pending, RequestOnce
      <3>5. \A x \in Workers : serving[x] # c
        BY <1>0, <3>4 DEF RequestOnce
      <3>6. client[c] \notin Unregistered
        BY <3>4 DEF RequestOnce
      <3>7. ASSUME NEW x \in Workers, NEW d \in Clients, serving'[x] = d
            PROVE  /\ client'[d] \notin Unregistered /\ ~Pending(d)'
                   /\ \A y \in Workers \ {x} : serving'[y] # d
        <4>1. CASE serving[x] = d
          <5>1. /\ client[d] \notin Unregistered /\ ~Pending(d) /\ d # c
                /\ \A y \in Workers \ {x} : serving[y] # d
            BY <3>5, <4>1 DEF RequestOnce
          <5>2. \A y \in Workers \ {x} : serving'[y] # d
            BY <1>0, <2>4, <5>1
          <5> QED BY <2>1, <3>4, <5>1, <5>2
        <4>2. CASE serving[x] # d
          <5>1. x = w /\ d = c
            BY <1>0, <2>4, <3>7, <4>2
          <5>2. \A y \in Workers \ {x} : serving'[y] # d
            BY <1>0, <2>4, <3>5, <5>1
          <5> QED BY <2>1, <3>4, <3>6, <5>1, <5>2
        <4> QED BY <4>1, <4>2
      <3>8. \A d \in Clients : Pending(d)' => client'[d] \notin Unregistered
        BY <2>1, <3>4 DEF RequestOnce
      <3> QED BY <3>1, <3>3, <3>7, <3>8 DEF RequestOnce
    <2> QED BY <1>5, <2>2, <2>3, <2>4, WorkerTakes
  <1> QED BY <1>2, <1>3, <1>4, <1>5, Steps

-----------------------------------------------------------------------------
(* A listing, in the worker, the pipe and the manager                      *)

\* A client for which no listing was made.
Unlisted(c) ==
    \/ client[c] \in Unregistered \/ Pending(c)
    \/ \E w \in Workers : serving[w] = c /\ worker[w] = "opening"

\* s are the packets of l behind the first n.
Follows(s, l, n) == n + Len(s) <= Len(l) /\ \A k \in 1 .. Len(s) : s[k] = l[n + k]

\* What ListingSorted compares the boxes with.
Named(table) == IF table # << >> /\ Last(table) = 0 THEN Front(table) ELSE table

\* The boxes that a manager has are the first of those listed for it, sorted; what is in
\* its pipe follows them, and what its worker has yet to send follows that.
ListedAt(c) ==
    /\ Sorted(boxes[c])
    /\ session[c].rd => client[c] \in {"ses_open", "session"}
    /\ Unlisted(c) => session[c].data = << >> /\ boxes[c] = << >> /\ client[c] # "done"
    /\ client[c] \notin Ended =>
           /\ Len(boxes[c]) <= Len(listed[c]) /\ Permutes(boxes[c], listed[c])
           /\ Follows(session[c].data, Listing(listed[c]), Len(boxes[c]))
           /\ \A w \in Workers : serving[w] = c =>
                  Follows(packets[w], Listing(listed[c]), Len(boxes[c]) + Len(session[c].data))
    /\ client[c] = "done" => /\ Len(boxes[c]) = Len(Named(listed[c]))
                             /\ Permutes(boxes[c], Named(listed[c]))

ListedInv ==
    /\ {boxes, listed} \subseteq [Clients -> Seq(Nat)]
    /\ \A c \in Listers : ListedAt(c)

\* The packets of a listing.
LEMMA ListingAt ==
    ASSUME NEW table \in Seq(Nat), NEW l, l = Listing(table)
    PROVE  /\ Len(l) \in Nat /\ Len(table) \in Nat /\ Len(table) <= Len(l)
           /\ table = << >> => Len(l) = 1 /\ l[1].last /\ l[1].name = 0
           /\ table # << >> =>
                  /\ Len(l) = Len(table)
                  /\ \A k \in 1 .. Len(table) : /\ l[k].last <=> k = Len(table)
                                                /\ l[k].name = table[k]
  <1>1. CASE table = << >>
    BY <1>1 DEF Listing
  <1>2. CASE table # << >>
    <2>1. PICK n \in Nat : n = Len(table) /\ n # 0
      BY <1>2
    <2>2. l = [k \in 1 .. n |-> [last |-> k = n, name |-> table[k]]]
      BY <1>2, <2>1, Zenon DEF Listing
    <2>3. Len(l) = n
      <3>1. DOMAIN l = 1 .. n /\ l \in Seq(Packet)
        BY <2>2, ListingType
      <3>2. Len(l) \in Nat /\ 1 .. Len(l) = 1 .. n
        BY <3>1, LenProperties
      <3>3. n \in 1 .. Len(l)
        BY <2>1, <3>2
      <3>4. Len(l) \in 1 .. n
        BY <3>2, <3>3
      <3> QED BY <2>1, <3>3, <3>4
    <2>4. ASSUME NEW k \in 1 .. n
          PROVE  (l[k].last <=> k = n) /\ l[k].name = table[k]
      <3>1. l[k] = [last |-> k = n, name |-> table[k]]
        BY <2>2
      <3>2. l[k].last = (k = n) /\ l[k].name = table[k]
        BY <3>1
      <3> QED BY <3>2, Zenon
    <2> QED BY <1>2, <2>1, <2>3, <2>4
  <1> QED BY <1>1, <1>2

\* Nothing is left.
LEMMA FollowsNone ==
    ASSUME NEW l, NEW n \in Nat, n <= Len(l)
    PROVE  Follows(<< >>, l, n)
  <1>1. PICK e : e = << >>
    OBVIOUS
  <1>2. Len(e) = 0 /\ n + 0 = n /\ \A k \in 1 .. 0 : FALSE
    BY <1>1
  <1>3. n + Len(e) <= Len(l) /\ \A k \in 1 .. Len(e) : FALSE
    BY <1>2
  <1> QED BY <1>1, <1>3, Zenon DEF Follows

\* A step that moves no packet of a listing.
LEMMA ListedKept ==
    ASSUME ListedInv, TypeInv, NEW c \in Listers, c \in Clients, ListedAt(c),
           boxes'[c] = boxes[c], listed'[c] = listed[c], session'[c].data = session[c].data,
           session'[c].rd => client'[c] \in {"ses_open", "session"},
           Unlisted(c)' => Unlisted(c),
           client'[c] \notin Ended => client[c] \notin Ended,
           client'[c] = "done" <=> client[c] = "done",
           \A w \in Workers : serving'[w] = c =>
               \/ serving[w] = c /\ packets'[w] = packets[w]
               \/ packets'[w] = << >>
    PROVE  ListedAt(c)'
  <1>1. PICK l : l = Listing(listed[c])
    OBVIOUS
  <1>2. PICK n \in Nat : n = Len(boxes[c])
    BY DEF ListedInv
  <1>3. PICK m \in Nat : m = Len(session[c].data)
    BY DEF TypeInv, PipesOK, Pipe
  <1>4. client[c] \notin Ended =>
           /\ n <= Len(listed[c]) /\ Permutes(boxes[c], listed[c])
           /\ Follows(session[c].data, l, n) /\ n + m <= Len(l)
           /\ \A w \in Workers : serving[w] = c => Follows(packets[w], l, n + m)
    BY <1>1, <1>2, <1>3 DEF ListedAt, Follows
  <1>5. client[c] \notin Ended => Follows(<< >>, l, n + m)
    BY <1>4, FollowsNone
  <1>6. ASSUME NEW w \in Workers, serving'[w] = c, client'[c] \notin Ended
        PROVE  Follows(packets'[w], l, n + m)
    BY <1>4, <1>5, <1>6
  <1>7. /\ Sorted(boxes[c])
        /\ Unlisted(c) => session[c].data = << >> /\ boxes[c] = << >> /\ client[c] # "done"
        /\ client[c] = "done" => /\ n = Len(Named(listed[c]))
                                 /\ Permutes(boxes[c], Named(listed[c]))
    BY <1>2 DEF ListedAt
  <1>8. client'[c] \notin Ended =>
           /\ Len(boxes'[c]) <= Len(listed'[c]) /\ Permutes(boxes'[c], listed'[c])
           /\ Follows(session'[c].data, Listing(listed'[c]), Len(boxes'[c]))
           /\ \A w \in Workers : serving'[w] = c =>
                  Follows(packets'[w], Listing(listed'[c]), Len(boxes'[c]) + Len(session'[c].data))
    BY <1>1, <1>2, <1>3, <1>4, <1>6
  <1>9. /\ Sorted(boxes'[c])
        /\ Unlisted(c)' => session'[c].data = << >> /\ boxes'[c] = << >> /\ client'[c] # "done"
        /\ client'[c] = "done" => /\ Len(boxes'[c]) = Len(Named(listed'[c]))
                                  /\ Permutes(boxes'[c], Named(listed'[c]))
    BY <1>2, <1>7
  <1> QED BY <1>8, <1>9 DEF ListedAt

\* The same elements, in a sequence with the same beginning.
LEMMA PermutesSame ==
    ASSUME NEW s \in Seq(Nat), NEW table, NEW u, Permutes(s, table),
           \A i \in 1 .. Len(s) : u[i] = table[i]
    PROVE  Permutes(s, u)
  <1>1. PICK p \in Bijection(1 .. Len(s), 1 .. Len(s)) : \A i \in 1 .. Len(s) : s[i] = table[p[i]]
    BY DEF Permutes
  <1>2. \A i \in 1 .. Len(s) : p[i] \in 1 .. Len(s)
    BY DEF Bijection, Injection
  <1>3. \A i \in 1 .. Len(s) : s[i] = u[p[i]]
    BY <1>1, <1>2
  <1> QED BY <1>1, <1>3 DEF Permutes

\* Of an empty sequence.
LEMMA PermutesNone ==
    ASSUME NEW table
    PROVE  Permutes(<< >>, table)
  <1>1. PICK p : p = [i \in 1 .. 0 |-> i]
    OBVIOUS
  <1>2. p \in Bijection(1 .. 0, 1 .. 0)
    BY <1>1 DEF Bijection, Injection, Surjection, IsInjective
  <1>3. Len(<< >>) = 0 /\ \A i \in 1 .. 0 : FALSE
    OBVIOUS
  <1> QED BY <1>2, <1>3 DEF Permutes

-----------------------------------------------------------------------------
(* The manager reads a packet                                              *)

\* The first of the packets that follow.
LEMMA FollowsFirst ==
    ASSUME NEW S, NEW s \in Seq(S), s # << >>, NEW l, Len(l) \in Nat, NEW n \in Nat,
           Follows(s, l, n)
    PROVE  /\ Len(s) \in Nat \ {0} /\ n + Len(s) <= Len(l) /\ n + 1 <= Len(l)
           /\ Head(s) = l[n + 1] /\ Len(Tail(s)) = Len(s) - 1
           /\ Follows(Tail(s), l, n + 1)
  <1>1. PICK t : t = Tail(s)
    OBVIOUS
  <1>2. PICK m \in Nat \ {0} : m = Len(s)
    OBVIOUS
  <1>3. Len(t) = m - 1 /\ Head(s) = s[1] /\ \A k \in 1 .. m - 1 : t[k] = s[k + 1]
    BY <1>1, <1>2
  <1>4. n + m <= Len(l) /\ \A k \in 1 .. m : s[k] = l[n + k]
    BY <1>2 DEF Follows
  <1>5. ASSUME NEW k \in 1 .. m - 1
        PROVE  t[k] = l[(n + 1) + k]
    <2>1. PICK j \in 1 .. m : j = k + 1 /\ n + j = (n + 1) + k
      OBVIOUS
    <2> QED BY <1>3, <1>4, <2>1
  <1>6. (n + 1) + (m - 1) <= Len(l) /\ n + 1 <= Len(l)
    BY <1>4
  <1>7. s[1] = l[n + 1]
    BY <1>4
  <1>8. Follows(t, l, n + 1)
    BY <1>3, <1>5, <1>6 DEF Follows
  <1> QED BY <1>1, <1>2, <1>3, <1>4, <1>6, <1>7, <1>8

\* One packet more.
LEMMA FollowsMore ==
    ASSUME NEW S, NEW s \in Seq(S), NEW e \in S, NEW l, Len(l) \in Nat, NEW n \in Nat,
           Follows(s, l, n), (n + Len(s)) + 1 <= Len(l), e = l[(n + Len(s)) + 1]
    PROVE  Follows(Append(s, e), l, n)
  <1>1. PICK t : t = Append(s, e)
    OBVIOUS
  <1>2. PICK m \in Nat : m = Len(s)
    OBVIOUS
  <1>3. Len(t) = m + 1 /\ t[m + 1] = e /\ \A k \in 1 .. m : t[k] = s[k]
    BY <1>1, <1>2
  <1>4. (\A k \in 1 .. m : s[k] = l[n + k]) /\ (n + m) + 1 <= Len(l) /\ e = l[(n + m) + 1]
    BY <1>2 DEF Follows
  <1>5. n + (m + 1) <= Len(l) /\ n + (m + 1) = (n + m) + 1
    BY <1>4
  <1>6. ASSUME NEW k \in 1 .. m + 1
        PROVE  t[k] = l[n + k]
    <2>1. CASE k \in 1 .. m
      BY <1>3, <1>4, <2>1
    <2>2. CASE k = m + 1
      BY <1>3, <1>4, <1>5, <2>2
    <2> QED BY <2>1, <2>2
  <1>7. Follows(t, l, n)
    BY <1>3, <1>5, <1>6 DEF Follows
  <1> QED BY <1>1, <1>7

\* The table of a manager that has read one packet more: with the last it has all the
\* boxes that have a name.
LEMMA PacketRead ==
    ASSUME NEW bs \in Seq(Nat), Sorted(bs), NEW table \in Seq(Nat), Len(bs) <= Len(table),
           Permutes(bs, table), Len(bs) + 1 <= Len(Listing(table)),
           NEW p, p = Listing(table)[Len(bs) + 1],
           NEW t, p.last /\ p.name = 0 => t = bs,
           ~(p.last /\ p.name = 0) => t = sorted_insert(bs, p.name)
    PROVE  /\ t \in Seq(Nat) /\ Sorted(t)
           /\ p.last => Len(t) = Len(Named(table)) /\ Permutes(t, Named(table))
           /\ ~p.last => Len(t) = Len(bs) + 1 /\ Len(t) <= Len(table) /\ Permutes(t, table)
  <1>1. PICK n \in Nat : n = Len(bs)
    OBVIOUS
  <1>2. PICK m \in Nat : m = Len(table)
    OBVIOUS
  <1>3. CASE table = << >>
    <2>1. m = 0 /\ n = 0
      BY <1>1, <1>2, <1>3
    <2>2. p.last /\ p.name = 0
      <3>1. Listing(table)[1].last /\ Listing(table)[1].name = 0
        BY <1>3, ListingAt
      <3>2. Len(bs) + 1 = 1
        BY <1>1, <2>1
      <3> QED BY <3>1, <3>2, Zenon
    <2>3. t = bs /\ Named(table) = table
      BY <1>3, <2>2 DEF Named
    <2> QED BY <1>1, <1>2, <2>1, <2>2, <2>3
  <1>4. CASE table # << >>
    <2>1. n + 1 <= m /\ (p.last <=> n + 1 = m) /\ p.name = table[n + 1]
      <3>1. /\ Len(Listing(table)) = m
            /\ \A k \in 1 .. m : /\ Listing(table)[k].last <=> k = m
                                 /\ Listing(table)[k].name = table[k]
        BY <1>2, <1>4, ListingAt
      <3>2. n + 1 <= m /\ n + 1 \in 1 .. m
        BY <1>1, <3>1
      <3> QED BY <1>1, <3>1, <3>2
    <2>2. table[n + 1] \in Nat /\ Last(table) = table[m]
      BY <1>2, <2>1 DEF Last
    <2>3. CASE p.last /\ p.name = 0
      <3>1. t = bs /\ n + 1 = m /\ Last(table) = 0
        BY <2>1, <2>2, <2>3
      <3>2. Named(table) = Front(table)
        BY <1>4, <3>1, Zenon DEF Named
      <3>3. PICK u : u = Front(table)
        OBVIOUS
      <3>4. Len(u) = n /\ \A i \in 1 .. n : u[i] = table[i]
        <4>1. m - 1 = n
          BY <3>1
        <4>2. u = SubSeq(table, 1, n)
          BY <1>2, <3>3, <4>1, Zenon DEF Front
        <4> QED BY <1>2, <2>1, <4>2
      <3>5. Permutes(bs, u)
        BY <1>1, <3>4, PermutesSame
      <3> QED BY <1>1, <2>3, <3>1, <3>2, <3>3, <3>4, <3>5
    <2>4. CASE ~(p.last /\ p.name = 0)
      <3>1. t = sorted_insert(bs, table[n + 1])
        BY <2>1, <2>4
      <3>2. Sorted(t) /\ \E r \in 0 .. Len(bs) : Puts(t, bs, r, table[n + 1])
        BY <2>2, <3>1, InsertedInOrder
      <3>3. PICK r \in 0 .. Len(bs) : Puts(t, bs, r, table[Len(bs) + 1])
        BY <1>1, <3>2
      <3>4. Permutes(t, table) /\ t \in Seq(Nat) /\ Len(t) = n + 1
        BY <1>1, <3>3, PermutesMore DEF Puts
      <3>5. p.last => Named(table) = table
        BY <2>1, <2>2, <2>4 DEF Named
      <3> QED BY <1>1, <1>2, <2>1, <3>2, <3>4, <3>5
    <2> QED BY <2>3, <2>4
  <1> QED BY <1>3, <1>4

\* A manager reads a packet.
LEMMA ListedRead ==
    ASSUME TypeInv, ListedInv, NEW c \in Listers, c \in Clients, MgrList(c)
    PROVE  /\ ListedAt(c)' /\ boxes' \in [Clients -> Seq(Nat)]
           /\ \A d \in Clients \ {c} : boxes'[d] = boxes[d]
  <1>1. PICK s : s = session[c].data
    OBVIOUS
  <1>2. PICK bs : bs = boxes[c]
    OBVIOUS
  <1>3. PICK table : table = listed[c]
    OBVIOUS
  <1>4. PICK l : l = Listing(table)
    OBVIOUS
  <1>5. PICK p : p = Head(s)
    OBVIOUS
  <1>6. /\ s \in Seq(Packet) /\ bs \in Seq(Nat) /\ table \in Seq(Nat)
        /\ session \in [Clients -> Pipe] /\ client \in [Clients -> ClientLabels]
        /\ boxes \in [Clients -> Seq(Nat)] /\ c \notin Publishers
    BY <1>1, <1>2, <1>3 DEF TypeInv, PipesOK, Pipe, ProgramsOK, ListedInv, Listers, Publishers, Runs
  <1>7. PICK n \in Nat : n = Len(bs)
    BY <1>6
  <1>8. PICK m \in Nat : m = Len(s)
    BY <1>6
  <1>9. /\ s # << >> /\ client[c] = "session" /\ UNCHANGED <<pending, worker, serving, packets, listed>>
        /\ boxes' = IF p.last /\ p.name = 0 THEN boxes
                    ELSE [boxes EXCEPT ![c] = sorted_insert(boxes[c], p.name)]
        /\ \/ p.last /\ client' = [client EXCEPT ![c] = "done"] /\ CloseAndUnlink(c)
           \/ ~p.last /\ client' = [client EXCEPT ![c] = "session"] /\ Get(c)
    BY <1>1, <1>5, Zenon DEF MgrList, Goto
  <1>10. /\ Sorted(bs) /\ ~Unlisted(c) /\ n <= Len(table) /\ Permutes(bs, table)
         /\ Follows(s, l, n)
         /\ \A w \in Workers : serving[w] = c => Follows(packets[w], l, n + m)
    BY <1>1, <1>2, <1>3, <1>4, <1>7, <1>8, <1>9 DEF ListedInv, ListedAt, Ended
  <1>11. Len(l) \in Nat
    BY <1>4, <1>6, ListingAt
  <1>12. /\ m \in Nat \ {0} /\ n + 1 <= Len(l) /\ p = l[n + 1]
         /\ Len(Tail(s)) = m - 1 /\ Follows(Tail(s), l, n + 1)
    BY <1>5, <1>6, <1>8, <1>9, <1>10, <1>11, FollowsFirst
  <1>13. PICK t : t = boxes'[c]
    OBVIOUS
  <1>14. /\ p.last /\ p.name = 0 => t = bs
         /\ ~(p.last /\ p.name = 0) => t = sorted_insert(bs, p.name)
         /\ \A d \in Clients \ {c} : boxes'[d] = boxes[d]
         /\ t \in Seq(Nat) => boxes' \in [Clients -> Seq(Nat)]
    <2>1. CASE p.last /\ p.name = 0
      BY <1>2, <1>6, <1>9, <1>13, <2>1
    <2>2. CASE ~(p.last /\ p.name = 0)
      <3>1. PICK i : i = sorted_insert(bs, p.name)
        OBVIOUS
      <3>2. boxes' = [boxes EXCEPT ![c] = i]
        BY <1>2, <1>9, <2>2, <3>1, Zenon
      <3> QED BY <1>2, <1>6, <1>13, <2>2, <3>1, <3>2
    <2> QED BY <2>1, <2>2
  <1>15. /\ t \in Seq(Nat) /\ Sorted(t)
         /\ p.last => Len(t) = Len(Named(table)) /\ Permutes(t, Named(table))
         /\ ~p.last => Len(t) = n + 1 /\ Len(t) <= Len(table) /\ Permutes(t, table)
    <2>1. /\ Len(bs) <= Len(table) /\ Len(bs) + 1 <= Len(Listing(table))
          /\ p = Listing(table)[Len(bs) + 1]
      BY <1>4, <1>7, <1>10, <1>12
    <2>2. /\ t \in Seq(Nat) /\ Sorted(t)
          /\ p.last => Len(t) = Len(Named(table)) /\ Permutes(t, Named(table))
          /\ ~p.last => Len(t) = Len(bs) + 1 /\ Len(t) <= Len(table) /\ Permutes(t, table)
      <3>1. /\ p.last /\ p.name = 0 => t = bs
            /\ ~(p.last /\ p.name = 0) => t = sorted_insert(bs, p.name)
            /\ Sorted(bs) /\ Permutes(bs, table) /\ bs \in Seq(Nat) /\ table \in Seq(Nat)
        BY <1>6, <1>10, <1>14, Zenon
      <3> QED BY <2>1, <3>1, PacketRead, ZenonT(60)
    <2> QED BY <1>7, <2>2
  <1>16. ~Unlisted(c)'
    <2>1. client'[c] \in {"session", "done"}
      BY <1>6, <1>9
    <2> QED BY <1>9, <1>10, <2>1 DEF Unlisted, Unregistered, Pending
  <1>17. CASE p.last
    <2>1. client'[c] = "done" /\ ~session'[c].rd
      BY <1>6, <1>9, <1>17, PipeClosed
    <2>2. client'[c] \in Ended
      BY <2>1 DEF Ended
    <2>3. ListedAt(c)'
      BY <1>3, <1>9, <1>13, <1>15, <1>16, <1>17, <2>1, <2>2 DEF ListedAt
    <2> QED BY <1>14, <1>15, <2>3
  <1>18. CASE ~p.last
    <2>1. client'[c] = "session" /\ session'[c].data = Tail(s)
      BY <1>1, <1>6, <1>9, <1>18, PipeGet
    <2>2. \A w \in Workers : serving'[w] = c => Follows(packets'[w], l, (n + 1) + (m - 1))
      <3>1. (n + 1) + (m - 1) = n + m
        BY <1>12
      <3> QED BY <1>9, <1>10, <3>1
    <2>3. /\ Len(t) <= Len(table) /\ Permutes(t, table) /\ Follows(Tail(s), l, Len(t))
          /\ \A w \in Workers : serving'[w] = c => Follows(packets'[w], l, Len(t) + Len(Tail(s)))
      BY <1>12, <1>15, <1>18, <2>2
    <2>4. listed'[c] = table /\ Listing(table) = l
      BY <1>3, <1>4, <1>9
    <2>5. ListedAt(c)'
      BY <1>13, <1>15, <1>16, <2>1, <2>3, <2>4 DEF ListedAt
    <2> QED BY <1>14, <1>15, <2>5
  <1> QED BY <1>17, <1>18

-----------------------------------------------------------------------------
(* Who moves packets                                                       *)

\* Who changes what of a listing.
LEMMA ListedFrame ==
    /\ \A c \in Clients : ClientActs(c) => UNCHANGED listed /\ (MgrList(c) \/ UNCHANGED boxes)
    /\ \A w \in Workers : WorkerActs(w) =>
           /\ UNCHANGED boxes /\ (ListBoxes(w) \/ UNCHANGED listed)
           /\ ListBoxes(w) \/ SendPacket(w) \/ UNCHANGED packets
    /\ MainStep \/ BrokerKilled => UNCHANGED <<listed, boxes>>
  <1>1. ASSUME NEW c \in Clients, ClientActs(c)
        PROVE  UNCHANGED listed /\ (MgrList(c) \/ UNCHANGED boxes)
    <2>1. CASE Register(c) \/ mkfifo(c) \/ OpenSession(c) \/ SessionOpened(c)
      BY <2>1, Zenon DEF Register, mkfifo, OpenSession, SessionOpened, listing
    <2>2. CASE \/ PubWrite(c) \/ PubLine(c) \/ PubEOF(c) \/ PubExit(c)
               \/ SubTest(c) \/ SubBlock(c) \/ SubRead(c)
      BY <2>2, Zenon DEF PubWrite, PubLine, PubEOF, PubExit, SubTest, SubBlock, SubRead, SubPrint,
                         Exit, listing
    <2>3. CASE MgrEOF(c) \/ MgrAnswer(c) \/ MgrList(c) \/ subscriber_shutdown(c) \/ Killed(c)
      BY <2>3, Zenon DEF MgrEOF, MgrAnswer, MgrList, subscriber_shutdown, Killed, Exit, listing
    <2> QED BY <1>1, <2>1, <2>2, <2>3 DEF ClientActs, ClientStep
  <1>2. ASSUME NEW w \in Workers, WorkerActs(w)
        PROVE  /\ UNCHANGED boxes /\ (ListBoxes(w) \/ UNCHANGED listed)
               /\ ListBoxes(w) \/ SendPacket(w) \/ UNCHANGED packets
    <2>1. CASE \/ workers_reception(w) \/ ManageBox(w) \/ Accept(w) \/ Refuse(w) \/ LeaveLocked(w)
               \/ AnswerManager(w) \/ ListBoxes(w)
      BY <2>1, Zenon DEF workers_reception, ManageBox, Dequeue, Accept, Refuse, LeaveLocked,
                         AnswerManager, ListBoxes, WorkerEnds, listing
    <2>2. CASE SendPacket(w) \/ ListingEnds(w) \/ ReadMessage(w) \/ StoreMessage(w) \/ NotStored(w)
      BY <2>2, Zenon DEF SendPacket, ListingEnds, ReadMessage, StoreMessage, NotStored, WorkerEnds,
                         listing
    <2>3. CASE PublisherGone(w) \/ SendMessage(w) \/ BoxRemoved(w)
      BY <2>3, Zenon DEF PublisherGone, SendMessage, BoxRemoved, WorkerEnds, listing
    <2> QED BY <1>2, <2>1, <2>2, <2>3 DEF WorkerActs
  <1>3. ASSUME MainStep \/ BrokerKilled
        PROVE  UNCHANGED <<listed, boxes>>
    BY <1>3, Zenon DEF MainStep, BrokerKilled, listing
  <1> QED BY <1>1, <1>2, <1>3

\* A client's step makes nobody unlisted.
LEMMA UnlistedClient ==
    ASSUME TypeInv, NEW c \in Clients, ClientActs(c), NEW d \in Clients, Unlisted(d)'
    PROVE  Unlisted(d)
  <1>1. UNCHANGED <<worker, serving>>
    BY ClientFrame
  <1>2. client'[d] \in Unregistered => client[d] \in Unregistered
    BY RegistersOnce DEF TypeInv
  <1>3. Pending(d)' => Pending(d) \/ client[d] \in Unregistered
    <2>1. CASE UNCHANGED pending
      BY <2>1 DEF Pending
    <2>2. CASE pending' = Append(pending, c) /\ client[c] \in Unregistered
      <3>1. pending \in Seq(Clients)
        BY DEF TypeInv, MainOK
      <3>2. PICK n \in Nat : n = Len(pending)
        BY <3>1
      <3>3. Len(pending') = n + 1 /\ pending'[n + 1] = c /\ \A i \in 1 .. n : pending'[i] = pending[i]
        BY <2>2, <3>1, <3>2
      <3>4. \A i \in 1 .. n + 1 : i \in 1 .. n \/ i = n + 1
        OBVIOUS
      <3> QED BY <2>2, <3>2, <3>3, <3>4 DEF Pending
    <2> QED BY <2>1, <2>2, RegistersOnce DEF TypeInv
  <1> QED BY <1>1, <1>2, <1>3 DEF Unlisted

\* A worker that begins to open a lister's pipe has taken it from the row of requests.
LEMMA UnlistedWorker ==
    ASSUME TypeInv, RequestsForwarded, NEW w \in Workers, WorkerActs(w),
           NEW d \in Listers, Unlisted(d)'
    PROVE  Unlisted(d)
  <1>0. /\ UNCHANGED client /\ pending \in Seq(Clients) /\ d \in Clients /\ d \notin Managers
        /\ worker \in [Workers -> WorkerLabels]
        /\ serving \in [Workers -> Clients \cup {NULL}] /\ NULL \notin Clients
    BY WorkerFrame, ListenerAssumption DEF TypeInv, MainOK, WorkersOK, Listers, Managers, Runs
  <1>1. \/ workers_reception(w) \/ ManageBox(w)
        \/ \A x \in Workers : worker'[x] = "opening" => worker[x] = "opening"
    <2>1. CASE \/ Accept(w) \/ Refuse(w) \/ LeaveLocked(w) \/ AnswerManager(w) \/ ListBoxes(w)
               \/ SendPacket(w)
      <3>1. PICK lb \in {"session", "idle"} : UNCHANGED worker \/ worker' = [worker EXCEPT ![w] = lb]
        BY <2>1, Zenon DEF Accept, Refuse, LeaveLocked, AnswerManager, ListBoxes, SendPacket,
                           WorkerEnds, Return, WorkerGoto
      <3> QED BY <1>0, <3>1
    <2>2. CASE \/ ListingEnds(w) \/ ReadMessage(w) \/ StoreMessage(w) \/ NotStored(w)
               \/ PublisherGone(w) \/ SendMessage(w) \/ BoxRemoved(w)
      <3>1. PICK lb \in {"session", "storing", "idle"} : worker' = [worker EXCEPT ![w] = lb]
        BY <2>2, Zenon DEF ListingEnds, ReadMessage, StoreMessage, NotStored, PublisherGone,
                           SendMessage, BoxRemoved, WorkerEnds, Return, WorkerGoto
      <3> QED BY <1>0, <3>1
    <2> QED BY <2>1, <2>2 DEF WorkerActs
  <1>2. Pending(d)' => Pending(d)
    <2>1. CASE UNCHANGED pending
      BY <2>1 DEF Pending
    <2>2. CASE pending # << >> /\ pending' = Tail(pending)
      <3>1. \A i \in 1 .. Len(pending') : i + 1 \in 1 .. Len(pending) /\ pending'[i] = pending[i + 1]
        BY <1>0, <2>2, WithoutFirst
      <3> QED BY <3>1 DEF Pending
    <2> QED BY <2>1, <2>2, WorkerTakes
  <1>3. ASSUME NEW x \in Workers, serving'[x] = d, worker'[x] = "opening"
        PROVE  Unlisted(d)
    <2>1. CASE serving[x] = d /\ worker[x] = "opening"
      BY <2>1 DEF Unlisted
    <2>2. CASE ~(serving[x] = d /\ worker[x] = "opening")
      <3>1. CASE ~workers_reception(w)
        <4>1. UNCHANGED serving \/ serving' = [serving EXCEPT ![w] = NULL]
          <5>1. UNCHANGED pending
            BY <3>1, WorkerFrame
          <5>2. pending # << >> => pending # Tail(pending)
            BY <1>0, WithoutFirst
          <5> QED BY <5>1, <5>2, WorkerTakes
        <4>2. serving[x] = d
          BY <1>0, <1>3, <4>1
        <4>3. CASE ManageBox(w)
          <5>1. PICK lb \in {"opening", "idle"} : worker' = [worker EXCEPT ![w] = lb]
            BY <4>3, Zenon DEF ManageBox, OpenPipe, Return, WorkerGoto
          <5>2. x # w
            BY <1>0, <4>2, <4>3 DEF ManageBox
          <5>3. worker'[x] = worker[x]
            BY <1>0, <5>1, <5>2
          <5> QED BY <1>3, <2>2, <4>2, <5>3
        <4> QED BY <1>1, <1>3, <2>2, <3>1, <4>2, <4>3
      <3>2. CASE workers_reception(w)
        <4>1. PICK lb \in {"idle", "working", "opening"} : worker' = [worker EXCEPT ![w] = lb]
          BY <3>2, Zenon DEF workers_reception, OpenPipe, Return, WorkerGoto
        <4>2. CASE x = w
          <5>1. worker[w] = "idle"
            BY <3>2, Zenon DEF workers_reception, OpenPipe, Return, WorkerGoto
          <5>2. serving[w] = NULL
            BY <5>1 DEF TypeInv, WorkersOK
          <5>3. serving'[w] # serving[w]
            BY <1>0, <1>3, <4>2, <5>2
          <5>4. PICK c \in Clients : /\ pending # << >> /\ c = Head(pending)
                                     /\ serving' = [serving EXCEPT ![w] = c]
            BY <1>0, <5>2, <5>3, WorkerTakes
          <5>5. c = d
            BY <1>0, <1>3, <4>2, <5>4
          <5>6. 1 \in 1 .. Len(pending) /\ pending[1] = d
            BY <1>0, <5>4, <5>5, WithoutFirst
          <5> QED BY <5>6 DEF Unlisted, Pending
        <4>3. CASE x # w
          <5>1. serving'[x] = serving[x]
            BY <1>0, <4>3, WorkerTakes
          <5>2. worker'[x] = worker[x]
            BY <1>0, <4>1, <4>3
          <5> QED BY <1>3, <2>2, <5>1, <5>2
        <4> QED BY <4>2, <4>3
      <3> QED BY <3>1, <3>2
    <2> QED BY <2>1, <2>2
  <1> QED BY <1>0, <1>2, <1>3 DEF Unlisted

\* A manager's other steps move no packet.
LEMMA ListedClient ==
    ASSUME TypeInv, ListedInv, NEW c \in Listers, c \in Clients, ClientActs(c), ~MgrList(c)
    PROVE  ListedAt(c)'
  <1>0. /\ session \in [Clients -> Pipe] /\ client \in [Clients -> ClientLabels]
        /\ c \notin Publishers /\ c \notin Subscribers /\ c \notin Managers
        /\ PipesOK /\ ProgramsOK /\ ListedAt(c)
    BY DEF TypeInv, PipesOK, ProgramsOK, ListedInv, Listers, Publishers, Subscribers, Managers, Runs
  <1>1. ASSUME session'[c].data = session[c].data,
               session'[c].rd => client'[c] \in {"ses_open", "session"},
               client[c] \notin Ended, client'[c] # "done"
        PROVE  ListedAt(c)'
    <2>1. UNCHANGED <<boxes, listed, serving, packets>>
      BY ListedFrame, ClientFrame
    <2>2. Unlisted(c)' => Unlisted(c)
      BY UnlistedClient
    <2>3. client[c] # "done"
      BY <1>1 DEF Ended
    <2> QED BY <1>0, <1>1, <2>1, <2>2, <2>3, ListedKept
  <1>2. ASSUME NEW l \in {"reg_open", "reg_write", "reg_close"}, client[c] = l,
               \/ UNCHANGED session \/ session' = [session EXCEPT ![c].linked = TRUE]
               \/ session' = [session EXCEPT ![c].linked = FALSE]
        PROVE  /\ session'[c].data = session[c].data /\ ~session'[c].rd
               /\ client[c] \notin Ended
    <2>1. ~session[c].rd
      BY <1>0, <1>2 DEF ListedAt
    <2>2. client[c] \notin Ended
      BY <1>2 DEF Ended
    <2> QED BY <1>0, <1>2, <2>1, <2>2, PipeLinked
  <1>3. CASE Register(c)
    <2>1. PICK l \in {"failed", "orphaned", "reg_write", "reg_close", "registered"} :
              client' = [client EXCEPT ![c] = l]
      BY <1>3, Zenon DEF Register, client_request_connection, OpenRegister, WriteRequest,
                         CloseRegister, Goto
    <2>2. client[c] \in {"reg_open", "reg_write", "reg_close"}
      BY <1>3, Zenon DEF Register, client_request_connection, OpenRegister, WriteRequest,
                         CloseRegister, Goto
    <2>3. UNCHANGED session \/ session' = [session EXCEPT ![c].linked = FALSE]
      BY <1>3, Zenon DEF Register
    <2>4. client'[c] # "done"
      BY <1>0, <2>1
    <2> QED BY <1>1, <1>2, <2>2, <2>3, <2>4
  <1>4. CASE mkfifo(c)
    <2>1. /\ client[c] = "start" /\ client' = [client EXCEPT ![c] = "reg_open"]
          /\ session' = [session EXCEPT ![c].linked = TRUE]
      BY <1>4, Zenon DEF mkfifo, Goto
    <2>2. ~session[c].rd
      BY <1>0, <2>1 DEF ListedAt
    <2>3. session'[c].data = session[c].data /\ ~session'[c].rd
      BY <1>0, <2>1, <2>2, PipeLinked
    <2>4. client[c] \notin Ended /\ client'[c] # "done"
      BY <1>0, <2>1 DEF Ended
    <2> QED BY <1>1, <2>3, <2>4
  <1>5. CASE OpenSession(c) \/ SessionOpened(c)
    <2>1. /\ client[c] \in {"registered", "ses_open"}
          /\ \/ client' = [client EXCEPT ![c] = "ses_open"]
             \/ client' = [client EXCEPT ![c] = "session"]
          /\ UNCHANGED session \/ EnterOpen(c, ClientEnd(c), WorkerEnd(c))
      BY <1>5, Zenon DEF OpenSession, SessionOpened, Goto
    <2>2. client'[c] \in {"ses_open", "session"}
      BY <1>0, <2>1
    <2>3. session'[c].data = session[c].data
      BY <1>0, <2>1, PipeOpened
    <2>4. client[c] \notin Ended
      BY <2>1 DEF Ended
    <2> QED BY <1>1, <2>2, <2>3, <2>4
  <1>6. CASE MgrEOF(c)
    <2>1. /\ client[c] = "session" /\ client' = [client EXCEPT ![c] = "failed"]
          /\ CloseAndUnlink(c)
      BY <1>6, Zenon DEF MgrEOF, Exit, Goto
    <2>2. session'[c].data = session[c].data /\ ~session'[c].rd
      BY <1>0, <2>1, PipeClosed
    <2>3. client[c] \notin Ended /\ client'[c] # "done"
      BY <1>0, <2>1 DEF Ended
    <2> QED BY <1>1, <2>2, <2>3
  <1>7. CASE Killed(c)
    <2>1. /\ client[c] \notin Ended /\ client' = [client EXCEPT ![c] = "killed"]
          /\ Close(c, "rd") /\ Close(c, ClientEnd(c))
      BY <1>0, <1>7, Zenon DEF Killed, ClientEnd
    <2>2. session'[c].data = session[c].data
      BY <1>0, <2>1, PipeClosed
    <2>3. ~session'[c].rd
      BY <1>0, <2>1 DEF Close, Pipe
    <2>4. client'[c] # "done"
      BY <1>0, <2>1
    <2> QED BY <1>1, <2>1, <2>2, <2>3, <2>4
  <1>8. ~(\/ PubWrite(c) \/ PubLine(c) \/ PubEOF(c) \/ PubExit(c) \/ SubTest(c) \/ MgrAnswer(c)
          \/ subscriber_shutdown(c))
    BY <1>0 DEF PubWrite, PubLine, PubEOF, PubExit, SubTest, MgrAnswer, subscriber_shutdown, ProgramsOK
  <1>9. ~(SubBlock(c) \/ SubRead(c))
    <2>1. client[c] \notin {"reading", "waiting"}
      BY <1>0 DEF ProgramsOK
    <2> QED BY <2>1, Zenon DEF SubBlock, SubRead, SubPrint, Exit, Goto
  <1> QED BY <1>3, <1>4, <1>5, <1>6, <1>7, <1>8, <1>9 DEF ClientActs, ClientStep

\* A worker's steps that move no packet of a listing.
LEMMA ListedWorker ==
    ASSUME TypeInv, RequestsForwarded, ListedInv, NEW w \in Workers, WorkerActs(w),
           NEW c \in Listers, c \in Clients, listed'[c] = listed[c],
           session'[c].data = session[c].data, session'[c].rd => session[c].rd,
           \A x \in Workers : serving[x] = c =>
               packets'[x] = packets[x] \/ packets'[x] = << >>
    PROVE  ListedAt(c)'
  <1>1. UNCHANGED client /\ boxes'[c] = boxes[c] /\ ListedAt(c)
    BY WorkerFrame, ListedFrame DEF ListedInv
  <1>2. Unlisted(c)' => Unlisted(c)
    BY UnlistedWorker
  <1>3. session'[c].rd => client'[c] \in {"ses_open", "session"}
    BY <1>1 DEF ListedAt
  <1>4. ASSUME NEW x \in Workers, serving'[x] = c, serving[x] # c
        PROVE  packets'[x] = << >>
    <2>1. serving \in [Workers -> Clients \cup {NULL}] /\ NULL \notin Clients
      BY ListenerAssumption DEF TypeInv, WorkersOK
    <2>2. x = w /\ worker[w] = "idle" /\ pending # << >> /\ pending' = Tail(pending)
      BY <1>4, <2>1, WorkerTakes
    <2>3. pending # Tail(pending)
      BY <2>2, WithoutFirst DEF TypeInv, MainOK
    <2>4. workers_reception(w)
      BY <2>2, <2>3, WorkerFrame
    <2>5. UNCHANGED packets
      BY <2>4, Zenon DEF workers_reception, Dequeue, listing
    <2>6. packets[w] = << >>
      BY <2>2 DEF TypeInv, WorkersOK
    <2> QED BY <2>2, <2>5, <2>6
  <1> QED BY <1>1, <1>2, <1>3, <1>4, ListedKept

-----------------------------------------------------------------------------
(* The worker makes and sends a listing                                    *)

\* A listing is made, for a manager that has no packet yet.
LEMMA ListedMade ==
    ASSUME TypeInv, RequestsForwarded, RequestOnce, ListedInv, NEW w \in Workers, ListBoxes(w)
    PROVE  ListedInv'
  <1>1. PICK table \in BoxTables :
            /\ serving[w] \in Listers /\ worker[w] = "opening"
            /\ packets' = [packets EXCEPT ![w] = Listing(table)]
            /\ listed' = [listed EXCEPT ![serving[w]] = table]
            /\ UNCHANGED <<client, session, serving, boxes>>
    BY Zenon DEF ListBoxes, WorkerGoto, listenerVars
  <1>2. PICK c \in Listers : c = serving[w]
    BY <1>1
  <1>3. /\ c \in Clients /\ table \in Seq(Nat) /\ Listers' = Listers /\ Listers \subseteq Clients
        /\ packets \in [Workers -> Seq(Packet)] /\ WorkerActs(w)
        /\ boxes \in [Clients -> Seq(Nat)] /\ listed \in [Clients -> Seq(Nat)]
    <2>1. WorkerActs(w)
      BY DEF WorkerActs
    <2>2. UNCHANGED role
      BY <2>1, WorkerFrame
    <2> QED BY <2>1, <2>2, SessionsAssumption DEF TypeInv, WorkersOK, ListedInv, Listers, Runs
  <1>4. {boxes, listed}' \subseteq [Clients -> Seq(Nat)]
    BY <1>1, <1>2, <1>3
  <1>5. ASSUME NEW d \in Listers, d # c
        PROVE  ListedAt(d)'
    <2>1. /\ d \in Clients /\ listed'[d] = listed[d]
          /\ \A x \in Workers : serving[x] = d => packets'[x] = packets[x]
      BY <1>1, <1>2, <1>3, <1>5
    <2> QED BY <1>1, <1>3, <2>1, ListedWorker
  <1>6. ListedAt(c)'
    <2>1. /\ ListedAt(c) /\ Unlisted(c)
      BY <1>1, <1>2 DEF ListedInv, Unlisted
    <2>2. /\ session[c].data = << >> /\ boxes[c] = << >> /\ client[c] # "done"
          /\ session[c].rd => client[c] \in {"ses_open", "session"} /\ Sorted(boxes[c])
      BY <2>1 DEF ListedAt
    <2>3. PICK l : l = Listing(table)
      OBVIOUS
    <2>4. Len(l) \in Nat /\ Len(table) \in Nat /\ Len(<< >>) = 0
      BY <1>3, <2>3, ListingAt
    <2>5. Follows(<< >>, l, 0) /\ Permutes(<< >>, table)
      BY <2>4, FollowsNone, PermutesNone
    <2>6. Follows(l, l, 0 + 0)
      <3>1. 0 + Len(l) <= Len(l) /\ \A k \in 1 .. Len(l) : 0 + k = k
        BY <2>4
      <3> QED BY <3>1 DEF Follows
    <2>7. ASSUME NEW x \in Workers, serving'[x] = c
          PROVE  packets'[x] = l
      <3>1. x = w
        BY <1>1, <1>2, <1>3, <2>7 DEF RequestOnce
      <3> QED BY <1>1, <1>3, <2>3, <3>1
    <2>8. /\ listed'[c] = table /\ boxes'[c] = << >> /\ session'[c].data = << >>
          /\ client'[c] = client[c] /\ session'[c].rd = session[c].rd
      BY <1>1, <1>2, <1>3, <2>2
    <2>9. /\ Len(boxes'[c]) <= Len(listed'[c]) /\ Permutes(boxes'[c], listed'[c])
          /\ Follows(session'[c].data, Listing(listed'[c]), Len(boxes'[c]))
          /\ \A x \in Workers : serving'[x] = c =>
                 Follows(packets'[x], Listing(listed'[c]), Len(boxes'[c]) + Len(session'[c].data))
      BY <2>3, <2>4, <2>5, <2>6, <2>7, <2>8
    <2>10. Sorted(boxes'[c])
      BY <2>4, <2>8 DEF Sorted
    <2> QED BY <2>2, <2>8, <2>9, <2>10 DEF ListedAt
  <1> QED BY <1>3, <1>4, <1>5, <1>6 DEF ListedInv

\* A packet is sent to a manager that reads.
LEMMA ListedSent ==
    ASSUME TypeInv, RequestsForwarded, RequestOnce, ListedInv, NEW w \in Workers, SendPacket(w)
    PROVE  ListedInv'
  <1>1. /\ packets[w] # << >> /\ UNCHANGED <<client, pending, worker, serving, listed, boxes>>
        /\ \/ /\ session[serving[w]].rd /\ Put(serving[w], Head(packets[w]))
              /\ packets' = [packets EXCEPT ![w] = Tail(packets[w])]
           \/ packets' = [packets EXCEPT ![w] = << >>] /\ UNCHANGED session
    BY Zenon DEF SendPacket, listenerVars
  <1>2. PICK c \in Listers : c = serving[w] /\ worker[w] = "session"
    BY <1>1 DEF TypeInv, WorkersOK
  <1>3. /\ c \in Clients /\ Listers' = Listers /\ Listers \subseteq Clients
        /\ packets \in [Workers -> Seq(Packet)] /\ WorkerActs(w)
        /\ boxes \in [Clients -> Seq(Nat)] /\ listed \in [Clients -> Seq(Nat)]
        /\ session \in [Clients -> Pipe] /\ sent \in [Clients -> Nat]
        /\ {boxes, listed}' \subseteq [Clients -> Seq(Nat)]
    <2>1. WorkerActs(w)
      BY DEF WorkerActs
    <2>2. UNCHANGED role
      BY <2>1, WorkerFrame
    <2> QED BY <1>1, <2>1, <2>2 DEF TypeInv, WorkersOK, PipesOK, ListedInv, Listers, Runs
  <1>4. CASE packets' = [packets EXCEPT ![w] = << >>] /\ UNCHANGED session
    <2>1. ASSUME NEW d \in Listers
          PROVE  ListedAt(d)'
      <3>1. \A x \in Workers : packets'[x] = packets[x] \/ packets'[x] = << >>
        BY <1>3, <1>4
      <3> QED BY <1>1, <1>3, <1>4, <3>1, ListedWorker
    <2> QED BY <1>3, <2>1 DEF ListedInv
  <1>5. CASE /\ session[c].rd /\ Put(c, Head(packets[w]))
             /\ packets' = [packets EXCEPT ![w] = Tail(packets[w])]
    <2>1. PICK q : q = packets[w]
      OBVIOUS
    <2>2. PICK e : e = Head(q)
      OBVIOUS
    <2>3. q \in Seq(Packet) /\ q # << >> /\ e \in Packet
      BY <1>1, <1>3, <2>1, <2>2
    <2>4. /\ OnlyPipe(c) /\ session'[c].data = Append(session[c].data, e)
          /\ Len(session'[c].data) = Len(session[c].data) + 1
          /\ session'[c].rd = session[c].rd
      <3>1. Put(c, e) /\ PipeCapacity \in Nat
        BY <1>5, <2>1, <2>2, SessionsAssumption
      <3> QED BY <1>3, <2>3, <3>1, PipePut
    <2>5. ASSUME NEW d \in Listers, d # c
          PROVE  ListedAt(d)'
      <3>1. /\ d \in Clients /\ session'[d] = session[d] /\ listed'[d] = listed[d]
            /\ \A x \in Workers : serving[x] = d => packets'[x] = packets[x]
        BY <1>1, <1>2, <1>3, <1>5, <2>4, <2>5 DEF OnlyPipe
      <3> QED BY <1>3, <3>1, ListedWorker
    <2>6. ListedAt(c)'
      <3>1. PICK s : s = session[c].data
        OBVIOUS
      <3>2. PICK l : l = Listing(listed[c])
        OBVIOUS
      <3>3. PICK n \in Nat : n = Len(boxes[c])
        BY <1>3
      <3>4. s \in Seq(Packet)
        BY <1>3, <3>1 DEF Pipe
      <3>5. PICK m \in Nat : m = Len(s)
        BY <3>4
      <3>6. client[c] \in {"ses_open", "session"} /\ ListedAt(c)
        BY <1>5 DEF ListedInv, ListedAt
      <3>7. client[c] \notin Ended /\ client[c] # "done"
        BY <3>6 DEF Ended
      <3>8. /\ Sorted(boxes[c]) /\ n <= Len(listed[c]) /\ Permutes(boxes[c], listed[c])
            /\ Follows(s, l, n) /\ Follows(q, l, n + m)
        BY <1>2, <2>1, <3>1, <3>2, <3>3, <3>5, <3>6, <3>7 DEF ListedAt
      <3>9. Len(l) \in Nat
        BY <1>3, <3>2, ListingAt
      <3>10. /\ (n + m) + 1 <= Len(l) /\ e = l[(n + m) + 1]
             /\ Follows(Tail(q), l, (n + m) + 1)
        BY <2>2, <2>3, <3>8, <3>9, FollowsFirst
      <3>11. Follows(Append(s, e), l, n)
        BY <2>3, <3>4, <3>5, <3>8, <3>9, <3>10, FollowsMore
      <3>12. ~Unlisted(c)'
        <4>1. client[c] \notin Unregistered /\ ~Pending(c)
          BY <1>2, <1>3 DEF RequestOnce
        <4>2. \A x \in Workers : serving[x] = c => x = w
          BY <1>2, <1>3 DEF RequestOnce
        <4> QED BY <1>1, <1>2, <4>1, <4>2 DEF Unlisted, Pending
      <3>13. ASSUME NEW x \in Workers, serving'[x] = c
             PROVE  Follows(packets'[x], l, n + (m + 1))
        <4>1. x = w
          BY <1>1, <1>2, <1>3, <3>13 DEF RequestOnce
        <4>2. packets'[x] = Tail(q) /\ n + (m + 1) = (n + m) + 1
          BY <1>3, <1>5, <2>1, <4>1
        <4> QED BY <3>10, <4>2
      <3>14. /\ session'[c].data = Append(s, e) /\ Len(session'[c].data) = m + 1
             /\ client'[c] = client[c] /\ boxes'[c] = boxes[c] /\ listed'[c] = listed[c]
        BY <1>1, <2>4, <3>1, <3>5
      <3>15. /\ Len(boxes'[c]) <= Len(listed'[c]) /\ Permutes(boxes'[c], listed'[c])
             /\ Follows(session'[c].data, Listing(listed'[c]), Len(boxes'[c]))
             /\ \A x \in Workers : serving'[x] = c =>
                    Follows(packets'[x], Listing(listed'[c]), Len(boxes'[c]) + Len(session'[c].data))
        BY <3>2, <3>3, <3>8, <3>11, <3>13, <3>14
      <3> QED BY <3>6, <3>7, <3>8, <3>12, <3>14, <3>15 DEF ListedAt
    <2> QED BY <1>3, <2>5, <2>6 DEF ListedInv
  <1> QED BY <1>1, <1>2, <1>4, <1>5

\* The workers' other steps move no packet of a listing.
LEMMA ListedOther ==
    ASSUME TypeInv, RequestsForwarded, ListedInv, NEW w \in Workers, WorkerActs(w),
           ~ListBoxes(w), ~SendPacket(w)
    PROVE  ListedInv'
  <1>0. /\ UNCHANGED <<role, boxes, listed, packets>> /\ Listers' = Listers /\ Listers \subseteq Clients
        /\ session \in [Clients -> Pipe] /\ sent \in [Clients -> Nat] /\ PipeCapacity \in Nat
        /\ Listers \cap (Publishers \cup Managers \cup Subscribers) = {}
        /\ Publishers \cup Managers \cup Subscribers \subseteq Clients
    BY WorkerFrame, ListedFrame, SessionsAssumption
       DEF TypeInv, PipesOK, Subscribers, Publishers, Managers, Listers, Runs
  <1>1. ASSUME \A d \in Listers : /\ session'[d].data = session[d].data
                                  /\ session'[d].rd => session[d].rd
        PROVE  ListedInv'
    <2>1. \A d \in Listers : ListedAt(d)'
      BY <1>0, <1>1, ListedWorker
    <2> QED BY <1>0, <2>1 DEF ListedInv
  <1>2. ASSUME NEW c \in Clients,
               EnterOpen(c, WorkerEnd(c), ClientEnd(c)) \/ Close(c, WorkerEnd(c))
        PROVE  ListedInv'
    <2>1. ASSUME NEW d \in Listers
          PROVE  session'[d].data = session[d].data /\ (session'[d].rd => session[d].rd)
      <3>1. CASE d = c
        BY <1>0, <1>2, <3>1, PipeOpened, PipeClosed
      <3>2. CASE d # c
        BY <1>0, <1>2, <3>2, PipeOpened, PipeClosed DEF OnlyPipe
      <3> QED BY <3>1, <3>2
    <2> QED BY <1>1, <2>1
  <1>3. ASSUME NEW c \in Clients \ Listers, \A d \in Clients \ {c} : session'[d] = session[d]
        PROVE  ListedInv'
    BY <1>0, <1>1, <1>3
  <1>4. CASE workers_reception(w) \/ ManageBox(w)
    <2>0. ManageBox(w) => serving[w] \in Clients
      BY <1>0 DEF ManageBox
    <2>1. PICK c \in Clients : UNCHANGED session \/ EnterOpen(c, WorkerEnd(c), ClientEnd(c))
      BY <1>4, <2>0, Zenon DEF workers_reception, ManageBox, OpenPipe
    <2> QED BY <1>1, <1>2, <2>1
  <1>5. CASE Accept(w) \/ StoreMessage(w)
    BY <1>1, <1>5 DEF Accept, StoreMessage
  <1>6. CASE \/ Refuse(w) \/ LeaveLocked(w) \/ ListingEnds(w) \/ NotStored(w)
             \/ PublisherGone(w) \/ BoxRemoved(w)
    <2>1. /\ Close(serving[w], WorkerEnd(serving[w]))
          /\ serving[w] \in Publishers \cup Subscribers \cup Listers
      BY <1>6, Zenon DEF Refuse, LeaveLocked, ListingEnds, NotStored, PublisherGone, BoxRemoved,
                         WorkerEnds
    <2> QED BY <1>0, <1>2, <2>1
  <1>7. CASE AnswerManager(w)
    <2> DEFINE c == serving[w]
               q == IF session[c].rd THEN <<0>> ELSE session[c].data
    <2>1. /\ c \in Managers
          /\ session' = [session EXCEPT ![c].wr = FALSE, ![c].data = q]
      BY <1>0, <1>7 DEF AnswerManager
    <2> HIDE DEF q
    <2>2. session' = [session EXCEPT ![c] = [session[c] EXCEPT !.wr = FALSE, !.data = q]]
      BY <2>1, Zenon
    <2>3. c \in Clients \ Listers /\ \A d \in Clients \ {c} : session'[d] = session[d]
      BY <1>0, <2>1, <2>2
    <2> QED BY <1>3, <2>3
  <1>8. CASE ReadMessage(w)
    <2> DEFINE c == serving[w]
    <2>1. c \in Publishers /\ session[c].data # << >> /\ Get(c)
      BY <1>8, Zenon DEF ReadMessage
    <2>2. c \in Clients \ Listers /\ OnlyPipe(c)
      BY <1>0, <2>1, PipeGet
    <2> QED BY <1>3, <2>2 DEF OnlyPipe
  <1>9. CASE SendMessage(w)
    <2>1. PICK c \in Subscribers : Put(c, sent[c] + 1) \/ Close(c, WorkerEnd(c))
      BY <1>9, Zenon DEF SendMessage, WorkerEnds
    <2>2. c \in Clients \ Listers /\ sent[c] + 1 \in Packet
      BY <1>0, <2>1 DEF Packet
    <2>3. OnlyPipe(c)
      BY <1>0, <2>1, <2>2, PipePut, PipeClosed
    <2> QED BY <1>3, <2>2, <2>3 DEF OnlyPipe
  <1> QED BY <1>4, <1>5, <1>6, <1>7, <1>8, <1>9 DEF WorkerActs

\* Killed with the broker, the workers send no more.
LEMMA ListedBrokerKilled ==
    ASSUME TypeInv, ListedInv, BrokerKilled
    PROVE  ListedInv'
  <1>1. /\ UNCHANGED <<role, pending, listed, boxes>>
        /\ worker' = [w \in Workers |-> "dead"] /\ serving' = [w \in Workers |-> NULL]
        /\ session' = [c \in Clients |-> [session[c] EXCEPT ![WorkerEnd(c)] = FALSE]]
        /\ client' = [c \in Clients |-> IF client[c] = "reg_write" /\ main = "created"
                                        THEN "orphaned" ELSE client[c]]
    BY Zenon DEF BrokerKilled
  <1>2. Listers' = Listers /\ Listers \subseteq Clients /\ NULL \notin Clients
    BY <1>1, ListenerAssumption DEF Listers, Runs
  <1>3. ASSUME NEW c \in Listers
        PROVE  ListedAt(c)'
    <2>1. c \in Clients /\ ListedAt(c) /\ session[c] \in Pipe
      BY <1>2 DEF ListedInv, TypeInv, PipesOK
    <2>2. session'[c].data = session[c].data /\ (session'[c].rd => session[c].rd)
      <3>1. session'[c] = [session[c] EXCEPT ![WorkerEnd(c)] = FALSE]
        BY <1>1, <2>1
      <3> QED BY <2>1, <3>1 DEF Pipe, WorkerEnd
    <2>3. \/ client'[c] = client[c]
          \/ client[c] = "reg_write" /\ client'[c] = "orphaned"
      BY <1>1, <2>1
    <2>4. Unlisted(c)' => Unlisted(c)
      BY <1>1, <2>1, <2>3 DEF Unlisted, Pending, Unregistered
    <2>5. \A w \in Workers : serving'[w] # c
      BY <1>1, <1>2, <2>1
    <2>6. session'[c].rd => client'[c] \in {"ses_open", "session"}
      BY <2>1, <2>2, <2>3 DEF ListedAt
    <2>7. /\ client'[c] \notin Ended => client[c] \notin Ended
          /\ client'[c] = "done" <=> client[c] = "done"
      BY <2>3 DEF Ended
    <2> QED BY <1>1, <2>1, <2>2, <2>4, <2>5, <2>6, <2>7, ListedKept
  <1> QED BY <1>1, <1>2, <1>3 DEF ListedInv

ListingInv == RequestOnce /\ ListedInv

\* Nothing is listed yet.
LEMMA ListingInit ==
    ASSUME Init
    PROVE  ListingInv
  <1>1. /\ pending = << >> /\ \A c \in Clients : client[c] = "start"
        /\ \A w \in Workers : serving[w] = NULL /\ packets[w] = << >>
        /\ NULL \notin Clients
    BY ListenerAssumption DEF Init, ListenerInit
  <1>2. RequestOnce
    BY <1>1 DEF RequestOnce, Pending
  <1>3. ASSUME NEW c \in Clients
        PROVE  ListedAt(c)
    <2>1. /\ boxes[c] = << >> /\ listed[c] = << >> /\ session[c].data = << >> /\ ~session[c].rd
          /\ client[c] = "start"
      BY DEF Init, ListenerInit, NewPipe
    <2>2. PICK l : l = Listing(<< >>)
      OBVIOUS
    <2>3. Len(l) \in Nat /\ Len(<< >>) = 0 /\ << >> \in Seq(Nat)
      BY <2>2, ListingAt
    <2>4. Follows(<< >>, l, 0) /\ Permutes(<< >>, << >>)
      BY <2>3, FollowsNone, PermutesNone
    <2>5. Sorted(<< >>)
      BY <2>3 DEF Sorted
    <2>6. \A w \in Workers : serving[w] # c
      BY <1>1
    <2> QED BY <2>1, <2>2, <2>3, <2>4, <2>5, <2>6 DEF ListedAt
  <1>4. {boxes, listed} \subseteq [Clients -> Seq(Nat)]
    BY DEF Init
  <1> QED BY <1>2, <1>3, <1>4 DEF ListingInv, ListedInv, Listers, Runs

\* Every step keeps the requests in one place and the listings whole.
LEMMA ListingStep ==
    ASSUME SessionsInv, ListingInv, [Next]_vars
    PROVE  ListingInv'
  <1>0. TypeInv /\ RequestsForwarded /\ RequestOnce /\ ListedInv /\ Listers \subseteq Clients
    BY DEF SessionsInv, ListingInv, Listers, Runs
  <1>1. CASE UNCHANGED vars
    BY <1>1 DEF vars, listenerVars, mainVars, input, listing, ListingInv, RequestOnce, Pending,
                ListedInv, ListedAt, Unlisted, Listers, Runs
  <1>2. CASE Next
    <2>1. RequestOnce'
      BY <1>0, <1>2, RequestOnceStep
    <2>2. CASE MainStep
      <3>1. UNCHANGED <<role, client, pending, worker, serving, packets, session, boxes, listed>>
        BY <2>2, MainFrame, ListedFrame
      <3>2. ListedInv'
        BY <1>0, <3>1 DEF ListedInv, ListedAt, Unlisted, Pending, Listers, Runs
      <3> QED BY <2>1, <3>2 DEF ListingInv
    <2>3. CASE BrokerKilled
      BY <1>0, <2>1, <2>3, ListedBrokerKilled DEF ListingInv
    <2>4. ASSUME NEW c \in Clients, ClientActs(c)
          PROVE  ListedInv'
      <3>1. UNCHANGED <<role, serving, packets, listed>> /\ Listers' = Listers
        BY <2>4, ClientFrame, ListedFrame DEF Listers, Runs
      <3>2. MgrList(c) => c \in Listers
        BY DEF MgrList
      <3>3. /\ boxes' \in [Clients -> Seq(Nat)]
            /\ \A d \in Clients \ {c} : boxes'[d] = boxes[d]
        BY <1>0, <2>4, <3>2, ListedRead, ListedFrame DEF ListedInv
      <3>4. c \in Listers => ListedAt(c)'
        BY <1>0, <2>4, ListedRead, ListedClient
      <3>5. ASSUME NEW d \in Listers, d # c
            PROVE  ListedAt(d)'
        <4>1. d \in Clients \ {c} /\ ListedAt(d)
          BY <1>0, <3>5 DEF ListedInv
        <4>2. client'[d] = client[d] /\ session'[d] = session[d]
          BY <1>0, <2>4, <4>1, ClientPipes, RegistersOnce DEF TypeInv
        <4>3. session'[d].rd => client'[d] \in {"ses_open", "session"}
          BY <4>1, <4>2 DEF ListedAt
        <4>4. Unlisted(d)' => Unlisted(d)
          BY <1>0, <2>4, <4>1, UnlistedClient
        <4> QED BY <1>0, <3>1, <3>3, <4>1, <4>2, <4>3, <4>4, ListedKept
      <3>6. listed' \in [Clients -> Seq(Nat)]
        BY <1>0, <3>1 DEF ListedInv
      <3> QED BY <3>1, <3>3, <3>4, <3>5, <3>6 DEF ListedInv
    <2>5. ASSUME NEW w \in Workers, WorkerActs(w)
          PROVE  ListedInv'
      BY <1>0, <2>5, ListedMade, ListedSent, ListedOther
    <2> QED BY <1>2, <2>1, <2>2, <2>3, <2>4, <2>5, Steps DEF ListingInv
  <1> QED BY <1>1, <1>2

\* Every request is in one place, and what a manager has read, what is in its pipe and
\* what its worker has yet to send are together the listing that was made for it.
THEOREM ListingInvariant == Spec => []ListingInv
  <1>1. Init => ListingInv
    BY ListingInit
  <1>2. SessionsInv /\ ListingInv /\ [Next]_vars => ListingInv'
    BY ListingStep
  <1> QED BY <1>1, <1>2, SessionsInvariant, PTL DEF Spec

\* manager_handle_box_listing prints the boxes listed for it, each as often as it was
\* listed and sorted by name: sorted_insert keeps the order, and loses and doubles none.
THEOREM BoxesListedSorted == Spec => []ListingSorted
  <1>1. SessionsInv /\ ListingInv => ListingSorted
    <2>1. ASSUME ListingInv, NEW c \in Listers, client[c] = "done"
          PROVE  /\ \A k \in 2 .. Len(boxes[c]) : boxes[c][k - 1] <= boxes[c][k]
                 /\ \A b \in Range(boxes[c]) \cup Range(Named(listed[c])) :
                        Cardinality({k \in DOMAIN boxes[c] : boxes[c][k] = b})
                          = Cardinality({k \in DOMAIN Named(listed[c]) : Named(listed[c])[k] = b})
      <3>1. PICK u : u = Named(listed[c])
        OBVIOUS
      <3>2. boxes[c] \in Seq(Nat) /\ listed[c] \in Seq(Nat) /\ ListedAt(c)
        BY <2>1 DEF ListingInv, ListedInv, Listers, Runs
      <3>3. u \in Seq(Nat)
        <4>1. CASE u = listed[c]
          BY <3>2, <4>1
        <4>2. CASE u = Front(listed[c]) /\ listed[c] # << >>
          BY <3>2, <4>2 DEF Front
        <4> QED BY <3>1, <4>1, <4>2 DEF Named
      <3>4. Sorted(boxes[c]) /\ Len(boxes[c]) = Len(u) /\ Permutes(boxes[c], u)
        BY <2>1, <3>1, <3>2 DEF ListedAt
      <3>5. \A b : Cardinality({k \in DOMAIN boxes[c] : boxes[c][k] = b})
                     = Cardinality({k \in DOMAIN u : u[k] = b})
        BY <3>2, <3>3, <3>4, PermutesCounts
      <3> QED BY <3>1, <3>4, <3>5, Zenon DEF Sorted
    <2> QED BY <2>1 DEF ListingSorted, Named
  <1> QED BY <1>1, SessionsInvariant, ListingInvariant, PTL

=============================================================================
