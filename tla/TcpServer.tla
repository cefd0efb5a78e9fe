------------------------------- MODULE TcpServer -------------------------------
(***************************************************************************)
(* The server side of the transport (TcpServer in engine/src/               *)
(* tcp_forwarder.cpp): the thread that accepts, a thread per connection,    *)
(* and Stop, which another thread calls.  Threads name a socket by its      *)
(* descriptor number and the system finds the socket when it is called; a   *)
(* closed number may be given to a new socket of the process, of this       *)
(* server or not.  A thread that waits in accept or recv keeps the socket   *)
(* it found.                                                                *)
(***************************************************************************)
EXTENDS Wire

CONSTANTS
  Conn,      \* the connections clients open, each of one frame after another
  Other,     \* sockets that other parts of the process open
  Fd,        \* descriptor numbers, enough for all sockets
  ListenFd,  \* the one the listening socket gets
  Listener, Free, NoFd,
  Oversized, \* a frame of more than kMaxFrameBytes
  Frames,    \* what clients send: byte sequences, or Oversized
  Answered(_),  \* the handler, Gateway::Execute
  MalformedAnswer,
  Environments  \* see Environment

(* reuse: the number of a closed descriptor is given away again.            *)
(* wakes: closing a descriptor ends the accept and recv that wait on it, as *)
(* with Winsock; Linux lets them wait.                                      *)
(* conns, sends: which connections are opened, and the frames each client   *)
(* sends, if it stays so long (bounds).                                     *)
Environment ==
  [reuse : BOOLEAN, wakes : BOOLEAN, conns : SUBSET Conn, sends : [Conn -> Seq(Frames)]]

ASSUME TcpServerAssumption ==
  /\ Fd \subseteq Nat
  /\ ListenFd \in Fd
  /\ NoFd \notin Fd
  /\ Free \notin Conn \cup Other \cup {Listener}
  /\ Listener \notin Conn \cup Other
  /\ Conn \cap Other = {}
  /\ Oversized # <<>>
  /\ Environments \subseteq Environment

VARIABLES
  env,          \* the environment, which does not change
  descriptor,   \* the process's open sockets by number
  used,         \* numbers that are not given away again
  running,      \* running_
  stop,         \* where Stop is
  closing,      \* the part of open_connections_ it has yet to close
  acceptor,     \* the accepting thread: where it is, and what it accepted
  registered,   \* open_connections_
  worker,       \* each connection's thread: where it is, its number, the
                \* socket its recv found, what it is about to send
  link,         \* each connection: its stage, whether its client left, what
                \* the client sent, whether of the last frame only the header,
                \* how many frames were read, whether the header of the next
                \* was, and the answers that arrived
  foreign       \* ghost: a thread used a socket that was not its own

kernel == <<descriptor, used, link>>
vars == <<env, kernel, running, stop, closing, acceptor, registered, worker, foreign>>

Socket == Conn \cup Other \cup {Listener}
Numbers(s) == { fd \in Fd : descriptor[fd] = s }
IsOpen(s) == Numbers(s) # {}

Init ==
  /\ env \in Environments
  /\ descriptor = [fd \in Fd |-> Free]
  /\ used = {}
  /\ running = FALSE
  /\ stop = "idle"
  /\ closing = <<>>
  /\ acceptor = [at |-> "none", conn |-> Free, fd |-> NoFd]
  /\ registered = <<>>
  /\ worker = [c \in Conn |-> [at |-> "none", fd |-> NoFd, on |-> Free, answer |-> <<>>]]
  /\ link = [c \in Conn |-> [stage |-> "new", left |-> FALSE,
                          sent |-> <<>>, bodiless |-> FALSE,
                          read |-> 0, headed |-> FALSE, received |-> <<>>]]
  /\ foreign = FALSE

----------------------------------------------------------------------------
(* The system *)

(* The system gives away the smallest number it may; to sockets of others,  *)
(* which come and go, any.                                                  *)
Available == { fd \in Fd : descriptor[fd] = Free /\ fd \notin used }
Smallest == { fd \in Available : \A other \in Available : fd <= other }

Opens(fd, s) ==
  /\ descriptor' = [descriptor EXCEPT ![fd] = s]
  /\ used' = IF env.reuse THEN used ELSE used \cup {fd}

(* close(2) of a number by the thread of socket s: whatever has it is closed *)
Closes(fd, s) ==
  /\ descriptor' = [descriptor EXCEPT ![fd] = Free]
  /\ foreign' = (foreign \/ descriptor[fd] \notin {s, Free})
  /\ UNCHANGED used

(* One opened before Stop has a number nobody else uses until it is closed  *)
OpenOther(o) ==
  /\ ~IsOpen(o)
  /\ stop # "idle"
  /\ \E fd \in Available : Opens(fd, o)
  /\ UNCHANGED <<env, running, stop, closing, acceptor, registered, worker, link, foreign>>

----------------------------------------------------------------------------
(* The clients *)

ClientOnly ==
  UNCHANGED <<env, descriptor, used, running, stop, closing, acceptor, registered, worker, foreign>>

(* On Linux a thread that waits in accept keeps the closed socket listening *)
Listening == IsOpen(Listener) \/ (~env.wakes /\ acceptor.at = "accept")

Connect(c) ==
  /\ c \in env.conns
  /\ link[c].stage = "new"
  /\ Listening
  /\ link' = [link EXCEPT ![c].stage = "queued"]
  /\ ClientOnly

Connected(c) == link[c].stage # "new" /\ ~link[c].left

(* A frame is sent in two parts, its length and its bytes (SendFrame) *)
SendRequest(c) ==
  /\ Connected(c)
  /\ ~link[c].bodiless
  /\ Len(link[c].sent) < Len(env.sends[c])
  /\ link' = [link EXCEPT ![c].sent = Append(@, env.sends[c][Len(@) + 1]),
                          ![c].bodiless = TRUE]
  /\ ClientOnly

SendRest(c) ==
  /\ Connected(c)
  /\ link[c].bodiless
  /\ link' = [link EXCEPT ![c].bodiless = FALSE]
  /\ ClientOnly

HangUp(c) ==
  /\ Connected(c)
  /\ link' = [link EXCEPT ![c].left = TRUE]
  /\ ClientOnly

----------------------------------------------------------------------------
(* Start, and the accepting thread (AcceptLoop) *)

Start ==
  /\ acceptor.at = "none"
  /\ ~running /\ stop = "idle"
  /\ Opens(ListenFd, Listener)
  /\ running' = TRUE
  /\ acceptor' = [acceptor EXCEPT !.at = "loop"]
  /\ UNCHANGED <<env, stop, closing, registered, worker, link, foreign>>

AcceptorAt(at) == acceptor.at = at
AcceptorGoes(at) == acceptor' = [acceptor EXCEPT !.at = at]
AcceptorOnly == UNCHANGED <<env, kernel, running, stop, closing, registered, worker, foreign>>

AcceptLoop ==
  /\ AcceptorAt("loop")
  /\ AcceptorGoes(IF running THEN "call" ELSE "returned")
  /\ AcceptorOnly

(* accept(2) fails at once, or waits *)
CallAccept ==
  /\ AcceptorAt("call")
  /\ AcceptorGoes(IF IsOpen(Listener) THEN "accept" ELSE "loop")
  /\ AcceptorOnly

AcceptWakes ==
  /\ AcceptorAt("accept")
  /\ env.wakes /\ ~IsOpen(Listener)
  /\ AcceptorGoes("loop")
  /\ AcceptorOnly

Accept(c) ==
  /\ AcceptorAt("accept")
  /\ link[c].stage = "queued"
  /\ Listening
  /\ \E fd \in Smallest :
       /\ Opens(fd, c)
       /\ acceptor' = [at |-> "accepted", conn |-> c, fd |-> fd]
  /\ link' = [link EXCEPT ![c].stage = "accepted"]
  /\ UNCHANGED <<env, running, stop, closing, registered, worker, foreign>>

(* Stop has begun: the connection is refused *)
Refuse ==
  /\ AcceptorAt("accepted")
  /\ ~running
  /\ Closes(acceptor.fd, acceptor.conn)
  /\ AcceptorGoes("loop")
  /\ UNCHANGED <<env, link, running, stop, closing, registered, worker>>

Admit ==
  /\ AcceptorAt("accepted")
  /\ running
  /\ AcceptorGoes("register")
  /\ AcceptorOnly

Register ==
  /\ AcceptorAt("register")
  /\ registered' = Append(registered, acceptor.fd)
  /\ AcceptorGoes("spawn")
  /\ UNCHANGED <<env, kernel, running, stop, closing, worker, foreign>>

\* Mutant: the accepting thread closes the socket it has handed over
SpawnClosing ==
  /\ AcceptorAt("spawn")
  /\ worker' = [worker EXCEPT ![acceptor.conn].at = "loop", ![acceptor.conn].fd = acceptor.fd]
  /\ Closes(acceptor.fd, acceptor.conn)
  /\ AcceptorGoes("loop")
  /\ UNCHANGED <<env, link, running, stop, closing, registered>>

Spawn ==
  /\ AcceptorAt("spawn")
  /\ worker' = [worker EXCEPT ![acceptor.conn].at = "loop", ![acceptor.conn].fd = acceptor.fd]
  /\ AcceptorGoes("loop")
  /\ UNCHANGED <<env, kernel, running, stop, closing, registered, foreign>>

----------------------------------------------------------------------------
(* A connection's thread (HandleConnection) *)

WorkerAt(c, at) == worker[c].at = at
WorkerGoes(c, at) == worker' = [worker EXCEPT ![c].at = at]
Here(c) == descriptor[worker[c].fd]
WorkerOnly == UNCHANGED <<env, descriptor, used, running, stop, closing, acceptor, registered>>

ServeLoop(c) ==
  /\ WorkerAt(c, "loop")
  /\ WorkerGoes(c, IF running THEN "call" ELSE "close")
  /\ UNCHANGED <<link, foreign>> /\ WorkerOnly

(* RecvFrame calls recv for the length, and again for the bytes.  Each call *)
(* finds the socket its number has by then, or fails.                       *)
Receiving == {"recv", "recv_rest"}

CallRecv(c) ==
  /\ worker[c].at \in {"call", "call_rest"}
  /\ worker' = [worker EXCEPT
       ![c].at = IF Here(c) = Free THEN "close"
                 ELSE IF worker[c].at = "call" THEN "recv" ELSE "recv_rest",
       ![c].on = Here(c)]
  /\ foreign' = (foreign \/ Here(c) \notin {c, Free})
  /\ UNCHANGED link /\ WorkerOnly

(* There is something to read on connection d: the length of a frame or,    *)
(* where that has been read, its bytes                                      *)
Readable(d) ==
  /\ d \in Conn
  /\ link[d].read < Len(link[d].sent)
  /\ link[d].headed => ~(link[d].bodiless /\ link[d].read + 1 = Len(link[d].sent))

RecvFails(c) ==
  /\ worker[c].at \in Receiving
  /\ \/ worker[c].on \in Conn /\ link[worker[c].on].left /\ ~Readable(worker[c].on)
     \/ env.wakes /\ ~IsOpen(worker[c].on)
  /\ worker' = [worker EXCEPT ![c].at = "close", ![c].on = Free]
  /\ UNCHANGED <<link, foreign>> /\ WorkerOnly

NextFrame(d) == link[d].sent[link[d].read + 1]
TakesFrame(d) == link' = [link EXCEPT ![d].read = @ + 1, ![d].headed = FALSE]

AnswerTo(frame) ==
  EncodeResponse(IF DecodeRequest(frame) = Malformed THEN MalformedAnswer
                 ELSE Answered(DecodeRequest(frame)))

(* The length: too much ends the connection, and zero is a frame already *)
RecvLength(c) ==
  LET d == worker[c].on IN
  /\ WorkerAt(c, "recv")
  /\ Readable(d) /\ ~link[d].headed
  /\ \/ /\ NextFrame(d) = Oversized
        /\ worker' = [worker EXCEPT ![c].at = "close", ![c].on = Free]
        /\ UNCHANGED link
     \/ /\ NextFrame(d) = <<>>
        /\ worker' = [worker EXCEPT ![c].at = "send", ![c].on = Free, ![c].answer = AnswerTo(<<>>)]
        /\ TakesFrame(d)
     \/ /\ NextFrame(d) \notin {Oversized, <<>>}
        /\ worker' = [worker EXCEPT ![c].at = "call_rest", ![c].on = Free]
        /\ link' = [link EXCEPT ![d].headed = TRUE]
  /\ UNCHANGED foreign /\ WorkerOnly

\* Mutant: a frame that does not decode is dropped, and the next one read
RecvRestDropping(c) ==
  LET d == worker[c].on IN
  /\ WorkerAt(c, "recv_rest")
  /\ Readable(d) /\ link[d].headed
  /\ worker' = [worker EXCEPT
       ![c].at = IF DecodeRequest(NextFrame(d)) = Malformed THEN "loop" ELSE "send",
       ![c].on = Free, ![c].answer = AnswerTo(NextFrame(d))]
  /\ TakesFrame(d)
  /\ UNCHANGED foreign /\ WorkerOnly

RecvRest(c) ==
  LET d == worker[c].on IN
  /\ WorkerAt(c, "recv_rest")
  /\ Readable(d) /\ link[d].headed
  /\ worker' = [worker EXCEPT ![c].at = "send", ![c].on = Free,
                              ![c].answer = AnswerTo(NextFrame(d))]
  /\ TakesFrame(d)
  /\ UNCHANGED foreign /\ WorkerOnly

(* Where the number was given to another part of the process, what is read  *)
(* there may be anything                                                    *)
RecvForeign(c) ==
  /\ worker[c].at \in Receiving
  /\ worker[c].on \in Other
  /\ \E at \in {"close", "send"} \cup (IF WorkerAt(c, "recv") THEN {"call_rest"} ELSE {}) :
       worker' = [worker EXCEPT ![c].at = at, ![c].on = Free,
                                ![c].answer = EncodeResponse(MalformedAnswer)]
  /\ UNCHANGED <<link, foreign>> /\ WorkerOnly

(* send(2), of the length and then of the bytes, finds the socket of the    *)
(* number now; to a client that has left it succeeds or fails.              *)
SendFrame(c) ==
  /\ worker[c].at \in {"send", "send_rest"}
  /\ \/ /\ Here(c) # Free
        /\ WorkerAt(c, "send")
        /\ WorkerGoes(c, "send_rest")
        /\ UNCHANGED link
     \/ /\ Here(c) # Free
        /\ WorkerAt(c, "send_rest")
        /\ worker' = [worker EXCEPT ![c].at = "loop", ![c].answer = <<>>]
        /\ link' = IF Here(c) \in Conn
                   THEN [link EXCEPT ![Here(c)].received = Append(@, worker[c].answer)]
                   ELSE link
     \/ /\ Here(c) = Free \/ Here(c) = Listener \/ (Here(c) \in Conn /\ link[Here(c)].left)
        /\ worker' = [worker EXCEPT ![c].at = "close", ![c].answer = <<>>]
        /\ UNCHANGED link
  /\ foreign' = (foreign \/ Here(c) \notin {c, Free})
  /\ WorkerOnly

CloseConnection(c) ==
  /\ WorkerAt(c, "close")
  /\ Closes(worker[c].fd, c)
  /\ WorkerGoes(c, "erase")
  /\ UNCHANGED <<env, link, running, stop, closing, acceptor, registered>>

\* Mutant: the last connection is erased, whichever ended
ErasedLast(connections, fd) ==
  IF connections = <<>> THEN <<>> ELSE SubSeq(connections, 1, Len(connections) - 1)

(* std::remove, and erase *)
Erased(connections, fd) ==
  LET kept[i \in 0 .. Len(connections)] ==
        IF i = 0 THEN <<>>
        ELSE IF connections[i] = fd THEN kept[i - 1]
        ELSE Append(kept[i - 1], connections[i])
  IN  kept[Len(connections)]

(* connections_mutex_ is Stop's while it closes connections *)
Erase(c) ==
  /\ WorkerAt(c, "erase")
  /\ stop # "close_connections"
  /\ registered' = Erased(registered, worker[c].fd)
  /\ WorkerGoes(c, "done")
  /\ UNCHANGED <<env, kernel, running, stop, closing, acceptor, foreign>>

----------------------------------------------------------------------------
(* Stop *)

StopOnly == UNCHANGED <<env, link, acceptor, worker>>

\* Mutant: running_ is read, not exchanged
BeginStopReading ==
  /\ stop = "idle"
  /\ running
  /\ stop' = "close_listener"
  /\ UNCHANGED <<descriptor, used, running, closing, registered, foreign>> /\ StopOnly

BeginStop ==
  /\ stop = "idle"
  /\ running
  /\ running' = FALSE
  /\ stop' = "close_listener"
  /\ UNCHANGED <<descriptor, used, closing, registered, foreign>> /\ StopOnly

CloseListener ==
  /\ stop = "close_listener"
  /\ Closes(ListenFd, Listener)
  /\ stop' = "join_acceptor"
  /\ UNCHANGED <<running, closing, registered>> /\ StopOnly

\* Mutant: Stop does not wait for the accepting thread
AcceptorJoinedEarly == TRUE

AcceptorJoined == AcceptorAt("returned")

JoinAcceptor ==
  /\ stop = "join_acceptor"
  /\ AcceptorJoined
  /\ stop' = "close_connections"
  /\ closing' = registered
  /\ UNCHANGED <<descriptor, used, running, registered, foreign>> /\ StopOnly

CloseNext ==
  /\ stop = "close_connections"
  /\ closing # <<>>
  /\ descriptor' = [descriptor EXCEPT ![Head(closing)] = Free]
  /\ foreign' = (foreign \/ descriptor[Head(closing)] \in Other)
  /\ closing' = Tail(closing)
  /\ UNCHANGED <<used, running, stop, registered>> /\ StopOnly

ClearConnections ==
  /\ stop = "close_connections"
  /\ closing = <<>>
  /\ registered' = <<>>
  /\ stop' = "join_workers"
  /\ UNCHANGED <<descriptor, used, running, closing, foreign>> /\ StopOnly

WorkersJoined == \A c \in Conn : worker[c].at \in {"none", "done"}

JoinWorkers ==
  /\ stop = "join_workers"
  /\ WorkersJoined
  /\ stop' = "stopped"
  /\ UNCHANGED <<descriptor, used, running, closing, registered, foreign>> /\ StopOnly

----------------------------------------------------------------------------

AcceptorStep ==
  AcceptLoop \/ CallAccept \/ AcceptWakes \/ Refuse \/ Admit \/ Register \/ Spawn
    \/ \E c \in Conn : Accept(c)
WorkerStep(c) ==
  ServeLoop(c) \/ CallRecv(c) \/ RecvFails(c) \/ RecvLength(c) \/ RecvRest(c) \/ RecvForeign(c)
    \/ SendFrame(c) \/ CloseConnection(c) \/ Erase(c)
StopStep == CloseListener \/ JoinAcceptor \/ CloseNext \/ ClearConnections \/ JoinWorkers
ClientStep(c) == Connect(c) \/ SendRequest(c) \/ SendRest(c) \/ HangUp(c)

Next ==
  \/ Start \/ BeginStop \/ AcceptorStep \/ StopStep
  \/ \E o \in Other : OpenOther(o)
  \/ \E c \in Conn : WorkerStep(c) \/ ClientStep(c)

(* Every thread runs on; Stop runs on once it was called.  Clients promise  *)
(* nothing.                                                                 *)
Fairness ==
  /\ WF_vars(AcceptorStep)
  /\ WF_vars(StopStep)
  /\ \A c \in Conn : WF_vars(WorkerStep(c))

Spec == Init /\ [][Next]_vars /\ Fairness
================================================================================
