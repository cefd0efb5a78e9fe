---------------------------- MODULE TcpServerProofs ----------------------------
(***************************************************************************)
(* Proofs about TcpServer, for any connections, numbers, frames, handler    *)
(* and environments.                                                        *)
(*                                                                          *)
(* Held: every open connection has a holder, which will close it: the       *)
(* accepting thread until it starts the connection's thread, then that one. *)
(* This is so also where numbers are given away again.                      *)
(*                                                                          *)
(* Owned: a holder's number names the holder's socket.  Where numbers are   *)
(* given away again this ends when Stop closes numbers of other threads;    *)
(* with fresh ones it then names that socket or nothing, and no number has  *)
(* two holders.  From it follows whose socket a thread uses, whose answer   *)
(* it sends (Told) and whose number it erases (Kept).                       *)
(***************************************************************************)
EXTENDS TcpServerProperties, WireProofs

Shaped ==
  /\ DOMAIN descriptor = Fd
  /\ DOMAIN worker = Conn
  /\ \A c \in Conn : {"at", "fd", "on", "answer"} \subseteq DOMAIN worker[c]
  /\ DOMAIN link = Conn
  /\ \A c \in Conn : "stage" \in DOMAIN link[c]
  /\ DOMAIN acceptor = {"at", "conn", "fd"}

Accepted == acceptor.at \in {"accepted", "register", "spawn"}
AcceptorHolds(c, fd) == Accepted /\ acceptor.conn = c /\ acceptor.fd = fd
WorkerHolds(c, fd) ==
  /\ worker[c].at \in {"loop", "call", "recv", "call_rest", "recv_rest", "send", "send_rest", "close"}
  /\ worker[c].fd = fd

(* A connection is accepted once *)
AcceptedOnce ==
  /\ \A c \in Conn : worker[c].at # "none" => link[c].stage = "accepted"
  /\ Accepted =>
       /\ acceptor.conn \in Conn
       /\ link[acceptor.conn].stage = "accepted"
       /\ worker[acceptor.conn].at = "none"

OpenIsHeld ==
  \A fd \in Fd :
    /\ \A c \in Conn : descriptor[fd] = c => AcceptorHolds(c, fd) \/ WorkerHolds(c, fd)
    /\ descriptor[fd] = Listener => fd = ListenFd /\ stop \in {"idle", "close_listener"}

(* What Stop has waited for *)
Joined ==
  /\ stop \in {"close_connections", "join_workers", "stopped"} => acceptor.at = "returned"
  /\ stop = "stopped" => WorkersJoined

Held == Shaped /\ AcceptedOnce /\ OpenIsHeld /\ Joined

(* What a thread that received something changes of itself *)
LEMMA ReceivedOnly ==
  ASSUME Shaped, NEW c \in Conn, RecvLength(c) \/ RecvRest(c) \/ RecvForeign(c)
  PROVE  /\ UNCHANGED <<env, descriptor, used, running, stop, closing, acceptor, registered>>
         /\ worker[c].at \in {"recv", "recv_rest"} /\ worker'[c].at \in {"close", "call_rest", "send"}
         /\ worker'[c].fd = worker[c].fd
         /\ DOMAIN worker' = Conn /\ {"at", "fd", "on", "answer"} \subseteq DOMAIN worker'[c]
         /\ \A d \in Conn \ {c} : worker'[d] = worker[d]
<1>0. DOMAIN worker = Conn /\ {"at", "fd", "on", "answer"} \subseteq DOMAIN worker[c]
  BY DEF Shaped
<1>1. CASE RecvLength(c)
  <2>1. /\ UNCHANGED <<env, descriptor, used, running, stop, closing, acceptor, registered>>
        /\ worker[c].at = "recv"
    BY <1>1 DEF RecvLength, WorkerOnly, WorkerAt
  <2>2. \/ worker' = [worker EXCEPT ![c].at = "close", ![c].on = Free]
        \/ worker' = [worker EXCEPT ![c].at = "send", ![c].on = Free, ![c].answer = AnswerTo(<<>>)]
        \/ worker' = [worker EXCEPT ![c].at = "call_rest", ![c].on = Free]
    BY <1>1 DEF RecvLength
  <2> QED
    BY <1>0, <2>1, <2>2
<1>2. CASE RecvRest(c)
  <2>1. /\ UNCHANGED <<env, descriptor, used, running, stop, closing, acceptor, registered>>
        /\ worker[c].at = "recv_rest"
        /\ \E x : worker' = [worker EXCEPT ![c].at = "send", ![c].on = Free, ![c].answer = x]
    BY <1>2 DEF RecvRest, WorkerOnly, WorkerAt
  <2> QED
    BY <1>0, <2>1
<1>3. CASE RecvForeign(c)
  <2>1. /\ UNCHANGED <<env, descriptor, used, running, stop, closing, acceptor, registered>>
        /\ worker[c].at \in {"recv", "recv_rest"}
    BY <1>3 DEF RecvForeign, WorkerOnly, Receiving
  <2>2. PICK at \in {"close", "send", "call_rest"} :
          worker' = [worker EXCEPT ![c].at = at, ![c].on = Free,
                                   ![c].answer = EncodeResponse(MalformedAnswer)]
    BY <1>3 DEF RecvForeign
  <2> QED
    BY <1>0, <2>1, <2>2
<1> QED
  BY <1>1, <1>2, <1>3

LEMMA HeldInit == Init => Held
<1> SUFFICES ASSUME Init PROVE Held
  OBVIOUS
<1>1. Shaped
  BY DEF Init, Shaped
<1>2. AcceptedOnce
  BY DEF Init, AcceptedOnce, Accepted
<1>3. OpenIsHeld
  BY TcpServerAssumption DEF Init, OpenIsHeld
<1>4. Joined
  BY DEF Init, Joined
<1> QED
  BY <1>1, <1>2, <1>3, <1>4 DEF Held

LEMMA HeldByKernelAndClients ==
  ASSUME Held,
         \/ Start \/ \E o \in Other : OpenOther(o)
         \/ \E c \in Conn : ClientStep(c)
  PROVE  Held'
<1> USE DEF Held
<1>1. CASE Start
  <2>1. /\ descriptor' = [descriptor EXCEPT ![ListenFd] = Listener]
        /\ acceptor' = [acceptor EXCEPT !.at = "loop"] /\ acceptor.at = "none"
        /\ stop = "idle" /\ UNCHANGED <<stop, worker, link>>
    BY <1>1 DEF Start, Opens
  <2>2. Shaped' /\ ~Accepted /\ ~Accepted'
    BY <2>1 DEF Shaped, Accepted
  <2> QED
    BY <2>1, <2>2, TcpServerAssumption
       DEF AcceptedOnce, OpenIsHeld, Joined, AcceptorHolds, WorkerHolds, Shaped
<1>2. CASE \E o \in Other : OpenOther(o)
  <2>1. PICK o \in Other, fd \in Fd :
          /\ descriptor' = [descriptor EXCEPT ![fd] = o]
          /\ UNCHANGED <<stop, acceptor, worker, link>>
    BY <1>2 DEF OpenOther, Opens, Available
  <2>2. Shaped' /\ AcceptedOnce' /\ Joined'
    BY <2>1 DEF Shaped, AcceptedOnce, Joined, Accepted, WorkersJoined
  <2>3. \A x \in Fd : descriptor'[x] = descriptor[x] \/ descriptor'[x] \notin Conn \cup {Listener}
    BY <2>1, TcpServerAssumption DEF Shaped
  <2>4. OpenIsHeld'
    BY <2>1, <2>3 DEF OpenIsHeld, Accepted, AcceptorHolds, WorkerHolds
  <2> QED
    BY <2>2, <2>4
<1>3. CASE \E c \in Conn : ClientStep(c)
  <2>1. UNCHANGED <<descriptor, stop, acceptor, worker>>
    BY <1>3 DEF ClientStep, Connect, SendRequest, SendRest, HangUp, ClientOnly
  <2>2. /\ DOMAIN link' = Conn
        /\ \A d \in Conn : /\ "stage" \in DOMAIN link'[d]
                           /\ link[d].stage = "accepted" => link'[d].stage = "accepted"
    <3>1. PICK c \in Conn :
            \/ link[c].stage = "new" /\ link' = [link EXCEPT ![c].stage = "queued"]
            \/ \E frames : link' = [link EXCEPT ![c].sent = frames, ![c].bodiless = TRUE]
            \/ link' = [link EXCEPT ![c].bodiless = FALSE]
            \/ link' = [link EXCEPT ![c].left = TRUE]
      BY <1>3 DEF ClientStep, Connect, SendRequest, SendRest, HangUp
    <3>2. DOMAIN link = Conn /\ \A d \in Conn : "stage" \in DOMAIN link[d]
      BY DEF Shaped
    <3>3. CASE link[c].stage = "new" /\ link' = [link EXCEPT ![c].stage = "queued"]
      BY <3>2, <3>3
    <3>4. ASSUME NEW frames, link' = [link EXCEPT ![c].sent = frames, ![c].bodiless = TRUE]
          PROVE  /\ DOMAIN link' = Conn
                 /\ \A d \in Conn : "stage" \in DOMAIN link'[d] /\ link'[d].stage = link[d].stage
      BY <3>2, <3>4
    <3>5. CASE link' = [link EXCEPT ![c].bodiless = FALSE] \/ link' = [link EXCEPT ![c].left = TRUE]
      BY <3>2, <3>5
    <3> QED
      BY <3>1, <3>3, <3>4, <3>5
  <2> QED
    BY <2>1, <2>2
       DEF Shaped, AcceptedOnce, OpenIsHeld, Joined, Accepted, AcceptorHolds, WorkerHolds,
           WorkersJoined
<1> QED
  BY <1>1, <1>2, <1>3

(* The steps of the accepting thread that open, close and hand over nothing *)
LEMMA HeldByAcceptorAlone ==
  ASSUME Held, UNCHANGED <<descriptor, stop, worker, link>>,
         acceptor' = [acceptor EXCEPT !.at = acceptor'.at],
         acceptor.at # "returned" \/ acceptor'.at = "returned",
         Accepted' <=> Accepted
  PROVE  Held'
<1>1. Shaped'
  BY DEF Held, Shaped
<1>2. acceptor'.conn = acceptor.conn /\ acceptor'.fd = acceptor.fd
  BY DEF Held, Shaped
<1> QED
  BY <1>1, <1>2 DEF Held, AcceptedOnce, OpenIsHeld, Joined, AcceptorHolds, WorkerHolds, WorkersJoined

LEMMA HeldByAcceptor == ASSUME Held, AcceptorStep PROVE Held'
<1> USE DEF Held
<1>1. CASE AcceptLoop \/ CallAccept \/ AcceptWakes \/ Admit \/ Register
  <2>1. /\ UNCHANGED <<descriptor, stop, worker, link>>
        /\ \E at : acceptor' = [acceptor EXCEPT !.at = at]
        /\ acceptor.at # "returned"
    BY <1>1 DEF AcceptLoop, CallAccept, AcceptWakes, Admit, Register, AcceptorAt, AcceptorGoes,
                AcceptorOnly, kernel
  <2>2. acceptor' = [acceptor EXCEPT !.at = acceptor'.at]
    BY <2>1 DEF Shaped
  <2>3. Accepted' <=> Accepted
    BY <1>1 DEF AcceptLoop, CallAccept, AcceptWakes, Admit, Register, AcceptorAt, AcceptorGoes,
                Accepted, Shaped
  <2> QED
    BY <2>1, <2>2, <2>3, HeldByAcceptorAlone
<1>2. CASE \E c \in Conn : Accept(c)
  <2>1. PICK c \in Conn, fd \in Fd :
          /\ descriptor' = [descriptor EXCEPT ![fd] = c]
          /\ acceptor.at = "accept" /\ acceptor' = [at |-> "accepted", conn |-> c, fd |-> fd]
          /\ link[c].stage = "queued" /\ link' = [link EXCEPT ![c].stage = "accepted"]
          /\ UNCHANGED <<stop, worker>>
    BY <1>2 DEF Accept, Opens, AcceptorAt, Smallest, Available
  <2>2. Shaped'
    BY <2>1 DEF Shaped
  <2>3. AcceptedOnce'
    BY <2>1 DEF AcceptedOnce, Accepted, Shaped
  <2>4. OpenIsHeld'
    <3>1. descriptor'[fd] = c /\ \A x \in Fd \ {fd} : descriptor'[x] = descriptor[x]
      BY <2>1 DEF Shaped
    <3>2. AcceptorHolds(c, fd)' /\ ~Accepted /\ Listener # c
      BY <2>1, TcpServerAssumption DEF AcceptorHolds, Accepted
    <3> QED
      BY <3>1, <3>2, <2>1 DEF OpenIsHeld, AcceptorHolds, WorkerHolds
  <2>5. Joined'
    BY <2>1 DEF Joined, WorkersJoined
  <2> QED
    BY <2>2, <2>3, <2>4, <2>5
<1>3. CASE Refuse
  <2>1. /\ descriptor' = [descriptor EXCEPT ![acceptor.fd] = Free]
        /\ acceptor.at = "accepted" /\ acceptor' = [acceptor EXCEPT !.at = "loop"]
        /\ UNCHANGED <<stop, worker, link>>
    BY <1>3 DEF Refuse, Closes, AcceptorAt, AcceptorGoes
  <2>2. Shaped' /\ acceptor'.at = "loop"
    BY <2>1 DEF Shaped
  <2>3. AcceptedOnce' /\ Joined'
    BY <2>1, <2>2 DEF AcceptedOnce, Accepted, Joined, WorkersJoined
  <2>4. OpenIsHeld'
    <3>1. \A x \in Fd : IF x = acceptor.fd THEN descriptor'[x] = Free
                        ELSE descriptor'[x] = descriptor[x]
      BY <2>1 DEF Shaped
    <3> QED
      BY <3>1, <2>1, TcpServerAssumption DEF OpenIsHeld, AcceptorHolds, WorkerHolds
  <2> QED
    BY <2>2, <2>3, <2>4
<1>4. CASE Spawn
  <2> DEFINE c == acceptor.conn
  <2>1. /\ acceptor.at = "spawn" /\ acceptor' = [acceptor EXCEPT !.at = "loop"]
        /\ worker' = [worker EXCEPT ![c].at = "loop", ![c].fd = acceptor.fd]
        /\ UNCHANGED <<descriptor, stop, link>>
    BY <1>4 DEF Spawn, AcceptorAt, AcceptorGoes, kernel
  <2>2. c \in Conn /\ link[c].stage = "accepted" /\ worker[c].at = "none"
    BY <2>1 DEF AcceptedOnce, Accepted
  <2>3. /\ worker'[c].at = "loop" /\ worker'[c].fd = acceptor.fd
        /\ \A d \in Conn \ {c} : worker'[d] = worker[d]
        /\ Shaped' /\ acceptor'.at = "loop"
    BY <2>1, <2>2 DEF Shaped
  <2> HIDE DEF c
  <2>4. AcceptedOnce'
    BY <2>1, <2>2, <2>3 DEF AcceptedOnce, Accepted
  <2>5. OpenIsHeld'
    <3>1. \A d \in Conn, fd \in Fd : AcceptorHolds(d, fd) => d = c /\ WorkerHolds(d, fd)'
      BY <2>2, <2>3 DEF AcceptorHolds, WorkerHolds, c
    <3>2. \A d \in Conn, fd \in Fd : WorkerHolds(d, fd) => WorkerHolds(d, fd)'
      BY <2>2, <2>3 DEF WorkerHolds
    <3> QED
      BY <3>1, <3>2, <2>1 DEF OpenIsHeld
  <2>6. Joined'
    BY <2>1, <2>3 DEF Joined
  <2> QED
    BY <2>3, <2>4, <2>5, <2>6
<1> QED
  BY <1>1, <1>2, <1>3, <1>4 DEF AcceptorStep

LEMMA HeldByWorker == ASSUME Held, NEW c \in Conn, WorkerStep(c) PROVE Held'
<1> USE DEF Held
<1>1. /\ UNCHANGED <<stop, acceptor>>
      /\ worker[c].at \in {"loop", "call", "recv", "call_rest", "recv_rest", "send", "send_rest", "close",
                         "erase"}
      /\ worker'[c].at \in {"loop", "call", "recv", "call_rest", "recv_rest", "send", "send_rest", "close",
                             "erase", "done"}
      /\ worker'[c].fd = worker[c].fd
      /\ DOMAIN worker' = Conn /\ {"at", "fd", "on", "answer"} \subseteq DOMAIN worker'[c]
      /\ \A d \in Conn \ {c} : worker'[d] = worker[d]
  <2>1. CASE ServeLoop(c)
    BY <2>1 DEF ServeLoop, WorkerAt, WorkerGoes, WorkerOnly, Shaped
  <2>2. CASE CallRecv(c)
    BY <2>2 DEF CallRecv, WorkerOnly, Shaped
  <2>3. CASE RecvFails(c)
    BY <2>3 DEF RecvFails, Receiving, WorkerOnly, Shaped
  <2>4. CASE RecvLength(c) \/ RecvRest(c) \/ RecvForeign(c)
    BY <2>4, ReceivedOnly
  <2>5. CASE SendFrame(c)
    BY <2>5 DEF SendFrame, WorkerAt, WorkerGoes, WorkerOnly, Shaped
  <2>6. CASE CloseConnection(c) \/ Erase(c)
    BY <2>6 DEF CloseConnection, Erase, WorkerAt, WorkerGoes, Shaped
  <2> QED
    BY <2>1, <2>2, <2>3, <2>4, <2>5, <2>6 DEF WorkerStep
<1>2. /\ DOMAIN link' = Conn
      /\ \A d \in Conn : "stage" \in DOMAIN link'[d] /\ link'[d].stage = link[d].stage
  <2>1. \/ UNCHANGED link
        \/ \E d : link' = [link EXCEPT ![d].headed = TRUE]
        \/ \E d, n : link' = [link EXCEPT ![d].read = n, ![d].headed = FALSE]
        \/ \E d, r : link' = [link EXCEPT ![d].received = r]
    BY DEF WorkerStep, ServeLoop, CallRecv, RecvFails, RecvLength, RecvRest, RecvForeign, SendFrame,
           CloseConnection, Erase, TakesFrame, kernel
  <2>2. DOMAIN link = Conn /\ \A d \in Conn : "stage" \in DOMAIN link[d]
    BY DEF Shaped
  <2>3. CASE \E d : link' = [link EXCEPT ![d].headed = TRUE]
    BY <2>2, <2>3
  <2>4. CASE \E d, n : link' = [link EXCEPT ![d].read = n, ![d].headed = FALSE]
    <3>1. PICK d, n : link' = [link EXCEPT ![d].read = n, ![d].headed = FALSE]
      BY <2>4
    <3> QED
      BY <2>2, <3>1
  <2>5. CASE \E d, r : link' = [link EXCEPT ![d].received = r]
    BY <2>2, <2>5
  <2>6. CASE UNCHANGED link
    BY <2>2, <2>6
  <2> QED
    BY <2>1, <2>3, <2>4, <2>5, <2>6
<1>3. \/ /\ UNCHANGED descriptor
         /\ worker[c].at # "erase" =>
              worker'[c].at \in {"loop", "call", "recv", "call_rest", "recv_rest", "send", "send_rest", "close"}
      \/ /\ worker[c].at = "close"
         /\ descriptor' = [descriptor EXCEPT ![worker[c].fd] = Free]
  <2>1. CASE \/ ServeLoop(c) \/ CallRecv(c) \/ RecvFails(c)
             \/ RecvLength(c) \/ RecvRest(c) \/ RecvForeign(c) \/ SendFrame(c)
    <3>1. UNCHANGED descriptor
      BY <2>1 DEF ServeLoop, CallRecv, RecvFails, RecvLength, RecvRest, RecvForeign, SendFrame, WorkerOnly
    <3>2. worker'[c].at \in {"loop", "call", "recv", "call_rest", "recv_rest", "send", "send_rest", "close"}
      <4>1. CASE ServeLoop(c) \/ CallRecv(c) \/ RecvFails(c)
        BY <4>1 DEF ServeLoop, CallRecv, RecvFails, WorkerGoes, Shaped
      <4>2. CASE RecvLength(c) \/ RecvRest(c) \/ RecvForeign(c)
        BY <4>2, ReceivedOnly
      <4>3. CASE SendFrame(c)
        BY <4>3 DEF SendFrame, WorkerGoes, Shaped
      <4> QED
        BY <2>1, <4>1, <4>2, <4>3
    <3> QED
      BY <3>1, <3>2
  <2>2. CASE CloseConnection(c)
    BY <2>2 DEF CloseConnection, Closes, WorkerAt
  <2>3. CASE Erase(c)
    BY <2>3 DEF Erase, WorkerAt, kernel
  <2> QED
    BY <2>1, <2>2, <2>3 DEF WorkerStep
<1>4. Shaped'
  BY <1>1, <1>2, <1>3 DEF Shaped
<1>5. AcceptedOnce'
  BY <1>1, <1>2 DEF AcceptedOnce, Accepted
<1>6. OpenIsHeld'
  <2>1. CASE UNCHANGED descriptor /\ (worker[c].at # "erase" =>
               worker'[c].at \in {"loop", "call", "recv", "call_rest", "recv_rest", "send", "send_rest", "close"})
    <3>1. \A d \in Conn, fd \in Fd : WorkerHolds(d, fd) => WorkerHolds(d, fd)'
      BY <1>1, <2>1 DEF WorkerHolds
    <3> QED
      BY <3>1, <1>1, <2>1 DEF OpenIsHeld, AcceptorHolds, Accepted
  <2>2. CASE descriptor' = [descriptor EXCEPT ![worker[c].fd] = Free]
    <3>1. \A x \in Fd : IF x = worker[c].fd THEN descriptor'[x] = Free
                        ELSE descriptor'[x] = descriptor[x]
      BY <2>2 DEF Shaped
    <3>2. \A d \in Conn, fd \in Fd \ {worker[c].fd} : WorkerHolds(d, fd) => WorkerHolds(d, fd)'
      BY <1>1 DEF WorkerHolds
    <3> QED
      BY <3>1, <3>2, <1>1, TcpServerAssumption DEF OpenIsHeld, AcceptorHolds, Accepted
  <2> QED
    BY <1>3, <2>1, <2>2
<1>7. Joined'
  BY <1>1 DEF Joined, WorkersJoined
<1> QED
  BY <1>4, <1>5, <1>6, <1>7

LEMMA HeldByStop == ASSUME Held, BeginStop \/ StopStep PROVE Held'
<1> USE DEF Held
<1>1. UNCHANGED <<link, acceptor, worker>>
  BY DEF BeginStop, StopStep, CloseListener, JoinAcceptor, CloseNext, ClearConnections,
         JoinWorkers, StopOnly
<1>2. \/ UNCHANGED descriptor
      \/ \E fd : descriptor' = [descriptor EXCEPT ![fd] = Free]
  BY DEF BeginStop, StopStep, CloseListener, JoinAcceptor, CloseNext, ClearConnections,
         JoinWorkers, Closes
<1>3. /\ DOMAIN descriptor' = Fd
      /\ \A fd \in Fd : descriptor'[fd] \in {descriptor[fd], Free}
  BY <1>2 DEF Shaped
<1>4. Shaped' /\ AcceptedOnce'
  BY <1>1, <1>3 DEF Shaped, AcceptedOnce, Accepted
<1>5. Joined'
  BY <1>1 DEF Joined, BeginStop, StopStep, CloseListener, JoinAcceptor, CloseNext,
              ClearConnections, JoinWorkers, AcceptorJoined, AcceptorAt, WorkersJoined
<1>6. CASE CloseListener
  <2>1. descriptor' = [descriptor EXCEPT ![ListenFd] = Free]
    BY <1>6 DEF CloseListener, Closes
  <2>2. \A fd \in Fd : descriptor'[fd] # Listener
    BY <2>1, <1>3, TcpServerAssumption DEF OpenIsHeld, Shaped
  <2>3. OpenIsHeld'
    BY <2>2, <1>1, <1>3, TcpServerAssumption DEF OpenIsHeld, AcceptorHolds, WorkerHolds, Accepted
  <2> QED
    BY <1>4, <1>5, <2>3
<1>7. CASE ~CloseListener
  <2>1. stop \in {"idle", "close_listener"} => stop' \in {"idle", "close_listener"}
    BY <1>7 DEF BeginStop, StopStep, JoinAcceptor, CloseNext, ClearConnections, JoinWorkers
  <2>2. OpenIsHeld'
    BY <2>1, <1>1, <1>3, TcpServerAssumption DEF OpenIsHeld, AcceptorHolds, WorkerHolds, Accepted
  <2> QED
    BY <1>4, <1>5, <2>2
<1> QED
  BY <1>6, <1>7

LEMMA HeldNext == Held /\ [Next]_vars => Held'
<1> SUFFICES ASSUME Held, [Next]_vars
             PROVE  Held'
  OBVIOUS
<1>1. CASE UNCHANGED vars
  BY <1>1 DEF vars, kernel, Held, Shaped, AcceptedOnce, OpenIsHeld, Joined, Accepted,
              AcceptorHolds, WorkerHolds, WorkersJoined
<1> QED
  BY <1>1, HeldByKernelAndClients, HeldByAcceptor, HeldByWorker, HeldByStop DEF Next

(* When Stop returns, both kinds of threads have returned and every         *)
(* connection they accepted is closed, whether numbers are given away again *)
(* or not and whichever accept, recv or send Stop raced with.               *)
(* (tcp_forwarder.cpp, TcpServer::Stop)                                     *)
THEOREM TcpStopLeavesNothing == Spec => []StopLeavesNothing
<1>1. Held => StopLeavesNothing
  <2> SUFFICES ASSUME Held, stop = "stopped"
               PROVE  /\ acceptor.at = "returned"
                      /\ \A c \in Conn : worker[c].at \in {"none", "done"} /\ ~IsOpen(c)
                      /\ ~IsOpen(Listener)
    BY DEF StopLeavesNothing
  <2>1. acceptor.at = "returned" /\ \A c \in Conn : worker[c].at \in {"none", "done"}
    BY DEF Held, Joined, WorkersJoined
  <2>2. \A fd \in Fd : descriptor[fd] \notin Conn \cup {Listener}
    BY <2>1 DEF Held, OpenIsHeld, AcceptorHolds, WorkerHolds, Accepted
  <2> QED
    BY <2>1, <2>2 DEF IsOpen, Numbers
<1> QED
  BY <1>1, HeldInit, HeldNext, PTL DEF Spec

----------------------------------------------------------------------------
(* Messages *)

(* Requests and responses, whatever strings, hops and optional fields they  *)
(* have, are decoded to what was encoded, and no part of a message nor a    *)
(* longer one is accepted.  (wire.cpp)                                      *)
THEOREM WireExact == WireIsExact
<1>1. ASSUME NEW r \in Requests
      PROVE  LET b == EncodeRequest(r)
             IN  /\ DecodeRequest(b) = r
                 /\ \A n \in 0 .. Len(b) - 1 : DecodeRequest(SubSeq(b, 1, n)) = Malformed
                 /\ \A x \in Cells : DecodeRequest(Append(b, x)) = Malformed
  <2> DEFINE b == EncodeRequest(r)
  <2>1. r \in RequestMessage /\ b \in Seq(Nat) /\ DecodeRequest(b) = r
    BY MessagesAssumption, RequestIsDecoded
  <2>2. ASSUME NEW n \in 0 .. Len(b) - 1
        PROVE  DecodeRequest(SubSeq(b, 1, n)) = Malformed
    <3>1. n \in Nat /\ n < Len(b)
      <4> HIDE DEF b
      <4> QED
        BY <2>1
    <3> QED
      BY <2>1, <3>1, CutRequestIsRefused
  <2>3. ASSUME NEW x \in Cells
        PROVE  DecodeRequest(Append(b, x)) = Malformed
    BY <2>1, MessagesAssumption, ExtendedRequestIsRefused
  <2> QED
    BY <2>1, <2>2, <2>3
<1>2. ASSUME NEW r \in Responses
      PROVE  LET b == EncodeResponse(r)
             IN  /\ DecodeResponse(b) = r
                 /\ \A n \in 0 .. Len(b) - 1 : DecodeResponse(SubSeq(b, 1, n)) = Malformed
                 /\ \A x \in Cells : DecodeResponse(Append(b, x)) = Malformed
  <2> DEFINE b == EncodeResponse(r)
  <2>1. r \in ResponseMessage /\ b \in Seq(Nat) /\ DecodeResponse(b) = r
    BY MessagesAssumption, ResponseIsDecoded
  <2>2. ASSUME NEW c \in Seq(Nat), Len(c) # Len(b), \A i \in 1 .. Len(c) : i <= Len(b) => c[i] = b[i]
        PROVE  DecodeResponse(c) = Malformed
    BY <2>1, <2>2, ChangedResponseIsRefused
  <2> HIDE DEF b
  <2>3. ASSUME NEW n \in 0 .. Len(b) - 1
        PROVE  DecodeResponse(SubSeq(b, 1, n)) = Malformed
    <3> DEFINE c == SubSeq(b, 1, n)
    <3>1. 1 \in Int /\ n \in Int /\ \A i \in 1 .. n : b[i] \in Nat
      BY <2>1
    <3>2. /\ c \in Seq(Nat) /\ Len(c) = IF 1 <= n THEN n - 1 + 1 ELSE 0
          /\ \A i \in 1 .. n - 1 + 1 : c[i] = b[1 + i - 1]
      BY <3>1, SubSeqProperties
    <3>3. n - 1 + 1 = n /\ n \in Nat /\ \A i \in 1 .. n : 1 + i - 1 = i
      BY <2>1
    <3> HIDE DEF c
    <3>4. Len(c) = n /\ \A i \in 1 .. Len(c) : c[i] = b[i]
      BY <3>2, <3>3
    <3>5. n # Len(b)
      BY <2>1
    <3> QED
      BY <2>2, <3>2, <3>4, <3>5 DEF c
  <2>4. ASSUME NEW x \in Cells
        PROVE  DecodeResponse(Append(b, x)) = Malformed
    <3> DEFINE c == Append(b, x)
    <3>1. x \in Nat
      BY MessagesAssumption
    <3>2. c \in Seq(Nat) /\ Len(c) = Len(b) + 1 /\ \A i \in 1 .. Len(b) : c[i] = b[i]
      BY <2>1, <3>1
    <3>3. Len(b) \in Nat
      BY <2>1
    <3> HIDE DEF c
    <3>4. Len(c) # Len(b) /\ \A i \in 1 .. Len(c) : i <= Len(b) => c[i] = b[i]
      BY <3>2, <3>3
    <3> QED
      BY <2>2, <3>2, <3>4 DEF c
  <2> QED
    BY <2>1, <2>3, <2>4 DEF b
<1> QED
  BY <1>1, <1>2 DEF WireIsExact

(* What a thread answers is what its client expects *)
LEMMA AnswerIsExpected ==
  ASSUME NEW frame \in Frames \ {Oversized}
  PROVE  AnswerTo(frame) \in Seq(Nat) /\ DecodeResponse(AnswerTo(frame)) = Expected(frame)
<1>1. CASE \E r \in Requests : frame = EncodeRequest(r)
  <2> DEFINE r == CHOOSE r \in Requests : frame = EncodeRequest(r)
  <2>1. r \in Requests /\ frame = EncodeRequest(r)
    BY <1>1
  <2>2. Expected(frame) = Answered(r)
    BY <1>1 DEF Expected
  <2> HIDE DEF r
  <2>3. r \in RequestMessage /\ Answered(r) \in ResponseMessage
    BY <2>1, MessagesAssumption
  <2>4. DecodeRequest(frame) = r /\ r # Malformed
    BY <2>1, <2>3, RequestIsDecoded, WireAssumption
  <2>5. AnswerTo(frame) = EncodeResponse(Answered(r))
    BY <2>4 DEF AnswerTo
  <2> QED
    BY <2>2, <2>3, <2>5, ResponseIsDecoded
<1>2. CASE ~\E r \in Requests : frame = EncodeRequest(r)
  <2>1. DecodeRequest(frame) = Malformed
    BY <1>2, MessagesAssumption
  <2>2. AnswerTo(frame) = EncodeResponse(MalformedAnswer) /\ Expected(frame) = MalformedAnswer
    BY <1>2, <2>1 DEF AnswerTo, Expected
  <2> QED
    BY <2>2, MessagesAssumption, ResponseIsDecoded
<1> QED
  BY <1>1, <1>2

(* What is left of a sequence when a number is erased *)
LEMMA ErasedKeeps ==
  ASSUME NEW S, NEW s \in Seq(S), NEW x
  PROVE  /\ Erased(s, x) \in Seq(S)
         /\ \A i \in DOMAIN Erased(s, x) : \E j \in DOMAIN s : Erased(s, x)[i] = s[j]
         /\ \A i \in DOMAIN s : s[i] # x => \E j \in DOMAIN Erased(s, x) : Erased(s, x)[j] = s[i]
<1> DEFINE n == Len(s)
           V == Seq(S)
           step == [p \in Nat \X V |->
                      IF p[1] \in 1 .. n /\ s[p[1]] # x THEN Append(p[2], s[p[1]]) ELSE p[2]]
           Is(h) == h = [i \in 0 .. n |-> IF i = 0 THEN <<>>
                                           ELSE IF s[i] = x THEN h[i - 1]
                                           ELSE Append(h[i - 1], s[i])]
<1>1. n \in Nat /\ <<>> \in V
  OBVIOUS
<1>2. step \in [Nat \X V -> V]
  <2>1. ASSUME NEW p \in Nat \X V
        PROVE  (IF p[1] \in 1 .. n /\ s[p[1]] # x THEN Append(p[2], s[p[1]]) ELSE p[2]) \in V
    OBVIOUS
  <2> QED
    BY <2>1
<1>3. PICK g : Recurs(g, V, <<>>, step, n)
  <2> HIDE DEF step, V, n
  <2> QED
    BY <1>1, <1>2, FiniteRecursion
<1>4. g \in [0 .. n -> V] /\ \A i \in 0 .. n : g[i] = IF i = 0 THEN <<>> ELSE step[<<i, g[i - 1]>>]
  <2> HIDE DEF step, V, n
  <2> QED
    BY <1>3 DEF Recurs
<1>5. Is(g)
  <2>1. ASSUME NEW i \in 0 .. n, i # 0
        PROVE  step[<<i, g[i - 1]>>] = IF s[i] = x THEN g[i - 1] ELSE Append(g[i - 1], s[i])
    <3>1. i - 1 \in 0 .. n /\ i \in Nat /\ i \in 1 .. n
      BY <2>1
    <3>2. <<i, g[i - 1]>> \in Nat \X V
      BY <1>4, <3>1
    <3> QED
      BY <3>1, <3>2
  <2> HIDE DEF step
  <2>2. \A i \in 0 .. n : g[i] = IF i = 0 THEN <<>>
                                  ELSE IF s[i] = x THEN g[i - 1]
                                  ELSE Append(g[i - 1], s[i])
    <3> HIDE DEF V
    <3>1. ASSUME NEW i \in 0 .. n
          PROVE  g[i] = IF i = 0 THEN <<>> ELSE step[<<i, g[i - 1]>>]
      BY <1>4
    <3> HIDE DEF n
    <3> QED
      BY <2>1, <3>1
  <2> QED
    BY <1>4, <2>2
<1> DEFINE K == CHOOSE h : Is(h)
<1>6. Erased(s, x) = K[n]
  BY DEF Erased
<1>7. Is(K)
  <2>1. Is(CHOOSE h : Is(h))
    <3> HIDE DEF Is
    <3> QED
      BY <1>5
  <2> QED
    BY <2>1
<1> HIDE DEF K, n
<1>8. K[0] = <<>>
  <2>1. 0 \in 0 .. n
    BY <1>1
  <2> QED
    BY <1>7, <2>1
<1>9. ASSUME NEW i \in Nat, i + 1 \in 1 .. n
      PROVE  K[i + 1] = IF s[i + 1] = x THEN K[i] ELSE Append(K[i], s[i + 1])
  <2>1. i + 1 \in 0 .. n /\ i + 1 # 0 /\ (i + 1) - 1 = i
    BY <1>1, <1>9
  <2>2. K[i + 1] = IF i + 1 = 0 THEN <<>>
                   ELSE IF s[i + 1] = x THEN K[(i + 1) - 1]
                   ELSE Append(K[(i + 1) - 1], s[i + 1])
    BY <1>7, <2>1
  <2> QED
    BY <2>1, <2>2
<1> HIDE DEF Is
<1> DEFINE Good(k) == /\ K[k] \in Seq(S)
                      /\ \A i \in DOMAIN K[k] : \E j \in 1 .. k : K[k][i] = s[j]
                      /\ \A i \in 1 .. k : s[i] # x => \E j \in DOMAIN K[k] : K[k][j] = s[i]
           T == { k \in Nat : k <= n => Good(k) }
<1>10. 0 \in T
  <2>1. Good(0)
    BY <1>8
  <2> QED
    BY <2>1
<1>11. ASSUME NEW k \in Nat, k \in T
       PROVE  k + 1 \in T
  <2>1. ASSUME k + 1 <= n
        PROVE  Good(k + 1)
    <3>1. k + 1 \in 1 .. n /\ s[k + 1] \in S
      BY <1>1, <2>1 DEF n
    <3>2. Good(k)
      BY <1>1, <1>11, <3>1
    <3>3. K[k + 1] = IF s[k + 1] = x THEN K[k] ELSE Append(K[k], s[k + 1])
      BY <1>9, <3>1
    <3>4. \A j \in 1 .. k : j \in 1 .. k + 1
      OBVIOUS
    <3>5. \A j \in 1 .. k + 1 : j \in 1 .. k \/ j = k + 1
      OBVIOUS
    <3>6. CASE s[k + 1] = x
      BY <3>2, <3>3, <3>4, <3>5, <3>6
    <3>7. CASE s[k + 1] # x
      <4> DEFINE u == K[k]
                 v == K[k + 1]
      <4>1. u \in Seq(S) /\ v = Append(u, s[k + 1])
        BY <3>2, <3>3, <3>7
      <4> HIDE DEF u, v
      <4>2. /\ v \in Seq(S) /\ DOMAIN v = 1 .. Len(u) + 1 /\ DOMAIN u = 1 .. Len(u)
            /\ v[Len(u) + 1] = s[k + 1] /\ \A i \in 1 .. Len(u) : v[i] = u[i]
            /\ Len(u) \in Nat
        BY <3>1, <4>1
      <4>3. \A i \in DOMAIN v : i \in DOMAIN u \/ i = Len(u) + 1
        BY <4>2
      <4>4. \A i \in DOMAIN u : i \in DOMAIN v /\ v[i] = u[i]
        BY <4>2
      <4>5. Len(u) + 1 \in DOMAIN v
        BY <4>2
      <4>6. \A i \in DOMAIN u : \E j \in 1 .. k : u[i] = s[j]
        BY <3>2 DEF u
      <4>7. \A i \in 1 .. k : s[i] # x => \E j \in DOMAIN u : u[j] = s[i]
        BY <3>2 DEF u
      <4>8. ASSUME NEW i \in DOMAIN v
            PROVE  \E j \in 1 .. k + 1 : v[i] = s[j]
        <5>1. CASE i \in DOMAIN u
          BY <3>4, <4>4, <4>6, <5>1
        <5>2. CASE i = Len(u) + 1
          <6>1. k + 1 \in 1 .. k + 1
            OBVIOUS
          <6> QED
            BY <4>2, <5>2, <6>1
        <5> QED
          BY <4>3, <5>1, <5>2
      <4>9. ASSUME NEW i \in 1 .. k + 1, s[i] # x
            PROVE  \E j \in DOMAIN v : v[j] = s[i]
        <5>1. CASE i \in 1 .. k
          BY <4>4, <4>7, <4>9, <5>1
        <5>2. CASE i = k + 1
          BY <4>2, <4>5, <5>2
        <5> QED
          BY <3>5, <5>1, <5>2
      <4> QED
        BY <4>2, <4>8, <4>9 DEF v
    <3> QED
      BY <3>6, <3>7
  <2> HIDE DEF Good
  <2> QED
    BY <2>1
<1>12. Good(n)
  <2>1. n \in T
    <3> HIDE DEF T
    <3>1. Nat \subseteq T
      BY <1>10, <1>11, SetInduction
    <3> QED
      BY <1>1, <3>1
  <2>2. n <= n
    BY <1>1
  <2> HIDE DEF Good
  <2> QED
    BY <2>1, <2>2
<1>13. DOMAIN s = 1 .. n
  BY DEF n
<1> QED
  BY <1>6, <1>12, <1>13

----------------------------------------------------------------------------
(* Whose socket a number names.  While Stop closes nothing of theirs, a     *)
(* thread's number names its own socket, so nothing is opened under it; if  *)
(* numbers are not given away again, none is opened under it later either.  *)

Typed ==
  /\ env \in Environments
  /\ running \in BOOLEAN
  /\ stop # "idle" => ~running
  /\ Accepted => acceptor.fd \in Fd
  /\ \A c \in Conn : worker[c].at # "none" => worker[c].fd \in Fd
  /\ registered \in Seq(Fd) /\ closing \in Seq(Fd)

(* Before Start *)
Unstarted ==
  acceptor.at = "none" =>
    /\ stop = "idle" /\ ~running
    /\ used = {} /\ registered = <<>> /\ closing = <<>>
    /\ \A fd \in Fd : descriptor[fd] = Free
    /\ \A c \in Conn : worker[c].at = "none"

Serving(c) == worker[c].at \in {"loop", "call", "recv", "call_rest", "recv_rest", "send", "send_rest", "close"}

OwnNumbers ==
  /\ acceptor.at # "none" /\ stop \in {"idle", "close_listener"} => descriptor[ListenFd] = Listener
  /\ Accepted => descriptor[acceptor.fd] = acceptor.conn
  /\ ~StopIsClosing => \A c \in Conn : Serving(c) => descriptor[worker[c].fd] = c

Holders == { c \in Conn : worker[c].at # "none" }

Listed == { registered[i] : i \in DOMAIN registered } \cup { closing[i] : i \in DOMAIN closing }

OwnFreshNumbers ==
  FreshNumbers =>
    /\ \A c \in Holders : worker[c].fd \in used
    /\ Accepted => acceptor.fd \in used
    /\ \A c \in Conn : Serving(c) => descriptor[worker[c].fd] \in {c, Free}
    /\ \A fd \in Listed : fd \in used /\ descriptor[fd] \notin Other

(* No two threads have the same fresh number *)
Apart ==
  FreshNumbers =>
    /\ \A c, d \in Holders : worker[c].fd = worker[d].fd => c = d
    /\ Accepted => \A c \in Holders : worker[c].fd # acceptor.fd

(* Who reads and sends *)
Calm == FreshNumbers \/ ~StopIsClosing

RecvOwn == Calm => \A c \in Conn : worker[c].at \in Receiving => worker[c].on = c

Unread == {"none", "loop", "call", "recv", "call_rest", "recv_rest"}
Answering == {"send", "send_rest"}

LinkTyped ==
  \A c \in Conn :
    /\ {"sent", "read", "headed", "received"} \subseteq DOMAIN link[c]
    /\ link[c].sent \in Seq(Frames)
    /\ link[c].received \in Seq(Seq(Nat))
    /\ link[c].read \in 0 .. Len(link[c].sent)
    /\ link[c].headed =>
         link[c].read < Len(link[c].sent) /\ link[c].sent[link[c].read + 1] # Oversized
    /\ worker[c].answer \in Seq(Nat)

(* A client has been sent the answers to the frames its thread has read, in *)
(* order, but for the one the thread is about to send or will not send.     *)
ToldTo(c) ==
  /\ Len(link[c].received) <= link[c].read
  /\ worker[c].at \in Unread => Len(link[c].received) = link[c].read
  /\ worker[c].at \in Answering =>
       /\ link[c].read = Len(link[c].received) + 1
       /\ DecodeResponse(worker[c].answer) = Expected(link[c].sent[link[c].read])
  /\ \A i \in DOMAIN link[c].received :
       DecodeResponse(link[c].received[i]) = Expected(link[c].sent[i])

Told == Calm => \A c \in Conn : ToldTo(c)

HasRegistered(fd) == \E i \in DOMAIN registered : registered[i] = fd

Kept ==
  FreshNumbers /\ stop \notin {"join_workers", "stopped"} =>
    /\ \A c \in Conn :
         worker[c].at \in {"loop", "call", "recv", "call_rest", "recv_rest", "send", "send_rest"} =>
           HasRegistered(worker[c].fd)
    /\ acceptor.at = "spawn" => HasRegistered(acceptor.fd)

Owned == OwnNumbers /\ OwnFreshNumbers /\ Apart

LEMMA OwnedInit == Init => Typed /\ Unstarted /\ Owned /\ RecvOwn /\ OwnSockets
<1> SUFFICES ASSUME Init
             PROVE  Typed /\ Unstarted /\ Owned /\ RecvOwn /\ OwnSockets
  OBVIOUS
<1>1. Typed
  <2>1. registered \in Seq(Fd) /\ closing \in Seq(Fd)
    BY EmptySeq DEF Init
  <2>2. ~Accepted /\ \A c \in Conn : worker[c].at = "none"
    BY DEF Init, Accepted
  <2> QED
    BY <2>1, <2>2 DEF Init, Typed
<1>2. Unstarted
  BY DEF Init, Unstarted
<1>3. \A c \in Conn : worker[c].at = "none"
  BY DEF Init
<1>4. Listed = {}
  BY DEF Init, Listed
<1>5. Owned
  BY <1>3, <1>4 DEF Init, Owned, OwnNumbers, OwnFreshNumbers, Apart, Accepted, Holders, Serving
<1>6. RecvOwn
  BY <1>3 DEF RecvOwn, Receiving
<1>7. OwnSockets
  BY DEF Init, OwnSockets
<1> QED
  BY <1>1, <1>2, <1>5, <1>6, <1>7

(* Stop closes on once it has begun to *)
LEMMA CalmWas ==
  ASSUME [Next]_vars
  PROVE  (StopIsClosing => StopIsClosing') /\ (Calm' => Calm) /\ env' = env
<1>1. env' = env
  BY DEF Next, Start, BeginStop, StopOnly, AcceptorStep, AcceptLoop, CallAccept, AcceptWakes, Refuse,
         Admit, Register, Spawn, Accept, AcceptorOnly, StopStep, CloseListener, JoinAcceptor,
         CloseNext, ClearConnections, JoinWorkers, OpenOther, WorkerStep, ServeLoop, CallRecv,
         RecvFails, RecvLength, RecvRest, RecvForeign, SendFrame, CloseConnection, Erase, WorkerOnly, ClientStep,
         Connect, SendRequest, SendRest, HangUp, ClientOnly, vars
<1>2. StopIsClosing => StopIsClosing'
  <2>1. CASE UNCHANGED stop
    BY <2>1 DEF StopIsClosing
  <2>2. CASE BeginStop \/ StopStep
    BY <2>2 DEF StopIsClosing, BeginStop, StopStep, CloseListener, JoinAcceptor, CloseNext,
                ClearConnections, JoinWorkers
  <2>3. ASSUME ~BeginStop, ~StopStep PROVE UNCHANGED stop
    BY <2>3 DEF Next, Start, AcceptorStep, AcceptLoop, CallAccept, AcceptWakes, Refuse, Admit, Register,
                Spawn, Accept, AcceptorOnly, OpenOther, WorkerStep, ServeLoop, CallRecv, RecvFails,
                RecvLength, RecvRest, RecvForeign, SendFrame, CloseConnection, Erase, WorkerOnly,
                ClientStep, Connect, SendRequest, SendRest, HangUp, ClientOnly, vars
  <2> QED
    BY <2>1, <2>2, <2>3
<1> QED
  BY <1>1, <1>2 DEF Calm, FreshNumbers

(* A step that opens, closes and hands over nothing *)
LEMMA OwnedByBystanders ==
  ASSUME Held, Owned, UNCHANGED <<env, descriptor, used>>,
         StopIsClosing => StopIsClosing',
         (acceptor'.at # "none" /\ stop' \in {"idle", "close_listener"}) =>
           (acceptor.at # "none" /\ stop \in {"idle", "close_listener"}),
         Accepted' => Accepted /\ acceptor'.conn = acceptor.conn /\ acceptor'.fd = acceptor.fd,
         \A c \in Conn : worker'[c].at # "none" => worker[c].at # "none" /\ worker'[c].fd = worker[c].fd,
         \A c \in Conn : Serving(c)' => Serving(c),
         \A fd \in Listed' : fd \in Listed \/ (Accepted /\ fd = acceptor.fd)
  PROVE  Owned'
<1> USE DEF Owned
<1>1. \A c \in Conn : Serving(c)' => worker'[c].fd = worker[c].fd
  BY DEF Serving
<1>2. OwnNumbers'
  BY <1>1 DEF OwnNumbers
<1>3. \A c \in Holders' : c \in Conn /\ c \in Holders /\ worker'[c].fd = worker[c].fd
  BY DEF Holders
<1>4. Accepted => descriptor[acceptor.fd] \notin Other
  BY TcpServerAssumption DEF OwnNumbers, Held, AcceptedOnce
<1>5. OwnFreshNumbers'
  BY <1>1, <1>3, <1>4 DEF OwnFreshNumbers, FreshNumbers
<1>6. Apart'
  BY <1>3 DEF Apart, FreshNumbers
<1> QED
  BY <1>2, <1>5, <1>6

LEMMA TypedNext ==
  ASSUME Held, Typed, [Next]_vars
  PROVE  Typed'
<1> USE DEF Held, Typed
<1>1. CASE Start
  <2>1. acceptor' = [acceptor EXCEPT !.at = "loop"] /\ UNCHANGED <<env, stop, worker, registered, closing>>
        /\ running' = TRUE /\ stop = "idle"
    BY <1>1 DEF Start
  <2>2. ~Accepted'
    BY <2>1 DEF Accepted, Shaped
  <2> QED
    BY <2>1, <2>2
<1>2. CASE BeginStop \/ CloseListener \/ ClearConnections \/ JoinWorkers
  <2>1. UNCHANGED <<env, acceptor, worker, closing>> /\ (registered' = registered \/ registered' = <<>>)
    BY <1>2 DEF BeginStop, CloseListener, ClearConnections, JoinWorkers, StopOnly
  <2>2. ~running' /\ running' \in BOOLEAN
    <3>1. CASE BeginStop
      BY <3>1 DEF BeginStop
    <3>2. CASE ~BeginStop
      <4>1. running' = running /\ stop # "idle"
        BY <1>2, <3>2 DEF CloseListener, ClearConnections, JoinWorkers
      <4> QED
        BY <4>1
    <3> QED
      BY <3>1, <3>2
  <2>3. registered' \in Seq(Fd)
    BY <2>1, EmptySeq
  <2> QED
    BY <2>1, <2>2, <2>3 DEF Accepted
<1>3. CASE JoinAcceptor \/ CloseNext
  <2>1. UNCHANGED <<env, acceptor, worker, running, registered>> /\ stop # "idle"
        /\ (closing' = registered \/ (closing # <<>> /\ closing' = Tail(closing)))
    BY <1>3 DEF JoinAcceptor, CloseNext, StopOnly
  <2>2. closing' \in Seq(Fd)
    BY <2>1
  <2> QED
    BY <2>1, <2>2 DEF Accepted
<1>4. CASE \E c \in Conn : Accept(c)
  <2>1. UNCHANGED <<env, running, stop, worker, registered, closing>> /\ acceptor'.fd \in Fd
    BY <1>4 DEF Accept, Smallest, Available
  <2> QED
    BY <2>1
<1>5. CASE AcceptLoop \/ CallAccept \/ AcceptWakes \/ Refuse \/ Admit
  <2>1. UNCHANGED <<env, running, stop, worker, registered, closing>>
    BY <1>5 DEF AcceptLoop, CallAccept, AcceptWakes, Refuse, Admit, AcceptorOnly
  <2>2. acceptor'.fd = acceptor.fd /\ (Accepted' => Accepted)
    BY <1>5 DEF AcceptLoop, CallAccept, AcceptWakes, Refuse, Admit, AcceptorGoes, AcceptorAt, Accepted,
                Shaped
  <2> QED
    BY <2>1, <2>2
<1>6. CASE Register
  <2>1. UNCHANGED <<env, running, stop, worker, closing>> /\ registered' = Append(registered, acceptor.fd)
        /\ acceptor' = [acceptor EXCEPT !.at = "spawn"] /\ Accepted
    BY <1>6 DEF Register, AcceptorAt, AcceptorGoes, Accepted
  <2>2. acceptor'.fd = acceptor.fd /\ acceptor.fd \in Fd
    BY <2>1 DEF Shaped
  <2>3. registered' \in Seq(Fd)
    BY <2>1, <2>2
  <2> QED
    BY <2>1, <2>2, <2>3
<1>7. CASE Spawn
  <2>1. UNCHANGED <<env, running, stop, registered, closing>> /\ Accepted /\ ~Accepted'
        /\ worker' = [worker EXCEPT ![acceptor.conn].at = "loop", ![acceptor.conn].fd = acceptor.fd]
    BY <1>7 DEF Spawn, AcceptorAt, AcceptorGoes, Accepted, Shaped
  <2>2. acceptor.conn \in Conn /\ acceptor.fd \in Fd
    BY <2>1 DEF AcceptedOnce
  <2>3. \A c \in Conn : worker'[c].fd = IF c = acceptor.conn THEN acceptor.fd ELSE worker[c].fd
    BY <2>1, <2>2 DEF Shaped
  <2>4. \A c \in Conn \ {acceptor.conn} : worker'[c] = worker[c]
    BY <2>1 DEF Shaped
  <2> QED
    BY <2>1, <2>2, <2>3, <2>4
<1>8. ASSUME NEW c \in Conn, WorkerStep(c)
      PROVE  Typed'
  <2>1. UNCHANGED <<env, running, stop, acceptor, closing>> /\ registered' \in Seq(Fd)
    <3>1. Erased(registered, worker[c].fd) \in Seq(Fd)
      BY ErasedKeeps
    <3> QED
      BY <1>8, <3>1 DEF WorkerStep, ServeLoop, CallRecv, RecvFails, RecvLength, RecvRest, RecvForeign, SendFrame, CloseConnection,
                        Erase, WorkerOnly
  <2>2. \A d \in Conn : worker'[d].fd = worker[d].fd
                       /\ (worker'[d].at # "none" => worker[d].at # "none")
    <3>1. worker[c].at # "none" /\ worker'[c].fd = worker[c].fd
          /\ \A d \in Conn \ {c} : worker'[d] = worker[d]
      <4>1. CASE ServeLoop(c)
        BY <4>1 DEF ServeLoop, WorkerAt, WorkerGoes, Shaped
      <4>2. CASE CallRecv(c)
        BY <4>2 DEF CallRecv, Shaped
      <4>3. CASE RecvFails(c)
        BY <4>3 DEF RecvFails, Receiving, Shaped
      <4>4. CASE RecvLength(c) \/ RecvRest(c) \/ RecvForeign(c)
        BY <4>4, ReceivedOnly
      <4>5. CASE SendFrame(c)
        BY <4>5 DEF SendFrame, WorkerGoes, Shaped
      <4>6. CASE CloseConnection(c) \/ Erase(c)
        BY <4>6 DEF CloseConnection, Erase, WorkerAt, WorkerGoes, Shaped
      <4> QED
        BY <1>8, <4>1, <4>2, <4>3, <4>4, <4>5, <4>6 DEF WorkerStep
    <3> QED
      BY <3>1
  <2> QED
    BY <2>1, <2>2 DEF Accepted
<1>9. CASE (\E o \in Other : OpenOther(o)) \/ (\E c \in Conn : ClientStep(c)) \/ UNCHANGED vars
  <2>1. UNCHANGED <<env, running, stop, acceptor, worker, registered, closing>>
    BY <1>9 DEF OpenOther, ClientStep, Connect, SendRequest, SendRest, HangUp, ClientOnly, vars
  <2> QED
    BY <2>1 DEF Accepted
<1> QED
  BY <1>1, <1>2, <1>3, <1>4, <1>5, <1>6, <1>7, <1>8, <1>9 DEF Next, AcceptorStep, StopStep

LEMMA UnstartedNext ==
  ASSUME Held, Typed, Unstarted, [Next]_vars
  PROVE  Unstarted'
<1> SUFFICES ASSUME acceptor'.at = "none"
             PROVE  Unstarted'
  BY DEF Unstarted
<1> USE DEF Held, Shaped
<1>1. CASE acceptor.at # "none"
  <2>1. CASE AcceptorStep
    <3>1. CASE \E c \in Conn : Accept(c)
      BY <3>1 DEF Accept
    <3>2. CASE ~\E c \in Conn : Accept(c)
      <4>1. \E at \in {"call", "returned", "accept", "loop", "register", "spawn"} :
              acceptor' = [acceptor EXCEPT !.at = at]
        BY <2>1, <3>2 DEF AcceptorStep, AcceptLoop, CallAccept, AcceptWakes, Refuse, Admit, Register,
                          Spawn, AcceptorGoes
      <4> QED
        BY <4>1
    <3> QED
      BY <3>1, <3>2
  <2>2. CASE Start
    BY <2>2 DEF Start
  <2>3. CASE ~AcceptorStep /\ ~Start
    <3>1. acceptor' = acceptor
      <4>1. ASSUME NEW c \in Conn, WorkerStep(c) \/ ClientStep(c)
            PROVE  acceptor' = acceptor
        <5>1. CASE WorkerStep(c)
          BY <5>1 DEF WorkerStep, ServeLoop, CallRecv, RecvFails, RecvLength, RecvRest, RecvForeign, SendFrame,
                      CloseConnection, Erase, WorkerOnly
        <5>2. CASE ClientStep(c)
          BY <5>2 DEF ClientStep, Connect, SendRequest, SendRest, HangUp, ClientOnly
        <5> QED
          BY <4>1, <5>1, <5>2
      <4>2. CASE BeginStop \/ StopStep \/ UNCHANGED vars \/ \E o \in Other : OpenOther(o)
        BY <4>2 DEF BeginStop, StopStep, StopOnly, CloseListener, JoinAcceptor, CloseNext,
                    ClearConnections, JoinWorkers, OpenOther, vars
      <4> QED
        BY <2>3, <4>1, <4>2 DEF Next
    <3> QED
      BY <1>1, <3>1
  <2> QED
    BY <1>1, <2>1, <2>2, <2>3
<1>2. CASE acceptor.at = "none"
  <2>1. /\ stop = "idle" /\ ~running /\ used = {} /\ registered = <<>> /\ closing = <<>>
        /\ \A fd \in Fd : descriptor[fd] = Free
        /\ \A c \in Conn : worker[c].at = "none"
    BY <1>2 DEF Unstarted
  <2>2. ~Start
    BY DEF Start
  <2>3. ~BeginStop /\ ~StopStep /\ \A o \in Other : ~OpenOther(o)
    BY <2>1 DEF BeginStop, StopStep, CloseListener, JoinAcceptor, CloseNext, ClearConnections,
                JoinWorkers, OpenOther
  <2>4. ~AcceptorStep
    BY <1>2 DEF AcceptorStep, AcceptLoop, CallAccept, AcceptWakes, Refuse, Admit, Register, Spawn, Accept,
                AcceptorAt
  <2>5. \A c \in Conn : ~WorkerStep(c)
    BY <2>1 DEF WorkerStep, ServeLoop, CallRecv, RecvFails, RecvLength, RecvRest, RecvForeign, SendFrame,
                CloseConnection, Erase, Receiving, WorkerAt
  <2>6. UNCHANGED <<stop, running, used, registered, closing, descriptor, worker>>
    BY <2>2, <2>3, <2>4, <2>5
       DEF Next, ClientStep, Connect, SendRequest, SendRest, HangUp, ClientOnly, vars, kernel
  <2> QED
    BY <2>1, <2>6 DEF Unstarted
<1> QED
  BY <1>1, <1>2

(* A number that may be given away is nobody's. *)
LEMMA OwnedByOpening ==
  ASSUME Held, Typed, Unstarted, Owned, RecvOwn, OwnSockets,
         Start \/ (\E o \in Other : OpenOther(o)) \/ (\E c \in Conn : Accept(c))
  PROVE  Owned' /\ RecvOwn' /\ OwnSockets'
<1> USE DEF Held
<1>1. PICK fd \in Fd, s \in Socket :
        /\ descriptor[fd] = Free /\ fd \notin used
        /\ descriptor' = [descriptor EXCEPT ![fd] = s]
        /\ used' = IF env.reuse THEN used ELSE used \cup {fd}
        /\ \/ Start /\ s = Listener /\ fd = ListenFd
           \/ s \in Other /\ UNCHANGED acceptor
           \/ \E c \in Conn : Accept(c) /\ s = c /\ acceptor' = [at |-> "accepted", conn |-> c, fd |-> fd]
  <2>1. CASE Start
    <3>1. descriptor[ListenFd] = Free /\ used = {} /\ Opens(ListenFd, Listener)
          /\ ListenFd \in Fd /\ Listener \in Socket
      BY <2>1, TcpServerAssumption DEF Start, Unstarted, Socket
    <3> QED
      BY <2>1, <3>1 DEF Opens
  <2>2. CASE \E o \in Other : OpenOther(o)
    <3>1. PICK o \in Other, fd \in Available : Opens(fd, o) /\ UNCHANGED acceptor
      BY <2>2 DEF OpenOther
    <3>2. fd \in Fd /\ descriptor[fd] = Free /\ fd \notin used /\ o \in Socket
      BY DEF Available, Socket
    <3> QED
      BY <3>1, <3>2 DEF Opens
  <2>3. CASE \E c \in Conn : Accept(c)
    <3>1. PICK c \in Conn : Accept(c)
      BY <2>3
    <3>2. PICK fd \in Smallest : Opens(fd, c) /\ acceptor' = [at |-> "accepted", conn |-> c, fd |-> fd]
      BY <3>1 DEF Accept
    <3>3. fd \in Fd /\ descriptor[fd] = Free /\ fd \notin used /\ c \in Socket
      BY DEF Smallest, Available, Socket
    <3> QED
      BY <3>1, <3>2, <3>3 DEF Opens
  <2> QED
    BY <2>1, <2>2, <2>3
<1>2. UNCHANGED <<env, stop, closing, registered, worker, foreign>>
  BY DEF Start, OpenOther, Accept
<1>3. \A x \in Fd : descriptor'[x] = IF x = fd THEN s ELSE descriptor[x]
  BY <1>1 DEF Shaped
<1>4. s # Free /\ s \notin Conn \cap Other /\ (\A c \in Conn : c # Free) /\ Listener # Free
  BY TcpServerAssumption DEF Socket
<1>5. \/ acceptor' = acceptor
      \/ (Start /\ ~Accepted' /\ acceptor.at = "none" /\ s = Listener /\ fd = ListenFd)
      \/ \E c \in Conn : /\ acceptor.at = "accept" /\ s = c
                        /\ acceptor' = [at |-> "accepted", conn |-> c, fd |-> fd]
  BY <1>1 DEF Start, Accept, AcceptorAt, Accepted, Shaped
<1>6. OwnNumbers'
  <2>1. ASSUME ~StopIsClosing', NEW c \in Conn, Serving(c)'
        PROVE  descriptor'[worker'[c].fd] = c
    <3>1. worker'[c].fd = worker[c].fd /\ worker[c].fd \in Fd /\ descriptor[worker[c].fd] = c
      BY <1>2, <2>1 DEF Owned, OwnNumbers, StopIsClosing, Serving, Typed
    <3> QED
      BY <1>1, <1>3, <1>4, <3>1
  <2>2. ASSUME Accepted'
        PROVE  descriptor'[acceptor'.fd] = acceptor'.conn
    <3>1. CASE acceptor' = acceptor
      <4>1. Accepted /\ acceptor.fd \in Fd /\ descriptor[acceptor.fd] = acceptor.conn /\ acceptor.conn \in Conn
        BY <2>2, <3>1 DEF Accepted, Typed, Owned, OwnNumbers, AcceptedOnce
      <4> QED
        BY <1>1, <1>3, <1>4, <3>1, <4>1
    <3>2. CASE \E c \in Conn : s = c /\ acceptor' = [at |-> "accepted", conn |-> c, fd |-> fd]
      BY <1>3, <3>2
    <3> QED
      BY <1>5, <2>2, <3>1, <3>2
  <2>3. ASSUME acceptor'.at # "none", stop' \in {"idle", "close_listener"}
        PROVE  descriptor'[ListenFd] = Listener
    <3>1. CASE acceptor.at # "none"
      <4>1. descriptor[ListenFd] = Listener /\ ListenFd \in Fd
        BY <1>2, <2>3, <3>1, TcpServerAssumption DEF Owned, OwnNumbers
      <4> QED
        BY <1>1, <1>3, <1>4, <4>1
    <3>2. CASE acceptor.at = "none"
      BY <1>1, <1>3, <1>5, <2>3, <3>2
    <3> QED
      BY <3>1, <3>2
  <2> QED
    BY <2>1, <2>2, <2>3 DEF OwnNumbers
<1>7. Holders' = Holders /\ Listed' = Listed
  BY <1>2 DEF Holders, Listed
<1>8. OwnFreshNumbers' /\ Apart'
  <2> SUFFICES ASSUME FreshNumbers'
               PROVE  OwnFreshNumbers' /\ Apart'
    BY DEF OwnFreshNumbers, Apart
  <2>1. FreshNumbers /\ used' = used \cup {fd}
    BY <1>1, <1>2 DEF FreshNumbers
  <2>2. /\ \A c \in Holders : worker[c].fd \in used
        /\ Accepted => acceptor.fd \in used
        /\ \A c \in Conn : Serving(c) => descriptor[worker[c].fd] \in {c, Free}
        /\ \A x \in Listed : x \in used /\ descriptor[x] \notin Other
    BY <2>1 DEF Owned, OwnFreshNumbers
  <2>3. Accepted' => acceptor'.fd \in used'
    BY <1>5, <2>1, <2>2 DEF Accepted
  <2>4. \A c \in Conn : Serving(c)' => descriptor'[worker'[c].fd] \in {c, Free}
    <3>1. ASSUME NEW c \in Conn, Serving(c)'
          PROVE  descriptor'[worker'[c].fd] \in {c, Free}
      <4>1. Serving(c) /\ c \in Holders /\ worker[c].fd \in Fd /\ worker'[c].fd = worker[c].fd
        BY <1>2, <3>1 DEF Serving, Holders, Typed
      <4> QED
        BY <1>1, <1>3, <2>2, <4>1
    <3> QED
      BY <3>1
  <2>5. \A x \in Listed' : x \in used' /\ descriptor'[x] \notin Other
    <3>1. \A x \in Listed : x \in Fd
      BY DEF Listed, Typed
    <3> QED
      BY <1>1, <1>3, <1>7, <2>1, <2>2, <3>1
  <2>6. OwnFreshNumbers'
    BY <1>2, <1>7, <2>1, <2>2, <2>3, <2>4, <2>5 DEF OwnFreshNumbers
  <2>7. Accepted' => \A c \in Holders : worker[c].fd # acceptor'.fd
    <3>1. CASE acceptor' = acceptor
      BY <2>1, <3>1 DEF Accepted, Owned, Apart
    <3>2. CASE acceptor'.fd = fd
      BY <1>1, <2>2, <3>2
    <3> QED
      BY <1>5, <3>1, <3>2
  <2>8. \A c, d \in Holders : worker[c].fd = worker[d].fd => c = d
    BY <2>1 DEF Owned, Apart
  <2>9. Apart'
    BY <1>2, <1>7, <2>7, <2>8 DEF Apart
  <2> QED
    BY <2>6, <2>9
<1>9. RecvOwn' /\ OwnSockets'
  BY <1>2 DEF RecvOwn, OwnSockets, Calm, FreshNumbers, StopIsClosing
<1> QED
  BY <1>6, <1>8, <1>9 DEF Owned

(* What is closed is the closing thread's, or was already. *)
LEMMA OwnedByClosing ==
  ASSUME Held, Typed, Unstarted, Owned, RecvOwn, OwnSockets, [Next]_vars,
         Refuse \/ CloseListener \/ CloseNext \/ \E c \in Conn : CloseConnection(c)
  PROVE  Owned' /\ RecvOwn' /\ OwnSockets'
<1> USE DEF Held
<1>1. PICK fd \in Fd :
        /\ descriptor' = [descriptor EXCEPT ![fd] = Free]
        /\ \/ /\ Refuse /\ fd = acceptor.fd /\ Accepted /\ acceptor' = [acceptor EXCEPT !.at = "loop"]
              /\ foreign' = (foreign \/ descriptor[fd] \notin {acceptor.conn, Free})
              /\ UNCHANGED <<stop, worker, registered, closing>>
           \/ /\ fd = ListenFd /\ stop = "close_listener" /\ stop' = "join_acceptor"
              /\ foreign' = (foreign \/ descriptor[fd] \notin {Listener, Free})
              /\ UNCHANGED <<acceptor, worker, registered, closing>>
           \/ /\ stop = "close_connections" /\ closing # <<>> /\ fd = Head(closing)
              /\ foreign' = (foreign \/ descriptor[fd] \in Other)
              /\ closing' = Tail(closing)
              /\ UNCHANGED <<stop, acceptor, worker, registered>>
           \/ \E c \in Conn :
                /\ worker[c].at = "close" /\ fd = worker[c].fd
                /\ worker' = [worker EXCEPT ![c].at = "erase"]
                /\ foreign' = (foreign \/ descriptor[fd] \notin {c, Free})
                /\ UNCHANGED <<stop, acceptor, registered, closing>>
  <2>1. CASE Refuse
    <3>1. Accepted /\ acceptor.fd \in Fd
      BY <2>1 DEF Refuse, AcceptorAt, Accepted, Typed
    <3> QED
      BY <2>1, <3>1 DEF Refuse, Closes, AcceptorGoes
  <2>2. CASE CloseListener
    BY <2>2, TcpServerAssumption DEF CloseListener, Closes, StopOnly
  <2>3. CASE CloseNext
    <3>1. Head(closing) \in Fd
      BY <2>3 DEF CloseNext, Typed
    <3> QED
      BY <2>3, <3>1 DEF CloseNext, StopOnly
  <2>4. CASE \E c \in Conn : CloseConnection(c)
    <3>1. PICK c \in Conn : CloseConnection(c)
      BY <2>4
    <3>2. worker[c].fd \in Fd
      BY <3>1 DEF CloseConnection, WorkerAt, Typed
    <3> QED
      BY <3>1, <3>2 DEF CloseConnection, Closes, WorkerAt, WorkerGoes
  <2> QED
    BY <2>1, <2>2, <2>3, <2>4
<1>2. used' = used /\ env' = env
  BY DEF Refuse, CloseListener, CloseNext, CloseConnection, Closes, StopOnly
<1>3. \A x \in Fd : descriptor'[x] = IF x = fd THEN Free ELSE descriptor[x]
  BY <1>1 DEF Shaped
<1>4. \A c \in Conn : worker'[c].fd = worker[c].fd /\ worker'[c].on = worker[c].on
  /\ (worker'[c].at = worker[c].at \/ (worker[c].at = "close" /\ worker'[c].at = "erase" /\ fd = worker[c].fd))
  <2>1. CASE worker' = worker
    BY <2>1
  <2>2. CASE \E c \in Conn : worker[c].at = "close" /\ fd = worker[c].fd
                           /\ worker' = [worker EXCEPT ![c].at = "erase"]
    BY <2>2 DEF Shaped
  <2> QED
    BY <1>1, <2>1, <2>2
<1>5. acceptor'.conn = acceptor.conn /\ acceptor'.fd = acceptor.fd
      /\ (Accepted' => Accepted) /\ (acceptor'.at # "none" => acceptor.at # "none")
  <2>1. CASE acceptor' = acceptor
    BY <2>1 DEF Accepted
  <2>2. CASE Accepted /\ acceptor' = [acceptor EXCEPT !.at = "loop"]
    BY <2>2 DEF Shaped, Accepted
  <2> QED
    BY <1>1, <2>1, <2>2
<1>6. Holders' = Holders /\ \A c \in Conn : Serving(c)' => Serving(c)
  BY <1>4 DEF Holders, Serving
<1>7. Accepted => ~StopIsClosing /\ acceptor.conn \in Conn /\ acceptor.fd \in Fd
                  /\ descriptor[acceptor.fd] = acceptor.conn /\ worker[acceptor.conn].at = "none"
  BY DEF Accepted, Joined, StopIsClosing, AcceptedOnce, Typed, Owned, OwnNumbers
<1>8. /\ StopIsClosing => StopIsClosing'
      /\ stop' \in {"idle", "close_listener"} => stop = stop'
  BY <1>1 DEF StopIsClosing
<1>9. ASSUME NEW c \in Conn, worker[c].at = "close", fd = worker[c].fd
      PROVE  ~StopIsClosing => descriptor[fd] = c
  BY <1>9 DEF Serving, Owned, OwnNumbers
<1>10. ASSUME stop = "close_listener" PROVE descriptor[ListenFd] = Listener
  BY <1>10 DEF Unstarted, Owned, OwnNumbers
<1>11. ListenFd \in Fd /\ Listener \notin Conn /\ Free \notin Conn /\ Free # Listener
       /\ Conn \cap Other = {} /\ Free \notin Other /\ Listener \notin Other
  BY TcpServerAssumption
<1>12. OwnNumbers'
  <2>1. ASSUME ~StopIsClosing', NEW c \in Conn, Serving(c)'
        PROVE  descriptor'[worker'[c].fd] = c
    <3>1. /\ ~StopIsClosing /\ Serving(c) /\ worker'[c].fd = worker[c].fd /\ worker[c].fd \in Fd
          /\ descriptor[worker[c].fd] = c /\ stop # "close_connections"
      BY <1>4, <1>6, <1>8, <2>1 DEF Owned, OwnNumbers, Serving, Typed, StopIsClosing
    <3>2. worker[c].at # "none" /\ worker'[c].at # "erase"
      BY <2>1, <3>1 DEF Serving
    <3>3. fd # worker[c].fd
      <4>1. ASSUME NEW d \in Conn, worker[d].at = "close", fd = worker[d].fd,
                   worker' = [worker EXCEPT ![d].at = "erase"]
            PROVE  fd # worker[c].fd
        <5>1. worker'[d].at = "erase" /\ descriptor[fd] = d
          BY <1>9, <3>1, <4>1 DEF Shaped
        <5> QED
          BY <3>1, <3>2, <5>1
      <4>2. CASE fd = acceptor.fd /\ Accepted
        BY <1>7, <3>1, <3>2, <4>2
      <4>3. CASE fd = ListenFd /\ stop = "close_listener"
        BY <1>10, <1>11, <3>1, <4>3
      <4> QED
        BY <1>1, <3>1, <4>1, <4>2, <4>3
    <3> QED
      BY <1>3, <3>1, <3>3
  <2>2. ASSUME Accepted' PROVE descriptor'[acceptor'.fd] = acceptor'.conn
    <3>1. Accepted /\ ~StopIsClosing /\ stop # "close_connections" /\ ~Refuse
      BY <1>5, <1>7, <2>2 DEF StopIsClosing, Refuse, Closes, AcceptorGoes, Accepted, Shaped
    <3>2. fd # acceptor.fd
      BY <1>1, <1>7, <1>9, <1>10, <1>11, <3>1
    <3> QED
      BY <1>3, <1>5, <1>7, <3>1, <3>2
  <2>3. ASSUME acceptor'.at # "none", stop' \in {"idle", "close_listener"}
        PROVE  descriptor'[ListenFd] = Listener
    <3>1. descriptor[ListenFd] = Listener /\ ~StopIsClosing /\ stop = stop'
      BY <1>5, <1>8, <2>3 DEF Owned, OwnNumbers, StopIsClosing
    <3>2. fd # ListenFd
      BY <1>1, <1>7, <1>9, <1>11, <2>3, <3>1
    <3> QED
      BY <1>3, <1>11, <3>1, <3>2
  <2> QED
    BY <2>1, <2>2, <2>3 DEF OwnNumbers
<1>13. \A x \in Listed' : x \in Listed /\ x \in Fd
  <2>1. \A x \in Listed : x \in Fd
    BY DEF Listed, Typed
  <2>2. CASE UNCHANGED <<registered, closing>>
    BY <2>1, <2>2 DEF Listed
  <2>3. CASE closing # <<>> /\ closing' = Tail(closing) /\ UNCHANGED registered
    <3>1. closing \in Seq(Fd)
      BY DEF Typed
    <3>2. \A i \in DOMAIN Tail(closing) : \E j \in DOMAIN closing : Tail(closing)[i] = closing[j]
      <4>1. ASSUME NEW i \in 1 .. Len(closing) - 1
            PROVE  i + 1 \in DOMAIN closing /\ Tail(closing)[i] = closing[i + 1]
        BY <3>1, <2>3
      <4>2. DOMAIN Tail(closing) = 1 .. Len(closing) - 1
        BY <3>1, <2>3
      <4> QED
        BY <4>1, <4>2
    <3> QED
      BY <2>1, <2>3, <3>2 DEF Listed
  <2> QED
    BY <1>1, <2>2, <2>3
<1>14. OwnFreshNumbers' /\ Apart'
  <2> SUFFICES ASSUME FreshNumbers'
               PROVE  OwnFreshNumbers' /\ Apart'
    BY DEF OwnFreshNumbers, Apart
  <2>1. FreshNumbers
    BY <1>2 DEF FreshNumbers
  <2>2. \A c \in Conn : Serving(c)' => descriptor'[worker'[c].fd] \in {c, Free}
    <3>1. ASSUME NEW c \in Conn, Serving(c)'
          PROVE  worker[c].fd \in Fd /\ descriptor[worker[c].fd] \in {c, Free}
      BY <1>6, <2>1, <3>1 DEF Owned, OwnFreshNumbers, Typed, Serving
    <3> QED
      BY <1>3, <1>4, <3>1
  <2>3. \A x \in Listed' : x \in used' /\ descriptor'[x] \notin Other
    BY <1>2, <1>3, <1>11, <1>13, <2>1 DEF Owned, OwnFreshNumbers
  <2>4. \A c \in Holders' : c \in Holders /\ c \in Conn /\ worker'[c].fd = worker[c].fd
    BY <1>4, <1>6 DEF Holders
  <2>5. OwnFreshNumbers'
    BY <1>2, <1>5, <2>1, <2>2, <2>3, <2>4 DEF Owned, OwnFreshNumbers
  <2>6. Apart'
    BY <1>5, <2>1, <2>4 DEF Owned, Apart
  <2> QED
    BY <2>5, <2>6
<1>15. RecvOwn'
  <2>1. ASSUME Calm', NEW c \in Conn, worker'[c].at \in Receiving PROVE worker'[c].on = c
    BY <1>4, <2>1, CalmWas DEF RecvOwn, Receiving
  <2> QED
    BY <2>1 DEF RecvOwn
<1>16. OwnSockets'
  <2> SUFFICES ASSUME Calm' PROVE ~foreign'
    BY DEF OwnSockets, Calm
  <2>1. Calm /\ ~foreign
    BY CalmWas DEF OwnSockets, Calm
  <2>2. CASE stop = "close_connections"
    <3>1. FreshNumbers /\ ~Accepted
      BY <1>7, <2>1, <2>2 DEF Calm, StopIsClosing
    <3>2. ASSUME closing # <<>>, fd = Head(closing)
          PROVE  descriptor[fd] \notin Other
      <4>1. closing \in Seq(Fd)
        BY DEF Typed
      <4>2. 1 \in DOMAIN closing /\ Head(closing) = closing[1]
        BY <3>2, <4>1
      <4> QED
        BY <3>1, <3>2, <4>2 DEF Owned, OwnFreshNumbers, Listed
    <3>3. ASSUME NEW c \in Conn, worker[c].at = "close", fd = worker[c].fd
          PROVE  descriptor[fd] \in {c, Free}
      BY <3>1, <3>3 DEF Owned, OwnFreshNumbers, Serving
    <3> QED
      BY <1>1, <2>1, <2>2, <3>1, <3>2, <3>3
  <2>3. CASE stop # "close_connections"
    <3>1. ASSUME NEW c \in Conn, worker[c].at = "close", fd = worker[c].fd
          PROVE  descriptor[fd] \in {c, Free}
      BY <1>9, <2>1, <3>1 DEF Owned, OwnFreshNumbers, Serving, Calm
    <3> QED
      BY <1>1, <1>7, <1>10, <2>1, <2>3, <3>1
  <2> QED
    BY <2>2, <2>3
<1> QED
  BY <1>12, <1>14, <1>15, <1>16 DEF Owned

LEMMA OwnedByWorker ==
  ASSUME Held, Typed, Owned, RecvOwn, OwnSockets, [Next]_vars,
         NEW c \in Conn, WorkerStep(c), ~CloseConnection(c)
  PROVE  Owned' /\ RecvOwn' /\ OwnSockets'
<1> USE DEF Held
<1>1. UNCHANGED <<env, descriptor, used, stop, acceptor, closing>>
  BY DEF WorkerStep, ServeLoop, CallRecv, RecvFails, RecvLength, RecvRest, RecvForeign, SendFrame, Erase, WorkerOnly, kernel
<1>2. /\ Serving(c) \/ worker[c].at = "erase"
      /\ worker'[c].fd = worker[c].fd
      /\ \A d \in Conn \ {c} : worker'[d] = worker[d]
      /\ Serving(c)' => Serving(c)
      /\ worker'[c].at \in Receiving => CallRecv(c) /\ worker'[c].on = Here(c) /\ Here(c) # Free
  <2>1. CASE ServeLoop(c)
    BY <2>1 DEF ServeLoop, WorkerAt, WorkerGoes, Shaped, Serving, Receiving
  <2>2. CASE CallRecv(c)
    <3>1. "on" \in DOMAIN worker[c] => worker'[c].on = Here(c)
      BY <2>2 DEF CallRecv, Shaped
    <3> QED
      <4>1. DOMAIN worker = Conn /\ {"at", "fd", "on", "answer"} \subseteq DOMAIN worker[c]
        BY DEF Shaped
      <4>2. /\ worker[c].at \in {"call", "call_rest"}
            /\ worker' = [worker EXCEPT
                 ![c].at = IF Here(c) = Free THEN "close"
                           ELSE IF worker[c].at = "call" THEN "recv" ELSE "recv_rest",
                 ![c].on = Here(c)]
        BY <2>2 DEF CallRecv
      <4>3. /\ \A d \in Conn \ {c} : worker'[d] = worker[d]
            /\ worker'[c].fd = worker[c].fd
            /\ worker'[c].at = IF Here(c) = Free THEN "close"
                               ELSE IF worker[c].at = "call" THEN "recv" ELSE "recv_rest"
        BY <4>1, <4>2
      <4> QED
        BY <2>2, <3>1, <4>1, <4>2, <4>3 DEF Serving, Receiving
  <2>3. CASE RecvFails(c)
    BY <2>3 DEF RecvFails, Shaped, Serving, Receiving
  <2>4. CASE RecvLength(c) \/ RecvRest(c) \/ RecvForeign(c)
    BY <2>4, ReceivedOnly DEF Serving, Receiving
  <2>5. CASE SendFrame(c)
    BY <2>5 DEF SendFrame, WorkerGoes, Shaped, Serving, Receiving
  <2>6. CASE Erase(c)
    BY <2>6 DEF Erase, WorkerAt, WorkerGoes, Shaped, Serving, Receiving
  <2> QED
    BY <2>1, <2>2, <2>3, <2>4, <2>5, <2>6 DEF WorkerStep
<1>3. \A fd \in Listed' : fd \in Listed
  <2>1. CASE UNCHANGED registered
    BY <1>1, <2>1 DEF Listed
  <2>2. CASE registered' = Erased(registered, worker[c].fd)
    <3>1. registered \in Seq(Fd)
      BY DEF Typed
    <3>2. \A i \in DOMAIN registered' : \E j \in DOMAIN registered : registered'[i] = registered[j]
      BY <2>2, <3>1, ErasedKeeps
    <3> QED
      BY <1>1, <3>2 DEF Listed
  <2> QED
    BY <2>1, <2>2 DEF WorkerStep, ServeLoop, CallRecv, RecvFails, RecvLength, RecvRest, RecvForeign, SendFrame, Erase, WorkerOnly
<1>4. Owned'
  <2>1. /\ StopIsClosing => StopIsClosing'
        /\ (acceptor'.at # "none" /\ stop' \in {"idle", "close_listener"}) =>
             (acceptor.at # "none" /\ stop \in {"idle", "close_listener"})
        /\ Accepted' => Accepted /\ acceptor'.conn = acceptor.conn /\ acceptor'.fd = acceptor.fd
    BY <1>1 DEF StopIsClosing, Accepted
  <2>2. \A d \in Conn : worker'[d].at # "none" => worker[d].at # "none" /\ worker'[d].fd = worker[d].fd
    BY <1>2 DEF Serving
  <2>3. \A d \in Conn : Serving(d)' => Serving(d)
    BY <1>2 DEF Serving
  <2> QED
    BY <1>1, <1>3, <2>1, <2>2, <2>3, OwnedByBystanders
<1>5. ASSUME Calm, Serving(c)
      PROVE  Here(c) \in {c, Free}
  BY <1>5 DEF Here, Calm, Owned, OwnNumbers, OwnFreshNumbers
<1>6. Calm' <=> Calm
  BY <1>1 DEF Calm, FreshNumbers, StopIsClosing
<1>7. RecvOwn'
  <2>1. ASSUME Calm', NEW d \in Conn, worker'[d].at \in Receiving PROVE worker'[d].on = d
    <3>1. CASE d = c
      <4>1. Serving(c)
        BY <1>2, <2>1, <3>1 DEF Serving, Receiving
      <4> QED
        BY <1>2, <1>5, <1>6, <2>1, <3>1, <4>1
    <3>2. CASE d # c
      BY <1>2, <1>6, <2>1, <3>2 DEF RecvOwn
    <3> QED
      BY <3>1, <3>2
  <2> QED
    BY <2>1 DEF RecvOwn
<1>8. OwnSockets'
  <2> SUFFICES ASSUME Calm' PROVE ~foreign'
    BY DEF OwnSockets, Calm
  <2>1. Calm /\ ~foreign
    BY <1>6 DEF OwnSockets, Calm
  <2>2. CASE CallRecv(c) \/ SendFrame(c)
    <3>1. Serving(c) /\ foreign' = (foreign \/ Here(c) \notin {c, Free})
      BY <2>2 DEF CallRecv, SendFrame, Serving
    <3> QED
      BY <1>5, <2>1, <3>1
  <2>3. CASE ~(CallRecv(c) \/ SendFrame(c))
    BY <2>1, <2>3 DEF WorkerStep, ServeLoop, RecvFails, RecvLength, RecvRest, RecvForeign, Erase
  <2> QED
    BY <2>2, <2>3
<1> QED
  BY <1>4, <1>7, <1>8

(* The accepting thread hands over a number, and with it the duty to close. *)
LEMMA OwnedBySpawn ==
  ASSUME Held, Typed, Owned, RecvOwn, OwnSockets, Spawn
  PROVE  Owned' /\ RecvOwn' /\ OwnSockets'
<1> USE DEF Held
<1> DEFINE c == acceptor.conn
<1>0. worker' = [worker EXCEPT ![c].at = "loop", ![c].fd = acceptor.fd]
  BY DEF Spawn
<1>1. /\ UNCHANGED <<env, descriptor, used, stop, closing, registered, foreign>>
      /\ Accepted /\ ~Accepted' /\ acceptor.at # "none" /\ acceptor'.at # "none"
  BY DEF Spawn, AcceptorAt, AcceptorGoes, Accepted, Shaped, kernel
<1>2. c \in Conn /\ acceptor.fd \in Fd /\ worker[c].at = "none" /\ descriptor[acceptor.fd] = c
  BY <1>1 DEF AcceptedOnce, Typed, Owned, OwnNumbers
<1>3. /\ worker'[c].at = "loop" /\ worker'[c].fd = acceptor.fd
      /\ \A d \in Conn \ {c} : worker'[d] = worker[d]
  BY <1>0, <1>2 DEF Shaped
<1> HIDE DEF c
<1>4. OwnNumbers'
  <2>1. ASSUME ~StopIsClosing', NEW d \in Conn, Serving(d)'
        PROVE  descriptor'[worker'[d].fd] = d
    <3>1. CASE d = c
      BY <1>1, <1>2, <1>3, <3>1
    <3>2. CASE d # c
      <4>1. ~StopIsClosing /\ Serving(d)
        BY <1>1, <1>3, <2>1, <3>2 DEF StopIsClosing, Serving
      <4> QED
        BY <1>1, <1>3, <3>2, <4>1 DEF Owned, OwnNumbers
    <3> QED
      BY <3>1, <3>2
  <2> QED
    BY <1>1, <2>1 DEF Owned, OwnNumbers
<1>5. \A d \in Holders' : d \in Conn /\ (d = c \/ (d \in Holders /\ worker'[d].fd = worker[d].fd))
  BY <1>3 DEF Holders
<1>6. OwnFreshNumbers' /\ Apart'
  <2> SUFFICES ASSUME FreshNumbers'
               PROVE  OwnFreshNumbers' /\ Apart'
    BY DEF OwnFreshNumbers, Apart
  <2>1. FreshNumbers
    BY <1>1 DEF FreshNumbers
  <2>2. \A d \in Conn : Serving(d)' => descriptor'[worker'[d].fd] \in {d, Free}
    <3>1. \A d \in Conn : Serving(d)' => d = c \/ (Serving(d) /\ worker'[d].fd = worker[d].fd)
      BY <1>3 DEF Serving
    <3>2. \A d \in Conn : Serving(d) => descriptor[worker[d].fd] \in {d, Free}
      BY <2>1 DEF Owned, OwnFreshNumbers
    <3> QED
      BY <1>1, <1>2, <1>3, <3>1, <3>2
  <2>3. \A d \in Holders' : worker'[d].fd \in used'
    <3>1. (\A d \in Holders : worker[d].fd \in used) /\ acceptor.fd \in used
      BY <1>1, <2>1 DEF Owned, OwnFreshNumbers
    <3> QED
      BY <1>1, <1>3, <1>5, <3>1
  <2>4. Listed' = Listed
    BY <1>1 DEF Listed
  <2>5. OwnFreshNumbers'
    BY <1>1, <2>1, <2>2, <2>3, <2>4 DEF Owned, OwnFreshNumbers
  <2>6. \A d, e \in Holders' : worker'[d].fd = worker'[e].fd => d = e
    <3>1. /\ \A d, e \in Holders : worker[d].fd = worker[e].fd => d = e
          /\ \A d \in Holders : worker[d].fd # acceptor.fd
      BY <1>1, <2>1 DEF Owned, Apart
    <3> QED
      BY <1>3, <1>5, <3>1
  <2> QED
    BY <1>1, <2>5, <2>6 DEF Apart
<1>7. RecvOwn' /\ OwnSockets'
  <2>1. Calm' => Calm
    BY <1>1 DEF Calm, FreshNumbers, StopIsClosing
  <2>2. \A d \in Conn : worker'[d].at \in Receiving => d # c
    BY <1>3 DEF Receiving
  <2> QED
    BY <1>1, <1>3, <2>1, <2>2 DEF RecvOwn, OwnSockets, Calm
<1> QED
  BY <1>4, <1>6, <1>7 DEF Owned

LEMMA OwnedNext ==
  ASSUME Held, Typed, Unstarted, Owned, RecvOwn, OwnSockets, [Next]_vars
  PROVE  Owned' /\ RecvOwn' /\ OwnSockets'
<1>1. CASE Start \/ (\E o \in Other : OpenOther(o)) \/ (\E c \in Conn : Accept(c))
  BY <1>1, OwnedByOpening
<1>2. CASE Refuse \/ CloseListener \/ CloseNext \/ \E c \in Conn : CloseConnection(c)
  BY <1>2, OwnedByClosing
<1>3. CASE \E c \in Conn : WorkerStep(c) /\ ~CloseConnection(c)
  BY <1>3, OwnedByWorker
<1>4. CASE Spawn
  BY <1>4, OwnedBySpawn
<1>5. ASSUME \/ AcceptLoop \/ CallAccept \/ AcceptWakes \/ Admit \/ Register
             \/ BeginStop \/ JoinAcceptor \/ ClearConnections \/ JoinWorkers
             \/ (\E c \in Conn : ClientStep(c)) \/ UNCHANGED vars
      PROVE  Owned' /\ RecvOwn' /\ OwnSockets'
  <2>1. UNCHANGED <<env, descriptor, used, worker, foreign>>
    <3>1. CASE AcceptLoop \/ CallAccept \/ AcceptWakes \/ Admit \/ Register \/ UNCHANGED vars
      BY <3>1 DEF AcceptLoop, CallAccept, AcceptWakes, Admit, Register, AcceptorOnly, kernel, vars
    <3>2. CASE BeginStop \/ JoinAcceptor \/ ClearConnections \/ JoinWorkers
      BY <3>2 DEF BeginStop, JoinAcceptor, ClearConnections, JoinWorkers, StopOnly
    <3>3. CASE \E c \in Conn : ClientStep(c)
      BY <3>3 DEF ClientStep, Connect, SendRequest, SendRest, HangUp, ClientOnly
    <3> QED
      BY <1>5, <3>1, <3>2, <3>3
  <2>2. (acceptor'.at # "none" /\ stop' \in {"idle", "close_listener"}) =>
          (acceptor.at # "none" /\ stop \in {"idle", "close_listener"})
    <3>1. CASE AcceptLoop \/ CallAccept \/ AcceptWakes \/ Admit \/ Register \/ UNCHANGED vars
      BY <3>1 DEF AcceptLoop, CallAccept, AcceptWakes, Admit, Register, AcceptorOnly, AcceptorAt, vars
    <3>2. CASE BeginStop \/ JoinAcceptor \/ ClearConnections \/ JoinWorkers
      BY <3>2 DEF BeginStop, JoinAcceptor, ClearConnections, JoinWorkers, StopOnly
    <3>3. CASE \E c \in Conn : ClientStep(c)
      BY <3>3 DEF ClientStep, Connect, SendRequest, SendRest, HangUp, ClientOnly
    <3> QED
      BY <1>5, <3>1, <3>2, <3>3
  <2>3. Accepted' => Accepted /\ acceptor'.conn = acceptor.conn /\ acceptor'.fd = acceptor.fd
    <3>1. CASE AcceptLoop \/ CallAccept \/ AcceptWakes \/ Admit \/ Register
      <4>1. PICK at : acceptor' = [acceptor EXCEPT !.at = at]
        BY <3>1 DEF AcceptLoop, CallAccept, AcceptWakes, Admit, Register, AcceptorGoes
      <4>2. acceptor'.conn = acceptor.conn /\ acceptor'.fd = acceptor.fd
        BY <4>1 DEF Held, Shaped
      <4>3. CASE Admit \/ Register
        BY <4>2, <4>3 DEF Admit, Register, AcceptorAt, Accepted
      <4>4. CASE AcceptLoop \/ CallAccept \/ AcceptWakes
        BY <4>4 DEF AcceptLoop, CallAccept, AcceptWakes, AcceptorGoes, Accepted, Held, Shaped
      <4> QED
        BY <3>1, <4>3, <4>4
    <3>2. CASE BeginStop \/ JoinAcceptor \/ ClearConnections \/ JoinWorkers \/ UNCHANGED vars
      BY <3>2 DEF BeginStop, JoinAcceptor, ClearConnections, JoinWorkers, StopOnly, Accepted, vars
    <3>3. CASE \E c \in Conn : ClientStep(c)
      BY <3>3 DEF ClientStep, Connect, SendRequest, SendRest, HangUp, ClientOnly, Accepted
    <3> QED
      BY <1>5, <3>1, <3>2, <3>3
  <2>4. \A fd \in Listed' : fd \in Listed \/ (Accepted /\ fd = acceptor.fd)
    <3>1. CASE UNCHANGED <<registered, closing>>
      BY <3>1 DEF Listed
    <3>2. CASE Register
      <4>1. registered \in Seq(Fd) /\ registered' = Append(registered, acceptor.fd) /\ Accepted
            /\ acceptor.fd \in Fd /\ UNCHANGED closing
        BY <3>2 DEF Register, AcceptorAt, Accepted, Typed
      <4>2. \A i \in DOMAIN registered' : registered'[i] = acceptor.fd
              \/ \E j \in DOMAIN registered : registered'[i] = registered[j]
        BY <4>1
      <4> QED
        BY <4>1, <4>2 DEF Listed
    <3>3. CASE JoinAcceptor
      BY <3>3 DEF JoinAcceptor, Listed
    <3>4. CASE ClearConnections
      BY <3>4 DEF ClearConnections, Listed
    <3>5. ASSUME ~Register, ~JoinAcceptor, ~ClearConnections
          PROVE  UNCHANGED <<registered, closing>>
      <4>1. CASE AcceptLoop \/ CallAccept \/ AcceptWakes \/ Admit \/ UNCHANGED vars
        BY <4>1 DEF AcceptLoop, CallAccept, AcceptWakes, Admit, AcceptorOnly, vars
      <4>2. CASE BeginStop \/ JoinWorkers
        BY <4>2 DEF BeginStop, JoinWorkers
      <4>3. CASE \E c \in Conn : ClientStep(c)
        BY <4>3 DEF ClientStep, Connect, SendRequest, SendRest, HangUp, ClientOnly
      <4> QED
        BY <1>5, <3>5, <4>1, <4>2, <4>3
    <3> QED
      BY <3>1, <3>2, <3>3, <3>4, <3>5
  <2>5. Owned'
    <3>1. \A c \in Conn : Serving(c)' => Serving(c)
      BY <2>1 DEF Serving
    <3> QED
      BY <2>1, <2>2, <2>3, <2>4, <3>1, CalmWas, OwnedByBystanders
  <2>6. RecvOwn' /\ OwnSockets'
    BY <2>1, CalmWas DEF RecvOwn, OwnSockets, Calm
  <2> QED
    BY <2>5, <2>6
<1> QED
  BY <1>1, <1>2, <1>3, <1>4, <1>5 DEF Next, AcceptorStep, StopStep, WorkerStep

LEMMA LinksInit == Init => LinkTyped /\ Told
<1> SUFFICES ASSUME Init PROVE LinkTyped /\ Told
  OBVIOUS
<1>1. \A c \in Conn :
        /\ worker[c].at = "none" /\ worker[c].answer = <<>>
        /\ {"sent", "read", "headed", "received"} \subseteq DOMAIN link[c]
        /\ link[c].sent = <<>> /\ link[c].read = 0 /\ link[c].received = <<>>
        /\ link[c].headed = FALSE
  BY DEF Init
<1>2. (\A S : <<>> \in Seq(S)) /\ Len(<<>>) = 0 /\ DOMAIN <<>> = {} /\ 0 \in 0 .. 0
  OBVIOUS
<1>3. LinkTyped
  BY <1>1, <1>2 DEF LinkTyped
<1>4. \A c \in Conn : ToldTo(c)
  BY <1>1, <1>2 DEF ToldTo, Unread, Answering
<1> QED
  BY <1>3, <1>4 DEF Told

(* A step that neither reads nor answers *)
LEMMA LinksByBystanders ==
  ASSUME LinkTyped, Told, Calm' => Calm,
         \A c \in Conn :
           /\ {"sent", "read", "headed", "received"} \subseteq DOMAIN link'[c]
           /\ link'[c].sent = link[c].sent /\ link'[c].read = link[c].read
           /\ link'[c].received = link[c].received
           /\ link'[c].headed =>
                link[c].headed \/ (link[c].read < Len(link[c].sent)
                                   /\ link[c].sent[link[c].read + 1] # Oversized)
           /\ worker'[c].answer = worker[c].answer
           /\ worker'[c].at \in Unread => worker[c].at \in Unread
           /\ worker'[c].at \in Answering => worker[c].at \in Answering
  PROVE  LinkTyped' /\ Told'
<1>1. LinkTyped'
  BY DEF LinkTyped
<1>2. \A c \in Conn : ToldTo(c) => ToldTo(c)'
  BY DEF ToldTo
<1> QED
  BY <1>1, <1>2 DEF Told

LEMMA LinksBySendRequest ==
  ASSUME Held, Typed, LinkTyped, Told, [Next]_vars, NEW c \in Conn, SendRequest(c)
  PROVE  LinkTyped' /\ Told'
<1> DEFINE sent == link[c].sent
           received == link[c].received
           read == link[c].read
<1>1. PICK frame \in Frames :
        link' = [link EXCEPT ![c].sent = Append(sent, frame), ![c].bodiless = TRUE]
  <2>1. env.sends[c] \in Seq(Frames) /\ sent \in Seq(Frames)
    BY TcpServerAssumption DEF Typed, Environment, LinkTyped
  <2>2. Len(sent) < Len(env.sends[c])
    BY DEF SendRequest
  <2>3. Len(sent) + 1 \in DOMAIN env.sends[c]
    <3> HIDE DEF sent
    <3> QED
      BY <2>1, <2>2
  <2>4. env.sends[c][Len(sent) + 1] \in Frames
    <3> HIDE DEF sent
    <3> QED
      BY <2>1, <2>3
  <2> QED
    BY <2>4 DEF SendRequest
<1>2. worker' = worker
  BY DEF SendRequest, ClientOnly
<1>3. /\ DOMAIN link = Conn /\ {"sent", "read", "headed", "received"} \subseteq DOMAIN link[c]
      /\ sent \in Seq(Frames) /\ received \in Seq(Seq(Nat)) /\ read \in 0 .. Len(sent)
      /\ link[c].headed => read < Len(sent) /\ sent[read + 1] # Oversized
      /\ worker[c].answer \in Seq(Nat)
  BY DEF Held, Shaped, LinkTyped
<1>4. /\ link'[c].sent = Append(sent, frame) /\ link'[c].read = read /\ link'[c].received = received
      /\ link'[c].headed = link[c].headed
      /\ {"sent", "read", "headed", "received"} \subseteq DOMAIN link'[c]
      /\ \A d \in Conn \ {c} : link'[d] = link[d]
  BY <1>1, <1>3
<1>5. /\ Append(sent, frame) \in Seq(Frames) /\ read \in 0 .. Len(Append(sent, frame))
      /\ \A i \in 1 .. Len(sent) : Append(sent, frame)[i] = sent[i]
      /\ read < Len(sent) => read < Len(Append(sent, frame)) /\ read + 1 \in 1 .. Len(sent)
  BY <1>3
<1>6. LinkTyped'
  <2> HIDE DEF sent, received, read
  <2>1. link'[c].headed =>
          link'[c].read < Len(link'[c].sent) /\ link'[c].sent[link'[c].read + 1] # Oversized
    BY <1>3, <1>4, <1>5
  <2> QED
    BY <1>2, <1>3, <1>4, <1>5, <2>1 DEF LinkTyped
<1>7. ASSUME ToldTo(c) PROVE ToldTo(c)'
  <2>1. /\ DOMAIN received = 1 .. Len(received) /\ Len(received) \in Nat
        /\ Len(received) <= read /\ read <= Len(sent) /\ read \in Nat /\ Len(sent) \in Nat
    BY <1>3, <1>7 DEF ToldTo
  <2>2. \A i \in DOMAIN received : i \in 1 .. Len(sent)
    BY <2>1
  <2>3. read = Len(received) + 1 => read \in 1 .. Len(sent)
    BY <2>1
  <2> HIDE DEF sent, received, read
  <2> QED
    BY <1>2, <1>4, <1>5, <1>7, <2>2, <2>3 DEF ToldTo, sent, received, read
<1>8. \A d \in Conn \ {c} : ToldTo(d) => ToldTo(d)'
  BY <1>2, <1>4 DEF ToldTo
<1>9. Told'
  BY <1>7, <1>8, CalmWas DEF Told
<1> QED
  BY <1>6, <1>9

(* Of an answer, what is told of the step that computes it. *)
LEMMA LinksByTaking ==
  ASSUME Held, LinkTyped, Told, RecvOwn, [Next]_vars, NEW c \in Conn,
         worker[c].at \in Receiving, Readable(worker[c].on), TakesFrame(worker[c].on),
         NextFrame(worker[c].on) # Oversized,
         worker' = [worker EXCEPT ![c].at = "send", ![c].on = Free,
                                  ![c].answer = AnswerTo(NextFrame(worker[c].on))]
  PROVE  LinkTyped' /\ Told'
<1> DEFINE from == worker[c].on
           sent == link[from].sent
           received == link[from].received
           read == link[from].read
           frame == sent[read + 1]
<1>1. /\ from \in Conn /\ read < Len(sent) /\ frame # Oversized
      /\ link' = [link EXCEPT ![from].read = @ + 1, ![from].headed = FALSE]
      /\ worker' = [worker EXCEPT ![c].at = "send", ![c].on = Free, ![c].answer = AnswerTo(frame)]
  BY DEF TakesFrame, NextFrame, Readable
<1>2. /\ DOMAIN link = Conn /\ {"sent", "read", "headed", "received"} \subseteq DOMAIN link[from]
      /\ sent \in Seq(Frames) /\ received \in Seq(Seq(Nat)) /\ read \in 0 .. Len(sent)
      /\ DOMAIN worker = Conn /\ {"at", "fd", "on", "answer"} \subseteq DOMAIN worker[c]
  BY <1>1 DEF Held, Shaped, LinkTyped
<1>3. read + 1 \in 1 .. Len(sent) /\ read + 1 \in 0 .. Len(sent) /\ frame \in Frames
  BY <1>1, <1>2
<1>4. AnswerTo(frame) \in Seq(Nat) /\ DecodeResponse(AnswerTo(frame)) = Expected(frame)
  <2> HIDE DEF frame, from
  <2> QED
    BY <1>1, <1>3, AnswerIsExpected
<1>5. /\ link'[from].sent = sent /\ link'[from].read = read + 1 /\ link'[from].received = received
      /\ link'[from].headed = FALSE
      /\ {"sent", "read", "headed", "received"} \subseteq DOMAIN link'[from]
      /\ \A d \in Conn \ {from} : link'[d] = link[d]
  BY <1>1, <1>2
<1>6. /\ worker'[c].at = "send" /\ worker'[c].answer = AnswerTo(frame)
      /\ \A d \in Conn \ {c} : worker'[d] = worker[d]
  <2> HIDE DEF frame, from
  <2> QED
    BY <1>1, <1>2
<1>7. LinkTyped'
  <2> HIDE DEF frame, from, sent, received, read
  <2>1. \A d \in Conn : worker'[d].answer \in Seq(Nat)
    BY <1>4, <1>6 DEF LinkTyped
  <2>2. \A d \in Conn \ {from} :
          /\ {"sent", "read", "headed", "received"} \subseteq DOMAIN link'[d] /\ link'[d].sent \in Seq(Frames)
          /\ link'[d].received \in Seq(Seq(Nat)) /\ link'[d].read \in 0 .. Len(link'[d].sent)
          /\ link'[d].headed =>
               link'[d].read < Len(link'[d].sent) /\ link'[d].sent[link'[d].read + 1] # Oversized
    BY <1>5 DEF LinkTyped
  <2>3. /\ link'[from].sent \in Seq(Frames) /\ link'[from].received \in Seq(Seq(Nat))
        /\ link'[from].read \in 0 .. Len(link'[from].sent)
    BY <1>2, <1>3, <1>5
  <2> QED
    BY <1>5, <2>1, <2>2, <2>3 DEF LinkTyped
<1>8. ASSUME Calm' PROVE \A d \in Conn : ToldTo(d)'
  <2>1. from = c /\ (\A d \in Conn : ToldTo(d))
    BY <1>1, <1>8, CalmWas DEF RecvOwn, Told
  <2>2. Len(received) = read /\ DOMAIN received = 1 .. Len(received)
    <3>1. worker[c].at \in Unread
      BY DEF Receiving, Unread
    <3> QED
      BY <1>1, <1>2, <2>1, <3>1 DEF ToldTo
  <2>3. ToldTo(c)'
    <3>1. Len(received) <= read + 1 /\ read + 1 = Len(received) + 1
      BY <1>2, <2>2
    <3>2. \A i \in DOMAIN received : DecodeResponse(received[i]) = Expected(sent[i])
      BY <2>1 DEF ToldTo
    <3>3. worker'[c].at \notin Unread
      BY <1>6 DEF Unread
    <3>4. DecodeResponse(worker'[c].answer) = Expected(sent[read + 1])
      BY <1>4, <1>6
    <3>5. link'[c].sent = sent /\ link'[c].read = read + 1 /\ link'[c].received = received
      BY <1>5, <2>1
    <3> HIDE DEF from, sent, received, read
    <3> QED
      BY <3>1, <3>2, <3>3, <3>4, <3>5 DEF ToldTo
  <2>4. ASSUME NEW d \in Conn \ {c} PROVE ToldTo(d)'
    <3>1. link'[d] = link[d] /\ worker'[d] = worker[d] /\ ToldTo(d)
      BY <1>5, <1>6, <2>1
    <3> HIDE DEF from, sent, received, read
    <3> QED
      BY <3>1 DEF ToldTo
  <2> QED
    BY <2>3, <2>4
<1> QED
  BY <1>7, <1>8 DEF Told

(* No thread that counts reads from another part of the process. *)
LEMMA LinksByRecvForeign ==
  ASSUME Held, LinkTyped, RecvOwn, [Next]_vars, NEW c \in Conn, RecvForeign(c)
  PROVE  LinkTyped' /\ Told'
<1>1. /\ UNCHANGED link /\ worker[c].at \in Receiving /\ worker[c].on \in Other
      /\ \E at : worker' = [worker EXCEPT ![c].at = at, ![c].on = Free,
                                          ![c].answer = EncodeResponse(MalformedAnswer)]
  BY DEF RecvForeign
<1>2. ~Calm'
  BY <1>1, CalmWas, TcpServerAssumption DEF RecvOwn
<1>3. EncodeResponse(MalformedAnswer) \in Seq(Nat)
  BY MessagesAssumption, ResponseIsDecoded
<1>4. \A d \in Conn : worker'[d].answer \in Seq(Nat)
  <2>1. DOMAIN worker = Conn /\ {"at", "fd", "on", "answer"} \subseteq DOMAIN worker[c]
    BY DEF Held, Shaped
  <2>2. worker'[c].answer = EncodeResponse(MalformedAnswer) /\ \A d \in Conn \ {c} : worker'[d] = worker[d]
    BY <1>1, <2>1
  <2> QED
    BY <1>3, <2>2 DEF LinkTyped
<1> QED
  BY <1>1, <1>2, <1>4 DEF LinkTyped, Told

LEMMA LinksBySendFrame ==
  ASSUME Held, LinkTyped, Told, Owned, [Next]_vars, NEW c \in Conn, SendFrame(c),
         worker'[c].at # "send_rest"
  PROVE  LinkTyped' /\ Told'
<1> DEFINE to == Here(c)
           received == link[to].received
           answer == worker[c].answer
<1>1. /\ worker[c].at \in Answering
      /\ worker' = [worker EXCEPT ![c].at = worker'[c].at, ![c].answer = <<>>]
      /\ \/ worker'[c].at = "close" /\ UNCHANGED link
         \/ worker'[c].at = "loop" /\ to # Free /\ to \notin Conn /\ UNCHANGED link
         \/ /\ worker'[c].at = "loop" /\ to # Free /\ to \in Conn
            /\ link' = [link EXCEPT ![to].received = Append(received, answer)]
  BY DEF SendFrame, WorkerGoes, Answering, Held, Shaped
<1>2. /\ DOMAIN link = Conn /\ DOMAIN worker = Conn
      /\ \A d \in Conn : {"at", "fd", "on", "answer"} \subseteq DOMAIN worker[d]
      /\ answer \in Seq(Nat)
  BY DEF Held, Shaped, LinkTyped
<1>3. /\ worker'[c].answer = <<>> /\ \A d \in Conn \ {c} : worker'[d] = worker[d]
      /\ worker'[c].at \in {"close", "loop"}
  BY <1>1, <1>2
<1>4. \A d \in Conn : worker'[d].answer \in Seq(Nat)
  BY <1>3, EmptySeq DEF LinkTyped
<1>5. CASE UNCHANGED link
  <2>1. LinkTyped'
    BY <1>4, <1>5 DEF LinkTyped
  <2>2. ASSUME Calm', NEW d \in Conn PROVE ToldTo(d)'
    <3>1. ToldTo(d)
      BY <2>2, CalmWas DEF Told
    <3>2. CASE d # c
      BY <1>3, <1>5, <3>1, <3>2 DEF ToldTo
    <3>3. CASE d = c
      <4>1. worker'[c].at = "close"
        <5>1. Calm /\ Serving(c)
          BY <1>1, <2>2, CalmWas DEF Serving, Answering
        <5>2. to \in {c, Free}
          BY <5>1 DEF Here, Calm, Owned, OwnNumbers, OwnFreshNumbers
        <5>3. CASE to \in Conn /\ link' = [link EXCEPT ![to].received = Append(received, answer)]
          <6>1. to = c
            BY <5>2, <5>3, TcpServerAssumption
          <6>2. received \in Seq(Seq(Nat)) /\ "received" \in DOMAIN link[to]
            BY <5>3 DEF LinkTyped
          <6>3. link'[to].received = Append(received, answer)
            BY <1>2, <5>3, <6>2
          <6>4. Append(received, answer) # received
            <7>1. Len(Append(received, answer)) = Len(received) + 1 /\ Len(received) \in Nat
              BY <1>2, <6>2
            <7> HIDE DEF received, answer
            <7> QED
              BY <7>1
          <6> QED
            BY <1>5, <6>3, <6>4
        <5> QED
          BY <1>1, <5>2, <5>3
      <4> QED
        BY <1>5, <3>1, <3>3, <4>1 DEF ToldTo, Unread, Answering
    <3> QED
      BY <3>2, <3>3
  <2> QED
    BY <2>1, <2>2 DEF Told
<1>6. CASE worker'[c].at = "loop" /\ to \in Conn /\ to # Free
           /\ link' = [link EXCEPT ![to].received = Append(received, answer)]
  <2>1. received \in Seq(Seq(Nat)) /\ {"sent", "read", "headed", "received"} \subseteq DOMAIN link[to]
    BY <1>6 DEF LinkTyped
  <2>2. /\ link'[to].sent = link[to].sent /\ link'[to].read = link[to].read
        /\ link'[to].received = Append(received, answer)
        /\ link'[to].headed = link[to].headed
        /\ {"sent", "read", "headed", "received"} \subseteq DOMAIN link'[to]
        /\ \A d \in Conn \ {to} : link'[d] = link[d]
    BY <1>2, <1>6, <2>1
  <2>3. Append(received, answer) \in Seq(Seq(Nat))
    BY <1>2, <2>1
  <2>4. LinkTyped'
    <3> HIDE DEF to, received, answer
    <3>1. \A d \in Conn \ {to} :
          /\ {"sent", "read", "headed", "received"} \subseteq DOMAIN link'[d] /\ link'[d].sent \in Seq(Frames)
          /\ link'[d].received \in Seq(Seq(Nat)) /\ link'[d].read \in 0 .. Len(link'[d].sent)
          /\ link'[d].headed =>
               link'[d].read < Len(link'[d].sent) /\ link'[d].sent[link'[d].read + 1] # Oversized
      BY <2>2 DEF LinkTyped
    <3>2. link'[to].sent \in Seq(Frames) /\ link'[to].read \in 0 .. Len(link'[to].sent)
          /\ link'[to].headed =>
               link'[to].read < Len(link'[to].sent) /\ link'[to].sent[link'[to].read + 1] # Oversized
      BY <1>6, <2>2 DEF LinkTyped
    <3> QED
      BY <1>4, <2>2, <2>3, <3>1, <3>2 DEF LinkTyped
  <2>5. ASSUME Calm' PROVE \A d \in Conn : ToldTo(d)'
    <3>1. to = c /\ \A d \in Conn : ToldTo(d)
      <4>1. Calm /\ Serving(c)
        BY <1>1, <2>5, CalmWas DEF Serving, Answering
      <4>2. to \in {c, Free}
        BY <4>1 DEF Here, Calm, Owned, OwnNumbers, OwnFreshNumbers
      <4> QED
        BY <1>6, <4>1, <4>2 DEF Told
    <3>2. /\ link[c].read = Len(received) + 1 /\ received = link[c].received
          /\ DecodeResponse(answer) = Expected(link[c].sent[link[c].read])
          /\ \A i \in DOMAIN received : DecodeResponse(received[i]) = Expected(link[c].sent[i])
      BY <1>1, <3>1 DEF ToldTo
    <3>3. /\ Len(Append(received, answer)) = Len(received) + 1 /\ Len(received) \in Nat
          /\ DOMAIN Append(received, answer) = 1 .. Len(received) + 1
          /\ DOMAIN received = 1 .. Len(received)
          /\ \A i \in 1 .. Len(received) : Append(received, answer)[i] = received[i]
          /\ Append(received, answer)[Len(received) + 1] = answer
      BY <1>2, <2>1
    <3>4. ToldTo(c)'
      <4>1. /\ link'[c].received = Append(received, answer) /\ link'[c].sent = link[c].sent
            /\ link'[c].read = Len(received) + 1 /\ worker'[c].at = "loop"
        BY <1>6, <2>2, <3>1, <3>2
      <4>2. \A n \in Nat : \A i \in 1 .. n + 1 : i \in 1 .. n \/ i = n + 1
        OBVIOUS
      <4>3. \A n \in Nat : n + 1 <= n + 1
        OBVIOUS
      <4> HIDE DEF received, answer, to
      <4>4. \A i \in DOMAIN Append(received, answer) :
              DecodeResponse(Append(received, answer)[i]) = Expected(link[c].sent[i])
        BY <3>2, <3>3, <4>2
      <4>5. /\ Len(link'[c].received) = link'[c].read /\ Len(link'[c].received) <= link'[c].read
            /\ \A i \in DOMAIN link'[c].received :
                 DecodeResponse(link'[c].received[i]) = Expected(link'[c].sent[i])
        BY <3>3, <4>1, <4>3, <4>4
      <4>6. worker'[c].at \notin Answering
        BY <4>1 DEF Answering
      <4> QED
        BY <4>5, <4>6 DEF ToldTo
    <3>5. \A d \in Conn \ {c} : ToldTo(d)'
      <4>1. \A d \in Conn \ {c} : link'[d] = link[d] /\ worker'[d] = worker[d]
        BY <1>3, <2>2, <3>1
      <4> QED
        BY <3>1, <4>1 DEF ToldTo
    <3> QED
      BY <3>4, <3>5
  <2> QED
    BY <2>4, <2>5 DEF Told
<1> QED
  BY <1>1, <1>5, <1>6

LEMMA LinksNext ==
  ASSUME Held, Typed, Owned, RecvOwn, LinkTyped, Told, [Next]_vars
  PROVE  LinkTyped' /\ Told'
<1> DEFINE Takes(c) == RecvRest(c) \/ (RecvLength(c) /\ worker'[c].at = "send")
           Tells(c) == SendFrame(c) /\ worker'[c].at # "send_rest"
<1>1. CASE \E c \in Conn : SendRequest(c) \/ RecvForeign(c) \/ Tells(c)
  BY <1>1, LinksBySendRequest, LinksByRecvForeign, LinksBySendFrame
<1>2. ASSUME NEW c \in Conn, Takes(c)
      PROVE  LinkTyped' /\ Told'
  <2> DEFINE d == worker[c].on
  <2>1. DOMAIN worker = Conn /\ {"at", "fd", "on", "answer"} \subseteq DOMAIN worker[c]
    BY DEF Held, Shaped
  <2>2. /\ worker[c].at \in Receiving /\ Readable(d) /\ TakesFrame(d) /\ NextFrame(d) # Oversized
        /\ worker' = [worker EXCEPT ![c].at = "send", ![c].on = Free, ![c].answer = AnswerTo(NextFrame(d))]
    <3>1. CASE RecvRest(c)
      <4>1. Readable(d) /\ link[d].headed /\ d \in Conn
        BY <3>1 DEF RecvRest, Readable
      <4>2. NextFrame(d) # Oversized
        BY <4>1 DEF LinkTyped, NextFrame
      <4> QED
        BY <3>1, <4>2 DEF RecvRest, WorkerAt, Receiving
    <3>2. CASE RecvLength(c) /\ worker'[c].at = "send"
      <4>1. NextFrame(d) = <<>>
        BY <2>1, <3>2 DEF RecvLength
      <4> QED
        BY <3>2, <4>1, TcpServerAssumption DEF RecvLength, WorkerAt, Receiving
    <3> QED
      BY <1>2, <3>1, <3>2
  <2> QED
    BY <2>2, LinksByTaking
<1>3. ASSUME ~\E c \in Conn : SendRequest(c) \/ RecvForeign(c) \/ Tells(c) \/ Takes(c)
      PROVE  LinkTyped' /\ Told'
  <2> DEFINE Quiet(c) ==
               /\ worker'[c].answer = worker[c].answer
               /\ worker'[c].at \in Unread => worker[c].at \in Unread
               /\ worker'[c].at \in Answering => worker[c].at \in Answering
  <2>1. \A c \in Conn : Quiet(c)
    <3>1. CASE UNCHANGED worker
      BY <3>1
    <3>2. CASE Spawn
      <4>1. /\ acceptor.conn \in Conn /\ worker[acceptor.conn].at = "none"
            /\ worker' = [worker EXCEPT ![acceptor.conn].at = "loop", ![acceptor.conn].fd = acceptor.fd]
        BY <3>2 DEF Spawn, AcceptorAt, Held, AcceptedOnce, Accepted
      <4>2. /\ worker'[acceptor.conn].at = "loop"
            /\ worker'[acceptor.conn].answer = worker[acceptor.conn].answer
            /\ \A c \in Conn \ {acceptor.conn} : worker'[c] = worker[c]
        BY <4>1 DEF Held, Shaped
      <4> QED
        BY <4>1, <4>2 DEF Unread, Answering
    <3>3. ASSUME NEW c \in Conn, WorkerStep(c)
          PROVE  \A d \in Conn : Quiet(d)
      <4>0. DOMAIN worker = Conn /\ {"at", "fd", "on", "answer"} \subseteq DOMAIN worker[c]
        BY DEF Held, Shaped
      <4>1. CASE ServeLoop(c) \/ CallRecv(c) \/ RecvFails(c)
        BY <4>0, <4>1 DEF ServeLoop, CallRecv, RecvFails, WorkerAt, WorkerGoes, Receiving, Unread, Answering
      <4>2. CASE RecvLength(c) /\ worker'[c].at # "send"
        BY <4>0, <4>2 DEF RecvLength, WorkerAt, Unread, Answering
      <4>3. CASE SendFrame(c) /\ worker'[c].at = "send_rest"
        BY <4>0, <4>3 DEF SendFrame, WorkerAt, WorkerGoes, Unread, Answering
      <4>4. CASE CloseConnection(c) \/ Erase(c)
        BY <4>0, <4>4 DEF CloseConnection, Erase, WorkerAt, WorkerGoes, Unread, Answering
      <4> QED
        BY <1>3, <3>3, <4>1, <4>2, <4>3, <4>4 DEF WorkerStep
    <3>4. ASSUME ~Spawn, ~\E c \in Conn : WorkerStep(c)
          PROVE  UNCHANGED worker
      <4>1. CASE AcceptorStep
        BY <3>4, <4>1 DEF AcceptorStep, AcceptLoop, CallAccept, AcceptWakes, Refuse, Admit, Register,
                          Accept, AcceptorOnly
      <4>2. CASE Start \/ BeginStop \/ StopStep \/ (\E o \in Other : OpenOther(o)) \/ UNCHANGED vars
        BY <4>2 DEF Start, BeginStop, StopStep, CloseListener, JoinAcceptor, CloseNext,
                    ClearConnections, JoinWorkers, StopOnly, OpenOther, vars
      <4>3. CASE \E c \in Conn : ClientStep(c)
        BY <4>3 DEF ClientStep, Connect, SendRequest, SendRest, HangUp, ClientOnly
      <4> QED
        BY <3>4, <4>1, <4>2, <4>3 DEF Next
    <3> QED
      BY <3>1, <3>2, <3>3, <3>4
  <2>2. /\ DOMAIN link = Conn
        /\ \A c \in Conn : {"sent", "read", "headed", "received"} \subseteq DOMAIN link[c]
    BY DEF Held, Shaped, LinkTyped
  <2> DEFINE Same(c) == /\ DOMAIN link'[c] = DOMAIN link[c]
                        /\ link'[c].sent = link[c].sent /\ link'[c].read = link[c].read
                        /\ link'[c].received = link[c].received
                        /\ link'[c].headed =>
                             link[c].headed \/ (link[c].read < Len(link[c].sent)
                                                /\ link[c].sent[link[c].read + 1] # Oversized)
  <2>3. \A c \in Conn : Same(c)
    <3>1. \/ UNCHANGED link
          \/ \E c, x : link' = [link EXCEPT ![c].stage = x]
          \/ \E c : link' = [link EXCEPT ![c].left = TRUE]
          \/ \E c : link' = [link EXCEPT ![c].bodiless = FALSE]
          \/ \E c : /\ link' = [link EXCEPT ![c].headed = TRUE]
                    /\ link[c].read < Len(link[c].sent) /\ link[c].sent[link[c].read + 1] # Oversized
      <4>1. CASE AcceptorStep
        BY <4>1 DEF AcceptorStep, AcceptLoop, CallAccept, AcceptWakes, Refuse, Admit, Register, Spawn,
                    Accept, AcceptorOnly, kernel
      <4>2. CASE Start \/ BeginStop \/ StopStep \/ (\E o \in Other : OpenOther(o)) \/ UNCHANGED vars
        BY <4>2 DEF Start, BeginStop, StopStep, CloseListener, JoinAcceptor, CloseNext,
                    ClearConnections, JoinWorkers, StopOnly, OpenOther, vars, kernel
      <4>3. CASE \E c \in Conn : ClientStep(c)
        BY <1>3, <4>3 DEF ClientStep, Connect, SendRest, HangUp
      <4>4. ASSUME NEW c \in Conn, WorkerStep(c)
            PROVE  \/ UNCHANGED link
                   \/ \E d : /\ link' = [link EXCEPT ![d].headed = TRUE]
                             /\ link[d].read < Len(link[d].sent) /\ link[d].sent[link[d].read + 1] # Oversized
        <5>0. DOMAIN worker = Conn /\ {"at", "fd", "on", "answer"} \subseteq DOMAIN worker[c]
          BY DEF Held, Shaped
        <5>1. CASE RecvLength(c) /\ worker'[c].at # "send"
          BY <5>0, <5>1 DEF RecvLength, Readable, NextFrame
        <5>2. CASE SendFrame(c) /\ worker'[c].at = "send_rest"
          BY <5>0, <5>2 DEF SendFrame
        <5> QED
          BY <1>3, <4>4, <5>1, <5>2
             DEF WorkerStep, ServeLoop, CallRecv, RecvFails, CloseConnection, Erase, kernel
      <4> QED
        BY <4>1, <4>2, <4>3, <4>4 DEF Next
    <3>2. CASE UNCHANGED link
      BY <2>2, <3>2
    <3>3. ASSUME NEW d, NEW x, link' = [link EXCEPT ![d].stage = x]
          PROVE  \A c \in Conn : Same(c)
      BY <2>2, <3>3
    <3>4. ASSUME NEW d, link' = [link EXCEPT ![d].left = TRUE]
          PROVE  \A c \in Conn : Same(c)
      BY <2>2, <3>4
    <3>5. ASSUME NEW d, link' = [link EXCEPT ![d].bodiless = FALSE]
          PROVE  \A c \in Conn : Same(c)
      BY <2>2, <3>5
    <3>6. ASSUME NEW d, link' = [link EXCEPT ![d].headed = TRUE],
                 link[d].read < Len(link[d].sent), link[d].sent[link[d].read + 1] # Oversized
          PROVE  \A c \in Conn : Same(c)
      BY <2>2, <3>6
    <3> HIDE DEF Same
    <3> QED
      BY <3>1, <3>2, <3>3, <3>4, <3>5, <3>6
  <2> HIDE DEF Quiet
  <2>4. \A c \in Conn :
          /\ {"sent", "read", "headed", "received"} \subseteq DOMAIN link'[c]
          /\ link'[c].sent = link[c].sent /\ link'[c].read = link[c].read
          /\ link'[c].received = link[c].received
          /\ link'[c].headed =>
               link[c].headed \/ (link[c].read < Len(link[c].sent)
                                  /\ link[c].sent[link[c].read + 1] # Oversized)
          /\ worker'[c].answer = worker[c].answer
          /\ worker'[c].at \in Unread => worker[c].at \in Unread
          /\ worker'[c].at \in Answering => worker[c].at \in Answering
    BY <2>1, <2>2, <2>3 DEF Quiet
  <2> QED
    BY <2>4, CalmWas, LinksByBystanders
<1> QED
  BY <1>1, <1>2, <1>3

LEMMA KeptInit == Init => Kept
  BY DEF Init, Kept

(* Numbers are registered before their thread starts, and only a thread's   *)
(* own number is erased.                                                    *)
LEMMA KeptNext ==
  ASSUME Held, Typed, Owned, Kept, [Next]_vars
  PROVE  Kept'
<1> DEFINE Served(c) ==
             worker[c].at \in {"loop", "call", "recv", "call_rest", "recv_rest", "send", "send_rest"}
<1> SUFFICES ASSUME FreshNumbers', stop' \notin {"join_workers", "stopped"}
             PROVE  /\ \A c \in Conn : Served(c)' => HasRegistered(worker[c].fd)'
                    /\ acceptor'.at = "spawn" => HasRegistered(acceptor.fd)'
  BY DEF Kept
<1> USE DEF Held
<1>1. FreshNumbers
  BY CalmWas DEF FreshNumbers
<1>2. stop \notin {"join_workers", "stopped"} /\ ~ClearConnections
  <2>1. CASE UNCHANGED stop
    BY <2>1 DEF ClearConnections
  <2>2. CASE BeginStop \/ StopStep
    BY <2>2 DEF BeginStop, StopStep, CloseListener, JoinAcceptor, CloseNext, ClearConnections, JoinWorkers
  <2>3. ASSUME ~BeginStop, ~StopStep
        PROVE  UNCHANGED stop
    <3>1. CASE AcceptorStep
      BY <3>1 DEF AcceptorStep, AcceptLoop, CallAccept, AcceptWakes, Refuse, Admit, Register, Spawn,
                  Accept, AcceptorOnly
    <3>2. CASE \E c \in Conn : WorkerStep(c)
      BY <3>2 DEF WorkerStep, ServeLoop, CallRecv, RecvFails, RecvLength, RecvRest, RecvForeign, SendFrame, CloseConnection,
                  Erase, WorkerOnly
    <3>3. CASE Start \/ (\E o \in Other : OpenOther(o)) \/ (\E c \in Conn : ClientStep(c)) \/ UNCHANGED vars
      BY <3>3 DEF Start, OpenOther, ClientStep, Connect, SendRequest, SendRest, HangUp, ClientOnly, vars
    <3> QED
      BY <2>3, <3>1, <3>2, <3>3 DEF Next
  <2> QED
    BY <2>1, <2>2, <2>3
<1>3. /\ \A c \in Conn : Served(c) => HasRegistered(worker[c].fd)
      /\ acceptor.at = "spawn" => HasRegistered(acceptor.fd)
  BY <1>1, <1>2 DEF Kept
<1>4. CASE Register
  <2>1. /\ registered \in Seq(Fd) /\ acceptor.fd \in Fd /\ UNCHANGED worker
        /\ registered' = Append(registered, acceptor.fd)
        /\ acceptor' = [acceptor EXCEPT !.at = "spawn"]
    BY <1>4 DEF Register, AcceptorAt, AcceptorGoes, Accepted, Typed
  <2>2. acceptor'.fd = acceptor.fd
    BY <2>1 DEF Shaped
  <2>3. /\ \A i \in DOMAIN registered : i \in DOMAIN registered' /\ registered'[i] = registered[i]
        /\ \E i \in DOMAIN registered' : registered'[i] = acceptor.fd
    <3>1. /\ DOMAIN registered = 1 .. Len(registered) /\ Len(registered) \in Nat
          /\ DOMAIN registered' = 1 .. Len(registered) + 1
          /\ registered'[Len(registered) + 1] = acceptor.fd
          /\ \A i \in 1 .. Len(registered) : registered'[i] = registered[i]
      BY <2>1
    <3>2. Len(registered) + 1 \in DOMAIN registered' /\ \A i \in 1 .. Len(registered) : i \in DOMAIN registered'
      BY <3>1
    <3> QED
      BY <3>1, <3>2
  <2>4. HasRegistered(acceptor.fd)' /\ \A fd : HasRegistered(fd) => \E i \in DOMAIN registered' : registered'[i] = fd
    BY <2>2, <2>3 DEF HasRegistered
  <2> QED
    BY <1>3, <2>1, <2>4 DEF HasRegistered
<1>5. CASE Spawn
  <2>1. /\ acceptor.at = "spawn" /\ acceptor.conn \in Conn /\ UNCHANGED registered
        /\ worker' = [worker EXCEPT ![acceptor.conn].at = "loop", ![acceptor.conn].fd = acceptor.fd]
        /\ acceptor'.at = "loop"
    BY <1>5 DEF Spawn, AcceptorAt, AcceptorGoes, AcceptedOnce, Accepted, Shaped
  <2>2. /\ worker'[acceptor.conn].fd = acceptor.fd
        /\ \A c \in Conn \ {acceptor.conn} : worker'[c] = worker[c]
    BY <2>1 DEF Shaped
  <2>3. HasRegistered(acceptor.fd)
    BY <1>3, <2>1
  <2>4. \A c \in Conn \ {acceptor.conn} : Served(c)' => HasRegistered(worker'[c].fd)
    BY <1>3, <2>2
  <2>5. \A c \in Conn : Served(c)' => HasRegistered(worker'[c].fd)
    BY <2>2, <2>3, <2>4
  <2> QED
    BY <2>1, <2>5 DEF HasRegistered
<1>6. ASSUME NEW c \in Conn, WorkerStep(c)
      PROVE  /\ \A d \in Conn : Served(d)' => HasRegistered(worker[d].fd)'
             /\ acceptor'.at = "spawn" => HasRegistered(acceptor.fd)'
  <2>1. /\ acceptor' = acceptor /\ worker[c].at # "none"
        /\ \A d \in Conn \ {c} : worker'[d] = worker[d]
        /\ worker'[c].fd = worker[c].fd
        /\ Served(c)' => Served(c)
    <3>1. CASE ServeLoop(c)
      BY <3>1 DEF ServeLoop, WorkerOnly, WorkerAt, WorkerGoes, Shaped
    <3>2. CASE CallRecv(c)
      BY <3>2 DEF CallRecv, WorkerOnly, Shaped
    <3>3. CASE RecvFails(c)
      BY <3>3 DEF RecvFails, Receiving, WorkerOnly, Shaped
    <3>4. CASE RecvLength(c) \/ RecvRest(c) \/ RecvForeign(c)
      BY <3>4, ReceivedOnly
    <3>5. CASE SendFrame(c)
      BY <3>5 DEF SendFrame, WorkerGoes, WorkerOnly, Shaped
    <3>6. CASE CloseConnection(c) \/ Erase(c)
      BY <3>6 DEF CloseConnection, Erase, WorkerAt, WorkerGoes, Shaped
    <3> QED
      BY <1>6, <3>1, <3>2, <3>3, <3>4, <3>5, <3>6 DEF WorkerStep
  <2>2. CASE ~Erase(c)
    <3>1. UNCHANGED registered
      BY <1>6, <2>2 DEF WorkerStep, ServeLoop, CallRecv, RecvFails, RecvLength, RecvRest, RecvForeign, SendFrame,
                        CloseConnection, WorkerOnly
    <3>2. \A fd : HasRegistered(fd) => \E i \in DOMAIN registered' : registered'[i] = fd
      BY <3>1 DEF HasRegistered
    <3>3. \A d \in Conn : Served(d)' => Served(d) /\ worker'[d].fd = worker[d].fd
      BY <2>1
    <3> QED
      BY <1>3, <2>1, <3>2, <3>3 DEF HasRegistered
  <2>3. CASE Erase(c)
    <3>1. registered' = Erased(registered, worker[c].fd) /\ registered \in Seq(Fd)
      BY <2>3 DEF Erase, Typed
    <3>2. \A fd : HasRegistered(fd) /\ fd # worker[c].fd => \E i \in DOMAIN registered' : registered'[i] = fd
      BY <3>1, ErasedKeeps DEF HasRegistered
    <3>3. /\ \A d \in Conn \ {c} : Served(d)' => Served(d) /\ worker'[d].fd = worker[d].fd
                                                 /\ worker[d].fd # worker[c].fd
          /\ acceptor.at = "spawn" => acceptor.fd # worker[c].fd
      <4>1. c \in Holders /\ \A d \in Conn \ {c} : Served(d) => d \in Holders
        BY <2>1 DEF Holders
      <4> QED
        BY <1>1, <2>1, <4>1 DEF Owned, Apart, Accepted
    <3>4. ~Served(c)'
      BY <2>1, <2>3 DEF Erase, WorkerAt
    <3> QED
      BY <1>3, <2>1, <3>2, <3>3, <3>4 DEF HasRegistered
  <2> QED
    BY <2>2, <2>3
<1>7. ASSUME ~Register, ~Spawn, ~\E c \in Conn : WorkerStep(c)
      PROVE  UNCHANGED <<worker, registered>> /\ (acceptor'.at = "spawn" => acceptor' = acceptor)
  <2>1. CASE AcceptorStep
    <3>1. UNCHANGED <<worker, registered>>
      BY <1>7, <2>1 DEF AcceptorStep, AcceptLoop, CallAccept, AcceptWakes, Refuse, Admit, Accept, AcceptorOnly
    <3>2. acceptor'.at # "spawn"
      BY <1>7, <2>1 DEF AcceptorStep, AcceptLoop, CallAccept, AcceptWakes, Refuse, Admit, Accept,
                        AcceptorGoes, Shaped
    <3> QED
      BY <3>1, <3>2
  <2>2. CASE Start
    BY <2>2 DEF Start, Shaped
  <2>3. CASE BeginStop \/ StopStep
    BY <1>2, <2>3 DEF BeginStop, StopStep, CloseListener, JoinAcceptor, CloseNext, JoinWorkers, StopOnly
  <2>4. CASE (\E o \in Other : OpenOther(o)) \/ (\E c \in Conn : ClientStep(c)) \/ UNCHANGED vars
    BY <2>4 DEF OpenOther, ClientStep, Connect, SendRequest, SendRest, HangUp, ClientOnly, vars
  <2> QED
    BY <1>7, <2>1, <2>2, <2>3, <2>4 DEF Next
<1>8. CASE ~(Register \/ Spawn \/ \E c \in Conn : WorkerStep(c))
  <2>1. UNCHANGED <<worker, registered>> /\ (acceptor'.at = "spawn" => acceptor' = acceptor)
    BY <1>7, <1>8
  <2> QED
    BY <1>3, <2>1 DEF HasRegistered
<1> QED
  BY <1>4, <1>5, <1>6, <1>8

Safe == Held /\ Typed /\ Unstarted /\ Owned /\ RecvOwn /\ OwnSockets /\ LinkTyped /\ Told /\ Kept

LEMMA SafeAlways == Spec => []Safe
<1>1. Init => Safe
  BY HeldInit, OwnedInit, LinksInit, KeptInit DEF Safe
<1>2. Safe /\ [Next]_vars => Safe'
  BY HeldNext, TypedNext, UnstartedNext, OwnedNext, LinksNext, KeptNext DEF Safe
<1> QED
  BY <1>1, <1>2, PTL DEF Spec

(* Every thread is at a step of its own, and no open connection, nor the    *)
(* listening socket, has two numbers. (tcp_forwarder.cpp, TcpServer)        *)
THEOREM TcpTypeCorrect == Spec => []TypeOK
<1>1. Safe => TypeOK
  <2> SUFFICES ASSUME Safe PROVE TypeOK
    OBVIOUS
  <2>1. \A s \in Conn \cup {Listener} : \A fd1, fd2 \in Numbers(s) : fd1 = fd2
    <3>1. ASSUME NEW s \in Conn, NEW fd1 \in Numbers(s), NEW fd2 \in Numbers(s)
          PROVE  fd1 = fd2
      <4>1. /\ fd1 \in Fd /\ (AcceptorHolds(s, fd1) \/ WorkerHolds(s, fd1))
            /\ fd2 \in Fd /\ (AcceptorHolds(s, fd2) \/ WorkerHolds(s, fd2))
        BY DEF Numbers, Safe, Held, OpenIsHeld
      <4> QED
        BY <4>1 DEF AcceptorHolds, WorkerHolds, Safe, Held, AcceptedOnce
    <3>2. \A fd \in Numbers(Listener) : fd = ListenFd
      BY DEF Numbers, Safe, Held, OpenIsHeld
    <3> QED
      BY <3>1, <3>2
  <2>2. \A c \in Conn : worker[c].at # "none" => link[c].stage = "accepted" /\ worker[c].fd \in Fd
    BY DEF Safe, Held, AcceptedOnce, Typed
  <2>3. \A c \in Conn : link[c].read <= Len(link[c].sent)
    <3>1. ASSUME NEW c \in Conn PROVE link[c].read <= Len(link[c].sent)
      <4>1. link[c].sent \in Seq(Frames) /\ link[c].read \in 0 .. Len(link[c].sent)
        BY DEF Safe, LinkTyped
      <4> QED
        BY <4>1
    <3> QED
      BY <3>1
  <2> QED
    BY <2>1, <2>2, <2>3 DEF TypeOK, Safe, Typed
<1> QED
  BY <1>1, SafeAlways, PTL

(* No thread of the server reads, writes or closes a socket that is not its *)
(* own: with numbers that are given away again until Stop closes the        *)
(* connections, and with fresh ones always.  (HandleConnection and          *)
(* TcpServer::Stop)                                                         *)
THEOREM TcpOwnSockets == Spec => []OwnSockets
  BY SafeAlways, PTL DEF Safe

(* Each client is answered frame by frame, in its order, with the handler's *)
(* answer to what it sent or with a refusal of what does not decode.        *)
(* (HandleConnection, with the codec of wire.cpp)                           *)
THEOREM TcpAnswersInOrder == Spec => []AnswersInOrder
<1>1. Safe => AnswersInOrder
  <2> SUFFICES ASSUME Safe, Calm, NEW c \in Conn
               PROVE  /\ Len(link[c].received) <= Len(link[c].sent)
                      /\ \A i \in DOMAIN link[c].received :
                           DecodeResponse(link[c].received[i]) = Expected(link[c].sent[i])
    BY DEF AnswersInOrder, Calm
  <2>1. ToldTo(c)
    BY DEF Safe, Told
  <2>2. /\ link[c].read \in 0 .. Len(link[c].sent) /\ link[c].received \in Seq(Seq(Nat))
        /\ link[c].sent \in Seq(Frames)
    BY DEF Safe, LinkTyped
  <2>3. Len(link[c].received) \in Nat /\ Len(link[c].sent) \in Nat
    BY <2>2
  <2> QED
    BY <2>1, <2>2, <2>3 DEF ToldTo
<1> QED
  BY <1>1, SafeAlways, PTL

(* With fresh numbers, whichever accepts raced with Stop, it closes every   *)
(* connection that is served. (AcceptLoop and HandleConnection's end)       *)
THEOREM TcpServedIsRegistered == Spec => []ServedIsRegistered
<1>1. Safe => ServedIsRegistered
  BY DEF Safe, Kept, ServedIsRegistered, HasRegistered
<1> QED
  BY <1>1, SafeAlways, PTL
================================================================================
