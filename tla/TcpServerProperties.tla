------------------------- MODULE TcpServerProperties ---------------------------
(***************************************************************************)
(* What makes the server side of the transport correct: its messages, its   *)
(* descriptors, and its end.                                                *)
(***************************************************************************)
EXTENDS TcpServer

CONSTANTS
  Requests, Responses,  \* messages to encode
  Cells                 \* what may follow a message

(* The handler answers in range, and what a client sends and is no request  *)
(* of these does not decode.                                                *)
ASSUME MessagesAssumption ==
  /\ Requests \subseteq RequestMessage /\ Responses \subseteq ResponseMessage
  /\ Cells \subseteq Nat
  /\ MalformedAnswer \in ResponseMessage
  /\ \A r \in Requests : Answered(r) \in ResponseMessage
  /\ \A frame \in Frames \ {Oversized} :
       \/ \E r \in Requests : frame = EncodeRequest(r)
       \/ DecodeRequest(frame) = Malformed

(* Threads are at steps of their own, and what is open has one number. *)
TypeOK ==
  /\ env \in Environments
  /\ \A s \in Conn \cup {Listener} : \A fd1, fd2 \in Numbers(s) : fd1 = fd2
  /\ \A c \in Conn : worker[c].at # "none" => link[c].stage = "accepted" /\ worker[c].fd \in Fd
  /\ \A c \in Conn : link[c].read <= Len(link[c].sent)
  /\ stop # "idle" => ~running

(* A request or response is decoded to what was encoded, and a message that *)
(* is cut short or goes on is refused, whichever strings, hops and optional *)
(* fields it has.  (wire.cpp: each field's place depends on the lengths     *)
(* before it.)                                                              *)
WireIsExact ==
  /\ \A r \in Requests :
       LET b == EncodeRequest(r)
       IN  /\ DecodeRequest(b) = r
           /\ \A n \in 0 .. Len(b) - 1 : DecodeRequest(SubSeq(b, 1, n)) = Malformed
           /\ \A x \in Cells : DecodeRequest(Append(b, x)) = Malformed
  /\ \A r \in Responses :
       LET b == EncodeResponse(r)
       IN  /\ DecodeResponse(b) = r
           /\ \A n \in 0 .. Len(b) - 1 : DecodeResponse(SubSeq(b, 1, n)) = Malformed
           /\ \A x \in Cells : DecodeResponse(Append(b, x)) = Malformed

FreshNumbers == ~env.reuse
StopIsClosing == stop \in {"close_connections", "join_workers", "stopped"}

(* The answer to each frame of a client, of which some encode no request *)
Expected(frame) ==
  IF \E r \in Requests : frame = EncodeRequest(r)
  THEN Answered(CHOOSE r \in Requests : frame = EncodeRequest(r))
  ELSE MalformedAnswer

(* A client is answered frame by frame, in its order, and never with the    *)
(* answer to another client, also when numbers are given away again; once   *)
(* Stop closes connections from another thread only if they are not.        *)
(* (HandleConnection, which sends to a number after the handler ran.)       *)
AnswersInOrder ==
  FreshNumbers \/ ~StopIsClosing =>
    \A c \in Conn :
      /\ Len(link[c].received) <= Len(link[c].sent)
      /\ \A i \in DOMAIN link[c].received :
           DecodeResponse(link[c].received[i]) = Expected(link[c].sent[i])

(* No thread of the server reads, writes or closes a socket that belongs to *)
(* another thread or another part of the process, under the same condition. *)
(* (Stop and HandleConnection close the same number.)                       *)
OwnSockets == FreshNumbers \/ ~StopIsClosing => ~foreign

(* Until Stop has closed what is registered, every connection that is       *)
(* served is registered, if numbers are fresh: Stop misses none.            *)
(* (AcceptLoop registers before it spawns; Erase removes every equal        *)
(* number.)                                                                 *)
ServedIsRegistered ==
  FreshNumbers /\ stop \notin {"join_workers", "stopped"} =>
    \A c \in Conn :
      worker[c].at \in {"loop", "call", "recv", "call_rest", "recv_rest", "send", "send_rest"} =>
        \E i \in DOMAIN registered : registered[i] = worker[c].fd

(* Whatever raced with it, when Stop has returned no thread of the server   *)
(* runs and no connection it accepted is open.                              *)
StopLeavesNothing ==
  stop = "stopped" =>
    /\ acceptor.at = "returned"
    /\ \A c \in Conn : worker[c].at \in {"none", "done"} /\ ~IsOpen(c)
    /\ ~IsOpen(Listener)

(* Stop returns, whatever the clients do, where a close wakes the thread    *)
(* that waits and numbers are fresh: every thread it joins has been woken.  *)
StopReturns ==
  (stop # "idle" /\ env.wakes /\ FreshNumbers) ~> (stop = "stopped")
================================================================================
