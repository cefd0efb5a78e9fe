------------------------------ MODULE MeshProofs ------------------------------
(***************************************************************************)
(* Proofs about Mesh, for every topology, set of clients and router         *)
(* configuration that meets the assumptions: Discipline is inductive, and   *)
(* the safety properties it stands for follow; then what the mesh carries,  *)
(* and what it promises its clients.                                        *)
(***************************************************************************)
EXTENDS MeshProperties, Induction, SequenceTheorems, TLAPS

(* A thread runs at a node, and is a client's or a connection's, not both.  *)
LEMMA ThreadFacts ==
  /\ \A t \in Thread : At(t) \in Node
  /\ \A l \in Link : l \in Thread /\ l \notin Client /\ l[1] \in Node /\ l[2] \in Node
  /\ \A c \in Client : c \in Thread /\ c \notin Link
  /\ NoThread \notin Thread
<1>1. \A l \in Link : l \in Node \X Node /\ l \notin Client
  BY MeshAssumption DEF Link
<1>2. \A l \in Link : l[1] \in Node /\ l[2] \in Node
  BY <1>1
<1>3. \A t \in Thread : At(t) \in Node
  BY <1>1, <1>2, MeshAssumption DEF At, Thread
<1> QED
  BY <1>1, <1>2, <1>3, MeshAssumption DEF Thread

(* Choose returns a neighbour: the next hop is a link of the topology. *)
LEMMA HopsAreLinks ==
  ASSUME NEW t \in Thread, NEW m \in Hops(t)
  PROVE  m \in Node /\ <<At(t), m>> \in Link
<1>1. \E i \in DOMAIN Neighbors[At(t)] : m = Neighbors[At(t)][i]
  BY DEF Hops, NextHops, Best, Eligible
<1>2. At(t) \in Node
  BY ThreadFacts
<1>3. Neighbors[At(t)] \in Seq(Node)
  BY <1>2, MeshAssumption
<1>4. m \in Node
  BY <1>1, <1>3
<1> QED
  BY <1>1, <1>2, <1>4 DEF Link

(* Dividing a score does not raise it. *)
LEMMA DivisionShrinks ==
  ASSUME NEW a \in Nat, NEW d \in Nat \ {0}
  PROVE  a \div d \in 0 .. a
  OBVIOUS

(* Keeping a fraction of a score does not raise it. *)
LEMMA ScaleShrinks ==
  ASSUME NEW a \in Nat, NEW d \in Nat \ {0}, NEW k \in 0 .. d
  PROVE  (a * k) \div d \in 0 .. a
  OBVIOUS

Scores == [Node -> Score \cup {Unseen}]

(* Feedback and evaporation keep every score within the table's range. *)
LEMMA TablesStayTyped ==
  ASSUME NEW scores \in Scores
  PROVE  /\ Evaporated(scores) \in Scores
         /\ \A path \in Node \X Node :
              /\ \A r \in Reinforcements : Rewarded(scores, path, r) \in Scores
              /\ Penalised(scores, path) \in Scores
<1>1. ASSUME NEW n \in Node
      PROVE  PheromoneLocked(scores, n) \in Score /\ scores[n] \in Score \cup {Unseen}
  BY <1>1, RouterTableAssumption DEF PheromoneLocked, Score, Scores
<1>2. ASSUME NEW path \in Node \X Node, NEW r \in Reinforcements
      PROVE  Rewarded(scores, path, r) \in Scores
  <2>1. r \in Nat
    BY MeshAssumption
  <2>2. \A x \in Nat : Saturate(x) \in Score
    BY RouterTableAssumption DEF Saturate, Score
  <2>3. ASSUME NEW n \in Node
        PROVE  (IF scores[n] = Unseen THEN 0 ELSE scores[n]) + r \in Nat
    BY <1>1, <2>1, RouterTableAssumption DEF Score
  <2> QED
    BY <1>1, <2>2, <2>3 DEF Rewarded, Scores
<1>3. Evaporated(scores) \in Scores
  <2>1. ASSUME NEW n \in Node, scores[n] # Unseen
        PROVE  (scores[n] * KeepNum) \div KeepDen \in Score
    <3>1. scores[n] \in Nat /\ scores[n] =< ScoreCap
      BY <1>1, <2>1, RouterTableAssumption DEF Score
    <3>2. (scores[n] * KeepNum) \div KeepDen \in 0 .. scores[n]
      BY <3>1, ScaleShrinks, RouterTableAssumption
    <3> QED
      BY <3>1, <3>2, RouterTableAssumption DEF Score
  <2> QED
    BY <2>1 DEF Evaporated, Scores
<1>4. ASSUME NEW path \in Node \X Node
      PROVE  Penalised(scores, path) \in Scores
  <2>1. path[2] \in Node /\ Len(path) = 2
    BY <1>4
  <2>2. PheromoneLocked(scores, path[2]) \div PenaltyDivisor \in Score
    <3>1. PheromoneLocked(scores, path[2]) \in Nat
      BY <1>1, <2>1, RouterTableAssumption DEF Score
    <3>2. PheromoneLocked(scores, path[2]) \div PenaltyDivisor
            \in 0 .. PheromoneLocked(scores, path[2])
      BY <3>1, DivisionShrinks, RouterTableAssumption
    <3> QED
      BY <1>1, <2>1, <3>1, <3>2, RouterTableAssumption DEF Score
  <2> QED
    BY <2>1, <2>2 DEF Penalised, Scores
<1> QED
  BY <1>2, <1>3, <1>4

--------------------------------------------------------------------------------
(* One lemma per action: each preserves the parts of Discipline. *)

(* What a thread that is not idle works on. *)
LEMMA RequestFacts ==
  ASSUME Discipline, NEW t \in Thread, pc[t] # "idle"
  PROVE  /\ req[t] \in Request
         /\ req[t].origin \in Client /\ req[t].route \in Seq(Node) /\ req[t].budget \in Nat
         /\ req[t].key \in RouteKey \cup {NoKey}
         /\ req[t] # NoRequest
<1>1. req[t] \in Request /\ req[t] # NoRequest
  BY DEF Discipline, TypeOK, ThreadState, ThreadOK
<1> QED
  BY <1>1 DEF Request

(* The response a gateway makes up answers the request it executes. *)
LEMMA ReplyFacts ==
  ASSUME Discipline, NEW t \in Thread, pc[t] # "idle", NEW status \in Status
  PROVE  /\ Reply(t, status) \in Response
         /\ Reply(t, status).origin = req[t].origin
         /\ Reply(t, status).status = status
         /\ Reply(t, status) # NoResponse
<1>1. req[t].origin \in Client
  BY RequestFacts
<1>2. Reply(t, status) \in Response
  BY <1>1 DEF Reply, Response
<1> QED
  BY <1>2, MeshAssumption DEF Reply

(* The client takes a fresh request. *)
LEMMA IssueStep ==
  ASSUME Discipline, NEW c \in Client, Issue(c)
  PROVE  Discipline'
<1>1. TypeOK'
  <2> DEFINE r(k, b) == [origin |-> c, key |-> k, route |-> <<>>, budget |-> b]
  <2>1. ASSUME NEW k \in RouteKey \cup {NoKey}, NEW b \in HopBudgets
        PROVE  r(k, b) \in Request
    BY MeshAssumption DEF Request
  <2>2. PICK k \in RouteKey \cup {NoKey}, b \in HopBudgets :
          asked' = [asked EXCEPT ![c] = r(k, b)] /\ req' = [req EXCEPT ![c] = r(k, b)]
    BY DEF Issue
  <2>3. r(k, b) \in Request
    BY <2>1
  <2> HIDE DEF r
  <2> QED
    BY <2>2, <2>3 DEF Discipline, TypeOK, Issue, linkVars, serverVars, PC
<1>2. ThreadState'
  <2> DEFINE r(k, b) == [origin |-> c, key |-> k, route |-> <<>>, budget |-> b]
  <2>1. PICK k \in RouteKey \cup {NoKey}, b \in HopBudgets : req' = [req EXCEPT ![c] = r(k, b)]
    BY DEF Issue
  <2>2. r(k, b) \in Request /\ r(k, b).origin = c
    BY MeshAssumption DEF Request
  <2>3. r(k, b) # NoRequest
    BY <2>2, MeshAssumption
  <2>4. resp[c] = NoResponse
    BY ThreadFacts DEF Discipline, ThreadState, ThreadOK, Issue
  <2> HIDE DEF r
  <2>5. /\ pc' = [pc EXCEPT ![c] = "execute"]
        /\ UNCHANGED <<resp, hop, execs>>
    BY DEF Issue
  <2> QED
    BY <2>1, <2>2, <2>3, <2>4, <2>5, ThreadFacts
    DEF Discipline, TypeOK, ThreadState, ThreadOK, Out, At, Evident
<1>3. LockDiscipline'
  BY DEF Discipline, LockDiscipline, Issue, linkVars, Holding, Out
<1>4. LinkState'
  BY ThreadFacts DEF Discipline, LinkState, LinkOK, Open, Issue, linkVars, serverVars,
     Awaited, Busy, Evident
<1>5. OkWasExecuted'
  BY DEF Discipline, OkWasExecuted, Issue
<1> QED
  BY <1>1, <1>2, <1>3, <1>4, <1>5 DEF Discipline

(* Execute returns on the spot, after an executor ran or without one. *)
LEMMA ReturnStep ==
  ASSUME Discipline, NEW t \in Thread, NEW status \in Status, pc[t] = "execute",
         execs' \in [Client -> Nat], \A c \in Client : execs'[c] >= execs[c],
         status = "Ok" => execs'[req[t].origin] > 0, Return(t, status)
  PROVE  Discipline'
<1>1. TypeOK'
  BY ReplyFacts DEF Discipline, TypeOK, Return, linkVars, clientVars, serverVars, PC
<1>2. ThreadState'
  <2>1. PICK r \in Response : r = Reply(t, status)
    BY ReplyFacts
  <2>2. r.origin = req[t].origin /\ r.status = status /\ r # NoResponse
    BY <2>1, ReplyFacts
  <2>3. Evident(r)' /\ \A x \in Response : Evident(x) => Evident(x)'
    BY <2>2 DEF Discipline, TypeOK, Evident, Response
  <2>4. /\ pc' = [pc EXCEPT ![t] = "return"]
        /\ resp' = [resp EXCEPT ![t] = r]
        /\ UNCHANGED <<req, hop>>
    BY <2>1 DEF Return
  <2>5. ASSUME NEW u \in Thread
        PROVE  ThreadOK(u)'
    <3>1. CASE u = t
      BY <2>2, <2>3, <2>4, <3>1 DEF Discipline, TypeOK, ThreadState, ThreadOK, Out, At
    <3>2. CASE u # t
      BY <2>3, <2>4, <3>2 DEF Discipline, TypeOK, ThreadState, ThreadOK, Out, At
    <3> QED
      BY <3>1, <3>2
  <2> QED
    BY <2>5 DEF ThreadState
<1>3. LockDiscipline'
  BY DEF Discipline, LockDiscipline, Return, linkVars, Holding, Out
<1>4. LinkState'
  <2>1. \A r \in Response : Evident(r) => Evident(r)'
    BY DEF Discipline, TypeOK, Evident, Response
  <2>2. /\ pc' = [pc EXCEPT ![t] = "return"]
        /\ UNCHANGED <<req, holder, sock, inbox, outbox, server>>
    BY DEF Return, linkVars, serverVars
  <2>3. \A k \in Link : holder[k] # t
    BY DEF Discipline, LockDiscipline, Holding
  <2>4. \A k \in Link : Awaited(k)' <=> Awaited(k)
    BY <2>2, <2>3 DEF Discipline, TypeOK, Awaited
  <2>5. ASSUME NEW k \in Link
        PROVE  LinkOK(k)'
    BY <2>1, <2>2, <2>4 DEF Discipline, LinkState, LinkOK, Open, Busy
  <2> QED
    BY <2>5 DEF LinkState
<1>5. OkWasExecuted'
  BY DEF Discipline, TypeOK, OkWasExecuted, Return, clientVars
<1> QED
  BY <1>1, <1>2, <1>3, <1>4, <1>5 DEF Discipline

(* The request gets longer; the thread enters Forward towards a link. *)
LEMMA ChooseHopStep ==
  ASSUME Discipline, NEW t \in Thread, ChooseHop(t)
  PROVE  Discipline'
<1>1. TypeOK'
  <2>1. Extended(t) \in Request
    BY RequestFacts, ThreadFacts DEF Extended, Request, ChooseHop, Executable
  <2>2. \A m \in Hops(t) : m \in Node
    BY HopsAreLinks
  <2> QED
    BY <2>1, <2>2 DEF Discipline, TypeOK, ChooseHop, linkVars, clientVars, serverVars, PC
<1>2. ThreadState'
  <2>1. Extended(t) \in Request /\ Extended(t).origin = req[t].origin
    BY RequestFacts, ThreadFacts DEF Extended, Request, ChooseHop, Executable
  <2>2. Extended(t) # NoRequest
    BY <2>1, MeshAssumption
  <2>3. PICK m \in Hops(t) : hop' = [hop EXCEPT ![t] = m]
    BY DEF ChooseHop
  <2>4. m \in Node /\ <<At(t), m>> \in Link
    BY HopsAreLinks
  <2>5. /\ pc[t] = "execute" /\ pc' = [pc EXCEPT ![t] = "lock"]
        /\ req' = [req EXCEPT ![t] = Extended(t)]
        /\ UNCHANGED <<resp, execs>>
    BY DEF ChooseHop, Executable
  <2> QED
    BY <2>1, <2>2, <2>3, <2>4, <2>5 DEF Discipline, TypeOK, ThreadState, ThreadOK, Out, At, Evident
<1>3. LockDiscipline'
  BY HopsAreLinks DEF Discipline, LockDiscipline, ChooseHop, Executable, linkVars, Holding,
     Out
<1>4. LinkState'
  <2>1. Extended(t).origin = req[t].origin /\ Extended(t) # NoRequest
    <3>1. Extended(t) \in Request
      BY RequestFacts, ThreadFacts DEF Extended, Request, ChooseHop, Executable
    <3> QED
      BY <3>1, MeshAssumption DEF Extended
  <2>2. /\ pc[t] = "execute" /\ pc' = [pc EXCEPT ![t] = "lock"]
        /\ req' = [req EXCEPT ![t] = Extended(t)]
        /\ UNCHANGED <<holder, sock, inbox, outbox, server, execs>>
    BY DEF ChooseHop, Executable, linkVars, serverVars
  <2>3. \A k \in Link : holder[k] # t
    BY <2>2 DEF Discipline, LockDiscipline, Holding
  <2>4. ASSUME NEW k \in Link
        PROVE  /\ Awaited(k)' <=> Awaited(k)
               /\ Awaited(k) => req'[holder[k]] = req[holder[k]]
               /\ Busy(k)' <=> Busy(k)
               /\ req'[k].origin = req[k].origin
    <3>1. req[t] # NoRequest
      BY <2>2, RequestFacts
    <3> QED
      BY <2>1, <2>2, <2>3, <3>1, ThreadFacts DEF Discipline, TypeOK, Awaited, Busy
  <2>5. ASSUME NEW k \in Link
        PROVE  LinkOK(k)'
    BY <2>2, <2>4 DEF Discipline, LinkState, LinkOK, Open, Evident
  <2> QED
    BY <2>5 DEF LinkState
<1>5. OkWasExecuted'
  BY HopsAreLinks DEF Discipline, OkWasExecuted, ChooseHop, clientVars
<1> QED
  BY <1>1, <1>2, <1>3, <1>4, <1>5 DEF Discipline

(* No address: Forward fails without touching a connection. *)
LEMMA UnknownPeerStep ==
  ASSUME Discipline, NEW t \in Thread, UnknownPeer(t)
  PROVE  Discipline'
<1>1. TypeOK'
  BY ReplyFacts DEF Discipline, TypeOK, UnknownPeer, linkVars, clientVars, serverVars, PC, Status
<1>2. ThreadState'
  <2>1. /\ pc[t] = "lock" /\ pc' = [pc EXCEPT ![t] = "observe"]
        /\ resp' = [resp EXCEPT ![t] = Reply(t, "ShardUnavailable")]
        /\ UNCHANGED <<req, hop, execs>>
    BY DEF UnknownPeer
  <2>2. Reply(t, "ShardUnavailable").origin = req[t].origin
        /\ Reply(t, "ShardUnavailable").status = "ShardUnavailable"
        /\ Reply(t, "ShardUnavailable") # NoResponse
    BY <2>1, ReplyFacts DEF Status
  <2> QED
    BY <2>1, <2>2 DEF Discipline, TypeOK, ThreadState, ThreadOK, Out, At, Evident
<1>3. LockDiscipline'
  BY DEF Discipline, LockDiscipline, UnknownPeer, linkVars, Holding, Out
<1>4. LinkState'
  BY DEF Discipline, LinkState, LinkOK, Open, UnknownPeer, linkVars, serverVars, Awaited,
     Busy, Evident
<1>5. OkWasExecuted'
  BY DEF Discipline, OkWasExecuted, UnknownPeer, clientVars
<1> QED
  BY <1>1, <1>2, <1>3, <1>4, <1>5 DEF Discipline

(* The mutex is free, so nobody awaits a response there and no frame exists. *)
LEMMA LockConnectionStep ==
  ASSUME Discipline, NEW t \in Thread, LockConnection(t)
  PROVE  Discipline'
<1>0. Out(t) \in Link /\ hop[t] \in Node
  BY DEF Discipline, ThreadState, ThreadOK, LockConnection
<1>1. TypeOK'
  BY DEF Discipline, TypeOK, LockConnection, clientVars, serverVars, PC
<1>2. ThreadState'
  BY DEF Discipline, ThreadState, ThreadOK, LockConnection, Out, Evident
<1>3. LockDiscipline'
  BY <1>0, ThreadFacts DEF Discipline, TypeOK, LockDiscipline, LockConnection,
     ConnectionFree, Holding, Out
<1>4. LinkState'
  BY DEF Discipline, LinkState, LinkOK, Open, LockConnection, ConnectionFree, serverVars,
     Awaited, Busy, Evident
<1>5. OkWasExecuted'
  BY DEF Discipline, OkWasExecuted, LockConnection, clientVars
<1> QED
  BY <1>1, <1>2, <1>3, <1>4, <1>5 DEF Discipline

(* Only the holder connects, and it has no call in flight. *)
LEMMA ConnectStep ==
  ASSUME Discipline, NEW t \in Thread, Connect(t)
  PROVE  Discipline'
<1>0. Out(t) \in Link /\ hop[t] \in Node
  BY DEF Discipline, ThreadState, ThreadOK, Connect
<1>1. TypeOK'
  BY DEF Discipline, TypeOK, Connect, threadVars, clientVars, PC
<1>2. ThreadState'
  BY DEF Discipline, ThreadState, ThreadOK, Connect, threadVars, Out, Evident
<1>3. LockDiscipline'
  BY DEF Discipline, LockDiscipline, Connect, threadVars, Holding, Out
<1>4. LinkState'
  <2>0. PICK l \in Link : l = Out(t)
    BY <1>0
  <2>1. /\ pc[t] = "exchange" /\ sock[l] = "none" /\ hop[t] = l[2]
        /\ \/ /\ server[l[2]] = "up" /\ server' = server
              /\ sock' = [sock EXCEPT ![l] = "live"]
           \/ /\ server[l[2]] \in {"closing", "joined"}
              /\ server' = [server EXCEPT ![l[2]] = "joined"]
              /\ sock' = [sock EXCEPT ![l] = "stale"]
        /\ UNCHANGED <<pc, req, holder, inbox, outbox, execs>>
    BY <2>0 DEF Connect, Out, threadVars
  <2>2. holder[l] = t /\ ~Awaited(l)
    BY <2>0, <2>1 DEF Discipline, LockDiscipline, Holding, Awaited
  <2>3. inbox[l] = <<>> /\ outbox[l] = <<>> /\ ~Busy(l)
    BY <2>1, <2>2 DEF Discipline, LinkState, LinkOK
  <2>4. ASSUME NEW k \in Link
        PROVE  LinkOK(k)'
    <3>1. CASE k = l
      <4>1. /\ sock'[l] = "live" => server'[l[2]] = "up"
            /\ sock'[l] \in {"live", "stale"}
            /\ ~Awaited(l)' /\ ~Busy(l)' /\ inbox'[l] = <<>> /\ outbox'[l] = <<>>
        BY <2>1, <2>2, <2>3 DEF Discipline, TypeOK, Awaited, Busy
      <4> QED
        BY <3>1, <4>1 DEF LinkOK
    <3>2. CASE k # l
      <4>1. /\ sock'[k] = sock[k]
            /\ server'[k[2]] # server[k[2]] => server[k[2]] = "closing" /\ server'[k[2]] = "joined"
        BY <2>1, <3>2, ThreadFacts DEF Discipline, TypeOK
      <4> QED
        BY <2>1, <4>1 DEF Discipline, LinkState, LinkOK, Open, Awaited, Busy, Evident
    <3> QED
      BY <3>1, <3>2
  <2> QED
    BY <2>4 DEF LinkState
<1>5. OkWasExecuted'
  BY DEF Discipline, OkWasExecuted, Connect, clientVars
<1> QED
  BY <1>1, <1>2, <1>3, <1>4, <1>5 DEF Discipline

(* The socket is not live, so forgetting its frames loses nobody's call. *)
LEMMA DropStep ==
  ASSUME Discipline, NEW t \in Thread, pc[t] \in {"exchange", "recv"},
         sock[Out(t)] # "live", Drop(t)
  PROVE  Discipline'
<1>0. Out(t) \in Link /\ hop[t] \in Node
  BY DEF Discipline, ThreadState, ThreadOK, Drop
<1>1. TypeOK'
  BY <1>0, ReplyFacts DEF Discipline, TypeOK, Drop, clientVars, serverVars, PC, Status
<1>2. ThreadState'
  <2>1. /\ pc' = [pc EXCEPT ![t] = "respond"]
        /\ resp' = [resp EXCEPT ![t] = Reply(t, "ShardUnavailable")]
        /\ UNCHANGED <<req, hop, execs>>
    BY DEF Drop
  <2>2. Reply(t, "ShardUnavailable").origin = req[t].origin
        /\ Reply(t, "ShardUnavailable").status = "ShardUnavailable"
        /\ Reply(t, "ShardUnavailable") # NoResponse
    BY ReplyFacts DEF Status
  <2> QED
    BY <1>0, <2>1, <2>2 DEF Discipline, TypeOK, ThreadState, ThreadOK, Out, At, Evident
<1>3. LockDiscipline'
  BY DEF Discipline, LockDiscipline, Drop, Holding, Out
<1>4. LinkState'
  BY DEF Discipline, TypeOK, LockDiscipline, LinkState, LinkOK, Open, Drop, serverVars,
     Awaited, Busy, Evident
<1>5. OkWasExecuted'
  BY DEF Discipline, OkWasExecuted, Drop, clientVars
<1> QED
  BY <1>1, <1>2, <1>3, <1>4, <1>5 DEF Discipline

(* The connection was empty, so exactly one frame is now on it. *)
LEMMA SendStep ==
  ASSUME Discipline, NEW t \in Thread, Send(t)
  PROVE  Discipline'
<1>0. Out(t) \in Link /\ hop[t] \in Node
  BY DEF Discipline, ThreadState, ThreadOK, Send
<1>1. TypeOK'
  BY <1>0, RequestFacts DEF Discipline, TypeOK, Send, clientVars, serverVars, PC
<1>2. ThreadState'
  BY DEF Discipline, ThreadState, ThreadOK, Send, Out, Evident
<1>3. LockDiscipline'
  BY DEF Discipline, LockDiscipline, Send, Holding, Out
<1>4. LinkState'
  <2>0. PICK l \in Link : l = Out(t)
    BY <1>0
  <2>1. /\ pc[t] = "exchange" /\ Open(l) /\ l \in Link
        /\ pc' = [pc EXCEPT ![t] = "recv"]
        /\ inbox' = [inbox EXCEPT ![l] = Append(@, req[t])]
        /\ UNCHANGED <<req, holder, sock, outbox, server, execs>>
    BY <2>0 DEF Send, serverVars
  <2>2. holder[l] = t /\ \A k \in Link : holder[k] = t => k = l
    BY <2>0, <2>1 DEF Discipline, LockDiscipline, Holding
  <2>3. ~Awaited(l)
    BY <2>1, <2>2 DEF Awaited
  <2>4. inbox[l] = <<>> /\ outbox[l] = <<>> /\ ~Busy(l)
    BY <2>1, <2>3 DEF Discipline, LinkState, LinkOK
  <2>5. Append(inbox[l], req[t]) = <<req[t]>>
    BY <2>4
  <2>6. inbox' = [inbox EXCEPT ![l] = <<req[t]>>]
    BY <2>1, <2>5
  <2>7. Awaited(l)' /\ \A k \in Link : k # l => (Awaited(k)' <=> Awaited(k))
    BY <2>1, <2>2, ThreadFacts DEF Discipline, TypeOK, Awaited
  <2>8. ASSUME NEW k \in Link
        PROVE  LinkOK(k)'
    <3>1. CASE k = l
      <4>1. /\ inbox'[l] = <<req'[holder'[l]]>> /\ outbox'[l] = <<>>
            /\ server'[l[2]] = server[l[2]]
            /\ Busy(l)' <=> Busy(l)
            /\ sock'[l] = sock[l]
        BY <2>1, <2>2, <2>4, <2>6 DEF Discipline, TypeOK, Busy
      <4>2. /\ sock[l] = "live" => server[l[2]] \in {"up", "closing", "joined"}
            /\ sock[l] = "orphaned" => server[l[2]] = "draining"
            /\ <<req'[holder'[l]]>> # <<>>
        BY DEF Discipline, LinkState, LinkOK
      <4> QED
        BY <2>1, <2>4, <2>7, <3>1, <4>1, <4>2 DEF LinkOK, Open
    <3>2. CASE k # l
      BY <2>1, <2>6, <2>7, <3>2 DEF Discipline, TypeOK, LinkState, LinkOK, Open, Busy, Evident
    <3> QED
      BY <3>1, <3>2
  <2> QED
    BY <2>8 DEF LinkState
<1>5. OkWasExecuted'
  BY DEF Discipline, OkWasExecuted, Send, clientVars
<1> QED
  BY <1>1, <1>2, <1>3, <1>4, <1>5 DEF Discipline

(* The one frame on its way back answers the receiver's own request. *)
LEMMA RecvResponseStep ==
  ASSUME Discipline, NEW t \in Thread, RecvResponse(t)
  PROVE  Discipline'
<1>0. Out(t) \in Link /\ hop[t] \in Node
  BY DEF Discipline, ThreadState, ThreadOK, RecvResponse
<1>a. \E r \in Response : /\ r.origin = req[t].origin /\ Evident(r)
                          /\ resp' = [resp EXCEPT ![t] = r]
                          /\ outbox' = [outbox EXCEPT ![Out(t)] = <<>>]
  <2>1. pc[t] = "recv" /\ outbox[Out(t)] # <<>> /\ holder[Out(t)] = t
    BY <1>0 DEF RecvResponse, Discipline, LockDiscipline, Holding
  <2>2. PICK r \in Response : /\ outbox[Out(t)] = <<r>>
                              /\ r.origin = req[t].origin /\ Evident(r)
    BY <1>0, <2>1 DEF Discipline, LinkState, LinkOK
  <2>3. Head(outbox[Out(t)]) = r /\ Tail(outbox[Out(t)]) = <<>>
    BY <2>2
  <2> QED
    BY <2>2, <2>3 DEF RecvResponse
<1>1. TypeOK'
  BY <1>0, <1>a DEF Discipline, TypeOK, RecvResponse, clientVars, serverVars, PC
<1>2. ThreadState'
  <2>1. PICK r \in Response : /\ r.origin = req[t].origin /\ Evident(r)
                              /\ resp' = [resp EXCEPT ![t] = r]
    BY <1>a
  <2>2. r # NoResponse
    BY MeshAssumption
  <2>3. /\ pc' = [pc EXCEPT ![t] = "respond"]
        /\ UNCHANGED <<req, hop, execs>>
    BY DEF RecvResponse
  <2>4. ASSUME NEW u \in Thread
        PROVE  ThreadOK(u)'
    <3>0. Out(u)' = Out(u) /\ Evident(r)' /\ pc[t] = "recv"
      BY <2>1, <2>3 DEF Out, At, Evident, RecvResponse
    <3>1. CASE u = t
      BY <1>0, <2>1, <2>2, <2>3, <3>0, <3>1 DEF Discipline, TypeOK, ThreadState, ThreadOK
    <3>2. CASE u # t
      BY <2>1, <2>3, <3>0, <3>2 DEF Discipline, TypeOK, ThreadState, ThreadOK, Evident
    <3> QED
      BY <3>1, <3>2
  <2> QED
    BY <2>4 DEF ThreadState
<1>3. LockDiscipline'
  BY DEF Discipline, LockDiscipline, RecvResponse, Holding, Out
<1>4. LinkState'
  <2>0. PICK l \in Link : l = Out(t)
    BY <1>0
  <2>1. /\ pc[t] = "recv" /\ pc' = [pc EXCEPT ![t] = "respond"]
        /\ outbox[l] # <<>> /\ outbox' = [outbox EXCEPT ![l] = <<>>]
        /\ UNCHANGED <<req, holder, sock, inbox, server, execs>>
    BY <1>a, <2>0 DEF RecvResponse, serverVars
  <2>2. holder[l] = t /\ \A j \in Link : holder[j] = t => j = l
    BY <2>0, <2>1 DEF Discipline, LockDiscipline, Holding
  <2>3. inbox[l] = <<>> /\ ~(Busy(l) /\ Open(l))
    BY <2>1 DEF Discipline, LinkState, LinkOK
  <2>4. ~Awaited(l)' /\ \A j \in Link : j # l => (Awaited(j)' <=> Awaited(j))
    BY <2>1, <2>2, ThreadFacts DEF Discipline, TypeOK, Awaited
  <2>5. ASSUME NEW j \in Link
        PROVE  LinkOK(j)'
    <3>1. CASE j = l
      <4>1. inbox'[l] = <<>> /\ outbox'[l] = <<>> /\ (Busy(l)' <=> Busy(l))
        BY <2>1, <2>3 DEF Discipline, TypeOK, Busy
      <4> QED
        BY <2>1, <2>3, <2>4, <3>1, <4>1 DEF Discipline, LinkState, LinkOK, Open
    <3>2. CASE j # l
      BY <2>1, <2>4, <3>2 DEF Discipline, TypeOK, LinkState, LinkOK, Open, Busy, Evident
    <3> QED
      BY <3>1, <3>2
  <2> QED
    BY <2>5 DEF LinkState
<1>5. OkWasExecuted'
  BY DEF Discipline, OkWasExecuted, RecvResponse, clientVars
<1> QED
  BY <1>1, <1>2, <1>3, <1>4, <1>5 DEF Discipline

(* The thread keeps the mutex and goes back to an exchange. *)
LEMMA RetryStep ==
  ASSUME Discipline, NEW t \in Thread, Retry(t)
  PROVE  Discipline'
<1>1. TypeOK'
  BY DEF Discipline, TypeOK, Retry, linkVars, clientVars, serverVars, PC
<1>2. ThreadState'
  BY DEF Discipline, TypeOK, ThreadState, ThreadOK, Retry, Out, Evident
<1>3. LockDiscipline'
  BY DEF Discipline, LockDiscipline, Retry, linkVars, Holding, Out
<1>4. LinkState'
  BY DEF Discipline, LinkState, LinkOK, Open, Retry, linkVars, serverVars, Awaited, Busy,
     Evident
<1>5. OkWasExecuted'
  BY DEF Discipline, OkWasExecuted, Retry, clientVars
<1> QED
  BY <1>1, <1>2, <1>3, <1>4, <1>5 DEF Discipline

(* The released connection carries no frame: its holder had stopped waiting. *)
LEMMA UnlockStep ==
  ASSUME Discipline, NEW t \in Thread, Unlock(t)
  PROVE  Discipline'
<1>1. TypeOK'
  BY DEF Discipline, TypeOK, Unlock, Released, clientVars, serverVars, PC
<1>2. ThreadState'
  BY DEF Discipline, ThreadState, ThreadOK, Unlock, Out, Evident
<1>3. LockDiscipline'
  BY ThreadFacts DEF Discipline, TypeOK, LockDiscipline, Unlock, Released, Holding, Out
<1>4. LinkState'
  BY DEF Discipline, LockDiscipline, LinkState, LinkOK, Open, Unlock, Released, serverVars,
     Holding, Awaited, Busy, Evident
<1>5. OkWasExecuted'
  BY DEF Discipline, OkWasExecuted, Unlock, clientVars
<1> QED
  BY <1>1, <1>2, <1>3, <1>4, <1>5 DEF Discipline

(* Feedback changes the pheromone table only. *)
LEMMA ObserveStep ==
  ASSUME Discipline, NEW t \in Thread, Observe(t)
  PROVE  Discipline'
<1>0. Out(t) \in Link /\ hop[t] \in Node
  BY DEF Discipline, ThreadState, ThreadOK, Observe
<1>1. TypeOK'
  <2>0. PICK n \in Node : n = At(t)
    BY ThreadFacts
  <2>1. PICK key : n = At(t) /\ key = req[t].key
    BY <2>0
  <2>2. Out(t) \in Node \X Node
    BY <1>0, <2>1 DEF Out
  <2>3. pheromone \in [Node -> [RouteKey -> Scores]]
    BY DEF Discipline, TypeOK, Scores
  <2>4. pheromone' \in [Node -> [RouteKey -> Scores]]
    <3>1. CASE key \in RouteKey
      <4>1. pheromone[n][key] \in Scores
        BY <2>1, <2>3, <3>1
      <4>2. /\ \A r \in Reinforcements : Rewarded(pheromone[n][key], Out(t), r) \in Scores
            /\ Penalised(pheromone[n][key], Out(t)) \in Scores
        BY <2>2, <4>1, TablesStayTyped
      <4>3. PICK x \in Scores :
              pheromone' = [pheromone EXCEPT ![n] = [pheromone[n] EXCEPT ![key] = x]]
        BY <2>1, <4>2 DEF Observe
      <4>4. [pheromone[n] EXCEPT ![key] = x] \in [RouteKey -> Scores]
        BY <2>3
      <4> QED
        BY <2>3, <4>3, <4>4
    <3>2. CASE key \notin RouteKey
      BY <2>1, <2>3, <3>2 DEF Observe
    <3> QED
      BY <3>1, <3>2
  <2> QED
    BY <2>4 DEF Discipline, TypeOK, Observe, linkVars, clientVars, serverVars, PC, Scores
<1>2. ThreadState'
  BY DEF Discipline, ThreadState, ThreadOK, Observe, Out, Evident
<1>3. LockDiscipline'
  BY DEF Discipline, LockDiscipline, Observe, linkVars, Holding, Out
<1>4. LinkState'
  BY DEF Discipline, LinkState, LinkOK, Open, Observe, linkVars, serverVars, Awaited, Busy,
     Evident
<1>5. OkWasExecuted'
  BY DEF Discipline, OkWasExecuted, Observe, clientVars
<1> QED
  BY <1>1, <1>2, <1>3, <1>4, <1>5 DEF Discipline

(* The answer is backed by the execution its response is evidence of. *)
LEMMA ReturnToClientStep ==
  ASSUME Discipline, NEW c \in Client, ReturnToClient(c)
  PROVE  Discipline'
<1>1. TypeOK'
  <2>1. resp[c].status \in Status
    BY ThreadFacts DEF Discipline, TypeOK, ThreadState, ThreadOK, ReturnToClient, Response
  <2> QED
    BY <2>1 DEF Discipline, TypeOK, ReturnToClient, Finish, serverVars, PC
<1>2. ThreadState'
  BY DEF Discipline, TypeOK, ThreadState, ThreadOK, ReturnToClient, Finish, Out, Evident
<1>3. LockDiscipline'
  BY DEF Discipline, LockDiscipline, ReturnToClient, Finish, Holding, Out
<1>4. LinkState'
  BY ThreadFacts DEF Discipline, LinkState, LinkOK, Open, ReturnToClient, Finish,
     serverVars, Awaited, Busy, Evident
<1>5. OkWasExecuted'
  <2>1. resp[c].status = "Ok" => execs[c] > 0
    BY ThreadFacts DEF Discipline, ThreadState, ThreadOK, ReturnToClient, Evident
  <2> QED
    BY <2>1, MeshAssumption DEF Discipline, TypeOK, OkWasExecuted, ReturnToClient, Finish
<1> QED
  BY <1>1, <1>2, <1>3, <1>4, <1>5 DEF Discipline

(* The handler's response becomes the one frame on its way back, or is lost. *)
LEMMA ReturnToPeerStep ==
  ASSUME Discipline, NEW k \in Link, ReturnToPeer(k)
  PROVE  Discipline'
<1>1. TypeOK'
  <2>1. resp[k] \in Response
    BY ThreadFacts DEF Discipline, TypeOK, ThreadState, ThreadOK, ReturnToPeer
  <2>2. Append(outbox[k], resp[k]) \in Seq(Response)
    BY <2>1 DEF Discipline, TypeOK
  <2>3. /\ outbox' \in [Link -> Seq(Response)]
        /\ sock' \in [Link -> {"none", "live", "stale", "orphaned"}]
    BY <2>2 DEF Discipline, TypeOK, ReturnToPeer
  <2>4. pc' \in [Thread -> PC]
    BY DEF Discipline, TypeOK, ReturnToPeer, Finish, PC
  <2> QED
    BY <2>3, <2>4 DEF Discipline, TypeOK, ReturnToPeer, Finish, clientVars, serverVars
<1>2. ThreadState'
  BY DEF Discipline, TypeOK, ThreadState, ThreadOK, ReturnToPeer, Finish, Out, Evident
<1>3. LockDiscipline'
  BY DEF Discipline, LockDiscipline, ReturnToPeer, Finish, Holding, Out
<1>4. LinkState'
  <2>1. /\ pc[k] = "return" /\ pc' = [pc EXCEPT ![k] = "idle"]
        /\ req' = [req EXCEPT ![k] = NoRequest]
        /\ UNCHANGED <<holder, inbox, server, execs>>
    BY DEF ReturnToPeer, Finish, serverVars
  <2>2. Busy(k) /\ resp[k] \in Response /\ resp[k].origin = req[k].origin /\ Evident(resp[k])
    BY <2>1, ThreadFacts DEF Discipline, TypeOK, ThreadState, ThreadOK, Busy
  <2>3. \A j \in Link : holder[j] # k
    BY <2>1, ThreadFacts DEF Discipline, LockDiscipline, Holding
  <2>4. \A j \in Link : /\ Awaited(j)' <=> Awaited(j)
                        /\ Awaited(j) => req'[holder[j]] = req[holder[j]]
    BY <2>1, <2>3, ThreadFacts DEF Discipline, TypeOK, Awaited
  <2>5. ~Busy(k)'
    BY <2>1, ThreadFacts DEF Discipline, TypeOK, Busy
  <2>6. ASSUME NEW j \in Link
        PROVE  LinkOK(j)'
    <3>1. CASE j # k
      <4>1. sock'[j] = sock[j] /\ outbox'[j] = outbox[j] /\ (Busy(j)' <=> Busy(j))
            /\ req'[j] = req[j]
        BY <2>1, <3>1 DEF Discipline, TypeOK, ReturnToPeer, Busy
      <4> QED
        BY <2>1, <2>4, <4>1 DEF Discipline, LinkState, LinkOK, Open, Evident
    <3>2. CASE j = k /\ sock[k] = "live"
      <4>1. /\ Awaited(k) /\ inbox[k] = <<>> /\ outbox[k] = <<>>
            /\ resp[k].origin = req[holder[k]].origin
            /\ server[k[2]] \in {"up", "closing", "joined"}
        BY <2>2, <3>2 DEF Discipline, LinkState, LinkOK, Open
      <4>2. Append(outbox[k], resp[k]) = <<resp[k]>>
        BY <2>2, <4>1
      <4>3. outbox'[k] = <<resp[k]>> /\ <<resp[k]>> # <<>>
        <5>1. outbox' = [outbox EXCEPT ![k] = Append(outbox[k], resp[k])]
          BY <3>2 DEF ReturnToPeer, Open
        <5>2. outbox'[k] = <<resp[k]>>
          BY <4>2, <5>1 DEF Discipline, TypeOK
        <5> QED
          BY <5>2
      <4>4. Evident(resp[k]) => \A r \in Response : outbox'[k] = <<r>> => Evident(r)'
        BY <2>1, <4>3 DEF Evident
      <4>5. \E r \in Response : /\ outbox'[k] = <<r>> /\ r.origin = req'[holder'[k]].origin
                                /\ Evident(r)'
        BY <2>1, <2>2, <2>4, <4>1, <4>3, <4>4
      <4>6. sock'[k] \in {"live", "stale"}
        BY <3>2 DEF Discipline, TypeOK, ReturnToPeer
      <4> QED
        BY <2>1, <2>4, <2>5, <3>2, <4>1, <4>3, <4>5, <4>6 DEF LinkOK, Open
    <3>3. CASE j = k /\ sock[k] # "live"
      <4>1. /\ ~Open(k)' /\ sock'[k] # "live" /\ sock'[k] # "orphaned"
            /\ outbox'[k] = outbox[k]
        BY <3>3 DEF Discipline, TypeOK, ReturnToPeer, Open
      <4> QED
        BY <2>1, <2>4, <2>5, <3>3, <4>1 DEF Discipline, LinkState, LinkOK, Evident
    <3> QED
      BY <3>1, <3>2, <3>3
  <2> QED
    BY <2>6 DEF LinkState
<1>5. OkWasExecuted'
  BY DEF Discipline, OkWasExecuted, ReturnToPeer, Finish, clientVars
<1> QED
  BY <1>1, <1>2, <1>3, <1>4, <1>5 DEF Discipline

(* The one frame on its way out becomes the handler's request. *)
LEMMA ReceiveStep ==
  ASSUME Discipline, NEW k \in Link, Receive(k)
  PROVE  Discipline'
<1>0. /\ \E r \in Request : req' = [req EXCEPT ![k] = r] /\ r = req[holder[k]]
      /\ inbox' = [inbox EXCEPT ![k] = <<>>]
      /\ Awaited(k) /\ outbox[k] = <<>>
  <2>1. inbox[k] \in Seq(Request) /\ inbox[k] # <<>>
    BY DEF Receive, Discipline, TypeOK
  <2>2. Head(inbox[k]) \in Request
    BY <2>1
  <2>3. inbox[k] = <<req[holder[k]]>> /\ Awaited(k) /\ outbox[k] = <<>>
    BY <2>1 DEF Discipline, LinkState, LinkOK
  <2>4. Head(inbox[k]) = req[holder[k]] /\ Tail(inbox[k]) = <<>>
    BY <2>3
  <2> QED
    BY <2>2, <2>3, <2>4 DEF Receive
<1>1. TypeOK'
  <2>1. req' \in [Thread -> Request \cup {NoRequest}]
    BY <1>0 DEF Discipline, TypeOK
  <2>2. <<>> \in Seq(Request)
    OBVIOUS
  <2>3. inbox' \in [Link -> Seq(Request)]
    BY <1>0, <2>2 DEF Discipline, TypeOK
  <2>4. pc' \in [Thread -> PC]
    BY DEF Discipline, TypeOK, Receive, PC
  <2> QED
    BY <2>1, <2>3, <2>4 DEF Discipline, TypeOK, Receive, clientVars, serverVars
<1>2. ThreadState'
  <2>1. resp[k] = NoResponse
    BY ThreadFacts DEF Discipline, ThreadState, ThreadOK, Receive
  <2>2. PICK r \in Request : req' = [req EXCEPT ![k] = r]
    BY <1>0
  <2>3. r # NoRequest
    BY MeshAssumption
  <2>4. /\ pc[k] = "idle" /\ pc' = [pc EXCEPT ![k] = "execute"]
        /\ UNCHANGED <<resp, hop, execs>>
    BY DEF Receive
  <2>5. ASSUME NEW u \in Thread
        PROVE  ThreadOK(u)'
    BY <2>1, <2>2, <2>3, <2>4, ThreadFacts
    DEF Discipline, TypeOK, ThreadState, ThreadOK, Out, At, Evident
  <2> QED
    BY <2>5 DEF ThreadState
<1>3. LockDiscipline'
  BY DEF Discipline, LockDiscipline, Receive, Holding, Out
<1>4. LinkState'
  <2>1. PICK r \in Request : req' = [req EXCEPT ![k] = r] /\ r = req[holder[k]]
    BY <1>0
  <2>2. /\ pc[k] = "idle" /\ pc' = [pc EXCEPT ![k] = "execute"] /\ Open(k)
        /\ UNCHANGED <<holder, sock, outbox, server, execs>>
    BY DEF Receive, serverVars
  <2>3. \A j \in Link : holder[j] # k
    BY <2>2, ThreadFacts DEF Discipline, LockDiscipline, Holding
  <2>4. \A j \in Link : /\ Awaited(j)' <=> Awaited(j)
                        /\ Awaited(j) => req'[holder[j]] = req[holder[j]]
    BY <2>1, <2>2, <2>3, ThreadFacts DEF Discipline, TypeOK, Awaited
  <2>5. ASSUME NEW j \in Link
        PROVE  LinkOK(j)'
    <3>1. CASE j = k
      <4>1. inbox'[k] = <<>> /\ outbox'[k] = <<>> /\ req'[k].origin = req'[holder'[k]].origin
        BY <1>0, <2>1, <2>2, <2>4, ThreadFacts DEF Discipline, TypeOK
      <4>2. /\ sock'[k] = "live" => server'[k[2]] \in {"up", "closing", "joined"}
            /\ sock'[k] = "orphaned" => server'[k[2]] = "draining"
        BY <2>2 DEF Discipline, LinkState, LinkOK
      <4>3. Busy(k)'
        BY <2>1, ThreadFacts, MeshAssumption DEF Discipline, TypeOK, Busy
      <4> QED
        BY <1>0, <2>2, <2>4, <3>1, <4>1, <4>2, <4>3 DEF LinkOK, Open
    <3>2. CASE j # k
      <4>1. inbox'[j] = inbox[j] /\ req'[j] = req[j] /\ (Busy(j)' <=> Busy(j))
        BY <1>0, <2>1, <3>2 DEF Discipline, TypeOK, Busy
      <4> QED
        BY <2>2, <2>4, <4>1 DEF Discipline, LinkState, LinkOK, Open, Evident
    <3> QED
      BY <3>1, <3>2
  <2> QED
    BY <2>5 DEF LinkState
<1>5. OkWasExecuted'
  BY DEF Discipline, OkWasExecuted, Receive, clientVars
<1> QED
  BY <1>1, <1>2, <1>3, <1>4, <1>5 DEF Discipline

(* A handler that loses the frame it was reading leaves its connection stale. *)
LEMMA LoseFrameStep ==
  ASSUME Discipline, NEW k \in Link, LoseFrame(k)
  PROVE  Discipline'
<1>0. /\ ~Busy(k) /\ sock' = [sock EXCEPT ![k] = "stale"] /\ UNCHANGED threadVars
      /\ UNCHANGED <<holder, inbox, outbox, server, execs>>
  BY ThreadFacts DEF LoseFrame, Discipline, ThreadState, ThreadOK, Busy, threadVars, serverVars
<1>1. TypeOK'
  BY DEF Discipline, TypeOK, LoseFrame, threadVars, clientVars, serverVars
<1>2. ThreadState'
  BY DEF Discipline, ThreadState, ThreadOK, LoseFrame, threadVars, Out, Evident
<1>3. LockDiscipline'
  BY DEF Discipline, LockDiscipline, LoseFrame, threadVars, Holding, Out
<1>4. LinkState'
  BY <1>0 DEF Discipline, TypeOK, LinkState, LinkOK, Open, threadVars, Awaited, Busy, Evident
<1>5. OkWasExecuted'
  BY DEF Discipline, OkWasExecuted, LoseFrame, clientVars
<1> QED
  BY <1>1, <1>2, <1>3, <1>4, <1>5 DEF Discipline

(* Handlers that nobody waits for any more belong to a draining server. *)
LEMMA CloseConnectionsStep ==
  ASSUME Discipline, NEW n \in Node, CloseConnections(n)
  PROVE  Discipline'
<1>1. TypeOK'
  BY DEF Discipline, TypeOK, CloseConnections, AcceptReturned, AllClosed, threadVars,
     clientVars
<1>2. ThreadState'
  BY DEF Discipline, ThreadState, ThreadOK, CloseConnections, AcceptReturned, threadVars,
     Out, Evident
<1>3. LockDiscipline'
  BY DEF Discipline, LockDiscipline, CloseConnections, AcceptReturned, threadVars, Holding,
     Out
<1>4. LinkState'
  BY DEF Discipline, TypeOK, LinkState, LinkOK, Open, CloseConnections, AcceptReturned,
     AllClosed, threadVars, Awaited, Busy, Evident
<1>5. OkWasExecuted'
  BY DEF Discipline, OkWasExecuted, CloseConnections, AcceptReturned, clientVars
<1> QED
  BY <1>1, <1>2, <1>3, <1>4, <1>5 DEF Discipline

(* A server that begins to stop still serves its connections. *)
LEMMA StopServerStep ==
  ASSUME Discipline, NEW n \in Node, StopServer(n)
  PROVE  Discipline'
<1>1. TypeOK'
  BY MeshAssumption DEF Discipline, TypeOK, StopServer, threadVars, linkVars, clientVars
<1>2. ThreadState'
  BY DEF Discipline, ThreadState, ThreadOK, StopServer, threadVars, Out, Evident
<1>3. LockDiscipline'
  BY DEF Discipline, LockDiscipline, StopServer, threadVars, linkVars, Holding, Out
<1>4. LinkState'
  BY DEF Discipline, LinkState, LinkOK, Open, StopServer, threadVars, linkVars, Awaited,
     Busy, Evident
<1>5. OkWasExecuted'
  BY DEF Discipline, OkWasExecuted, StopServer, clientVars
<1> QED
  BY <1>1, <1>2, <1>3, <1>4, <1>5 DEF Discipline

(* No thread of the server is busy, so it may leave the draining phase. *)
LEMMA JoinThreadsStep ==
  ASSUME Discipline, NEW n \in Node, JoinThreads(n)
  PROVE  Discipline'
<1>1. TypeOK'
  BY DEF Discipline, TypeOK, JoinThreads, threadVars, linkVars, clientVars
<1>2. ThreadState'
  BY DEF Discipline, ThreadState, ThreadOK, JoinThreads, threadVars, Out, Evident
<1>3. LockDiscipline'
  BY DEF Discipline, LockDiscipline, JoinThreads, threadVars, linkVars, Holding, Out
<1>4. LinkState'
  <2>1. /\ server[n] = "draining" /\ server' = [server EXCEPT ![n] = "down"]
        /\ UNCHANGED <<pc, req, holder, sock, inbox, outbox, execs>>
    BY DEF JoinThreads, threadVars, linkVars
  <2>2. \A l \in Link : l[2] = n => ~Busy(l) /\ ~Open(l)
    BY ThreadFacts DEF Discipline, ThreadState, ThreadOK, JoinThreads, Busy
  <2>3. ASSUME NEW l \in Link
        PROVE  LinkOK(l)'
    <3>1. \/ l[2] = n /\ ~Busy(l) /\ ~Open(l)
          \/ l[2] # n /\ server'[l[2]] = server[l[2]]
      BY <2>1, <2>2 DEF Discipline, TypeOK
    <3> QED
      BY <2>1, <3>1 DEF Discipline, LinkState, LinkOK, Open, Awaited, Busy, Evident
  <2> QED
    BY <2>3 DEF LinkState
<1>5. OkWasExecuted'
  BY DEF Discipline, OkWasExecuted, JoinThreads, clientVars
<1> QED
  BY <1>1, <1>2, <1>3, <1>4, <1>5 DEF Discipline

(* A server that is down has no connection to disturb. *)
LEMMA StartServerStep ==
  ASSUME Discipline, NEW n \in Node, StartServer(n)
  PROVE  Discipline'
<1>1. TypeOK'
  BY DEF Discipline, TypeOK, StartServer, threadVars, linkVars, clientVars
<1>2. ThreadState'
  BY DEF Discipline, ThreadState, ThreadOK, StartServer, threadVars, Out, Evident
<1>3. LockDiscipline'
  BY DEF Discipline, LockDiscipline, StartServer, threadVars, linkVars, Holding, Out
<1>4. LinkState'
  BY DEF Discipline, LinkState, LinkOK, Open, StartServer, threadVars, linkVars, Awaited,
     Busy, Evident
<1>5. OkWasExecuted'
  BY DEF Discipline, OkWasExecuted, StartServer, clientVars
<1> QED
  BY <1>1, <1>2, <1>3, <1>4, <1>5 DEF Discipline

(* Evaporation changes the pheromone table only. *)
LEMMA EvaporateStep ==
  ASSUME Discipline, NEW n \in Node, Evaporate(n)
  PROVE  Discipline'
<1>1. TypeOK'
  <2>1. pheromone \in [Node -> [RouteKey -> Scores]]
    BY DEF Discipline, TypeOK, Scores
  <2>2. \A key \in RouteKey : Evaporated(pheromone[n][key]) \in Scores
    <3>1. ASSUME NEW scores \in Scores
          PROVE  Evaporated(scores) \in Scores
      BY TablesStayTyped
    <3> QED
      BY <2>1, <3>1
  <2>3. pheromone' \in [Node -> [RouteKey -> Scores]]
    BY <2>1, <2>2 DEF Evaporate
  <2> QED
    BY <2>3 DEF Discipline, TypeOK, Evaporate, threadVars, linkVars, clientVars, serverVars, Scores
<1>2. ThreadState'
  BY DEF Discipline, ThreadState, ThreadOK, Evaporate, threadVars, Out, Evident
<1>3. LockDiscipline'
  BY DEF Discipline, LockDiscipline, Evaporate, threadVars, linkVars, Holding, Out
<1>4. LinkState'
  BY DEF Discipline, LinkState, LinkOK, Open, Evaporate, threadVars, linkVars, serverVars,
     Awaited, Busy, Evident
<1>5. OkWasExecuted'
  BY DEF Discipline, OkWasExecuted, Evaporate, clientVars
<1> QED
  BY <1>1, <1>2, <1>3, <1>4, <1>5 DEF Discipline

--------------------------------------------------------------------------------
(* Unchanged variables change no part of the invariant. *)
LEMMA StutterStep ==
  ASSUME Discipline, UNCHANGED vars
  PROVE  Discipline'
<1>1. TypeOK'
  BY DEF Discipline, TypeOK, vars, threadVars, linkVars, clientVars, serverVars
<1>2. ThreadState'
  BY DEF Discipline, ThreadState, ThreadOK, Evident, Out, At, vars, threadVars
<1>3. LockDiscipline'
  BY DEF Discipline, LockDiscipline, Holding, Out, At, vars, threadVars, linkVars
<1>4. LinkState'
  BY DEF Discipline, LinkState, LinkOK, Open, Awaited, Busy, Evident, vars, threadVars, linkVars,
     serverVars
<1>5. OkWasExecuted'
  BY DEF Discipline, OkWasExecuted, vars, clientVars
<1> QED
  BY <1>1, <1>2, <1>3, <1>4, <1>5 DEF Discipline

(* Nothing is held, sent or answered in the beginning. *)
LEMMA InitDiscipline ==
  ASSUME Init
  PROVE  Discipline
<1>1. TypeOK
  <2>1. <<>> \in Seq(Request) /\ <<>> \in Seq(Response)
    OBVIOUS
  <2> QED
    BY <2>1, MeshAssumption DEF Init, TypeOK, PC
<1>2. ThreadState
  BY DEF Init, ThreadState, ThreadOK
<1>3. LockDiscipline
  BY ThreadFacts DEF Init, LockDiscipline, Holding
<1>4. LinkState
  BY ThreadFacts DEF Init, LinkState, LinkOK, Open, Busy
<1>5. OkWasExecuted
  BY MeshAssumption DEF Init, OkWasExecuted, Status
<1> QED
  BY <1>1, <1>2, <1>3, <1>4, <1>5 DEF Discipline

(* What a gateway does between two observable points. *)
LEMMA GatewaySteps ==
  ASSUME Discipline, NEW t \in Thread, GatewayStep(t)
  PROVE  Discipline'
<1>0. ASSUME pc[t] = "execute", UNCHANGED execs, NEW status \in Status \ {"Ok"}, Return(t, status)
      PROVE  Discipline'
  <2>1. execs' \in [Client -> Nat] /\ \A c \in Client : execs'[c] >= execs[c]
    BY <1>0 DEF Discipline, TypeOK
  <2> QED
    BY <1>0, <2>1, ReturnStep
<1>1. CASE RefuseStatement(t)
  BY <1>0, <1>1 DEF RefuseStatement, Status
<1>2. CASE RefuseExhausted(t)
  BY <1>0, <1>2 DEF RefuseExhausted, Status
<1>3. CASE ExecuteLocally(t)
  <2>1. PICK status \in ExecutorStatus : Return(t, status)
    BY <1>3 DEF ExecuteLocally
  <2>2. pc[t] = "execute" /\ execs' = [execs EXCEPT ![req[t].origin] = @ + 1]
    BY <1>3 DEF ExecuteLocally, Executable
  <2>3. req[t].origin \in Client
    BY <2>2, RequestFacts
  <2>4. /\ execs' \in [Client -> Nat]
        /\ \A c \in Client : execs'[c] >= execs[c]
        /\ execs'[req[t].origin] > 0
    BY <2>2, <2>3 DEF Discipline, TypeOK
  <2>5. status \in Status
    BY MeshAssumption
  <2> QED
    BY <2>1, <2>2, <2>4, <2>5, ReturnStep
<1>4. CASE ChooseHop(t)
  BY <1>4, ChooseHopStep
<1>5. CASE Observe(t)
  BY <1>5, ObserveStep
<1> QED
  BY <1>1, <1>2, <1>3, <1>4, <1>5 DEF GatewayStep

(* What a forwarder does. *)
LEMMA ForwarderSteps ==
  ASSUME Discipline, NEW t \in Thread, ForwarderStep(t)
  PROVE  Discipline'
<1>1. CASE UnknownPeer(t)
  BY <1>1, UnknownPeerStep
<1>2. CASE LockConnection(t)
  BY <1>2, LockConnectionStep
<1>3. CASE Connect(t)
  BY <1>3, ConnectStep
<1>4. CASE ConnectFailed(t)
  BY <1>4, DropStep DEF ConnectFailed
<1>5. CASE Send(t)
  BY <1>5, SendStep
<1>6. CASE ExchangeFailed(t)
  BY <1>6, DropStep DEF ExchangeFailed
<1>7. CASE RecvResponse(t)
  BY <1>7, RecvResponseStep
<1>8. CASE Retry(t)
  BY <1>8, RetryStep
<1>9. CASE Unlock(t)
  BY <1>9, UnlockStep
<1> QED
  BY <1>1, <1>2, <1>3, <1>4, <1>5, <1>6, <1>7, <1>8, <1>9 DEF ForwarderStep

(* Every step preserves the invariant: the induction step. *)
LEMMA NextDiscipline ==
  ASSUME Discipline, [Next]_vars
  PROVE  Discipline'
<1>1. CASE \E c \in Client : Issue(c)
  BY <1>1, IssueStep
<1>2. ASSUME NEW t \in Thread, ThreadStep(t)
      PROVE  Discipline'
  <2>1. CASE GatewayStep(t)
    BY <2>1, GatewaySteps
  <2>2. CASE ForwarderStep(t)
    BY <2>2, ForwarderSteps
  <2>3. CASE t \in Client /\ ReturnToClient(t)
    BY <2>3, ReturnToClientStep
  <2>4. CASE t \in Link /\ ReturnToPeer(t)
    BY <2>4, ReturnToPeerStep
  <2>5. CASE t \in Link /\ Receive(t)
    BY <2>5, ReceiveStep
  <2>6. CASE t \in Link /\ LoseFrame(t)
    BY <2>6, LoseFrameStep
  <2> QED
    BY <1>2, <2>1, <2>2, <2>3, <2>4, <2>5, <2>6 DEF ThreadStep
<1>3. ASSUME NEW n \in Node,
             StopServer(n) \/ ServerStep(n) \/ StartServer(n) \/ Evaporate(n)
      PROVE  Discipline'
  <2>1. CASE StopServer(n)
    BY <2>1, StopServerStep
  <2>2. CASE CloseConnections(n)
    BY <2>2, CloseConnectionsStep
  <2>3. CASE JoinThreads(n)
    BY <2>3, JoinThreadsStep
  <2>4. CASE StartServer(n)
    BY <2>4, StartServerStep
  <2>5. CASE Evaporate(n)
    BY <2>5, EvaporateStep
  <2> QED
    BY <1>3, <2>1, <2>2, <2>3, <2>4, <2>5 DEF ServerStep
<1>4. CASE UNCHANGED vars
  BY <1>4, StutterStep
<1> QED
  BY <1>1, <1>2, <1>3, <1>4 DEF Next

--------------------------------------------------------------------------------
(* Discipline holds in every reachable state: of any number of queries over *)
(* any topology, interleaved with servers being stopped and started.        *)
THEOREM MeshDiscipline == Spec => []Discipline
<1>1. Init => Discipline
  BY InitDiscipline
<1>2. Discipline /\ [Next]_vars => Discipline'
  BY NextDiscipline
<1> QED
  BY <1>1, <1>2, PTL DEF Spec

(* The variables of the mesh keep their types; the pheromone tables in      *)
(* particular never leave the range of a score (router.cpp).                *)
THEOREM MeshTypeCorrect == Spec => []TypeOK
<1>1. Discipline => TypeOK
  BY DEF Discipline
<1> QED
  BY <1>1, MeshDiscipline, PTL

(* Connection::mutex: Forward holds exactly the mutex of the neighbour it   *)
(* forwards to, from its acquisition to its return, on every path through   *)
(* the retry and the failures.                                              *)
THEOREM MeshLockDiscipline == Spec => []LockDiscipline
<1>1. Discipline => LockDiscipline
  BY DEF Discipline
<1> QED
  BY <1>1, MeshDiscipline, PTL

(* At most one call is in flight on a live connection, and exactly while    *)
(* the thread holding it waits in RecvFrame.                                *)
THEOREM MeshNoPipelining == Spec => []NoPipelining
<1>1. ASSUME Discipline
      PROVE  NoPipelining
  <2>1. SUFFICES ASSUME NEW l \in Link, Open(l)
                 PROVE  /\ InFlight(l) =< 1
                        /\ InFlight(l) = 1 <=> \E t \in Thread : holder[l] = t /\ pc[t] = "recv"
    BY DEF NoPipelining
  <2>2. inbox[l] \in Seq(Request) /\ outbox[l] \in Seq(Response)
    BY <1>1 DEF Discipline, TypeOK
  <2>3. Awaited(l) <=> \E t \in Thread : holder[l] = t /\ pc[t] = "recv"
    BY <1>1, ThreadFacts DEF Discipline, TypeOK, Awaited
  <2>4. CASE ~Awaited(l)
    <3>1. inbox[l] = <<>> /\ outbox[l] = <<>> /\ ~Busy(l)
      BY <1>1, <2>1, <2>4 DEF Discipline, LinkState, LinkOK
    <3> QED
      BY <2>3, <2>4, <3>1 DEF InFlight
  <2>5. CASE Awaited(l) /\ Busy(l)
    <3>1. inbox[l] = <<>> /\ outbox[l] = <<>>
      BY <1>1, <2>1, <2>5 DEF Discipline, LinkState, LinkOK
    <3> QED
      BY <2>3, <2>5, <3>1 DEF InFlight
  <2>6. CASE Awaited(l) /\ ~Busy(l) /\ inbox[l] # <<>>
    <3>1. inbox[l] = <<req[holder[l]]>> /\ outbox[l] = <<>>
      BY <1>1, <2>6 DEF Discipline, LinkState, LinkOK
    <3>2. Len(inbox[l]) = 1 /\ Len(outbox[l]) = 0
      BY <3>1
    <3> QED
      BY <2>3, <2>6, <3>2 DEF InFlight
  <2>7. CASE Awaited(l) /\ ~Busy(l) /\ inbox[l] = <<>>
    <3>1. \E r \in Response : outbox[l] = <<r>>
      BY <1>1, <2>1, <2>7 DEF Discipline, LinkState, LinkOK
    <3>2. Len(inbox[l]) = 0 /\ Len(outbox[l]) = 1
      BY <2>7, <3>1
    <3> QED
      BY <2>3, <2>7, <3>2 DEF InFlight
  <2> QED
    BY <2>4, <2>5, <2>6, <2>7
<1> QED
  BY <1>1, MeshDiscipline, PTL

(* Sockets are shared by the queries that cross them, and broken, replaced  *)
(* and retried; yet a caller only ever holds the response to its own query. *)
THEOREM MeshOwnResponse == Spec => []OwnResponse
<1>1. Discipline => OwnResponse
  BY DEF Discipline, ThreadState, ThreadOK, OwnResponse
<1> QED
  BY <1>1, MeshDiscipline, PTL

----------------------------------------------------------------------------
(* What the mesh carries: a request keeps the client's statement, and its   *)
(* route is the path it took.                                               *)


(* A thread's request, hop and place change in four ways only: a client     *)
(* issues one, a gateway extends it, a connection thread receives one, or   *)
(* the call is over.                                                        *)
LEMMA RequestMoves ==
  ASSUME Discipline, [Next]_vars, NEW u \in Thread
  PROVE  \/ /\ req'[u] = req[u] /\ hop'[u] = hop[u]
            /\ pc'[u] = "execute" => pc[u] = "execute"
            /\ Forwarding(u)' => Forwarding(u)
         \/ u \in Client /\ Issue(u)
         \/ ChooseHop(u)
         \/ u \in Link /\ Receive(u)
         \/ req'[u] = NoRequest
<1> DEFINE Same == /\ req'[u] = req[u] /\ hop'[u] = hop[u]
                   /\ pc'[u] = "execute" => pc[u] = "execute"
                   /\ Forwarding(u)' => Forwarding(u)
<1>0. TypeOK
  BY DEF Discipline
<1>1. ASSUME NEW c \in Client, Issue(c)
      PROVE  Same \/ c = u
  BY <1>0, <1>1 DEF TypeOK, Issue, Forwarding
<1>2. ASSUME NEW t \in Thread, GatewayStep(t), ~ChooseHop(u)
      PROVE  Same
  <2>1. ASSUME NEW status \in Status, Return(t, status)
        PROVE  Same
    BY <1>0, <2>1 DEF TypeOK, Return, Forwarding
  <2>2. CASE RefuseStatement(t) \/ RefuseExhausted(t)
    BY <2>1, <2>2 DEF RefuseStatement, RefuseExhausted, Status
  <2>3. CASE ExecuteLocally(t)
    BY <2>1, <2>3, MeshAssumption DEF ExecuteLocally
  <2>4. CASE ChooseHop(t)
    BY <1>0, <1>2, <2>4 DEF TypeOK, ChooseHop, Forwarding
  <2>5. CASE Observe(t)
    BY <1>0, <2>5 DEF TypeOK, Observe, Forwarding
  <2> QED
    BY <1>2, <2>2, <2>3, <2>4, <2>5 DEF GatewayStep
<1>3. ASSUME NEW t \in Thread, ForwarderStep(t)
      PROVE  Same
  <2>1. CASE Connect(t)
    BY <2>1 DEF Connect, threadVars, Forwarding
  <2>2. CASE Drop(t) /\ pc[t] \in {"exchange", "recv"}
    BY <1>0, <2>2 DEF TypeOK, Drop, Forwarding
  <2>3. CASE UnknownPeer(t) \/ LockConnection(t) \/ Send(t)
    BY <1>0, <2>3 DEF TypeOK, UnknownPeer, LockConnection, Send, Forwarding
  <2>4. CASE RecvResponse(t) \/ Retry(t) \/ Unlock(t)
    BY <1>0, <2>4 DEF TypeOK, RecvResponse, Retry, Unlock, Forwarding
  <2> QED
    BY <1>3, <2>1, <2>2, <2>3, <2>4 DEF ForwarderStep, ConnectFailed, ExchangeFailed
<1>4. ASSUME NEW t \in Thread, Finish(t)
      PROVE  Same \/ req'[u] = NoRequest
  BY <1>0, <1>4 DEF TypeOK, Finish, Forwarding
<1>5. ASSUME NEW l \in Link, Receive(l)
      PROVE  Same \/ l = u
  BY <1>0, <1>5 DEF TypeOK, Receive, Forwarding
<1>6. ASSUME UNCHANGED threadVars
      PROVE  Same
  BY <1>6 DEF threadVars, Forwarding
<1>7. ASSUME NEW t \in Thread, ThreadStep(t), ~ChooseHop(u)
      PROVE  Same \/ (u \in Link /\ Receive(u)) \/ req'[u] = NoRequest
  BY <1>2, <1>3, <1>4, <1>5, <1>6, <1>7 DEF ThreadStep, ReturnToClient, ReturnToPeer, LoseFrame
<1>8. ASSUME NEW n \in Node, StopServer(n) \/ ServerStep(n) \/ StartServer(n) \/ Evaporate(n)
      PROVE  UNCHANGED threadVars
  BY <1>8 DEF StopServer, ServerStep, CloseConnections, JoinThreads, StartServer, Evaporate
<1> HIDE DEF Same
<1>9. Same \/ (u \in Client /\ Issue(u)) \/ ChooseHop(u) \/ (u \in Link /\ Receive(u))
        \/ req'[u] = NoRequest
  BY <1>1, <1>6, <1>7, <1>8 DEF Next, vars
<1> QED
  BY <1>9 DEF Same

(* What a client asked is written once. *)
LEMMA AskedMoves ==
  ASSUME [Next]_vars, Discipline, NEW c \in Client
  PROVE  asked'[c] = asked[c] \/ (asked[c] = NoRequest /\ Issue(c))
<1>1. ASSUME NEW d \in Client, Issue(d)
      PROVE  asked'[c] = asked[c] \/ (asked[c] = NoRequest /\ Issue(c))
  <2>1. asked[d] = NoRequest /\ (d # c => asked'[c] = asked[c])
    BY <1>1 DEF Issue, Discipline, TypeOK
  <2> QED
    BY <1>1, <2>1
<1>2. ASSUME NEW t \in Thread, ThreadStep(t)
      PROVE  asked' = asked
  <2>1. CASE GatewayStep(t)
    BY <2>1 DEF GatewayStep, RefuseStatement, RefuseExhausted, ExecuteLocally, Return, ChooseHop,
       Observe, clientVars
  <2>2. CASE ForwarderStep(t)
    BY <2>2 DEF ForwarderStep, UnknownPeer, LockConnection, Connect, ConnectFailed, Send,
       ExchangeFailed, Drop, RecvResponse, Retry, Unlock, clientVars
  <2> QED
    BY <1>2, <2>1, <2>2 DEF ThreadStep, ReturnToClient, ReturnToPeer, Receive, LoseFrame, clientVars
<1>3. ASSUME NEW n \in Node, StopServer(n) \/ ServerStep(n) \/ StartServer(n) \/ Evaporate(n)
      PROVE  asked' = asked
  BY <1>3 DEF StopServer, ServerStep, CloseConnections, JoinThreads, StartServer, Evaporate,
     clientVars
<1> QED
  BY <1>1, <1>2, <1>3 DEF Next, vars, clientVars

--------------------------------------------------------------------------------
(* A path that a new node extends stays a path. *)
LEMMA PathGrows ==
  ASSUME NEW path \in Seq(Node), NEW n \in Node, Distinct(path), Along(path),
         n \notin NodesOn(path), path # <<>> => <<path[Len(path)], n>> \in Link
  PROVE  /\ Distinct(Append(path, n)) /\ Along(Append(path, n))
         /\ Append(path, n)[1] = IF path = <<>> THEN n ELSE path[1]
         /\ Append(path, n)[Len(Append(path, n))] = n
         /\ NodesOn(Append(path, n)) = NodesOn(path) \cup {n}
         /\ Append(path, n) # <<>>
<1> DEFINE longer == Append(path, n)
<1>1. /\ longer \in Seq(Node) /\ Len(longer) = Len(path) + 1 /\ Len(path) \in Nat
      /\ \A i \in 1 .. Len(path) : longer[i] = path[i]
      /\ longer[Len(path) + 1] = n
  OBVIOUS
<1>2. DOMAIN longer = 1 .. Len(path) + 1 /\ DOMAIN path = 1 .. Len(path)
  OBVIOUS
<1>3. path = <<>> <=> Len(path) = 0
  OBVIOUS
<1>4. longer # <<>>
  BY <1>1
<1> HIDE DEF longer
<1>5. Distinct(longer)
  BY <1>1, <1>2 DEF Distinct, NodesOn
<1>6. Along(longer)
  <2>1. ASSUME NEW i \in 2 .. Len(path) + 1
        PROVE  <<longer[i - 1], longer[i]>> \in Link
    <3>1. CASE i = Len(path) + 1
      BY <1>1, <1>3, <2>1, <3>1
    <3>2. CASE i # Len(path) + 1
      <4>1. i \in 2 .. Len(path) /\ i - 1 \in 1 .. Len(path) /\ i \in 1 .. Len(path)
        BY <1>1, <3>2
      <4> QED
        BY <1>1, <4>1 DEF Along
    <3> QED
      BY <3>1, <3>2
  <2> QED
    BY <1>1, <2>1 DEF Along
<1>7. NodesOn(longer) = NodesOn(path) \cup {n}
  <2>1. \A i \in 1 .. Len(path) + 1 : i \in 1 .. Len(path) \/ i = Len(path) + 1
    BY <1>1
  <2>2. 1 .. Len(path) \subseteq 1 .. Len(path) + 1 /\ Len(path) + 1 \in 1 .. Len(path) + 1
    BY <1>1
  <2> QED
    BY <1>1, <1>2, <2>1, <2>2 DEF NodesOn
<1> QED
  BY <1>1, <1>3, <1>4, <1>5, <1>6, <1>7 DEF longer

(* And so does the part of it before its last node. *)
LEMMA PathShrinks ==
  ASSUME NEW path \in Seq(Node), NEW n \in Node,
         Distinct(Append(path, n)), Along(Append(path, n))
  PROVE  /\ Distinct(path) /\ Along(path)
         /\ path # <<>> => path[1] = Append(path, n)[1]
<1> DEFINE longer == Append(path, n)
<1>1. /\ Len(longer) = Len(path) + 1 /\ Len(path) \in Nat
      /\ \A i \in 1 .. Len(path) : longer[i] = path[i]
  OBVIOUS
<1>2. DOMAIN longer = 1 .. Len(path) + 1 /\ DOMAIN path = 1 .. Len(path)
  OBVIOUS
<1>3. path # <<>> => Len(path) > 0
  OBVIOUS
<1>4. Distinct(longer) /\ Along(longer)
  OBVIOUS
<1> HIDE DEF longer
<1>5. Distinct(path)
  BY <1>1, <1>2, <1>4 DEF Distinct
<1>6. Along(path)
  <2>1. ASSUME NEW i \in 2 .. Len(path)
        PROVE  <<path[i - 1], path[i]>> \in Link
    <3>1. i \in 2 .. Len(longer) /\ i - 1 \in 1 .. Len(path) /\ i \in 1 .. Len(path)
      BY <1>1
    <3> QED
      BY <1>1, <1>4, <3>1 DEF Along
  <2> QED
    BY <2>1 DEF Along
<1>7. path # <<>> => path[1] = longer[1]
  BY <1>1, <1>3
<1> QED
  BY <1>5, <1>6, <1>7 DEF longer

(* Choose never returns a neighbour that is already on the route. *)
LEMMA HopsAreNew ==
  ASSUME NEW t \in Thread, NEW m \in Hops(t)
  PROVE  m \notin NodesOn(req[t].route) /\ m # At(t)
BY DEF Hops, NextHops, Best, Eligible, Visited

(* Where a request stands still, so does what it owes to its client. *)
LEMMA RestingRequest ==
  ASSUME Discipline, RequestState, [Next]_vars, NEW u \in Thread,
         req'[u] = req[u], hop'[u] = hop[u], pc'[u] = "execute" => pc[u] = "execute",
         Forwarding(u)' => Forwarding(u)
  PROVE  RequestKept(u)' /\ RouteKept(u)'
<1>1. SUFFICES ASSUME Busy(u)
               PROVE  RequestKept(u)' /\ RouteKept(u)'
  BY DEF RequestKept, RouteKept, Busy
<1>2. RequestKept(u) /\ RouteKept(u)
  BY DEF RequestState
<1>3. pc[u] # "idle"
  BY <1>1 DEF Discipline, ThreadState, ThreadOK, Busy
<1>4. req[u].origin \in Client /\ req[u].route \in Seq(Node) /\ At(u) \in Node
  BY <1>3, RequestFacts, ThreadFacts
<1>5. asked'[req[u].origin] = asked[req[u].origin]
  BY <1>1, <1>2, <1>4, AskedMoves DEF RequestKept
<1>6. RequestKept(u)'
  BY <1>1, <1>2, <1>5 DEF RequestKept, Busy
<1>7. CASE (pc'[u] = "execute") <=> (pc[u] = "execute")
  <2>1. Trail(u)' = Trail(u)
    BY <1>7 DEF Trail, At
  <2> QED
    BY <1>1, <1>2, <1>6, <2>1 DEF RouteKept, Busy, At, NodesOn, Distinct, Along
<1>8. CASE pc[u] = "execute" /\ pc'[u] # "execute"
  <2>1. Trail(u) = Append(req[u].route, At(u)) /\ Trail(u)' = req[u].route
    BY <1>8 DEF Trail
  <2>2. ~Forwarding(u)'
    BY <1>8 DEF Forwarding
  <2>3. /\ Distinct(req[u].route) /\ Along(req[u].route)
        /\ req[u].route # <<>> => req[u].route[1] = Trail(u)[1]
    BY <1>1, <1>2, <1>4, <2>1, PathShrinks DEF RouteKept
  <2>4. Trail(u) # <<>>
    BY <1>4, <2>1
  <2> QED
    BY <1>1, <1>2, <1>6, <2>1, <2>2, <2>3, <2>4 DEF RouteKept, Busy, Distinct, Along
<1> QED
  BY <1>7, <1>8

(* A fresh request has gone nowhere yet. *)
LEMMA IssuedRequest ==
  ASSUME Discipline, NEW c \in Client, Issue(c)
  PROVE  RequestKept(c)' /\ RouteKept(c)'
<1>1. PICK k \in RouteKey \cup {NoKey}, b \in HopBudgets :
        /\ req'[c] = [origin |-> c, key |-> k, route |-> <<>>, budget |-> b]
        /\ asked'[c] = req'[c]
        /\ pc'[c] = "execute"
  BY ThreadFacts DEF Issue, Discipline, TypeOK
<1>2. req'[c] \in Request /\ req'[c] # NoRequest
  <2>1. k \in RouteKey \cup {NoKey} /\ b \in Nat /\ <<>> \in Seq(Node)
    BY MeshAssumption
  <2>2. [origin |-> c, key |-> k, route |-> <<>>, budget |-> b] \in Request
    BY <2>1 DEF Request
  <2> QED
    BY <1>1, <2>2, MeshAssumption
<1>3. req'[c].origin = c /\ req'[c].route = <<>> /\ req'[c].budget \in Nat
  BY <1>1, MeshAssumption
<1>4. At(c) = Entry[c] /\ At(c)' = At(c) /\ At(c) \in Node
  BY ThreadFacts DEF At
<1>5. Trail(c)' = Append(<<>>, At(c))
  BY <1>1, <1>3, <1>4 DEF Trail
<1>6. Distinct(Trail(c)') /\ Along(Trail(c)') /\ Trail(c)'[1] = At(c)
  <2>1. /\ <<>> \in Seq(Node) /\ Distinct(<<>>) /\ Along(<<>>) /\ At(c) \notin NodesOn(<<>>)
    BY DEF Distinct, Along, NodesOn
  <2>2. /\ Distinct(Append(<<>>, At(c))) /\ Along(Append(<<>>, At(c)))
        /\ Append(<<>>, At(c))[1] = At(c)
    BY <1>4, <2>1, PathGrows
  <2> QED
    BY <1>5, <2>2
<1>7. ~Forwarding(c)'
  BY <1>1 DEF Forwarding
<1>8. RequestKept(c)'
  BY <1>1, <1>2, <1>3, <1>7 DEF RequestKept
<1>9. RouteKept(c)'
  BY <1>3, <1>4, <1>6, <1>7 DEF RouteKept, Distinct, Along
<1> QED
  BY <1>8, <1>9

(* The gateway appends its node to the route and takes one off the budget. *)
LEMMA ExtendedRequest ==
  ASSUME Discipline, RequestState, NEW t \in Thread, ChooseHop(t)
  PROVE  RequestKept(t)' /\ RouteKept(t)'
<1>1. /\ pc[t] = "execute" /\ pc'[t] = "lock" /\ req[t].key # NoKey /\ req[t].budget # 0
      /\ req'[t] = Extended(t) /\ asked' = asked
  BY DEF ChooseHop, Executable, Discipline, TypeOK, clientVars
<1>2. PICK m \in Hops(t) : hop'[t] = m
  BY DEF ChooseHop, Discipline, TypeOK
<1>3. m \notin NodesOn(req[t].route) /\ m # At(t)
  BY HopsAreNew
<1>4. /\ req[t].route \in Seq(Node) /\ req[t].budget \in Nat /\ req[t] # NoRequest
      /\ At(t) \in Node /\ At(t)' = At(t)
  BY <1>1, RequestFacts, ThreadFacts DEF At
<1>5. RequestKept(t) /\ RouteKept(t) /\ Busy(t)
  BY <1>4 DEF RequestState, Busy
<1>6. /\ req'[t].origin = req[t].origin /\ req'[t].key = req[t].key
      /\ req'[t].route = Append(req[t].route, At(t)) /\ req'[t].budget = req[t].budget - 1
  BY <1>1 DEF Extended
<1>7. Len(req'[t].route) + req'[t].budget = Len(req[t].route) + req[t].budget
  <2>1. Len(req'[t].route) = Len(req[t].route) + 1 /\ Len(req[t].route) \in Nat
    BY <1>4, <1>6
  <2>2. \A n, b \in Nat : (n + 1) + (b - 1) = n + b
    OBVIOUS
  <2> QED
    BY <1>4, <1>6, <2>1, <2>2
<1>8. RequestKept(t)'
  BY <1>1, <1>5, <1>6, <1>7 DEF RequestKept
<1>9. Trail(t)' = Trail(t) /\ Trail(t) = Append(req[t].route, At(t))
  BY <1>1, <1>6 DEF Trail
<1>10. /\ Trail(t) # <<>> /\ Trail(t)[Len(Trail(t))] = At(t) /\ m \notin NodesOn(Trail(t))
  <2> DEFINE longer == Append(req[t].route, At(t))
  <2>1. /\ longer \in Seq(Node)
        /\ Len(longer) = Len(req[t].route) + 1 /\ Len(req[t].route) \in Nat
        /\ \A i \in 1 .. Len(req[t].route) : longer[i] = req[t].route[i]
        /\ longer[Len(req[t].route) + 1] = At(t)
    BY <1>4
  <2>2. DOMAIN longer = 1 .. Len(req[t].route) + 1
        /\ DOMAIN req[t].route = 1 .. Len(req[t].route)
    BY <1>4
  <2>3. longer # <<>>
    BY <2>1
  <2> HIDE DEF longer
  <2>4. m \notin NodesOn(longer)
    BY <1>3, <2>1, <2>2 DEF NodesOn
  <2>5. Trail(t) = longer
    BY <1>9 DEF longer
  <2> QED
    BY <2>1, <2>3, <2>4, <2>5
<1>11. RouteKept(t)'
  BY <1>2, <1>4, <1>5, <1>6, <1>9, <1>10 DEF RouteKept, Distinct, Along, NodesOn
<1> QED
  BY <1>8, <1>11

(* A connection thread takes over what the holder of its connection sent. *)
LEMMA ReceivedRequest ==
  ASSUME Discipline, RequestState, NEW l \in Link, Receive(l)
  PROVE  RequestKept(l)' /\ RouteKept(l)'
<1> DEFINE h == holder[l]
<1>1. /\ pc'[l] = "execute" /\ req'[l] = Head(inbox[l]) /\ asked' = asked /\ inbox[l] # <<>>
  BY ThreadFacts DEF Receive, Discipline, TypeOK, clientVars
<1>2. /\ h # NoThread /\ pc[h] = "recv" /\ req'[l] = req[h]
  <2>1. Awaited(l) /\ inbox[l] = <<req[h]>>
    BY <1>1 DEF Discipline, LinkState, LinkOK
  <2> QED
    BY <1>1, <2>1 DEF Awaited
<1>3. h \in Thread /\ Out(h) = l
  BY <1>2 DEF Discipline, TypeOK, LockDiscipline
<1>4. /\ req[h] # NoRequest /\ req[h].route \in Seq(Node) /\ req[h].origin \in Client
  BY <1>2, <1>3, RequestFacts
<1>5. RequestKept(h) /\ RouteKept(h) /\ Busy(h) /\ Forwarding(h)
  BY <1>2, <1>3, <1>4 DEF RequestState, Busy, Forwarding
<1>6. Trail(h) = req[h].route /\ At(h) = l[1] /\ hop[h] = l[2]
  BY <1>2, <1>3 DEF Trail, Out
<1>7. At(l) = l[2] /\ At(l)' = l[2] /\ l[2] \in Node /\ l = <<l[1], l[2]>>
  BY <1>3, ThreadFacts DEF At, Out
<1>8. Trail(l)' = Append(req[h].route, l[2])
  BY <1>1, <1>2, <1>7 DEF Trail
<1>9. /\ Distinct(Trail(l)') /\ Along(Trail(l)') /\ Trail(l)'[1] = req[h].route[1]
  <2>1. /\ Distinct(req[h].route) /\ Along(req[h].route) /\ l[2] \notin NodesOn(req[h].route)
        /\ req[h].route # <<>> /\ <<req[h].route[Len(req[h].route)], l[2]>> \in Link
    BY <1>5, <1>6, <1>7 DEF RouteKept
  <2> QED
    BY <1>4, <1>7, <1>8, <2>1, PathGrows
<1>10. ~Forwarding(l)'
  BY <1>1 DEF Forwarding
<1>11. RequestKept(l)'
  BY <1>1, <1>2, <1>5, <1>10 DEF RequestKept
<1>12. RouteKept(l)'
  BY <1>2, <1>5, <1>6, <1>9, <1>10 DEF RouteKept, Distinct, Along
<1> QED
  BY <1>11, <1>12

(* Every step keeps every request: the induction step. *)
LEMMA NextRequestState ==
  ASSUME Discipline, RequestState, [Next]_vars
  PROVE  RequestState'
<1>1. ASSUME NEW u \in Thread
      PROVE  RequestKept(u)' /\ RouteKept(u)'
  <2>1. CASE req'[u] = NoRequest
    BY <2>1 DEF RequestKept, RouteKept, Busy
  <2> QED
    BY <2>1, RequestMoves, RestingRequest, IssuedRequest, ExtendedRequest, ReceivedRequest
<1> QED
  BY <1>1 DEF RequestState

(* Requests are kept in every reachable state. *)
THEOREM MeshRequestsKept == Spec => []RequestState
<1>1. Init => RequestState
  BY DEF Init, RequestState, RequestKept, RouteKept, Busy
<1>2. Discipline /\ RequestState /\ [Next]_vars => RequestState'
  BY NextRequestState
<1> QED
  BY <1>1, <1>2, MeshDiscipline, PTL DEF Spec

(* Loop prevention, gateway.cpp: the route a request carries is a simple    *)
(* path over links of the topology from the client's entry node to the node *)
(* that works on it, the next hop is not on it, every hop has spent one of  *)
(* the client's budget, and the statement is the one the client asked;      *)
(* through any feedback, retry and stop.                                    *)
THEOREM MeshRouteIsPath == Spec => []RouteIsPath
<1>1. RequestState => RouteIsPath
  <2>1. \A t \in Thread : Holding(t) => Forwarding(t)
    BY DEF Holding, Forwarding
  <2> QED
    BY <2>1 DEF RequestState, RequestKept, RouteKept, RouteIsPath
<1> QED
  BY <1>1, MeshRequestsKept, PTL

----------------------------------------------------------------------------
(* What the mesh promises its clients: it implements QueryService, and      *)
(* while no server stops a statement runs exactly once.                     *)

(* What a client can see changes in three ways only. *)
LEMMA ClientViewMoves ==
  ASSUME [Next]_vars
  PROVE  \/ \E c \in Client : Issue(c)
         \/ \E t \in Thread : ExecuteLocally(t)
         \/ \E c \in Client : ReturnToClient(c)
         \/ UNCHANGED <<asked, answer, execs>>
<1>1. ASSUME NEW t \in Thread, ThreadStep(t), ~ExecuteLocally(t),
             ~(t \in Client /\ ReturnToClient(t))
      PROVE  UNCHANGED <<asked, answer, execs>>
  <2>1. CASE GatewayStep(t)
    BY <1>1, <2>1 DEF GatewayStep, RefuseStatement, RefuseExhausted, Return, ChooseHop,
       Observe, clientVars
  <2>2. CASE ForwarderStep(t)
    BY <2>2 DEF ForwarderStep, UnknownPeer, LockConnection, Connect, ConnectFailed, Send,
       ExchangeFailed, Drop, RecvResponse, Retry, Unlock, clientVars
  <2> QED
    BY <1>1, <2>1, <2>2 DEF ThreadStep, ReturnToPeer, Receive, LoseFrame, Finish, clientVars
<1>2. ASSUME NEW n \in Node, StopServer(n) \/ ServerStep(n) \/ StartServer(n) \/ Evaporate(n)
      PROVE  UNCHANGED <<asked, answer, execs>>
  BY <1>2 DEF StopServer, ServerStep, CloseConnections, JoinThreads, StartServer, Evaporate,
     clientVars
<1> QED
  BY <1>1, <1>2 DEF Next, vars, clientVars

(* Executors do not undo a run. *)
LEMMA ExecsGrow ==
  ASSUME Discipline, [Next]_vars
  PROVE  \A c \in Client : execs[c] \in Nat /\ execs'[c] \in Nat /\ execs'[c] >= execs[c]
<1>1. \A c \in Client : execs[c] \in Nat
  BY DEF Discipline, TypeOK
<1>2. CASE \E c \in Client : Issue(c) \/ ReturnToClient(c)
  BY <1>1, <1>2 DEF Issue, ReturnToClient, Finish
<1>3. CASE \E t \in Thread : ExecuteLocally(t)
  BY <1>1, <1>3 DEF ExecuteLocally, Discipline, TypeOK
<1> QED
  BY <1>1, <1>2, <1>3, ClientViewMoves

(* An idle client that moves issues its request. *)
LEMMA ClientMoves ==
  ASSUME Discipline, [Next]_vars, NEW c \in Client, pc[c] = "idle"
  PROVE  pc'[c] = "idle" \/ Issue(c)
<1>1. c \in Thread /\ c \notin Link /\ req[c] = NoRequest
  BY ThreadFacts DEF Discipline, ThreadState, ThreadOK
<1>2. req'[c] = NoRequest \/ Issue(c)
  BY <1>1, RequestMoves DEF ChooseHop, Executable
<1>3. Discipline'
  BY NextDiscipline
<1> QED
  BY <1>1, <1>2, <1>3 DEF Discipline, ThreadState, ThreadOK

(* A client is quiet until it asks and after it is answered. *)
LEMMA NextClientState ==
  ASSUME Discipline, RequestState, ClientState, [Next]_vars
  PROVE  ClientState'
<1> SUFFICES ASSUME NEW c \in Client
             PROVE  /\ asked'[c] = NoRequest
                         => pc'[c] = "idle" /\ answer'[c] = NoResponse /\ execs'[c] = 0
                    /\ Answered(c)' => pc'[c] = "idle"
  BY DEF ClientState
<1>0. TypeOK /\ c \in Thread
  BY ThreadFacts DEF Discipline
<1>1. CASE Issue(c)
  <2>1. asked'[c] # NoRequest
    <3>1. RequestKept(c)' /\ req'[c] # NoRequest /\ req'[c].origin = c
      <4>1. Discipline' /\ RequestState' /\ pc'[c] = "execute"
        BY <1>0, <1>1, NextDiscipline, NextRequestState DEF Issue, TypeOK
      <4> QED
        BY <1>0, <4>1 DEF Discipline, ThreadState, ThreadOK, RequestState
    <3> QED
      BY <3>1 DEF RequestKept, Busy
  <2>2. ~Answered(c)'
    BY <1>1 DEF ClientState, Issue, Answered
  <2> QED
    BY <2>1, <2>2
<1>2. CASE ReturnToClient(c)
  <2>1. pc'[c] = "idle" /\ asked' = asked
    BY <1>0, <1>2 DEF ReturnToClient, Finish, TypeOK
  <2>2. asked[c] # NoRequest
    BY <1>2 DEF ClientState, ReturnToClient
  <2> QED
    BY <2>1, <2>2
<1>3. CASE ~Issue(c) /\ ~ReturnToClient(c)
  <2>1. asked'[c] = asked[c]
    BY <1>3, AskedMoves
  <2>2. answer'[c] = answer[c]
    BY <1>0, <1>3, ClientViewMoves DEF TypeOK, Issue, ExecuteLocally, Return, ReturnToClient,
       clientVars
  <2>3. asked[c] = NoRequest => execs'[c] = execs[c]
    <3>1. ASSUME NEW t \in Thread, ExecuteLocally(t), asked[c] = NoRequest
          PROVE  execs'[c] = execs[c]
      <4>1. pc[t] = "execute" /\ execs' = [execs EXCEPT ![req[t].origin] = @ + 1]
        BY <3>1 DEF ExecuteLocally, Executable
      <4>2. req[t] # NoRequest /\ RequestKept(t)
        BY <4>1, RequestFacts DEF RequestState
      <4>3. req[t].origin # c
        BY <3>1, <4>2 DEF RequestKept, Busy
      <4> QED
        BY <1>0, <4>1, <4>3 DEF TypeOK
    <3> QED
      BY <3>1, ClientViewMoves DEF Issue, ReturnToClient, Finish
  <2>4. pc[c] = "idle" => pc'[c] = "idle"
    BY <1>3, ClientMoves
  <2> QED
    BY <2>1, <2>2, <2>3, <2>4 DEF ClientState, Answered
<1> QED
  BY <1>1, <1>2, <1>3

--------------------------------------------------------------------------------
(* A thread gets a response by making it up or by receiving it. *)
LEMMA ResponseMoves ==
  ASSUME Discipline, [Next]_vars, NEW u \in Thread
  PROVE  \/ resp'[u] = resp[u]
         \/ resp'[u] = NoResponse
         \/ RefuseStatement(u)
         \/ RefuseExhausted(u)
         \/ ExecuteLocally(u)
         \/ Forwarding(u) /\ resp'[u] = Reply(u, "ShardUnavailable") /\ asked' = asked
         \/ RecvResponse(u)
<1>0. TypeOK
  BY DEF Discipline
<1> DEFINE Goal == \/ resp'[u] = resp[u]
                   \/ resp'[u] = NoResponse
                   \/ RefuseStatement(u)
                   \/ RefuseExhausted(u)
                   \/ ExecuteLocally(u)
                   \/ Forwarding(u) /\ resp'[u] = Reply(u, "ShardUnavailable") /\ asked' = asked
                   \/ RecvResponse(u)
<1>1. ASSUME NEW t \in Thread, GatewayStep(t)
      PROVE  Goal
  <2>1. ASSUME t # u
        PROVE  resp'[u] = resp[u]
    BY <1>0, <1>1, <2>1 DEF TypeOK, GatewayStep, RefuseStatement, RefuseExhausted, ExecuteLocally,
       Return, ChooseHop, Observe
  <2>2. CASE t = u /\ (ChooseHop(t) \/ Observe(t))
    BY <2>2 DEF ChooseHop, Observe
  <2> QED
    BY <1>1, <2>1, <2>2 DEF GatewayStep
<1>2. ASSUME NEW t \in Thread, ForwarderStep(t)
      PROVE  Goal
  <2>1. ASSUME t # u
        PROVE  resp'[u] = resp[u]
    BY <1>0, <1>2, <2>1 DEF TypeOK, ForwarderStep, UnknownPeer, LockConnection, Connect,
       ConnectFailed, Send, ExchangeFailed, Drop, RecvResponse, Retry, Unlock, threadVars
  <2>2. CASE UnknownPeer(t) \/ ConnectFailed(t) \/ ExchangeFailed(t)
    BY <1>0, <2>1, <2>2 DEF TypeOK, UnknownPeer, ConnectFailed, ExchangeFailed, Drop, Forwarding,
       clientVars
  <2>3. CASE LockConnection(t) \/ Connect(t) \/ Send(t) \/ Unlock(t)
    BY <2>3 DEF LockConnection, Connect, Send, Unlock, threadVars
  <2>4. CASE Retry(t)
    BY <1>0, <2>1, <2>4 DEF TypeOK, Retry
  <2> QED
    BY <1>2, <2>1, <2>2, <2>3, <2>4 DEF ForwarderStep
<1>3. ASSUME NEW t \in Thread, Finish(t)
      PROVE  Goal
  BY <1>0, <1>3 DEF TypeOK, Finish
<1>4. ASSUME NEW l \in Link, Receive(l) \/ LoseFrame(l)
      PROVE  Goal
  BY <1>4 DEF Receive, LoseFrame, threadVars
<1>5. ASSUME NEW c \in Client, Issue(c)
      PROVE  Goal
  BY <1>5 DEF Issue
<1>6. ASSUME NEW n \in Node, StopServer(n) \/ ServerStep(n) \/ StartServer(n) \/ Evaporate(n)
      PROVE  Goal
  BY <1>6 DEF StopServer, ServerStep, CloseConnections, JoinThreads, StartServer, Evaporate,
     threadVars
<1>7. ASSUME UNCHANGED vars
      PROVE  Goal
  BY <1>7 DEF vars, threadVars
<1> HIDE DEF Goal
<1>8. Goal
  BY <1>1, <1>2, <1>3, <1>4, <1>5, <1>6, <1>7 DEF Next, ThreadStep, ReturnToClient, ReturnToPeer
<1> QED
  BY <1>8 DEF Goal

(* A response is on its way back alone. *)
LEMMA OutboxMoves ==
  ASSUME Discipline, [Next]_vars, NEW l \in Link
  PROVE  \/ outbox'[l] = outbox[l]
         \/ outbox'[l] = <<>>
         \/ /\ l \in Thread /\ pc[l] = "return" /\ resp[l] # NoResponse /\ Open(l)
            /\ outbox'[l] = <<resp[l]>> /\ UNCHANGED <<asked, execs>>
<1>0. TypeOK
  BY DEF Discipline
<1> DEFINE Goal == \/ outbox'[l] = outbox[l]
                   \/ outbox'[l] = <<>>
                   \/ /\ l \in Thread /\ pc[l] = "return" /\ resp[l] # NoResponse /\ Open(l)
                      /\ outbox'[l] = <<resp[l]>> /\ UNCHANGED <<asked, execs>>
<1>1. ASSUME NEW t \in Thread, GatewayStep(t)
      PROVE  Goal
  BY <1>1 DEF GatewayStep, RefuseStatement, RefuseExhausted, ExecuteLocally, Return, ChooseHop,
     Observe, linkVars
<1>2. ASSUME NEW t \in Thread, ForwarderStep(t)
      PROVE  Goal
  <2>1. CASE UnknownPeer(t) \/ LockConnection(t) \/ Connect(t) \/ Send(t) \/ Retry(t) \/ Unlock(t)
    BY <2>1 DEF UnknownPeer, LockConnection, Connect, Send, Retry, Unlock, linkVars
  <2>2. CASE ConnectFailed(t) \/ ExchangeFailed(t)
    BY <1>0, <2>2 DEF TypeOK, ConnectFailed, ExchangeFailed, Drop
  <2>3. CASE RecvResponse(t)
    <3>1. outbox' = [outbox EXCEPT ![Out(t)] = Tail(@)] /\ outbox[Out(t)] # <<>>
      BY <2>3 DEF RecvResponse
    <3>2. CASE Out(t) = l
      <4>1. PICK r \in Response : outbox[l] = <<r>>
        BY <3>1, <3>2 DEF Discipline, LinkState, LinkOK
      <4>2. Tail(<<r>>) = <<>>
        OBVIOUS
      <4> QED
        BY <1>0, <3>1, <3>2, <4>1, <4>2 DEF TypeOK
    <3>3. CASE Out(t) # l
      BY <1>0, <3>1, <3>3 DEF TypeOK
    <3> QED
      BY <3>2, <3>3
  <2> QED
    BY <1>2, <2>1, <2>2, <2>3 DEF ForwarderStep
<1>3. ASSUME NEW k \in Link, ReturnToPeer(k)
      PROVE  Goal
  <2>1. CASE k # l
    BY <1>0, <1>3, <2>1 DEF TypeOK, ReturnToPeer
  <2>2. CASE k = l /\ outbox'[l] # outbox[l]
    <3>1. /\ sock[l] = "live" /\ pc[l] = "return"
          /\ outbox'[l] = Append(outbox[l], resp[l]) /\ UNCHANGED <<asked, execs>>
      BY <1>0, <1>3, <2>2 DEF TypeOK, ReturnToPeer, Finish, clientVars
    <3>2. l \in Thread /\ Busy(l) /\ resp[l] # NoResponse
      BY <3>1, ThreadFacts DEF Discipline, ThreadState, ThreadOK, Busy
    <3>3. outbox[l] = <<>>
      BY <3>1, <3>2 DEF Discipline, LinkState, LinkOK, Open
    <3>4. Append(<<>>, resp[l]) = <<resp[l]>>
      OBVIOUS
    <3>5. Open(l)
      BY <3>1 DEF Open
    <3> QED
      BY <3>1, <3>2, <3>3, <3>4, <3>5
  <2> QED
    BY <2>1, <2>2
<1>4. ASSUME NEW c \in Client, Issue(c) \/ ReturnToClient(c)
      PROVE  Goal
  BY <1>4 DEF Issue, ReturnToClient, linkVars
<1>5. ASSUME NEW k \in Link, Receive(k) \/ LoseFrame(k)
      PROVE  Goal
  BY <1>5 DEF Receive, LoseFrame
<1>6. ASSUME NEW n \in Node, StopServer(n) \/ ServerStep(n) \/ StartServer(n) \/ Evaporate(n)
      PROVE  Goal
  BY <1>6 DEF StopServer, ServerStep, CloseConnections, JoinThreads, StartServer, Evaporate,
     linkVars
<1>7. ASSUME UNCHANGED vars
      PROVE  Goal
  BY <1>7 DEF vars, linkVars
<1> HIDE DEF Goal
<1>8. Goal
  BY <1>1, <1>2, <1>3, <1>4, <1>5, <1>6, <1>7 DEF Next, ThreadStep
<1> QED
  BY <1>8 DEF Goal

(* What is true of a statement that was asked stays true. *)
LEMMA TruthLasts ==
  ASSUME Discipline, [Next]_vars
  PROVE  \A r \in Response : Truthful(r) /\ asked[r.origin] # NoRequest => Truthful(r)'
<1> SUFFICES ASSUME NEW r \in Response, Truthful(r), asked[r.origin] # NoRequest
             PROVE  Truthful(r)'
  OBVIOUS
<1>1. r.origin \in Client
  BY DEF Response
<1>2. asked'[r.origin] = asked[r.origin]
  BY <1>1, AskedMoves
<1>3. execs[r.origin] \in Nat /\ execs'[r.origin] \in Nat /\ execs'[r.origin] >= execs[r.origin]
  BY <1>1, ExecsGrow
<1> QED
  BY <1>2, <1>3 DEF Truthful

(* The response of a thread and of a connection belongs to an asked request.*)
LEMMA ResponseFacts ==
  ASSUME Discipline, RequestState
  PROVE  /\ \A t \in Thread : resp[t] # NoResponse =>
              resp[t] \in Response /\ asked[resp[t].origin] # NoRequest
         /\ \A l \in Link : outbox[l] # <<>> =>
              Head(outbox[l]) \in Response /\ asked[Head(outbox[l]).origin] # NoRequest
<1>1. ASSUME NEW t \in Thread, resp[t] # NoResponse
      PROVE  resp[t] \in Response /\ asked[resp[t].origin] # NoRequest
  <2>1. /\ resp[t] \in Response /\ resp[t].origin = req[t].origin /\ Busy(t)
    BY <1>1 DEF Discipline, TypeOK, ThreadState, ThreadOK, Busy
  <2> QED
    BY <2>1 DEF RequestState, RequestKept
<1>2. ASSUME NEW l \in Link, outbox[l] # <<>>
      PROVE  Head(outbox[l]) \in Response /\ asked[Head(outbox[l]).origin] # NoRequest
  <2>1. Awaited(l) /\ \E r \in Response : outbox[l] = <<r>> /\ r.origin = req[holder[l]].origin
    BY <1>2 DEF Discipline, LinkState, LinkOK
  <2>2. PICK r \in Response : outbox[l] = <<r>> /\ r.origin = req[holder[l]].origin
    BY <2>1
  <2>3. Head(outbox[l]) = r
    BY <2>2
  <2>4. holder[l] \in Thread /\ Busy(holder[l])
    BY <2>1 DEF Discipline, TypeOK, ThreadState, ThreadOK, Awaited, Busy
  <2> QED
    BY <2>2, <2>3, <2>4 DEF RequestState, RequestKept
<1> QED
  BY <1>1, <1>2

(* A gateway tells the truth about the statement it works on. *)
LEMMA ReplyIsTruthful ==
  ASSUME Discipline, RequestState, NEW t \in Thread, pc[t] # "idle", asked' = asked,
         NEW status \in Status,
         status \in {"Ok", "ExecutionError"} => execs'[req[t].origin] > 0,
         status = "UnsupportedSql" <=> req[t].key = NoKey
  PROVE  \A r \in Response : r = Reply(t, status) => Truthful(r)'
<1> SUFFICES ASSUME NEW r \in Response, r = Reply(t, status)
             PROVE  Truthful(r)'
  OBVIOUS
<1>1. RequestKept(t) /\ Busy(t)
  BY RequestFacts DEF RequestState, Busy
<1>2. r.origin = req[t].origin /\ r.status = status
  BY DEF Reply
<1>3. asked'[req[t].origin].key = req[t].key
  BY <1>1 DEF RequestKept
<1> QED
  BY <1>2, <1>3 DEF Truthful

(* Every step leaves true responses: the induction step. *)
LEMMA NextResponseState ==
  ASSUME Discipline, RequestState, ResponseState, [Next]_vars
  PROVE  ResponseState'
<1>0. TypeOK
  BY DEF Discipline
<1>1. ASSUME NEW u \in Thread, resp'[u] # NoResponse
      PROVE  Truthful(resp[u])'
  <2>0. resp'[u] \in Response
    <3>1. TypeOK'
      BY NextDiscipline DEF Discipline
    <3> QED
      BY <1>1, <3>1 DEF TypeOK
  <2>1. CASE resp'[u] = resp[u]
    BY <1>1, <2>0, <2>1, TruthLasts, ResponseFacts DEF ResponseState, Truthful
  <2>2. ASSUME NEW status \in Status, pc[u] = "execute", Return(u, status),
               status \in {"Ok", "ExecutionError"} => execs'[req[u].origin] > 0,
               status = "UnsupportedSql" <=> req[u].key = NoKey
        PROVE  Truthful(resp[u])'
    <3>1. resp'[u] = Reply(u, status) /\ asked' = asked
      BY <1>0, <2>2 DEF TypeOK, Return, clientVars
    <3> QED
      BY <2>0, <2>2, <3>1, ReplyIsTruthful DEF Truthful
  <2>3. CASE RefuseStatement(u)
    BY <2>2, <2>3 DEF RefuseStatement, Status
  <2>4. CASE RefuseExhausted(u)
    BY <2>2, <2>4 DEF RefuseExhausted, Status
  <2>5. CASE ExecuteLocally(u)
    <3>1. PICK status \in ExecutorStatus : Return(u, status)
      BY <2>5 DEF ExecuteLocally
    <3>2. /\ pc[u] = "execute" /\ req[u].key # NoKey
          /\ execs' = [execs EXCEPT ![req[u].origin] = @ + 1]
      BY <2>5 DEF ExecuteLocally, Executable
    <3>3. req[u].origin \in Client
      BY <3>2, RequestFacts
    <3>4. execs'[req[u].origin] > 0
      BY <1>0, <3>2, <3>3 DEF TypeOK
    <3>5. status \in Status /\ status # "UnsupportedSql"
      BY ExecutorAssumption DEF Status
    <3> QED
      BY <2>2, <3>1, <3>2, <3>4, <3>5
  <2>6. CASE Forwarding(u) /\ resp'[u] = Reply(u, "ShardUnavailable") /\ asked' = asked
    <3>1. pc[u] # "idle" /\ req[u].key # NoKey
      <4>1. pc[u] # "idle"
        BY <2>6 DEF Forwarding
      <4>2. Busy(u) /\ RequestKept(u)
        BY <4>1, RequestFacts DEF Busy, RequestState
      <4> QED
        BY <2>6, <4>1, <4>2 DEF RequestKept
    <3>2. "ShardUnavailable" \in Status
      BY DEF Status
    <3> QED
      BY <2>0, <2>6, <3>1, <3>2, ReplyIsTruthful DEF Truthful
  <2>7. CASE RecvResponse(u)
    <3>1. /\ outbox[Out(u)] # <<>> /\ resp'[u] = Head(outbox[Out(u)])
      BY <1>0, <2>7 DEF TypeOK, RecvResponse
    <3>2. Out(u) \in Link
      BY <2>7 DEF Discipline, ThreadState, ThreadOK, RecvResponse
    <3> QED
      BY <2>0, <3>1, <3>2, TruthLasts, ResponseFacts DEF ResponseState, Truthful
  <2> QED
    BY <1>1, <2>1, <2>3, <2>4, <2>5, <2>6, <2>7, ResponseMoves
<1>2. ASSUME NEW l \in Link, outbox'[l] # <<>>
      PROVE  Truthful(Head(outbox[l]))'
  <2>1. CASE outbox'[l] = outbox[l]
    BY <1>2, <2>1, TruthLasts, ResponseFacts DEF ResponseState, Truthful
  <2>2. CASE l \in Thread /\ resp[l] # NoResponse /\ outbox'[l] = <<resp[l]>>
    <3>1. Head(outbox'[l]) = resp[l]
      BY <2>2
    <3> QED
      BY <2>2, <3>1, TruthLasts, ResponseFacts DEF ResponseState, Truthful
  <2> QED
    BY <1>2, <2>1, <2>2, OutboxMoves
<1> QED
  BY <1>1, <1>2 DEF ResponseState

(* The whole account is kept in every reachable state. *)
THEOREM MeshAccount == Spec => []Account
<1>1. Init => ClientState /\ ResponseState
  BY ThreadFacts DEF Init, ClientState, ResponseState, Answered
<1>2. /\ Discipline /\ RequestState /\ ClientState /\ ResponseState /\ [Next]_vars
      => ClientState' /\ ResponseState'
  BY NextClientState, NextResponseState
<1>3. Discipline /\ RequestState /\ ClientState /\ ResponseState => Account
  BY DEF Account
<1> QED
  BY <1>1, <1>2, <1>3, MeshDiscipline, MeshRequestsKept, PTL DEF Spec

--------------------------------------------------------------------------------
(* Seen from the clients, nothing has happened in the beginning. *)
LEMMA InitService ==
  ASSUME Init
  PROVE  Service!Init
BY DEF Init, Service!Init

(* Seen from the clients, a step of the mesh is a step of the service. *)
LEMMA NextService ==
  ASSUME Account, [Next]_vars
  PROVE  [Service!Next]_(Service!svars)
<1>0. TypeOK /\ Discipline /\ RequestState /\ ClientState /\ ResponseState
  BY DEF Account, Discipline
<1>1. ASSUME NEW c \in Client, Issue(c)
      PROVE  Service!Next
  <2>1. /\ asked[c] = NoRequest /\ answer[c] = NoResponse /\ UNCHANGED <<answer, execs>>
    BY <1>0, <1>1 DEF ClientState, Issue
  <2>2. PICK r : r # NoRequest /\ asked' = [asked EXCEPT ![c] = r]
    <3>1. ASSUME NEW k \in RouteKey \cup {NoKey}, NEW b \in HopBudgets
          PROVE  [origin |-> c, key |-> k, route |-> <<>>, budget |-> b] # NoRequest
      <4>1. k \in RouteKey \cup {NoKey} /\ b \in Nat /\ <<>> \in Seq(Node)
        BY MeshAssumption
      <4>2. [origin |-> c, key |-> k, route |-> <<>>, budget |-> b] \in Request
        BY <4>1 DEF Request
      <4> QED
        BY <4>2, MeshAssumption
    <3> QED
      BY <1>1, <3>1 DEF Issue
  <2>3. Service!Ask(c)
    BY <1>0, <2>1, <2>2 DEF Service!Ask, TypeOK
  <2> QED
    BY <2>3 DEF Service!Next
<1>2. ASSUME NEW t \in Thread, ExecuteLocally(t)
      PROVE  Service!Next
  <2>1. /\ pc[t] = "execute" /\ req[t].key # NoKey /\ UNCHANGED <<asked, answer>>
        /\ execs' = [execs EXCEPT ![req[t].origin] = @ + 1]
    BY <1>2 DEF ExecuteLocally, Executable, Return, clientVars
  <2>2. req[t].origin \in Client /\ Busy(t) /\ RequestKept(t)
    BY <1>0, <2>1, RequestFacts DEF Busy, RequestState
  <2>3. asked[req[t].origin] # NoRequest /\ asked[req[t].origin].key # NoKey
    BY <2>1, <2>2 DEF RequestKept
  <2>4. Service!Run(req[t].origin)
    BY <1>0, <2>1, <2>2, <2>3 DEF Service!Run, TypeOK
  <2> QED
    BY <2>2, <2>4 DEF Service!Next
<1>3. ASSUME NEW c \in Client, ReturnToClient(c)
      PROVE  Service!Next
  <2>1. /\ pc[c] = "return" /\ answer' = [answer EXCEPT ![c] = resp[c].status]
        /\ UNCHANGED <<asked, execs>>
    BY <1>3 DEF ReturnToClient, Finish
  <2>2. asked[c] # NoRequest /\ answer[c] = NoResponse
    BY <1>0, <2>1 DEF ClientState, Answered
  <2>3. /\ resp[c] \in Response /\ resp[c].origin = c /\ Truthful(resp[c])
    <3>1. c \in Thread /\ resp[c] # NoResponse
      BY <1>0, <2>1, ThreadFacts DEF Discipline, ThreadState, ThreadOK
    <3> QED
      BY <1>0, <2>1, <3>1 DEF Discipline, TypeOK, ThreadState, ThreadOK, ResponseState
  <2>4. resp[c].status \in Status /\ resp[c].status # NoResponse
    BY <2>3, MeshAssumption DEF Response
  <2>5. resp[c].status \in {"Ok", "ExecutionError"} => execs[c] > 0
    BY <2>3 DEF Truthful
  <2>6. resp[c].status = "UnsupportedSql" <=> asked[c].key = NoKey
    BY <2>3 DEF Truthful
  <2>7. Service!Answer(c)
    BY <1>0, <2>1, <2>2, <2>4, <2>5, <2>6
    DEF Service!Answer, Service!Verdict, Service!TransportFailure, Status, TypeOK
  <2> QED
    BY <2>7 DEF Service!Next
<1>4. CASE UNCHANGED <<asked, answer, execs>>
  BY <1>4 DEF Service!svars
<1> QED
  BY <1>1, <1>2, <1>3, <1>4, ClientViewMoves

(* The mesh implements the service it promises its clients: however queries *)
(* are routed, retried and cut off by servers that stop, a client is        *)
(* answered once, with an executor's verdict only if one ran its statement, *)
(* and with UnsupportedSql exactly if the statement cannot be routed, in    *)
(* which case it never runs.                                                *)
THEOREM MeshImplementsService == Spec => ImplementsService
<1>1. Init => Service!Init
  BY InitService
<1>2. Account /\ [Next]_vars => [Service!Next]_(Service!svars)
  BY NextService
<1> QED
  BY <1>1, <1>2, MeshAccount, PTL DEF Spec, ImplementsService, Service!Spec

--------------------------------------------------------------------------------
(* Where a tip u of the next state comes from: it was one, or took over     *)
(* from the thread v that sent to it or that it waited for; and whether its *)
(* statement has run is the same, or it is just being run.                  *)
Follows(u, v) ==
  /\ Tip(v) /\ req'[u].origin = req[v].origin
  /\ \/ v = u
     \/ ~Tip(v)' /\ pc[v] = "recv" /\ Out(v) = u
     \/ ~Tip(v)' /\ pc[v] = "return" /\ pc[u] = "recv" /\ Out(u) = v
  /\ \/ (Decided(u)' <=> Decided(v)) /\ execs'[req[v].origin] = execs[req[v].origin]
     \/ /\ ~Decided(v) /\ Decided(u)'
        /\ execs'[req[v].origin] = execs[req[v].origin] + 1

(* A step of a thread that waits for no handler moves no other tip. *)
LEMMA TipStays ==
  ASSUME Discipline, NEW t \in Thread, NEW u \in Thread, Tip(u)',
         \A x \in Thread \ {t} : /\ req'[x] = req[x] /\ pc'[x] = pc[x]
                                 /\ hop'[x] = hop[x] /\ resp'[x] = resp[x],
         Busy(t), Busy(t)', req'[t].origin = req[t].origin, pc[t] # "recv", outbox' = outbox
  PROVE  /\ Tip(u) /\ req'[u].origin = req[u].origin
         /\ u # t => (Decided(u)' <=> Decided(u))
<1>1. \A x \in Thread : Busy(x)' <=> Busy(x)
  BY DEF Busy
<1>2. CASE u = t
  BY <1>2 DEF Tip
<1>3. CASE u # t
  <2>1. Out(u)' = Out(u)
    BY <1>3 DEF Out, At
  <2>2. pc[u] = "recv" => Out(u) \in Thread
    BY ThreadFacts DEF Discipline, ThreadState, ThreadOK
  <2> QED
    BY <1>1, <1>3, <2>1, <2>2 DEF Tip, Decided
<1> QED
  BY <1>2, <1>3

(* What a gateway does to the tips. *)
LEMMA GatewayTips ==
  ASSUME Discipline, RequestState, OnlyTip, NEW t \in Thread, GatewayStep(t),
         NEW u \in Thread, Tip(u)'
  PROVE  Follows(u, u)
<1>0. TypeOK
  BY DEF Discipline
<1>1. /\ pc[t] # "idle" /\ pc[t] # "recv" /\ Busy(t) /\ req[t].origin \in Client
  BY RequestFacts DEF GatewayStep, RefuseStatement, RefuseExhausted, ExecuteLocally, Executable,
     ChooseHop, Observe, Busy
<1>2. ASSUME ~ChooseHop(t)
      PROVE  req' = req /\ hop' = hop
  BY <1>2 DEF GatewayStep, RefuseStatement, RefuseExhausted, ExecuteLocally, Return, Observe
<1>3. Busy(t)' /\ req'[t].origin = req[t].origin
  <2>1. CASE ChooseHop(t)
    <3>1. req'[t] = Extended(t)
      BY <1>0, <2>1 DEF TypeOK, ChooseHop
    <3>2. Extended(t) \in Request
      BY <2>1, RequestFacts, ThreadFacts DEF Extended, Request, ChooseHop, Executable
    <3>3. Extended(t) # NoRequest
      BY <3>2, MeshAssumption
    <3>4. Extended(t).origin = req[t].origin
      BY DEF Extended
    <3> QED
      BY <3>1, <3>3, <3>4 DEF Busy
  <2> QED
    BY <1>1, <1>2, <2>1 DEF Busy
<1>4. \A x \in Thread \ {t} : /\ req'[x] = req[x] /\ pc'[x] = pc[x]
                              /\ hop'[x] = hop[x] /\ resp'[x] = resp[x]
  BY <1>0 DEF TypeOK, GatewayStep, RefuseStatement, RefuseExhausted, ExecuteLocally, Return,
     ChooseHop, Observe
<1>5. outbox' = outbox
  BY DEF GatewayStep, RefuseStatement, RefuseExhausted, ExecuteLocally, Return, ChooseHop,
     Observe, linkVars
<1>6. /\ Tip(u) /\ req'[u].origin = req[u].origin
      /\ u # t => (Decided(u)' <=> Decided(u))
  BY <1>1, <1>3, <1>4, <1>5, TipStays
<1>7. CASE ExecuteLocally(t)
  <2>1. /\ pc[t] = "execute" /\ pc'[t] = "return"
        /\ execs' = [execs EXCEPT ![req[t].origin] = @ + 1]
    BY <1>0, <1>7 DEF TypeOK, ExecuteLocally, Executable, Return
  <2>2. req[u].origin \in Client
    <3>1. pc[u] # "idle"
      BY <1>6 DEF Tip, Busy, Discipline, ThreadState, ThreadOK
    <3> QED
      BY <3>1, RequestFacts
  <2>3. CASE u # t
    <3>1. execs'[req[u].origin] = execs[req[u].origin] \/ req[u].origin = req[t].origin
      BY <1>0, <1>1, <2>1, <2>2 DEF TypeOK
    <3>2. req[u].origin # req[t].origin
      BY <1>1, <1>6, <2>3 DEF OnlyTip, Tip
    <3> QED
      BY <1>6, <2>3, <3>1, <3>2 DEF Follows
  <2>4. CASE u = t
    <3>1. ~Decided(t)
      BY <2>1 DEF Decided, Discipline, ThreadState, ThreadOK
    <3>2. Decided(t)'
      <4>1. PICK status \in ExecutorStatus : resp' = [resp EXCEPT ![t] = Reply(t, status)]
        BY <1>7 DEF ExecuteLocally, Return
      <4>2. Reply(t, status) # NoResponse /\ Reply(t, status).status = status
        BY <1>1, ReplyFacts, MeshAssumption
      <4> QED
        BY <1>0, <4>1, <4>2 DEF TypeOK, Decided
    <3> QED
      BY <1>0, <1>1, <1>6, <2>1, <2>4, <3>1, <3>2 DEF TypeOK, Follows
  <2> QED
    BY <2>3, <2>4
<1>8. CASE RefuseStatement(t) \/ RefuseExhausted(t)
  <2>1. /\ execs' = execs /\ pc[t] = "execute" /\ pc'[t] = "return"
        /\ \E status \in Status \ ExecutorStatus : resp' = [resp EXCEPT ![t] = Reply(t, status)]
    BY <1>0, <1>8, ExecutorAssumption
    DEF TypeOK, RefuseStatement, RefuseExhausted, Return, Status
  <2>2. ~Decided(t)
    BY <2>1 DEF Decided, Discipline, ThreadState, ThreadOK
  <2>3. ~Decided(t)'
    <3>1. PICK status \in Status \ ExecutorStatus : resp' = [resp EXCEPT ![t] = Reply(t, status)]
      BY <2>1
    <3>2. Reply(t, status).status = status
      BY DEF Reply
    <3> QED
      BY <1>0, <2>1, <3>1, <3>2 DEF TypeOK, Decided
  <2> QED
    BY <1>6, <2>1, <2>2, <2>3 DEF Follows
<1>9. CASE ChooseHop(t)
  <2>1. execs' = execs /\ pc[t] = "execute" /\ pc'[t] = "lock" /\ resp' = resp
    BY <1>0, <1>9 DEF TypeOK, ChooseHop, Executable
  <2>2. ~Decided(t) /\ ~Decided(t)'
    BY <2>1 DEF Decided, Discipline, ThreadState, ThreadOK
  <2> QED
    BY <1>6, <2>1, <2>2 DEF Follows
<1>10. CASE Observe(t)
  <2>1. execs' = execs /\ pc[t] = "observe" /\ pc'[t] = "return" /\ resp' = resp
    BY <1>0, <1>10 DEF TypeOK, Observe
  <2>2. Decided(t)' <=> Decided(t)
    BY <2>1 DEF Decided
  <2> QED
    BY <1>6, <2>1, <2>2 DEF Follows
<1> QED
  BY <1>7, <1>8, <1>9, <1>10 DEF GatewayStep

(* What a forwarder does to them while no server stops: no exchange fails,  *)
(* so a handler is never given up while it works.                           *)
LEMMA ForwarderTips ==
  ASSUME Discipline, RequestState, Undisturbed, NEW t \in Thread, ForwarderStep(t),
         NEW u \in Thread, Tip(u)'
  PROVE  Follows(u, u)
<1>0. TypeOK
  BY DEF Discipline
<1>1. /\ pc[t] \in {"lock", "exchange", "recv", "respond"} /\ Busy(t) /\ Out(t) \in Link
  <2>1. pc[t] \in {"lock", "exchange", "recv", "respond"}
    BY DEF ForwarderStep, UnknownPeer, LockConnection, Connect, ConnectFailed, Send,
       ExchangeFailed, RecvResponse, Retry, Unlock
  <2> QED
    BY <2>1 DEF Discipline, ThreadState, ThreadOK, Busy
<1>2. ~ConnectFailed(t) /\ ~ExchangeFailed(t)
  <2>1. hop[t] \in Node
    BY <1>1 DEF Discipline, ThreadState, ThreadOK
  <2> QED
    BY <1>1, <2>1 DEF Undisturbed, ConnectFailed, ExchangeFailed
<1>3. req' = req /\ hop' = hop /\ execs' = execs
  BY <1>2 DEF ForwarderStep, UnknownPeer, LockConnection, Connect, Send, RecvResponse, Retry,
     Unlock, threadVars
<1>4. \A x \in Thread \ {t} : pc'[x] = pc[x] /\ resp'[x] = resp[x]
  BY <1>0, <1>2 DEF TypeOK, ForwarderStep, UnknownPeer, LockConnection, Connect, Send,
     RecvResponse, Retry, Unlock, threadVars
<1>5. ASSUME ~RecvResponse(t)
      PROVE  /\ Tip(u) /\ req'[u].origin = req[u].origin
             /\ u # t => (Decided(u)' <=> Decided(u))
  <2>1. outbox' = outbox /\ pc[t] # "recv"
    BY <1>2, <1>5 DEF ForwarderStep, UnknownPeer, LockConnection, Connect, Send, Retry, Unlock,
       linkVars
  <2> QED
    BY <1>1, <1>3, <1>4, <2>1, TipStays DEF Busy
<1>6. CASE RecvResponse(t)
  <2>1. /\ pc[t] = "recv" /\ outbox[Out(t)] # <<>> /\ pc'[t] = "respond"
        /\ resp'[t] = Head(outbox[Out(t)])
        /\ outbox' = [outbox EXCEPT ![Out(t)] = Tail(@)]
    BY <1>0, <1>6 DEF TypeOK, RecvResponse
  <2>2. ~Busy(Out(t))
    BY <1>1, <2>1 DEF Discipline, LinkState, LinkOK, Undisturbed, Link
  <2>3. CASE u = t
    <3>1. Tip(t)
      BY <1>1, <2>2 DEF Tip
    <3>2. resp[t] = NoResponse /\ resp'[t] # NoResponse
      <4>1. Discipline'
        BY <1>3, ForwarderSteps
      <4> QED
        BY <2>1, <4>1 DEF Discipline, ThreadState, ThreadOK
    <3> QED
      BY <1>3, <2>1, <2>3, <3>1, <3>2 DEF Follows, Decided
  <2>4. CASE u # t
    <3>1. Tip(u)
      BY <1>3, <1>4, <2>4 DEF Tip, Busy, Out, At
    <3>2. pc[u] = "recv" => outbox'[Out(u)] = outbox[Out(u)]
      <4>1. pc[u] = "recv" => Out(u) \in Link /\ holder[Out(u)] = u /\ holder[Out(t)] = t
        BY <1>1, <2>1 DEF Discipline, ThreadState, ThreadOK, LockDiscipline, Holding
      <4> QED
        BY <1>0, <2>1, <2>4, <4>1 DEF TypeOK
    <3>3. Out(u)' = Out(u)
      BY <1>3 DEF Out, At
    <3> QED
      BY <1>3, <1>4, <2>4, <3>1, <3>2, <3>3 DEF Follows, Decided
  <2> QED
    BY <2>3, <2>4
<1>7. CASE UnknownPeer(t)
  <2>1. /\ pc[t] = "lock" /\ pc'[t] = "observe" /\ resp'[t] = Reply(t, "ShardUnavailable")
    BY <1>0, <1>7 DEF TypeOK, UnknownPeer
  <2>2. ~Decided(t) /\ ~Decided(t)'
    BY <2>1, ExecutorAssumption DEF Decided, Reply, Discipline, ThreadState, ThreadOK
  <2> QED
    BY <1>3, <1>5, <1>7, <2>1, <2>2 DEF Follows, RecvResponse
<1>8. CASE LockConnection(t) \/ Connect(t) \/ Unlock(t)
  <2>1. pc[t] # "recv" /\ pc'[t] # "recv" /\ resp' = resp
    BY <1>0, <1>8 DEF TypeOK, LockConnection, Connect, Unlock, threadVars
  <2>2. Decided(t)' <=> Decided(t)
    BY <2>1 DEF Decided
  <2> QED
    BY <1>3, <1>5, <2>1, <2>2 DEF Follows, RecvResponse
<1>9. CASE Send(t)
  <2>1. /\ pc[t] = "exchange" /\ pc'[t] = "recv" /\ UNCHANGED <<resp, outbox>>
    BY <1>0, <1>9 DEF TypeOK, Send
  <2>2. resp[t] = NoResponse
    BY <2>1 DEF Discipline, ThreadState, ThreadOK
  <2>3. outbox[Out(t)] = <<>>
    <3>1. holder[Out(t)] = t
      BY <1>1, <2>1 DEF Discipline, LockDiscipline, Holding
    <3> QED
      BY <1>1, <2>1, <3>1 DEF Discipline, LinkState, LinkOK, Awaited
  <2>4. Out(t)' = Out(t)
    BY <1>3 DEF Out, At
  <2>5. ~Decided(t) /\ ~Decided(t)'
    BY <2>1, <2>2, <2>3, <2>4 DEF Decided
  <2> QED
    BY <1>3, <1>5, <2>1, <2>5 DEF Follows, RecvResponse
<1>10. CASE Retry(t)
  <2>1. /\ pc[t] = "respond" /\ pc'[t] = "exchange" /\ resp'[t] = NoResponse
        /\ resp[t].status = "ShardUnavailable"
    BY <1>0, <1>10 DEF TypeOK, Retry, WillRetry
  <2>2. ~Decided(t) /\ ~Decided(t)'
    BY <2>1, ExecutorAssumption DEF Decided
  <2> QED
    BY <1>3, <1>5, <2>1, <2>2 DEF Follows, RecvResponse
<1> QED
  BY <1>2, <1>6, <1>7, <1>8, <1>9, <1>10 DEF ForwarderStep

(* The client's own thread leaves; nobody else works for its query, nor     *)
(* comes to.                                                                *)
LEMMA ReturnToClientTips ==
  ASSUME Discipline, RequestState, OnlyTip, NEW c \in Client, ReturnToClient(c),
         NEW u \in Thread, Tip(u)'
  PROVE  Follows(u, u) /\ req[u].origin # c
<1>0. TypeOK /\ c \in Thread /\ c \notin Link
  BY ThreadFacts DEF Discipline
<1>1. /\ pc[c] = "return" /\ pc'[c] = "idle" /\ req'[c] = NoRequest
      /\ \A x \in Thread \ {c} : /\ req'[x] = req[x] /\ pc'[x] = pc[x]
                              /\ hop'[x] = hop[x] /\ resp'[x] = resp[x]
      /\ UNCHANGED <<outbox, execs>>
  BY <1>0 DEF TypeOK, ReturnToClient, Finish
<1>2. u # c
  BY <1>1 DEF Tip, Busy
<1>3. Out(u)' = Out(u) /\ (pc[u] = "recv" => Out(u) \in Thread \ {c})
  <2>1. pc[u] = "recv" => Out(u) \in Link
    BY DEF Discipline, ThreadState, ThreadOK
  <2> QED
    BY <1>0, <1>1, <1>2, <2>1, ThreadFacts DEF Out, At
<1>4. Tip(u)
  BY <1>1, <1>2, <1>3 DEF Tip, Busy
<1>5. Decided(u)' <=> Decided(u)
  BY <1>1, <1>2, <1>3 DEF Decided
<1>6. req[u].origin # c
  <2>1. Tip(c) /\ req[c].origin = c
    BY <1>0, <1>1 DEF Tip, Busy, Discipline, ThreadState, ThreadOK
  <2> QED
    BY <1>0, <1>2, <1>4, <2>1 DEF OnlyTip
<1> QED
  BY <1>1, <1>2, <1>4, <1>5, <1>6 DEF Follows

(* A handler hands its place to the thread that waits for it. *)
LEMMA ReturnToPeerTips ==
  ASSUME Discipline, RequestState, Undisturbed, NEW l \in Link, ReturnToPeer(l),
         NEW u \in Thread, Tip(u)'
  PROVE  Follows(u, u) \/ Follows(u, l)
<1>0. TypeOK /\ l \in Thread
  BY ThreadFacts DEF Discipline
<1>1. /\ pc[l] = "return" /\ Busy(l) /\ req'[l] = NoRequest /\ execs' = execs
      /\ \A x \in Thread \ {l} : /\ req'[x] = req[x] /\ pc'[x] = pc[x]
                              /\ hop'[x] = hop[x] /\ resp'[x] = resp[x]
  BY <1>0 DEF TypeOK, ReturnToPeer, Finish, Discipline, ThreadState, ThreadOK, Busy
<1>2. Open(l)
  BY <1>1, ThreadFacts DEF Discipline, LinkState, LinkOK, Undisturbed
<1>3. outbox' = [outbox EXCEPT ![l] = Append(@, resp[l])]
  BY <1>1, <1>2 DEF ReturnToPeer, Undisturbed, Open
<1>4. Awaited(l) /\ outbox[l] = <<>> /\ req[l].origin = req[holder[l]].origin
  BY <1>1, <1>2 DEF Discipline, LinkState, LinkOK
<1>5. u # l
  BY <1>1 DEF Tip, Busy
<1>6. Out(u)' = Out(u) /\ (pc[u] = "recv" => Out(u) \in Link /\ holder[Out(u)] = u)
  BY <1>1, <1>5 DEF Out, At, Discipline, ThreadState, ThreadOK, LockDiscipline, Holding
<1>7. CASE pc[u] = "recv" /\ Out(u) = l
  <2>1. Tip(l) /\ ~Tip(l)' /\ req'[u].origin = req[l].origin
    BY <1>1, <1>4, <1>5, <1>6, <1>7 DEF Tip, Busy
  <2>2. Decided(u)' <=> Decided(l)
    <3>1. outbox'[l] = <<resp[l]>> /\ resp[l] # NoResponse
      BY <1>0, <1>1, <1>3, <1>4 DEF TypeOK, Discipline, ThreadState, ThreadOK
    <3>2. outbox'[l] # <<>> /\ Head(outbox'[l]) = resp[l]
      BY <3>1
    <3>3. resp'[u] = NoResponse
      BY <1>1, <1>5, <1>7 DEF Discipline, ThreadState, ThreadOK
    <3> QED
      BY <1>1, <1>5, <1>6, <1>7, <3>1, <3>2, <3>3 DEF Decided
  <2> QED
    BY <1>1, <1>7, <2>1, <2>2 DEF Follows
<1>8. CASE ~(pc[u] = "recv" /\ Out(u) = l)
  <2>1. Tip(u)
    BY <1>1, <1>5, <1>6, <1>8, ThreadFacts DEF Tip, Busy
  <2>2. pc[u] = "recv" => outbox'[Out(u)] = outbox[Out(u)]
    BY <1>0, <1>3, <1>6, <1>8 DEF TypeOK
  <2>3. Decided(u)' <=> Decided(u)
    BY <1>1, <1>5, <1>6, <2>2 DEF Decided
  <2> QED
    BY <1>1, <1>5, <2>1, <2>3 DEF Follows
<1> QED
  BY <1>7, <1>8

(* A handler takes the place of the thread that sent the frame. *)
LEMMA ReceiveTips ==
  ASSUME Discipline, RequestState, NEW l \in Link, Receive(l), NEW u \in Thread, Tip(u)'
  PROVE  Follows(u, u) \/ \E v \in Thread : Follows(u, v)
<1>0. TypeOK /\ l \in Thread
  BY ThreadFacts DEF Discipline
<1>1. /\ pc[l] = "idle" /\ pc'[l] = "execute" /\ req'[l] = Head(inbox[l]) /\ inbox[l] # <<>>
      /\ UNCHANGED <<resp, hop, outbox, execs>>
      /\ \A x \in Thread \ {l} : req'[x] = req[x] /\ pc'[x] = pc[x]
  BY <1>0 DEF TypeOK, Receive
<1>2. PICK h \in Thread : h = holder[l]
  BY <1>1 DEF Discipline, TypeOK, LinkState, LinkOK, Awaited
<1>3. /\ pc[h] = "recv" /\ req'[l] = req[h] /\ Out(h) = l /\ h # l /\ outbox[l] = <<>>
  <2>1. Awaited(l) /\ inbox[l] = <<req[h]>> /\ outbox[l] = <<>>
    BY <1>1, <1>2 DEF Discipline, LinkState, LinkOK
  <2>2. Head(<<req[h]>>) = req[h]
    OBVIOUS
  <2> QED
    BY <1>1, <1>2, <2>1, <2>2 DEF Awaited, Discipline, LockDiscipline
<1>4. Busy(h) /\ ~Busy(l) /\ resp[h] = NoResponse /\ resp[l] = NoResponse
  BY <1>0, <1>1, <1>3 DEF Busy, Discipline, ThreadState, ThreadOK
<1>5. Tip(h) /\ ~Tip(h)'
  <2>1. Busy(l)'
    BY <1>3, <1>4, <1>1 DEF Busy
  <2>2. Out(h)' = l
    BY <1>1, <1>3 DEF Out, At
  <2> QED
    BY <1>1, <1>3, <1>4, <2>1, <2>2 DEF Tip, Busy
<1>6. CASE u = l
  <2>1. ~Decided(h) /\ ~Decided(l)'
    BY <1>1, <1>3, <1>4 DEF Decided
  <2>2. Follows(l, h)
    BY <1>1, <1>3, <1>5, <2>1 DEF Follows
  <2> QED
    BY <1>6, <2>2
<1>7. CASE u # l
  <2>1. Out(u)' = Out(u) /\ (pc[u] = "recv" => Out(u) \in Thread)
    BY <1>1, ThreadFacts DEF Out, At, Discipline, ThreadState, ThreadOK
  <2>2. Tip(u)
    <3>1. \A x \in Thread : Busy(x) => Busy(x)'
      BY <1>1, <1>4 DEF Busy
    <3> QED
      BY <1>1, <1>7, <2>1, <3>1 DEF Tip, Busy
  <2>3. Decided(u)' <=> Decided(u)
    BY <1>1, <1>7, <2>1 DEF Decided
  <2> QED
    BY <1>1, <1>7, <2>2, <2>3 DEF Follows
<1> QED
  BY <1>6, <1>7

(* Steps that leave the threads and the responses on their way alone. *)
LEMMA QuietTips ==
  ASSUME UNCHANGED threadVars, UNCHANGED <<outbox, execs>>, NEW u \in Thread, Tip(u)'
  PROVE  Follows(u, u)
BY DEF threadVars, Follows, Tip, Busy, Out, At, Decided

(* A client that issues starts a new tip and moves no other. *)
LEMMA IssueTips ==
  ASSUME Discipline, RequestState, NEW c \in Client, Issue(c), NEW u \in Thread, Tip(u)'
  PROVE  u = c \/ (Follows(u, u) /\ req[u].origin # c)
<1>0. TypeOK /\ c \in Thread /\ c \notin Link
  BY ThreadFacts DEF Discipline
<1>1. /\ UNCHANGED <<hop, resp, outbox, execs>> /\ asked[c] = NoRequest
      /\ \A x \in Thread \ {c} : req'[x] = req[x] /\ pc'[x] = pc[x]
  BY <1>0 DEF TypeOK, Issue, linkVars
<1>2. CASE u # c
  <2>1. Out(u)' = Out(u) /\ (pc[u] = "recv" => Out(u) \in Thread \ {c})
    <3>1. pc[u] = "recv" => Out(u) \in Link
      BY DEF Discipline, ThreadState, ThreadOK
    <3> QED
      BY <1>0, <1>1, <3>1, ThreadFacts DEF Out, At
  <2>2. Tip(u)
    BY <1>1, <1>2, <2>1 DEF Tip, Busy
  <2>3. Decided(u)' <=> Decided(u)
    BY <1>1, <1>2, <2>1 DEF Decided
  <2>4. req[u].origin # c
    BY <1>1, <2>2 DEF RequestState, RequestKept, Tip
  <2> QED
    BY <1>1, <1>2, <2>2, <2>3, <2>4 DEF Follows
<1> QED
  BY <1>2

(* Every tip that is not new comes from one, of a client who is not being   *)
(* answered.                                                                *)
LEMMA TipMoves ==
  ASSUME Discipline, RequestState, Undisturbed, OnlyTip, [Next]_vars, stops' = stops,
         NEW u \in Thread, Tip(u)'
  PROVE  \/ u \in Client /\ Issue(u)
         \/ \E v \in Thread : /\ Follows(u, v)
                            /\ answer'[req[v].origin] = answer[req[v].origin]
<1>1. ASSUME NEW c \in Client, ReturnToClient(c)
      PROVE  Follows(u, u) /\ answer'[req[u].origin] = answer[req[u].origin]
  <2>1. Follows(u, u) /\ req[u].origin # c
    BY <1>1, ReturnToClientTips
  <2>2. req[u].origin \in Client
    <3>1. pc[u] # "idle"
      BY <2>1 DEF Follows, Tip, Busy, Discipline, ThreadState, ThreadOK
    <3> QED
      BY <3>1, RequestFacts
  <2> QED
    BY <1>1, <2>1, <2>2 DEF ReturnToClient, Discipline, TypeOK
<1>2. ASSUME NEW c \in Client, Issue(c)
      PROVE  u = c \/ (Follows(u, u) /\ answer' = answer)
  BY <1>2, IssueTips DEF Issue
<1>3. ASSUME NEW t \in Thread, ThreadStep(t), ~(t \in Client /\ ReturnToClient(t))
      PROVE  answer' = answer /\ \E v \in Thread : Follows(u, v)
  <2>1. CASE GatewayStep(t)
    <3>1. answer' = answer
      BY <2>1 DEF GatewayStep, RefuseStatement, RefuseExhausted, ExecuteLocally, Return, ChooseHop,
         Observe, clientVars
    <3> QED
      BY <2>1, <3>1, GatewayTips
  <2>2. CASE ForwarderStep(t)
    <3>1. answer' = answer
      BY <2>2 DEF ForwarderStep, UnknownPeer, LockConnection, Connect, ConnectFailed, Send,
         ExchangeFailed, Drop, RecvResponse, Retry, Unlock, clientVars
    <3> QED
      BY <2>2, <3>1, ForwarderTips
  <2>3. CASE t \in Link /\ ReturnToPeer(t)
    <3>1. answer' = answer
      BY <2>3 DEF ReturnToPeer, clientVars
    <3> QED
      BY <2>3, <3>1, ReturnToPeerTips
  <2>4. CASE t \in Link /\ Receive(t)
    <3>1. answer' = answer
      BY <2>4 DEF Receive, clientVars
    <3> QED
      BY <2>4, <3>1, ReceiveTips
  <2>5. CASE t \in Link /\ LoseFrame(t)
    BY <2>5, QuietTips DEF LoseFrame, clientVars
  <2> QED
    BY <1>3, <2>1, <2>2, <2>3, <2>4, <2>5 DEF ThreadStep
<1>4. ASSUME NEW n \in Node, StopServer(n) \/ ServerStep(n) \/ StartServer(n) \/ Evaporate(n)
      PROVE  answer' = answer /\ Follows(u, u)
  <2>1. UNCHANGED threadVars /\ UNCHANGED <<outbox, execs, answer>>
    BY <1>4 DEF StopServer, ServerStep, CloseConnections, JoinThreads, StartServer, Evaporate,
       linkVars, clientVars
  <2> QED
    BY <2>1, QuietTips
<1>5. ASSUME UNCHANGED vars
      PROVE  answer' = answer /\ Follows(u, u)
  <2>1. UNCHANGED threadVars /\ UNCHANGED <<outbox, execs, answer>>
    BY <1>5 DEF vars, linkVars, clientVars
  <2> QED
    BY <2>1, QuietTips
<1> QED
  BY <1>1, <1>2, <1>3, <1>4, <1>5 DEF Next

(* Until a server stops, no connection is lost. *)
LEMMA NextUndisturbed ==
  ASSUME Discipline, Undisturbed, [Next]_vars, stops' = stops
  PROVE  Undisturbed'
<1>0. TypeOK
  BY DEF Discipline
<1>1. ASSUME NEW c \in Client, Issue(c) \/ ReturnToClient(c)
      PROVE  UNCHANGED <<server, sock>>
  BY <1>1 DEF Issue, ReturnToClient, Finish, linkVars, serverVars
<1>2. ASSUME NEW t \in Thread, GatewayStep(t)
      PROVE  UNCHANGED <<server, sock>>
  BY <1>2 DEF GatewayStep, RefuseStatement, RefuseExhausted, ExecuteLocally, Return, ChooseHop,
     Observe, linkVars, serverVars
<1>3. ASSUME NEW t \in Thread, ForwarderStep(t)
      PROVE  server' = server /\ \A l \in Link : sock'[l] \in {"none", "live"}
  <2>1. CASE Connect(t)
    <3>1. hop[t] \in Node /\ Out(t) \in Link
      BY <2>1 DEF Connect, Discipline, ThreadState, ThreadOK
    <3>2. server[hop[t]] = "up"
      BY <3>1 DEF Undisturbed
    <3>3. server' = server /\ sock' = [sock EXCEPT ![Out(t)] = "live"]
      BY <2>1, <3>2 DEF Connect
    <3> QED
      BY <1>0, <3>1, <3>3 DEF TypeOK, Undisturbed
  <2>2. CASE ConnectFailed(t) \/ ExchangeFailed(t)
    BY <1>0, <2>2 DEF TypeOK, Undisturbed, ConnectFailed, ExchangeFailed, Drop, serverVars
  <2>3. CASE UnknownPeer(t) \/ LockConnection(t) \/ Send(t) \/ RecvResponse(t) \/ Retry(t) \/ Unlock(t)
    BY <2>3 DEF Undisturbed, UnknownPeer, LockConnection, Send, RecvResponse, Retry, Unlock,
       linkVars, serverVars
  <2> QED
    BY <1>3, <2>1, <2>2, <2>3 DEF ForwarderStep
<1>4. ASSUME NEW l \in Link, ReturnToPeer(l)
      PROVE  server' = server /\ \A k \in Link : sock'[k] \in {"none", "live"}
  BY <1>0, <1>4, ThreadFacts DEF TypeOK, Undisturbed, ReturnToPeer, Finish, serverVars
<1>5. ASSUME NEW l \in Link, Receive(l) \/ LoseFrame(l)
      PROVE  UNCHANGED <<server, sock>>
  BY <1>0, <1>5 DEF TypeOK, Undisturbed, Receive, LoseFrame, serverVars
<1>6. ASSUME NEW n \in Node, StopServer(n) \/ ServerStep(n) \/ StartServer(n) \/ Evaporate(n)
      PROVE  UNCHANGED <<server, sock>>
  BY <1>0, <1>6 DEF TypeOK, Undisturbed, StopServer, ServerStep, CloseConnections, AcceptReturned,
     JoinThreads, StartServer, Evaporate, linkVars, serverVars
<1>7. CASE UNCHANGED <<server, sock>>
  BY <1>7 DEF Undisturbed
<1>8. UNCHANGED vars => UNCHANGED <<server, sock>>
  BY DEF vars, linkVars, serverVars
<1>9. CASE server' = server /\ \A l \in Link : sock'[l] \in {"none", "live"}
  BY <1>9 DEF Undisturbed
<1> QED
  BY <1>1, <1>2, <1>3, <1>4, <1>5, <1>6, <1>7, <1>8, <1>9 DEF Next, ThreadStep

(* Stops are only ever added. *)
LEMMA StopsGrow ==
  ASSUME Discipline, [Next]_vars
  PROVE  stops \in Nat /\ (stops' = stops \/ stops' = stops + 1)
<1>1. ASSUME NEW n \in Node, StopServer(n)
      PROVE  stops' = stops + 1
  BY <1>1 DEF StopServer
<1>2. stops \in Nat
  BY MeshAssumption DEF Discipline, TypeOK
<1>3. ASSUME NEW t \in Thread, ThreadStep(t)
      PROVE  stops' = stops
  <2>1. CASE GatewayStep(t)
    BY <2>1 DEF GatewayStep, RefuseStatement, RefuseExhausted, ExecuteLocally, Return, ChooseHop,
       Observe, serverVars
  <2>2. CASE ForwarderStep(t)
    BY <2>2 DEF ForwarderStep, UnknownPeer, LockConnection, Connect, ConnectFailed, Send,
       ExchangeFailed, Drop, RecvResponse, Retry, Unlock, serverVars
  <2> QED
    BY <1>3, <2>1, <2>2 DEF ThreadStep, ReturnToClient, ReturnToPeer, Finish, Receive,
       LoseFrame, serverVars
<1>4. ASSUME NEW n \in Node, ServerStep(n) \/ StartServer(n) \/ Evaporate(n)
      PROVE  stops' = stops
  BY <1>4 DEF ServerStep, CloseConnections, JoinThreads, StartServer, Evaporate, serverVars
<1>5. ASSUME NEW c \in Client, Issue(c)
      PROVE  stops' = stops
  BY <1>5 DEF Issue, serverVars
<1>6. UNCHANGED vars => stops' = stops
  BY DEF vars, serverVars
<1> QED
  BY <1>1, <1>2, <1>3, <1>4, <1>5, <1>6 DEF Next

(* A query has one tip as long as no server stops: the induction step. *)
LEMMA NextOneBranch ==
  ASSUME Account, OneBranch, [Next]_vars
  PROVE  OneBranch'
<1>0. /\ Discipline /\ RequestState /\ ClientState /\ TypeOK
  BY DEF Account, Discipline
<1>1. SUFFICES ASSUME stops' = 0
               PROVE  Undisturbed' /\ OnlyTip' /\ TipKnows'
  BY DEF OneBranch
<1>2. stops = 0 /\ stops' = stops
  BY <1>0, <1>1, StopsGrow
<1>3. Undisturbed /\ OnlyTip /\ TipKnows
  BY <1>2 DEF OneBranch
<1>4. Undisturbed'
  BY <1>0, <1>2, <1>3, NextUndisturbed
<1>5. OnlyTip'
  <2> SUFFICES ASSUME NEW u \in Thread, NEW w \in Thread, Tip(u)', Tip(w)',
                      req'[u].origin = req'[w].origin
               PROVE  u = w
    BY DEF OnlyTip
  <2>1. ASSUME NEW c \in Client, Issue(c), NEW x \in Thread, Tip(x)', x # c
        PROVE  req'[x].origin # req'[c].origin
    <3>1. Follows(x, x) /\ req[x].origin # c
      BY <1>0, <2>1, IssueTips
    <3>2. req'[x].origin # c
      BY <3>1 DEF Follows
    <3>3. req'[c].origin = c
      <4>1. Discipline'
        BY <1>0, NextDiscipline
      <4> QED
        BY <1>0, <2>1, <4>1, ThreadFacts DEF Issue, TypeOK, Discipline, ThreadState, ThreadOK
    <3> QED
      BY <3>2, <3>3
  <2>2. CASE (u \in Client /\ Issue(u)) \/ (w \in Client /\ Issue(w))
    BY <2>1, <2>2
  <2>3. ASSUME NEW v \in Thread, NEW x \in Thread, Follows(u, v), Follows(w, x)
        PROVE  u = w
    <3>1. v = x
      BY <1>3, <2>3 DEF Follows, OnlyTip
    <3>2. ASSUME NEW y \in Thread, NEW z \in Thread, pc[y] = "recv", pc[z] = "recv",
                 Out(y) = Out(z)
          PROVE  y = z
      BY <1>0, <3>2 DEF Discipline, ThreadState, ThreadOK, LockDiscipline, Holding
    <3> QED
      BY <2>3, <3>1, <3>2 DEF Follows
  <2> QED
    BY <1>0, <1>2, <1>3, <2>2, <2>3, TipMoves
<1>6. TipKnows'
  <2> SUFFICES ASSUME NEW u \in Thread, Tip(u)'
               PROVE  /\ ~Answered(req[u].origin)'
                      /\ execs'[req'[u].origin] = IF Decided(u)' THEN 1 ELSE 0
    BY DEF TipKnows
  <2>1. CASE u \in Client /\ Issue(u)
    <3>1. /\ req'[u].origin = u /\ pc'[u] = "execute" /\ resp'[u] = NoResponse
          /\ answer'[u] = NoResponse /\ execs'[u] = 0
      <4>1. Discipline' /\ pc'[u] = "execute" /\ UNCHANGED <<answer, execs>> /\ asked[u] = NoRequest
        BY <1>0, <2>1, NextDiscipline DEF Issue, TypeOK
      <4> QED
        BY <1>0, <2>1, <4>1 DEF Discipline, ThreadState, ThreadOK, ClientState
    <3> QED
      BY <3>1 DEF Answered, Decided
  <2>2. ASSUME NEW v \in Thread, Follows(u, v), answer'[req[v].origin] = answer[req[v].origin]
        PROVE  /\ ~Answered(req[u].origin)'
               /\ execs'[req'[u].origin] = IF Decided(u)' THEN 1 ELSE 0
    <3>1. /\ ~Answered(req[v].origin) /\ req'[u].origin = req[v].origin
          /\ execs[req[v].origin] = IF Decided(v) THEN 1 ELSE 0
      BY <1>3, <2>2 DEF Follows, TipKnows
    <3>2. \/ (Decided(u)' <=> Decided(v)) /\ execs'[req[v].origin] = execs[req[v].origin]
          \/ /\ ~Decided(v) /\ Decided(u)'
             /\ execs'[req[v].origin] = execs[req[v].origin] + 1
      BY <2>2 DEF Follows
    <3>3. ~Answered(req[u].origin)'
      BY <2>2, <3>1 DEF Answered
    <3> QED
      BY <3>1, <3>2, <3>3
  <2> QED
    BY <1>0, <1>2, <1>3, <2>1, <2>2, TipMoves
<1> QED
  BY <1>4, <1>5, <1>6

(* And the statement runs once: the induction step. *)
LEMMA NextExactlyOnce ==
  ASSUME Account, OneBranch, OneBranch', ExactlyOnceWithoutStops, [Next]_vars, stops' = 0, stops = 0
  PROVE  ExactlyOnceWithoutStops'
<1>0. /\ Discipline /\ RequestState /\ ClientState /\ TypeOK /\ Undisturbed /\ OnlyTip /\ TipKnows
  BY DEF Account, Discipline, OneBranch
<1>1. SUFFICES ASSUME NEW c \in Client
               PROVE  /\ execs'[c] =< 1
                      /\ Answered(c)' => (execs'[c] = 1 <=> answer'[c] \in ExecutorStatus)
  BY DEF ExactlyOnceWithoutStops
<1>2. /\ execs[c] =< 1
      /\ Answered(c) => (execs[c] = 1 <=> answer[c] \in ExecutorStatus)
  BY DEF ExactlyOnceWithoutStops
<1>3. CASE ReturnToClient(c)
  <2>1. /\ pc[c] = "return" /\ answer'[c] = resp[c].status /\ execs' = execs
    BY <1>0, <1>3 DEF ReturnToClient, Finish, TypeOK
  <2>2. c \in Thread /\ Tip(c) /\ req[c].origin = c /\ resp[c] # NoResponse
    BY <1>0, <2>1, ThreadFacts DEF Tip, Busy, Discipline, ThreadState, ThreadOK
  <2>3. Decided(c) <=> resp[c].status \in ExecutorStatus
    BY <2>1, <2>2 DEF Decided
  <2>4. execs[c] = IF Decided(c) THEN 1 ELSE 0
    BY <1>0, <2>2 DEF TipKnows
  <2> QED
    BY <2>1, <2>3, <2>4
<1>4. ASSUME NEW t \in Thread, ExecuteLocally(t)
      PROVE  /\ execs'[c] =< 1
             /\ Answered(c)' => (execs'[c] = 1 <=> answer'[c] \in ExecutorStatus)
  <2>1. /\ pc[t] = "execute" /\ answer' = answer
        /\ execs' = [execs EXCEPT ![req[t].origin] = @ + 1]
    BY <1>4 DEF ExecuteLocally, Executable, Return, clientVars
  <2>2. Tip(t) /\ ~Decided(t)
    BY <1>0, <2>1 DEF Tip, Busy, Decided, Discipline, ThreadState, ThreadOK
  <2>3. ~Answered(req[t].origin) /\ execs[req[t].origin] = 0
    BY <1>0, <2>2 DEF TipKnows
  <2> QED
    BY <1>0, <1>2, <2>1, <2>3 DEF TypeOK, Answered
<1>5. CASE answer'[c] = answer[c] /\ execs' = execs
  BY <1>2, <1>5 DEF Answered
<1>6. ASSUME NEW d \in Client, Issue(d) \/ (ReturnToClient(d) /\ d # c)
      PROVE  answer'[c] = answer[c] /\ execs' = execs
  BY <1>0, <1>6 DEF Issue, ReturnToClient, Finish, TypeOK
<1> QED
  BY <1>3, <1>4, <1>5, <1>6, ClientViewMoves

(* As long as no server stops there is one branch of every query.  *)
THEOREM MeshOneBranch == Spec => []OneBranch
<1>1. Init => OneBranch
  BY DEF Init, OneBranch, Undisturbed, OnlyTip, TipKnows, Tip, Busy
<1>2. Account /\ OneBranch /\ [Next]_vars => OneBranch'
  BY NextOneBranch
<1> QED
  BY <1>1, <1>2, MeshAccount, PTL DEF Spec

(* While no server stops, a statement is run by an executor exactly once if *)
(* its client is given the executor's verdict and never if not: the retry   *)
(* of Forward, which repeats a call on the status alone, only repeats calls *)
(* that ran nothing.                                                        *)
THEOREM MeshExactlyOnce == Spec => []ExactlyOnceWithoutStops
<1>1. Init => ExactlyOnceWithoutStops
  BY DEF Init, ExactlyOnceWithoutStops, Answered
<1>2. /\ Account /\ OneBranch /\ OneBranch' /\ ExactlyOnceWithoutStops /\ [Next]_vars
      => ExactlyOnceWithoutStops'
  <2> SUFFICES ASSUME Account, OneBranch, OneBranch', ExactlyOnceWithoutStops, [Next]_vars, stops' = 0
               PROVE  ExactlyOnceWithoutStops'
    BY DEF ExactlyOnceWithoutStops
  <2>1. stops \in Nat /\ stops =< stops'
    BY StopsGrow DEF Account
  <2> QED
    BY <2>1, NextExactlyOnce
<1> QED
  BY <1>1, <1>2, MeshAccount, MeshOneBranch, PTL DEF Spec

----------------------------------------------------------------------------
(* Trails: what lies behind a link, and why only an owner there makes it    *)
(* look good.                                                               *)

(* What can be reached: the start; from a reached node its neighbours; more *)
(* when fewer nodes are barred; and from a neighbour no more than from here.*)
LEMMA ReachableFacts ==
  ASSUME NEW m \in Node, NEW V
  PROVE  /\ m \in Reachable(m, V) /\ Reachable(m, V) \subseteq Node
         /\ \A l \in Link : l[1] \in Reachable(m, V) /\ l[2] \notin V => l[2] \in Reachable(m, V)
<1>1. ASSUME NEW l \in Link, l[1] \in Reachable(m, V), l[2] \notin V
      PROVE  l[2] \in Reachable(m, V)
  <2>1. l[2] \in Node
    BY ThreadFacts
  <2>2. ASSUME NEW S \in SUBSET Node, m \in S,
               \A k \in Link : k[1] \in S /\ k[2] \notin V => k[2] \in S
        PROVE  l[2] \in S
    <3>1. l[1] \in S
      BY <1>1, <2>2 DEF Reachable
    <3> QED
      BY <1>1, <2>2, <3>1
  <2> QED
    BY <2>1, <2>2 DEF Reachable
<1> QED
  BY <1>1 DEF Reachable

(* Past a link, with more nodes forbidden, nothing new can be reached.      *)
LEMMA ReachableBeyond ==
  ASSUME NEW l \in Link, NEW V, NEW W, V \subseteq W, l[2] \notin V
  PROVE  Reachable(l[2], W) \subseteq Reachable(l[1], V)
<1> SUFFICES ASSUME NEW x \in Reachable(l[2], W)
             PROVE  x \in Reachable(l[1], V)
  OBVIOUS
<1>1. x \in Node
  BY DEF Reachable
<1>2. ASSUME NEW S \in SUBSET Node, l[1] \in S,
             \A k \in Link : k[1] \in S /\ k[2] \notin V => k[2] \in S
      PROVE  x \in S
  <2>1. l[2] \in S
    BY <1>2
  <2>2. \A k \in Link : k[1] \in S /\ k[2] \notin W => k[2] \in S
    BY <1>2
  <2> QED
    BY <2>1, <2>2 DEF Reachable
<1> QED
  BY <1>1, <1>2 DEF Reachable

(* The fewer nodes are forbidden, the more can be reached.                  *)
LEMMA ReachableMore ==
  ASSUME NEW m \in Node, NEW V, NEW W, V \subseteq W
  PROVE  Reachable(m, W) \subseteq Reachable(m, V)
<1> SUFFICES ASSUME NEW x \in Reachable(m, W)
             PROVE  x \in Reachable(m, V)
  OBVIOUS
<1>1. x \in Node
  BY DEF Reachable
<1>2. ASSUME NEW S \in SUBSET Node, m \in S,
             \A k \in Link : k[1] \in S /\ k[2] \notin V => k[2] \in S
      PROVE  x \in S
  <2>1. \A k \in Link : k[1] \in S /\ k[2] \notin W => k[2] \in S
    BY <1>2
  <2> QED
    BY <1>2, <2>1 DEF Reachable
<1> QED
  BY <1>1, <1>2 DEF Reachable

(* What the call over a link finds, the caller finds through it. *)
LEMMA FoundThrough ==
  ASSUME NEW l \in Link, NEW V, NEW W, V \subseteq W, l[2] \notin V, NEW k, Found(l[2], W, k)
  PROVE  Found(l[1], V, k)
BY ReachableBeyond DEF Found

(* Penalties and evaporation raise no score, a reward only the one of the   *)
(* hop that was taken.                                                      *)
LEMMA ScoresRise ==
  ASSUME NEW scores \in Scores, NEW m \in Node, NEW path \in Node \X Node
  PROVE  /\ PheromoneLocked(Evaporated(scores), m) > Initial
              => PheromoneLocked(scores, m) > Initial
         /\ PheromoneLocked(Penalised(scores, path), m) > Initial
              => PheromoneLocked(scores, m) > Initial
         /\ \A r \in Reinforcements :
              m # path[2] => PheromoneLocked(Rewarded(scores, path, r), m) = PheromoneLocked(scores, m)
<1>0. Initial \in Nat /\ ScoreCap \in Nat /\ Unseen \notin Nat
  BY RouterTableAssumption
<1>1. \A n \in Node : PheromoneLocked(scores, n) \in Nat /\ (scores[n] = Unseen \/ scores[n] \in Nat)
  BY <1>0, RouterTableAssumption DEF PheromoneLocked, Score, Scores
<1>2. PheromoneLocked(Evaporated(scores), m) > Initial => PheromoneLocked(scores, m) > Initial
  <2>1. CASE scores[m] = Unseen
    <3>1. Evaporated(scores)[m] = Unseen
      BY <2>1 DEF Evaporated, Scores
    <3> QED
      BY <1>0, <2>1, <3>1 DEF PheromoneLocked
  <2>2. CASE scores[m] # Unseen
    <3> DEFINE kept == (scores[m] * KeepNum) \div KeepDen
    <3>1. Evaporated(scores)[m] = kept
      BY <2>2 DEF Evaporated, Scores
    <3>2. kept \in 0 .. scores[m]
      BY <1>1, <2>2, ScaleShrinks, RouterTableAssumption
    <3> HIDE DEF kept
    <3>3. kept # Unseen
      BY <1>0, <1>1, <2>2, <3>2
    <3>4. PheromoneLocked(Evaporated(scores), m) = kept /\ PheromoneLocked(scores, m) = scores[m]
      BY <2>2, <3>1, <3>3 DEF PheromoneLocked
    <3> QED
      BY <1>0, <1>1, <2>2, <3>2, <3>4
  <2> QED
    BY <2>1, <2>2
<1>3. PheromoneLocked(Penalised(scores, path), m) > Initial => PheromoneLocked(scores, m) > Initial
  <2> DEFINE cut == PheromoneLocked(scores, path[2]) \div PenaltyDivisor
  <2>1. path[2] \in Node /\ Len(path) = 2
    OBVIOUS
  <2>2. cut \in 0 .. PheromoneLocked(scores, path[2])
    BY <1>1, <2>1, DivisionShrinks, RouterTableAssumption
  <2>3. Penalised(scores, path) = [scores EXCEPT ![path[2]] = cut]
    BY <2>1 DEF Penalised
  <2> HIDE DEF cut
  <2>4. CASE m = path[2]
    <3>1. Penalised(scores, path)[m] = cut
      BY <2>1, <2>3, <2>4 DEF Scores
    <3>2. cut # Unseen
      BY <1>0, <1>1, <2>1, <2>2
    <3>3. PheromoneLocked(Penalised(scores, path), m) = cut
      BY <3>1, <3>2 DEF PheromoneLocked
    <3> QED
      BY <1>0, <1>1, <2>1, <2>2, <2>4, <3>3
  <2>5. CASE m # path[2]
    <3>1. Penalised(scores, path)[m] = scores[m]
      BY <2>3, <2>5 DEF Scores
    <3> QED
      BY <3>1 DEF PheromoneLocked
  <2> QED
    BY <2>4, <2>5
<1>4. ASSUME NEW r \in Reinforcements, m # path[2]
      PROVE  PheromoneLocked(Rewarded(scores, path, r), m) = PheromoneLocked(scores, m)
  <2>1. \A i \in 2 .. Len(path) : path[i] # m
    BY <1>4
  <2>2. Rewarded(scores, path, r)[m] = scores[m]
    BY <2>1 DEF Rewarded, Scores
  <2> QED
    BY <2>2 DEF PheromoneLocked
<1> QED
  BY <1>2, <1>3, <1>4

(* A score rises above an untried one only by the success of a call that a  *)
(* gateway sent over the link.                                              *)
LEMMA PheromoneMoves ==
  ASSUME Discipline, [Next]_vars, NEW l \in Link, NEW k \in RouteKey,
         PheromoneLocked(pheromone'[l[1]][k], l[2]) > Initial
  PROVE  \/ PheromoneLocked(pheromone[l[1]][k], l[2]) > Initial
         \/ \E t \in Thread : /\ pc[t] = "observe" /\ Succeeded(t)
                              /\ Out(t) = l /\ req[t].key = k
<1> DEFINE Goal == \/ PheromoneLocked(pheromone[l[1]][k], l[2]) > Initial
                   \/ \E t \in Thread : /\ pc[t] = "observe" /\ Succeeded(t)
                                        /\ Out(t) = l /\ req[t].key = k
<1>0. TypeOK /\ l[1] \in Node /\ l[2] \in Node /\ l = <<l[1], l[2]>>
  BY ThreadFacts DEF Discipline, Link
<1>1. pheromone[l[1]][k] \in Scores
  BY <1>0 DEF TypeOK, Scores
<1>2. CASE pheromone' = pheromone
  BY <1>2
<1>3. ASSUME NEW t \in Thread, Observe(t)
      PROVE  Goal
  <2>1. pc[t] = "observe"
    BY <1>3 DEF Observe
  <2>2. At(t) \in Node /\ hop[t] \in Node /\ Out(t) = <<At(t), hop[t]>> /\ Out(t) \in Node \X Node
    BY <2>1, ThreadFacts DEF Discipline, ThreadState, ThreadOK, Out
  <2>3. CASE At(t) # l[1] \/ req[t].key # k
    <3>1. pheromone'[l[1]][k] = pheromone[l[1]][k]
      BY <1>0, <1>3, <2>2, <2>3 DEF TypeOK, Observe
    <3> QED
      BY <3>1
  <2>4. CASE At(t) = l[1] /\ req[t].key = k /\ Succeeded(t)
    <3>1. PICK r \in Reinforcements :
            pheromone' = [pheromone EXCEPT ![At(t)][req[t].key] = Rewarded(@, Out(t), r)]
      BY <1>3, <2>4 DEF Observe
    <3>2. pheromone'[l[1]][k] = Rewarded(pheromone[l[1]][k], Out(t), r)
      BY <1>0, <2>4, <3>1 DEF TypeOK
    <3>3. CASE l[2] # hop[t]
      BY <1>0, <1>1, <2>2, <3>2, <3>3, ScoresRise
    <3>4. CASE l[2] = hop[t]
      BY <1>0, <2>1, <2>2, <2>4, <3>4
    <3> QED
      BY <3>3, <3>4
  <2>5. CASE At(t) = l[1] /\ req[t].key = k /\ ~Succeeded(t)
    <3>1. pheromone' = [pheromone EXCEPT ![At(t)][req[t].key] = Penalised(@, Out(t))]
      BY <1>3, <2>5 DEF Observe
    <3>2. pheromone'[l[1]][k] = Penalised(pheromone[l[1]][k], Out(t))
      BY <1>0, <2>5, <3>1 DEF TypeOK
    <3> QED
      BY <1>0, <1>1, <2>2, <3>2, ScoresRise
  <2> QED
    BY <2>3, <2>4, <2>5
<1>4. ASSUME NEW n \in Node, Evaporate(n)
      PROVE  Goal
  <2>1. CASE n = l[1]
    <3>1. pheromone'[l[1]][k] = Evaporated(pheromone[l[1]][k])
      BY <1>0, <1>4, <2>1 DEF TypeOK, Evaporate
    <3> QED
      BY <1>0, <1>1, <3>1, ScoresRise
  <2>2. CASE n # l[1]
    <3>1. pheromone'[l[1]][k] = pheromone[l[1]][k]
      BY <1>0, <1>4, <2>2 DEF TypeOK, Evaporate
    <3> QED
      BY <3>1
  <2> QED
    BY <2>1, <2>2
<1>5. ASSUME NEW t \in Thread, GatewayStep(t), ~Observe(t)
      PROVE  pheromone' = pheromone
  BY <1>5 DEF GatewayStep, RefuseStatement, RefuseExhausted, ExecuteLocally, Return, ChooseHop
<1>6. ASSUME NEW t \in Thread, ForwarderStep(t)
      PROVE  pheromone' = pheromone
  BY <1>6 DEF ForwarderStep, UnknownPeer, LockConnection, Connect, ConnectFailed, Send,
     ExchangeFailed, Drop, RecvResponse, Retry, Unlock
<1>7. ASSUME NEW c \in Client, Issue(c) \/ ReturnToClient(c)
      PROVE  pheromone' = pheromone
  BY <1>7 DEF Issue, ReturnToClient, Finish
<1>8. ASSUME NEW j \in Link, ReturnToPeer(j) \/ Receive(j) \/ LoseFrame(j)
      PROVE  pheromone' = pheromone
  BY <1>8 DEF ReturnToPeer, Finish, Receive, LoseFrame
<1>9. ASSUME NEW n \in Node, StopServer(n) \/ ServerStep(n) \/ StartServer(n)
      PROVE  pheromone' = pheromone
  BY <1>9 DEF StopServer, ServerStep, CloseConnections, JoinThreads, StartServer
<1>10. UNCHANGED vars => pheromone' = pheromone
  BY DEF vars
<1> HIDE DEF Goal
<1>11. pheromone' = pheromone => Goal
  BY <1>2 DEF Goal
<1>12. Goal
  BY <1>3, <1>4, <1>5, <1>6, <1>7, <1>8, <1>9, <1>10, <1>11 DEF Next, ThreadStep
<1> QED
  BY <1>12 DEF Goal

(* As long as somebody awaits the response on a connection, it is the same  *)
(* thread with the same request.                                            *)
LEMMA HolderKept ==
  ASSUME Discipline, [Next]_vars, NEW l \in Link, Awaited(l), Awaited(l)'
  PROVE  /\ holder[l] \in Thread /\ holder'[l] = holder[l] /\ pc[holder[l]] = "recv"
         /\ req'[holder[l]] = req[holder[l]]
         /\ Out(holder[l]) = l /\ l = <<l[1], l[2]>> /\ hop[holder[l]] = l[2]
         /\ Forwarding(holder[l]) /\ Busy(holder[l])
<1>0. TypeOK /\ Discipline' /\ l = <<l[1], l[2]>>
  BY ThreadFacts, NextDiscipline DEF Discipline, Link
<1>1. PICK h \in Thread : h = holder[l]
  BY <1>0, ThreadFacts DEF TypeOK, Awaited
<1>2. pc[h] = "recv" /\ Out(h) = l /\ Forwarding(h) /\ Busy(h)
  BY <1>0, <1>1
  DEF TypeOK, Awaited, Discipline, LockDiscipline, Forwarding, Busy, ThreadState, ThreadOK
<1>3. hop[h] = l[2]
  BY <1>0, <1>2 DEF Out
<1>4. holder'[l] = h
  <2>1. ASSUME NEW t \in Thread, LockConnection(t) \/ Unlock(t)
        PROVE  Out(t) # l
    <3>1. pc[t] = "respond" => holder[Out(t)] = t
      BY DEF Discipline, LockDiscipline, Holding, ThreadState, ThreadOK
    <3> QED
      BY <1>1, <1>2, <2>1, <3>1, ThreadFacts DEF LockConnection, ConnectionFree, Unlock
  <2>2. ASSUME NEW t \in Thread, ForwarderStep(t)
        PROVE  holder'[l] = holder[l]
    <3>1. CASE LockConnection(t) \/ Unlock(t)
      BY <1>0, <2>1, <3>1 DEF TypeOK, LockConnection, Unlock, Released
    <3>2. CASE ~(LockConnection(t) \/ Unlock(t))
      BY <2>2, <3>2 DEF ForwarderStep, UnknownPeer, Connect, ConnectFailed, Send, ExchangeFailed,
         Drop, RecvResponse, Retry, linkVars
    <3> QED
      BY <3>1, <3>2
  <2>3. ASSUME NEW t \in Thread, GatewayStep(t)
        PROVE  holder' = holder
    BY <2>3 DEF GatewayStep, RefuseStatement, RefuseExhausted, ExecuteLocally, Return, ChooseHop,
       Observe, linkVars
  <2>4. ASSUME NEW c \in Client, Issue(c) \/ ReturnToClient(c)
        PROVE  holder' = holder
    BY <2>4 DEF Issue, ReturnToClient, Finish, linkVars
  <2>5. ASSUME NEW j \in Link, ReturnToPeer(j) \/ Receive(j) \/ LoseFrame(j)
        PROVE  holder' = holder
    BY <2>5 DEF ReturnToPeer, Finish, Receive, LoseFrame
  <2>6. ASSUME NEW n \in Node, StopServer(n) \/ ServerStep(n) \/ StartServer(n) \/ Evaporate(n)
        PROVE  holder' = holder
    BY <2>6 DEF StopServer, ServerStep, CloseConnections, JoinThreads, StartServer, Evaporate,
       linkVars
  <2>7. UNCHANGED vars => holder' = holder
    BY DEF vars, linkVars
  <2>8. holder'[l] = holder[l]
    BY <2>2, <2>3, <2>4, <2>5, <2>6, <2>7 DEF Next, ThreadStep
  <2> QED
    BY <1>1, <2>8
<1>5. req'[h] = req[h]
  <2>1. pc'[h] = "recv" /\ req'[h] # NoRequest
    BY <1>0, <1>4 DEF Awaited, Discipline, ThreadState, ThreadOK
  <2>2. ~Issue(h) /\ ~ChooseHop(h) /\ ~Receive(h)
    BY <1>2 DEF Issue, ChooseHop, Executable, Receive
  <2> QED
    BY <2>1, <2>2, RequestMoves
<1> QED
  BY <1>0, <1>1, <1>2, <1>3, <1>4, <1>5

(* While a handler works, its connection is not opened anew. *)
LEMMA HandlerKept ==
  ASSUME Discipline, [Next]_vars, NEW l \in Link, Busy(l), Open(l)'
  PROVE  Open(l)
<1>0. TypeOK
  BY DEF Discipline
<1>1. ASSUME NEW t \in Thread, Connect(t), Out(t) = l
      PROVE  FALSE
  <2>1. pc[t] = "exchange" /\ holder[l] = t
    BY <1>1 DEF Connect, Discipline, LockDiscipline, Holding
  <2>2. sock[l] = "none" /\ server[l[2]] \in {"up", "closing", "joined"}
    <3>1. hop[t] = l[2]
      BY <1>1 DEF Out, Link
    <3> QED
      BY <1>1, <3>1 DEF Connect
  <2> QED
    BY <2>2 DEF Discipline, LinkState, LinkOK, Open
<1>2. ASSUME NEW t \in Thread, ForwarderStep(t)
      PROVE  sock'[l] = sock[l] \/ sock'[l] = "none"
  <2>1. CASE Connect(t)
    BY <1>0, <1>1, <2>1 DEF TypeOK, Connect
  <2>2. CASE ConnectFailed(t) \/ ExchangeFailed(t)
    BY <1>0, <2>2 DEF TypeOK, ConnectFailed, ExchangeFailed, Drop
  <2>3. CASE UnknownPeer(t) \/ LockConnection(t) \/ Send(t) \/ RecvResponse(t) \/ Retry(t) \/ Unlock(t)
    BY <2>3 DEF UnknownPeer, LockConnection, Send, RecvResponse, Retry, Unlock, linkVars
  <2> QED
    BY <1>2, <2>1, <2>2, <2>3 DEF ForwarderStep
<1>3. ASSUME NEW t \in Thread, GatewayStep(t)
      PROVE  sock' = sock
  BY <1>3 DEF GatewayStep, RefuseStatement, RefuseExhausted, ExecuteLocally, Return, ChooseHop,
     Observe, linkVars
<1>4. ASSUME NEW c \in Client, Issue(c) \/ ReturnToClient(c)
      PROVE  sock' = sock
  BY <1>4 DEF Issue, ReturnToClient, linkVars
<1>5. ASSUME NEW j \in Link, ReturnToPeer(j) \/ Receive(j) \/ LoseFrame(j)
      PROVE  sock'[l] = sock[l] \/ Open(l)
  BY <1>0, <1>5 DEF TypeOK, ReturnToPeer, Receive, LoseFrame, Open
<1>6. ASSUME NEW n \in Node, StopServer(n) \/ ServerStep(n) \/ StartServer(n) \/ Evaporate(n)
      PROVE  sock'[l] = sock[l] \/ Open(l)
  BY <1>0, <1>6 DEF TypeOK, StopServer, ServerStep, CloseConnections, AllClosed, JoinThreads,
     StartServer, Evaporate, linkVars, Open
<1>7. UNCHANGED vars => sock' = sock
  BY DEF vars, linkVars
<1>8. sock'[l] = sock[l] \/ sock'[l] = "none" \/ Open(l)
  BY <1>2, <1>3, <1>4, <1>5, <1>6, <1>7 DEF Next, ThreadStep
<1> QED
  BY <1>8 DEF Open

(* A handler works on what it was sent, with itself on the route at most.   *)
LEMMA NextHandedOn ==
  ASSUME Discipline, RequestState, [Next]_vars, NEW l \in Link, HandedOn(l)
  PROVE  HandedOn(l)'
<1>0. /\ TypeOK /\ Discipline' /\ l \in Thread /\ l \notin Client
      /\ At(l) = l[2] /\ l[2] \in Node /\ l = <<l[1], l[2]>>
  BY ThreadFacts, NextDiscipline DEF Discipline, At, Link
<1>1. SUFFICES ASSUME Busy(l)', Open(l)'
               PROVE  NodesOn(req'[l].route) \ {l[2]} = NodesOn(req'[holder'[l]].route)
  BY DEF HandedOn, NodesOn
<1>2. Awaited(l)'
  BY <1>0, <1>1 DEF Discipline, LinkState, LinkOK
<1>3. CASE Receive(l)
  <2>1. /\ req'[l] = Head(inbox[l]) /\ inbox[l] # <<>>
    BY <1>0, <1>3 DEF TypeOK, Receive
  <2>2. Awaited(l) /\ inbox[l] = <<req[holder[l]]>>
    BY <2>1 DEF Discipline, LinkState, LinkOK
  <2>3. PICK h \in Thread : /\ h = holder[l] /\ holder'[l] = h /\ req'[h] = req[h]
                            /\ hop[h] = l[2] /\ Forwarding(h) /\ Busy(h) /\ pc[h] = "recv"
    BY <1>2, <2>2, HolderKept
  <2>4. req'[l] = req[h]
    BY <2>1, <2>2, <2>3
  <2>5. l[2] \notin NodesOn(req[h].route)
    BY <2>3 DEF RequestState, RouteKept, Trail
  <2> QED
    BY <2>3, <2>4, <2>5
<1>4. ASSUME Busy(l)
      PROVE  /\ NodesOn(req[l].route) \ {l[2]} = NodesOn(req[holder[l]].route)
             /\ holder'[l] = holder[l] /\ req'[holder[l]] = req[holder[l]]
  <2>1. Open(l)
    BY <1>1, <1>4, HandlerKept
  <2>2. Awaited(l)
    BY <1>4, <2>1 DEF Discipline, LinkState, LinkOK
  <2> QED
    BY <1>2, <1>4, <2>1, <2>2, HolderKept DEF HandedOn
<1>5. CASE ChooseHop(l)
  <2>1. req'[l] = Extended(l) /\ pc[l] = "execute"
    BY <1>0, <1>5 DEF TypeOK, ChooseHop, Executable
  <2>2. req[l].route \in Seq(Node) /\ Busy(l)
    BY <1>0, <2>1, RequestFacts DEF Busy
  <2>3. NodesOn(req'[l].route) = NodesOn(req[l].route) \cup {l[2]}
    <3>1. req'[l].route = Append(req[l].route, l[2])
      BY <1>0, <2>1 DEF Extended
    <3> DEFINE short == req[l].route
               longer == Append(short, l[2])
    <3>2. /\ \A i \in 1 .. Len(short) : longer[i] = short[i]
          /\ longer[Len(short) + 1] = l[2] /\ Len(short) \in Nat
          /\ DOMAIN longer = 1 .. Len(short) + 1 /\ DOMAIN short = 1 .. Len(short)
      BY <1>0, <2>2
    <3> HIDE DEF short, longer
    <3>3. /\ \A i \in 1 .. Len(short) + 1 : i \in 1 .. Len(short) \/ i = Len(short) + 1
          /\ 1 .. Len(short) \subseteq 1 .. Len(short) + 1
          /\ Len(short) + 1 \in 1 .. Len(short) + 1
      BY <3>2
    <3>4. NodesOn(longer) = NodesOn(short) \cup {l[2]}
      BY <3>2, <3>3 DEF NodesOn
    <3> QED
      BY <3>1, <3>4 DEF short, longer
  <2> QED
    BY <1>4, <2>2, <2>3
<1>6. CASE req'[l] = req[l]
  <2>1. Busy(l)
    BY <1>1, <1>6 DEF Busy
  <2> QED
    BY <1>4, <1>6, <2>1
<1> QED
  BY <1>0, <1>1, <1>3, <1>5, <1>6, RequestMoves DEF Busy

(* The caller and the handler speak of the same key. *)
LEMMA SameKey ==
  ASSUME Discipline, RequestState, NEW l \in Link, Busy(l), Open(l)
  PROVE  req[l].key = req[holder[l]].key /\ Awaited(l)
<1>1. Awaited(l) /\ req[l].origin = req[holder[l]].origin
  BY DEF Discipline, LinkState, LinkOK
<1>2. holder[l] \in Thread /\ Busy(holder[l]) /\ l \in Thread
  BY <1>1, ThreadFacts DEF Discipline, TypeOK, Awaited, Busy, ThreadState, ThreadOK
<1> QED
  BY <1>1, <1>2 DEF RequestState, RequestKept

(* An Ok on a connection comes from an owner behind it. *)
LEMMA NextOkIsCarried ==
  ASSUME Discipline, RequestState, [Next]_vars, NEW l \in Link,
         HandedOn(l), OkIsCarried(l), OkWasFound(l)
  PROVE  OkIsCarried(l)'
<1>0. /\ TypeOK /\ Discipline' /\ l \in Thread /\ At(l) = l[2]
  BY ThreadFacts, NextDiscipline DEF Discipline, At
<1>1. SUFFICES ASSUME outbox'[l] # <<>>, Head(outbox'[l]).status = "Ok"
               PROVE  Found(l[2], NodesOn(req'[holder'[l]].route), req'[holder'[l]].key)
  BY DEF OkIsCarried, Found, Reachable, NodesOn
<1>2. Awaited(l)'
  BY <1>0, <1>1 DEF Discipline, LinkState, LinkOK
<1>3. CASE outbox'[l] = outbox[l]
  <2>1. Awaited(l)
    BY <1>1, <1>3 DEF Discipline, LinkState, LinkOK
  <2>2. holder'[l] = holder[l] /\ req'[holder[l]] = req[holder[l]]
    BY <1>2, <2>1, HolderKept
  <2> QED
    BY <1>1, <1>3, <2>2 DEF OkIsCarried
<1>4. CASE pc[l] = "return" /\ resp[l] # NoResponse /\ Open(l) /\ outbox'[l] = <<resp[l]>>
  <2>1. Busy(l)
    BY <1>0, <1>4, RequestFacts DEF Busy
  <2>2. Awaited(l) /\ req[l].key = req[holder[l]].key
    BY <1>4, <2>1, SameKey
  <2>3. holder'[l] = holder[l] /\ req'[holder[l]] = req[holder[l]]
    BY <1>2, <2>2, HolderKept
  <2>4. resp[l].status = "Ok"
    BY <1>1, <1>4
  <2>5. Found(l[2], NodesOn(req[l].route) \ {l[2]}, req[l].key)
    BY <1>0, <1>4, <2>4 DEF OkWasFound, Forwarding
  <2>6. NodesOn(req[l].route) \ {l[2]} = NodesOn(req[holder[l]].route)
    BY <1>4, <2>1 DEF HandedOn
  <2> QED
    BY <2>2, <2>3, <2>5, <2>6
<1> QED
  BY <1>1, <1>3, <1>4, OutboxMoves

(* An Ok in a thread's hands was found at its node or behind its hop. *)
LEMMA NextOkWasFound ==
  ASSUME Discipline, RequestState, [Next]_vars, NEW u \in Thread, OkWasFound(u),
         \A l \in Link : OkIsCarried(l)
  PROVE  OkWasFound(u)'
<1>0. TypeOK /\ Discipline' /\ At(u) \in Node
  BY ThreadFacts, NextDiscipline DEF Discipline
<1> DEFINE Hereby == Found(At(u), NodesOn(req'[u].route) \ {At(u)}, req'[u].key)
           Beyond == Found(hop'[u], NodesOn(req'[u].route), req'[u].key)
<1>1. SUFFICES ASSUME resp'[u] # NoResponse, resp'[u].status = "Ok"
               PROVE  IF Forwarding(u)' THEN Beyond ELSE Hereby
  BY DEF OkWasFound, Found, Reachable, NodesOn, At
<1>2. pc'[u] \in {"respond", "observe", "return"}
  BY <1>0, <1>1 DEF Discipline, ThreadState, ThreadOK
<1>3. ASSUME pc[u] \notin {"idle", "execute"}
      PROVE  /\ req'[u] = req[u] /\ hop'[u] = hop[u]
             /\ Forwarding(u)' => Forwarding(u)
  <2>1. req'[u] # NoRequest
    BY <1>0, <1>2 DEF Discipline, ThreadState, ThreadOK
  <2>2. ~Issue(u) /\ ~ChooseHop(u) /\ ~Receive(u)
    BY <1>3 DEF Issue, ChooseHop, Executable, Receive
  <2> QED
    BY <2>1, <2>2, RequestMoves
<1> HIDE DEF Hereby, Beyond
<1>4. CASE resp'[u] = resp[u]
  <2>1. pc[u] \in {"respond", "observe", "return"}
    BY <1>1, <1>4 DEF Discipline, ThreadState, ThreadOK
  <2>2. req'[u] = req[u] /\ hop'[u] = hop[u] /\ (Forwarding(u)' => Forwarding(u))
    BY <1>3, <2>1
  <2>3. CASE Forwarding(u)' \/ ~Forwarding(u)
    BY <1>1, <1>4, <2>2, <2>3 DEF OkWasFound, Hereby, Beyond
  <2>4. CASE Forwarding(u) /\ ~Forwarding(u)'
    <3>1. Found(hop[u], NodesOn(req[u].route), req[u].key)
      BY <1>1, <1>4, <2>4 DEF OkWasFound
    <3>2. Busy(u) /\ Out(u) \in Link
      BY <2>4 DEF Discipline, ThreadState, ThreadOK, Forwarding, Busy
    <3>3. hop[u] \notin NodesOn(req[u].route)
      BY <2>4, <3>2 DEF RequestState, RouteKept, Trail, Forwarding
    <3>4. Found(Out(u)[1], NodesOn(req[u].route) \ {At(u)}, req[u].key)
      <4>1. Out(u)[2] = hop[u]
        BY DEF Out
      <4> QED
        BY <3>1, <3>2, <3>3, <4>1, FoundThrough
    <3> QED
      BY <2>2, <2>4, <3>4 DEF Out, Hereby
  <2> QED
    BY <2>3, <2>4
<1>5. CASE ExecuteLocally(u)
  <2>1. /\ pc'[u] = "return" /\ req' = req /\ req[u].key \in Owned[At(u)]
    BY <1>0, <1>5 DEF TypeOK, ExecuteLocally, Owns, Return
  <2>2. ~Forwarding(u)'
    BY <2>1 DEF Forwarding
  <2>3. Hereby
    BY <1>0, <2>1, ReachableFacts DEF Hereby, Found
  <2> QED
    BY <2>2, <2>3
<1>6. CASE RecvResponse(u)
  <2>1. /\ pc[u] = "recv" /\ pc'[u] = "respond" /\ req' = req /\ hop' = hop
        /\ outbox[Out(u)] # <<>> /\ resp'[u] = Head(outbox[Out(u)])
    BY <1>0, <1>6 DEF TypeOK, RecvResponse
  <2>2. Out(u) \in Link /\ holder[Out(u)] = u /\ Out(u)[2] = hop[u]
    BY <2>1 DEF Discipline, ThreadState, ThreadOK, LockDiscipline, Holding, Out
  <2>3. Beyond
    BY <1>1, <2>1, <2>2 DEF OkIsCarried, Beyond
  <2> QED
    BY <2>1, <2>3 DEF Forwarding
<1>7. ASSUME NEW status \in Status \ {"Ok"}, resp'[u] = Reply(u, status)
      PROVE  FALSE
  BY <1>1, <1>7 DEF Reply
<1>8. CASE RefuseStatement(u) \/ RefuseExhausted(u)
  BY <1>0, <1>7, <1>8 DEF TypeOK, RefuseStatement, RefuseExhausted, Return, Status
<1>9. resp'[u] # Reply(u, "ShardUnavailable")
  BY <1>7 DEF Status
<1> QED
  BY <1>1, <1>4, <1>5, <1>6, <1>8, <1>9, ResponseMoves

(* Only an edge behind which an owner lies looks better than an untried one.*)
LEMMA NextTrailsLeadToOwner ==
  ASSUME Discipline, RequestState, TrailsLeadToOwner, [Next]_vars,
         \A t \in Thread : OkWasFound(t)
  PROVE  TrailsLeadToOwner'
<1> SUFFICES ASSUME NEW l \in Link, NEW k \in RouteKey,
                    PheromoneLocked(pheromone'[l[1]][k], l[2]) > Initial
             PROVE  \E m \in Behind(l[1], l[2]) : k \in Owned[m]
  BY DEF TrailsLeadToOwner, Behind, Reachable
<1>1. CASE PheromoneLocked(pheromone[l[1]][k], l[2]) > Initial
  BY <1>1 DEF TrailsLeadToOwner
<1>2. ASSUME NEW t \in Thread, pc[t] = "observe", Succeeded(t), Out(t) = l, req[t].key = k
      PROVE  \E m \in Behind(l[1], l[2]) : k \in Owned[m]
  <2>1. At(t) = l[1] /\ hop[t] = l[2] /\ l[2] \in Node
    BY <1>2, ThreadFacts DEF Out
  <2>2. Forwarding(t) /\ Busy(t) /\ resp[t] # NoResponse
    BY <1>2 DEF Forwarding, Busy, Discipline, ThreadState, ThreadOK
  <2>3. Found(l[2], NodesOn(req[t].route), k)
    BY <1>2, <2>1, <2>2 DEF OkWasFound, Succeeded
  <2>4. l[1] \in NodesOn(req[t].route)
    <3>1. /\ Trail(t) = req[t].route /\ req[t].route # <<>>
          /\ req[t].route[Len(req[t].route)] = l[1]
      BY <1>2, <2>1, <2>2 DEF RequestState, RouteKept, Trail
    <3>2. req[t].route \in Seq(Node)
      BY <1>2, RequestFacts
    <3>3. Len(req[t].route) \in DOMAIN req[t].route
      BY <3>1, <3>2
    <3> QED
      BY <3>1, <3>3 DEF NodesOn
  <2>5. Reachable(l[2], NodesOn(req[t].route)) \subseteq Reachable(l[2], {l[1]})
    <3>1. {l[1]} \subseteq NodesOn(req[t].route)
      BY <2>4
    <3> QED
      BY <2>1, <3>1, ReachableMore
  <2> QED
    BY <2>3, <2>5 DEF Found, Behind
<1> QED
  BY <1>1, <1>2, PheromoneMoves

(* The invariant behind the trails is kept in every reachable state. *)
THEOREM MeshTrails == Spec => []TrailState
<1>1. Init => TrailState
  <2> SUFFICES ASSUME Init
               PROVE  TrailState
    OBVIOUS
  <2>1. \A t \in Thread : req[t] = NoRequest /\ resp[t] = NoResponse
    BY DEF Init
  <2>2. \A l \in Link : outbox[l] = <<>> /\ ~Busy(l)
    BY <2>1, ThreadFacts DEF Init, Busy
  <2>3. TrailsLeadToOwner
    <3>1. ASSUME NEW l \in Link, NEW k \in RouteKey
          PROVE  PheromoneLocked(pheromone[l[1]][k], l[2]) = Initial
      BY ThreadFacts DEF Init, PheromoneLocked
    <3>2. Initial \in Nat
      BY RouterTableAssumption
    <3> QED
      BY <3>1, <3>2 DEF TrailsLeadToOwner
  <2> QED
    BY <2>1, <2>2, <2>3 DEF TrailState, HandedOn, OkIsCarried, OkWasFound
<1>2. Discipline /\ RequestState /\ TrailState /\ [Next]_vars => TrailState'
  <2> SUFFICES ASSUME Discipline, RequestState, TrailState, [Next]_vars
               PROVE  TrailState'
    OBVIOUS
  <2>1. \A l \in Link : l \in Thread
    BY ThreadFacts
  <2>2. ASSUME NEW l \in Link
        PROVE  HandedOn(l)' /\ OkIsCarried(l)'
    BY <2>1, NextHandedOn, NextOkIsCarried DEF TrailState
  <2>3. ASSUME NEW t \in Thread
        PROVE  OkWasFound(t)'
    BY NextOkWasFound DEF TrailState
  <2>4. TrailsLeadToOwner'
    BY NextTrailsLeadToOwner DEF TrailState
  <2> QED
    BY <2>2, <2>3, <2>4 DEF TrailState
<1> QED
  BY <1>1, <1>2, MeshDiscipline, MeshRequestsKept, PTL DEF Spec

(* gateway.cpp, ObserveSuccess and ObserveFailure: on any topology an edge  *)
(* ever gets more pheromone than an untried one only if an owner of the key *)
(* lies behind it, whatever failures, retries, stops and other queries'     *)
(* answers the router is told of.                                           *)
THEOREM MeshTrailsLeadToOwner == Spec => []TrailsLeadToOwner
<1>1. TrailState => TrailsLeadToOwner
  BY DEF TrailState
<1> QED
  BY <1>1, MeshTrails, PTL

----------------------------------------------------------------------------
(* Deadlock: where the topology has no cycle, threads never wait for each   *)
(* other in a circle.                                                       *)

(* In a forest no set of links can be walked for ever without turning back: *)
(* a walk that once goes down goes down for good, one that never does goes  *)
(* up for good.                                                             *)
LEMMA WalksTurnBack ==
  ASSUME IsForest, NEW L \in SUBSET Link, L # {},
         \A l \in L : \E k \in L : k[1] = l[2] /\ k[2] # l[1]
  PROVE  FALSE
<1>1. PICK depth \in [Node -> 0 .. Cardinality(Node)] :
        /\ \A l \in Link : depth[l[2]] = depth[l[1]] + 1 \/ depth[l[1]] = depth[l[2]] + 1
        /\ \A n, m, k \in Node : /\ Joined(n, m) /\ depth[m] < depth[n]
                                 /\ Joined(n, k) /\ depth[k] < depth[n]
                                 => m = k
  BY DEF IsForest
<1> DEFINE height == Cardinality(Node)
           Down(l) == depth[l[2]] = depth[l[1]] + 1
<1>2. height \in Nat
  BY FS_CardinalityType, FinitenessAssumption
<1>3. \A n \in Node : depth[n] \in Nat /\ depth[n] =< height
  BY <1>1, <1>2
<1>4. \A l \in L : l \in Link /\ l[1] \in Node /\ l[2] \in Node /\ l = <<l[1], l[2]>>
  BY ThreadFacts DEF Link
<1> HIDE DEF height
<1>5. ASSUME NEW l \in L, Down(l)
      PROVE  \E k \in L : k[1] = l[2] /\ Down(k)
  <2>1. PICK k \in L : k[1] = l[2] /\ k[2] # l[1]
    OBVIOUS
  <2>2. Joined(l[2], l[1]) /\ Joined(l[2], k[2])
    BY <1>4, <2>1 DEF Joined
  <2>3. depth[l[1]] < depth[l[2]]
    BY <1>3, <1>4, <1>5
  <2>4. ~(depth[k[2]] < depth[l[2]])
    BY <1>1, <1>4, <2>1, <2>2, <2>3
  <2>5. depth[k[2]] = depth[k[1]] + 1
    <3>1. k \in Link /\ k[1] = l[2]
      BY <1>4, <2>1
    <3>2. depth[k[2]] = depth[k[1]] + 1 \/ depth[k[1]] = depth[k[2]] + 1
      BY <1>1, <3>1
    <3>3. depth[k[1]] \in Nat /\ depth[k[2]] \in Nat /\ ~(depth[k[2]] < depth[k[1]])
      BY <1>3, <1>4, <2>1, <2>4, <3>1
    <3> QED
      BY <3>2, <3>3
  <2> QED
    BY <2>1, <2>5
<1>6. CASE \E l \in L : Down(l)
  <2> DEFINE left == { height - depth[l[2]] : l \in { x \in L : Down(x) } }
  <2>1. left \in SUBSET Nat /\ left # {}
    BY <1>2, <1>3, <1>4, <1>6
  <2>2. PICK h \in left : \A g \in left : h <= g
    <3> HIDE DEF left
    <3> QED
      BY <2>1, SmallestOf
  <2>3. PICK l \in L : Down(l) /\ h = height - depth[l[2]]
    BY <2>2
  <2>4. PICK k \in L : k[1] = l[2] /\ Down(k)
    BY <1>5, <2>3
  <2>5. height - depth[k[2]] \in left
    BY <2>4
  <2>6. h <= height - depth[k[2]]
    BY <2>2, <2>5
  <2> QED
    BY <1>2, <1>3, <1>4, <2>3, <2>4, <2>6
<1>7. CASE \A l \in L : ~Down(l)
  <2> DEFINE levels == { depth[l[2]] : l \in L }
  <2>1. levels \in SUBSET Nat /\ levels # {}
    BY <1>3, <1>4
  <2>2. PICK h \in levels : \A g \in levels : h <= g
    <3> HIDE DEF levels
    <3> QED
      BY <2>1, SmallestOf
  <2>3. PICK l \in L : h = depth[l[2]]
    BY <2>2
  <2>4. PICK k \in L : k[1] = l[2]
    OBVIOUS
  <2>5. depth[k[1]] = depth[k[2]] + 1
    BY <1>1, <1>4, <1>7
  <2>6. h <= depth[k[2]]
    BY <2>2
  <2> QED
    BY <1>3, <1>4, <2>3, <2>4, <2>5, <2>6
<1> QED
  BY <1>6, <1>7

(* A handler that is awaited does not forward back to where it was sent     *)
(* from: that node is on the route of its request.                          *)
LEMMA HandlerGoesOn ==
  ASSUME Discipline, RequestState, TrailState, NEW t \in Thread, pc[t] = "recv",
         NEW l \in Link, Out(t) = l, Open(l), Busy(l), pc[l] \in {"lock", "recv"}
  PROVE  /\ Out(l) \in Link /\ Out(l)[1] = l[2] /\ Out(l)[2] # l[1]
<1>1. holder[l] = t
  BY DEF Discipline, LockDiscipline, Holding
<1>2. l \in Thread /\ l \notin Client /\ At(l) = l[2] /\ l = <<l[1], l[2]>> /\ At(t) = l[1]
  BY ThreadFacts DEF At, Link, Out
<1>3. l[1] \in NodesOn(req[t].route)
  <2>1. Forwarding(t) /\ Busy(t)
    BY DEF Forwarding, Busy, Discipline, ThreadState, ThreadOK
  <2>2. /\ Trail(t) = req[t].route /\ req[t].route # <<>>
        /\ req[t].route[Len(req[t].route)] = l[1]
    BY <1>2, <2>1 DEF RequestState, RouteKept, Trail
  <2>3. req[t].route \in Seq(Node)
    BY RequestFacts
  <2>4. Len(req[t].route) \in DOMAIN req[t].route
    BY <2>2, <2>3
  <2> QED
    BY <2>2, <2>4 DEF NodesOn
<1>4. l[1] \in NodesOn(req[l].route)
  BY <1>1, <1>3 DEF TrailState, HandedOn
<1>5. Forwarding(l) /\ Trail(l) = req[l].route
  BY DEF Forwarding, Trail
<1>6. hop[l] \notin NodesOn(req[l].route)
  BY <1>2, <1>5 DEF RequestState, RouteKept
<1>7. Out(l) \in Link
  BY <1>2 DEF Discipline, ThreadState, ThreadOK
<1> QED
  BY <1>2, <1>4, <1>6, <1>7 DEF Out

(* Forward holds a connection's mutex across the nested forward of the next *)
(* gateway (tcp_forwarder.cpp); on a topology without cycles the queries    *)
(* that cross each other still never wait in a circle, however many clients *)
(* there are and whatever servers stop.                                     *)
THEOREM MeshNoWaitCycle == IsForest => (Spec => []NoWaitCycle)
<1> SUFFICES ASSUME IsForest
             PROVE  Spec => []NoWaitCycle
  OBVIOUS
<1>1. ASSUME Discipline, RequestState, TrailState
      PROVE  NoWaitCycle
  <2> SUFFICES ASSUME NEW S \in SUBSET { t \in Thread : pc[t] \in {"lock", "recv"} },
                      S # {}, \A t \in S : \E u \in S : WaitsOn(t, u)
               PROVE  FALSE
    BY DEF NoWaitCycle
  <2>1. \A t \in S : t \in Thread /\ pc[t] \in {"lock", "recv"} /\ Out(t) \in Link
    BY <1>1 DEF Discipline, ThreadState, ThreadOK
  <2>2. ASSUME NEW t \in S
        PROVE  \E u \in S : pc[u] = "recv" /\ Out(u) = Out(t)
    <3>1. CASE pc[t] = "recv"
      BY <3>1
    <3>2. CASE pc[t] = "lock"
      <4>1. PICK u \in S : holder[Out(t)] = u
        BY <3>2 DEF WaitsOn
      <4>2. Holding(u) /\ Out(u) = Out(t)
        BY <1>1, <2>1, <4>1 DEF Discipline, LockDiscipline
      <4> QED
        BY <2>1, <4>2 DEF Holding
    <3> QED
      BY <2>1, <3>1, <3>2
  <2> DEFINE L == { Out(t) : t \in S }
  <2>3. L \in SUBSET Link /\ L # {}
    BY <2>1
  <2>4. ASSUME NEW l \in L
        PROVE  \E k \in L : k[1] = l[2] /\ k[2] # l[1]
    <3>1. PICK t \in S : pc[t] = "recv" /\ Out(t) = l
      BY <2>2, <2>4
    <3>2. PICK u \in S : WaitsOn(t, u)
      OBVIOUS
    <3>3. u = l /\ Open(l) /\ Busy(l)
      BY <3>1, <3>2 DEF WaitsOn
    <3>4. Out(u)[1] = l[2] /\ Out(u)[2] # l[1]
      BY <1>1, <2>1, <2>3, <3>1, <3>3, HandlerGoesOn
    <3> QED
      BY <3>4
  <2> HIDE DEF L
  <2> QED
    BY <1>1, <2>3, <2>4, WalksTurnBack
<1> QED
  BY <1>1, MeshDiscipline, MeshRequestsKept, MeshTrails, PTL

----------------------------------------------------------------------------
(* How often a statement runs, whatever stops: the threads that may still   *)
(* have it run and the connections whose response a stop may lose are       *)
(* counted against the stops.                                               *)

(* What is counted is finite. *)
LEMMA FiniteMesh ==
  /\ IsFiniteSet(Thread) /\ IsFiniteSet(Link)
  /\ \A c \in Client : IsFiniteSet(MayRun(c)) /\ IsFiniteSet(AtRisk(c))
  /\ \A c \in Client, n \in Node :
       IsFiniteSet(WaysInto(c, n)) /\ Cardinality(WaysInto(c, n)) \in 0 .. Cardinality(Link)
<1>1. IsFiniteSet(Link)
  <2>1. IsFiniteSet(Node \X Node)
    BY FS_Product, FinitenessAssumption
  <2>2. Link \in SUBSET (Node \X Node)
    BY DEF Link
  <2> QED
    BY <2>1, <2>2, FS_Subset
<1>2. IsFiniteSet(Thread)
  BY <1>1, FS_Union, FinitenessAssumption DEF Thread
<1>3. ASSUME NEW c \in Client
      PROVE  IsFiniteSet(MayRun(c)) /\ IsFiniteSet(AtRisk(c))
  <2>1. MayRun(c) \in SUBSET Thread /\ AtRisk(c) \in SUBSET Link
    BY DEF MayRun, AtRisk
  <2> QED
    BY <1>1, <1>2, <2>1, FS_Subset
<1>4. ASSUME NEW c \in Client, NEW n \in Node
      PROVE  IsFiniteSet(WaysInto(c, n)) /\ Cardinality(WaysInto(c, n)) \in 0 .. Cardinality(Link)
  <2>1. WaysInto(c, n) \in SUBSET Link
    BY DEF WaysInto
  <2>2. IsFiniteSet(WaysInto(c, n)) /\ Cardinality(WaysInto(c, n)) <= Cardinality(Link)
    BY <1>1, <2>1, FS_Subset
  <2>3. Cardinality(WaysInto(c, n)) \in Nat /\ Cardinality(Link) \in Nat
    BY <1>1, <2>2, FS_CardinalityType
  <2> QED
    BY <2>2, <2>3
<1> QED
  BY <1>1, <1>2, <1>3, <1>4

(* A set that loses some elements and gains no more is not larger. *)
LEMMA Exchanged ==
  ASSUME NEW A, IsFiniteSet(A), NEW X \in SUBSET A, NEW Y, IsFiniteSet(Y),
         NEW B, B \subseteq (A \ X) \cup Y
  PROVE  /\ IsFiniteSet(B) /\ Cardinality(B) \in Nat /\ Cardinality(A) \in Nat
         /\ Cardinality(X) \in Nat /\ Cardinality(Y) \in Nat
         /\ Cardinality(B) + Cardinality(X) =< Cardinality(A) + Cardinality(Y)
<1>1. IsFiniteSet(X) /\ X = A \cap X
  BY FS_Subset
<1>2. IsFiniteSet(A \ X) /\ Cardinality(A \ X) = Cardinality(A) - Cardinality(X)
  <2>1. IsFiniteSet(A \ X) /\ Cardinality(A \ X) = Cardinality(A) - Cardinality(A \cap X)
    BY FS_Difference
  <2> QED
    BY <1>1, <2>1
<1>3. /\ IsFiniteSet((A \ X) \cup Y)
      /\ Cardinality((A \ X) \cup Y)
           = Cardinality(A \ X) + Cardinality(Y) - Cardinality((A \ X) \cap Y)
  BY <1>2, FS_Union
<1>4. Cardinality((A \ X) \cap Y) \in Nat
  <2>1. (A \ X) \cap Y \in SUBSET Y
    OBVIOUS
  <2> QED
    BY <2>1, FS_Subset, FS_CardinalityType
<1>5. IsFiniteSet(B) /\ Cardinality(B) <= Cardinality((A \ X) \cup Y)
  BY <1>3, FS_Subset
<1>6. /\ Cardinality(A) \in Nat /\ Cardinality(X) \in Nat /\ Cardinality(Y) \in Nat
      /\ Cardinality(B) \in Nat /\ Cardinality(A \ X) \in Nat
      /\ Cardinality((A \ X) \cup Y) \in Nat
  BY <1>1, <1>2, <1>3, <1>5, FS_CardinalityType
<1> QED
  BY <1>2, <1>3, <1>4, <1>5, <1>6

(* What has run, what may still run and what a stop may make run again. *)
Toll(c) == execs[c] + Cardinality(MayRun(c)) + Cardinality(AtRisk(c))

(* A step that takes no more than it gives up does not raise the toll. *)
LEMMA TollBalance ==
  ASSUME Discipline, Discipline', NEW c \in Client,
         NEW X \in SUBSET MayRun(c), NEW Y, IsFiniteSet(Y), NEW Lost \in SUBSET AtRisk(c),
         MayRun(c)' \subseteq (MayRun(c) \ X) \cup Y, AtRisk(c)' \subseteq AtRisk(c) \ Lost,
         execs'[c] + Cardinality(Y) =< execs[c] + Cardinality(X) + Cardinality(Lost)
  PROVE  Toll(c)' =< Toll(c)
<1> DEFINE A == MayRun(c)
           B == AtRisk(c)
           A1 == MayRun(c)'
           B1 == AtRisk(c)'
<1>1. IsFiniteSet(A) /\ IsFiniteSet(B)
  BY FiniteMesh
<1>2. IsFiniteSet({}) /\ Cardinality({}) = 0 /\ B1 \subseteq (B \ Lost) \cup {}
  BY FS_EmptySet
<1>3. execs[c] \in Nat /\ execs'[c] \in Nat
  BY DEF Discipline, TypeOK
<1>4. Toll(c) = execs[c] + Cardinality(A) + Cardinality(B)
  BY DEF Toll
<1>5. Toll(c)' = execs'[c] + Cardinality(A1) + Cardinality(B1)
  BY DEF Toll
<1>6. X \in SUBSET A /\ Lost \in SUBSET B /\ A1 \subseteq (A \ X) \cup Y
  OBVIOUS
<1> HIDE DEF A, B, A1, B1
<1>7. /\ Cardinality(A1) \in Nat /\ Cardinality(A) \in Nat
      /\ Cardinality(X) \in Nat /\ Cardinality(Y) \in Nat
      /\ Cardinality(A1) + Cardinality(X) =< Cardinality(A) + Cardinality(Y)
  BY <1>1, <1>6, Exchanged
<1>8. /\ Cardinality(B1) \in Nat /\ Cardinality(B) \in Nat /\ Cardinality(Lost) \in Nat
      /\ Cardinality(B1) + Cardinality(Lost) =< Cardinality(B)
  <2> DEFINE none == {}
  <2>1. IsFiniteSet(none) /\ Cardinality(none) = 0 /\ B1 \subseteq (B \ Lost) \cup none
    BY <1>2
  <2> HIDE DEF none
  <2>2. /\ Cardinality(B1) \in Nat /\ Cardinality(B) \in Nat /\ Cardinality(Lost) \in Nat
        /\ Cardinality(B1) + Cardinality(Lost) =< Cardinality(B) + Cardinality(none)
    BY <1>1, <1>6, <2>1, Exchanged
  <2> QED
    BY <2>1, <2>2
<1> QED
  BY <1>3, <1>4, <1>5, <1>7, <1>8

(* The common cases: nothing gets more; a thread takes over from another.   *)
LEMMA TollStays ==
  ASSUME Discipline, Discipline', NEW c \in Client, MayRun(c)' \subseteq MayRun(c),
         AtRisk(c)' \subseteq AtRisk(c), execs'[c] = execs[c]
  PROVE  Toll(c)' =< Toll(c)
<1>1. IsFiniteSet({}) /\ Cardinality({}) = 0
  BY FS_EmptySet
<1>2. execs[c] \in Nat
  BY DEF Discipline, TypeOK
<1>3. execs'[c] + 0 =< execs[c] + 0 + 0
  BY <1>2
<1>4. MayRun(c)' \subseteq (MayRun(c) \ {}) \cup {} /\ AtRisk(c)' \subseteq AtRisk(c) \ {}
  OBVIOUS
<1>5. {} \in SUBSET MayRun(c) /\ {} \in SUBSET AtRisk(c)
  OBVIOUS
<1> QED
  BY <1>1, <1>3, <1>4, <1>5, TollBalance

(* A thread that hands the statement to another one leaves the toll alone.  *)
LEMMA TollPasses ==
  ASSUME Discipline, Discipline', NEW c \in Client, NEW x \in MayRun(c), NEW y,
         MayRun(c)' \subseteq (MayRun(c) \ {x}) \cup {y},
         AtRisk(c)' \subseteq AtRisk(c), execs'[c] = execs[c]
  PROVE  Toll(c)' =< Toll(c)
<1>1. IsFiniteSet({}) /\ Cardinality({}) = 0
  BY FS_EmptySet
<1>2. IsFiniteSet({y}) /\ Cardinality({y}) = 1 /\ Cardinality({x}) = 1
  BY FS_Singleton
<1>3. execs[c] \in Nat
  BY DEF Discipline, TypeOK
<1>4. execs'[c] + 1 =< execs[c] + 1 + 0
  BY <1>3
<1>5. AtRisk(c)' \subseteq AtRisk(c) \ {} /\ {x} \in SUBSET MayRun(c) /\ {} \in SUBSET AtRisk(c)
  OBVIOUS
<1> QED
  BY <1>1, <1>2, <1>4, <1>5, TollBalance

(* A response that is lost makes the waiting thread a leaf again. *)
LEMMA TollIsPaid ==
  ASSUME Discipline, Discipline', NEW c \in Client, NEW Lost \in SUBSET AtRisk(c),
         MayRun(c)' \subseteq MayRun(c) \cup { holder[l] : l \in Lost },
         AtRisk(c)' \subseteq AtRisk(c) \ Lost, execs'[c] = execs[c]
  PROVE  Toll(c)' =< Toll(c)
<1> DEFINE Y == { holder[l] : l \in Lost }
           f == [l \in Lost |-> holder[l]]
<1>1. IsFiniteSet(Lost)
  BY FiniteMesh, FS_Subset
<1>2. f \in Surjection(Lost, Y)
  BY DEF Surjection
<1>3. IsFiniteSet(Y) /\ Cardinality(Y) <= Cardinality(Lost)
  <2> HIDE DEF f, Y
  <2> QED
    BY <1>1, <1>2, FS_Surjection
<1>4. Cardinality(Lost) \in Nat /\ Cardinality(Y) \in Nat
  BY <1>1, <1>3, FS_CardinalityType
<1>5. IsFiniteSet({}) /\ Cardinality({}) = 0
  BY FS_EmptySet
<1>6. execs[c] \in Nat
  BY DEF Discipline, TypeOK
<1>7. MayRun(c)' \subseteq (MayRun(c) \ {}) \cup Y /\ {} \in SUBSET MayRun(c)
  OBVIOUS
<1> HIDE DEF f, Y
<1>8. execs'[c] + Cardinality(Y) =< execs[c] + Cardinality({}) + Cardinality(Lost)
  BY <1>3, <1>4, <1>5, <1>6
<1> QED
  BY <1>3, <1>7, <1>8, TollBalance

(* A thread that a step leaves alone, and whose connection it leaves alone, *)
(* may have the statement run only if it might before.                      *)
LEMMA StaysInMayRun ==
  ASSUME NEW c \in Client, NEW u \in Thread, u \in MayRun(c)',
         asked'[c] = asked[c],
         req'[u] = req[u], pc'[u] = pc[u], hop'[u] = hop[u], resp'[u] = resp[u],
         pc[u] = "recv" => /\ sock'[Out(u)] = sock[Out(u)] /\ outbox'[Out(u)] = outbox[Out(u)]
                           /\ Busy(Out(u)) => req'[Out(u)] # NoRequest
  PROVE  u \in MayRun(c)
<1>1. CASE asked[c] = NoRequest
  BY <1>1 DEF MayRun
<1>2. CASE asked[c] # NoRequest
  <2>1. Leaf(u)' /\ ~Decided(u)' /\ req'[u].origin = c
    BY <1>2 DEF MayRun
  <2>2. Out(u)' = Out(u)
    BY DEF Out, At
  <2>3. Leaf(u)
    BY <2>1, <2>2 DEF Leaf, Busy, Open
  <2>4. ~Decided(u)
    BY <2>1, <2>2 DEF Decided
  <2> QED
    BY <1>2, <2>1, <2>3, <2>4 DEF MayRun
<1> QED
  BY <1>1, <1>2

(* What awaits a response awaits it on its own connection. *)
LEMMA WaitingFacts ==
  ASSUME Discipline, NEW u \in Thread, pc[u] = "recv"
  PROVE  Out(u) \in Link /\ Out(u) \in Thread /\ holder[Out(u)] = u
BY ThreadFacts DEF Discipline, ThreadState, ThreadOK, LockDiscipline, Holding

(* A new request is at risk nowhere before and with its client after. *)
LEMMA IssueMayRun ==
  ASSUME Discipline, RequestState, NEW d \in Client, Issue(d), NEW c \in Client
  PROVE  MayRun(c)' \subseteq MayRun(c)
<1>0. TypeOK /\ d \in Thread /\ d \notin Link
  BY ThreadFacts DEF Discipline
<1>1. /\ UNCHANGED <<hop, resp, outbox, sock>> /\ asked[d] = NoRequest
      /\ \A x \in Thread \ {d} : req'[x] = req[x] /\ pc'[x] = pc[x]
      /\ \A x \in Client \ {d} : asked'[x] = asked[x]
      /\ req'[d] = asked'[d] /\ asked'[d] # NoRequest /\ req'[d].origin = d
  <2>1. PICK k \in RouteKey \cup {NoKey}, b \in HopBudgets :
          /\ asked' = [asked EXCEPT ![d] = [origin |-> d, key |-> k, route |-> <<>>, budget |-> b]]
          /\ req' = [req EXCEPT ![d] = [origin |-> d, key |-> k, route |-> <<>>, budget |-> b]]
    BY DEF Issue
  <2>2. [origin |-> d, key |-> k, route |-> <<>>, budget |-> b] # NoRequest
    <3>1. k \in RouteKey \cup {NoKey} /\ b \in Nat /\ <<>> \in Seq(Node)
      BY MeshAssumption
    <3>2. [origin |-> d, key |-> k, route |-> <<>>, budget |-> b] \in Request
      BY <3>1 DEF Request
    <3> QED
      BY <3>2, MeshAssumption
  <2> QED
    BY <1>0, <2>1, <2>2 DEF TypeOK, Issue, linkVars
<1> SUFFICES ASSUME NEW u \in Thread, u \in MayRun(c)'
             PROVE  u \in MayRun(c)
  BY DEF MayRun
<1>2. CASE u = d
  <2>1. c = d
    BY <1>0, <1>1, <1>2 DEF MayRun
  <2> QED
    BY <1>0, <1>1, <1>2, <2>1 DEF MayRun
<1>3. CASE u # d
  <2>1. pc[u] = "recv" => Out(u) \in Thread \ {d}
    BY <1>0, WaitingFacts
  <2>2. CASE c # d
    BY <1>1, <1>3, <2>1, <2>2, StaysInMayRun DEF Busy
  <2>3. CASE c = d
    <3>1. Busy(u) /\ req[u].origin = d
      BY <1>1, <1>3, <2>3 DEF MayRun, Leaf, Busy
    <3> QED
      BY <1>1, <3>1 DEF RequestState, RequestKept
  <2> QED
    BY <2>2, <2>3
<1> QED
  BY <1>2, <1>3

(* A gateway adds no thread, and one that runs the statement is done.       *)
LEMMA GatewayMayRun ==
  ASSUME Discipline, NEW t \in Thread, GatewayStep(t), NEW c \in Client
  PROVE  /\ MayRun(c)' \subseteq MayRun(c)
         /\ ExecuteLocally(t) /\ req[t].origin = c /\ asked[c] # NoRequest
              => t \in MayRun(c) /\ t \notin MayRun(c)'
<1>0. TypeOK
  BY DEF Discipline
<1>1. /\ pc[t] # "idle" /\ pc[t] # "recv" /\ pc'[t] # "recv" /\ Busy(t) /\ Leaf(t)
      /\ pc[t] = "execute" \/ Observe(t)
  <2>1. pc[t] = "execute" \/ Observe(t)
    BY DEF GatewayStep, RefuseStatement, RefuseExhausted, ExecuteLocally, Executable, ChooseHop
  <2>2. pc[t] \in {"execute", "observe"}
    BY <2>1 DEF Observe
  <2>3. pc'[t] \in {"return", "lock"}
    BY <1>0 DEF TypeOK, GatewayStep, RefuseStatement, RefuseExhausted, ExecuteLocally, Return,
       ChooseHop, Observe
  <2> QED
    BY <2>1, <2>2, <2>3, RequestFacts DEF Busy, Leaf
<1>2. ASSUME ~ChooseHop(t)
      PROVE  req' = req /\ hop' = hop
  BY <1>2 DEF GatewayStep, RefuseStatement, RefuseExhausted, ExecuteLocally, Return, Observe
<1>3. Busy(t)' /\ req'[t].origin = req[t].origin
  <2>1. CASE ChooseHop(t)
    <3>1. req'[t] = Extended(t)
      BY <1>0, <2>1 DEF TypeOK, ChooseHop
    <3>2. Extended(t) \in Request
      BY <2>1, RequestFacts, ThreadFacts DEF Extended, Request, ChooseHop, Executable
    <3>3. Extended(t) # NoRequest
      BY <3>2, MeshAssumption
    <3>4. Extended(t).origin = req[t].origin
      BY DEF Extended
    <3> QED
      BY <3>1, <3>3, <3>4 DEF Busy
  <2> QED
    BY <1>1, <1>2, <2>1 DEF Busy
<1>4. \A x \in Thread \ {t} : /\ req'[x] = req[x] /\ pc'[x] = pc[x]
                              /\ hop'[x] = hop[x] /\ resp'[x] = resp[x]
  BY <1>0 DEF TypeOK, GatewayStep, RefuseStatement, RefuseExhausted, ExecuteLocally, Return,
     ChooseHop, Observe
<1>5. outbox' = outbox /\ sock' = sock /\ asked' = asked
  BY DEF GatewayStep, RefuseStatement, RefuseExhausted, ExecuteLocally, Return, ChooseHop,
     Observe, linkVars, clientVars
<1>6. pc[t] = "execute" => ~Decided(t)
  BY DEF Decided, Discipline, ThreadState, ThreadOK
<1>7. ASSUME NEW u \in Thread, u \in MayRun(c)'
      PROVE  u \in MayRun(c)
  <2>1. CASE u # t
    <3>1. pc[u] = "recv" => (Busy(Out(u)) => req'[Out(u)] # NoRequest)
      BY <1>3, <1>4, WaitingFacts DEF Busy
    <3> QED
      BY <1>4, <1>5, <1>7, <2>1, <3>1, StaysInMayRun
  <2>2. CASE u = t /\ asked[c] # NoRequest
    <3>1. ~Decided(t)' /\ req[t].origin = c
      BY <1>3, <1>5, <1>7, <2>2 DEF MayRun
    <3>2. ~Decided(t)
      <4>1. CASE Observe(t)
        <5>1. resp' = resp
          BY <4>1 DEF Observe
        <5> QED
          BY <1>1, <3>1, <5>1 DEF Decided
      <4> QED
        BY <1>1, <1>6, <4>1
    <3> QED
      BY <1>1, <2>2, <3>1, <3>2 DEF MayRun
  <2>3. CASE asked[c] = NoRequest
    BY <1>5, <1>7, <2>3 DEF MayRun
  <2> QED
    BY <2>1, <2>2, <2>3
<1>8. ASSUME ExecuteLocally(t), req[t].origin = c, asked[c] # NoRequest
      PROVE  t \in MayRun(c) /\ t \notin MayRun(c)'
  <2>1. pc[t] = "execute"
    BY <1>8 DEF ExecuteLocally, Executable
  <2>2. Decided(t)'
    <3>1. PICK status \in ExecutorStatus : resp' = [resp EXCEPT ![t] = Reply(t, status)]
      BY <1>8 DEF ExecuteLocally, Return
    <3>2. Reply(t, status) # NoResponse /\ Reply(t, status).status = status
      BY <1>1, ReplyFacts, MeshAssumption
    <3> QED
      BY <1>0, <3>1, <3>2 DEF TypeOK, Decided
  <2> QED
    BY <1>1, <1>5, <1>6, <1>8, <2>1, <2>2 DEF MayRun
<1>9. MayRun(c)' \subseteq Thread
  BY DEF MayRun
<1> QED
  BY <1>7, <1>8, <1>9

(* Forward adds none: it gives a handler up only when that cannot answer,   *)
(* and retries only what the executors did not decide.                      *)
LEMMA ForwarderMayRun ==
  ASSUME Discipline, NEW t \in Thread, ForwarderStep(t), NEW c \in Client
  PROVE  MayRun(c)' \subseteq MayRun(c)
<1>0. TypeOK
  BY DEF Discipline
<1>1. /\ pc[t] \in {"lock", "exchange", "recv", "respond"} /\ Busy(t) /\ Out(t) \in Link
      /\ pc[t] # "lock" => holder[Out(t)] = t
      /\ pc[t] # "respond" => resp[t] = NoResponse
  <2>1. pc[t] \in {"lock", "exchange", "recv", "respond"}
    BY DEF ForwarderStep, UnknownPeer, LockConnection, Connect, ConnectFailed, Send,
       ExchangeFailed, RecvResponse, Retry, Unlock
  <2> QED
    BY <2>1 DEF Discipline, ThreadState, ThreadOK, LockDiscipline, Holding, Busy
<1>2. req' = req /\ hop' = hop /\ asked' = asked
  BY DEF ForwarderStep, UnknownPeer, LockConnection, Connect, ConnectFailed, Send,
     ExchangeFailed, Drop, RecvResponse, Retry, Unlock, threadVars, clientVars
<1>3. \A x \in Thread \ {t} : pc'[x] = pc[x] /\ resp'[x] = resp[x]
  BY <1>0 DEF TypeOK, ForwarderStep, UnknownPeer, LockConnection, Connect, ConnectFailed, Send,
     ExchangeFailed, Drop, RecvResponse, Retry, Unlock, threadVars
<1>4. \A l \in Link : holder[l] # t => sock'[l] = sock[l] /\ outbox'[l] = outbox[l]
  <2>1. CASE UnknownPeer(t) \/ LockConnection(t)
    BY <2>1 DEF UnknownPeer, LockConnection, linkVars
  <2>2. CASE Connect(t) \/ ConnectFailed(t) \/ Send(t) \/ ExchangeFailed(t) \/ RecvResponse(t)
               \/ Retry(t) \/ Unlock(t)
    <3>1. holder[Out(t)] = t
      BY <1>1, <2>2 DEF Connect, ConnectFailed, Send, ExchangeFailed, RecvResponse, Retry, Unlock
    <3> QED
      BY <1>0, <1>1, <2>2, <3>1
      DEF TypeOK, Connect, ConnectFailed, Send, ExchangeFailed, Drop, RecvResponse, Retry, Unlock,
          linkVars
  <2> QED
    BY <2>1, <2>2 DEF ForwarderStep
<1>5. ASSUME ~Decided(t)'
      PROVE  Leaf(t) /\ ~Decided(t)
  <2>1. CASE UnknownPeer(t) \/ LockConnection(t) \/ Connect(t) \/ ConnectFailed(t) \/ Send(t)
    <3>1. pc[t] \in {"lock", "exchange"}
      BY <2>1 DEF UnknownPeer, LockConnection, Connect, ConnectFailed, Send
    <3> QED
      BY <1>1, <3>1 DEF Leaf, Decided
  <2>2. CASE ExchangeFailed(t)
    <3>1. sock[Out(t)] = "stale" /\ (pc[t] = "recv" => outbox[Out(t)] = <<>>) /\ pc[t] # "respond"
      BY <2>2 DEF ExchangeFailed
    <3> QED
      BY <1>1, <3>1 DEF Leaf, Decided, Open
  <2>3. CASE RecvResponse(t)
    <3>1. /\ pc[t] = "recv" /\ outbox[Out(t)] # <<>> /\ pc'[t] = "respond"
          /\ resp'[t] = Head(outbox[Out(t)])
      BY <1>0, <2>3 DEF TypeOK, RecvResponse
    <3>2. Leaf(t)
      BY <1>1, <3>1 DEF Leaf, Discipline, LinkState, LinkOK
    <3>3. resp'[t] # NoResponse
      <4>1. Discipline'
        BY ForwarderSteps
      <4> QED
        BY <3>1, <4>1 DEF Discipline, ThreadState, ThreadOK
    <3> QED
      BY <1>1, <1>5, <3>1, <3>2, <3>3 DEF Decided
  <2>4. CASE Retry(t)
    <3>1. pc[t] = "respond" /\ resp[t].status = "ShardUnavailable"
      BY <2>4 DEF Retry, WillRetry
    <3> QED
      BY <1>1, <3>1, ExecutorAssumption DEF Leaf, Decided
  <2>5. CASE Unlock(t)
    <3>1. pc[t] = "respond" /\ resp' = resp /\ pc'[t] = "observe"
      BY <1>0, <2>5 DEF TypeOK, Unlock
    <3> QED
      BY <1>1, <1>5, <3>1 DEF Leaf, Decided
  <2> QED
    BY <2>1, <2>2, <2>3, <2>4, <2>5 DEF ForwarderStep
<1> SUFFICES ASSUME NEW u \in Thread, u \in MayRun(c)'
             PROVE  u \in MayRun(c)
  BY DEF MayRun
<1>6. CASE u # t
  <2>1. pc[u] = "recv" => Out(u) \in Link /\ holder[Out(u)] # t
    BY <1>6, WaitingFacts
  <2> QED
    BY <1>2, <1>3, <1>4, <1>6, <2>1, StaysInMayRun DEF Busy
<1>7. CASE u = t
  BY <1>2, <1>5, <1>7 DEF MayRun
<1> QED
  BY <1>6, <1>7

(* A client's thread that leaves makes no other one work. *)
LEMMA ReturnToClientMayRun ==
  ASSUME Discipline, NEW d \in Client, ReturnToClient(d), NEW c \in Client
  PROVE  MayRun(c)' \subseteq MayRun(c)
<1>0. TypeOK /\ d \in Thread /\ d \notin Link
  BY ThreadFacts DEF Discipline
<1>1. /\ req'[d] = NoRequest
      /\ \A x \in Thread \ {d} : /\ req'[x] = req[x] /\ pc'[x] = pc[x]
                                 /\ hop'[x] = hop[x] /\ resp'[x] = resp[x]
      /\ UNCHANGED <<sock, outbox, asked>>
  BY <1>0 DEF TypeOK, ReturnToClient, Finish
<1> SUFFICES ASSUME NEW u \in Thread, u \in MayRun(c)'
             PROVE  u \in MayRun(c)
  BY DEF MayRun
<1>2. CASE asked[c] = NoRequest
  BY <1>1, <1>2 DEF MayRun
<1>3. CASE asked[c] # NoRequest
  <2>1. u # d
    BY <1>1, <1>3 DEF MayRun, Leaf, Busy
  <2>2. pc[u] = "recv" => Out(u) \in Thread \ {d}
    BY <1>0, WaitingFacts
  <2> QED
    BY <1>1, <2>1, <2>2, StaysInMayRun DEF Busy
<1> QED
  BY <1>2, <1>3

(* A handler that answers hands its place to the thread that waits for it,  *)
(* if a statement that it did not decide is still open; one whose answer    *)
(* cannot be sent leaves that thread with nothing.                          *)
LEMMA ReturnToPeerMayRun ==
  ASSUME Discipline, NEW l \in Link, ReturnToPeer(l), NEW c \in Client
  PROVE  \/ MayRun(c)' \subseteq MayRun(c)
         \/ l \in MayRun(c) /\ MayRun(c)' \subseteq (MayRun(c) \ {l}) \cup {holder[l]}
         \/ /\ sock[l] = "orphaned" /\ sock'[l] = "stale" /\ Awaited(l)
            /\ req[holder[l]].origin = c /\ MayRun(c)' \subseteq MayRun(c) \cup {holder[l]}
<1>0. TypeOK /\ l \in Thread
  BY ThreadFacts DEF Discipline
<1>1. /\ pc[l] = "return" /\ Busy(l) /\ req'[l] = NoRequest /\ asked' = asked
      /\ resp[l] # NoResponse
      /\ \A x \in Thread \ {l} : /\ req'[x] = req[x] /\ pc'[x] = pc[x]
                                 /\ hop'[x] = hop[x] /\ resp'[x] = resp[x]
      /\ \A k \in Link \ {l} : sock'[k] = sock[k] /\ outbox'[k] = outbox[k]
  BY <1>0 DEF TypeOK, ReturnToPeer, Finish, clientVars, Discipline, ThreadState, ThreadOK, Busy
<1>2. CASE asked[c] = NoRequest
  BY <1>1, <1>2 DEF MayRun
<1>3. ASSUME asked[c] # NoRequest, NEW u \in Thread, u \in MayRun(c)'
      PROVE  /\ u # l
             /\ u \in MayRun(c) \/ (Open(l) /\ pc[u] = "recv" /\ Out(u) = l /\ req[u].origin = c)
  <2>1. u # l
    BY <1>1, <1>3 DEF MayRun, Leaf, Busy
  <2>2. CASE ~(pc[u] = "recv" /\ Out(u) = l)
    <3>1. pc[u] = "recv" => Out(u) \in Link \ {l} /\ Out(u) \in Thread \ {l}
      BY <2>2, WaitingFacts
    <3> QED
      BY <1>1, <1>3, <2>1, <3>1, StaysInMayRun DEF Busy
  <2>3. CASE pc[u] = "recv" /\ Out(u) = l /\ ~Open(l)
    <3>1. sock' = sock /\ outbox' = outbox
      BY <2>3 DEF ReturnToPeer, Open
    <3>2. Leaf(u)' /\ ~Decided(u)' /\ req'[u].origin = c
      BY <1>1, <1>3 DEF MayRun
    <3>3. Leaf(u) /\ ~Decided(u)
      BY <1>1, <2>1, <2>3, <3>1, <3>2 DEF Leaf, Decided, Busy, Out, At
    <3> QED
      BY <1>1, <1>3, <2>1, <3>2, <3>3 DEF MayRun
  <2>4. CASE pc[u] = "recv" /\ Out(u) = l /\ Open(l)
    <3>1. req'[u].origin = c
      BY <1>1, <1>3 DEF MayRun
    <3> QED
      BY <1>1, <2>1, <2>4, <3>1
  <2> QED
    BY <2>1, <2>2, <2>3, <2>4
<1>4. MayRun(c)' \subseteq Thread
  BY DEF MayRun
<1>5. CASE asked[c] # NoRequest /\ ~Open(l)
  BY <1>3, <1>4, <1>5
<1>6. CASE asked[c] # NoRequest /\ Open(l)
  <2>1. Awaited(l) /\ outbox[l] = <<>> /\ req[l].origin = req[holder[l]].origin
    BY <1>1, <1>6 DEF Discipline, LinkState, LinkOK
  <2>2. \A u \in Thread : pc[u] = "recv" /\ Out(u) = l => u = holder[l]
    BY WaitingFacts
  <2>3. MayRun(c)' \subseteq (MayRun(c) \ {l}) \cup {holder[l]}
    BY <1>3, <1>4, <1>6, <2>2
  <2>4. CASE holder[l] \notin MayRun(c)'
    BY <2>3, <2>4
  <2>5. CASE holder[l] \in MayRun(c)' /\ req[holder[l]].origin = c /\ sock[l] = "live"
    <3>1. PICK u \in Thread : u = holder[l]
      BY <2>5 DEF MayRun
    <3>2. pc[u] = "recv" /\ Out(u) = l /\ u # l
      BY <1>0, <1>1, <2>1, <3>1 DEF TypeOK, Awaited, Discipline, LockDiscipline
    <3>3. ~Decided(u)'
      BY <1>1, <1>6, <2>5, <3>1 DEF MayRun
    <3>4. outbox'[l] = <<resp[l]>>
      <4>1. outbox' = [outbox EXCEPT ![l] = Append(@, resp[l])]
        BY <2>5 DEF ReturnToPeer, Open
      <4>2. outbox'[l] = Append(outbox[l], resp[l])
        BY <1>0, <4>1 DEF TypeOK
      <4>3. Append(<<>>, resp[l]) = <<resp[l]>>
        OBVIOUS
      <4> QED
        BY <2>1, <4>2, <4>3
    <3>5. outbox'[l] # <<>> /\ Head(outbox'[l]) = resp[l]
      BY <3>4
    <3>6. Out(u)' = l /\ pc'[u] = "recv"
      BY <1>1, <3>2 DEF Out, At
    <3>7. resp[l].status \notin ExecutorStatus
      BY <3>3, <3>5, <3>6 DEF Decided
    <3>8. ~Decided(l) /\ Leaf(l)
      BY <1>1, <3>7 DEF Decided, Leaf
    <3>9. l \in MayRun(c)
      BY <1>0, <1>6, <2>1, <2>5, <3>8 DEF MayRun
    <3> QED
      BY <2>3, <3>9
  <2>6. CASE holder[l] \in MayRun(c)' /\ req[holder[l]].origin = c /\ sock[l] = "orphaned"
    <3>1. sock'[l] = "stale"
      BY <1>0, <2>6 DEF TypeOK, ReturnToPeer, Open
    <3> QED
      BY <2>1, <2>3, <2>6, <3>1
  <2>7. CASE req[holder[l]].origin # c
    <3>1. holder[l] \in MayRun(c)' => holder[l] \in MayRun(c)
      BY <1>3, <1>4, <1>6, <2>7
    <3> QED
      BY <2>3, <3>1
  <2> QED
    BY <1>6, <2>4, <2>5, <2>6, <2>7 DEF Open
<1> QED
  BY <1>2, <1>5, <1>6

(* A handler takes the place of the thread that sent the frame. *)
LEMMA ReceiveMayRun ==
  ASSUME Discipline, NEW l \in Link, Receive(l), NEW c \in Client
  PROVE  \/ MayRun(c)' \subseteq MayRun(c)
         \/ \E h \in MayRun(c) : MayRun(c)' \subseteq (MayRun(c) \ {h}) \cup {l}
<1>0. TypeOK /\ l \in Thread
  BY ThreadFacts DEF Discipline
<1>1. /\ pc[l] = "idle" /\ pc'[l] = "execute" /\ req'[l] = Head(inbox[l]) /\ inbox[l] # <<>>
      /\ UNCHANGED <<resp, hop, outbox, sock, asked>> /\ Open(l)
      /\ \A x \in Thread \ {l} : req'[x] = req[x] /\ pc'[x] = pc[x]
  BY <1>0 DEF TypeOK, Receive, clientVars
<1>2. PICK h \in Thread : h = holder[l]
  BY <1>1 DEF Discipline, TypeOK, LinkState, LinkOK, Awaited
<1>3. /\ pc[h] = "recv" /\ req'[l] = req[h] /\ Out(h) = l /\ h # l /\ outbox[l] = <<>>
  <2>1. Awaited(l) /\ inbox[l] = <<req[h]>> /\ outbox[l] = <<>>
    BY <1>1, <1>2 DEF Discipline, LinkState, LinkOK
  <2>2. Head(<<req[h]>>) = req[h]
    OBVIOUS
  <2> QED
    BY <1>1, <1>2, <2>1, <2>2 DEF Awaited, Discipline, LockDiscipline
<1>4. Busy(h) /\ ~Busy(l) /\ resp[h] = NoResponse
  BY <1>0, <1>1, <1>3 DEF Busy, Discipline, ThreadState, ThreadOK
<1>5. Leaf(h) /\ ~Decided(h) /\ ~Leaf(h)'
  <2>1. Busy(l)'
    BY <1>1, <1>3, <1>4 DEF Busy
  <2>2. Out(h)' = l
    BY <1>1, <1>3 DEF Out, At
  <2> QED
    BY <1>1, <1>3, <1>4, <2>1, <2>2 DEF Leaf, Busy, Open, Decided
<1>6. ASSUME NEW u \in Thread, u \in MayRun(c)', u # l
      PROVE  u \in MayRun(c)
  <2>1. pc[u] = "recv" => Out(u) \in Thread
    BY WaitingFacts
  <2>2. \A x \in Thread : Busy(x) => req'[x] # NoRequest
    BY <1>1, <1>4 DEF Busy
  <2> QED
    BY <1>1, <1>6, <2>1, <2>2, StaysInMayRun
<1>7. MayRun(c)' \subseteq Thread
  BY DEF MayRun
<1>8. CASE l \notin MayRun(c)'
  BY <1>6, <1>7, <1>8
<1>9. CASE l \in MayRun(c)' /\ asked[c] # NoRequest
  <2>1. req[h].origin = c
    BY <1>1, <1>3, <1>9 DEF MayRun
  <2>2. h \in MayRun(c)
    BY <1>5, <1>9, <2>1 DEF MayRun
  <2>3. h \notin MayRun(c)'
    BY <1>1, <1>5, <1>9 DEF MayRun
  <2> QED
    BY <1>6, <1>7, <2>2, <2>3
<1>10. CASE asked[c] = NoRequest
  BY <1>1, <1>10 DEF MayRun
<1> QED
  BY <1>8, <1>9, <1>10

(* Nobody worked yet for the thread whose frame is lost: it stays a leaf. *)
LEMMA LoseFrameMayRun ==
  ASSUME Discipline, NEW l \in Link, LoseFrame(l), NEW c \in Client
  PROVE  MayRun(c)' \subseteq MayRun(c)
<1>0. TypeOK
  BY DEF Discipline
<1>1. UNCHANGED threadVars /\ UNCHANGED <<outbox, asked>> /\ pc[l] = "idle"
  BY DEF LoseFrame, clientVars
<1>2. /\ ~Busy(l) /\ \A k \in Link : k # l => sock'[k] = sock[k]
  BY <1>0, <1>1, ThreadFacts DEF LoseFrame, TypeOK, Busy, Discipline, ThreadState, ThreadOK
<1>3. ASSUME NEW u \in Thread, u \in MayRun(c)', u \notin MayRun(c)
      PROVE  FALSE
  <2>1. asked[c] # NoRequest
    BY <1>1, <1>3 DEF MayRun
  <2>2. /\ Leaf(u)' /\ Busy(u) /\ req[u].origin = c /\ ~Decided(u)
        /\ Out(u)' = Out(u) /\ pc' = pc /\ req' = req
    BY <1>1, <1>3, <2>1 DEF MayRun, Leaf, Busy, Decided, Out, At, threadVars
  <2>3. ~Leaf(u)
    BY <1>3, <2>1, <2>2 DEF MayRun
  <2>4. /\ pc[u] = "recv" /\ Open(Out(u)) /\ Busy(Out(u)) /\ ~Open(Out(u))'
    BY <2>2, <2>3 DEF Leaf, Busy, Open
  <2>5. Out(u) \in Link
    BY <2>4, WaitingFacts
  <2> QED
    BY <1>2, <2>2, <2>4, <2>5 DEF Open
<1> QED
  BY <1>3 DEF MayRun

(* Closing a server's connections gives up the handlers that work on them.  *)
LEMMA CloseMayRun ==
  ASSUME Discipline, NEW n \in Node, CloseConnections(n), NEW c \in Client
  PROVE  \E Lost \in SUBSET Link :
           /\ \A l \in Lost : /\ Awaited(l) /\ l[2] = n /\ req[holder[l]].origin = c
                              /\ sock'[l] = "stale"
           /\ MayRun(c)' \subseteq MayRun(c) \cup { holder[l] : l \in Lost }
<1>7. PICK Lost : Lost = { l \in Link : /\ l[2] = n /\ sock[l] = "live" /\ Busy(l)
                                         /\ req[holder[l]].origin = c }
  OBVIOUS
<1>0. TypeOK
  BY DEF Discipline
<1>1. /\ UNCHANGED threadVars /\ outbox' = outbox /\ asked' = asked
      /\ \E blocked \in SUBSET { l \in Link : l[2] = n /\ pc[l] = "idle" } :
           sock' = AllClosed(n, blocked)
  BY DEF CloseConnections, clientVars
<1>2. /\ \A l \in Link : l[2] # n \/ sock[l] # "live" => sock'[l] = sock[l]
      /\ \A l \in Link : l[2] = n /\ sock[l] = "live" /\ pc[l] # "idle" => sock'[l] = "stale"
  BY <1>1 DEF AllClosed
<1>3. \A l \in Link : Busy(l) => pc[l] # "idle"
  BY ThreadFacts DEF Busy, Discipline, ThreadState, ThreadOK
<1>4. \A l \in Lost : Awaited(l) /\ sock'[l] = "stale"
  BY <1>2, <1>3, <1>7 DEF Discipline, LinkState, LinkOK, Open
<1>5. ASSUME NEW u \in Thread, u \in MayRun(c)', u \notin MayRun(c)
      PROVE  \E l \in Lost : holder[l] = u
  <2>1. asked[c] # NoRequest
    BY <1>1, <1>5 DEF MayRun
  <2>2. /\ Leaf(u)' /\ Busy(u) /\ req[u].origin = c /\ ~Decided(u)
        /\ Out(u)' = Out(u) /\ pc' = pc /\ req' = req
    BY <1>1, <1>5, <2>1 DEF MayRun, Leaf, Busy, Decided, Out, At, threadVars
  <2>3. ~Leaf(u)
    BY <1>5, <2>1, <2>2 DEF MayRun
  <2>4. /\ pc[u] = "recv" /\ Open(Out(u)) /\ Busy(Out(u)) /\ ~Open(Out(u))'
    BY <2>2, <2>3 DEF Leaf, Busy, Open
  <2>5. Out(u) \in Link /\ holder[Out(u)] = u
    BY <2>4, WaitingFacts
  <2>6. Out(u)[2] = n /\ sock[Out(u)] = "live"
    BY <1>2, <2>2, <2>4, <2>5 DEF Open
  <2> QED
    BY <1>5, <1>7, <2>1, <2>2, <2>4, <2>5, <2>6
<1>6. MayRun(c)' \subseteq Thread
  BY DEF MayRun
<1>8. Lost \in SUBSET Link /\ \A l \in Lost : l[2] = n /\ req[holder[l]].origin = c
  BY <1>7
<1>9. MayRun(c)' \subseteq MayRun(c) \cup { holder[l] : l \in Lost }
  BY <1>5, <1>6
<1> QED
  BY <1>4, <1>8, <1>9

(* The nodes on a path are reachable from its first without entering one    *)
(* that is not on it.                                                       *)
LEMMA PathIsReachable ==
  ASSUME NEW path \in Seq(Node), path # <<>>, Along(path), NEW n, n \notin NodesOn(path)
  PROVE  path[Len(path)] \in Reachable(path[1], {n})
<1> DEFINE bad == { i \in 1 .. Len(path) : path[i] \notin Reachable(path[1], {n}) }
<1>1. /\ Len(path) \in Nat /\ Len(path) > 0 /\ \A i \in 1 .. Len(path) : path[i] \in Node
      /\ DOMAIN path = 1 .. Len(path)
  OBVIOUS
<1>0. Len(path) \in bad \/ path[Len(path)] \in Reachable(path[1], {n})
  BY <1>1
<1> SUFFICES ASSUME bad # {}
             PROVE  FALSE
  BY <1>0
<1>2. bad \in SUBSET Nat
  BY <1>1
<1>3. PICK i \in bad : \A j \in bad : i <= j
  <2> HIDE DEF bad
  <2> QED
    BY <1>2, SmallestOf
<1>4. path[1] \in Reachable(path[1], {n})
  BY <1>1, ReachableFacts
<1>5. i \in 2 .. Len(path) /\ i - 1 \in 1 .. Len(path) /\ i - 1 \notin bad
  <2>1. i \in 1 .. Len(path) /\ path[i] \notin Reachable(path[1], {n})
    BY <1>3
  <2>2. i # 1
    BY <1>4, <2>1
  <2>3. i - 1 \notin bad
    <3> HIDE DEF bad
    <3> QED
      BY <1>3, <2>1
  <2> QED
    BY <1>1, <2>1, <2>2, <2>3
<1>6. path[i - 1] \in Reachable(path[1], {n})
  BY <1>5
<1>7. PICK l \in Link : l = <<path[i - 1], path[i]>>
  BY <1>5 DEF Along
<1>8. path[i] # n
  BY <1>1, <1>5 DEF NodesOn
<1>9. l[2] \in Reachable(path[1], {n})
  <2>1. path[1] \in Node /\ l[1] = path[i - 1] /\ l[2] \notin {n}
    BY <1>1, <1>7, <1>8
  <2> QED
    BY <1>6, <2>1, ReachableFacts
<1> QED
  BY <1>3, <1>7, <1>9

(* A request that is awaited on a connection is on one of its ways.         *)
LEMMA AwaitedOnWay ==
  ASSUME Discipline, RequestState, NEW l \in Link, Awaited(l)
  PROVE  l \in WaysInto(req[holder[l]].origin, l[2])
<1>1. PICK h \in Thread : h = holder[l]
  BY DEF Awaited, Discipline, TypeOK
<1>2. pc[h] = "recv" /\ Out(h) = l /\ Forwarding(h) /\ Busy(h) /\ At(h) = l[1] /\ hop[h] = l[2]
  BY <1>1 DEF Awaited, Discipline, LockDiscipline, Forwarding, Busy, ThreadState, ThreadOK, Out
<1>3. req[h].route \in Seq(Node) /\ l[2] \in Node
  BY <1>2, RequestFacts, ThreadFacts
<1>4. /\ req[h].route # <<>> /\ Along(req[h].route)
      /\ req[h].route[1] = Entry[req[h].origin]
      /\ req[h].route[Len(req[h].route)] = l[1]
      /\ l[2] \notin NodesOn(req[h].route)
  BY <1>2 DEF RequestState, RouteKept, Trail
<1>5. l[1] \in Reachable(Entry[req[h].origin], {l[2]})
  BY <1>3, <1>4, PathIsReachable
<1>6. l[2] # Entry[req[h].origin]
  <2>1. 1 \in DOMAIN req[h].route
    BY <1>3, <1>4
  <2> QED
    BY <1>4, <2>1 DEF NodesOn
<1> QED
  BY <1>1, <1>5, <1>6 DEF WaysInto

(* A connection comes to be at risk only when its server is stopped. *)
LEMMA RisksAreStops ==
  ASSUME Discipline, [Next]_vars, NEW l \in Link
  PROVE  LET InDanger == server[l[2]] \in {"closing", "joined"} \/ sock[l] = "orphaned"
         IN  InDanger' => InDanger \/ StopServer(l[2])
<1> DEFINE InDanger == server[l[2]] \in {"closing", "joined"} \/ sock[l] = "orphaned"
<1>0. TypeOK /\ l[2] \in Node
  BY ThreadFacts DEF Discipline
<1>1. CASE UNCHANGED <<server, sock>>
  BY <1>1
<1>2. ASSUME NEW t \in Thread, ForwarderStep(t)
      PROVE  InDanger' => InDanger
  <2>1. CASE Connect(t)
    <3>1. hop[t] \in Node
      BY <2>1 DEF Connect, Discipline, ThreadState, ThreadOK
    <3>2. /\ sock'[l] = "orphaned" => sock[l] = "orphaned"
          /\ \/ server' = server
             \/ /\ server[hop[t]] \in {"closing", "joined"}
                /\ server' = [server EXCEPT ![hop[t]] = "joined"]
      BY <1>0, <2>1 DEF TypeOK, Connect
    <3>3. server'[l[2]] = server[l[2]] \/ server[l[2]] \in {"closing", "joined"}
      BY <1>0, <3>1, <3>2 DEF TypeOK
    <3> QED
      BY <3>2, <3>3
  <2>2. CASE ConnectFailed(t) \/ ExchangeFailed(t)
    BY <1>0, <2>2 DEF TypeOK, ConnectFailed, ExchangeFailed, Drop, serverVars
  <2>3. CASE UnknownPeer(t) \/ LockConnection(t) \/ Send(t) \/ RecvResponse(t) \/ Retry(t) \/ Unlock(t)
    BY <2>3 DEF UnknownPeer, LockConnection, Send, RecvResponse, Retry, Unlock, linkVars, serverVars
  <2> QED
    BY <1>2, <2>1, <2>2, <2>3 DEF ForwarderStep
<1>3. ASSUME NEW t \in Thread, GatewayStep(t)
      PROVE  UNCHANGED <<server, sock>>
  BY <1>3 DEF GatewayStep, RefuseStatement, RefuseExhausted, ExecuteLocally, Return, ChooseHop,
     Observe, linkVars, serverVars
<1>4. ASSUME NEW c \in Client, Issue(c) \/ ReturnToClient(c)
      PROVE  UNCHANGED <<server, sock>>
  BY <1>4 DEF Issue, ReturnToClient, Finish, linkVars, serverVars
<1>5. ASSUME NEW k \in Link, ReturnToPeer(k)
      PROVE  InDanger' => InDanger
  BY <1>0, <1>5 DEF TypeOK, ReturnToPeer, Finish, serverVars
<1>6. ASSUME NEW k \in Link, Receive(k) \/ LoseFrame(k)
      PROVE  InDanger' => InDanger
  BY <1>0, <1>6 DEF TypeOK, Receive, LoseFrame, serverVars
<1>7. ASSUME NEW n \in Node, StopServer(n), n # l[2]
      PROVE  InDanger' => InDanger
  BY <1>0, <1>7 DEF TypeOK, StopServer, linkVars
<1>8. ASSUME NEW n \in Node, CloseConnections(n)
      PROVE  InDanger' => InDanger
  BY <1>0, <1>8 DEF TypeOK, CloseConnections, AllClosed, AcceptReturned
<1>9. ASSUME NEW n \in Node, JoinThreads(n) \/ StartServer(n) \/ Evaporate(n)
      PROVE  InDanger' => InDanger
  BY <1>0, <1>9 DEF TypeOK, JoinThreads, StartServer, Evaporate, linkVars, serverVars
<1>10. UNCHANGED vars => UNCHANGED <<server, sock>>
  BY DEF vars, linkVars, serverVars
<1> HIDE DEF InDanger
<1>11. UNCHANGED <<server, sock>> => (InDanger' => InDanger)
  BY <1>1 DEF InDanger
<1>12. InDanger' => InDanger \/ StopServer(l[2])
  BY <1>2, <1>3, <1>4, <1>5, <1>6, <1>7, <1>8, <1>9, <1>10, <1>11 DEF Next, ThreadStep, ServerStep
<1> QED
  BY <1>12 DEF InDanger

(* No step but a stop puts a connection at risk. *)
LEMMA AtRiskShrinks ==
  ASSUME Discipline, [Next]_vars, NEW c \in Client, \A n \in Node : ~StopServer(n)
  PROVE  AtRisk(c)' \subseteq AtRisk(c)
<1> SUFFICES ASSUME NEW l \in Link, l \in AtRisk(c)'
             PROVE  l \in AtRisk(c)
  BY DEF AtRisk
<1>1. l[2] \in Node
  BY ThreadFacts
<1>2. l \in WaysInto(c, l[2])
  BY DEF AtRisk, WaysInto, Reachable
<1>3. (server[l[2]] \in {"closing", "joined"} \/ sock[l] = "orphaned")'
  BY DEF AtRisk
<1> QED
  BY <1>1, <1>2, <1>3, RisksAreStops DEF AtRisk

(* Who executes, and what else can change the runs of a client. *)
LEMMA RunsOfOther ==
  ASSUME Discipline, NEW t \in Thread, GatewayStep(t), NEW c \in Client,
         ~(ExecuteLocally(t) /\ req[t].origin = c)
  PROVE  execs'[c] = execs[c]
<1>0. TypeOK
  BY DEF Discipline
<1>1. CASE ExecuteLocally(t)
  <2>1. execs' = [execs EXCEPT ![req[t].origin] = @ + 1] /\ req[t].origin # c
    BY <1>1 DEF ExecuteLocally
  <2> QED
    BY <1>0, <2>1 DEF TypeOK
<1>2. CASE ~ExecuteLocally(t)
  BY <1>2 DEF GatewayStep, RefuseStatement, RefuseExhausted, ChooseHop, Observe
<1> QED
  BY <1>1, <1>2

(* No step but a stop raises the toll of a client. *)
LEMMA NextToll ==
  ASSUME Discipline, RequestState, [Next]_vars, NEW c \in Client,
         \A n \in Node : ~StopServer(n)
  PROVE  Toll(c)' =< Toll(c)
<1>0. TypeOK /\ Discipline' /\ AtRisk(c)' \subseteq AtRisk(c)
  BY NextDiscipline, AtRiskShrinks DEF Discipline
<1>1. ASSUME NEW t \in Thread, GatewayStep(t)
      PROVE  Toll(c)' =< Toll(c)
  <2>1. CASE ExecuteLocally(t) /\ req[t].origin = c
    <3>1. pc[t] = "execute" /\ execs' = [execs EXCEPT ![req[t].origin] = @ + 1]
      BY <2>1 DEF ExecuteLocally, Executable
    <3>2. asked[c] # NoRequest
      BY <2>1, <3>1, RequestFacts DEF RequestState, RequestKept, Busy
    <3>3. t \in MayRun(c) /\ MayRun(c)' \subseteq MayRun(c) \ {t}
      BY <1>1, <2>1, <3>2, GatewayMayRun
    <3>4. execs[c] \in Nat /\ execs'[c] = execs[c] + 1
      BY <1>0, <2>1, <3>1 DEF TypeOK
    <3> DEFINE none == {}
    <3>5. IsFiniteSet(none) /\ Cardinality(none) = 0 /\ Cardinality({t}) = 1
      BY FS_EmptySet, FS_Singleton
    <3>6. /\ {t} \in SUBSET MayRun(c) /\ none \in SUBSET AtRisk(c)
          /\ MayRun(c)' \subseteq (MayRun(c) \ {t}) \cup none /\ AtRisk(c)' \subseteq AtRisk(c) \ none
      BY <1>0, <3>3
    <3> HIDE DEF none
    <3>7. execs'[c] + Cardinality(none) =< execs[c] + Cardinality({t}) + Cardinality(none)
      BY <3>4, <3>5
    <3> QED
      BY <1>0, <3>5, <3>6, <3>7, TollBalance
  <2>2. CASE ~(ExecuteLocally(t) /\ req[t].origin = c)
    <3>1. execs'[c] = execs[c] /\ MayRun(c)' \subseteq MayRun(c)
      BY <1>1, <2>2, RunsOfOther, GatewayMayRun
    <3> QED
      BY <1>0, <3>1, TollStays
  <2> QED
    BY <2>1, <2>2
<1>2. ASSUME NEW t \in Thread, ForwarderStep(t)
      PROVE  Toll(c)' =< Toll(c)
  <2>1. execs' = execs
    BY <1>2 DEF ForwarderStep, UnknownPeer, LockConnection, Connect, ConnectFailed, Send,
       ExchangeFailed, Drop, RecvResponse, Retry, Unlock
  <2> QED
    BY <1>0, <1>2, <2>1, ForwarderMayRun, TollStays
<1>3. ASSUME NEW d \in Client, ReturnToClient(d)
      PROVE  Toll(c)' =< Toll(c)
  <2>1. execs' = execs
    BY <1>3 DEF ReturnToClient, Finish
  <2> QED
    BY <1>0, <1>3, <2>1, ReturnToClientMayRun, TollStays
<1>4. ASSUME NEW d \in Client, Issue(d)
      PROVE  Toll(c)' =< Toll(c)
  <2>1. execs' = execs
    BY <1>4 DEF Issue
  <2> QED
    BY <1>0, <1>4, <2>1, IssueMayRun, TollStays
<1>5. ASSUME NEW l \in Link, Receive(l)
      PROVE  Toll(c)' =< Toll(c)
  <2>1. execs' = execs
    BY <1>5 DEF Receive
  <2> QED
    BY <1>0, <1>5, <2>1, ReceiveMayRun, TollStays, TollPasses
<1>6. ASSUME NEW l \in Link, ReturnToPeer(l)
      PROVE  Toll(c)' =< Toll(c)
  <2>1. execs' = execs /\ server' = server
    BY <1>6 DEF ReturnToPeer, Finish, serverVars
  <2>2. CASE \/ MayRun(c)' \subseteq MayRun(c)
             \/ l \in MayRun(c) /\ MayRun(c)' \subseteq (MayRun(c) \ {l}) \cup {holder[l]}
    BY <1>0, <2>1, <2>2, TollStays, TollPasses
  <2>3. CASE /\ sock[l] = "orphaned" /\ sock'[l] = "stale" /\ Awaited(l)
             /\ req[holder[l]].origin = c /\ MayRun(c)' \subseteq MayRun(c) \cup {holder[l]}
    <3>1. l \in AtRisk(c)
      BY <2>3, AwaitedOnWay DEF AtRisk
    <3>2. server'[l[2]] = "draining"
      BY <2>1, <2>3 DEF Discipline, LinkState, LinkOK
    <3>3. l \notin AtRisk(c)'
      BY <2>3, <3>2 DEF AtRisk
    <3>4. {l} \in SUBSET AtRisk(c) /\ { holder[k] : k \in {l} } = {holder[l]}
      BY <3>1
    <3>5. /\ MayRun(c)' \subseteq MayRun(c) \cup { holder[k] : k \in {l} }
          /\ AtRisk(c)' \subseteq AtRisk(c) \ {l}
      BY <1>0, <2>3, <3>3, <3>4
    <3> QED
      BY <1>0, <2>1, <3>4, <3>5, TollIsPaid
  <2> QED
    BY <1>6, <2>2, <2>3, ReturnToPeerMayRun
<1>7. ASSUME NEW n \in Node, CloseConnections(n)
      PROVE  Toll(c)' =< Toll(c)
  <2>1. PICK Lost \in SUBSET Link :
          /\ \A l \in Lost : /\ Awaited(l) /\ l[2] = n /\ req[holder[l]].origin = c
                             /\ sock'[l] = "stale"
          /\ MayRun(c)' \subseteq MayRun(c) \cup { holder[l] : l \in Lost }
    BY <1>7, CloseMayRun
  <2>2. /\ execs' = execs /\ server'[n] = "draining" /\ server[n] \in {"closing", "joined"}
    BY <1>0, <1>7 DEF TypeOK, CloseConnections, AcceptReturned
  <2>3. Lost \in SUBSET AtRisk(c)
    BY <2>1, <2>2, AwaitedOnWay DEF AtRisk
  <2>4. \A l \in Lost : l \notin AtRisk(c)'
    BY <2>1, <2>2 DEF AtRisk
  <2>5. AtRisk(c)' \subseteq AtRisk(c) \ Lost
    BY <1>0, <2>4
  <2> QED
    BY <1>0, <2>1, <2>2, <2>3, <2>5, TollIsPaid
<1>8. ASSUME UNCHANGED threadVars, UNCHANGED <<asked, execs, sock, outbox>>
      PROVE  Toll(c)' =< Toll(c)
  <2>1. MayRun(c)' = MayRun(c)
    BY <1>8 DEF MayRun, Leaf, Busy, Open, Out, At, Decided, threadVars
  <2> QED
    BY <1>0, <1>8, <2>1, TollStays
<1>9. ASSUME NEW n \in Node, JoinThreads(n) \/ StartServer(n) \/ Evaporate(n)
      PROVE  Toll(c)' =< Toll(c)
  BY <1>8, <1>9 DEF JoinThreads, StartServer, Evaporate, linkVars, clientVars
<1>10. UNCHANGED vars => Toll(c)' =< Toll(c)
  BY <1>8 DEF vars, linkVars, clientVars
<1>11. ASSUME NEW l \in Link, LoseFrame(l)
       PROVE  Toll(c)' =< Toll(c)
  <2>1. execs' = execs
    BY <1>11 DEF LoseFrame
  <2> QED
    BY <1>0, <1>11, <2>1, LoseFrameMayRun, TollStays
<1> QED
  BY <1>1, <1>2, <1>3, <1>4, <1>5, <1>6, <1>7, <1>9, <1>10, <1>11
  DEF Next, ThreadStep, ServerStep

(* A stop raises it by no more than the ways into its server. *)
LEMMA StopToll ==
  ASSUME Discipline, NEW n \in Node, StopServer(n), NEW c \in Client
  PROVE  Toll(c)' =< Toll(c) + Cardinality(WaysInto(c, n))
<1>0. TypeOK
  BY DEF Discipline
<1>1. /\ UNCHANGED threadVars /\ UNCHANGED <<asked, execs, sock, outbox>>
      /\ \A m \in Node \ {n} : server'[m] = server[m]
  BY <1>0 DEF TypeOK, StopServer, linkVars, clientVars
<1>2. MayRun(c)' = MayRun(c)
  BY <1>1 DEF MayRun, Leaf, Busy, Open, Out, At, Decided, threadVars
<1>3. AtRisk(c)' \subseteq AtRisk(c) \cup WaysInto(c, n)
  <2> SUFFICES ASSUME NEW l \in Link, l \in AtRisk(c)', l[2] # n
               PROVE  l \in AtRisk(c)
    BY DEF AtRisk, WaysInto, Reachable
  <2> QED
    BY <1>1, ThreadFacts DEF AtRisk, WaysInto, Reachable
<1> DEFINE A == AtRisk(c)
           A1 == AtRisk(c)'
           W == WaysInto(c, n)
           M == Cardinality(MayRun(c))
<1>4. IsFiniteSet(A) /\ IsFiniteSet(W) /\ M \in Nat /\ execs[c] \in Nat
  BY <1>0, FiniteMesh, FS_CardinalityType DEF TypeOK
<1>5. Toll(c) = execs[c] + M + Cardinality(A) /\ Toll(c)' = execs[c] + M + Cardinality(A1)
  BY <1>1, <1>2 DEF Toll
<1>6. A1 \subseteq (A \ {}) \cup W /\ {} \in SUBSET A /\ Cardinality({}) = 0
  BY <1>3, FS_EmptySet
<1> HIDE DEF A, A1, W, M
<1>7. /\ Cardinality(A1) \in Nat /\ Cardinality(A) \in Nat /\ Cardinality(W) \in Nat
      /\ Cardinality(A1) =< Cardinality(A) + Cardinality(W)
  <2> DEFINE none == {}
  <2>1. A1 \subseteq (A \ none) \cup W /\ none \in SUBSET A /\ Cardinality(none) = 0
    BY <1>6
  <2> HIDE DEF none
  <2>2. /\ Cardinality(A1) \in Nat /\ Cardinality(A) \in Nat /\ Cardinality(W) \in Nat
        /\ Cardinality(A1) + Cardinality(none) =< Cardinality(A) + Cardinality(W)
    BY <1>4, <2>1, Exchanged
  <2> QED
    BY <2>1, <2>2
<1>8. execs[c] + M + Cardinality(A1) =< execs[c] + M + Cardinality(A) + Cardinality(W)
  BY <1>4, <1>7
<1>9. Toll(c)' =< Toll(c) + Cardinality(W)
  BY <1>5, <1>8
<1> QED
  BY <1>9 DEF W

(* A node into which a request of c may come over the most links.           *)
Widest(c, n) ==
  \A m \in Node : Cardinality(WaysInto(c, m)) =< Cardinality(WaysInto(c, n))

(* There is one: the links are finitely many. *)
LEMMA WidestExists ==
  ASSUME NEW c \in Client
  PROVE  \E n \in Node : Widest(c, n)
<1> DEFINE bounds == { d \in 0 .. Cardinality(Link) :
                         \A n \in Node : Cardinality(WaysInto(c, n)) =< d }
<1>1. Cardinality(Link) \in Nat /\ Entry[c] \in Node
  BY FiniteMesh, FS_CardinalityType, MeshAssumption
<1>2. \A n \in Node : Cardinality(WaysInto(c, n)) \in 0 .. Cardinality(Link)
  BY FiniteMesh
<1>3. bounds \in SUBSET Nat /\ bounds # {}
  <2>1. Cardinality(Link) \in bounds
    BY <1>1, <1>2
  <2> QED
    BY <1>1, <2>1
<1>4. PICK d \in bounds : \A e \in bounds : d <= e
  <2> HIDE DEF bounds
  <2> QED
    BY <1>3, SmallestOf
<1>5. d \in 0 .. Cardinality(Link) /\ \A n \in Node : Cardinality(WaysInto(c, n)) =< d
  BY <1>4
<1>6. \E n \in Node : Cardinality(WaysInto(c, n)) = d
  <2> SUFFICES ASSUME \A n \in Node : Cardinality(WaysInto(c, n)) # d
               PROVE  FALSE
    OBVIOUS
  <2>1. \A n \in Node : Cardinality(WaysInto(c, n)) =< d - 1
    BY <1>1, <1>2, <1>5
  <2>2. d - 1 \in 0 .. Cardinality(Link)
    BY <1>1, <1>2, <1>5, <2>1
  <2>3. d - 1 \in bounds
    BY <2>1, <2>2
  <2>4. d <= d - 1
    <3> HIDE DEF bounds
    <3> QED
      BY <1>4, <2>3
  <2> QED
    BY <1>1, <1>5, <2>4
<1> QED
  BY <1>5, <1>6 DEF Widest

(* The toll of a client is bounded by the stops so far, at every node       *)
(* through which the most ways lead.                                        *)
TollState ==
  \A c \in Client, n \in Node :
    Widest(c, n) => Toll(c) =< 1 + stops * Cardinality(WaysInto(c, n))

(* The toll counts the runs so far. *)
LEMMA TollFacts ==
  ASSUME Discipline, NEW c \in Client
  PROVE  Toll(c) \in Nat /\ execs[c] \in Nat /\ execs[c] =< Toll(c)
<1>1. /\ Cardinality(MayRun(c)) \in Nat /\ Cardinality(AtRisk(c)) \in Nat
      /\ execs[c] \in Nat
  BY FiniteMesh, FS_CardinalityType DEF Discipline, TypeOK
<1> QED
  BY <1>1 DEF Toll

(* In the beginning each client may have its statement run once.            *)
LEMMA InitToll == Init => TollState
<1> SUFFICES ASSUME Init, NEW c \in Client, NEW n \in Node
             PROVE  Toll(c) =< 1 + stops * Cardinality(WaysInto(c, n))
  BY DEF TollState
<1>1. MayRun(c) = {c}
  BY DEF Init, MayRun, Thread
<1>2. AtRisk(c) = {}
  BY ThreadFacts DEF Init, AtRisk
<1>3. Cardinality(MayRun(c)) = 1 /\ Cardinality(AtRisk(c)) = 0
  BY <1>1, <1>2, FS_Singleton, FS_EmptySet
<1>4. execs[c] = 0 /\ stops = 0
  BY DEF Init
<1>5. Cardinality(WaysInto(c, n)) \in Nat
  BY FiniteMesh, FS_CardinalityType
<1> QED
  BY <1>3, <1>4, <1>5 DEF Toll

(* Multiplication, one more time. *)
LEMMA OnceMore ==
  ASSUME NEW a \in Nat, NEW w \in Nat
  PROVE  a * w \in Nat /\ (a + 1) * w = a * w + w
OBVIOUS

(* A step keeps the bound: only a stop raises the toll, and the bound too.  *)
LEMMA NextTollState ==
  ASSUME Discipline, RequestState, TollState, [Next]_vars
  PROVE  TollState'
<1> SUFFICES ASSUME NEW c \in Client, NEW n \in Node, Widest(c, n)
             PROVE  Toll(c)' =< 1 + stops' * Cardinality(WaysInto(c, n))
  BY DEF TollState, Widest, WaysInto, Reachable
<1> DEFINE W == Cardinality(WaysInto(c, n))
<1>1. W \in Nat /\ stops \in Nat
  BY FiniteMesh, FS_CardinalityType DEF Discipline, TypeOK
<1>2. Toll(c) \in Nat /\ Toll(c)' \in Nat /\ Toll(c) =< 1 + stops * W
  <2>1. Cardinality(MayRun(c)') \in Nat /\ Cardinality(AtRisk(c)') \in Nat
    <3>1. MayRun(c)' \in SUBSET Thread /\ AtRisk(c)' \in SUBSET Link
      BY DEF MayRun, AtRisk
    <3> QED
      BY <3>1, FiniteMesh, FS_Subset, FS_CardinalityType
  <2>2. execs'[c] \in Nat
    BY NextDiscipline DEF Discipline, TypeOK
  <2>3. Toll(c)' \in Nat
    BY <2>1, <2>2 DEF Toll
  <2> QED
    BY <2>3, TollFacts DEF TollState
<1>3. CASE \E m \in Node : StopServer(m)
  <2>1. PICK m \in Node : StopServer(m)
    BY <1>3
  <2> DEFINE M == Cardinality(WaysInto(c, m))
  <2>2. stops' = stops + 1
    BY <2>1 DEF StopServer
  <2>3. Toll(c)' =< Toll(c) + M
    BY <2>1, StopToll
  <2>4. M =< W /\ M \in Nat
    BY FiniteMesh, FS_CardinalityType DEF Widest
  <2> HIDE DEF W, M
  <2>5. Toll(c)' =< 1 + stops * W + W
    BY <1>1, <1>2, <2>3, <2>4
  <2>6. stops * W \in Nat /\ (stops + 1) * W = stops * W + W
    BY <1>1, OnceMore
  <2> QED
    BY <1>1, <2>2, <2>5, <2>6 DEF W
<1>4. CASE \A m \in Node : ~StopServer(m)
  <2>1. Toll(c)' =< Toll(c)
    BY <1>4, NextToll
  <2>2. stops' = stops \/ stops' = stops + 1
    BY StopsGrow
  <2> HIDE DEF W
  <2>3. stops * W \in Nat /\ (stops + 1) * W = stops * W + W
    BY <1>1, OnceMore
  <2>4. stops * W =< stops' * W
    BY <1>1, <2>2, <2>3
  <2>5. Toll(c)' =< 1 + stops' * W
    <3>1. stops' * W \in Nat
      BY <1>1, <2>2, <2>3
    <3> QED
      BY <1>2, <2>1, <2>3, <2>4, <3>1
  <2> QED
    BY <2>5 DEF W
<1> QED
  BY <1>3, <1>4

(* The bound on the toll holds in every reachable state. *)
THEOREM MeshTollState == Spec => []TollState
<1>1. Discipline /\ RequestState /\ TollState /\ [Next]_vars => TollState'
  BY NextTollState
<1> QED
  BY <1>1, InitToll, MeshDiscipline, MeshRequestsKept, PTL DEF Spec

(* Retries and stops never multiply the runs of a statement: together with  *)
(* the threads that may still have it run and the responses that a stop may *)
(* yet lose, they are one and, for every stop, the links over which its     *)
(* request may come to a single server.                                     *)
THEOREM MeshRunsAreBounded == Spec => []RunsAreBounded
<1>1. ASSUME TollState
      PROVE  RunsAreBounded
  <2> SUFFICES ASSUME NEW c \in Client
               PROVE  \E n \in Node : Toll(c) =< 1 + stops * Cardinality(WaysInto(c, n))
    BY DEF RunsAreBounded, Toll
  <2>1. PICK n \in Node : Widest(c, n)
    BY WidestExists
  <2> QED
    BY <1>1, <2>1 DEF TollState
<1> QED
  BY <1>1, MeshTollState, PTL

(* A statement runs more than once only through the stops of servers (stop, *)
(* then a retry of Forward on a fresh connection), and each stop adds no    *)
(* more than the links over which its request may come to the server.       *)
THEOREM MeshDuplicatesNeedStops == Spec => []DuplicatesNeedStops
<1>1. ASSUME TollState, Discipline
      PROVE  DuplicatesNeedStops
  <2> SUFFICES ASSUME NEW c \in Client
               PROVE  \E n \in Node : execs[c] =< 1 + stops * Cardinality(WaysInto(c, n))
    BY DEF DuplicatesNeedStops
  <2>1. PICK n \in Node : Widest(c, n)
    BY WidestExists
  <2> DEFINE W == Cardinality(WaysInto(c, n))
  <2>2. Toll(c) =< 1 + stops * W
    BY <1>1, <2>1 DEF TollState
  <2>3. Toll(c) \in Nat /\ execs[c] \in Nat /\ execs[c] =< Toll(c)
    BY <1>1, TollFacts
  <2>4. stops * W \in Nat
    BY <1>1, FiniteMesh, FS_CardinalityType, OnceMore DEF Discipline, TypeOK
  <2> HIDE DEF W
  <2>5. execs[c] =< 1 + stops * W
    BY <2>2, <2>3, <2>4
  <2> QED
    BY <2>5 DEF W
<1> QED
  BY <1>1, MeshTollState, MeshDiscipline, PTL
================================================================================
