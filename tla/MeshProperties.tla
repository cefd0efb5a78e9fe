---------------------------- MODULE MeshProperties ----------------------------
(***************************************************************************)
(* What makes the mesh correct: safety invariants, action properties and    *)
(* liveness of Mesh.                                                        *)
(***************************************************************************)
EXTENDS Mesh

Busy(t) == req[t] # NoRequest
Answered(c) == answer[c] # NoResponse

(* The lock discipline of Forward: a thread between Connection::mutex's     *)
(* acquisition and its release holds exactly the mutex of the neighbour it  *)
(* forwards to, and nobody else does.                                       *)
LockDiscipline ==
  \A l \in Link, t \in Thread :
    holder[l] = t <=> (Holding(t) /\ Out(t) = l)

(* The transport does not pipeline: on a live connection at most one call   *)
(* is in flight (on its way out, being handled, or on its way back), and    *)
(* only while the thread holding the connection waits for it.               *)
InFlight(l) ==
  Len(inbox[l]) + Len(outbox[l]) + (IF Busy(l) THEN 1 ELSE 0)

NoPipelining ==
  \A l \in Link : Open(l) =>
    /\ InFlight(l) =< 1
    /\ InFlight(l) = 1 <=> \E t \in Thread : holder[l] = t /\ pc[t] = "recv"

(* No cross-talk: over sockets that different queries reuse, with broken    *)
(* exchanges dropped and retried in between, a Forward call only ever gets  *)
(* the response to its own request.                                         *)
OwnResponse ==
  \A t \in Thread : resp[t] # NoResponse => resp[t].origin = req[t].origin

(* Loop prevention: the route a request carries is the path it took, from   *)
(* the entry node of the client over links of the topology to the node now  *)
(* executing it; no node is on it twice; every hop spends one of the budget *)
(* the client gave; and the statement is never mixed up with another one.   *)
Trail(t) == IF pc[t] = "execute" THEN Append(req[t].route, At(t)) ELSE req[t].route

Distinct(path) == \A i, j \in DOMAIN path : path[i] = path[j] => i = j
Along(path) == \A i \in 2 .. Len(path) : <<path[i - 1], path[i]>> \in Link

RouteIsPath ==
  \A t \in Thread : Busy(t) =>
    LET first == asked[req[t].origin]
    IN  /\ Distinct(Trail(t))
        /\ Trail(t) # <<>> => Trail(t)[1] = Entry[req[t].origin]
        /\ Along(Trail(t))
        /\ Holding(t) => hop[t] \notin NodesOn(Trail(t))
        /\ Len(req[t].route) + req[t].budget = first.budget
        /\ req[t].key = first.key

(* A client that is told Ok had its statement run by an executor. *)
OkWasExecuted ==
  \A c \in Client : answer[c] = "Ok" => execs[c] > 0

(* Without a server being stopped, a statement runs exactly once when its   *)
(* client is given the executor's verdict and never otherwise: no retry     *)
(* repeats it and no branch keeps running after the answer.                 *)
ExactlyOnceWithoutStops ==
  stops = 0 => \A c \in Client :
    /\ execs[c] =< 1
    /\ Answered(c) => (execs[c] = 1 <=> answer[c] \in ExecutorStatus)

(* The nodes a request at m can reach when it enters none of V: they are in *)
(* every set that holds m and, with a node, the neighbours of it outside V. *)
Reachable(m, V) ==
  { x \in Node : \A S \in SUBSET Node :
      /\ m \in S
      /\ \A l \in Link : l[1] \in S /\ l[2] \notin V => l[2] \in S
      => x \in S }

(* The links over which a request of c may come to n: those from nodes that *)
(* it can reach from its entry node without having been at n.               *)
WaysInto(c, n) ==
  { l \in Link : l[2] = n /\ n # Entry[c] /\ l[1] \in Reachable(Entry[c], {n}) }

(* Stopping a server can lose the response it owes over each connection, at *)
(* most one per stop; a retry then runs the statement again.  So a stop     *)
(* adds to the runs of a statement no more than the links over which it may *)
(* come to the server: one on a tree, whatever the retries on the way.      *)
DuplicatesNeedStops ==
  \A c \in Client : \E n \in Node :
    execs[c] =< 1 + stops * Cardinality(WaysInto(c, n))

(* What a request that n sent to m can reach without crossing n again. *)
Behind(n, m) == Reachable(m, {n})

(* Trails are true: only an edge behind which the owner lies ever gets more *)
(* pheromone than an untried one; failures, retries, stops and other        *)
(* queries' answers never make a dead end look good.                        *)
TrailsLeadToOwner ==
  \A l \in Link, k \in RouteKey :
    PheromoneLocked(pheromone[l[1]][k], l[2]) > Initial
      => \E m \in Behind(l[1], l[2]) : k \in Owned[m]

(* No set of threads waits on itself: for a Connection::mutex a member      *)
(* holds, or for the response of a member that is the connection thread.    *)
WaitsOn(t, u) ==
  \/ pc[t] = "lock" /\ Out(t) \in Peers /\ holder[Out(t)] = u
  \/ pc[t] = "recv" /\ Out(t) = u /\ Open(u) /\ Busy(u)

NoWaitCycle ==
  ~ \E S \in SUBSET { t \in Thread : pc[t] \in {"lock", "recv"} } :
      /\ S # {}
      /\ \A t \in S : \E u \in S : WaitsOn(t, u)

(* The mesh implements the service: seen from its clients, every step of a  *)
(* gateway, a forwarder or a server is a step of QueryService or none.      *)
Service == INSTANCE QueryService WITH
  NoAnswer <- NoResponse,
  phase <- [c \in Client |-> IF asked[c] = NoRequest THEN "new"
                             ELSE IF answer[c] = NoResponse THEN "asked" ELSE "answered"],
  routable <- [c \in Client |-> asked[c] # NoRequest /\ asked[c].key # NoKey],
  runs <- execs,
  result <- answer

ImplementsService == Service!Spec

--------------------------------------------------------------------------------
(* The inductive invariant behind the safety properties: what a thread      *)
(* holds at each point of Gateway::Execute and TcpForwarder::Forward, and   *)
(* what a connection carries.                                               *)

Evident(r) == r.status = "Ok" => execs[r.origin] > 0

ThreadOK(t) ==
  /\ pc[t] = "idle" <=> req[t] = NoRequest
  /\ t \in Client /\ pc[t] # "idle" => req[t].origin = t
  /\ pc[t] \in {"lock", "exchange", "recv", "respond", "observe"}
       => hop[t] \in Node /\ Out(t) \in Link
  /\ pc[t] \in {"respond", "observe", "return"} <=> resp[t] # NoResponse
  /\ resp[t] # NoResponse => resp[t].origin = req[t].origin /\ Evident(resp[t])

ThreadState == \A t \in Thread : ThreadOK(t)

Awaited(l) == holder[l] # NoThread /\ pc[holder[l]] = "recv"

(* A frame exists only while the holder of the connection waits for it, and *)
(* a handler that nobody waits for belongs to a server that is draining.    *)
LinkOK(l) ==
  /\ inbox[l] # <<>> => Awaited(l) /\ inbox[l] = <<req[holder[l]]>> /\ outbox[l] = <<>>
  /\ outbox[l] # <<>> => /\ Awaited(l)
                        /\ \E r \in Response : /\ outbox[l] = <<r>>
                                               /\ r.origin = req[holder[l]].origin
                                               /\ Evident(r)
  /\ Busy(l) /\ Open(l) => /\ Awaited(l) /\ inbox[l] = <<>> /\ outbox[l] = <<>>
                           /\ req[l].origin = req[holder[l]].origin
  /\ Busy(l) /\ ~Open(l) => server[l[2]] = "draining"
  /\ sock[l] = "live" => server[l[2]] \in {"up", "closing", "joined"}
  /\ sock[l] = "orphaned" => server[l[2]] = "draining"
  /\ Awaited(l) /\ Open(l) => Busy(l) \/ inbox[l] # <<>> \/ outbox[l] # <<>>

LinkState == \A l \in Link : LinkOK(l)

Discipline == TypeOK /\ ThreadState /\ LockDiscipline /\ LinkState /\ OkWasExecuted

(* What the client asked travels with its request: the statement, the path  *)
(* from the client's entry node, what is left of the budget.                *)
Forwarding(t) == pc[t] \in {"lock", "exchange", "recv", "respond", "observe"}

RequestKept(t) ==
  Busy(t) => /\ asked[req[t].origin] # NoRequest
             /\ req[t].key = asked[req[t].origin].key
             /\ Len(req[t].route) + req[t].budget = asked[req[t].origin].budget
             /\ Forwarding(t) => req[t].key # NoKey

RouteKept(t) ==
  Busy(t) => /\ Distinct(Trail(t)) /\ Along(Trail(t))
             /\ Trail(t) # <<>> => Trail(t)[1] = Entry[req[t].origin]
             /\ Forwarding(t) => /\ Trail(t) # <<>>
                                 /\ Trail(t)[Len(Trail(t))] = At(t)
                                 /\ hop[t] \notin NodesOn(Trail(t))

RequestState == \A t \in Thread : RequestKept(t) /\ RouteKept(t)

(* A response tells the truth about the statement and the executors, in a   *)
(* thread's hands and on a connection.                                      *)
Truthful(r) ==
  /\ r.status \in {"Ok", "ExecutionError"} => execs[r.origin] > 0
  /\ r.status = "UnsupportedSql" <=> asked[r.origin].key = NoKey

ResponseState ==
  /\ \A t \in Thread : resp[t] # NoResponse => Truthful(resp[t])
  /\ \A l \in Link : outbox[l] # <<>> => Truthful(Head(outbox[l]))

ClientState ==
  \A c \in Client :
    /\ asked[c] = NoRequest => pc[c] = "idle" /\ answer[c] = NoResponse /\ execs[c] = 0
    /\ Answered(c) => pc[c] = "idle"

Account == Discipline /\ RequestState /\ ResponseState /\ ClientState

(* The tip of a query: a thread that works for it and for which no handler  *)
(* works in turn.  While no server stops there is one, and it knows whether *)
(* the statement has run.                                                   *)
Tip(t) == Busy(t) /\ ~(pc[t] = "recv" /\ Busy(Out(t)))

Decided(t) ==
  \/ resp[t] # NoResponse /\ resp[t].status \in ExecutorStatus
  \/ /\ pc[t] = "recv" /\ outbox[Out(t)] # <<>>
     /\ Head(outbox[Out(t)]).status \in ExecutorStatus

OnlyTip ==
  \A t, u \in Thread : Tip(t) /\ Tip(u) /\ req[t].origin = req[u].origin => t = u

TipKnows ==
  \A t \in Thread : Tip(t) => /\ ~Answered(req[t].origin)
                              /\ execs[req[t].origin] = IF Decided(t) THEN 1 ELSE 0

Undisturbed ==
  /\ \A n \in Node : server[n] = "up"
  /\ \A l \in Link : sock[l] \in {"none", "live"}

OneBranch ==
  stops = 0 => Undisturbed /\ OnlyTip /\ TipKnows

(* Behind TrailsLeadToOwner: a handler works on the request it was sent, so *)
(* an Ok comes, hop by hop, from an owner that is reached without entering  *)
(* the nodes on the route.                                                  *)
Found(m, V, k) == \E x \in Reachable(m, V) : k \in Owned[x]

HandedOn(l) ==
  Busy(l) /\ Open(l) => NodesOn(req[l].route) \ {l[2]} = NodesOn(req[holder[l]].route)

OkWasFound(t) ==
  resp[t] # NoResponse /\ resp[t].status = "Ok" =>
    IF Forwarding(t) THEN Found(hop[t], NodesOn(req[t].route), req[t].key)
    ELSE Found(At(t), NodesOn(req[t].route) \ {At(t)}, req[t].key)

OkIsCarried(l) ==
  outbox[l] # <<>> /\ Head(outbox[l]).status = "Ok" =>
    Found(l[2], NodesOn(req[holder[l]].route), req[holder[l]].key)

TrailState ==
  /\ \A l \in Link : HandedOn(l) /\ OkIsCarried(l)
  /\ \A t \in Thread : OkWasFound(t)
  /\ TrailsLeadToOwner

(* No cycle of links: the nodes have depths at which every link goes one    *)
(* level up or down, and at most one of a node's links goes up.             *)
Joined(n, m) == <<n, m>> \in Link \/ <<m, n>> \in Link

IsForest ==
  \E depth \in [Node -> 0 .. Cardinality(Node)] :
    /\ \A l \in Link : depth[l[2]] = depth[l[1]] + 1 \/ depth[l[1]] = depth[l[2]] + 1
    /\ \A n, m, k \in Node : /\ Joined(n, m) /\ depth[m] < depth[n]
                             /\ Joined(n, k) /\ depth[k] < depth[n]
                             => m = k

(* Behind DuplicatesNeedStops: the threads that may still have c's statement *)
(* run (a leaf of its query is a thread no handler works for that can still  *)
(* answer it), and the connections whose next response a stop may lose.      *)
Leaf(t) == Busy(t) /\ ~(pc[t] = "recv" /\ Open(Out(t)) /\ Busy(Out(t)))

MayRun(c) ==
  { t \in Thread : IF asked[c] = NoRequest THEN t = c
                   ELSE Leaf(t) /\ ~Decided(t) /\ req[t].origin = c }

AtRisk(c) ==
  { l \in Link : /\ l \in WaysInto(c, l[2])
                 /\ server[l[2]] \in {"closing", "joined"} \/ sock[l] = "orphaned" }

RunsAreBounded ==
  \A c \in Client : \E n \in Node :
    execs[c] + Cardinality(MayRun(c)) + Cardinality(AtRisk(c))
      =< 1 + stops * Cardinality(WaysInto(c, n))

(* Every client is answered, though servers stop under its request (and are *)
(* never obliged to come back).                                             *)
EveryClientAnswered ==
  \A c \in Client : (asked[c] # NoRequest) ~> Answered(c)

(* Stop returns: it waits for the connection threads of its server, which   *)
(* in turn wait for other nodes.                                            *)
Returns(n) == (server[n] \in {"closing", "joined"}) ~> (server[n] = "down")

(* Where closing a socket wakes the threads that are blocked on it, whatever *)
(* the platforms of the nodes those threads wait for.                        *)
StopReturnsWhereWoken == \A n \in Waking : Returns(n)

(* tcp_forwarder.cpp: "Closing the listening socket unblocks the accept()   *)
(* call in AcceptLoop", on every platform.                                  *)
StopReturns == \A n \in Node : Returns(n)
================================================================================
