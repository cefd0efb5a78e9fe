--------------------------------- MODULE Mesh ---------------------------------
(***************************************************************************)
(* The engine's mesh: one Gateway (gateway.cpp), Router, TcpServer and      *)
(* TcpForwarder (tcp_forwarder.cpp) per node, on the call level.            *)
(*                                                                          *)
(* A query is a chain of nested blocking calls.  The threads that run them  *)
(* are the clients (each calls Gateway::Execute of its entry node once) and *)
(* the connection threads of the servers: TcpForwarder caches one socket    *)
(* per neighbour, so the thread that serves node n's connection at node m   *)
(* is named by the link <<n, m>>.  A connection thread handles one frame at *)
(* a time, and Stop joins it before its server can be started again.        *)
(*                                                                          *)
(* Each step below is what happens between two points where other threads   *)
(* can be observed: Router::mutex_, Connection::mutex, a socket operation.  *)
(***************************************************************************)
EXTENDS RouterTable, FiniteSets

CONSTANTS
  Node, Client, RouteKey,
  Neighbors,       \* topology_.Neighbors() of each node, a sequence
  Latency,         \* link_latency_ms of each node's neighbours
  Owned,           \* the route keys each node owns
  Peers,           \* the links whose address AddPeer has registered
  Entry,           \* the node whose gateway each client calls
  HopBudgets,      \* the hop_budget values clients ask with
  Reinforcements,  \* the values a success may add, by the elapsed time
  ExecutorStatus,  \* the statuses IShardExecutor::Execute may return
  Waking,          \* the nodes whose platform wakes a thread blocked in accept or
                   \* recv when its socket is closed: Winsock does, POSIX does not
  MaxStops,        \* bound: how many times servers are stopped
  NoKey,           \* a statement with no table or distribution key
  NoRequest, NoNode, NoThread, NoResponse

Link == { l \in Node \X Node : \E i \in DOMAIN Neighbors[l[1]] : Neighbors[l[1]][i] = l[2] }

Thread == Client \cup Link

Status == {"Ok", "UnsupportedSql", "RouteExhausted", "ShardUnavailable", "ExecutionError"}

Request == [origin : Client, key : RouteKey \cup {NoKey}, route : Seq(Node), budget : Nat]
Response == [origin : Client, status : Status]

ASSUME MeshAssumption ==
  /\ Neighbors \in [Node -> Seq(Node)]
  /\ \A n \in Node : \A i \in DOMAIN Neighbors[n] : Neighbors[n][i] # n
  /\ Latency \in [Node -> [Node -> Nat \ {0}]]
  /\ Owned \in [Node -> SUBSET RouteKey]
  /\ Peers \subseteq Link
  /\ Entry \in [Client -> Node]
  /\ HopBudgets \subseteq Nat
  /\ Reinforcements \subseteq Nat
  /\ ExecutorStatus \subseteq Status
  /\ Waking \subseteq Node
  /\ MaxStops \in Nat
  /\ Client \cap (Node \X Node) = {}
  /\ NoKey \notin RouteKey
  /\ NoRequest \notin Request
  /\ NoNode \notin Node
  /\ NoThread \notin Thread
  /\ NoResponse \notin Response \cup Status

(* A deployment has finitely many nodes; so has a run finitely many queries.*)
ASSUME FinitenessAssumption == IsFiniteSet(Node) /\ IsFiniteSet(Client)

(* The only IShardExecutor, TableStoreExecutor, has another answer just for *)
(* statements of an unsupported kind, which Gateway::Execute never gives it.*)
ASSUME ExecutorAssumption == ExecutorStatus \subseteq {"Ok", "ExecutionError"}

VARIABLES
  pc,         \* where each thread is
  req,        \* the QueryRequest a thread is executing
  hop,        \* decision->next_hop while it forwards
  mayRetry,   \* had_cached_connection, until the retry is spent
  resp,       \* the QueryResponse it holds
  holder,     \* the thread holding Connection::mutex of each link
  sock,       \* Connection::socket: none, live, stale (closed by the peer), or
              \* orphaned: Stop closed the peer's descriptor, but its connection
              \* thread is still blocked in recv
  inbox,      \* frames on their way to the connection thread of a link
  outbox,     \* frames on their way back
  server,     \* up, closing (running_ cleared), joined (the accept thread has
              \* returned), draining (the connections are closed), down
  pheromone,  \* router_ of each node
  asked,      \* ghost: the request each client made
  answer,     \* what the client's Execute call returned
  execs,      \* ghost: how often shard executors ran the client's request
  stops       \* how many times a server was stopped

threadVars == <<pc, req, hop, mayRetry, resp>>
linkVars == <<holder, sock, inbox, outbox>>
clientVars == <<asked, answer>>
serverVars == <<server, stops>>
vars == <<threadVars, linkVars, clientVars, serverVars, pheromone, execs>>

PC == {"idle", "execute", "lock", "exchange", "recv", "respond", "observe", "return"}

At(t) == IF t \in Client THEN Entry[t] ELSE t[2]
Out(t) == <<At(t), hop[t]>>
Holding(t) == pc[t] \in {"exchange", "recv", "respond"}
Open(l) == sock[l] \in {"live", "orphaned"}

NodesOn(route) == { route[i] : i \in DOMAIN route }
Reply(t, status) == [origin |-> req[t].origin, status |-> status]

TypeOK ==
  /\ pc \in [Thread -> PC]
  /\ req \in [Thread -> Request \cup {NoRequest}]
  /\ hop \in [Thread -> Node \cup {NoNode}]
  /\ mayRetry \in [Thread -> BOOLEAN]
  /\ resp \in [Thread -> Response \cup {NoResponse}]
  /\ holder \in [Link -> Thread \cup {NoThread}]
  /\ sock \in [Link -> {"none", "live", "stale", "orphaned"}]
  /\ inbox \in [Link -> Seq(Request)]
  /\ outbox \in [Link -> Seq(Response)]
  /\ server \in [Node -> {"up", "closing", "joined", "draining", "down"}]
  /\ pheromone \in [Node -> [RouteKey -> [Node -> Score \cup {Unseen}]]]
  /\ asked \in [Client -> Request \cup {NoRequest}]
  /\ answer \in [Client -> Status \cup {NoResponse}]
  /\ execs \in [Client -> Nat]
  /\ stops \in 0 .. MaxStops

Init ==
  /\ pc = [t \in Thread |-> "idle"]
  /\ req = [t \in Thread |-> NoRequest]
  /\ hop = [t \in Thread |-> NoNode]
  /\ mayRetry = [t \in Thread |-> FALSE]
  /\ resp = [t \in Thread |-> NoResponse]
  /\ holder = [l \in Link |-> NoThread]
  /\ sock = [l \in Link |-> "none"]
  /\ inbox = [l \in Link |-> <<>>]
  /\ outbox = [l \in Link |-> <<>>]
  /\ server = [n \in Node |-> "up"]
  /\ pheromone = [n \in Node |-> [k \in RouteKey |-> [m \in Node |-> Unseen]]]
  /\ asked = [c \in Client |-> NoRequest]
  /\ answer = [c \in Client |-> NoResponse]
  /\ execs = [c \in Client |-> 0]
  /\ stops = 0
--------------------------------------------------------------------------------
(* Gateway::Execute, before it forwards. *)

Issue(c) ==
  /\ pc[c] = "idle" /\ asked[c] = NoRequest
  /\ \E k \in RouteKey \cup {NoKey}, b \in HopBudgets :
       LET r == [origin |-> c, key |-> k, route |-> <<>>, budget |-> b]
       IN  asked' = [asked EXCEPT ![c] = r] /\ req' = [req EXCEPT ![c] = r]
  /\ pc' = [pc EXCEPT ![c] = "execute"]
  /\ UNCHANGED <<hop, mayRetry, resp, linkVars, answer, serverVars, pheromone, execs>>

\* Mutant: the hop budget is not tested.
ExecutableUnbounded(t) == pc[t] = "execute" /\ req[t].key # NoKey

Executable(t) == pc[t] = "execute" /\ req[t].key # NoKey /\ req[t].budget # 0
Owns(t) == req[t].key \in Owned[At(t)]

\* Mutant: the route of the request is not consulted.
VisitedHere(t) == {At(t)}

Visited(t) == NodesOn(req[t].route) \cup {At(t)}

Hops(t) ==
  NextHops(pheromone[At(t)][req[t].key], Latency[At(t)], Neighbors[At(t)], Visited(t))

Return(t, status) ==
  /\ resp' = [resp EXCEPT ![t] = Reply(t, status)]
  /\ pc' = [pc EXCEPT ![t] = "return"]
  /\ UNCHANGED <<req, hop, mayRetry, linkVars, clientVars, serverVars, pheromone>>

RefuseStatement(t) ==
  /\ pc[t] = "execute" /\ req[t].key = NoKey
  /\ Return(t, "UnsupportedSql") /\ UNCHANGED execs

\* Mutant: the budget is tested before the statement.
RefuseExhaustedFirst(t) ==
  /\ pc[t] = "execute"
  /\ \/ req[t].budget = 0
     \/ Executable(t) /\ ~Owns(t) /\ Hops(t) = {}
  /\ Return(t, "RouteExhausted") /\ UNCHANGED execs

RefuseExhausted(t) ==
  /\ pc[t] = "execute" /\ req[t].key # NoKey
  /\ \/ req[t].budget = 0
     \/ Executable(t) /\ ~Owns(t) /\ Hops(t) = {}
  /\ Return(t, "RouteExhausted") /\ UNCHANGED execs

ExecuteLocally(t) ==
  /\ Executable(t) /\ Owns(t)
  /\ \E status \in ExecutorStatus : Return(t, status)
  /\ execs' = [execs EXCEPT ![req[t].origin] = @ + 1]

(* The request as the next hop gets it. *)
Extended(t) ==
  [origin |-> req[t].origin, key |-> req[t].key,
   route |-> Append(req[t].route, At(t)), budget |-> req[t].budget - 1]

ChooseHop(t) ==
  /\ Executable(t) /\ ~Owns(t)
  /\ \E m \in Hops(t) : hop' = [hop EXCEPT ![t] = m]
  /\ req' = [req EXCEPT ![t] = Extended(t)]
  /\ pc' = [pc EXCEPT ![t] = "lock"]
  /\ UNCHANGED <<mayRetry, resp, linkVars, clientVars, serverVars, pheromone, execs>>
--------------------------------------------------------------------------------
(* TcpForwarder::Forward and ExchangeOverConnection. *)

UnknownPeer(t) ==
  /\ pc[t] = "lock" /\ Out(t) \notin Peers
  /\ resp' = [resp EXCEPT ![t] = Reply(t, "ShardUnavailable")]
  /\ pc' = [pc EXCEPT ![t] = "observe"]
  /\ UNCHANGED <<req, hop, mayRetry, linkVars, clientVars, serverVars, pheromone, execs>>

\* Mutant: an open connection is used without waiting for its mutex.
ConnectionOpen(l) == holder[l] = NoThread \/ sock[l] = "live"

ConnectionFree(l) == holder[l] = NoThread

LockConnection(t) ==
  /\ pc[t] = "lock" /\ Out(t) \in Peers
  /\ ConnectionFree(Out(t))
  /\ holder' = [holder EXCEPT ![Out(t)] = t]
  /\ mayRetry' = [mayRetry EXCEPT ![t] = sock[Out(t)] # "none"]
  /\ pc' = [pc EXCEPT ![t] = "exchange"]
  /\ UNCHANGED <<req, hop, resp, sock, inbox, outbox, clientVars, serverVars, pheromone, execs>>

(* A connect() after Stop has cleared running_ may still be accepted and is *)
(* closed at once; on POSIX that is what wakes the accept thread.           *)
Connect(t) ==
  /\ pc[t] = "exchange" /\ sock[Out(t)] = "none"
  /\ \/ /\ server[hop[t]] = "up"
        /\ sock' = [sock EXCEPT ![Out(t)] = "live"]
        /\ UNCHANGED server
     \/ /\ server[hop[t]] \in {"closing", "joined"}
        /\ sock' = [sock EXCEPT ![Out(t)] = "stale"]
        /\ server' = [server EXCEPT ![hop[t]] = "joined"]
  /\ UNCHANGED <<threadVars, holder, inbox, outbox, clientVars, stops, pheromone, execs>>

(* Every failure in the exchange closes the socket and forgets it. *)
Drop(t) ==
  /\ sock' = [sock EXCEPT ![Out(t)] = "none"]
  /\ inbox' = [inbox EXCEPT ![Out(t)] = <<>>]
  /\ outbox' = [outbox EXCEPT ![Out(t)] = <<>>]
  /\ resp' = [resp EXCEPT ![t] = Reply(t, "ShardUnavailable")]
  /\ pc' = [pc EXCEPT ![t] = "respond"]
  /\ UNCHANGED <<req, hop, mayRetry, holder, clientVars, serverVars, pheromone, execs>>

ConnectFailed(t) ==
  /\ pc[t] = "exchange" /\ sock[Out(t)] = "none" /\ server[hop[t]] # "up"
  /\ Drop(t)

Send(t) ==
  /\ pc[t] = "exchange" /\ Open(Out(t))
  /\ inbox' = [inbox EXCEPT ![Out(t)] = Append(@, req[t])]
  /\ pc' = [pc EXCEPT ![t] = "recv"]
  /\ UNCHANGED <<req, hop, mayRetry, resp, holder, sock, outbox, clientVars, serverVars,
                 pheromone, execs>>

(* The peer has closed the connection: the send fails, or the receive does  *)
(* unless the response was sent before the connection was closed.           *)
ExchangeFailed(t) ==
  /\ \/ pc[t] = "exchange"
     \/ pc[t] = "recv" /\ outbox[Out(t)] = <<>>
  /\ sock[Out(t)] = "stale"
  /\ Drop(t)

RecvResponse(t) ==
  /\ pc[t] = "recv" /\ outbox[Out(t)] # <<>>
  /\ resp' = [resp EXCEPT ![t] = Head(outbox[Out(t)])]
  /\ outbox' = [outbox EXCEPT ![Out(t)] = Tail(@)]
  /\ pc' = [pc EXCEPT ![t] = "respond"]
  /\ UNCHANGED <<req, hop, mayRetry, holder, sock, inbox, clientVars, serverVars, pheromone, execs>>

(* The code tests the status only: a ShardUnavailable the peer answered is  *)
(* retried like a broken socket is, on the same live connection.            *)
\* Mutant: the status is not tested.
WillRetryAlways(t) == mayRetry[t]

\* Mutant: the retries are not counted.
WillRetryForever(t) == resp[t].status = "ShardUnavailable"

WillRetry(t) == resp[t].status = "ShardUnavailable" /\ mayRetry[t]

Retry(t) ==
  /\ pc[t] = "respond" /\ WillRetry(t)
  /\ mayRetry' = [mayRetry EXCEPT ![t] = FALSE]
  /\ resp' = [resp EXCEPT ![t] = NoResponse]
  /\ pc' = [pc EXCEPT ![t] = "exchange"]
  /\ UNCHANGED <<req, hop, linkVars, clientVars, serverVars, pheromone, execs>>

Released(t) == [holder EXCEPT ![Out(t)] = NoThread]

Unlock(t) ==
  /\ pc[t] = "respond" /\ ~WillRetry(t)
  /\ holder' = Released(t)
  /\ mayRetry' = [mayRetry EXCEPT ![t] = FALSE]
  /\ pc' = [pc EXCEPT ![t] = "observe"]
  /\ UNCHANGED <<req, hop, resp, sock, inbox, outbox, clientVars, serverVars, pheromone, execs>>
--------------------------------------------------------------------------------
(* Gateway::Execute, after Forward returned. *)

\* Mutant: only a broken connection counts as a failure.
ArrivedSomewhere(t) == resp[t].status # "ShardUnavailable"

Succeeded(t) == resp[t].status = "Ok"

Observe(t) ==
  /\ pc[t] = "observe"
  /\ \/ /\ Succeeded(t)
        /\ \E r \in Reinforcements :
             pheromone' = [pheromone EXCEPT ![At(t)][req[t].key] = Rewarded(@, Out(t), r)]
     \/ /\ ~Succeeded(t)
        /\ pheromone' = [pheromone EXCEPT ![At(t)][req[t].key] = Penalised(@, Out(t))]
  /\ pc' = [pc EXCEPT ![t] = "return"]
  /\ UNCHANGED <<req, hop, mayRetry, resp, linkVars, clientVars, serverVars, execs>>

Finish(t) ==
  /\ pc' = [pc EXCEPT ![t] = "idle"]
  /\ req' = [req EXCEPT ![t] = NoRequest]
  /\ hop' = [hop EXCEPT ![t] = NoNode]
  /\ resp' = [resp EXCEPT ![t] = NoResponse]
  /\ UNCHANGED <<mayRetry, holder, inbox, serverVars, pheromone, execs>>

ReturnToClient(c) ==
  /\ pc[c] = "return"
  /\ answer' = [answer EXCEPT ![c] = resp[c].status]
  /\ Finish(c) /\ UNCHANGED <<sock, outbox, asked>>

(* The connection thread sends the response.  It leaves its loop, closing   *)
(* the socket, if Stop has cleared running_ meanwhile; if Stop has closed   *)
(* the socket already, the send fails and the response is lost.             *)
ReturnToPeer(l) ==
  /\ pc[l] = "return"
  /\ \/ /\ sock[l] = "live"
        /\ outbox' = [outbox EXCEPT ![l] = Append(@, resp[l])]
        /\ sock' = [sock EXCEPT ![l] = IF server[l[2]] = "up" THEN "live" ELSE "stale"]
     \/ /\ sock[l] = "orphaned"
        /\ sock' = [sock EXCEPT ![l] = "stale"]
        /\ UNCHANGED outbox
     \/ /\ ~Open(l)
        /\ UNCHANGED <<sock, outbox>>
  /\ Finish(l) /\ UNCHANGED clientVars

(* HandleConnection: the next frame of the connection. *)
Receive(l) ==
  /\ pc[l] = "idle" /\ Open(l) /\ inbox[l] # <<>>
  /\ req' = [req EXCEPT ![l] = Head(inbox[l])]
  /\ inbox' = [inbox EXCEPT ![l] = Tail(@)]
  /\ pc' = [pc EXCEPT ![l] = "execute"]
  /\ UNCHANGED <<hop, mayRetry, resp, holder, sock, outbox, clientVars, serverVars, pheromone, execs>>

(* RecvFrame calls recv for the length of a frame and again for its bytes:  *)
(* a thread whose descriptor Stop closed meanwhile takes the frame if it    *)
(* already waited for the bytes; if not, its second call fails, and it ends.*)
LoseFrame(l) ==
  /\ pc[l] = "idle" /\ sock[l] = "orphaned" /\ inbox[l] # <<>>
  /\ sock' = [sock EXCEPT ![l] = "stale"]
  /\ UNCHANGED <<threadVars, holder, inbox, outbox, clientVars, serverVars, pheromone, execs>>
--------------------------------------------------------------------------------
(* TcpServer::Start and the phases of TcpServer::Stop.  The accept thread   *)
(* is usually blocked in accept when running_ is cleared, but need not be.  *)

StopServer(n) ==
  /\ server[n] = "up" /\ stops < MaxStops
  /\ \E phase \in {"closing", "joined"} : server' = [server EXCEPT ![n] = phase]
  /\ stops' = stops + 1
  /\ UNCHANGED <<threadVars, linkVars, clientVars, pheromone, execs>>

\* Mutant: Stop closes only the listening socket.
NoneClosed(n, blocked) == sock

AllClosed(n, blocked) ==
  [l \in Link |-> IF l[2] # n \/ sock[l] # "live" THEN sock[l]
                 ELSE IF l \in blocked THEN "orphaned" ELSE "stale"]

(* Closing the listening socket wakes the accept thread, or nothing does.   *)
AcceptReturned(n) ==
  \/ server[n] = "joined"
  \/ server[n] = "closing" /\ n \in Waking

(* Stop, past the join of the accept thread, closes the connections.  On    *)
(* POSIX the threads that are blocked in recv meanwhile do not notice.      *)
CloseConnections(n) ==
  /\ AcceptReturned(n)
  /\ server' = [server EXCEPT ![n] = "draining"]
  /\ \E blocked \in SUBSET { l \in Link : l[2] = n /\ pc[l] = "idle" } :
       /\ n \in Waking => blocked = {}
       /\ sock' = AllClosed(n, blocked)
  /\ UNCHANGED <<threadVars, holder, inbox, outbox, clientVars, stops, pheromone, execs>>

JoinThreads(n) ==
  /\ server[n] = "draining"
  /\ \A l \in Link : l[2] = n => pc[l] = "idle" /\ ~Open(l)
  /\ server' = [server EXCEPT ![n] = "down"]
  /\ UNCHANGED <<threadVars, linkVars, clientVars, stops, pheromone, execs>>

StartServer(n) ==
  /\ server[n] = "down"
  /\ server' = [server EXCEPT ![n] = "up"]
  /\ UNCHANGED <<threadVars, linkVars, clientVars, stops, pheromone, execs>>

Evaporate(n) ==
  /\ pheromone' = [pheromone EXCEPT ![n] = [k \in RouteKey |-> Evaporated(@[k])]]
  /\ UNCHANGED <<threadVars, linkVars, clientVars, serverVars, execs>>
--------------------------------------------------------------------------------
GatewayStep(t) ==
  RefuseStatement(t) \/ RefuseExhausted(t) \/ ExecuteLocally(t) \/ ChooseHop(t) \/ Observe(t)

ForwarderStep(t) ==
  \/ UnknownPeer(t) \/ LockConnection(t) \/ Connect(t) \/ ConnectFailed(t) \/ Send(t)
  \/ ExchangeFailed(t) \/ RecvResponse(t) \/ Retry(t) \/ Unlock(t)

ThreadStep(t) ==
  \/ GatewayStep(t) \/ ForwarderStep(t)
  \/ t \in Client /\ ReturnToClient(t)
  \/ t \in Link /\ (ReturnToPeer(t) \/ Receive(t) \/ LoseFrame(t))

ServerStep(n) == CloseConnections(n) \/ JoinThreads(n)

Next ==
  \/ \E c \in Client : Issue(c)
  \/ \E t \in Thread : ThreadStep(t)
  \/ \E n \in Node : StopServer(n) \/ ServerStep(n) \/ StartServer(n) \/ Evaporate(n)

Spec == Init /\ [][Next]_vars

(* The operating system runs every runnable thread, the one in Stop too.    *)
(* Nobody is obliged to issue, stop, start or evaporate.                    *)
FairSpec ==
  /\ Spec
  /\ \A t \in Thread : WF_vars(ThreadStep(t))
  /\ \A n \in Node : WF_vars(ServerStep(n))
================================================================================
