# AntSQL in TLA+

AntSQL is a research database. Nodes form a mesh, every node owns some shards,
and a query is forwarded from neighbour to neighbour along edges that earlier
queries marked with *pheromone* until it reaches a node that owns its shard.
The repository holds three programs built on that idea:

- `src/engine`, C++23: gateways that route, a TCP transport, a table store;
- `src/service`, Node.js: a hosted document store with an HTTP API, whose
  shards are replicated in one process and whose reads are routed by a port of
  the engine's router;
- `src/sim`, Python: a simulator that compares routing strategies.

This directory holds their TLA+ modules, the TLC configurations that check
them and the TLAPS proofs about them. Paths below are relative to `src/`.

## 1. Inventory

### Engine

| Component | State | Operations | What is hard |
|---|---|---|---|
| Router (`engine/src/router.cpp`) | pheromone per route key and neighbour, under `mutex_` | `Choose`, `ObserveSuccess`, `ObserveFailure`, `Evaporate` | each method is atomic, a caller's choose ... observe pair is not; a missing entry reads as the initial pheromone but is incremented from 0 |
| Gateway (`engine/src/gateway.cpp`) | none of its own; calls the parser, the topology, the executor, the router and the forwarder | `Execute` | nested blocking calls through other nodes; loop prevention and the hop budget travel with the request |
| TcpForwarder (`engine/src/tcp_forwarder.cpp`) | peer addresses; one cached socket per neighbour, each under `Connection::mutex` | `AddPeer`, `Forward` (with one retry) | the mutex is held while the neighbour forwards on; responses lost when a peer stops; the retry repeats what was done |
| TcpServer (same file) | listening socket, `running_`, accept thread, connection threads, `open_connections_` | `Start`, `Stop`, `AcceptLoop`, `HandleConnection` | stopping under load: what wakes which thread, what `Stop` waits for, descriptors reused by other threads |
| InMemoryTopology (`engine/src/in_memory_topology.cpp`) | neighbours, latencies, owned shards, under a mutex | `SetNeighbors`, `SetOwnedRoutes`, `Neighbors`, `Owns` | changes under running queries |
| InProcessForwarder (`engine/src/in_process_forwarder.cpp`) | registry of gateways | `Register`, `Unregister`, `Forward` | the handler runs outside the lock and may outlive its registration |
| TableStoreExecutor (`engine/src/table_store_executor.cpp`) | rows, a write-ahead log | `Execute`, `ReplayWal`, `AppendToWal` | the mutation is applied before it is logged; failed appends are ignored; a torn last line; the columns and values are read by a second tokenizer, not the parser's |
| SimpleSqlParser (`engine/src/simple_sql_parser.cpp`), scope validation (`engine/src/sql.cpp`) | none | `Parse`, `Validate` | which statements have a distribution key |
| Wire codec (`engine/src/wire.cpp`) | none | encode and decode requests and responses | bounds, truncated frames |
| Colony demo (`engine/src/colony_demo_main.cpp`) | none | a driver with five nodes in a ring | |

How they interact: a client thread calls `Gateway::Execute` of its entry node.
The gateway asks the topology whether it owns the shard and runs the executor
if so. Otherwise it asks the router for a neighbour that is not on the
request's route, and calls the forwarder, which locks the neighbour's
connection, sends the request, and waits. At the neighbour the thread that
serves this connection calls `Gateway::Execute` of *its* node, and so on: a
query in flight is a chain of threads, each holding a connection mutex and
waiting for the next. When the response comes back each gateway on the path
rewards or penalises the edge it chose.

### Service

| Component | State | Operations | What is hard |
|---|---|---|---|
| Router (`service/server/router.js`) | pheromone per route key and replica | `choose`, `observeSuccess`, `observeFailure`, `evaporate` | claims to be the engine's router |
| Colony (`service/server/colony.js`) | three replicas per shard: store, log, tenants it failed for; index, document counts | `write`, `read`, `list`, `failReplica`, `healReplica`, restart | writes reach the replicas after different delays; failing and healing between the `await`s; quota checked before and counted after; rebuilding from one replica |
| Rate limiter (`service/server/rateLimit.js`) | token buckets | `take`, `sweep` | refill and sweep of idle buckets |
| Key store (`service/server/auth.js`) | keys, and the file they are saved to | create, revoke, verify | the file is overwritten in place; a crash may come before, in or after the write, and before the answer |
| HTTP front end (`service/server/index.js`) | requests in flight | the handlers; `PATCH` reads before it writes, and waits for its body in between | lost updates; requests of a key that is revoked meanwhile |
| Query language, pagination (`service/server/query.js`), SDK (`service/sdk`) | none; the cursor is the client's | filter, order, page | each page is a scan of its own while documents change; a cursor whose document is gone or moved |

### Simulator

`sim/antsql_sim`: topology, churn, shards, workload, metrics and five routing
strategies, single-threaded. The adaptive centralized strategy broadcasts its
tables with a delay, the greedy one acts on stale beliefs.

### What makes each component correct

- *Router*: an edge that keeps failing loses the greedy choice soon, whatever
  other threads do between the failures; the two implementations stay close.
- *Gateway*: a route is a loop-free path within the budget; a statement runs
  where its shard lives, once, unless a lost response makes a retry repeat it;
  only edges that lead to the shard's owner get better than untried ones.
- *TcpForwarder*: calls that share a socket never get each other's response;
  the mutex is released on every path; no threads wait for each other in a
  circle; every call returns.
- *TcpServer*: `Stop` returns, and nothing is left running or open after it.
- *TableStoreExecutor*: what was acknowledged is there after a restart; a row is
  stored under the key it names, though one program finds the key and another
  reads the row.
- *Wire codec*: a message is decoded to what was encoded, anything else is refused.
- *Colony*: while a replica of a shard is up, an acknowledged write is what the
  next read returns, through failures, heals and restarts; the index and the
  quota match the stores.
- *Rate limiter*: no identity is admitted more often than a full bucket and its
  refill allow, whichever buckets are dropped.
- *Key store, front end*: what a client was told of its key stays true through
  restarts; no update is lost.
- *Query language*: the pages of a listing together are the listing.

## 2. Modules

| Module | Models | Role |
|---|---|---|
| `RouterTable` | `router.cpp`'s arithmetic on the scores of one route key | constant-level operators that `Router` and `Mesh` share |
| `Router` | one gateway's `Router`, called by several threads | `Choose`, `ObserveSuccess`, `ObserveFailure`, `Evaporate` as actions |
| `RouterPort` | `service/server/router.js` beside the engine's router | both tables get the same feedback, each with its own reference cost |
| `Mesh` | `gateway.cpp` and `tcp_forwarder.cpp`, one gateway, router, server and forwarder per node | clients, connection threads, connections, servers |
| `MeshProperties` | | invariants, action properties, liveness, the refinement mapping |
| `QueryService` | the promise of `Gateway::Execute` to a client (`gateway.hpp`) | the abstract specification `Mesh` implements |
| `MeshProofs` | | the theorems about `Mesh`: discipline of locks and connections, routes, truthful answers, `QueryService`, exactly once |
| `RouterProofs` | | the theorems about `Router` and `RouterPort` |
| `Induction` | | induction over the naturals, and finite recursions, for proofs about sequences |
| `Colony` | `service/server/colony.js`: shards, replicas, logs, index, quota | requests, failures, heals and restarts, one step per turn of the event loop |
| `ColonyProperties` | | invariants and an action property |
| `ColonyProofs` | | the theorems about `Colony` |
| `Sql` | `simple_sql_parser.cpp` and the check of its result in `sql.cpp` | constant-level operators on sequences of tokens |
| `TableStore` | `table_store_executor.cpp` with its log, called after `Sql` | one step per validation, execution, append and restart |
| `TableStoreProperties` | | invariants and the refinement mapping |
| `TableStoreProofs` | | the theorems about `Sql` and `TableStore`; that `TableStore` implements `DurableTable` |
| `DurableTable` | what an executor of statements promises (`README.md`, `table_store_executor.hpp`) | the abstract specification `TableStore` implements |
| `Wire` | `wire.cpp` | encoding and decoding of requests and responses as operators |
| `WireProofs` | | lemmas: what is encoded is decoded, and nothing else |
| `TcpServer` | `TcpServer` in `tcp_forwarder.cpp`, system call by system call | accepting thread, connection threads, `Stop`, the descriptor table |
| `TcpServerProperties` | | invariants, liveness, exactness of the codec |
| `TcpServerProofs` | | the theorems about `TcpServer`, and the exactness of `Wire` |
| `Query` | `query.js`: where clauses, order, cursor, limit | operators on documents |
| `FrontEnd` | `index.js`, `auth.js`, `rateLimit.js`, composed with `Query` | requests from await to await, saves, crashes, sweeps |
| `FrontEndProperties` | | invariants |
| `FrontEndProofs` | | the theorems about `FrontEnd` and `Query` |
| `MCRouter`, `MCMeshLine`, `MCMeshRing`, `MCColony`, `MCTableStore`, `MCTcpServer`, `MCFrontEnd` | | instances for TLC |

### RouterTable and Router

A table is a function from neighbours to scores; a neighbour without an entry
in the code's inner map is `Unseen`, since the code treats it differently when
it reads it (`PheromoneLocked`, initial pheromone), rewards it (`operator[]`,
from 0), penalises it (from the initial pheromone) and evaporates (not at all).
The code's doubles are fixed-point naturals, cut off at `ScoreCap`; the unit is
0.5, so that initial pheromone
0.5, base reinforcement 2.5, failure penalty 0.25 and the smallest reward have
a place. The desirability score / latency is compared by cross-multiplication.
The exploration draw of `Choose` becomes a choice: with `Explores` any
unvisited neighbour may be returned, without it `std::max_element`'s, that is
the first best one. `ObserveSuccess` picks the observed cost from `Costs` and computes
the `Reinforcement` from it as the code does, base * clamp(reference / cost, 2 %, 1).
The engine's reference cost is 20 ms (`router.hpp:40`); the service makes its router
with the defaults of `router.js:13`, where it is 8 ms, so `RouterPort` rewards the
same success with less. Every public method holds `mutex_` and is one action; the
`RouteDecision` a caller keeps between `Choose` and `Observe` is the variable
`decision`. `divisor` (the failure penalty to the power of the failures since the last
success) and `peak` are ghosts for the property `FailsOver`.

### Mesh

*Threads.* The clients and the connection threads. The forwarder caches one
socket per neighbour and `Stop` joins its connection threads, so at any time at
most one thread serves the connection from n to m: it is named by the link
`<<n, m>>` and runs at m. A thread's program counter is where its call is:

| `pc` | Code |
|---|---|
| `idle` | not called, or in `HandleConnection`'s `RecvFrame` |
| `execute` | `Gateway::Execute` up to the forward (`gateway.cpp:21-47`) |
| `lock` | `Forward`, before it has `Connection::mutex` (`tcp_forwarder.cpp:279-295`) |
| `exchange`, `recv` | `ExchangeOverConnection`: connect and send, receive (`:239-277`) |
| `respond` | `Forward`, with an attempt's response in hand (`:301-306`) |
| `observe` | `Gateway::Execute` after the forward (`gateway.cpp:54-63`) |
| `return` | the call is done, its response not yet handed over |

*Steps.* An action is the code between two points where another thread can be
observed: a mutex, a socket operation. `RefuseStatement`, `RefuseExhausted`,
`ExecuteLocally` and `ChooseHop` are the branches of `Execute` in the order of
its tests; `UnknownPeer`, `LockConnection`, `Connect`, `ConnectFailed`, `Send`,
`ExchangeFailed`, `RecvResponse`, `Retry` and `Unlock` are `Forward` and the
exchange; `Observe` is the router's feedback; `Receive` and `ReturnToPeer` are
`HandleConnection`, `LoseFrame` its end with half a frame read, `ReturnToClient` the
end of a client's call.

*Connections.* `sock` is the forwarder's view of the cached socket: `none`,
`live`, or `stale` (the peer has closed its end, which the next operation finds
out). `inbox` and `outbox` hold the frames on their way. A failed exchange
drops the socket with whatever was in flight on it. Frames the peer sent before
it closed can still be received.

*Servers.* `Stop` is not one step: it clears `running_` and closes the listening
socket (`closing`), joins the accept thread (`joined` when that has returned),
closes the connections (`draining`), joins the connection threads (`down`).
The code supports Winsock and POSIX, which differ in what closing a socket does
to a thread that is blocked on it: Winsock wakes it, POSIX does not. `Waking`
is the set of nodes that run on the former. On the others `Stop` waits until
one more connection wakes the accept thread, and a connection thread that was
blocked in `recv` when its descriptor was closed (`sock` is `orphaned`) may take one
more frame. `RecvFrame` calls `recv` for the length and again for the bytes: a thread
that already waited for the bytes reads the frame, runs it and then fails to
answer (`Receive`); one that waited for the length fails in its second call
(`LoseFrame`).

*Abstractions.* A statement is its route key, or `NoKey` when it has no table or
no distribution key; the executor is the environment and returns any status of
`ExecutorStatus`. The topology does not change. Frames are whole: their bytes
are in `Wire` and the 64 MB limit is in `TcpServer`. A process does not crash and the network
fails only where a server stops or an address is missing: to the forwarder a
reset connection looks like a stopped server. Descriptor numbers and
the register of connections are in `TcpServer`. A worker that finds `running_`
cleared before its first `recv`
leaves a little earlier in the code than in the model.

### QueryService

For a client of the mesh there are no nodes. It asks once; if the statement can
be routed, executors may run it, any number of times and even after the answer;
the answer is an executor's verdict only if one ran, `UnsupportedSql` exactly
when the statement cannot be routed, and a transport failure otherwise, which
promises nothing either way. That is deliberately weak: it is what the code
gives once servers may stop. The two bounds on how weak are the separate
properties `ExactlyOnceWithoutStops` and `DuplicatesNeedStops`.

### Colony

*Steps.* The service is one thread; its requests interleave at their awaits. A
step is what one request does in one turn of the event loop. `StartWrite` is
`write` up to the sleeps of the replicas it chose (`Targets`), or to its end if
there are none; a refused write changes nothing. `WriteReplica` is one replica
waking up: the store, then the log. The promise of the last replica resolves in
the same turn, so its write and the answer, with the index and the count, are
one step (`Proceed`, `Acknowledge`). `AppendFails` is a replica whose append
throws after its store was changed: the client gets an error at once, the other
replicas go on. A read tries replicas that are down within one turn and sleeps
for the first one that is up; `EndRead` looks into its store. `list` is a read of
every document in the index at once. `FailReplica` and `HealReplica` are the
handlers of the failure demo; the source of a heal is the first sibling that is
up. `Restart` is the end of the process and its constructor: the logs are
replayed, the index comes from each shard's first replica.

*State.* `store` and `disk` are a replica's `Map` and what a replay of its log
gives; `failed`, `listed` and `count` are `failedFor`, `indexes` and
`tenantDocCounts`. `writing` and `reading` are the local variables of requests
in flight. Three ghosts say what is due: `acked` is what the last acknowledged
write of a document left, `maybe` what unanswered or failed writes since then
may leave, `fresh` what a read in flight may return.

*Environments.* There are five things that the code does not defend
against: overlapping writes of one document, failing every replica of a shard
for a tenant, healing a replica while the tenant writes to its shard, a restart
while replicas are failed, and appends that throw. The
constant `Environments` lists which of them happen together, with the documents
in use, the quota and the bounds on writes, failures and restarts; `Init` picks
one, and a property says in which of them it holds. Without faults the storage
keeps all its promises; section 5 says which of them each fault breaks.
A failure of single replicas, heals, restarts with writes in
flight and concurrent requests for different documents are always possible.

*Abstractions.* A document's collection and id are one model value; its shard
and tenant are constants. The router's choice of a replica is free. A crash
between the several appends of one heal, a throwing append inside a heal and a
torn last line of a log are left out, and so is compaction, which keeps what a
replay gives.

### Sql, TableStore and DurableTable

*Parsing.* A statement's text is the sequence of its tokens, `<<type, text>>`.
The parser is a recursive descent that gives up at the first token it does not
expect and keeps nothing of what it has read but the kind, the table, the
distribution key's value and whether there is an aggregate. So each clause is a
condition on tokens at computed positions, and a list is as long as commas
follow its items. Numbers are model texts with a value in `NumberOf`; `KeyMax`
stands for 2^32-1 and `ULongMax` for the largest `unsigned long`, at which
`strtoul` saturates.

*Executing.* `TableStoreExecutor` does not use what the parser read, but for the
key. It tokenizes the text again and skips to INTO, VALUES or SET. A list is the
positions of its items (`IdentList`, `LiteralList`), and the n-th column gets the
value of the same `Rank`. `InsertedRow` and `Assigned` are what it finds there, for every sequence of tokens and not only
for those the parser accepts, since a replay hands it torn ones.

*Steps.* A client's call is `Submit` (it writes a text: a statement, or one with
a typo), `Validate`, `Execute` up to the append with `mutex_` held (`holder`),
one of `AppendWhole`, `AppendNothing` (the log cannot be opened or written),
`AppendPart` (the disk is full) or `CrashInAppend`, and `Return`. `Crash` comes
between any two. The log is kept as the rows that a replay of its whole lines
gives (`logged`) and a last line that may be torn (`tail`), which `ReplayWal`
reads with missing facts (`ReadTorn`) and the next append continues (`Glued`). What
the tail was cut to decides what the digit of the next line's kind becomes, which
follows it without a space: behind a cut kind there is no kind that does anything;
behind a table's name, whole or cut, it makes another name (`Beginnings`,
`Continued`), whose row 0 the line is taken to be about; behind a key, cut or whole,
it makes another key, and one that does not fit 32 bits is read as the largest,
`KeyMax`, with no text. `served` is a
ghost: the rows as the answered statements leave them, in the order in which
they were logged. `suspect` is the ghost of the rows that a torn or missing line
was about, those that its remainder was taken to be about included.

*DurableTable* knows no log, no mutex and no text: a statement that is understood
takes effect once, in one step between call and answer, on the row its key
names; one that is not is refused. A crash loses the calls and no row.
`ImplementsTable` maps `served` to its table and asks for its steps in every
environment whose only fault is typing errors. What that rests on at each single
text is `StatementsReadAsMeant` and `TyposAreRefused`, which section 4 proves.

*Abstractions.* A torn append does not split a token of the statement's text (that
leaves another value in the same row), it does split the name and the key in the
line's head. A torn log is appended to once more at
most. Case is folded for the texts listed in `LowerCase`. The route key of a
statement and the topology are in `Mesh`.

### TcpServer and Wire

The process's descriptors are a function from numbers to sockets. A thread holds
a number and the system looks the socket up when it is called (`Here`), so a
number that was closed and given to a new socket is used on the wrong one. A
thread that waits in `accept` or `recv` keeps the socket it found (`on`). Each
action is one system call or one access to `running_` or the registered
connections: `AcceptLoop`, `CallAccept`, `Accept`, `Refuse`, `Admit`, `Register`,
`Spawn`; `ServeLoop`, `CallRecv`, `RecvLength`, `RecvRest`, `RecvForeign`, `RecvFails`,
`SendFrame`, `CloseConnection`, `Erase`; `BeginStop`, `CloseListener`, `JoinAcceptor`, `CloseNext`,
`ClearConnections`, `JoinWorkers`. `OpenOther` is another part of the process
that opens a socket. A frame is read in two calls, its length and its bytes, and sent
in two, by the server (`SendFrame`) and by the clients (`SendRequest`, `SendRest`), so
that a number may be closed or given away between them and a client may leave with
half a frame sent. The environment says whether numbers are given away again,
and whether closing wakes who waits (Winsock) or not (Linux), and which frames each
client sends.

`Mesh` has the same server with one step for the closing of connections and one
thread per connection; what `TcpServer` adds is what the steps in between and the
numbers allow. It has what `Mesh` leaves out (numbers, registration, refused and
malformed frames) and leaves out the nested forwards, as `Answered`.

In `Wire` a message is a sequence of cells, each what is written or read in one
piece (a byte, a `uint32`, a double, a character). The reader fails when it
would pass the end, so decoding is a condition on positions; each position
depends on the lengths before it. Byte order within a cell is left out.

### Query and FrontEnd

The service is one thread; an action is the code between two awaits.
Authentication and the rate limit come first and in one turn (`Admitted`,
`Refused`); key requests are answered in that turn, document requests wait for
their body or the colony. The colony's own behaviour is `Colony`; here it is the
map `docs`, whose reads and writes take effect at a moment of their own.

- *Keys*. `Saves` is `_save` and the answer: `keys.json` is overwritten in place,
  and the process may end before, in (`Torn`) or after it; a full disk throws
  there and ends the process as well. `Boot` reads the file, and does not run if
  it is torn. `told` is what clients were answered.
- *Buckets*. Both limiters' buckets in one map, the address that creates keys
  beside the keys. Tokens and refill are counted in the same unit, so that one
  tick refills a natural number. `history` is when each identity was admitted.
- *PATCH* reads (`ReadExisting`, which fails with 404 where there is no document, and
  with 503 where no replica is up) and writes (`Write`) in different turns; `merged`
  is what the documents would be if each request took effect at its write, and
  `crossed` the documents whose PATCH another update crossed.
- *Pages*. A client asks (`AskPage`), each document is read at its own moment
  (`ReadListed`), the answer is computed by `Query` (`AnswerPage`) and gives the
  cursor for the next. `steady` are the documents that nobody touched since the
  client began, `firm` says that every cursor's document was one.

`Query` has values of all the types `compare` tells apart, as `<<type, position>>`.

## 3. What is checked

| Run | Module, config | Checks | Result |
|---|---|---|---|
| `router` | `MCRouter`, `Router.cfg` | `TypeOK`, `FailsOver`, `PortNeverFarAbove` | holds, 1 327 000 states |
| `mesh_line` | `MCMeshLine`, `MeshLine.cfg` | `TypeOK`, `OwnResponse`, `DuplicatesNeedStops`, `TrailsLeadToOwner`, `NoWaitCycle`, `ImplementsService` | holds, 560 000 |
| `mesh_ring` | `MCMeshRing`, `MeshRing.cfg` | `Discipline`, `RouteIsPath`, `ExactlyOnceWithoutStops` | holds, 276 000 |
| `mesh_live` | `MCMeshLine`, `MeshLive.cfg` | `EveryClientAnswered`, `StopReturnsWhereWoken`, on a mix of platforms | holds, 60 000 |
| `mesh_stop_posix` | `MCMeshLine`, `MeshStopPosix.cfg` | `StopReturns`, every node on POSIX | violated (finding 2) |
| `mesh_deadlock` | `MCMeshRing`, `MeshDeadlock.cfg` | `NoWaitCycle` | violated (finding 1) |
| `colony` | `MCColony`, `Colony.cfg` | the seven invariants of the colony and `TenantsIsolated`, in six environments | holds, 946 000 |
| `table_store` | `MCTableStore`, `TableStore.cfg` | `TypeOK`, `MemoryIsServed`, `ReplayIsServed`, `RowsUnderTheirKey`, `ColumnListsEnd`, `ImplementsTable`, in eight environments | holds, 244 000 |
| `tcp_server` | `MCTcpServer`, `TcpServer.cfg` | `TypeOK`, `AnswersInOrder`, `OwnSockets`, `ServedIsRegistered`, `StopLeavesNothing`, `StopReturns`, in four environments; before it starts, `WireIsExact` | holds, 531 000 |
| `front_end` | `MCFrontEnd`, `FrontEnd.cfg` | `TypeOK`, `KeysAsAnswered`, `RateBounded`, `UpdatesAreKept`, `PagesExact`, in six environments | holds, 1 159 000 |
| `colony_early_heal` | `MCColony`, `ColonyEarlyHeal.cfg` | `UpReplicasCurrent` | violated (finding 3) |
| `colony_degraded_restart` | `MCColony`, `ColonyDegradedRestart.cfg` | `IndexIsExact` | violated (finding 4) |

### The properties

Router: `FailsOver` - after f failures since its last success an edge that was
worth s before the first of them is no longer the greedy choice against an untried
neighbour that is no farther, as soon as s * penalty^f < initial, though other
threads choose, observe and evaporate in between. `PortNeverFarAbove` - given the same
feedback, the engine and the port know the same edges, and the port rates none by
more than the initial pheromone above the engine: that the engine's first success
drops it is all the two forget differently, whatever follows. The engine may rate
an edge above the port without such a bound, since its rewards are larger.

Mesh, safety:

- `OwnResponse` - a caller gets the response to its own query, though sockets
  are shared, broken, replaced and retried.
- `RouteIsPath` - a request's route is the path it took from its client's entry
  node over links of the topology; no node is on it twice; route and remaining
  budget add up to what the client gave.
- `ExactlyOnceWithoutStops` - while no server has been stopped, a statement ran
  once when its client was given an executor's verdict, and otherwise never.
- `DuplicatesNeedStops` - a statement runs at most once, and for every stop once
  more over each link by which its request can come to some one server
  (`WaysInto`: at most one on a line or a tree), though every hop retries.
- `TrailsLeadToOwner` - only an edge behind which the owner lies gets better
  than an untried one ("behind" m, from n: reachable from m without entering n).
  Checked on the line, where that is not everything; proved for every topology.
- `NoWaitCycle` - no set of threads waits on itself. It holds on the line (and
  on every topology without cycles of links) and fails on the ring.
- `ImplementsService` - `Mesh` refines `QueryService`: asked and answered calls
  map to phases, `execs` to `runs`, every other step is a stutter.
- `Discipline` - the inductive invariant of section 4, checked as an invariant
  before it was proved. Two of its parts are of interest on their own:
  `LockDiscipline`, between acquisition and release `Forward` holds exactly the
  mutex of the neighbour it forwards to, through retries and failures; and
  `NoPipelining`, on an open connection at most one call is in flight, and
  exactly while the holder waits for its response.

Mesh, liveness: `EveryClientAnswered` - a call of `Execute` returns, whichever
servers stop under it, also where their `Stop` itself hangs.
`StopReturnsWhereWoken` - on a platform where closing a socket wakes its thread
`Stop` returns, though the threads it joins may wait for servers on others.
`StopReturns` says so for every platform, and fails.

Colony (a document is *settled* when no write of it is in flight or was left
unanswered since the last acknowledged one; an environment is *tolerable* when
its only fault is a full disk, and until a restart):

- `UpReplicasCurrentIfTolerable` - every replica that is up for the tenant holds
  what the last acknowledged write of a settled document left, deletes included,
  through failures, heals and restarts.
- `UpReplicasLogged` - without faults, so does its log.
- `ReadsAreFresh` - if tolerable, a read never returns anything older than what
  was acknowledged when it began, though its replica may be failed, miss writes
  and be healed while it sleeps.
- `IndexIsExactIfTolerable` - `list` lists what was acknowledged and nothing else:
  always without faults, and until a restart with any of them.
- `CountIsIndex`, `TenantsIsolated` - the quota's count is the size of the index,
  and only a tenant's own writes and heals, or a restart, change its documents;
  under every fault.
- `QuotaOvershootBounded` - the quota is passed by less than the writes in flight.

Table store:

- `MemoryIsServed` - the rows in memory are those the answered statements left, but
  for the row of a statement that is being logged, also right after a replay.
- `ReplayIsServed` - what a restart would read, at any moment, is what was answered,
  with line breaks in literals as spaces. Both except `suspect` rows: a torn or
  missing line damages those it was about or is taken to be about, and no other, also
  where the next line continues its name or key.
- `RowsUnderTheirKey` - a stored row has its key column, and it is the key the row is
  stored under: the parser's reading of a text and the executor's agree on that,
  for every text the parser lets through, typos included, unless a statement
  names the key twice or sets it, or a line is torn.
- `ColumnListsEnd` - the executor's loop over the list of columns ends, for every
  such text and for every torn or continued line that is replayed. On another symbol than a
  comma it would run for ever with the mutex held.
- `ImplementsTable` - with a log that can be written and no odd literals the whole
  is a `DurableTable`.

TCP server (*fresh* where numbers are not given away again; *closing* once `Stop`
closes connections):

- `AnswersInOrder` - a client gets the answers to its own frames, in their order,
  decoded to what the handler said; `OwnSockets` - no thread uses a socket of
  another thread or of another part of the process. Both hold when fresh, and
  when numbers are reused until closing; after that they are false (section 5).
- `ServedIsRegistered` - when fresh, each connection that is served is registered
  until `Stop` has closed all that are.
- `StopLeavesNothing` - when `Stop` has returned no thread runs and no connection is
  open, in every environment. `StopReturns` - when fresh, and where a close wakes
  who waits, it does return, whatever clients do.
- `WireIsExact` - requests and responses are decoded to what was encoded; each
  proper prefix of a message, and each message with something behind it, is
  refused. It has no variables: `MCTcpServer` assumes it under the name
  `MessagesAreExact`, so TLC evaluates it for 216 requests and 12 responses.

Front end:

- `KeysAsAnswered` - while the process runs a key that a client was given is valid
  until its revocation is asked, and never valid after that was answered; of a
  key whose request ended in a crash nothing is promised.
- `RateBounded` - over any span of one run of the process an identity is admitted at
  most a full bucket and what refills in that span.
- `UpdatesAreKept` - a document that no update crossed between the read and the
  write of a PATCH is what its updates make of it one after the other, also where the
  reads of some of them fail.
- `PagesExact` - a client that follows the cursors to the end, with every cursor's
  document untouched until it was used, gets each untouched document exactly once
  if it matches its query and never if not, though others are written, moved,
  deleted and come to match or not in between, and reads of others may fail.

### Bounds, and why they suffice

- *Router*: one key (the tables of different keys share nothing), two callers
  (any number of others is a sequence of the second's steps, since a method is
  atomic), two near neighbours and a far one: a tie, a worse edge and a better
  one. Two costs, 20 and 100 ms, on which engine and port differ (5 and 2 units) and
  agree (1). `ScoreCap` 6 (3.0) is a full reward of the engine and a slow one, or one
  on top of the initial value. `DivisorBound` 16 counts two
  failures with the divisor 4, so that both "not yet" and "now it fails over" happen. Saturation only lowers scores. Evaporation keeps
  three quarters instead of 98 %, which reaches the same orders of events in
  shorter runs.
- *Line* a - b - c: a and c own one key each, so queries cross at b in opposite
  directions and every query of an end node is forwarded. One client enters at
  the end, one in the middle; each asks for any key or none, with a budget of 0
  or 2 (refused at once; enough for the line). Two stops give a server
  stopped and started twice, or two servers down together.
- *Ring*: three nodes that are all neighbours, so that a query can take a detour
  and come back towards its origin. Greedy routers, so that one query's
  feedback decides the route of the next; one peer address missing; two
  clients at one node, so that one finds the connections the other left.
- `MaxStops` bounds the stops, `HopBudgets` the budgets, `ScoreCap` the scores
  (2 in the mesh: whether an edge is above, at or below initial is all that the
  routing can tell apart with these rewards). A client asks once; reuse of a
  node's connections comes from the other clients.
- *Colony*: one shard, since shards share only the counts; three replicas, so
  that one is failed, one is the source of a heal and one is neither. Two
  writers and a reader: writes of two documents, or two of one under `overlap`,
  and a read across them. Two values and absence tell old, new and deleted
  apart. Three writes give a write, another that a failed replica misses, and
  one after it was healed; two do where there are two tenants, since one
  replica is stale after one. The quota environment has three documents, so
  that two racing writers pass a quota of one. `MCColony` lists the six
  environments: none of the faults with one document, with two tenants and
  with a tight quota; a full disk; blackouts, early heals and restarts while
  replicas are failed; overlapping writes with full disks and a restart.
- *TableStore*: two clients, since a third would only wait for the mutex as the
  second does. Three calls and a crash give a torn line, the line that continues
  it, and what a replay makes of both; keys 1 and 12, so that the digits of one
  are cut to the other and the digit of the next line makes 12 of 1; a key has 32 bits
  up to 99, so that 12 continued has not. A table `user` beside `users`, with a row of
  key 0, is what a torn name stands for. Typing
  errors are every text with one token missing, one replaced by a stray symbol,
  or cut inside a string, of fifteen statements.
- *TcpServer*: two connections and a socket of another part of the process, with
  four numbers, so that a number is closed, given away and used by its former
  owner. One connection where closing does not wake. In one environment
  a connection carries four frames, a truncated request, a request, an empty frame
  and another request; where closing does not wake a request, a truncated one and one
  that is too long. The other two have two connections, with a frame each, or with
  one frame and numbers that are given away again. Numbers that another part opened
  before `Stop` are left out: nobody can hold one of them.
- *FrontEnd*: three keys, two restarts and five requests for the key file; a limit
  of two tokens that refills half a token per tick, with a sweep that calls a
  bucket idle at once; two clients that update one document with four requests;
  a collection of up to four documents, three queries with pages of one or two,
  and four or five requests for pages and updates. `sweep` drops no bucket in any
  state (section 5), so `Sweep` changes nothing; the property is checked on what
  it may drop through its mutant.
- `TableStore`, `TcpServer` and `FrontEnd` are checked without deadlock detection:
  their calls are bounded, a server that nobody calls waits, and a torn key file
  ends the service.
- Deadlock is checked in every other run: a router can always evaporate, so this says
  little in the mesh; that is why the wait cycle is an invariant of its own.

### Fairness

`FairSpec` assumes weak fairness of each thread's steps and of each `Stop`'s own
steps: the operating system runs every runnable thread. A `std::mutex` makes no
promise of fairness among its waiters; none is assumed (the waiter may lose every
race, but each client asks once, so races end). Nobody is obliged to issue
a query, to stop or start a server, or to evaporate.

`TcpServer` assumes the same of the accepting thread, of each connection's thread and
of a `Stop` that has begun, and nothing of clients, of who calls `Stop`, or of others
in the process.

## 4. What is proved

TLC checks the instances of section 3. The theorems hold for every value of the
constants that satisfies the named assumptions of the modules, which are types of
the constants and that special values (`NoThread`, `NoRequest`, ...) are none of
those they stand in for, and otherwise:

| Assumption | What it says beyond types | Why the code justifies it |
|---|---|---|
| `MeshAssumption` | a node is not its own neighbour, latencies are positive, clients are not pairs of nodes | such topologies are what the tests and the demo set up; the others are naming |
| `FinitenessAssumption` | finitely many nodes and clients | what is counted in `DuplicatesNeedStops` has a number; a deployment has finitely many |
| `ExecutorAssumption` | an executor answers Ok or ExecutionError | `TableStoreExecutor` has another answer only for statements of an unsupported kind, which the gateway refuses |
| `MessagesAssumption` | a handler's answer is in range, and what a client sends is a request or does not decode | any bytes are one or the other |
| `ColonyAssumption`, `RequestsAssumption` | finitely many documents and writers, at least one of each | a process has finitely many |
| `RouterAssumption`, `RouterPortAssumption` | the least reward is at most the base; the port's reference cost is not larger than the engine's | `router.hpp:36-42`; 8 ms and 20 ms |
| `TableStoreAssumption` | what may be written of a table's name has a continuation by each kind's digit, and neither is changed by folding case | they are the prefixes of a name in lower case, and those with a digit |
| `FrontEndAssumption` | finitely many document names | `NAME_PATTERN` bounds their length |
| `StatementsAssumption` | what clients without faults ask is a statement of the grammar (`IsStatement`): an INSERT and an UPDATE name a column, none twice, an UPDATE as many as it has values, at most one predicate; no table or column is named like a verb or SET; the keywords are in lower case | `Render` writes nothing else, other texts are the typos and the fault `odd`; section 5 tells what a table named `set` does |
| `TextsAssumption` | lower case is in lower case, what has no line break is left as it is; texts are tokens, numbers among them denote something; statements not marked as odd are not, nor have they line breaks without the fault `newline` | `Tokenize`, `std::tolower`, the replacement of line breaks; the last two define the faults `odd` and `newline` |

No theorem restricts the environment beyond what its property says. Where a
property excepts an environment or a fault, section 5 tells what goes wrong there.
No invariant is inductive as it stands; each part below names what was added and
why. Every strengthening was checked by TLC as an invariant before it was proved.

### Routers (`RouterProofs`)

| Theorem | Statement |
|---|---|
| `RouterTrails` | `PortSpec => []Trails`, the inductive invariant |
| `RouterTypeCorrect` | `PortSpec => []TypeOK` |
| `RouterPortNeverFarAbove` | `PortSpec => []PortNeverFarAbove` |
| `RouterFailsOver` | `PortSpec => []FailsOver` |

`Trails` adds to the types `EdgesShrink`: the score of an edge that failed, times
what failures divided by, is at most its peak; and `PortNeverFarAbove`, the distance
between the two tables. The argument is that rounded division
and evaporation only lower that product, and neither widens that distance; a reward
adds at least as much to the engine's edge, since `Reinforcement` grows with the
reference cost. `FailsOver` then follows from what `Best`
is, by cross-multiplying the two desirabilities.

### Mesh (`MeshProofs`)

| Theorem | Statement |
|---|---|
| `MeshDiscipline` | `Spec => []Discipline` |
| `MeshTypeCorrect`, `MeshLockDiscipline`, `MeshNoPipelining` | `Spec => []TypeOK`, `[]LockDiscipline`, `[]NoPipelining` |
| `MeshOwnResponse` | `Spec => []OwnResponse` |
| `MeshRequestsKept` | `Spec => []RequestState` |
| `MeshRouteIsPath` | `Spec => []RouteIsPath` |
| `MeshAccount` | `Spec => []Account` |
| `MeshImplementsService` | `Spec => ImplementsService` |
| `MeshOneBranch` | `Spec => []OneBranch` |
| `MeshExactlyOnce` | `Spec => []ExactlyOnceWithoutStops` |
| `MeshTrails` | `Spec => []TrailState` |
| `MeshTrailsLeadToOwner` | `Spec => []TrailsLeadToOwner` |
| `MeshNoWaitCycle` | `IsForest => (Spec => []NoWaitCycle)` |
| `MeshRunsAreBounded` | `Spec => []RunsAreBounded` |
| `MeshDuplicatesNeedStops` | `Spec => []DuplicatesNeedStops` |

*Discipline.* `OwnResponse` is about a response in a thread's hands, but where it
comes from is a frame on a socket, put there by a thread of another node, for a
request that a third party may have sent earlier over the same socket. `Discipline`
adds

- `ThreadState`: what a thread holds at each point of its call - a request
  exactly when not idle, a link to its next hop while it forwards, a response
  exactly after an attempt - and that a response it holds answers its own
  request and, if Ok, is backed by an execution;
- `LinkState`: what a connection carries - a frame exists only while the holder
  of the connection waits in `recv`, it is the holder's request or a response to
  it, there is at most one, and the thread that handles it works for the same
  client; a handler that nobody waits for belongs to a server that is draining.

The delicate steps are `Drop` (a dropped socket must not leave a frame that a later
call would take for its own), `CloseConnections` and `ReturnToPeer` (a handler that
outlives its connection must not answer into the next one) and `Observe` (the scores
stay in range, which needs facts on integer division and on `Best`).

*Routes.* `RequestState` says of every thread's request that it is the client's
statement, that route and budget add up to what the client gave, and that the
route is a path from the client's entry without repetition. A request changes in
three ways only (`RequestMoves`): a client issues it, a gateway appends itself, a
handler takes it from a frame, which `Discipline` says is its sender's.

*Service.* `Account` adds that every response, in hands or on a connection, is
truthful: a verdict has an execution behind it, and `UnsupportedSql` means that
the statement has no key. Executions are never undone, so truth lasts. `NextService`
maps each step: `Issue`, `ExecuteLocally` and `ReturnToClient` to the steps of
`QueryService`, all others to a stutter.

*Exactly once.* While no server was stopped, a query has one *tip*: a thread that
works for it and for which no handler works in turn. `OneBranch` says that there is
only one and that it knows whether the statement ran. A forward moves the tip along
the link, a response moves it back, a retry happens only where nothing ran.

*Trails.* What an Ok means for the edge it came over depends on nodes that the
rewarding gateway never sees. `TrailState` follows the response: a handler works on
the request that its connection's holder sent (`HandedOn`), so an Ok, in a thread's
hands (`OkWasFound`) or on a connection (`OkIsCarried`), comes from an owner that is
reachable without entering the nodes on the request's route. The gateway that rewards
an edge is itself on the route, hence the owner is behind the edge. `Reachable` is
defined by closed sets of nodes, so the proof needs no paths and no recursion:
going back one hop, the route is shorter by a node and the set reached is closed
under the link (`ReachableBeyond`). Topology, stops and retries are arbitrary.

*No circular wait.* If a set of threads waits on itself, its members that wait in
`recv` are a set of links of which each is followed by another that does not turn back
(`HandlerGoesOn`: a handler forwards to a node that is not on the route, and the sender
is). In a forest there is no such non-empty set (`WalksTurnBack`): a link that goes down is
followed by one that goes down, for only one neighbour is above its end and that
is where it came from; so a walk goes down for good or, if it never does, up
for good, and both come to an end. `IsForest` states the hypothesis: nodes have depths such
that a link goes one level up or down and a node has at most one neighbour above it.
`MCMeshLine` has TLC evaluate that the line is one, `MCMeshRing` that the ring is
not; on the ring the property is false (finding 1), so the hypothesis is needed.

*How often a statement runs.* A stop can lose a response, and the retry then starts
another branch of the query while the lost handler may still run the statement.
`RunsAreBounded` counts, for a client, the runs so far, the threads that may still
run its statement (`MayRun`: leaves of its query that hold no verdict yet) and
the connections whose next response a stop in progress may lose (`AtRisk`). The
sum, the *toll*, never rises but by a stop: running the statement turns a thread of
`MayRun` into a run, a forward or an answer passes the statement from one thread to another
(`TollPasses`), and a lost response, which lets the holder of the connection retry,
is paid for by the connection, no longer at risk (`TollIsPaid`). A stop adds the
links of `WaysInto` at most (`StopToll`), because a request awaited on a connection
has come along a path from the entry node that does not meet the stopped one
(`AwaitedOnWay`). The bound is reached: with links between a and b, and between any
two of b, c and d, there are two ways from a into d. On POSIX one stop of d leaves
connection threads in `recv` for b and for c; a statement of a for d runs over b's old
connection, after a lost response over c's, and a third time when d is back up
and c retries.

### Colony (`ColonyProofs`)

| Theorem | Statement |
|---|---|
| `ColonyAccounts` | `Spec => []Accounts` |
| `ColonyTypeCorrect`, `ColonyCountIsIndex` | `Spec => []TypeOK`, `[]CountIsIndex` |
| `ColonyTenantsIsolated` | `Spec => TenantsIsolated` |
| `ColonyUpReplicasCurrent` | `Spec => []UpReplicasCurrentIfTolerable` |
| `ColonyReadsAreFresh` | `Spec => []ReadsAreFresh` |
| `ColonyIndexIsExact` | `Spec => []IndexIsExactIfTolerable` |
| `ColonyUpReplicasLogged` | `Spec => []UpReplicasLogged` |
| `ColonyQuotaOvershootBounded` | `Spec => []QuotaOvershootBounded` |

`Accounts` is `TypeOK` and `CountIsIndex` together, which need each other: a delete
takes one from the count, which stays a natural number only because the count
is the size of an index that holds the document, and the size is a number only
because the index is a set of documents.

*Replicas.* A replica that is up may differ from what was acknowledged while a write
is on its way to it. `Replicated` says by what: it holds a *possible* content, the
acknowledged one or one of a write that is in flight or failed (`UpPossible`); once
a write has passed it, or has left it out, it holds that write's (`Passed`), so that
the acknowledgement, which makes this content the only possible one, is true of
all; what a sleeping read may find is in `fresh` (`ReadsPossible`); and there is one
write per document (`OneWrite`), a replica up in each shard (`OneUp`) and a log that
is the store (`AllLogged`) wherever the environment has no fault that breaks them.
`HealReplica` is the step where all are needed: what it copies is possible because
its source is up, and no write has passed because none is in flight.

*Quota.* Nothing is counted when the quota is tested. `QuotaKept` counts what is
*owed*: documents in the index together with those that a write in flight may put
there. A write that passes the test adds at most one to less than the quota
plus the other writers; an acknowledgement moves a document from one part to the
other.

### Table store (`TableStoreProofs`)

| Theorem | Statement |
|---|---|
| `TableStoreStored` | `Spec => []Stored` |
| `TableStoreTypeCorrect` | `Spec => []TypeOK` |
| `TableStoreMemoryIsServed` | `Spec => []MemoryIsServed` |
| `TableStoreReplayIsServed` | `Spec => []ReplayIsServed` |
| `TableStoreColumnListsEnd` | `Spec => []ColumnListsEnd` |
| `TableStoreRowsUnderTheirKey` | `KeyMax < ULongMax => (Spec => []RowsUnderTheirKey)` |
| `TableStoreImplementsTable` | `KeyMax < ULongMax => (Spec => ImplementsTable)`: the refinement of `DurableTable` |

*Memory and log.* The effect of a statement on a row depends on that row only, and a
line has the effect of its statement up to line breaks in literals (`Sanitized`
changes no token that the executor tests). `Stored` says that outside the suspect
rows the log is what was answered (`LogAgrees`), and that memory is so after the
effect of the statement whose client holds the mutex (`MemoryAhead`); further that
this client and no other is between mutation and append (`Calls`), and that a torn
tail is part of a line that was logged, with its rows suspect (`Torn`). A crash
takes memory back to the replay, which is the log up to suspect rows.

*Lists of columns.* That the executor's loop ends is a fact about two grammars. For
what the parser accepts as an INSERT, tokens alternate between identifiers and
commas up to a closing parenthesis (`AcceptedInsert`, by induction along the list),
and the keyword INTO that the executor looks for is the second token. A torn INSERT
ends before or after that parenthesis; either way no other symbol comes first.

*Keys.* `KeyedStore` is the property for memory and log at once. For an accepted INSERT
the parser finds the key at the first column of that name, the executor fills a row
by rank: both count the same commas (`Ranks`, `InsertedValue`), and with a name that
occurs once they agree (`InsertKey`). An UPDATE that does not set the key keeps it. The
hypothesis is that an `unsigned long` has more than 32 bits: where it has 32 (Windows)
the property is false (section 5).

*A durable table.* Where the log can be written nothing is suspect, and `Exact`
strengthens `Stored` to equalities: the log's rows are those that were answered, and
memory is that after the effect of the statement that holds the mutex; `Meant` ties
each call to what its client asked, its text to that statement or to a typo, and an
answer that is not yet given to the rows it was read from. With both each action is a
step of `DurableTable` or none: `Submit` asks; `Execute` takes effect where nothing is
logged (a SELECT, an UPDATE of an absent row), `AppendWhole` where something is; `Validate`
answers what is refused; `Return` gives the answer; `Crash` loses the calls, and the
replay is what was answered.

That the table's answer is the executor's needs `StatementsAreReadAsMeant`: for every
statement, with every number of columns, the parser finds in its text the verb, the
table, the key or its absence, and the executor the names and values. `Render` is
described by the token at each position (`InsertIsWritten`, ...), what a list parser
finds by the first position that is no comma (`ListLengthEquals`), and the two are
compared position by position (`InsertParsed`, `InsertedIs`, `AssignedIs`). No word is
reserved: a statement is read by where its tokens stand.

`TyposAreAllRefused`: a text with an unclosed string is refused at once. One with a
stray symbol is, since each position of an accepted text is a token the parser
tested (`NoMark`). One that lacks a token is for its length: without its first token
it has no verb (`FirstRemoved`); otherwise it has the verb of its statement, and an
accepted UPDATE has 6 + 4n tokens, an INSERT too, a DELETE seven, a SELECT 8, 6 + 2n
or 11 (`AcceptedLength`), which one less than the length of a text of that verb
(`RenderedLength`) is not, or only where the third token would have to be another.

### TCP server and codec (`TcpServerProofs`, `WireProofs`, `Induction`)

| Theorem | Statement |
|---|---|
| `TcpStopLeavesNothing` | `Spec => []StopLeavesNothing` |
| `TcpTypeCorrect` | `Spec => []TypeOK` |
| `TcpOwnSockets` | `Spec => []OwnSockets` |
| `TcpAnswersInOrder` | `Spec => []AnswersInOrder` |
| `TcpServedIsRegistered` | `Spec => []ServedIsRegistered` |
| `WireExact` | `WireIsExact` |

`StopLeavesNothing` speaks only of the end. The invariant `Held` says that an open
connection always has a thread that will close it: the accepting thread from
`accept` until it starts the connection's own, then that one until it closes its
number; that a connection is accepted once; and what `Stop` has joined. Numbers may
be reused: a thread that closes a number that is no longer its own frees a socket
that somebody holds, and then nobody needs to.

The other three need to know whose number is whose. `Owned` says that a holder's
number names the holder's socket, always up to the closing of connections, and
with fresh numbers it names that socket or nothing for ever, no number having two
holders. `Told` is what each client was sent so far: the answers to the frames that
were read, in their order; `Kept`, that whoever may still block is listed where `Stop`
looks. Both need `Owned`: a thread answers on, and erases, the number it holds.

`WireExact` is for all messages. Where a reader ends depends only on cells before that
place, and on an encoded message it ends at its end. So it does not end at the end
of a proper prefix, nor of a longer message, and each field it finds on the way is
the one that was written. The positions of the strings of a route are a recursive
function; the library's induction theorems take an operator and cannot be used
here, so `Induction` derives induction from well-founded orders on finite sets, for
*sets* of naturals: a fact about n is membership in the set of the n it holds of.

### Front end (`FrontEndProofs`)

| Theorem | Statement |
|---|---|
| `FrontEndKeysAsAnswered` | `Spec => []KeysAsAnswered` |
| `FrontEndRateBounded` | `Spec => []RateBounded` |
| `FrontEndTypeCorrect` | `Spec => []TypeOK` |
| `FrontEndUpdatesAreKept` | `Spec => []UpdatesAreKept` |
| `FrontEndOneOrder` | any query puts any documents in one strict total order |
| `FrontEndPagesExact` | `Spec => []PagesExact` |

*Keys.* `KeysKept` adds what the file holds: while the process runs it is what memory
holds, and unless it is torn it agrees with what was told, also while the process
is down. `SavesKeepsKeys` is the step that matters.

*Rate.* `RateBounded` says nothing of what is left in a bucket, which decides
what the next request may add. The invariant `RateKept` bounds both together
(`Within`): what was admitted since the m-th time, plus what the bucket would
hold if it were refilled now, is at most a full bucket and the refill since then.
A tick adds at most one refill to both sides; taking a token moves it from the
bucket to what was admitted; a bucket that sweep drops is full, which is what an
absent one counts as; a restart empties both. With a sweep that dropped other
buckets the invariant would be false.

*Updates.* `Updated` adds that what a PATCH has read is what its document is, as long
as that one is not crossed (`ReadIsCurrent`). Each write either starts from that or
crosses the PATCHes that have read.

*Pages.* `Paged` says of the pages so far that they had each untouched document that
matches and is not behind the cursor once, and no other (`PassedOnce`). It needs
`FrontEndOneOrder`, so that a cursor splits the documents in two, also where values of
several types, missing ones and ties are compared; and that the first documents up
to a limit are a part of that order without gaps, which is where documents must
be finitely many.

### Only model-checked

Every invariant and action property of the passing runs is proved, and so are the
refinements. What TLC alone checks:

- Liveness (`EveryClientAnswered`, `StopReturnsWhereWoken`, `StopReturns`) rests on
  fairness and `ENABLED`, which the prover does not support.

## 5. Findings

Each of the first four is a run that TLC finds violated.

1. *A ring can deadlock* (`mesh_deadlock`). `Forward` holds the neighbour's
   connection mutex during the whole nested call. Three queries on a ring, each
   one hop on its way and in need of a second, wait for each other for ever.
   There are no timeouts on sockets that would break the cycle.
2. *`Stop` can hang on POSIX* (`mesh_stop_posix`). Closing the listening socket
   does not wake the accept thread there, contrary to the comment at
   `tcp_forwarder.cpp:147`; `Stop` waits for a connection that need not come.
3. *A heal can be too early* (`colony_early_heal`). A write chooses its targets
   when it starts; a replica healed before the write has reached the sibling it
   is synced from never gets it, contrary to the "full resync" of
   `service/README.md:81-83`.
4. *A restart can lose the index of a document* (`colony_degraded_restart`). The
   index is rebuilt from each shard's first replica, not from "whatever the
   replicas already recovered" (`colony.js:129-130`); if that replica was failed
   when the document was written, it is not listed, and with the failure
   forgotten it may also be read as absent.

These were met while modelling; the properties are worded so that they hold all
the same.

- The routers differ: `engine/src/router.cpp:62` rewards with
  `scores[hop] += reinforcement`, which starts a missing entry at 0;
  `service/server/router.js:65-72` starts it at the initial pheromone. The reference
  cost is 20 ms in the engine (`router.hpp:40`) and 8 ms in the port (`router.js:13`,
  whose defaults `colony.js:128` uses), the exploration rate 0.05 and 0.06. Yet
  `service/README.md:73-75` and `router.js:3-6` call the formulas the same. After two
  successes of 10 ms an edge is worth 5.0 in the engine and 4.5 in the port; after a
  slow first success it is worth less than an untried one in the engine only. So
  neither rates edges above the other; `PortNeverFarAbove` is what holds.
- The retry is not always on a fresh connection, as `tcp_forwarder.cpp:296-300`
  says it is: it is taken on status `ShardUnavailable`, which the peer may have
  answered for reasons of its own; then the connection is live and the same
  request goes over it again, at every hop of a path. `ExactlyOnceWithoutStops` says
  that this alone never runs a statement twice.
- The quota (`service/README.md:137`) is tested before an await and counted after
  it (`colony.js:187-195`), so writes of new documents in flight together all
  pass; `QuotaOvershootBounded` says by how many.
- With every replica of a shard failed for the tenant a write has nothing to
  await: it is acknowledged and indexed, and is in no store and no log, contrary
  to `service/README.md:80-81`. The fault `blackout`.
- Overlapping writes of one document reach the replicas after different delays
  and leave them disagreeing for good. The fault `overlap`.
- An append that throws leaves the value in memory only; `syncPrefixFrom` skips
  what is equal in memory (`colony.js:99`), so a heal does not repair the log, as
  the comment at `colony.js:88-89` has it. The fault `full_disk`.

Table store (`engine/src/table_store_executor.cpp`):

- An append that fails is ignored (`:179`, `:181`): the statement is answered with Ok
  and gone after a restart, contrary to `README.md:9` and
  `table_store_executor.hpp:13-15`. The fault
  `unwritable`; `ReplayIsServed` bounds the loss to the row.
- A torn last line is replayed with missing facts (`:158`) and continued by the next
  append: the row of a shorter or longer key may be written or deleted, and the
  statement that continues the line is swallowed. A torn table's name stands for
  another table, whose row 0 is written. A continued key of more than 32 bits is
  stored as 4294967295 by `>>` (`:164`), which also fails, so the text stays empty:
  that row is written or deleted. The fault `torn`, with the same bound.
- A line break in a literal is a space after a replay.
- An INSERT that names the key column twice is routed by the first value and stored
  with the last; an UPDATE may set the key column. The fault `odd`.
- A COUNT of a row that is absent answers with nothing instead of 0, other
  aggregates answer `1`; a table named `set` makes the executor of an UPDATE skip
  to the wrong SET: it answers `UPDATE 1` and changes nothing.
- Numbers of more than 32 bits are refused in every column, not only in the key.
  Where `unsigned long` has 32 bits `strtoul` returns 4294967295 for them and they
  are accepted (Windows): with `ULongMax = KeyMax` `ImplementsTable` is violated, and an
  INSERT with such a key is stored under the largest one. This is the condition
  `KeyMax < ULongMax` of two theorems.
- The parser keeps the case of a table's name and `Owns` compares it as it is, while
  the executor folds it.

TCP server (`engine/src/tcp_forwarder.cpp`):

- `Stop` closes the numbers of connections whose threads still use them (`:159`), and
  these close them again (`:210`). If a number is given to another socket in
  between, a thread reads, answers on or closes that socket, and one that was
  accepted with it is erased from `open_connections_` with its namesake
  (`:210-215`), so that `Stop` does not close it and waits for it. With reused
  numbers and without the condition, `OwnSockets`, `AnswersInOrder`,
  `ServedIsRegistered` and `StopReturns` are all violated.
- A response of more than 64 MB is sent and refused by its receiver; the
  forwarder tries once more and reports the shard as unavailable.
- `connection_threads_` grows with each connection until `Stop` (`:195`), which
  `tcp_forwarder.hpp:66-68` accepts.

Service:

- A bucket is dropped when its tokens are at capacity (`rateLimit.js:39`), but a token
  was taken when they were stored and only the next request refills them: `sweep`
  drops nothing, contrary to the comment at `rateLimit.js:34-35`. A restart gives
  everyone a full bucket.
- `keys.json` is overwritten in place (`auth.js:27`). A cut-off save leaves a file
  that does not parse, and the service does not start again. A save that throws
  does so outside any `try` (`index.js:176`, `:193`) and ends the process.
- Two requests that overlap on one document: a PATCH undoes what another wrote
  between its read and its write, and brings a deleted document back.
- Requests in flight go on after their key was revoked.
- A cursor's position is looked up anew for each page: if its document moved, pages
  skip or repeat documents; if it is gone or no longer matches, the listing ends
  in an error. A document whose read fails is left out of a page without a word.
  A document's own field `id` replaces its id in the listing (`colony.js:245`) and
  with it the cursor.

## 6. Plan

The modules of the first eight rows are written, and all their invariants but those
of the last column are proved.

| # | Module | Models | Left to state or prove |
|---|---|---|---|
| 1 | `RouterTable`, `Router`, `RouterPort` | the routers | - |
| 2 | `Mesh`, `MeshProperties` | gateways and TCP transport, composed with the router's operators | - |
| 3 | `QueryService` | abstract specification of `Execute` | - |
| 4 | `Colony`, `ColonyProperties` | shards, replicas, asynchronous writes and reads, fail, heal, restart, index, quota | an abstract document store that the benign `Colony` implements |
| 5 | `TcpServer`, `Wire` | descriptor table with reuse, accept loop, registration, `Stop`; codec | - |
| 6 | `Sql`, `TableStore`, `DurableTable` | parser, executor, log, torn appends, replay | - |
| 7 | `FrontEnd` | keys and their file, buckets and sweep, requests between awaits | - |
| 8 | `Query` | where clauses, order, cursor, limit | - |
| 9 | `InProcess` | registry of handlers, and a topology that changes under queries | a handler only runs on what was registered; routes are paths of some topology |
| 10 | `Strategies` | delayed broadcast, stale beliefs of the simulator | a table that was broadcast is adopted |

Recursion in modules that are to be proved about is written as recursive functions.

## 7. What is not modelled

- The simulator's statistics, topology generators, workload, metrics and plots: a
  single-threaded experiment whose results are averages.
- Deployment files, the paper, the website and recorded results: no logic.
- Static file serving, headers and CORS of the HTTP front end, refused bodies and
  names; the website demo; the JavaScript SDK, which keeps no state.
- How a query's text is split into clauses; nested fields.
- `InProcessForwarder` and changes of the topology while queries run. The tests use
  the former and fix the latter before they start.
- The colony demo, a driver that builds its requests without the parser and runs
  without a log.
- Exhaustion of descriptors, and signals: on POSIX `send` to a connection that was
  closed raises `SIGPIPE` unless the process ignores it.
- Torn log lines and crashes inside a heal in `Colony`, and its `stats`. A torn line
  of a replica's log ends its constructor (`colony.js:45`), as a torn key file does
  in `FrontEnd`.
- The simulated strategies. One thing was noticed in reading: with a broadcast
  latency not below the reoptimisation interval the adaptive strategy overwrites
  each pending table before it is adopted (`adaptive_centralized.py:30`).

`PROJECT.json` lists every component with its status and every hazard with the
properties that cover it.
