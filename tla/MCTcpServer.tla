------------------------------ MODULE MCTcpServer ------------------------------
(* Two connections and one foreign socket, so that a number can be given     *)
(* away while the thread of its last owner still has it.  Clients send       *)
(* requests, half a request, an empty frame and one that is too long, up to  *)
(* four on one connection.                                                   *)
EXTENDS TcpServerProperties, TLC

CONSTANTS k1, k2, o1

MCConns == {k1, k2}
MCOthers == {o1}
MCFd == 1 .. 4

Request(sql, kind, table, partition, aggregate, route, budget) ==
  [sql |-> sql, kind |-> kind, table |-> table, partition |-> partition,
   aggregate |-> aggregate, route |-> route, hop_budget |-> budget]

(* Cells 0, 1 and 2 are also lengths, flags and counts *)
MCRequests ==
  { Request(sql, kind, <<1>>, partition, aggregate, route, budget) :
      sql \in {<<>>, <<0>>, <<2, 1>>}, kind \in {0, 4}, partition \in {NoPartition, 0, 1},
      aggregate \in BOOLEAN, route \in {<<>>, <<<<1>>>>, <<<<>>, <<0, 2>>>>}, budget \in {0, 2} }
MCResponses ==
  { [status |-> status, payload |-> payload, elapsed |-> elapsed] :
      status \in {0, 4}, payload \in {<<>>, <<0>>, <<2, 1>>}, elapsed \in {0, 1} }
MCCells == 0 .. 2

MCAnswered(r) == [status |-> 0, payload |-> r.sql, elapsed |-> 1]
MCMalformedAnswer == [status |-> 4, payload |-> <<>>, elapsed |-> 0]

Asking(sql) == EncodeRequest(Request(sql, 0, <<1>>, 1, FALSE, <<>>, 2))
First == Asking(<<0>>)
Second == Asking(<<2, 1>>)
Short == SubSeq(First, 1, 5)
MCFrames == {First, Second, Short, <<>>, Oversized}

(* A statement about the constants, which TLC evaluates before it starts *)
ASSUME MessagesAreExact == WireIsExact

MCEnvironments ==
  LET E(reuse, wakes, conns, sends1, sends2) ==
        [reuse |-> reuse, wakes |-> wakes, conns |-> conns,
         sends |-> (k1 :> sends1) @@ (k2 :> sends2)]
  IN  { E(FALSE, TRUE, MCConns, <<First>>, <<<<>>>>),
        E(FALSE, TRUE, {k1}, <<Short, First, <<>>, Second>>, <<>>),
        E(TRUE, TRUE, MCConns, <<First>>, <<>>),
        E(TRUE, FALSE, {k1}, <<First, Short, Oversized>>, <<>>) }
================================================================================
