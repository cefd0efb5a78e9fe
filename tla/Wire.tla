---------------------------------- MODULE Wire ---------------------------------
(***************************************************************************)
(* The bytes gateways exchange (engine/src/wire.cpp).  A cell stands for    *)
(* what is written or read in one piece: a byte, the four bytes of a        *)
(* uint32, the eight of a double; a string is its length and its bytes.  A  *)
(* truncated message ends between two cells.                                *)
(*                                                                          *)
(* A reader that would pass the end of the message rejects it; so decoding  *)
(* is a condition on the positions of the fields, each computed from the    *)
(* lengths before it.                                                       *)
(***************************************************************************)
EXTENDS Naturals, Sequences

CONSTANTS
  MaxKind,      \* kMaxQueryKind
  MaxStatus,    \* kMaxQueryStatus
  NoPartition,  \* an optional<uint32_t> without a value
  Malformed     \* nullopt

(* QueryRequest and QueryResponse *)
Text == Seq(Nat)
RequestMessage ==
  [sql : Text, kind : 0 .. MaxKind, table : Text, partition : Nat \cup {NoPartition},
   aggregate : BOOLEAN, route : Seq(Text), hop_budget : Nat]
ResponseMessage == [status : 0 .. MaxStatus, payload : Text, elapsed : Nat]

ASSUME WireAssumption ==
  /\ MaxKind \in Nat /\ MaxStatus \in Nat
  /\ NoPartition \notin Nat
  /\ Malformed \notin RequestMessage

String(s) == <<Len(s)>> \o s
Flag(b) == <<IF b THEN 1 ELSE 0>>

(* Strings one after another: the first i of them, and all *)
StringsUpTo(ss) ==
  LET upTo[i \in 0 .. Len(ss)] == IF i = 0 THEN <<>> ELSE upTo[i - 1] \o String(ss[i])
  IN  upTo
Strings(ss) == StringsUpTo(ss)[Len(ss)]

EncodeRequest(r) ==
  String(r.sql) \o <<r.kind>> \o String(r.table)
    \o (IF r.partition = NoPartition THEN Flag(FALSE) ELSE Flag(TRUE) \o <<r.partition>>)
    \o Flag(r.aggregate)
    \o <<Len(r.route)>> \o Strings(r.route)
    \o <<r.hop_budget>>

EncodeResponse(r) == <<r.status>> \o String(r.payload) \o <<r.elapsed>>

(* The reader at position p: the string there, and the position behind it.  *)
(* Past the end a cell reads as 0; whether the whole message was there is   *)
(* decided by where its last field ends.                                    *)
Cell(b, p) == IF p \in DOMAIN b THEN b[p] ELSE 0
Behind(b, p) == p + 1 + Cell(b, p)
Bytes(b, p) == SubSeq(b, p + 1, p + Cell(b, p))

(* The positions of strings that follow one another from a first one, and   *)
(* the position behind the last                                             *)
Positions(b, first, n) ==
  LET at[i \in 0 .. n] == IF i = 0 THEN first ELSE Behind(b, at[i - 1]) IN at

PartitionCells(b, p) == IF Cell(b, p) = 0 THEN 1 ELSE 2

DecodeRequest(b) ==
  LET kind == Behind(b, 1)
      partition == Behind(b, kind + 1)
      aggregate == partition + PartitionCells(b, partition)
      hops == Cell(b, aggregate + 1)
      hop == Positions(b, aggregate + 2, hops)
  IN  IF /\ aggregate + 1 + hops < Len(b)   \* each hop has a length at least
         /\ hop[hops] = Len(b)              \* the budget is there, and nothing behind it
         /\ Cell(b, kind) <= MaxKind
      THEN [sql |-> Bytes(b, 1), kind |-> Cell(b, kind), table |-> Bytes(b, kind + 1),
            partition |-> IF Cell(b, partition) = 0 THEN NoPartition
                          ELSE Cell(b, partition + 1),
            aggregate |-> Cell(b, aggregate) # 0,
            route |-> [i \in 1 .. hops |-> Bytes(b, hop[i - 1])],
            hop_budget |-> Cell(b, Len(b))]
      ELSE Malformed

DecodeResponse(b) ==
  LET elapsed == Behind(b, 2)
  IN  IF /\ Cell(b, 1) <= MaxStatus
         /\ elapsed = Len(b)
      THEN [status |-> Cell(b, 1), payload |-> Bytes(b, 2), elapsed |-> Cell(b, elapsed)]
      ELSE Malformed
================================================================================
