---------------------------------- MODULE Sql ----------------------------------
(***************************************************************************)
(* The parser of the routable subset of SQL (engine/src/                    *)
(* simple_sql_parser.cpp) and the check of its result (engine/src/sql.cpp). *)
(*                                                                          *)
(* A statement is the sequence of its tokens, <<type, text>>.  The parser   *)
(* reads from left to right and gives up at the first token it does not     *)
(* expect; only whether it gives up is kept, so each clause is a condition  *)
(* on the tokens at fixed distances.  A list of items of w tokens has its   *)
(* commas w+1 apart; where the first one is missing the list ends.          *)
(***************************************************************************)
EXTENDS Naturals, Sequences

CONSTANTS
  DistributionKey,  \* distribution_key_by_table_, both in lower case
  LowerCase,        \* the lower case of each text that is not in lower case
  NumberOf,         \* the number a string of digits denotes
  ULongMax,         \* the largest unsigned long: strtoul returns it for more
  KeyMax,           \* 0xFFFFFFFF
  NoPartition,      \* an optional<uint32_t> without a value
  Rejected          \* a parse error

(* QueryKind, in the order of its values *)
Select == 0
Insert == 1
Update == 2
Delete == 3
Unsupported == 4

Statement(kind, table, partition, aggregate) ==
  [kind |-> kind, table |-> table, partition |-> partition, aggregate |-> aggregate]

Lower(text) == IF text \in DOMAIN LowerCase THEN LowerCase[text] ELSE text

(* The empty text, and two symbols by their names *)
Empty == ""
Comma == ","
Semicolon == ";"

At(ts, p) == IF p \in DOMAIN ts THEN ts[p] ELSE <<"End", Empty>>
Text(ts, p) == At(ts, p)[2]

Symbol(ts, p, c) == At(ts, p) = <<"Symbol", c>>
Identifier(ts, p) == At(ts, p)[1] = "Identifier"
Keyword(ts, p, word) == Identifier(ts, p) /\ Lower(Text(ts, p)) = word

(* ExpectLiteral: a number that fits 32 bits has a value, a string has none *)
StrToUL(text) == IF NumberOf[text] > ULongMax THEN ULongMax ELSE NumberOf[text]

\* Mutant: a number of any size is a value
LiteralAnySize(ts, p) == At(ts, p)[1] \in {"String", "Number"}

Literal(ts, p) ==
  \/ At(ts, p)[1] = "String"
  \/ At(ts, p)[1] = "Number" /\ StrToUL(Text(ts, p)) <= KeyMax

LiteralValue(ts, p) ==
  IF At(ts, p)[1] = "Number" THEN StrToUL(Text(ts, p)) ELSE NoPartition

(* Lists: the items of w tokens that start at p, and where the list ends *)
ListEnd(p, n, w) == p + n * (w + 1) - 1
ListLength(ts, p, w) ==
  CHOOSE n \in 1 .. Len(ts) + 1 :
    /\ ~Symbol(ts, ListEnd(p, n, w), Comma)
    /\ \A m \in 1 .. n - 1 : Symbol(ts, ListEnd(p, m, w), Comma)
Item(p, i, w) == p + (i - 1) * (w + 1)

TableKnown(ts, p) == Identifier(ts, p) /\ Lower(Text(ts, p)) \in DOMAIN DistributionKey
KeyColumn(ts, p) == DistributionKey[Lower(Text(ts, p))]

\* Mutant: any column of the predicate is taken for the key
WherePartitionAnyColumn(ts, p, key) == LiteralValue(ts, p + 3)

WherePartition(ts, p, key) ==
  IF Lower(Text(ts, p + 1)) = key THEN LiteralValue(ts, p + 3) ELSE NoPartition

(* ParseOptionalWhere at p: whether it succeeds, where it ends, what it found *)
Where(ts, p, key) ==
  IF Keyword(ts, p, "where")
  THEN [ok |-> /\ Identifier(ts, p + 1)
               /\ Symbol(ts, p + 2, "=")
               /\ Literal(ts, p + 3)
               /\ ~Keyword(ts, p + 4, "and"),
        end |-> p + 4,
        partition |-> WherePartition(ts, p, key)]
  ELSE [ok |-> TRUE, end |-> p, partition |-> NoPartition]

StatementEnds(ts, p) ==
  At(ts, IF Symbol(ts, p, Semicolon) THEN p + 1 ELSE p)[1] = "End"

DecomposableAggregates == {"count", "sum", "min", "max"}

ParseSelect(ts) ==
  LET star == Symbol(ts, 2, "*")
      aggregate ==
        /\ ~star
        /\ \E name \in DecomposableAggregates : Keyword(ts, 2, name)
        /\ Symbol(ts, 3, "(")
      columns == ListLength(ts, 2, 1)
      from == IF star THEN 3 ELSE IF aggregate THEN 6 ELSE ListEnd(2, columns, 1)
      where == Where(ts, from + 2, KeyColumn(ts, from + 1))
  IN  IF /\ \/ star
            \/ aggregate /\ (Symbol(ts, 4, "*") \/ Identifier(ts, 4)) /\ Symbol(ts, 5, ")")
            \/ ~aggregate /\ \A i \in 1 .. columns : Identifier(ts, Item(2, i, 1))
         /\ Keyword(ts, from, "from")
         /\ TableKnown(ts, from + 1)
         /\ where.ok
         /\ StatementEnds(ts, where.end)
      THEN Statement(Select, Text(ts, from + 1), where.partition, aggregate)
      ELSE Rejected

(* The columns are items from token 5, the values from three tokens after   *)
(* the columns' end: `)`, VALUES and `(`.                                   *)
InsertValues(columns) == ListEnd(5, columns, 1) + 3

\* Mutant: the partition is the first value, whatever its column
InsertPartitionFirst(ts, columns) == LiteralValue(ts, Item(InsertValues(columns), 1, 1))

InsertPartition(ts, columns) ==
  LET named == { i \in 1 .. columns : Lower(Text(ts, Item(5, i, 1))) = KeyColumn(ts, 3) }
      first == CHOOSE i \in named : \A j \in named : i <= j
  IN  IF named = {} THEN NoPartition
      ELSE LiteralValue(ts, Item(InsertValues(columns), first, 1))

\* Mutant: any token may end the columns
InsertColumnsOkOpen(ts, columns) ==
  /\ Symbol(ts, 4, "(")
  /\ \A i \in 1 .. columns : Identifier(ts, Item(5, i, 1))

InsertColumnsOk(ts, columns) ==
  /\ Symbol(ts, 4, "(")
  /\ \A i \in 1 .. columns : Identifier(ts, Item(5, i, 1))
  /\ Symbol(ts, ListEnd(5, columns, 1), ")")

ParseInsert(ts) ==
  LET columns == ListLength(ts, 5, 1)
      from == InsertValues(columns)
      values == ListLength(ts, from, 1)
  IN  IF /\ Keyword(ts, 2, "into")
         /\ TableKnown(ts, 3)
         /\ InsertColumnsOk(ts, columns)
         /\ Keyword(ts, from - 2, "values")
         /\ Symbol(ts, from - 1, "(")
         /\ \A i \in 1 .. values : Literal(ts, Item(from, i, 1))
         /\ Symbol(ts, ListEnd(from, values, 1), ")")
         /\ columns = values
         /\ StatementEnds(ts, ListEnd(from, values, 1) + 1)
      THEN Statement(Insert, Text(ts, 3), InsertPartition(ts, columns), FALSE)
      ELSE Rejected

ParseUpdate(ts) ==
  LET assignments == ListLength(ts, 4, 3)
      item(i) == Item(4, i, 3)
      where == Where(ts, ListEnd(4, assignments, 3), KeyColumn(ts, 2))
  IN  IF /\ TableKnown(ts, 2)
         /\ Keyword(ts, 3, "set")
         /\ \A i \in 1 .. assignments :
              /\ Identifier(ts, item(i))
              /\ Symbol(ts, item(i) + 1, "=")
              /\ Literal(ts, item(i) + 2)
         /\ where.ok
         /\ StatementEnds(ts, where.end)
      THEN Statement(Update, Text(ts, 2), where.partition, FALSE)
      ELSE Rejected

ParseDelete(ts) ==
  LET where == Where(ts, 4, KeyColumn(ts, 3))
  IN  IF /\ Keyword(ts, 2, "from")
         /\ TableKnown(ts, 3)
         /\ where.ok
         /\ StatementEnds(ts, where.end)
      THEN Statement(Delete, Text(ts, 3), where.partition, FALSE)
      ELSE Rejected

(* A string without its closing quote is no token for this parser; the      *)
(* executor of TableStore takes it for a string.                            *)
Unterminated(ts) == \E i \in DOMAIN ts : ts[i][1] = "Unterminated"

Parse(ts) ==
  IF Unterminated(ts) THEN Rejected
  ELSE CASE Keyword(ts, 1, "select") -> ParseSelect(ts)
         [] Keyword(ts, 1, "insert") -> ParseInsert(ts)
         [] Keyword(ts, 1, "update") -> ParseUpdate(ts)
         [] Keyword(ts, 1, "delete") -> ParseDelete(ts)
         [] OTHER                    -> Statement(Unsupported, Empty, NoPartition, FALSE)

(* SqlValidator::Validate: whether the statement may be executed            *)
Valid(statement) ==
  /\ statement # Rejected
  /\ statement.kind # Unsupported
  /\ statement.partition # NoPartition
================================================================================
