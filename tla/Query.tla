--------------------------------- MODULE Query ---------------------------------
(***************************************************************************)
(* Queries of a collection (service/server/query.js): where clauses, an     *)
(* order and a page limit over documents that were read.                    *)
(*                                                                          *)
(* A value is <<type, position>>: typeRank's number of its type, and its    *)
(* place in the order of that type; equal values have one place.            *)
(***************************************************************************)
EXTENDS Naturals, FiniteSets

Missing == <<0, 0>>      \* a field that is not there
StringType == 4

Operators == {"==", "!=", ">=", "<=", ">", "<"}

(* compare(a, b) < 0 *)
Less(a, b) == a[1] < b[1] \/ (a[1] = b[1] /\ a[2] < b[2])

(* Ranges are within one type; == and != are between any *)
Holds(doc, clause) ==
  LET actual == doc[clause.field]
      value == clause.value
  IN  CASE clause.op = "==" -> actual = value
        [] clause.op = "!=" -> actual # value
        [] OTHER ->
             /\ actual[1] = value[1]
             /\ CASE clause.op = ">"  -> Less(value, actual)
                  [] clause.op = ">=" -> ~Less(actual, value)
                  [] clause.op = "<"  -> Less(actual, value)
                  [] clause.op = "<=" -> ~Less(value, actual)

Matches(doc, query) == \A clause \in query.where : Holds(doc, clause)

Filtered(found, query) == { d \in DOMAIN found : Matches(found[d], query) }

(* The order of two documents, ties by id; without orderBy it is by id *)
OrderedBy(found, query, d) ==
  IF query.orderBy = "id" THEN <<StringType, d>> ELSE found[d][query.orderBy]

Ascends(found, query, d, e) ==
  LET a == OrderedBy(found, query, d)
      b == OrderedBy(found, query, e)
  IN  Less(a, b) \/ (a = b /\ d < e)

Sorts(found, query, d, e) ==
  IF query.dir = "desc" THEN Ascends(found, query, e, d) ELSE Ascends(found, query, d, e)

(* The documents after the cursor, if there is one *)
Rest(found, query, cursor, NoCursor) ==
  { d \in Filtered(found, query) : cursor = NoCursor \/ Sorts(found, query, cursor, d) }

(* The first of them, and whether there are more *)
PageOf(found, query, rest) ==
  { d \in rest :
      Cardinality({ e \in rest : Sorts(found, query, e, d) }) < query.limit }

\* Mutant: the last document that has no page to itself is forgotten
MoreOffByOne(query, rest) == Cardinality(rest) > query.limit + 1

More(query, rest) == Cardinality(rest) > query.limit
================================================================================
