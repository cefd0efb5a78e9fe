----------------------------- MODULE DurableTable ------------------------------
(***************************************************************************)
(* What an executor of statements promises its clients: each statement      *)
(* takes effect once, in one step between its call and its answer, on the   *)
(* row its key names, and what was answered survives a crash.  A statement  *)
(* that is not understood is refused and changes nothing.                   *)
(***************************************************************************)
EXTENDS Naturals, Sequences

CONSTANTS
  Client,
  Statements,      \* what clients may ask
  TableKey,        \* each table's key column
  Number,          \* the number a numeral denotes
  Largest,         \* the largest number a statement may contain
  NoStatement, NoAnswer,
  Garbled          \* a text that is no statement

VARIABLES
  table,     \* the rows, by <<table, key>>
  asked,     \* each client's statement, between call and return
  answered   \* its answer

vars == <<table, asked, answered>>

(* A statement names a table, columns with their values, and at most one    *)
(* column and literal its rows must match; a literal is <<type, text>>.     *)
Numeral(literal) == literal[1] = "Number"

KeyLiterals(st) ==
  IF st.verb = "insert"
  THEN { st.values[i] : i \in { j \in DOMAIN st.columns : st.columns[j] = TableKey[st.table] } }
  ELSE { w[2] : w \in { v \in st.where : v[1] = TableKey[st.table] } }

Literals(st) == { st.values[i] : i \in DOMAIN st.values } \cup { w[2] : w \in st.where }

Understood(st) ==
  /\ st # Garbled
  /\ st.table \in DOMAIN TableKey
  /\ st.verb = "insert" => Len(st.columns) = Len(st.values)
  /\ \E literal \in KeyLiterals(st) : Numeral(literal)
  /\ \A literal \in Literals(st) : Numeral(literal) => Number[literal[2]] <= Largest

RowOf(st) == <<st.table, Number[(CHOOSE literal \in KeyLiterals(st) : TRUE)[2]]>>

Given(st) ==
  [c \in { st.columns[i] : i \in DOMAIN st.columns } |->
     st.values[CHOOSE i \in DOMAIN st.columns : st.columns[i] = c][2]]

Overriding(f, g) ==
  [x \in DOMAIN f \cup DOMAIN g |-> IF x \in DOMAIN f THEN f[x] ELSE g[x]]

NoRow == [c \in {} |-> c]
Row(at) == IF at \in DOMAIN table THEN table[at] ELSE NoRow

After(st) ==
  LET at == RowOf(st)
  IN  CASE st.verb = "insert" -> Overriding([x \in {at} |-> Given(st)], table)
        [] st.verb = "update" ->
             IF at \in DOMAIN table
             THEN [table EXCEPT ![at] = Overriding(Given(st), @)]
             ELSE table
        [] st.verb = "delete" -> [x \in DOMAIN table \ {at} |-> table[x]]
        [] st.verb = "select" -> table

Answer(status, text, row) == [status |-> status, text |-> text, row |-> row]
Refusal == Answer("UnsupportedSql", <<>>, NoRow)

AnswerTo(st) ==
  LET at == RowOf(st)
      there == at \in DOMAIN table
  IN  CASE st.verb = "insert" -> Answer("Ok", <<"INSERT", 1>>, NoRow)
        [] st.verb = "update" -> IF there THEN Answer("Ok", <<"UPDATE", 1>>, NoRow)
                                          ELSE Answer("ExecutionError", <<>>, NoRow)
        [] st.verb = "delete" -> Answer("Ok", <<"DELETE", IF there THEN 1 ELSE 0>>, NoRow)
        [] st.verb = "select" -> IF there /\ st.count THEN Answer("Ok", <<1>>, NoRow)
                                                      ELSE Answer("Ok", <<>>, Row(at))

Init ==
  /\ table = [at \in {} |-> NoRow]
  /\ asked = [c \in Client |-> NoStatement]
  /\ answered = [c \in Client |-> NoAnswer]

Ask(c) ==
  /\ asked[c] = NoStatement
  /\ \E st \in Statements \cup {Garbled} : asked' = [asked EXCEPT ![c] = st]
  /\ UNCHANGED <<table, answered>>

Pending(c) == asked[c] # NoStatement /\ answered[c] = NoAnswer

Commit(c) ==
  /\ Pending(c)
  /\ Understood(asked[c])
  /\ answered' = [answered EXCEPT ![c] = AnswerTo(asked[c])]
  /\ table' = After(asked[c])
  /\ UNCHANGED asked

Refuse(c) ==
  /\ Pending(c)
  /\ ~Understood(asked[c])
  /\ answered' = [answered EXCEPT ![c] = Refusal]
  /\ UNCHANGED <<table, asked>>

Return(c) ==
  /\ answered[c] # NoAnswer
  /\ asked' = [asked EXCEPT ![c] = NoStatement]
  /\ answered' = [answered EXCEPT ![c] = NoAnswer]
  /\ UNCHANGED table

(* A crash loses the calls, whether they took effect or not, and no row *)
Crash ==
  /\ asked' = [c \in Client |-> NoStatement]
  /\ answered' = [c \in Client |-> NoAnswer]
  /\ UNCHANGED table

Next == Crash \/ \E c \in Client : Ask(c) \/ Commit(c) \/ Refuse(c) \/ Return(c)

Spec == Init /\ [][Next]_vars
================================================================================
