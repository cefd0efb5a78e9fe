------------------------------ MODULE TableStore -------------------------------
(***************************************************************************)
(* The storage of a node (engine/src/table_store_executor.cpp): tables in   *)
(* memory behind one mutex, and a log of the statements that changed them.  *)
(* A client validates its text (Sql) and hands the statement found together *)
(* with the text to Execute, on a thread of its own.                        *)
(*                                                                          *)
(* The executor reads columns and values from the text with a tokenizer of  *)
(* its own that skips what it does not expect; the key it takes from the    *)
(* statement.  Execute holds the mutex while it changes the table and while *)
(* it appends to the log, so a crash may come between the two.  The log is  *)
(* replayed line by line: what a replay of its whole lines would give is    *)
(* kept instead of the lines.                                               *)
(***************************************************************************)
EXTENDS Sql, FiniteSets

CONSTANTS
  Client,
  FlatText,      \* string literals with a line break -> with a space instead
  Beginnings,    \* what may be written of each table's name: nothing, some, all
  Continued,     \* <<name, digit>> -> the name with the digit behind it
  Environments,  \* what the store may be exposed to, see IsEnvironment
  NoTail, Nobody, Garbled

(* What may happen besides well-formed statements and crashes between the   *)
(* steps of a call:                                                         *)
(*                                                                          *)
(* typos: one token of a text is missing, a stray symbol, or an open string. *)
(* unwritable: the log cannot be opened, or there is none.                  *)
(* torn: an append writes part of its line (a crash in it, or a full disk). *)
(* newline: a string literal has a line break.                              *)
(* odd: statements that name a column twice or set the key column.          *)
Fault == {"typos", "unwritable", "torn", "newline", "odd"}

(* An environment: its faults, the statements of its clients, and bounds on *)
(* how many calls and crashes there are.                                    *)
IsEnvironment(e) ==
  /\ e.faults \subseteq Fault
  /\ e.calls \in Nat
  /\ e.crashes \in Nat

(* What a line whose table is not written as a word reads for its table     *)
TornNames ==
  {Empty} \cup (UNION { Beginnings[table] : table \in DOMAIN DistributionKey })
    \cup { Continued[x] : x \in DOMAIN Continued }

ASSUME TableStoreAssumption ==
  /\ KeyMax \in Nat
  /\ ULongMax \in Nat
  /\ \A text \in DOMAIN NumberOf : NumberOf[text] \in Nat
  /\ \A table \in DOMAIN DistributionKey : \A name \in Beginnings[table] :
       {name} \X {Insert, Update, Delete} \subseteq DOMAIN Continued
  /\ TornNames \cap DOMAIN LowerCase = {}
  /\ \A e \in Environments : IsEnvironment(e)
  /\ Nobody \notin Client

VARIABLES
  env,      \* the environment, which does not change
  rows,     \* tables_, by <<table, key>>
  logged,   \* the rows a replay of the log's whole lines gives
  tail,     \* the log's last line, if an append tore it
  holder,   \* the client whose thread holds mutex_
  call,     \* each client's call of Validate and Execute
  served,   \* ghost: the rows as the answered statements leave them
  suspect,  \* ghost: the rows a torn or failed append may have damaged
  spent     \* how many calls and crashes there were

vars == <<env, rows, logged, tail, holder, call, served, suspect, spent>>

NoRow == [c \in {} |-> c]
Overriding(f, g) ==
  [x \in DOMAIN f \cup DOMAIN g |-> IF x \in DOMAIN f THEN f[x] ELSE g[x]]

----------------------------------------------------------------------------
(* The text a client writes for a statement (the client's own code) *)

Id(text) == <<"Identifier", text>>
Sym(c) == <<"Symbol", c>>

(* Items of w tokens each, with commas between them *)
List(items, w) ==
  [p \in 1 .. Len(items) * (w + 1) - 1 |->
     IF p % (w + 1) = 0 THEN Sym(Comma) ELSE items[1 + p \div (w + 1)][p % (w + 1)]]

Condition(st) ==
  IF st.where = {} THEN <<>>
  ELSE LET w == CHOOSE v \in st.where : TRUE
       IN  <<Id("where"), Id(w[1]), Sym("="), w[2]>>

Render(st) ==
  LET n == DOMAIN st.columns
      columns == List([i \in n |-> <<Id(st.columns[i])>>], 1)
      values == List([i \in DOMAIN st.values |-> <<st.values[i]>>], 1)
      assignments ==
        List([i \in n |-> <<Id(st.columns[i]), Sym("="), st.values[i]>>], 3)
      selected ==
        IF st.count THEN <<Id("count"), Sym("("), Sym("*"), Sym(")")>>
        ELSE IF st.columns = <<>> THEN <<Sym("*")>> ELSE columns
  IN  CASE st.verb = "insert" ->
             <<Id("insert"), Id("into"), Id(st.written), Sym("(")>> \o columns \o
             <<Sym(")"), Id("values"), Sym("(")>> \o values \o <<Sym(")")>>
        [] st.verb = "update" ->
             <<Id("update"), Id(st.written), Id("set")>> \o assignments \o Condition(st)
        [] st.verb = "delete" ->
             <<Id("delete"), Id("from"), Id(st.written)>> \o Condition(st)
        [] st.verb = "select" ->
             <<Id("select")>> \o selected \o <<Id("from"), Id(st.written)>> \o Condition(st)

Without(ts, i) == SubSeq(ts, 1, i - 1) \o SubSeq(ts, i + 1, Len(ts))
Typos(ts) ==
  { Without(ts, i) : i \in DOMAIN ts }
    \cup { [ts EXCEPT ![i] = Sym("?")] : i \in DOMAIN ts }
    \cup { Append(SubSeq(ts, 1, i - 1), <<"Unterminated", ts[i][2]>>) :
             i \in { j \in DOMAIN ts : ts[j][1] = "String" } }

----------------------------------------------------------------------------
(* What the executor reads from a text.  Its tokens past the end are End,   *)
(* on which every loop stops.                                               *)

First(S) == CHOOSE p \in S : \A q \in S : p <= q
Last(S) == CHOOSE p \in S : \A q \in S : q <= p

SkipToKeyword(ts, p, word) ==
  First({ q \in p .. Len(ts) : Keyword(ts, q, word) } \cup {Len(ts) + 1})

IsLiteral(ts, p) == At(ts, p)[1] \in {"Number", "String", "Unterminated"}

(* ParseIdentList at p: identifiers and commas, up to any other token.  It  *)
(* does not step over a symbol that is neither a comma nor the closing      *)
(* parenthesis: on such a one it loops for ever.                            *)
IdentListStop(ts, p) ==
  First({ q \in p + 1 .. Len(ts) + 1 : ~Identifier(ts, q) /\ ~Symbol(ts, q, Comma) })
IdentListReturns(ts, p) ==
  Symbol(ts, p, "(") =>
    LET stop == IdentListStop(ts, p)
    IN  At(ts, stop)[1] = "Symbol" => Symbol(ts, stop, ")")
IdentList(ts, p) ==
  IF Symbol(ts, p, "(") THEN { q \in p + 1 .. IdentListStop(ts, p) - 1 : Identifier(ts, q) } ELSE {}

(* ParseLiteralList at p: every literal up to the closing parenthesis *)
LiteralListStop(ts, p) == First({ q \in p + 1 .. Len(ts) : Symbol(ts, q, ")") } \cup {Len(ts) + 1})
LiteralList(ts, p) ==
  IF Symbol(ts, p, "(") THEN { q \in p + 1 .. LiteralListStop(ts, p) - 1 : IsLiteral(ts, q) } ELSE {}

(* INSERT: the columns come two tokens after INTO, the values after VALUES; *)
(* the n-th column gets the n-th value, as long as there are values         *)
Columns(ts) == SkipToKeyword(ts, 1, "into") + 2
InsertReturns(ts) == IdentListReturns(ts, Columns(ts))
Values(ts) ==
  LET behind == IF Symbol(ts, Columns(ts), "(") THEN IdentListStop(ts, Columns(ts)) ELSE Columns(ts)
  IN  SkipToKeyword(ts, behind, "values") + 1

Rank(S, p) == Cardinality({ q \in S : q <= p })

InsertedRow(ts) ==
  LET columns == IdentList(ts, Columns(ts))
      values == LiteralList(ts, Values(ts))
      filled == { p \in columns : Rank(columns, p) <= Cardinality(values) }
      value(p) == CHOOSE q \in values : Rank(values, q) = Rank(columns, p)
      of(name) == { p \in filled : Lower(Text(ts, p)) = name }
  IN  [name \in { Lower(Text(ts, p)) : p \in filled } |-> Text(ts, value(Last(of(name))))]

(* UPDATE: assignments after SET, as long as they look like some *)
Assigned(ts) ==
  LET from == SkipToKeyword(ts, 1, "set") + 1
      item(i) == Item(from, i, 3)
      reached == { i \in 1 .. Len(ts) :
                     \A j \in 1 .. i :
                       /\ Identifier(ts, item(j))
                       /\ Symbol(ts, item(j) + 1, "=")
                       /\ IsLiteral(ts, item(j) + 2)
                       /\ j < i => Symbol(ts, ListEnd(from, j, 3), Comma) }
      of(name) == { i \in reached : Lower(Text(ts, item(i))) = name }
  IN  [name \in { Lower(Text(ts, item(i))) : i \in reached } |->
         Text(ts, item(Last(of(name))) + 2)]

----------------------------------------------------------------------------
(* ExecuteLocked: the table a request leaves, and its response.  A request  *)
(* is the statement (kind, table, partition, aggregate) and its text sql.   *)

RowOf(r) == <<Lower(r.table), r.partition>>

Effect(rws, r) ==
  CASE r.kind = Insert -> Overriding([at \in {RowOf(r)} |-> InsertedRow(r.sql)], rws)
    [] r.kind = Update /\ RowOf(r) \in DOMAIN rws ->
         [rws EXCEPT ![RowOf(r)] = Overriding(Assigned(r.sql), @)]
    [] r.kind = Delete -> [at \in DOMAIN rws \ {RowOf(r)} |-> rws[at]]
    [] OTHER -> rws

Answer(status, text, row) == [status |-> status, text |-> text, row |-> row]

Response(rws, r) ==
  LET there == RowOf(r) \in DOMAIN rws
  IN  CASE r.kind = Insert -> Answer("Ok", <<"INSERT", 1>>, NoRow)
        [] r.kind = Update -> IF there THEN Answer("Ok", <<"UPDATE", 1>>, NoRow)
                                       ELSE Answer("ExecutionError", <<>>, NoRow)
        [] r.kind = Delete -> Answer("Ok", <<"DELETE", IF there THEN 1 ELSE 0>>, NoRow)
        [] r.kind = Select ->
             IF ~there THEN Answer("Ok", <<>>, NoRow)
             ELSE IF r.aggregate THEN Answer("Ok", <<1>>, NoRow)
             ELSE Answer("Ok", <<>>, rws[RowOf(r)])

----------------------------------------------------------------------------
(* The log.  A line has the kind, the table in lower case and the partition *)
(* (its facts), then the text with its line breaks as spaces; between the   *)
(* tokens a space is as good.                                               *)

Flat(text) == IF text \in DOMAIN FlatText THEN FlatText[text] ELSE text
FlatRow(row) == [name \in DOMAIN row |-> Flat(row[name])]
Sanitized(ts) ==
  [p \in DOMAIN ts |->
     IF ts[p][1] \in {"String", "Unterminated"} THEN <<ts[p][1], Flat(ts[p][2])>> ELSE ts[p]]
LineOf(r) == [r EXCEPT !.table = Lower(@), !.sql = Sanitized(@)]

(* Where an append may stop: behind the kind, behind what is written of the *)
(* table's name, within the key (the digits written so far, 0 if none), or  *)
(* after n tokens of the text and the space behind them.  Within a token of *)
(* the text it would leave another row for the same key; that is left out.  *)
Magnitudes ==
  {1, 10, 100, 1000, 10000, 100000, 1000000, 10000000, 100000000, 1000000000}
Cuts(line) ==
  {<<"kind", 0>>}
    \cup { <<"table", name>> : name \in Beginnings[line.table] }
    \cup {<<"key", 0>>} \cup { <<"key", line.partition \div m>> : m \in Magnitudes }
    \cup { <<"text", n>> : n \in { m \in 0 .. Len(line.sql) : m = 0 \/ line.sql[m][1] # "Number" } }

(* The line as ReplayWal reads it: a name that is missing is empty, a key   *)
(* that is missing or no number is 0 and one that does not fit the largest, *)
(* each without a text behind it.                                           *)
FactsOnly(line, name, key) == [line EXCEPT !.table = name, !.partition = key, !.sql = <<>>]
ReadTorn(line, cut) ==
  CASE cut[1] = "kind"  -> FactsOnly(line, Empty, 0)
    [] cut[1] = "table" -> FactsOnly(line, cut[2], 0)
    [] cut[1] = "key"   -> FactsOnly(line, line.table, cut[2])
    [] cut[1] = "text"  -> [line EXCEPT !.sql = SubSeq(@, 1, cut[2])]

(* The next append continues the torn line.  Its own kind is a digit more:  *)
(* of the kind, which is then that of no statement; of the name, whose key  *)
(* is then no number; or of the key.  Behind a text its facts are tokens.   *)
Nothing == [kind |-> Select, table |-> Empty, partition |-> 0, aggregate |-> FALSE, sql |-> <<>>]
Num(number) == <<"Number", CHOOSE text \in DOMAIN NumberOf : NumberOf[text] = number>>
GluedKey(torn, line) ==
  LET key == torn.cut[2] * 10 + line.kind
  IN  IF key <= KeyMax
      THEN [torn.line EXCEPT !.partition = key,
                             !.sql = <<Id(line.table), Num(line.partition)>> \o line.sql]
      ELSE FactsOnly(torn.line, torn.line.table, KeyMax)
Glued(torn, line) ==
  CASE torn.cut[1] = "kind"  -> Nothing
    [] torn.cut[1] = "table" -> FactsOnly(torn.line, Continued[<<torn.cut[2], line.kind>>], 0)
    [] torn.cut[1] = "key"   -> GluedKey(torn, line)
    [] torn.cut[1] = "text"  ->
         [torn.line EXCEPT !.sql = SubSeq(@, 1, torn.cut[2]) \o
            <<Num(line.kind), Id(line.table), Num(line.partition)>> \o line.sql]

(* What one more append leaves to replay, given a torn last line or none *)
Extended(replayed, torn, line) ==
  Effect(replayed, IF torn = NoTail THEN line ELSE Glued(torn, line))

ReplayWal(replayed, torn) ==
  IF torn = NoTail THEN replayed ELSE Effect(replayed, ReadTorn(torn.line, torn.cut))

----------------------------------------------------------------------------

Request(statement, ts) ==
  [kind |-> statement.kind, table |-> statement.table, partition |-> statement.partition,
   aggregate |-> statement.aggregate, sql |-> ts]
NotParsed == Statement(Unsupported, Empty, NoPartition, FALSE)
NoAnswer == Answer("None", <<>>, NoRow)

(* A client that does not call; then its calls go from stage to stage *)
NoCall == [stage |-> "none", asked |-> Garbled, request |-> Request(NotParsed, <<>>), answer |-> NoAnswer]
Stage(c, stage) == call[c].stage = stage

Init ==
  /\ env \in Environments
  /\ rows = [at \in {} |-> NoRow]
  /\ logged = [at \in {} |-> NoRow]
  /\ tail = NoTail
  /\ holder = Nobody
  /\ call = [c \in Client |-> NoCall]
  /\ served = [at \in {} |-> NoRow]
  /\ suspect = {}
  /\ spent = [calls |-> 0, crashes |-> 0]

(* The client writes a text *)
Submit(c) ==
  /\ Stage(c, "none")
  /\ spent.calls < env.calls
  /\ \E st \in env.statements :
       \E text \in {<<st, Render(st)>>} \cup
                    { <<Garbled, ts>> : ts \in IF "typos" \in env.faults THEN Typos(Render(st))
                                                                       ELSE {} } :
         call' = [call EXCEPT ![c] =
                    [stage |-> "sent", asked |-> text[1],
                     request |-> Request(NotParsed, text[2]), answer |-> NoAnswer]]
  /\ spent' = [spent EXCEPT !.calls = @ + 1]
  /\ UNCHANGED <<env, rows, logged, tail, holder, served, suspect>>

(* SqlValidator::Validate, and the client's request if it passes *)
Validate(c) ==
  /\ Stage(c, "sent")
  /\ LET ts == call[c].request.sql
         statement == Parse(ts)
     IN  call' = [call EXCEPT ![c] =
                    IF Valid(statement)
                    THEN [@ EXCEPT !.stage = "valid", !.request = Request(statement, ts)]
                    ELSE [@ EXCEPT !.stage = "answered",
                                   !.answer = Answer("UnsupportedSql", <<>>, NoRow)]]
  /\ UNCHANGED <<env, rows, logged, tail, holder, served, suspect, spent>>

\* Mutant: deletes are not logged
LoggedKindsButDelete == {Insert, Update}

LoggedKinds == {Insert, Update, Delete}

\* Mutant: the mutex is not taken
MutexFreeAlways == TRUE

MutexFree == holder = Nobody

(* Execute up to the append: the statement takes effect in memory; one that *)
(* is not logged is answered and the mutex released                         *)
Execute(c) ==
  /\ Stage(c, "valid")
  /\ MutexFree
  /\ LET r == call[c].request
         answer == Response(rows, r)
         logs == answer.status = "Ok" /\ r.kind \in LoggedKinds
     IN  /\ r.kind = Insert => InsertReturns(r.sql)
         /\ rows' = Effect(rows, r)
         /\ holder' = IF logs THEN c ELSE Nobody
         /\ call' = [call EXCEPT ![c].stage = IF logs THEN "applied" ELSE "answered",
                                 ![c].answer = answer]
         /\ served' = IF logs THEN served ELSE Effect(served, r)
  /\ UNCHANGED <<env, logged, tail, suspect, spent>>

Line(c) == LineOf(call[c].request)

(* AppendToWal returned: Execute answers whatever became of the line *)
AnswerLogged(c) ==
  /\ Stage(c, "applied")
  /\ holder' = Nobody
  /\ call' = [call EXCEPT ![c].stage = "answered"]
  /\ served' = Effect(served, call[c].request)
  /\ UNCHANGED <<env, rows, spent>>

AppendWhole(c) ==
  /\ AnswerLogged(c)
  /\ logged' = Extended(logged, tail, Line(c))
  /\ tail' = NoTail
  /\ suspect' = IF tail = NoTail THEN suspect
                ELSE suspect \cup {RowOf(Line(c)), RowOf(Glued(tail, Line(c)))}

AppendNothing(c) ==
  /\ "unwritable" \in env.faults
  /\ AnswerLogged(c)
  /\ suspect' = suspect \cup {RowOf(Line(c))}
  /\ UNCHANGED <<logged, tail>>

(* Part of the line; bounded to a log whose last line is whole *)
Tear(c, cut) ==
  /\ "torn" \in env.faults
  /\ tail = NoTail
  /\ tail' = [line |-> Line(c), cut |-> cut]
  /\ suspect' = suspect \cup {RowOf(Line(c)), RowOf(ReadTorn(Line(c), cut))}
  /\ UNCHANGED logged

AppendPart(c) ==
  /\ AnswerLogged(c)
  /\ \E cut \in Cuts(Line(c)) : Tear(c, cut)

Return(c) ==
  /\ Stage(c, "answered")
  /\ call' = [call EXCEPT ![c] = NoCall]
  /\ UNCHANGED <<env, rows, logged, tail, holder, served, suspect, spent>>

(* The process ends and a new executor replays the log *)
Restart ==
  /\ spent.crashes < env.crashes
  /\ spent' = [spent EXCEPT !.crashes = @ + 1]
  /\ rows' = ReplayWal(logged, tail')
  /\ holder' = Nobody
  /\ call' = [c \in Client |-> NoCall]
  /\ UNCHANGED <<env, logged, served>>

Crash == UNCHANGED <<tail, suspect>> /\ Restart

CrashInAppend(c) ==
  /\ Stage(c, "applied")
  /\ \E cut \in Cuts(Line(c)) : Tear(c, cut)
  /\ Restart

Next ==
  \/ Crash
  \/ \E c \in Client :
       \/ Submit(c) \/ Validate(c) \/ Execute(c) \/ Return(c)
       \/ AppendWhole(c) \/ AppendNothing(c) \/ AppendPart(c) \/ CrashInAppend(c)

Spec == Init /\ [][Next]_vars
================================================================================
