------------------------- MODULE TableStoreProperties --------------------------
(***************************************************************************)
(* What makes the storage of a node correct, and that it implements         *)
(* DurableTable where the log can be written.                               *)
(***************************************************************************)
EXTENDS TableStore

(* The texts of an environment's clients *)
Texts(e) ==
  LET whole == { Render(st) : st \in e.statements }
  IN  whole \cup IF "typos" \in e.faults THEN UNION { Typos(ts) : ts \in whole } ELSE {}

(* What Tokenize gives: tokens, and numbers among them denote something *)
TokenTypes == {"Identifier", "Number", "String", "Unterminated", "Symbol"}
IsText(ts) ==
  /\ ts \in Seq(TokenTypes \X STRING)
  /\ \A p \in DOMAIN ts : ts[p][1] = "Number" => ts[p][2] \in DOMAIN NumberOf

(* A text that names the key column once where it inserts, and does not set *)
(* it where it updates                                                      *)
IsPlain(ts) ==
  /\ Keyword(ts, 1, "insert") /\ TableKnown(ts, 3) =>
       \A p, q \in 4 .. Len(ts) :
         Keyword(ts, p, KeyColumn(ts, 3)) /\ Keyword(ts, q, KeyColumn(ts, 3)) => p = q
  /\ Keyword(ts, 1, "update") /\ TableKnown(ts, 2) => KeyColumn(ts, 2) \notin DOMAIN Assigned(ts)

(* A text whose string literals have no line break                          *)
IsFlat(ts) == \A p \in DOMAIN ts : ts[p][2] \notin DOMAIN FlatText

(* The lower case of a text is in lower case, one without line breaks stays *)
(* as it is, and only odd statements are written as odd texts, only those   *)
(* with line breaks as texts with some.                                     *)
ASSUME TextsAssumption ==
  /\ \A text \in DOMAIN LowerCase : LowerCase[text] \notin DOMAIN LowerCase
  /\ \A text \in DOMAIN FlatText : FlatText[text] \notin DOMAIN FlatText
  /\ \A e \in Environments : \A ts \in Texts(e) :
       /\ IsText(ts)
       /\ "odd" \notin e.faults => IsPlain(ts)
       /\ "newline" \notin e.faults => IsFlat(ts)

(* A statement of a client.  The grammar reserves no words: that a text is  *)
(* read as it was meant takes names that are not read as the beginning of a *)
(* statement or as the SET of an UPDATE.                                    *)
KindOf == [select |-> Select, insert |-> Insert, update |-> Update, delete |-> Delete]

IsName(text) ==
  /\ text \in STRING /\ text \notin DOMAIN LowerCase
  /\ text \notin {"select", "insert", "update", "delete", "set"}
IsLiteralOf(token) == token \in {"Number", "String"} \X STRING

IsStatement(st) ==
  /\ st.verb \in DOMAIN KindOf
  /\ st.written \in STRING /\ st.table = Lower(st.written) /\ IsName(st.table)
  /\ st.columns \in Seq(STRING) /\ \A i \in DOMAIN st.columns : IsName(st.columns[i])
  /\ st.values \in Seq({"Number", "String"} \X STRING)
  /\ \A v \in st.where : v = <<v[1], v[2]>> /\ IsName(v[1]) /\ IsLiteralOf(v[2])
  /\ \A v, w \in st.where : v = w
  /\ st.count \in BOOLEAN
  /\ st.verb \in {"insert", "update"} =>
       /\ st.columns # <<>> /\ st.values # <<>>
       /\ \A i, j \in DOMAIN st.columns : st.columns[i] = st.columns[j] => i = j
  /\ st.verb = "insert" => st.where = {}
  /\ st.verb = "update" => Len(st.values) = Len(st.columns)
  /\ st.verb \in {"select", "delete"} => st.values = <<>>

(* Where neither texts nor the log are exposed to anything but typos        *)
Benign(e) == e.faults \subseteq {"typos"}

(* What a client asks is no value that stands for the absence of a call or  *)
(* of a statement, and in a benign environment it is a statement; words are *)
(* in lower case; what stands for no statement or no key is none.           *)
ASSUME StatementsAssumption ==
  /\ \A e \in Environments : \A st \in e.statements \cup {Garbled} :
       /\ st # NoCall /\ (st = Garbled => st \notin e.statements)
       /\ Benign(e) /\ st # Garbled => IsStatement(st)
  /\ {"select", "insert", "update", "delete", "set", "into", "values", "from", "where",
      "count"} \cap DOMAIN LowerCase = {}
  /\ NoPartition \notin Nat
  /\ Rejected \notin [kind : Select .. Unsupported, table : STRING,
                      partition : Nat \cup {NoPartition}, aggregate : BOOLEAN]

Named == DOMAIN rows \cup DOMAIN logged \cup DOMAIN served
In(rws, at) == at \in DOMAIN rws
RowIn(rws, at) == IF In(rws, at) THEN FlatRow(rws[at]) ELSE NoRow
Agree(rws1, rws2, at) == (In(rws1, at) <=> In(rws2, at)) /\ RowIn(rws1, at) = RowIn(rws2, at)

Applied(c) == Stage(c, "applied")

(* The rows in memory, in the log and of the answered statements have a key *)
(* of 32 bits and a known table, or a name that a torn line left; requests  *)
(* that passed the validator are about rows of known tables; the mutex is   *)
(* held by who is appending, and the tail is a line that was torn.          *)
KnownRows == (DOMAIN DistributionKey) \X (0 .. KeyMax)
TornRows == TornNames \X (0 .. KeyMax)

TypeOK ==
  /\ env \in Environments
  /\ \A at \in Named : at \in KnownRows \/ at \in TornRows \cap suspect
  /\ \A c \in Client :
       Stage(c, "valid") \/ Applied(c) => RowOf(call[c].request) \in KnownRows
  /\ \A c \in Client : Applied(c) <=> holder = c
  /\ holder \in Client \cup {Nobody}
  /\ tail # NoTail => tail.cut \in Cuts(tail.line)
  /\ spent.calls <= env.calls /\ spent.crashes <= env.crashes

(* The rows in memory are those the answered statements left, but for the   *)
(* row of a statement that is being logged: no statement is lost, applied   *)
(* twice or out of order by threads that execute together.  A row a torn or *)
(* missing line was about is excepted.  (Execute, ReplayWal.)               *)
MemoryIsServed ==
  \A at \in (Named \ suspect) \ { RowOf(call[c].request) : c \in { d \in Client : Applied(d) } } :
    Agree(rows, served, at)

(* What a restart would read is what was answered (literals with their line *)
(* breaks as spaces): a statement that was answered is in the log, in the   *)
(* order it was applied, one that was not answered is not.  A torn or       *)
(* missing line damages at most the row it was about, the row its name and  *)
(* key read as (with part of the name row 0 of that table, with a key that  *)
(* became too large the last row), and the two of the line that continues   *)
(* it.                                                                      *)
(* (AppendToWal, ReplayWal.)                                                *)
ReplayIsServed ==
  \A at \in (Named \cup DOMAIN ReplayWal(logged, tail)) \ suspect :
    Agree(ReplayWal(logged, tail), served, at)

(* The parser that finds the key and the executor that reads the row do not *)
(* share a grammar: yet a row is stored under the key that it names, unless *)
(* a statement names the key twice, sets it, or a line is torn.             *)
RowsUnderTheirKey ==
  env.faults \cap {"odd", "torn"} = {} =>
    \A at \in DOMAIN rows :
      /\ DistributionKey[at[1]] \in DOMAIN rows[at]
      /\ NumberOf[rows[at][DistributionKey[at[1]]]] = at[2]

(* The executor's loop over a list of columns ends for every text the       *)
(* parser lets through, and for every torn line it replays, or torn line    *)
(* that another continued: with the mutex held it would stop the node.      *)
(* (ParseIdentList steps over no symbol but a comma.)                       *)
ColumnListsEnd ==
  /\ \A c \in Client :
       Stage(c, "valid") /\ call[c].request.kind = Insert => InsertReturns(call[c].request.sql)
  /\ tail # NoTail =>
       /\ InsertReturns(ReadTorn(tail.line, tail.cut).sql)
       /\ \A c \in Client : Applied(c) => InsertReturns(Glued(tail, Line(c)).sql)

----------------------------------------------------------------------------

Table == INSTANCE DurableTable WITH
  Statements <- UNION { e.statements : e \in Environments },
  TableKey <- DistributionKey, Number <- NumberOf, Largest <- KeyMax,
  NoStatement <- NoCall,
  table <- served,
  asked <- [c \in Client |-> IF Stage(c, "none") THEN NoCall ELSE call[c].asked],
  answered <- [c \in Client |-> IF Stage(c, "answered") THEN call[c].answer ELSE NoAnswer]

(* With a log that can be written, the parser, the executor and its log     *)
(* together are a durable table: each statement takes effect when its line  *)
(* is in the log (a SELECT when it is executed), its answer is the one of   *)
(* that moment, a text with a typo is refused and changes nothing, and a    *)
(* crash loses no answered statement.                                       *)
ImplementsTable ==
  Table!Init /\ [][env.faults \subseteq {"typos"} => Table!Next]_Table!vars

(* What that rests on at each single text: the parser accepts the text of a *)
(* statement if it is to be understood, and it and the executor read from   *)
(* it what was meant; no text with a typo is accepted.                      *)
ReadAsMeant(st) ==
  LET ts == Render(st)
      statement == Parse(ts)
  IN  /\ Valid(statement) <=> Table!Understood(st)
      /\ Valid(statement) =>
           /\ st.verb \in DOMAIN KindOf /\ statement.kind = KindOf[st.verb]
           /\ <<Lower(statement.table), statement.partition>> = Table!RowOf(st)
           /\ st.verb = "insert" => InsertedRow(ts) = Table!Given(st)
           /\ st.verb = "update" => Assigned(ts) = Table!Given(st)
           /\ st.verb = "select" => statement.aggregate = st.count

StatementsReadAsMeant ==
  \A e \in Environments : Benign(e) => \A st \in e.statements : ReadAsMeant(st)
TyposAreRefused ==
  \A e \in Environments : Benign(e) /\ "typos" \in e.faults =>
    \A st \in e.statements : \A ts \in Typos(Render(st)) : ~Valid(Parse(ts))
================================================================================
