--------------------------- MODULE TableStoreProofs ----------------------------
(***************************************************************************)
(* Proofs about the storage of a node, for any clients, tables, texts and   *)
(* environments: types, and what memory, the log and its replay hold        *)
(* (Stored); that the executor's loop over a list of columns ends; that     *)
(* rows are stored under the keys they name (KeyedStore); and that it       *)
(* implements DurableTable (Exact, and what the parser and the executor     *)
(* read from the text of a statement).                                      *)
(***************************************************************************)
EXTENDS TableStoreProperties, Induction, SequenceTheorems

(* Texts *)

LEMMA FlatTwice ==
  \A text : Flat(Flat(text)) = Flat(text)
BY TextsAssumption DEF Flat

LEMMA LowerTwice ==
  \A text : Lower(Lower(text)) = Lower(text)
BY TextsAssumption DEF Lower

IsString(ts, p) == At(ts, p)[1] \in {"String", "Unterminated"}

(* What a text written to the log has at a position *)
LEMMA SanitizedTokens ==
  ASSUME NEW ts, IsText(ts)
  PROVE  /\ DOMAIN Sanitized(ts) = DOMAIN ts /\ Len(Sanitized(ts)) = Len(ts) /\ Len(ts) \in Nat
         /\ \A p : IF IsString(ts, p) THEN /\ At(Sanitized(ts), p)[1] = At(ts, p)[1]
                                           /\ Text(Sanitized(ts), p) = Flat(Text(ts, p))
                                      ELSE At(Sanitized(ts), p) = At(ts, p)
<1>1. ts \in Seq(TokenTypes \X STRING)
  BY DEF IsText
<1>2. DOMAIN ts = 1 .. Len(ts) /\ Len(ts) \in Nat
  BY <1>1
<1>3. DOMAIN Sanitized(ts) = DOMAIN ts
  BY DEF Sanitized
<1>4. Len(Sanitized(ts)) = Len(ts)
  BY <1>2, <1>3 DEF Sanitized
<1>5. \A p \in DOMAIN ts : ts[p] \in TokenTypes \X STRING
  BY <1>1
<1>6. ASSUME NEW p
      PROVE  IF IsString(ts, p) THEN /\ At(Sanitized(ts), p)[1] = At(ts, p)[1]
                                     /\ Text(Sanitized(ts), p) = Flat(Text(ts, p))
                                ELSE At(Sanitized(ts), p) = At(ts, p)
  BY <1>3, <1>5 DEF Sanitized, IsString, At, Text
<1> QED
  BY <1>2, <1>3, <1>4, <1>6

(* The executor takes the same columns from a text written to the log, and  *)
(* values that differ in their line breaks only.                            *)
LEMMA SameTokens ==
  ASSUME NEW ts, IsText(ts)
  PROVE  LET line == Sanitized(ts) IN
         /\ Len(line) = Len(ts) /\ Len(ts) \in Nat
         /\ \A p, c : Symbol(line, p, c) <=> Symbol(ts, p, c)
         /\ \A p : Identifier(line, p) <=> Identifier(ts, p)
         /\ \A p : IsLiteral(line, p) <=> IsLiteral(ts, p)
         /\ \A p, word : Keyword(line, p, word) <=> Keyword(ts, p, word)
         /\ \A p : Identifier(ts, p) => Text(line, p) = Text(ts, p)
         /\ \A p : Flat(Text(line, p)) = Flat(Text(ts, p))
<1>1. \A p : IF IsString(ts, p) THEN /\ At(Sanitized(ts), p)[1] = At(ts, p)[1]
                                      /\ Text(Sanitized(ts), p) = Flat(Text(ts, p))
                                 ELSE At(Sanitized(ts), p) = At(ts, p)
  BY SanitizedTokens
<1>2. Len(Sanitized(ts)) = Len(ts) /\ Len(ts) \in Nat
  BY SanitizedTokens
<1>3. \A p : At(Sanitized(ts), p)[1] = At(ts, p)[1]
  BY <1>1
<1>4. \A p : ~IsString(ts, p) => At(Sanitized(ts), p) = At(ts, p) /\ Text(Sanitized(ts), p) = Text(ts, p)
  BY <1>1 DEF Text
<1>5. \A p : Identifier(ts, p) => ~IsString(ts, p)
  BY DEF Identifier, IsString
<1>6. \A p, c : Symbol(Sanitized(ts), p, c) <=> Symbol(ts, p, c)
  <2> TAKE p, c
  <2>1. CASE IsString(ts, p)
    BY <1>3, <2>1 DEF Symbol, IsString
  <2>2. CASE ~IsString(ts, p)
    BY <1>4, <2>2 DEF Symbol
  <2> QED
    BY <2>1, <2>2
<1>7. \A p : Identifier(Sanitized(ts), p) <=> Identifier(ts, p)
  BY <1>3 DEF Identifier
<1>8. \A p : IsLiteral(Sanitized(ts), p) <=> IsLiteral(ts, p)
  BY <1>3 DEF IsLiteral
<1>9. \A p, word : Keyword(Sanitized(ts), p, word) <=> Keyword(ts, p, word)
  BY <1>4, <1>5, <1>7 DEF Keyword
<1>10. \A p : Flat(Text(Sanitized(ts), p)) = Flat(Text(ts, p))
  BY <1>1, <1>4, FlatTwice
<1> QED
  BY <1>2, <1>4, <1>5, <1>6, <1>7, <1>8, <1>9, <1>10

LEMMA SameColumns ==
  ASSUME NEW ts, IsText(ts)
  PROVE  LET line == Sanitized(ts) IN
         /\ FlatRow(InsertedRow(line)) = FlatRow(InsertedRow(ts))
         /\ FlatRow(Assigned(line)) = FlatRow(Assigned(ts))
<1> DEFINE line == Sanitized(ts)
<1>0. /\ Len(line) = Len(ts)
      /\ \A p, c : Symbol(line, p, c) <=> Symbol(ts, p, c)
      /\ \A p : Identifier(line, p) <=> Identifier(ts, p)
      /\ \A p : IsLiteral(line, p) <=> IsLiteral(ts, p)
      /\ \A p, word : Keyword(line, p, word) <=> Keyword(ts, p, word)
      /\ \A p : Identifier(ts, p) => Text(line, p) = Text(ts, p)
      /\ \A p : Flat(Text(line, p)) = Flat(Text(ts, p))
  BY SameTokens
<1> HIDE DEF line
<1>1. \A p, word : SkipToKeyword(line, p, word) = SkipToKeyword(ts, p, word)
  BY <1>0 DEF SkipToKeyword
<1>2. \A p : IdentListStop(line, p) = IdentListStop(ts, p) /\ LiteralListStop(line, p) = LiteralListStop(ts, p)
  BY <1>0 DEF IdentListStop, LiteralListStop
<1>3. \A p : IdentList(line, p) = IdentList(ts, p) /\ LiteralList(line, p) = LiteralList(ts, p)
  <2> TAKE p
  <2>1. \A q, n : { x \in q .. n : Identifier(line, x) } = { x \in q .. n : Identifier(ts, x) }
    BY <1>0
  <2>2. \A q, n : { x \in q .. n : IsLiteral(line, x) } = { x \in q .. n : IsLiteral(ts, x) }
    BY <1>0
  <2>3. Symbol(line, p, "(") <=> Symbol(ts, p, "(")
    BY <1>0
  <2>4. CASE Symbol(ts, p, "(")
    BY <1>2, <2>1, <2>2, <2>3, <2>4 DEF IdentList, LiteralList
  <2>5. CASE ~Symbol(ts, p, "(")
    BY <2>3, <2>5 DEF IdentList, LiteralList
  <2> QED
    BY <2>4, <2>5
<1>4. Columns(line) = Columns(ts) /\ Values(line) = Values(ts)
  <2>1. Columns(line) = Columns(ts)
    BY <1>1 DEF Columns
  <2> QED
    BY <1>0, <1>1, <1>2, <2>1 DEF Values
<1>5. FlatRow(InsertedRow(line)) = FlatRow(InsertedRow(ts))
  <2> DEFINE columns == IdentList(ts, Columns(ts))
             values == LiteralList(ts, Values(ts))
             filled == { p \in columns : Rank(columns, p) <= Cardinality(values) }
             value(p) == CHOOSE q \in values : Rank(values, q) = Rank(columns, p)
             of(name) == { p \in filled : Lower(Text(ts, p)) = name }
             ofLine(name) == { p \in filled : Lower(Text(line, p)) = name }
  <2>1. InsertedRow(ts) = [name \in { Lower(Text(ts, p)) : p \in filled } |-> Text(ts, value(Last(of(name))))]
    BY DEF InsertedRow
  <2>2. InsertedRow(line) =
          [name \in { Lower(Text(line, p)) : p \in filled } |-> Text(line, value(Last(ofLine(name))))]
    <3>1. IdentList(line, Columns(line)) = columns /\ LiteralList(line, Values(line)) = values
      BY <1>3, <1>4
    <3> HIDE DEF columns, values
    <3> QED
      BY <3>1 DEF InsertedRow
  <2>3. \A p \in columns : Identifier(ts, p)
    BY DEF IdentList
  <2>4. \A p \in filled : Text(line, p) = Text(ts, p)
    BY <1>0, <2>3
  <2>5. \A name : ofLine(name) = of(name)
    BY <2>4
  <2>6. { Lower(Text(line, p)) : p \in filled } = { Lower(Text(ts, p)) : p \in filled }
    BY <2>4
  <2> DEFINE names == { Lower(Text(ts, p)) : p \in filled }
             at(name) == value(Last(of(name)))
  <2>7. InsertedRow(ts) = [name \in names |-> Text(ts, at(name))]
    BY <2>1
  <2>8. InsertedRow(line) = [name \in names |-> Text(line, at(name))]
    BY <2>2, <2>5, <2>6
  <2> HIDE DEF names, at
  <2> QED
    BY <1>0, <2>7, <2>8 DEF FlatRow
<1>6. FlatRow(Assigned(line)) = FlatRow(Assigned(ts))
  <2> DEFINE from == SkipToKeyword(ts, 1, "set") + 1
             item(i) == Item(from, i, 3)
             reached(t) == { i \in 1 .. Len(ts) :
                     \A j \in 1 .. i :
                       /\ Identifier(t, item(j))
                       /\ Symbol(t, item(j) + 1, "=")
                       /\ IsLiteral(t, item(j) + 2)
                       /\ j < i => Symbol(t, ListEnd(from, j, 3), Comma) }
             of(t, name) == { i \in reached(t) : Lower(Text(t, item(i))) = name }
  <2>1. Assigned(ts) = [name \in { Lower(Text(ts, item(i))) : i \in reached(ts) } |->
                          Text(ts, item(Last(of(ts, name))) + 2)]
    BY DEF Assigned
  <2>2. Assigned(line) = [name \in { Lower(Text(line, item(i))) : i \in reached(line) } |->
                          Text(line, item(Last(of(line, name))) + 2)]
    BY <1>0, <1>1 DEF Assigned
  <2>3. reached(line) = reached(ts)
    BY <1>0
  <2>4. \A i \in reached(ts) : Identifier(ts, item(i))
    <3>1. \A i \in reached(ts) : i \in 1 .. i
      OBVIOUS
    <3> QED
      BY <3>1
  <2> HIDE DEF item, reached
  <2>5. \A i \in reached(ts) : Text(line, item(i)) = Text(ts, item(i))
    BY <1>0, <2>4
  <2>6. \A name : of(line, name) = of(ts, name)
    BY <2>3, <2>5
  <2>7. { Lower(Text(line, item(i))) : i \in reached(line) } = { Lower(Text(ts, item(i))) : i \in reached(ts) }
    BY <2>3, <2>5
  <2> DEFINE names == { Lower(Text(ts, item(i))) : i \in reached(ts) }
             at(name) == item(Last(of(ts, name))) + 2
  <2>8. Assigned(ts) = [name \in names |-> Text(ts, at(name))]
    BY <2>1
  <2>9. Assigned(line) = [name \in names |-> Text(line, at(name))]
    BY <2>2, <2>6, <2>7
  <2> HIDE DEF names, at
  <2> QED
    BY <1>0, <2>8, <2>9 DEF FlatRow
<1> QED
  BY <1>5, <1>6 DEF line

--------------------------------------------------------------------------------
(* What a request does to tables of rows.  It touches one row, the same way *)
(* if it is read from the log.                                              *)

KnownRequest(r) ==
  Lower(r.table) \in DOMAIN DistributionKey /\ r.partition \in 0 .. KeyMax /\ r.kind \in Nat
ReadRequest(r) == RowOf(r) \in KnownRows \cup TornRows

IsFunction(f) == f = [x \in DOMAIN f |-> f[x]]
IsTable(rws) == IsFunction(rws) /\ DOMAIN rws \subseteq KnownRows \cup TornRows

LEMMA KnownIsRead ==
  ASSUME NEW r, KnownRequest(r)
  PROVE  RowOf(r) \in KnownRows /\ ReadRequest(r)
BY DEF KnownRequest, ReadRequest, RowOf, KnownRows

LEMMA InsertEffect ==
  ASSUME NEW rws, NEW r, r.kind = Insert
  PROVE  /\ IsFunction(Effect(rws, r))
         /\ \A at : In(Effect(rws, r), at) <=> (at = RowOf(r) \/ In(rws, at))
         /\ \A at : In(Effect(rws, r), at) =>
              Effect(rws, r)[at] = IF at = RowOf(r) THEN InsertedRow(r.sql) ELSE rws[at]
<1>1. Effect(rws, r) = Overriding([at \in {RowOf(r)} |-> InsertedRow(r.sql)], rws)
  BY DEF Effect, Insert, Update, Delete
<1> DEFINE at == RowOf(r)
           row == InsertedRow(r.sql)
<1>2. Effect(rws, r) = [x \in {at} \cup DOMAIN rws |-> IF x \in {at} THEN row ELSE rws[x]]
  BY <1>1 DEF Overriding
<1> HIDE DEF at, row
<1>3. /\ IsFunction(Effect(rws, r))
      /\ \A x : In(Effect(rws, r), x) <=> (x = at \/ In(rws, x))
      /\ \A x : In(Effect(rws, r), x) => Effect(rws, r)[x] = IF x = at THEN row ELSE rws[x]
  BY <1>2 DEF IsFunction, In
<1> QED
  BY <1>3 DEF at, row

LEMMA EffectElsewhere ==
  ASSUME NEW rws, IsFunction(rws), NEW r, NEW at, at # RowOf(r)
  PROVE  /\ IsFunction(Effect(rws, r))
         /\ In(Effect(rws, r), at) <=> In(rws, at)
         /\ In(rws, at) => Effect(rws, r)[at] = rws[at]
         /\ Agree(Effect(rws, r), rws, at)
<1>1. /\ IsFunction(Effect(rws, r))
      /\ In(Effect(rws, r), at) <=> In(rws, at)
      /\ In(rws, at) => Effect(rws, r)[at] = rws[at]
  <2>1. CASE r.kind = Insert
    BY <2>1, InsertEffect
  <2>2. CASE r.kind = Update /\ RowOf(r) \in DOMAIN rws
    BY <2>2 DEF Effect, IsFunction, In, Insert, Update
  <2>3. CASE r.kind = Delete
    BY <2>3 DEF Effect, IsFunction, In, Insert, Update, Delete
  <2>4. CASE r.kind # Insert /\ r.kind # Delete /\ ~(r.kind = Update /\ RowOf(r) \in DOMAIN rws)
    BY <2>4 DEF Effect, In
  <2> QED
    BY <2>1, <2>2, <2>3, <2>4
<1> QED
  BY <1>1 DEF Agree, RowIn

RowAfter(r, row) ==
  IF r.kind = Insert THEN InsertedRow(r.sql)
  ELSE IF r.kind = Update THEN Overriding(Assigned(r.sql), row) ELSE row

LEMMA EffectHere ==
  ASSUME NEW rws, IsFunction(rws), NEW r, NEW at, at = RowOf(r)
  PROVE  /\ In(Effect(rws, r), at) <=> (r.kind = Insert \/ (In(rws, at) /\ r.kind # Delete))
         /\ In(Effect(rws, r), at) => Effect(rws, r)[at] = RowAfter(r, rws[at])
<1>1. CASE r.kind = Insert
  BY <1>1, InsertEffect DEF RowAfter
<1>2. CASE r.kind = Update /\ RowOf(r) \in DOMAIN rws
  BY <1>2 DEF RowAfter, Effect, IsFunction, In, Insert, Update, Delete
<1>3. CASE r.kind = Delete
  BY <1>3 DEF RowAfter, Effect, IsFunction, In, Insert, Update, Delete
<1>4. CASE r.kind # Insert /\ r.kind # Delete /\ ~(r.kind = Update /\ RowOf(r) \in DOMAIN rws)
  BY <1>4 DEF RowAfter, Effect, In, Insert, Delete, Update
<1> QED
  BY <1>1, <1>2, <1>3, <1>4

LEMMA EffectRows ==
  ASSUME NEW rws, IsFunction(rws), NEW S, DOMAIN rws \subseteq S,
         NEW r, RowOf(r) \in S \/ r.kind # Insert
  PROVE  IsFunction(Effect(rws, r)) /\ DOMAIN Effect(rws, r) \subseteq S
<1>1. IsFunction(Effect(rws, r))
  <2>1. CASE r.kind = Insert
    BY <2>1, InsertEffect
  <2>2. CASE r.kind = Update /\ RowOf(r) \in DOMAIN rws
    BY <2>2 DEF Effect, IsFunction, Insert, Update
  <2>3. CASE r.kind = Delete
    BY <2>3 DEF Effect, IsFunction, Insert, Update, Delete
  <2>4. CASE r.kind # Insert /\ r.kind # Delete /\ ~(r.kind = Update /\ RowOf(r) \in DOMAIN rws)
    BY <2>4 DEF Effect
  <2> QED
    BY <2>1, <2>2, <2>3, <2>4
<1>2. ASSUME NEW at \in DOMAIN Effect(rws, r)
      PROVE  at \in S
  <2>1. CASE at # RowOf(r)
    BY <2>1, EffectElsewhere DEF In
  <2>2. CASE at = RowOf(r)
    <3>1. r.kind = Insert \/ at \in DOMAIN rws
      BY <2>2, EffectHere DEF In
    <3> QED
      BY <2>2, <3>1
  <2> QED
    BY <2>1, <2>2
<1> QED
  BY <1>1, <1>2

LEMMA EffectIsTable ==
  ASSUME NEW rws, IsTable(rws), NEW r, KnownRequest(r) \/ ReadRequest(r) \/ r.kind # Insert
  PROVE  IsTable(Effect(rws, r))
<1>1. ReadRequest(r) \/ r.kind # Insert
  BY KnownIsRead
<1> QED
  BY <1>1, EffectRows DEF IsTable, ReadRequest

LEMMA FlatOverriding ==
  ASSUME NEW f, NEW g, NEW h, NEW k, FlatRow(f) = FlatRow(h), FlatRow(g) = FlatRow(k)
  PROVE  FlatRow(Overriding(f, g)) = FlatRow(Overriding(h, k))
<1>1. DOMAIN f = DOMAIN h /\ DOMAIN g = DOMAIN k
  <2>1. \A x : DOMAIN FlatRow(x) = DOMAIN x
    BY DEF FlatRow
  <2> QED
    BY <2>1
<1>2. \A x \in DOMAIN f : Flat(f[x]) = Flat(h[x])
  <2>1. \A x \in DOMAIN f : FlatRow(f)[x] = Flat(f[x]) /\ FlatRow(h)[x] = Flat(h[x])
    BY <1>1 DEF FlatRow
  <2> QED
    BY <2>1
<1>3. \A x \in DOMAIN g : Flat(g[x]) = Flat(k[x])
  <2>1. \A x \in DOMAIN g : FlatRow(g)[x] = Flat(g[x]) /\ FlatRow(k)[x] = Flat(k[x])
    BY <1>1 DEF FlatRow
  <2> QED
    BY <2>1
<1>4. /\ Overriding(f, g) = [x \in DOMAIN f \cup DOMAIN g |-> IF x \in DOMAIN f THEN f[x] ELSE g[x]]
      /\ Overriding(h, k) = [x \in DOMAIN f \cup DOMAIN g |-> IF x \in DOMAIN f THEN h[x] ELSE k[x]]
  BY <1>1 DEF Overriding
<1> QED
  BY <1>2, <1>3, <1>4 DEF FlatRow

(* Tables that agree on a row still do after a request, or after the same   *)
(* one read from the log.                                                   *)
SameRequest(r, s) ==
  /\ RowOf(r) = RowOf(s) /\ r.kind = s.kind
  /\ FlatRow(InsertedRow(r.sql)) = FlatRow(InsertedRow(s.sql))
  /\ FlatRow(Assigned(r.sql)) = FlatRow(Assigned(s.sql))

LEMMA EffectsAgree ==
  ASSUME NEW a, IsFunction(a), NEW b, IsFunction(b), NEW r, NEW s, SameRequest(r, s),
         NEW at, Agree(a, b, at)
  PROVE  Agree(Effect(a, r), Effect(b, s), at)
<1>1. CASE at # RowOf(r)
  <2>1. Agree(Effect(a, r), a, at) /\ Agree(Effect(b, s), b, at)
    BY <1>1, EffectElsewhere DEF SameRequest
  <2> QED
    BY <2>1 DEF Agree
<1>2. CASE at = RowOf(r)
  <2> DEFINE x == Effect(a, r)
             y == Effect(b, s)
  <2>1. /\ In(x, at) <=> (r.kind = Insert \/ (In(a, at) /\ r.kind # Delete))
        /\ In(y, at) <=> (s.kind = Insert \/ (In(b, at) /\ s.kind # Delete))
    BY <1>2, EffectHere DEF SameRequest
  <2>2. /\ In(x, at) => x[at] = RowAfter(r, a[at])
        /\ In(y, at) => y[at] = RowAfter(s, b[at])
    BY <1>2, EffectHere DEF SameRequest
  <2>3. In(x, at) <=> In(y, at)
    BY <2>1 DEF SameRequest, Agree
  <2>4. ASSUME In(x, at)
        PROVE  FlatRow(RowAfter(r, a[at])) = FlatRow(RowAfter(s, b[at]))
    <3>1. CASE r.kind = Insert
      BY <3>1 DEF RowAfter, SameRequest
    <3>2. CASE r.kind # Insert
      <4>1. FlatRow(a[at]) = FlatRow(b[at])
        BY <2>1, <2>4, <3>2 DEF Agree, RowIn
      <4>2. FlatRow(Overriding(Assigned(r.sql), a[at])) = FlatRow(Overriding(Assigned(s.sql), b[at]))
        BY <4>1, FlatOverriding DEF SameRequest
      <4> QED
        BY <3>2, <4>1, <4>2 DEF RowAfter, SameRequest
    <3> QED
      BY <3>1, <3>2
  <2> HIDE DEF x, y
  <2>5. RowIn(x, at) = RowIn(y, at)
    BY <2>2, <2>3, <2>4 DEF RowIn
  <2>6. Agree(x, y, at)
    BY <2>3, <2>5 DEF Agree
  <2> QED
    BY <2>6 DEF x, y
<1> QED
  BY <1>1, <1>2

LEMMA LineIsSame ==
  ASSUME NEW ts, IsText(ts), NEW statement
  PROVE  /\ SameRequest(LineOf(Request(statement, ts)), Request(statement, ts))
         /\ SameRequest(Request(statement, ts), Request(statement, ts))
<1> DEFINE r == Request(statement, ts)
<1>1. /\ LineOf(r).table = Lower(r.table) /\ LineOf(r).partition = r.partition
      /\ LineOf(r).kind = r.kind /\ LineOf(r).sql = Sanitized(ts) /\ r.sql = ts
  BY DEF LineOf, Request
<1>2. RowOf(LineOf(r)) = RowOf(r)
  BY <1>1, LowerTwice DEF RowOf
<1> HIDE DEF r
<1>3. SameRequest(LineOf(r), r) /\ SameRequest(r, r)
  BY <1>1, <1>2, SameColumns DEF SameRequest
<1> QED
  BY <1>3 DEF r

--------------------------------------------------------------------------------
(* What passes the validator: a statement of one of four kinds, on a known  *)
(* table, with a key.                                                       *)

Accepted(ts) == IsText(ts) /\ Valid(Parse(ts))

LEMMA ParsedBy ==
  ASSUME NEW ts, Accepted(ts)
  PROVE  /\ ~Unterminated(ts)
         /\ \/ Keyword(ts, 1, "select") /\ Parse(ts) = ParseSelect(ts) /\ ParseSelect(ts) # Rejected
            \/ Keyword(ts, 1, "insert") /\ Parse(ts) = ParseInsert(ts) /\ ParseInsert(ts) # Rejected
            \/ Keyword(ts, 1, "update") /\ Parse(ts) = ParseUpdate(ts) /\ ParseUpdate(ts) # Rejected
            \/ Keyword(ts, 1, "delete") /\ Parse(ts) = ParseDelete(ts) /\ ParseDelete(ts) # Rejected
<1>1. Parse(ts) # Rejected /\ Parse(ts).kind # Unsupported
  BY DEF Accepted, Valid
<1>2. ~Unterminated(ts)
  BY <1>1 DEF Parse
<1>3. \A a, b : Keyword(ts, 1, a) /\ Keyword(ts, 1, b) => a = b
  BY DEF Keyword
<1>4. Statement(Unsupported, Empty, NoPartition, FALSE).kind = Unsupported
  BY DEF Statement
<1> QED
  BY <1>1, <1>2, <1>3, <1>4 DEF Parse

LEMMA LiteralValueKnown ==
  ASSUME NEW ts, IsText(ts), NEW p, LiteralValue(ts, p) # NoPartition
  PROVE  /\ LiteralValue(ts, p) \in Nat /\ At(ts, p)[1] = "Number"
         /\ LiteralValue(ts, p) = StrToUL(Text(ts, p)) /\ Text(ts, p) \in DOMAIN NumberOf
<1>1. At(ts, p)[1] = "Number" /\ LiteralValue(ts, p) = StrToUL(Text(ts, p))
  BY DEF LiteralValue
<1>2. p \in DOMAIN ts /\ At(ts, p) = ts[p]
  BY <1>1 DEF At
<1>3. Text(ts, p) \in DOMAIN NumberOf
  BY <1>1, <1>2 DEF Text, IsText
<1> QED
  BY <1>1, <1>3, TableStoreAssumption DEF StrToUL

LEMMA SelectShape ==
  ASSUME NEW ts, ParseSelect(ts) # Rejected
  PROVE  \E from, aggregate :
           /\ TableKnown(ts, from + 1) /\ Where(ts, from + 2, KeyColumn(ts, from + 1)).ok
           /\ ParseSelect(ts) =
                Statement(Select, Text(ts, from + 1), Where(ts, from + 2, KeyColumn(ts, from + 1)).partition, aggregate)
<1> DEFINE star == Symbol(ts, 2, "*")
           aggregate ==
             /\ ~star
             /\ \E name \in DecomposableAggregates : Keyword(ts, 2, name)
             /\ Symbol(ts, 3, "(")
           from == IF star THEN 3 ELSE IF aggregate THEN 6 ELSE ListEnd(2, ListLength(ts, 2, 1), 1)
<1>1. /\ TableKnown(ts, from + 1) /\ Where(ts, from + 2, KeyColumn(ts, from + 1)).ok
      /\ ParseSelect(ts) =
           Statement(Select, Text(ts, from + 1), Where(ts, from + 2, KeyColumn(ts, from + 1)).partition, aggregate)
  BY DEF ParseSelect
<1> HIDE DEF from, aggregate
<1> QED
  BY <1>1

LEMMA InsertShape ==
  ASSUME NEW ts, ParseInsert(ts) # Rejected
  PROVE  LET n == ListLength(ts, 5, 1)
             from == InsertValues(n)
         IN  /\ Keyword(ts, 2, "into") /\ TableKnown(ts, 3) /\ InsertColumnsOk(ts, n)
             /\ Keyword(ts, from - 2, "values") /\ Symbol(ts, from - 1, "(")
             /\ n = ListLength(ts, from, 1)
             /\ \A i \in 1 .. n : Literal(ts, Item(from, i, 1))
             /\ Symbol(ts, ListEnd(from, n, 1), ")")
             /\ ParseInsert(ts) = Statement(Insert, Text(ts, 3), InsertPartition(ts, n), FALSE)
BY DEF ParseInsert

LEMMA UpdateShape ==
  ASSUME NEW ts, ParseUpdate(ts) # Rejected
  PROVE  LET n == ListLength(ts, 4, 3)
             where == Where(ts, ListEnd(4, n, 3), KeyColumn(ts, 2))
         IN  /\ TableKnown(ts, 2) /\ Keyword(ts, 3, "set")
             /\ \A i \in 1 .. n : /\ Identifier(ts, Item(4, i, 3))
                                  /\ Symbol(ts, Item(4, i, 3) + 1, "=")
                                  /\ Literal(ts, Item(4, i, 3) + 2)
             /\ where.ok /\ StatementEnds(ts, where.end)
             /\ ParseUpdate(ts) = Statement(Update, Text(ts, 2), where.partition, FALSE)
BY DEF ParseUpdate

LEMMA DeleteShape ==
  ASSUME NEW ts, ParseDelete(ts) # Rejected
  PROVE  LET where == Where(ts, 4, KeyColumn(ts, 3))
         IN  /\ Keyword(ts, 2, "from") /\ TableKnown(ts, 3)
             /\ where.ok /\ StatementEnds(ts, where.end)
             /\ ParseDelete(ts) = Statement(Delete, Text(ts, 3), where.partition, FALSE)
BY DEF ParseDelete

IsKey(partition) == partition = NoPartition \/ partition \in 0 .. KeyMax

LEMMA ParsedIsKnown ==
  ASSUME NEW ts, Accepted(ts)
  PROVE  KnownRequest(Request(Parse(ts), ts)) /\ Request(Parse(ts), ts).kind \in {Select, Insert, Update, Delete}
<1> DEFINE st == Parse(ts)
<1>1. SUFFICES st.kind \in {Select, Insert, Update, Delete} /\ Lower(st.table) \in DOMAIN DistributionKey
               /\ st.partition \in 0 .. KeyMax
  BY DEF KnownRequest, Request, Select, Insert, Update, Delete
<1>2. st.partition # NoPartition
  BY DEF Accepted, Valid
<1>3. ASSUME NEW p, Literal(ts, p)
      PROVE  IsKey(LiteralValue(ts, p))
  <2> SUFFICES ASSUME LiteralValue(ts, p) # NoPartition
               PROVE  LiteralValue(ts, p) \in 0 .. KeyMax
    BY DEF IsKey
  <2>1. /\ LiteralValue(ts, p) \in Nat /\ At(ts, p)[1] = "Number"
        /\ LiteralValue(ts, p) = StrToUL(Text(ts, p))
    BY LiteralValueKnown DEF Accepted
  <2>2. LiteralValue(ts, p) <= KeyMax
    BY <1>3, <2>1 DEF Literal
  <2> QED
    BY <2>1, <2>2, TableStoreAssumption
<1>4. \A p, key : Where(ts, p, key).ok => IsKey(Where(ts, p, key).partition)
  <2> TAKE p, key
  <2> HAVE Where(ts, p, key).ok
  <2>1. CASE Keyword(ts, p, "where")
    <3>1. Literal(ts, p + 3) /\ Where(ts, p, key).partition = WherePartition(ts, p, key)
      BY <2>1 DEF Where
    <3> QED
      BY <1>3, <3>1 DEF WherePartition, IsKey
  <2>2. CASE ~Keyword(ts, p, "where")
    BY <2>2 DEF Where, IsKey
  <2> QED
    BY <2>1, <2>2
<1>5. ASSUME NEW n, \A i \in 1 .. n : Literal(ts, Item(InsertValues(n), i, 1))
      PROVE  IsKey(InsertPartition(ts, n))
  <2> DEFINE named == { i \in 1 .. n : Lower(Text(ts, Item(5, i, 1))) = KeyColumn(ts, 3) }
             first == CHOOSE i \in named : \A j \in named : i <= j
  <2>1. CASE named = {}
    BY <2>1 DEF InsertPartition, IsKey
  <2>2. CASE named # {}
    <3>1. InsertPartition(ts, n) = LiteralValue(ts, Item(InsertValues(n), first, 1))
      BY <2>2 DEF InsertPartition
    <3>2. named \in SUBSET Nat /\ named \subseteq 1 .. n
      OBVIOUS
    <3> HIDE DEF named
    <3>3. \E i \in named : \A j \in named : i <= j
      BY <2>2, <3>2, SmallestOf
    <3>4. first \in named
      BY <3>3
    <3>5. first \in 1 .. n
      BY <3>2, <3>4
    <3> HIDE DEF first
    <3> QED
      BY <1>3, <1>5, <3>1, <3>5
  <2> QED
    BY <2>1, <2>2
<1>6. ASSUME NEW kind, NEW p, NEW partition, NEW aggregate,
             kind \in {Select, Insert, Update, Delete}, TableKnown(ts, p),
             IsKey(partition),
             st = Statement(kind, Text(ts, p), partition, aggregate)
      PROVE  /\ st.kind \in {Select, Insert, Update, Delete} /\ Lower(st.table) \in DOMAIN DistributionKey
             /\ st.partition \in 0 .. KeyMax
  <2>1. st.kind = kind /\ st.table = Text(ts, p) /\ st.partition = partition
    BY <1>6 DEF Statement
  <2> HIDE DEF st
  <2> QED
    BY <1>2, <1>6, <2>1 DEF TableKnown, IsKey
<1> HIDE DEF st
<1>7. CASE st = ParseSelect(ts) /\ st # Rejected
  <2>1. PICK p, q, key, a :
          /\ TableKnown(ts, p) /\ Where(ts, q, key).ok
          /\ st = Statement(Select, Text(ts, p), Where(ts, q, key).partition, a)
    BY <1>7, SelectShape
  <2>2. IsKey(Where(ts, q, key).partition)
    BY <1>4, <2>1
  <2> QED
    BY <1>6, <2>1, <2>2
<1>8. CASE st = ParseInsert(ts) /\ st # Rejected
  <2> DEFINE partition == InsertPartition(ts, ListLength(ts, 5, 1))
  <2>1. PICK a : TableKnown(ts, 3) /\ st = Statement(Insert, Text(ts, 3), partition, a)
    BY <1>8, InsertShape
  <2>2. IsKey(partition)
    <3>1. \A i \in 1 .. ListLength(ts, 5, 1) : Literal(ts, Item(InsertValues(ListLength(ts, 5, 1)), i, 1))
      BY <1>8, InsertShape
    <3> QED
      BY <1>5, <3>1
  <2> HIDE DEF partition
  <2> QED
    BY <1>6, <2>1, <2>2
<1>9. CASE st = ParseUpdate(ts) /\ st # Rejected
  <2> DEFINE partition == Where(ts, ListEnd(4, ListLength(ts, 4, 3), 3), KeyColumn(ts, 2)).partition
  <2>1. PICK a : TableKnown(ts, 2) /\ st = Statement(Update, Text(ts, 2), partition, a)
    BY <1>9, UpdateShape
  <2>2. IsKey(partition)
    BY <1>4, <1>9, UpdateShape
  <2> HIDE DEF partition
  <2> QED
    BY <1>6, <2>1, <2>2
<1>10. CASE st = ParseDelete(ts) /\ st # Rejected
  <2> DEFINE partition == Where(ts, 4, KeyColumn(ts, 3)).partition
  <2>1. PICK a : TableKnown(ts, 3) /\ st = Statement(Delete, Text(ts, 3), partition, a)
    BY <1>10, DeleteShape
  <2>2. IsKey(partition)
    BY <1>4, <1>10, DeleteShape
  <2> HIDE DEF partition
  <2> QED
    BY <1>6, <2>1, <2>2
<1> QED
  BY <1>7, <1>8, <1>9, <1>10, ParsedBy DEF st, Accepted, Valid

--------------------------------------------------------------------------------
(* The inductive invariant.  What a client's thread or a torn line holds is *)
(* an accepted text of the environment; outside the rows that torn or       *)
(* failed appends were about, the log is what was answered, and memory is   *)
(* one statement ahead while its line is appended.                          *)

Written(r) == \E ts \in Texts(env) : Accepted(ts) /\ r = Request(Parse(ts), ts)
WrittenLine(line) ==
  \E ts \in Texts(env) :
    /\ Accepted(ts)
    /\ Parse(ts).kind \in LoggedKinds
    /\ line = LineOf(Request(Parse(ts), ts))

IsCall(k) ==
  k = [stage |-> k.stage, asked |-> k.asked, request |-> k.request, answer |-> k.answer]

Calls ==
  /\ IsFunction(call) /\ DOMAIN call = Client
  /\ \A c \in Client :
       /\ IsCall(call[c])
       /\ Stage(c, "sent") =>
            \E ts \in Texts(env) : call[c].request = Request(NotParsed, ts)
       /\ Stage(c, "valid") \/ Applied(c) => Written(call[c].request)
       /\ Applied(c) => call[c].request.kind \in LoggedKinds
       /\ Applied(c) <=> holder = c
  /\ holder \in Client \cup {Nobody}

Torn ==
  tail # NoTail =>
    /\ WrittenLine(tail.line)
    /\ tail.cut \in Cuts(tail.line)
    /\ "torn" \in env.faults
    /\ RowOf(ReadTorn(tail.line, tail.cut)) \in suspect

Spent ==
  /\ env \in Environments
  /\ spent \in [calls : 0 .. env.calls, crashes : 0 .. env.crashes]

Tables == IsTable(rows) /\ IsTable(logged) /\ IsTable(served)

LogAgrees == \A at : at \notin suspect => Agree(logged, served, at)

Ahead == IF holder \in Client THEN Effect(served, call[holder].request) ELSE served
MemoryAhead == \A at : at \notin suspect => Agree(rows, Ahead, at)

Stored == Calls /\ Torn /\ Spent /\ Tables /\ LogAgrees /\ MemoryAhead

LEMMA TextsAreText ==
  ASSUME Spent
  PROVE  \A ts \in Texts(env) : IsText(ts)
BY TextsAssumption DEF Spent

(* An accepted request, and its line *)
LEMMA WrittenIsKnown ==
  ASSUME NEW r, Written(r)
  PROVE  /\ KnownRequest(r) /\ r.kind \in {Select, Insert, Update, Delete}
         /\ SameRequest(r, r) /\ SameRequest(LineOf(r), r)
         /\ KnownRequest(LineOf(r))
<1>1. PICK ts : Accepted(ts) /\ r = Request(Parse(ts), ts)
  BY DEF Written
<1>2. KnownRequest(r) /\ r.kind \in {Select, Insert, Update, Delete}
  BY <1>1, ParsedIsKnown
<1>3. SameRequest(r, r) /\ SameRequest(LineOf(r), r)
  BY <1>1, LineIsSame DEF Accepted
<1>4. /\ LineOf(r).table = Lower(r.table) /\ LineOf(r).partition = r.partition
      /\ LineOf(r).kind = r.kind
  BY <1>1 DEF LineOf, Request
<1>5. KnownRequest(LineOf(r))
  BY <1>2, <1>4, LowerTwice DEF KnownRequest
<1> QED
  BY <1>2, <1>3, <1>5

LEMMA AgreeThrough ==
  /\ \A a, b, d, at : Agree(a, b, at) /\ Agree(b, d, at) => Agree(a, d, at)
  /\ \A a, b, at : Agree(a, b, at) => Agree(b, a, at)
  /\ \A a, at : Agree(a, a, at)
BY DEF Agree

LEMMA EmptyIsTable ==
  IsTable([at \in {} |-> NoRow])
BY DEF IsTable, IsFunction

(* A client's call moves on *)
LEMMA CallsKept ==
  ASSUME Calls, NEW c \in Client, NEW k, IsCall(k),
         call' = [call EXCEPT ![c] = k], env' = env,
         k.stage = "sent" => \E ts \in Texts(env) : k.request = Request(NotParsed, ts),
         k.stage \in {"valid", "applied"} => Written(k.request),
         k.stage = "applied" => k.request.kind \in LoggedKinds,
         \A d \in Client : holder' = d <=> IF d = c THEN k.stage = "applied" ELSE holder = d,
         holder' \in Client \cup {Nobody}
  PROVE  Calls'
<1>1. IsFunction(call') /\ DOMAIN call' = Client
  BY DEF Calls, IsFunction
<1>2. \A d \in Client : call'[d] = IF d = c THEN k ELSE call[d]
  BY DEF Calls
<1>3. ASSUME NEW d \in Client
      PROVE  /\ IsCall(call[d])'
             /\ Stage(d, "sent")' =>
                   (\E ts \in Texts(env) : call[d].request = Request(NotParsed, ts))'
             /\ Stage(d, "valid")' \/ Applied(d)' => Written(call[d].request)'
             /\ Applied(d)' => (call[d].request.kind \in LoggedKinds)'
             /\ Applied(d)' <=> (holder = d)'
  <2>1. CASE d = c
    BY <1>2, <2>1 DEF Stage, Applied, Written, IsCall
  <2>2. CASE d # c
    BY <1>2, <2>2 DEF Stage, Applied, Written, IsCall, Calls
  <2> QED
    BY <2>1, <2>2
<1> QED
  BY <1>1, <1>3 DEF Calls

WithRequest(k, stage, request) == [k EXCEPT !.stage = stage, !.request = request]
WithAnswer(k, stage, answer) == [k EXCEPT !.stage = stage, !.answer = answer]
WithStage(k, stage) == [k EXCEPT !.stage = stage]

LEMMA CallMoves ==
  ASSUME NEW k, IsCall(k), NEW stage, NEW request, NEW answer
  PROVE  /\ IsCall(WithRequest(k, stage, request)) /\ IsCall(WithAnswer(k, stage, answer))
         /\ IsCall(WithStage(k, stage))
         /\ WithRequest(k, stage, request).stage = stage
         /\ WithRequest(k, stage, request).request = request
         /\ WithAnswer(k, stage, answer).stage = stage
         /\ WithAnswer(k, stage, answer).request = k.request
         /\ WithStage(k, stage).stage = stage
<1> DEFINE a == k.stage
           b == k.asked
           q == k.request
           x == k.answer
<1>1. k = [stage |-> a, asked |-> b, request |-> q, answer |-> x]
  BY DEF IsCall
<1> HIDE DEF a, b, q, x
<1>2. WithRequest(k, stage, request) = [stage |-> stage, asked |-> b, request |-> request, answer |-> x]
  <2> DEFINE m == WithRequest(k, stage, request)
  <2>1. m = [k EXCEPT !.stage = stage, !.request = request]
    BY DEF WithRequest
  <2> HIDE DEF m
  <2>2. m = [stage |-> stage, asked |-> b, request |-> request, answer |-> x]
    BY <1>1, <2>1
  <2> QED
    BY <2>2 DEF m
<1>3. WithAnswer(k, stage, answer) = [stage |-> stage, asked |-> b, request |-> q, answer |-> answer]
  <2> DEFINE m == WithAnswer(k, stage, answer)
  <2>1. m = [k EXCEPT !.stage = stage, !.answer = answer]
    BY DEF WithAnswer
  <2> HIDE DEF m
  <2>2. m = [stage |-> stage, asked |-> b, request |-> q, answer |-> answer]
    BY <1>1, <2>1
  <2> QED
    BY <2>2 DEF m
<1>4. WithStage(k, stage) = [stage |-> stage, asked |-> b, request |-> q, answer |-> x]
  BY <1>1 DEF WithStage
<1> QED
  BY <1>1, <1>2, <1>3, <1>4 DEF IsCall

LEMMA NoCallIsCall ==
  IsCall(NoCall) /\ NoCall.stage = "none"
BY DEF NoCall, IsCall

LEMMA StoredInit ==
  Init => Stored
<1> SUFFICES ASSUME Init PROVE Stored
  OBVIOUS
<1>1. Calls
  <2>1. IsFunction(call) /\ DOMAIN call = Client
    BY DEF Init, IsFunction
  <2>2. \A c \in Client : call[c] = NoCall /\ holder # c
    BY TableStoreAssumption DEF Init
  <2> QED
    BY <2>1, <2>2, NoCallIsCall DEF Calls, Stage, Applied, Init
<1>2. Torn
  BY DEF Init, Torn
<1>3. Spent
  BY TableStoreAssumption DEF Init, Spent, IsEnvironment
<1>4. Tables
  BY EmptyIsTable DEF Init, Tables
<1>5. LogAgrees /\ MemoryAhead
  <2>1. Ahead = served
    BY TableStoreAssumption DEF Ahead, Init
  <2> QED
    BY <2>1, AgreeThrough DEF Init, LogAgrees, MemoryAhead
<1> QED
  BY <1>1, <1>2, <1>3, <1>4, <1>5 DEF Stored

(* Steps of a client that leave the tables and the log alone *)
LEMMA ClientSteps ==
  ASSUME Stored, NEW c \in Client, Submit(c) \/ Validate(c) \/ Return(c)
  PROVE  Stored'
<1>0. /\ UNCHANGED <<env, rows, logged, tail, holder, served, suspect>>
      /\ spent' = spent \/ (spent.calls < env.calls /\ spent' = [spent EXCEPT !.calls = @ + 1])
  BY DEF Submit, Validate, Return
<1>1. PICK k : /\ call' = [call EXCEPT ![c] = k] /\ IsCall(k)
               /\ k.stage = "sent" => \E ts \in Texts(env) : k.request = Request(NotParsed, ts)
               /\ k.stage = "valid" => Written(k.request)
               /\ k.stage # "applied" /\ call[c].stage # "applied"
  <2>1. CASE Submit(c)
    <3> DEFINE typed(st) == IF "typos" \in env.faults THEN Typos(Render(st)) ELSE {}
    <3>0. \A st \in env.statements :
            \A text \in {<<st, Render(st)>>} \cup { <<Garbled, ts>> : ts \in typed(st) } :
              text[2] \in Texts(env)
      <4> TAKE st \in env.statements
      <4>1. Render(st) \in Texts(env) /\ typed(st) \subseteq Texts(env)
        BY DEF Texts
      <4> HIDE DEF typed
      <4> QED
        BY <4>1
    <3>1. \E st \in env.statements :
            \E text \in {<<st, Render(st)>>} \cup { <<Garbled, ts>> : ts \in typed(st) } :
              call' = [call EXCEPT ![c] =
                        [stage |-> "sent", asked |-> text[1],
                         request |-> Request(NotParsed, text[2]), answer |-> NoAnswer]]
      BY <2>1 DEF Submit
    <3> HIDE DEF typed
    <3>2. PICK text : /\ text[2] \in Texts(env)
                      /\ call' = [call EXCEPT ![c] =
                            [stage |-> "sent", asked |-> text[1],
                             request |-> Request(NotParsed, text[2]), answer |-> NoAnswer]]
      BY <3>0, <3>1
    <3> DEFINE k == [stage |-> "sent", asked |-> text[1],
                     request |-> Request(NotParsed, text[2]), answer |-> NoAnswer]
    <3>3. IsCall(k) /\ k.stage = "sent" /\ k.request = Request(NotParsed, text[2])
      BY DEF IsCall
    <3>4. call[c].stage # "applied"
      BY <2>1 DEF Submit, Stage
    <3>5. call' = [call EXCEPT ![c] = k]
      BY <3>2
    <3> HIDE DEF k
    <3> QED
      BY <3>2, <3>3, <3>4, <3>5
  <2>2. CASE Validate(c)
    <3>1. PICK ts \in Texts(env) : call[c].request = Request(NotParsed, ts)
      BY <2>2 DEF Validate, Stored, Calls
    <3>2. call[c].request.sql = ts
      BY <3>1 DEF Request
    <3> DEFINE r == Request(Parse(ts), ts)
               refusal == Answer("UnsupportedSql", <<>>, NoRow)
               valid == WithRequest(call[c], "valid", r)
               refused == WithAnswer(call[c], "answered", refusal)
    <3>3. IsCall(call[c])
      BY DEF Stored, Calls
    <3>4. call' = [call EXCEPT ![c] = IF Valid(Parse(ts)) THEN valid ELSE refused]
      BY <2>2, <3>2 DEF Validate, Stored, Calls, WithRequest, WithAnswer
    <3> HIDE DEF r, refusal
    <3>5. IsCall(valid) /\ valid.stage = "valid" /\ valid.request = r
      BY <3>3, CallMoves
    <3>6. IsCall(refused) /\ refused.stage = "answered"
      BY <3>3, CallMoves
    <3>7. Valid(Parse(ts)) => Written(r)
      BY <3>1, TextsAreText DEF Written, Accepted, Stored, r
    <3>8. call[c].stage # "applied"
      BY <2>2 DEF Validate, Stage
    <3> HIDE DEF valid, refused
    <3> QED
      BY <3>4, <3>5, <3>6, <3>7, <3>8
  <2>3. CASE Return(c)
    BY <2>3, NoCallIsCall DEF Return, Stage
  <2> QED
    BY <2>1, <2>2, <2>3
<1>2. \A d \in Client : call'[d] = IF d = c THEN k ELSE call[d]
  BY <1>1 DEF Stored, Calls
<1>3. holder # c
  BY <1>1 DEF Stored, Calls, Applied, Stage
<1>4. Calls'
  BY <1>0, <1>1, <1>3, CallsKept DEF Stored, Calls
<1>5. Torn'
  BY <1>0 DEF Stored, Torn, WrittenLine
<1>6. Spent'
  <2>1. env.calls \in Nat /\ env.crashes \in Nat
    BY TableStoreAssumption DEF Stored, Spent, IsEnvironment
  <2> QED
    BY <1>0, <2>1 DEF Stored, Spent
<1>7. Tables' /\ LogAgrees'
  BY <1>0 DEF Stored, Tables, LogAgrees
<1>8. MemoryAhead'
  <2>1. Ahead' = Ahead
    BY <1>0, <1>2, <1>3 DEF Ahead
  <2> QED
    BY <1>0, <2>1 DEF Stored, MemoryAhead
<1> QED
  BY <1>4, <1>5, <1>6, <1>7, <1>8 DEF Stored

LEMMA UnloggedRequest ==
  ASSUME NEW rws, NEW r, r.kind \in {Select, Insert, Update, Delete},
         ~(Response(rws, r).status = "Ok" /\ r.kind \in LoggedKinds)
  PROVE  r.kind = Select \/ (r.kind = Update /\ ~In(rws, RowOf(r)))
<1>1. \A status, text, row : Answer(status, text, row).status = status
  BY DEF Answer
<1>2. r.kind \in LoggedKinds \/ r.kind = Select
  BY DEF LoggedKinds
<1>3. CASE r.kind = Insert
  <2>1. PICK text : Response(rws, r) = Answer("Ok", text, NoRow)
    BY <1>3 DEF Response, Insert, Update, Delete, Select
  <2> QED
    BY <1>1, <1>2, <2>1
<1>4. CASE r.kind = Delete
  <2>1. PICK text : Response(rws, r) = Answer("Ok", text, NoRow)
    BY <1>4 DEF Response, Insert, Update, Delete, Select
  <2> QED
    BY <1>1, <1>2, <2>1
<1>5. CASE r.kind = Update /\ RowOf(r) \in DOMAIN rws
  <2>1. PICK text : Response(rws, r) = Answer("Ok", text, NoRow)
    BY <1>5 DEF Response, Insert, Update, Delete, Select
  <2> QED
    BY <1>1, <1>2, <2>1
<1> QED
  BY <1>3, <1>4, <1>5 DEF In

LEMMA ExecuteStep ==
  ASSUME Stored, NEW c \in Client, Execute(c)
  PROVE  Stored'
<1> DEFINE r == call[c].request
           answer == Response(rows, r)
           logs == answer.status = "Ok" /\ r.kind \in LoggedKinds
           k == WithAnswer(call[c], IF logs THEN "applied" ELSE "answered", answer)
<1>1. /\ Written(r) /\ KnownRequest(r) /\ SameRequest(r, r) /\ r.kind \in {Select, Insert, Update, Delete}
  BY WrittenIsKnown DEF Stored, Calls, Execute
<1>2. holder = Nobody /\ holder \notin Client
  BY TableStoreAssumption DEF Execute, MutexFree
<1>3. /\ rows' = Effect(rows, r)
      /\ holder' = IF logs THEN c ELSE Nobody
      /\ served' = IF logs THEN served ELSE Effect(served, r)
      /\ UNCHANGED <<env, logged, tail, suspect, spent>>
  BY DEF Execute
<1>4. call' = [call EXCEPT ![c] = k]
  <2> DEFINE stage == IF logs THEN "applied" ELSE "answered"
  <2>1. call' = [call EXCEPT ![c].stage = stage, ![c].answer = answer]
    BY DEF Execute
  <2> HIDE DEF answer, stage
  <2>2. call' = [call EXCEPT ![c] = WithAnswer(call[c], stage, answer)]
    BY <2>1 DEF WithAnswer, Stored, Calls
  <2> QED
    BY <2>2 DEF stage
<1>5. IsCall(k) /\ k.stage = (IF logs THEN "applied" ELSE "answered") /\ k.request = r
  <2>1. IsCall(call[c])
    BY DEF Stored, Calls
  <2> HIDE DEF answer, logs
  <2> QED
    BY <2>1, CallMoves
<1> HIDE DEF k
<1>6. r.kind = Select \/ (r.kind = Update /\ ~In(rows, RowOf(r))) \/ logs
  BY <1>1, UnloggedRequest
<1> HIDE DEF answer
<1>7. Calls'
  <2>1. k.stage = "applied" => r.kind \in LoggedKinds
    BY <1>5
  <2> HIDE DEF logs
  <2>2. \A d \in Client : holder' = d <=> IF d = c THEN k.stage = "applied" ELSE holder = d
    BY <1>2, <1>3, <1>5
  <2>3. holder' \in Client \cup {Nobody}
    BY <1>3
  <2> QED
    BY <1>1, <1>3, <1>4, <1>5, <2>1, <2>2, <2>3, CallsKept DEF Stored
<1> HIDE DEF logs
<1>8. Ahead = served /\ Ahead' = Effect(served, r)
  <2>1. call'[c].request = r
    BY <1>4, <1>5 DEF Stored, Calls
  <2> HIDE DEF r
  <2> QED
    BY <1>2, <1>3, <2>1 DEF Ahead
<1> HIDE DEF r
<1>9. IsFunction(rows) /\ IsFunction(served)
  BY DEF Stored, Tables, IsTable
<1>10. MemoryAhead'
  <2>1. \A at : at \notin suspect => Agree(Effect(rows, r), Effect(served, r), at)
    BY <1>1, <1>8, <1>9, EffectsAgree DEF Stored, MemoryAhead
  <2> QED
    BY <1>3, <1>8, <2>1 DEF MemoryAhead
<1>11. LogAgrees'
  <2> SUFFICES ASSUME NEW at, at \notin suspect
               PROVE  Agree(logged, served', at)
    BY <1>3 DEF LogAgrees
  <2>1. Agree(logged, served, at) /\ Agree(rows, served, at)
    BY <1>8 DEF Stored, LogAgrees, MemoryAhead
  <2>2. CASE logs
    BY <1>3, <2>1, <2>2
  <2>3. CASE at # RowOf(r)
    <3>1. Agree(Effect(served, r), served, at)
      BY <1>9, <2>3, EffectElsewhere
    <3> QED
      BY <1>3, <2>1, <3>1, AgreeThrough
  <2>4. CASE at = RowOf(r) /\ ~logs
    <3>1. r.kind = Select \/ (r.kind = Update /\ ~In(served, RowOf(r)))
      BY <1>6, <2>1, <2>4 DEF Agree
    <3>2. Effect(served, r) = served
      BY <3>1 DEF Effect, In, Select, Insert, Update, Delete
    <3> QED
      BY <1>3, <2>1, <2>4, <3>2
  <2> QED
    BY <2>2, <2>3, <2>4
<1>12. Tables'
  BY <1>1, <1>3, EffectIsTable DEF Stored, Tables
<1>13. Torn' /\ Spent'
  BY <1>3 DEF Stored, Torn, WrittenLine, Spent
<1> QED
  BY <1>7, <1>10, <1>11, <1>12, <1>13 DEF Stored

(* The part of an append that is the same whatever becomes of the line *)
LEMMA AnswerLoggedStep ==
  ASSUME Stored, NEW c \in Client, AnswerLogged(c)
  PROVE  /\ Calls' /\ Spent' /\ IsTable(rows)' /\ IsTable(served)'
         /\ Written(call[c].request) /\ call[c].request.kind \in LoggedKinds
         /\ served' = Effect(served, call[c].request) /\ Ahead' = served'
         /\ \A at : at \notin suspect => Agree(rows', served', at)
         /\ \A at : at \notin suspect /\ at # RowOf(call[c].request) => Agree(logged, served', at)
<1> DEFINE r == call[c].request
           k == WithStage(call[c], "answered")
<1>1. /\ holder = c /\ call[c].stage = "applied" /\ Written(r) /\ r.kind \in LoggedKinds /\ IsCall(call[c])
  BY DEF AnswerLogged, Stored, Calls, Applied, Stage
<1>2. /\ holder' = Nobody /\ holder' \notin Client
      /\ served' = Effect(served, r)
      /\ UNCHANGED <<env, rows, spent>>
  BY TableStoreAssumption DEF AnswerLogged
<1>3. call' = [call EXCEPT ![c] = k] /\ IsCall(k) /\ k.stage = "answered"
  BY <1>1, CallMoves DEF AnswerLogged, WithStage, Stored, Calls
<1>4. KnownRequest(r)
  BY <1>1, WrittenIsKnown
<1> HIDE DEF k
<1>5. Calls'
  <2>1. \A d \in Client : holder' = d <=> IF d = c THEN k.stage = "applied" ELSE holder = d
    BY <1>1, <1>2, <1>3
  <2> QED
    BY <1>2, <1>3, <2>1, CallsKept DEF Stored
<1>6. Ahead = Effect(served, r) /\ Ahead' = served'
  BY <1>1, <1>2 DEF Ahead
<1>7. Spent'
  BY <1>2 DEF Stored, Spent
<1>8. IsTable(rows') /\ IsTable(served')
  BY <1>2, <1>4, EffectIsTable DEF Stored, Tables
<1>9. \A at : at \notin suspect => Agree(rows', served', at)
  BY <1>2, <1>6 DEF Stored, MemoryAhead
<1>10. \A at : at \notin suspect /\ at # RowOf(r) => Agree(logged, served', at)
  <2> TAKE at
  <2> HAVE at \notin suspect /\ at # RowOf(r)
  <2>1. Agree(logged, served, at)
    BY DEF Stored, LogAgrees
  <2>2. Agree(Effect(served, r), served, at)
    BY EffectElsewhere DEF Stored, Tables, IsTable
  <2> QED
    BY <1>2, <2>1, <2>2, AgreeThrough
<1> QED
  BY <1>1, <1>2, <1>5, <1>6, <1>7, <1>8, <1>9, <1>10

(* The line a request is logged as *)
LEMMA LineIsWritten ==
  ASSUME NEW c \in Client, Written(call[c].request), call[c].request.kind \in LoggedKinds
  PROVE  /\ WrittenLine(Line(c)) /\ KnownRequest(Line(c))
         /\ SameRequest(Line(c), call[c].request)
         /\ RowOf(Line(c)) = RowOf(call[c].request)
<1>1. PICK ts \in Texts(env) : Accepted(ts) /\ call[c].request = Request(Parse(ts), ts)
  BY DEF Written
<1>2. Parse(ts).kind \in LoggedKinds
  BY <1>1 DEF Request
<1>3. WrittenLine(Line(c))
  BY <1>1, <1>2 DEF WrittenLine, Line
<1> QED
  BY <1>3, WrittenIsKnown DEF Line, SameRequest

IsRequest(r) ==
  r = [kind |-> r.kind, table |-> r.table, partition |-> r.partition,
       aggregate |-> r.aggregate, sql |-> r.sql]

LEMMA KnownLine ==
  ASSUME NEW line, WrittenLine(line)
  PROVE  /\ KnownRequest(line) /\ line.kind \in LoggedKinds /\ IsRequest(line)
         /\ line.table \in DOMAIN DistributionKey
         /\ Len(line.sql) \in Nat
<1>1. PICK ts : Accepted(ts) /\ Parse(ts).kind \in LoggedKinds /\ line = LineOf(Request(Parse(ts), ts))
  BY DEF WrittenLine
<1> DEFINE st == Parse(ts)
<1>2. line = [kind |-> st.kind, table |-> Lower(st.table), partition |-> st.partition,
              aggregate |-> st.aggregate, sql |-> Sanitized(ts)]
  <2> DEFINE r == Request(st, ts)
             k == st.kind
             t == st.table
             p == st.partition
             a == st.aggregate
             lower == Lower(st.table)
             flat == Sanitized(ts)
  <2> HIDE DEF st
  <2>1. r = [kind |-> k, table |-> t, partition |-> p, aggregate |-> a, sql |-> ts]
    BY DEF Request
  <2>2. line = [r EXCEPT !.table = lower, !.sql = flat]
    BY <1>1 DEF LineOf, Request, st
  <2> HIDE DEF r, k, t, p, a, lower, flat
  <2>3. line = [kind |-> k, table |-> lower, partition |-> p, aggregate |-> a, sql |-> flat]
    BY <2>1, <2>2
  <2> QED
    BY <2>3 DEF k, lower, p, a, flat
<1>3. IsRequest(line) /\ line.kind = st.kind
  BY <1>2 DEF IsRequest
<1>4. Len(line.sql) \in Nat
  BY <1>1, <1>2, SanitizedTokens DEF Accepted
<1>5. KnownRequest(Request(Parse(ts), ts))
  BY <1>1, ParsedIsKnown
<1>6. KnownRequest(line) /\ line.table \in DOMAIN DistributionKey
  BY <1>2, <1>5, LowerTwice DEF KnownRequest, Request
<1> QED
  BY <1>1, <1>3, <1>4, <1>6

(* A torn line is read as a request about a row of the program, or none *)
LEMMA CutKinds ==
  ASSUME NEW line, line.partition \in 0 .. KeyMax, NEW cut \in Cuts(line)
  PROVE  \/ cut[1] = "kind"
         \/ cut[1] = "table" /\ cut[2] \in Beginnings[line.table]
         \/ cut[1] = "key" /\ cut[2] \in 0 .. KeyMax
         \/ cut[1] = "text" /\ cut[2] \in 0 .. Len(line.sql)
<1> DEFINE p == line.partition
<1>1. p \in Nat /\ p <= KeyMax /\ KeyMax \in Nat
  BY TableStoreAssumption
<1> HIDE DEF p
<1>2. \A m \in Magnitudes : p \div m \in Nat /\ p \div m <= p
  BY <1>1 DEF Magnitudes
<1>3. \A m \in Magnitudes : p \div m \in 0 .. KeyMax
  BY <1>1, <1>2
<1>4. 0 \in 0 .. KeyMax
  BY <1>1
<1> QED
  BY <1>3, <1>4 DEF Cuts, p

(* A torn name is one of those that torn lines leave, in lower case *)
LEMMA TornNamesKnown ==
  /\ \A name \in TornNames : Lower(name) = name
  /\ Empty \in TornNames
  /\ \A table \in DOMAIN DistributionKey : \A name \in Beginnings[table] :
       /\ name \in TornNames
       /\ \A kind \in {Insert, Update, Delete} : Continued[<<name, kind>>] \in TornNames
<1>1. \A name \in TornNames : Lower(name) = name
  BY TableStoreAssumption DEF Lower
<1>2. Empty \in TornNames
  BY DEF TornNames
<1>3. ASSUME NEW table \in DOMAIN DistributionKey, NEW name \in Beginnings[table]
      PROVE  /\ name \in TornNames
             /\ \A kind \in {Insert, Update, Delete} : Continued[<<name, kind>>] \in TornNames
  <2>1. name \in TornNames
    BY DEF TornNames
  <2>2. ASSUME NEW kind \in {Insert, Update, Delete}
        PROVE  Continued[<<name, kind>>] \in TornNames
    <3>1. {name} \X {Insert, Update, Delete} \subseteq DOMAIN Continued
      BY TableStoreAssumption
    <3>2. <<name, kind>> \in DOMAIN Continued
      BY <3>1
    <3>3. Continued[<<name, kind>>] \in { Continued[x] : x \in DOMAIN Continued }
      BY <3>2
    <3> QED
      BY <3>3 DEF TornNames
  <2> QED
    BY <2>1, <2>2
<1> QED
  BY <1>1, <1>2, <1>3

LEMMA FactsAre ==
  ASSUME NEW line, IsRequest(line), NEW name, NEW key
  PROVE  LET facts == FactsOnly(line, name, key)
         IN  facts.kind = line.kind /\ RowOf(facts) = <<Lower(name), key>> /\ facts.sql = <<>>
<1> DEFINE k == line.kind
           t == line.table
           p == line.partition
           a == line.aggregate
           q == line.sql
           facts == FactsOnly(line, name, key)
<1>1. line = [kind |-> k, table |-> t, partition |-> p, aggregate |-> a, sql |-> q]
  BY DEF IsRequest
<1>2. facts = [line EXCEPT !.table = name, !.partition = key, !.sql = <<>>]
  BY DEF FactsOnly
<1> HIDE DEF k, t, p, a, q, facts
<1>3. facts.kind = k /\ facts.table = name /\ facts.partition = key /\ facts.sql = <<>>
  BY <1>1, <1>2
<1> QED
  BY <1>3 DEF RowOf, facts, k

LEMMA TornIsKnown ==
  ASSUME NEW line, WrittenLine(line), NEW cut \in Cuts(line),
         NEW next, KnownRequest(next), next.kind \in LoggedKinds
  PROVE  LET read == ReadTorn(line, cut)
             glued == Glued([line |-> line, cut |-> cut], next)
         IN  /\ ReadRequest(read)
             /\ ReadRequest(glued) \/ glued.kind # Insert
<1> DEFINE t == line.table
           p == line.partition
           q == line.sql
           k == line.kind
           a == line.aggregate
           torn == [line |-> line, cut |-> cut]
           read == ReadTorn(line, cut)
           glued == Glued(torn, next)
<1>1. /\ KnownRequest(line) /\ IsRequest(line) /\ t \in DOMAIN DistributionKey
      /\ Len(line.sql) \in Nat
  BY KnownLine
<1>2. torn.line = line /\ torn.cut = cut
  OBVIOUS
<1>3. /\ Lower(t) \in DOMAIN DistributionKey /\ p \in 0 .. KeyMax
      /\ KeyMax \in Nat /\ next.kind \in {1, 2, 3}
  BY <1>1, TableStoreAssumption DEF KnownRequest, LoggedKinds, Insert, Update, Delete
<1>4. line = [kind |-> k, table |-> t, partition |-> p, aggregate |-> a, sql |-> q]
  BY <1>1 DEF IsRequest
<1>5. 0 \in 0 .. KeyMax /\ KeyMax \in 0 .. KeyMax
  BY <1>3
<1>6. ASSUME NEW r, NEW name, NEW key \in 0 .. KeyMax, RowOf(r) = <<Lower(name), key>>,
             name \in TornNames \/ Lower(name) \in DOMAIN DistributionKey
      PROVE  ReadRequest(r)
  BY <1>6, TornNamesKnown DEF ReadRequest, KnownRows, TornRows
<1> HIDE DEF torn, read, glued, t, k, p, a, q
<1>7. CASE cut[1] = "kind"
  <2>1. read = FactsOnly(line, Empty, 0) /\ glued = Nothing
    BY <1>2, <1>7 DEF read, glued, ReadTorn, Glued
  <2>2. RowOf(read) = <<Lower(Empty), 0>>
    BY <1>1, <2>1, FactsAre
  <2>3. Nothing.kind # Insert
    BY DEF Nothing, Select, Insert
  <2> QED
    BY <1>5, <1>6, <2>1, <2>2, <2>3, TornNamesKnown DEF read, glued, torn
<1>8. CASE cut[1] = "table" /\ cut[2] \in Beginnings[t]
  <2> DEFINE longer == Continued[<<cut[2], next.kind>>]
  <2>1. read = FactsOnly(line, cut[2], 0) /\ glued = FactsOnly(line, longer, 0)
    BY <1>2, <1>8 DEF read, glued, ReadTorn, Glued
  <2>2. cut[2] \in TornNames /\ longer \in TornNames
    BY <1>1, <1>8, TornNamesKnown DEF LoggedKinds
  <2> HIDE DEF longer
  <2>3. RowOf(read) = <<Lower(cut[2]), 0>> /\ RowOf(glued) = <<Lower(longer), 0>>
    BY <1>1, <2>1, FactsAre
  <2> QED
    BY <1>5, <1>6, <2>2, <2>3 DEF read, glued, torn
<1>9. CASE cut[1] = "key" /\ cut[2] \in 0 .. KeyMax
  <2> DEFINE text == <<Id(next.table), Num(next.partition)>> \o next.sql
             key == cut[2] * 10 + next.kind
  <2>1. read = FactsOnly(line, t, cut[2])
    BY <1>9 DEF read, ReadTorn, t
  <2>2. glued = IF key <= KeyMax THEN [line EXCEPT !.partition = key, !.sql = text]
                                ELSE FactsOnly(line, t, KeyMax)
    BY <1>2, <1>9 DEF glued, Glued, GluedKey, t
  <2>3. key \in Nat
    BY <1>3, <1>9
  <2> HIDE DEF text, key
  <2>4. RowOf(read) = <<Lower(t), cut[2]>>
    BY <1>1, <2>1, FactsAre
  <2>5. CASE key <= KeyMax
    <3>1. glued = [line EXCEPT !.partition = key, !.sql = text]
      BY <2>2, <2>5
    <3>2. glued.table = t /\ glued.partition = key
      BY <1>4, <3>1
    <3>3. key \in 0 .. KeyMax
      BY <1>3, <2>3, <2>5
    <3>4. RowOf(glued) = <<Lower(t), key>>
      BY <3>2 DEF RowOf
    <3> QED
      BY <1>3, <1>6, <1>9, <2>4, <3>3, <3>4 DEF read, glued, torn
  <2>6. CASE ~(key <= KeyMax)
    <3>1. RowOf(glued) = <<Lower(t), KeyMax>>
      BY <1>1, <2>2, <2>6, FactsAre
    <3> QED
      BY <1>3, <1>5, <1>6, <1>9, <2>4, <3>1 DEF read, glued, torn
  <2> QED
    BY <2>5, <2>6
<1>10. CASE cut[1] = "text"
  <2> DEFINE short == SubSeq(q, 1, cut[2])
             text == short \o <<Num(next.kind), Id(next.table), Num(next.partition)>> \o next.sql
  <2>1. read = [line EXCEPT !.sql = short]
    BY <1>10 DEF read, ReadTorn, q
  <2>2. glued = [line EXCEPT !.sql = text]
    BY <1>2, <1>10 DEF glued, Glued, q
  <2> HIDE DEF text, short
  <2>3. /\ read.table = t /\ read.partition = p
        /\ glued.table = t /\ glued.partition = p
    BY <1>4, <2>1, <2>2
  <2>4. RowOf(read) = <<Lower(t), p>> /\ RowOf(glued) = <<Lower(t), p>>
    BY <2>3 DEF RowOf
  <2> QED
    BY <1>3, <1>6, <2>4 DEF read, glued, torn
<1> QED
  BY <1>1, <1>3, <1>7, <1>8, <1>9, <1>10, CutKinds DEF t, p

IsTorn(torn, S) ==
  /\ WrittenLine(torn.line)
  /\ torn.cut \in Cuts(torn.line)
  /\ RowOf(ReadTorn(torn.line, torn.cut)) \in S

LEMMA ReplayAgrees ==
  ASSUME NEW rws, IsTable(rws), NEW torn, NEW S, torn # NoTail => IsTorn(torn, S)
  PROVE  /\ IsTable(ReplayWal(rws, torn))
         /\ \A at : at \notin S => Agree(ReplayWal(rws, torn), rws, at)
<1>1. CASE torn = NoTail
  BY <1>1, AgreeThrough DEF ReplayWal
<1>2. CASE torn # NoTail
  <2> DEFINE read == ReadTorn(torn.line, torn.cut)
  <2>1. ReplayWal(rws, torn) = Effect(rws, read)
    BY <1>2 DEF ReplayWal
  <2>2. ReadRequest(read)
    BY <1>2, KnownLine, TornIsKnown DEF IsTorn
  <2>3. \A at : at \notin S => at # RowOf(read)
    BY <1>2 DEF IsTorn
  <2>4. \A at : at # RowOf(read) => Agree(Effect(rws, read), rws, at)
    BY EffectElsewhere DEF IsTable
  <2> QED
    BY <2>1, <2>2, <2>3, <2>4, EffectIsTable
<1> QED
  BY <1>1, <1>2

LEMMA AppendWholeStep ==
  ASSUME Stored, NEW c \in Client, AppendWhole(c)
  PROVE  Stored'
<1> DEFINE r == call[c].request
           line == Line(c)
<1>1. /\ Calls' /\ Spent' /\ IsTable(rows)' /\ IsTable(served)'
      /\ Written(r) /\ r.kind \in LoggedKinds
      /\ served' = Effect(served, r) /\ Ahead' = served'
      /\ \A at : at \notin suspect => Agree(rows', served', at)
      /\ \A at : at \notin suspect /\ at # RowOf(r) => Agree(logged, served', at)
  BY AnswerLoggedStep DEF AppendWhole
<1>2. /\ WrittenLine(line) /\ KnownRequest(line) /\ SameRequest(line, r) /\ RowOf(line) = RowOf(r)
  BY <1>1, LineIsWritten
<1>3. /\ logged' = Extended(logged, tail, line) /\ tail' = NoTail
      /\ suspect' = IF tail = NoTail THEN suspect
                     ELSE suspect \cup {RowOf(line), RowOf(Glued(tail, line))}
  BY DEF AppendWhole
<1>4. IsTable(logged) /\ IsTable(served) /\ IsFunction(logged) /\ IsFunction(served)
  BY DEF Stored, Tables, IsTable
<1> HIDE DEF r, line
<1>5. IsTable(logged') /\ LogAgrees'
  <2>1. CASE tail = NoTail
    <3>1. logged' = Effect(logged, line) /\ suspect' = suspect
      BY <1>3, <2>1 DEF Extended
    <3>2. \A at : at \notin suspect => Agree(Effect(logged, line), Effect(served, r), at)
      BY <1>2, <1>4, EffectsAgree DEF Stored, LogAgrees
    <3> QED
      BY <1>1, <1>2, <1>4, <3>1, <3>2, EffectIsTable DEF LogAgrees
  <2>2. CASE tail # NoTail
    <3> DEFINE glued == Glued(tail, line)
    <3>1. logged' = Effect(logged, glued)
      BY <1>3, <2>2 DEF Extended
    <3>2. ReadRequest(glued) \/ glued.kind # Insert
      <4> DEFINE torn == [line |-> tail.line, cut |-> tail.cut]
      <4>1. ReadRequest(Glued(torn, line)) \/ Glued(torn, line).kind # Insert
        BY <1>2, <2>2, KnownLine, TornIsKnown DEF Stored, Torn
      <4>2. Glued(torn, line) = glued
        BY DEF Glued, GluedKey
      <4> QED
        BY <4>1, <4>2
    <3> HIDE DEF glued
    <3>3. ASSUME NEW at, at \notin suspect'
          PROVE  Agree(logged', served', at)
      <4>1. at # RowOf(r) /\ at # RowOf(glued) /\ at \notin suspect
        BY <1>2, <1>3, <2>2, <3>3 DEF glued
      <4>2. Agree(logged', logged, at)
        BY <1>4, <3>1, <4>1, EffectElsewhere
      <4> QED
        BY <1>1, <4>1, <4>2, AgreeThrough
    <3> QED
      BY <1>4, <3>1, <3>2, <3>3, EffectIsTable DEF LogAgrees
  <2> QED
    BY <2>1, <2>2
<1>6. MemoryAhead'
  <2>1. \A at : at \notin suspect' => at \notin suspect
    BY <1>3
  <2> QED
    BY <1>1, <2>1 DEF MemoryAhead
<1>7. Torn'
  BY <1>3 DEF Torn
<1> QED
  BY <1>1, <1>5, <1>6, <1>7 DEF Stored, Tables

LEMMA AppendNothingStep ==
  ASSUME Stored, NEW c \in Client, AppendNothing(c)
  PROVE  Stored'
<1> DEFINE r == call[c].request
<1>1. /\ Calls' /\ Spent' /\ IsTable(rows)' /\ IsTable(served)'
      /\ Written(r) /\ r.kind \in LoggedKinds /\ Ahead' = served'
      /\ \A at : at \notin suspect => Agree(rows', served', at)
      /\ \A at : at \notin suspect /\ at # RowOf(r) => Agree(logged, served', at)
  BY AnswerLoggedStep DEF AppendNothing
<1>2. /\ logged' = logged /\ tail' = tail /\ suspect' = suspect \cup {RowOf(r)} /\ env' = env
  BY <1>1, LineIsWritten DEF AppendNothing, AnswerLogged
<1> HIDE DEF r
<1>3. LogAgrees' /\ MemoryAhead'
  BY <1>1, <1>2 DEF LogAgrees, MemoryAhead
<1>4. Torn'
  BY <1>2 DEF Stored, Torn, WrittenLine
<1>5. Tables'
  BY <1>1, <1>2 DEF Stored, Tables
<1> QED
  BY <1>1, <1>3, <1>4, <1>5 DEF Stored

LEMMA TearStep ==
  ASSUME Stored, NEW c \in Client, NEW cut \in Cuts(Line(c)), Tear(c, cut), env' = env,
         WrittenLine(Line(c))
  PROVE  /\ Torn'
         /\ tail' # NoTail => IsTorn(tail', suspect')
         /\ suspect \subseteq suspect' /\ RowOf(Line(c)) \in suspect'
<1>1. /\ "torn" \in env.faults /\ tail' = [line |-> Line(c), cut |-> cut]
      /\ suspect' = suspect \cup {RowOf(Line(c)), RowOf(ReadTorn(Line(c), cut))}
  BY DEF Tear
<1>2. tail'.line = Line(c) /\ tail'.cut = cut
  BY <1>1
<1>3. IsTorn(tail', suspect')
  BY <1>1, <1>2 DEF IsTorn
<1>4. Torn'
  BY <1>1, <1>3 DEF Torn, IsTorn, WrittenLine
<1> QED
  BY <1>1, <1>3, <1>4

LEMMA AppendPartStep ==
  ASSUME Stored, NEW c \in Client, AppendPart(c)
  PROVE  Stored'
<1> DEFINE r == call[c].request
<1>1. /\ Calls' /\ Spent' /\ IsTable(rows)' /\ IsTable(served)'
      /\ Written(r) /\ r.kind \in LoggedKinds /\ Ahead' = served'
      /\ \A at : at \notin suspect => Agree(rows', served', at)
      /\ \A at : at \notin suspect /\ at # RowOf(r) => Agree(logged, served', at)
  BY AnswerLoggedStep DEF AppendPart
<1>2. PICK cut \in Cuts(Line(c)) : Tear(c, cut)
  BY DEF AppendPart
<1>3. WrittenLine(Line(c)) /\ RowOf(Line(c)) = RowOf(r)
  BY <1>1, LineIsWritten
<1>4. env' = env /\ logged' = logged
  BY <1>2 DEF AppendPart, AnswerLogged, Tear
<1>5. Torn' /\ suspect \subseteq suspect' /\ RowOf(r) \in suspect'
  BY <1>2, <1>3, <1>4, TearStep
<1> HIDE DEF r
<1>6. LogAgrees' /\ MemoryAhead'
  BY <1>1, <1>4, <1>5 DEF LogAgrees, MemoryAhead
<1>7. Tables'
  BY <1>1, <1>4 DEF Stored, Tables
<1> QED
  BY <1>1, <1>5, <1>6, <1>7 DEF Stored

(* A crash, in an append or not *)
LEMMA RestartStep ==
  ASSUME Stored, Restart, Torn', suspect \subseteq suspect',
         tail' # NoTail => IsTorn(tail', suspect')
  PROVE  Stored'
<1>1. /\ spent.crashes < env.crashes /\ spent' = [spent EXCEPT !.crashes = @ + 1]
      /\ rows' = ReplayWal(logged, tail') /\ holder' = Nobody
      /\ call' = [c \in Client |-> NoCall]
      /\ UNCHANGED <<env, logged, served>>
  BY DEF Restart
<1>2. Calls'
  <2>1. IsFunction(call') /\ DOMAIN call' = Client
    BY <1>1 DEF IsFunction
  <2>2. \A c \in Client : call'[c] = NoCall /\ holder' # c
    BY <1>1, TableStoreAssumption
  <2> QED
    BY <1>1, <2>1, <2>2, NoCallIsCall DEF Calls, Stage, Applied
<1>3. Spent'
  <2>1. env.calls \in Nat /\ env.crashes \in Nat
    BY TableStoreAssumption DEF Stored, Spent, IsEnvironment
  <2> QED
    BY <1>1, <2>1 DEF Stored, Spent
<1>4. IsTable(rows') /\ \A at : at \notin suspect' => Agree(rows', logged, at)
  BY <1>1, ReplayAgrees DEF Stored, Tables
<1>5. Tables'
  BY <1>1, <1>4 DEF Stored, Tables
<1>6. \A at : at \notin suspect' => Agree(logged, served, at)
  BY DEF Stored, LogAgrees
<1>7. LogAgrees'
  BY <1>1, <1>6 DEF LogAgrees
<1>8. MemoryAhead'
  <2>1. Ahead' = served
    BY <1>1, TableStoreAssumption DEF Ahead
  <2> QED
    BY <1>4, <1>6, <2>1, AgreeThrough DEF MemoryAhead
<1> QED
  BY <1>2, <1>3, <1>5, <1>7, <1>8 DEF Stored

LEMMA CrashStep ==
  ASSUME Stored, Crash
  PROVE  Stored'
<1>1. Restart /\ tail' = tail /\ suspect' = suspect /\ env' = env
  BY DEF Crash, Restart
<1>2. Torn' /\ (tail' # NoTail => IsTorn(tail', suspect'))
  BY <1>1 DEF Stored, Torn, WrittenLine, IsTorn
<1> QED
  BY <1>1, <1>2, RestartStep

LEMMA CrashInAppendStep ==
  ASSUME Stored, NEW c \in Client, CrashInAppend(c)
  PROVE  Stored'
<1>1. PICK cut \in Cuts(Line(c)) : Tear(c, cut)
  BY DEF CrashInAppend
<1>2. Applied(c) /\ Restart /\ env' = env
  BY DEF CrashInAppend, Applied, Restart
<1>3. WrittenLine(Line(c))
  BY <1>2, LineIsWritten DEF Stored, Calls
<1>4. Torn' /\ suspect \subseteq suspect' /\ (tail' # NoTail => IsTorn(tail', suspect'))
  BY <1>1, <1>2, <1>3, TearStep
<1> QED
  BY <1>2, <1>4, RestartStep

LEMMA StoredNext ==
  Stored /\ [Next]_vars => Stored'
<1> SUFFICES ASSUME Stored, [Next]_vars PROVE Stored'
  OBVIOUS
<1>1. ASSUME NEW c \in Client, Submit(c) \/ Validate(c) \/ Return(c)
      PROVE  Stored'
  BY <1>1, ClientSteps
<1>2. ASSUME NEW c \in Client, Execute(c)
      PROVE  Stored'
  BY <1>2, ExecuteStep
<1>3. ASSUME NEW c \in Client, AppendWhole(c)
      PROVE  Stored'
  BY <1>3, AppendWholeStep
<1>4. ASSUME NEW c \in Client, AppendNothing(c)
      PROVE  Stored'
  BY <1>4, AppendNothingStep
<1>5. ASSUME NEW c \in Client, AppendPart(c)
      PROVE  Stored'
  BY <1>5, AppendPartStep
<1>6. ASSUME NEW c \in Client, CrashInAppend(c)
      PROVE  Stored'
  BY <1>6, CrashInAppendStep
<1>7. CASE Crash
  BY <1>7, CrashStep
<1>8. CASE UNCHANGED vars
  <2>1. /\ Calls' = Calls /\ Torn' = Torn /\ Spent' = Spent /\ Tables' = Tables
    BY <1>8 DEF vars, Calls, Torn, Spent, Tables, Stage, Applied, Written, WrittenLine
  <2>2. LogAgrees' /\ MemoryAhead'
    BY <1>8 DEF vars, Stored, LogAgrees, MemoryAhead, Ahead
  <2> QED
    BY <2>1, <2>2 DEF Stored
<1> QED
  BY <1>1, <1>2, <1>3, <1>4, <1>5, <1>6, <1>7, <1>8 DEF Next

(* The storage of a node always satisfies it: whatever texts its clients    *)
(* write, however their threads interleave, and however it crashes or tears *)
(* its log. (TableStoreExecutor.)                                           *)
THEOREM TableStoreStored ==
  Spec => []Stored
BY StoredInit, StoredNext, PTL DEF Spec

(* What was answered is about known tables only *)
ServedKnown == DOMAIN served \subseteq KnownRows

LEMMA ServedKnownNext ==
  Stored /\ ServedKnown /\ [Next]_vars => ServedKnown'
<1> SUFFICES ASSUME Stored, ServedKnown, [Next]_vars PROVE ServedKnown'
  OBVIOUS
<1>1. ASSUME NEW c \in Client, Written(call[c].request), served' = Effect(served, call[c].request)
      PROVE  ServedKnown'
  <2>1. RowOf(call[c].request) \in KnownRows
    BY <1>1, WrittenIsKnown, KnownIsRead
  <2>2. IsFunction(served)
    BY DEF Stored, Tables, IsTable
  <2> QED
    BY <1>1, <2>1, <2>2, EffectRows DEF ServedKnown
<1>2. CASE served' = served
  BY <1>2 DEF ServedKnown
<1>3. ASSUME NEW c \in Client, Execute(c)
      PROVE  ServedKnown'
  <2>1. Written(call[c].request)
    BY <1>3 DEF Execute, Stored, Calls
  <2>2. served' = served \/ served' = Effect(served, call[c].request)
    BY <1>3 DEF Execute
  <2> QED
    BY <1>1, <1>2, <2>1, <2>2
<1>4. ASSUME NEW c \in Client, AnswerLogged(c)
      PROVE  ServedKnown'
  <2>1. Written(call[c].request) /\ served' = Effect(served, call[c].request)
    BY <1>4, AnswerLoggedStep
  <2> QED
    BY <1>1, <2>1
<1>5. ASSUME NEW c \in Client, Submit(c) \/ Validate(c) \/ Return(c)
      PROVE  served' = served
  BY <1>5 DEF Submit, Validate, Return
<1>6. ASSUME NEW c \in Client, AppendWhole(c) \/ AppendNothing(c) \/ AppendPart(c)
      PROVE  AnswerLogged(c)
  BY <1>6 DEF AppendWhole, AppendNothing, AppendPart
<1>7. ASSUME NEW c \in Client, CrashInAppend(c) \/ Crash
      PROVE  served' = served
  BY <1>7 DEF CrashInAppend, Crash, Restart
<1>8. CASE Crash
  BY <1>2, <1>8 DEF Crash, Restart
<1>9. CASE UNCHANGED vars
  BY <1>2, <1>9 DEF vars
<1> QED
  BY <1>2, <1>3, <1>4, <1>5, <1>6, <1>7, <1>8, <1>9 DEF Next

(* The rows in memory, in the log and of the answered statements have a key *)
(* of 32 bits and a known table, or a name that a torn line left; requests  *)
(* that passed the validator are about rows of known tables; the mutex is   *)
(* held by who is appending, and the tail is a line that was torn.          *)
(* (ExecuteLocked, ReplayWal.)                                              *)
THEOREM TableStoreTypeCorrect ==
  Spec => []TypeOK
<1>1. Init => ServedKnown
  BY DEF Init, ServedKnown
<1>2. Stored /\ ServedKnown => TypeOK
  <2> SUFFICES ASSUME Stored, ServedKnown PROVE TypeOK
    OBVIOUS
  <2>1. env.calls \in Nat /\ env.crashes \in Nat
    BY TableStoreAssumption DEF Stored, Spent, IsEnvironment
  <2>2. spent.calls <= env.calls /\ spent.crashes <= env.crashes
    BY <2>1 DEF Stored, Spent
  <2>3. \A c \in Client :
          Stage(c, "valid") \/ Applied(c) => RowOf(call[c].request) \in KnownRows
    BY WrittenIsKnown, KnownIsRead DEF Stored, Calls
  <2>4. DOMAIN Ahead \subseteq KnownRows
    <3>1. CASE holder \in Client
      <4>1. RowOf(call[holder].request) \in KnownRows
        BY <2>3, <3>1 DEF Stored, Calls
      <4> QED
        BY <3>1, <4>1, EffectRows DEF Ahead, ServedKnown, Stored, Tables, IsTable
    <3>2. CASE holder \notin Client
      BY <3>2 DEF Ahead, ServedKnown
    <3> QED
      BY <3>1, <3>2
  <2>5. ASSUME NEW at \in Named
        PROVE  at \in KnownRows \/ at \in TornRows \cap suspect
    <3>1. at \in KnownRows \cup TornRows
      BY DEF Named, Stored, Tables, IsTable
    <3>2. CASE at \notin suspect
      <4>1. Agree(logged, served, at) /\ Agree(rows, Ahead, at)
        BY <3>2 DEF Stored, LogAgrees, MemoryAhead
      <4> QED
        BY <2>4, <4>1 DEF Named, Agree, In, ServedKnown
    <3> QED
      BY <3>1, <3>2
  <2>6. tail # NoTail => tail.cut \in Cuts(tail.line)
    BY DEF Stored, Torn
  <2> QED
    BY <2>2, <2>3, <2>5, <2>6 DEF TypeOK, Stored, Calls, Spent
<1> QED
  BY <1>1, <1>2, ServedKnownNext, TableStoreStored, PTL DEF Spec

(* No statement is lost, applied twice or out of order in memory by threads *)
(* that execute together. (Execute, ReplayWal.)                             *)
THEOREM TableStoreMemoryIsServed ==
  Spec => []MemoryIsServed
<1>1. Stored => MemoryIsServed
  <2> SUFFICES ASSUME Stored,
                      NEW at \in (Named \ suspect) \
                        { RowOf(call[c].request) : c \in { d \in Client : Applied(d) } }
               PROVE  Agree(rows, served, at)
    BY DEF MemoryIsServed
  <2>1. Agree(rows, Ahead, at)
    BY DEF Stored, MemoryAhead
  <2>2. CASE holder \in Client
    <3>1. Applied(holder)
      BY <2>2 DEF Stored, Calls
    <3>2. at # RowOf(call[holder].request)
      BY <2>2, <3>1
    <3>3. Agree(Effect(served, call[holder].request), served, at)
      BY <3>2, EffectElsewhere DEF Stored, Tables, IsTable
    <3> QED
      BY <2>1, <2>2, <3>3, AgreeThrough DEF Ahead
  <2>3. CASE holder \notin Client
    BY <2>1, <2>3 DEF Ahead
  <2> QED
    BY <2>2, <2>3
<1> QED
  BY <1>1, TableStoreStored, PTL

(* What a restart would read is what was answered: an answered statement is *)
(* in the log, one that was not answered is not, and a torn or missing line *)
(* damages only the rows it is about. (AppendToWal, ReplayWal.)             *)
THEOREM TableStoreReplayIsServed ==
  Spec => []ReplayIsServed
<1>1. Stored => ReplayIsServed
  <2> SUFFICES ASSUME Stored, NEW at, at \notin suspect
               PROVE  Agree(ReplayWal(logged, tail), served, at)
    BY DEF ReplayIsServed
  <2>1. tail # NoTail => IsTorn(tail, suspect)
    BY DEF Stored, Torn, IsTorn
  <2>2. Agree(ReplayWal(logged, tail), logged, at)
    BY <2>1, ReplayAgrees DEF Stored, Tables
  <2>3. Agree(logged, served, at)
    BY DEF Stored, LogAgrees
  <2> QED
    BY <2>2, <2>3, AgreeThrough
<1> QED
  BY <1>1, TableStoreStored, PTL

--------------------------------------------------------------------------------
(* Lists of a text.  The parser finds items and commas at fixed distances;  *)
(* the executor walks over them.                                            *)

LEMMA FirstIs ==
  ASSUME NEW S, NEW x \in S, \A q \in S : q \in Nat /\ x <= q
  PROVE  First(S) = x
<1>1. \E p \in S : \A q \in S : p <= q
  OBVIOUS
<1>2. First(S) \in S /\ \A q \in S : First(S) <= q
  BY <1>1 DEF First
<1>3. First(S) <= x /\ x <= First(S) /\ x \in Nat /\ First(S) \in Nat
  BY <1>2
<1> QED
  BY <1>3

LEMMA PastTheEnd ==
  ASSUME NEW ts, IsText(ts)
  PROVE  /\ Len(ts) \in Nat /\ DOMAIN ts = 1 .. Len(ts)
         /\ \A p : p \notin 1 .. Len(ts) =>
              ~Identifier(ts, p) /\ ~IsLiteral(ts, p) /\ \A c : ~Symbol(ts, p, c)
<1>1. Len(ts) \in Nat /\ DOMAIN ts = 1 .. Len(ts)
  BY DEF IsText
<1>2. \A p : p \notin 1 .. Len(ts) => At(ts, p)[1] = "End"
  BY <1>1 DEF At
<1>3. \A p, c : Symbol(ts, p, c) => At(ts, p)[1] = "Symbol"
  BY DEF Symbol
<1> QED
  BY <1>1, <1>2, <1>3 DEF Identifier, IsLiteral

(* A list has an end *)
LEMMA ListLengthIs ==
  ASSUME NEW ts, IsText(ts), NEW p \in Nat \ {0}, NEW w \in {1, 3}
  PROVE  LET n == ListLength(ts, p, w)
         IN  /\ n \in 1 .. Len(ts) + 1
             /\ ~Symbol(ts, ListEnd(p, n, w), Comma)
             /\ \A m \in 1 .. n - 1 : Symbol(ts, ListEnd(p, m, w), Comma)
<1> DEFINE S == { n \in 1 .. Len(ts) + 1 : ~Symbol(ts, ListEnd(p, n, w), Comma) }
<1>1. Len(ts) \in Nat
  BY PastTheEnd
<1>2. Len(ts) + 1 \in S
  <2>1. CASE w = 1
    <3>1. ListEnd(p, Len(ts) + 1, w) = p + 2 * Len(ts) + 1
      BY <1>1, <2>1 DEF ListEnd
    <3>2. ListEnd(p, Len(ts) + 1, w) \notin 1 .. Len(ts)
      BY <1>1, <3>1
    <3>3. ~Symbol(ts, ListEnd(p, Len(ts) + 1, w), Comma)
      BY <3>2, PastTheEnd
    <3> QED
      BY <1>1, <3>3
  <2>2. CASE w = 3
    <3>1. ListEnd(p, Len(ts) + 1, w) = p + 4 * Len(ts) + 3
      BY <1>1, <2>2 DEF ListEnd
    <3>2. ListEnd(p, Len(ts) + 1, w) \notin 1 .. Len(ts)
      BY <1>1, <3>1
    <3>3. ~Symbol(ts, ListEnd(p, Len(ts) + 1, w), Comma)
      BY <3>2, PastTheEnd
    <3> QED
      BY <1>1, <3>3
  <2> QED
    BY <2>1, <2>2
<1>3. S \in SUBSET Nat /\ S # {}
  BY <1>1, <1>2
<1>4. PICK n \in S : \A m \in S : n <= m
  <2> HIDE DEF S
  <2> QED
    BY <1>3, SmallestOf
<1>5. /\ n \in 1 .. Len(ts) + 1
      /\ ~Symbol(ts, ListEnd(p, n, w), Comma)
      /\ \A m \in 1 .. n - 1 : Symbol(ts, ListEnd(p, m, w), Comma)
  <2>1. \A m \in 1 .. n - 1 : m \in 1 .. Len(ts) + 1 /\ ~(n <= m)
    BY <1>1, <1>4
  <2> QED
    BY <1>4, <2>1
<1>6. \E x \in 1 .. Len(ts) + 1 :
        /\ ~Symbol(ts, ListEnd(p, x, w), Comma)
        /\ \A m \in 1 .. x - 1 : Symbol(ts, ListEnd(p, m, w), Comma)
  BY <1>5
<1> QED
  BY <1>6 DEF ListLength

LEMMA ParsedKind ==
  ASSUME NEW ts, Accepted(ts)
  PROVE  /\ Parse(ts).kind = Insert =>
              Keyword(ts, 1, "insert") /\ Parse(ts) = ParseInsert(ts) /\ ParseInsert(ts) # Rejected
         /\ Parse(ts).kind = Update =>
              Keyword(ts, 1, "update") /\ Parse(ts) = ParseUpdate(ts) /\ ParseUpdate(ts) # Rejected
         /\ Parse(ts).kind = Delete =>
              Keyword(ts, 1, "delete") /\ Parse(ts) = ParseDelete(ts) /\ ParseDelete(ts) # Rejected
<1>1. \A kind, table, partition, a : Statement(kind, table, partition, a).kind = kind
  BY DEF Statement
<1>2. ParseSelect(ts) # Rejected => ParseSelect(ts).kind = Select
  BY <1>1, SelectShape
<1>3. ParseInsert(ts) # Rejected => ParseInsert(ts).kind = Insert
  <2>1. ParseInsert(ts) # Rejected =>
          \E table, partition, a : ParseInsert(ts) = Statement(Insert, table, partition, a)
    BY InsertShape
  <2> QED
    BY <1>1, <2>1
<1>4. ParseUpdate(ts) # Rejected => ParseUpdate(ts).kind = Update
  <2>1. ParseUpdate(ts) # Rejected =>
          \E table, partition, a : ParseUpdate(ts) = Statement(Update, table, partition, a)
    BY UpdateShape
  <2> QED
    BY <1>1, <2>1
<1>5. ParseDelete(ts) # Rejected => ParseDelete(ts).kind = Delete
  <2>1. ParseDelete(ts) # Rejected =>
          \E table, partition, a : ParseDelete(ts) = Statement(Delete, table, partition, a)
    BY DeleteShape
  <2> QED
    BY <1>1, <2>1
<1> QED
  BY <1>2, <1>3, <1>4, <1>5, ParsedBy DEF Select, Insert, Update, Delete

(* An INSERT of n columns, by the positions of its tokens *)
IsInsert(ts, n) ==
  /\ n \in Nat \ {0}
  /\ Keyword(ts, 1, "insert") /\ Keyword(ts, 2, "into") /\ Symbol(ts, 4, "(")
  /\ \A i \in 1 .. n : Identifier(ts, 3 + 2 * i)
  /\ \A i \in 1 .. n - 1 : Symbol(ts, 4 + 2 * i, Comma)
  /\ Symbol(ts, 4 + 2 * n, ")")
  /\ Keyword(ts, 5 + 2 * n, "values") /\ Symbol(ts, 6 + 2 * n, "(")
  /\ \A i \in 1 .. n : IsLiteral(ts, 5 + 2 * n + 2 * i)
  /\ \A i \in 1 .. n - 1 : Symbol(ts, 6 + 2 * n + 2 * i, Comma)
  /\ Symbol(ts, 6 + 4 * n, ")")

LEMMA AcceptedInsert ==
  ASSUME NEW ts, Accepted(ts), Parse(ts).kind = Insert
  PROVE  LET n == ListLength(ts, 5, 1)
         IN  /\ IsInsert(ts, n) /\ TableKnown(ts, 3)
             /\ \A i \in 1 .. n : Literal(ts, 5 + 2 * n + 2 * i)
             /\ Parse(ts).table = Text(ts, 3) /\ Parse(ts).partition = InsertPartition(ts, n)
<1> DEFINE n == ListLength(ts, 5, 1)
           from == InsertValues(n)
<1>1. Keyword(ts, 1, "insert") /\ Parse(ts) = ParseInsert(ts) /\ ParseInsert(ts) # Rejected
  BY ParsedKind
<1>2. /\ Keyword(ts, 2, "into") /\ TableKnown(ts, 3) /\ InsertColumnsOk(ts, n)
      /\ Keyword(ts, from - 2, "values") /\ Symbol(ts, from - 1, "(")
      /\ n = ListLength(ts, from, 1)
      /\ \A i \in 1 .. n : Literal(ts, Item(from, i, 1))
      /\ Symbol(ts, ListEnd(from, n, 1), ")")
      /\ ParseInsert(ts) = Statement(Insert, Text(ts, 3), InsertPartition(ts, n), FALSE)
  BY <1>1, InsertShape
<1>3. /\ n \in 1 .. Len(ts) + 1 /\ Len(ts) \in Nat
      /\ \A m \in 1 .. n - 1 : Symbol(ts, ListEnd(5, m, 1), Comma)
  <2>1. IsText(ts) /\ 5 \in Nat \ {0} /\ 1 \in {1, 3}
    BY DEF Accepted
  <2> QED
    BY <2>1, ListLengthIs, PastTheEnd
<1>4. n \in Nat \ {0}
  BY <1>3
<1> HIDE DEF n
<1>5. from = 7 + 2 * n
  BY <1>4 DEF InsertValues, ListEnd
<1>6. \A m \in 1 .. n - 1 : Symbol(ts, ListEnd(from, m, 1), Comma)
  <2>1. from \in Nat \ {0}
    BY <1>4, <1>5
  <2> HIDE DEF from
  <2> QED
    BY <1>2, <2>1, ListLengthIs DEF Accepted
<1> HIDE DEF from
<1>7. \A i \in Nat : /\ Item(5, i, 1) = 3 + 2 * i /\ ListEnd(5, i, 1) = 4 + 2 * i
                     /\ Item(from, i, 1) = 5 + 2 * n + 2 * i
                     /\ ListEnd(from, i, 1) = 6 + 2 * n + 2 * i
  <2> TAKE i \in Nat
  <2>1. Item(5, i, 1) = 3 + 2 * i /\ ListEnd(5, i, 1) = 4 + 2 * i
    BY DEF Item, ListEnd
  <2>2. Item(from, i, 1) = 5 + 2 * n + 2 * i
    BY <1>4, <1>5 DEF Item
  <2>3. ListEnd(from, i, 1) = 6 + 2 * n + 2 * i
    BY <1>4, <1>5 DEF ListEnd
  <2> QED
    BY <2>1, <2>2, <2>3
<1>8. /\ \A i \in 1 .. n : Identifier(ts, 3 + 2 * i)
      /\ \A i \in 1 .. n - 1 : Symbol(ts, 4 + 2 * i, Comma)
      /\ Symbol(ts, 4 + 2 * n, ")") /\ Symbol(ts, 4, "(")
  <2>1. ASSUME NEW i \in 1 .. n
        PROVE  Identifier(ts, 3 + 2 * i)
    <3>1. i \in Nat /\ Identifier(ts, Item(5, i, 1))
      BY <1>2, <1>4 DEF InsertColumnsOk
    <3> QED
      BY <1>7, <3>1
  <2>2. ASSUME NEW i \in 1 .. n - 1
        PROVE  Symbol(ts, 4 + 2 * i, Comma)
    <3>1. i \in Nat /\ Symbol(ts, ListEnd(5, i, 1), Comma)
      BY <1>3, <1>4
    <3> QED
      BY <1>7, <3>1
  <2>3. Symbol(ts, ListEnd(5, n, 1), ")") /\ Symbol(ts, 4, "(") /\ ListEnd(5, n, 1) = 4 + 2 * n
    BY <1>2, <1>4, <1>7 DEF InsertColumnsOk
  <2> QED
    BY <2>1, <2>2, <2>3
<1>9. from - 2 = 5 + 2 * n /\ from - 1 = 6 + 2 * n
  BY <1>4, <1>5
<1>10. /\ \A i \in 1 .. n : Literal(ts, 5 + 2 * n + 2 * i)
       /\ \A i \in 1 .. n - 1 : Symbol(ts, 6 + 2 * n + 2 * i, Comma)
  <2>1. ASSUME NEW i \in 1 .. n
        PROVE  Literal(ts, 5 + 2 * n + 2 * i)
    <3>1. i \in Nat /\ Literal(ts, Item(from, i, 1))
      BY <1>2, <1>4
    <3>2. Item(from, i, 1) = 5 + 2 * n + 2 * i
      BY <1>7, <3>1
    <3> QED
      BY <3>1, <3>2
  <2>2. ASSUME NEW i \in 1 .. n - 1
        PROVE  Symbol(ts, 6 + 2 * n + 2 * i, Comma)
    <3>1. i \in Nat /\ Symbol(ts, ListEnd(from, i, 1), Comma)
      BY <1>4, <1>6
    <3>2. ListEnd(from, i, 1) = 6 + 2 * n + 2 * i
      BY <1>7, <3>1
    <3> QED
      BY <3>1, <3>2
  <2> QED
    BY <2>1, <2>2
<1>11. Symbol(ts, 6 + 4 * n, ")")
  <2>1. ListEnd(from, n, 1) = 6 + 4 * n
    BY <1>4, <1>7
  <2> QED
    BY <1>2, <2>1
<1>12. \A p : Literal(ts, p) => IsLiteral(ts, p)
  BY DEF Literal, IsLiteral
<1>13. IsInsert(ts, n)
  BY <1>1, <1>2, <1>4, <1>8, <1>9, <1>10, <1>11, <1>12 DEF IsInsert
<1>14. Parse(ts).table = Text(ts, 3) /\ Parse(ts).partition = InsertPartition(ts, n)
  BY <1>1, <1>2 DEF Statement
<1> QED
  BY <1>2, <1>10, <1>13, <1>14 DEF n

(* A text read from the log is a beginning of another, maybe the whole *)
Begins(t, line) ==
  /\ Len(t) \in Nat
  /\ \A p : IF p \in 1 .. Len(t) THEN At(t, p) = At(line, p) ELSE At(t, p) = <<"End", Empty>>

LEMMA BeginsTokens ==
  ASSUME NEW t, NEW line, Begins(t, line)
  PROVE  /\ Len(t) \in Nat
         /\ \A p \in 1 .. Len(t) :
              /\ Identifier(t, p) <=> Identifier(line, p)
              /\ \A c : Symbol(t, p, c) <=> Symbol(line, p, c)
              /\ \A word : Keyword(t, p, word) <=> Keyword(line, p, word)
         /\ \A p : p \notin 1 .. Len(t) => ~Identifier(t, p) /\ At(t, p)[1] = "End" /\ \A c : ~Symbol(t, p, c)
BY DEF Begins, Identifier, Symbol, Keyword, Text

LEMMA OddOrEven ==
  ASSUME NEW q \in Nat, NEW n \in Nat, 3 <= q, q < 4 + 2 * n
  PROVE  \/ \E i \in 0 .. n : q = 3 + 2 * i
         \/ \E i \in 0 .. n - 1 : q = 4 + 2 * i
<1> DEFINE i == (q - 3) \div 2
<1>1. i \in Int /\ (q = 3 + 2 * i \/ q = 4 + 2 * i)
  OBVIOUS
<1> HIDE DEF i
<1>2. CASE q = 3 + 2 * i
  <2>1. i \in 0 .. n
    BY <1>1, <1>2
  <2> QED
    BY <1>2, <2>1
<1>3. CASE q = 4 + 2 * i
  <2>1. i \in 0 .. n - 1
    BY <1>1, <1>3
  <2> QED
    BY <1>3, <2>1
<1> QED
  BY <1>1, <1>2, <1>3

LEMMA CommaIsNoOther ==
  Comma # "(" /\ Comma # ")" /\ Comma # "="
BY Zenon DEF Comma

(* Where the executor finds the columns, and where it stops *)
LEMMA InsertWalk ==
  ASSUME NEW t, NEW line, Begins(t, line), NEW n, IsInsert(line, n)
  PROVE  /\ Len(t) < 4 => ~Symbol(t, Columns(t), "(")
         /\ Len(t) >= 4 => /\ Columns(t) = 4
                          /\ IdentListStop(t, 4) = IF Len(t) >= 4 + 2 * n THEN 4 + 2 * n ELSE Len(t) + 1
<1> DEFINE m == Len(t)
           S == { q \in 1 .. m : Keyword(t, q, "into") } \cup {m + 1}
           T == { q \in 4 + 1 .. m + 1 : ~Identifier(t, q) /\ ~Symbol(t, q, Comma) }
<1>1. /\ m \in Nat
      /\ \A p \in 1 .. m : /\ Identifier(t, p) <=> Identifier(line, p)
                            /\ \A c : Symbol(t, p, c) <=> Symbol(line, p, c)
                            /\ \A word : Keyword(t, p, word) <=> Keyword(line, p, word)
      /\ \A p : p \notin 1 .. m => ~Identifier(t, p) /\ At(t, p)[1] = "End" /\ \A c : ~Symbol(t, p, c)
  BY BeginsTokens
<1>8. \A p \in 1 .. m : /\ Keyword(t, p, "into") <=> Keyword(line, p, "into")
                        /\ Symbol(t, p, Comma) <=> Symbol(line, p, Comma)
                        /\ Identifier(t, p) <=> Identifier(line, p)
  <2>1. \A p \in 1 .. m : At(t, p) = At(line, p)
    BY DEF Begins, m
  <2> QED
    BY <2>1 DEF Keyword, Symbol, Identifier, Text
<1>2. ~Keyword(line, 1, "into") /\ Keyword(line, 2, "into") /\ n \in Nat \ {0}
  BY DEF IsInsert, Keyword
<1>3. SkipToKeyword(t, 1, "into") = First(S)
  BY DEF SkipToKeyword
<1>4. T = { q \in 4 + 1 .. Len(t) + 1 : ~Identifier(t, q) /\ ~Symbol(t, q, Comma) }
  OBVIOUS
<1>5. IdentListStop(t, 4) = First(T)
  BY DEF IdentListStop
<1> HIDE DEF m
<1>6. CASE m < 2
  <2>1. m + 1 \in S /\ \A q \in S : q \in Nat /\ m + 1 <= q
    <3>1. \A q \in 1 .. m : q = 1 /\ ~Keyword(t, q, "into")
      BY <1>1, <1>2, <1>6, <1>8
    <3> QED
      BY <1>1, <3>1
  <2> HIDE DEF S
  <2>2. First(S) = m + 1
    BY <2>1, FirstIs
  <2>3. Columns(t) = m + 3 /\ m + 3 \notin 1 .. m
    BY <1>1, <1>3, <2>2 DEF Columns
  <2>4. ~Symbol(t, m + 3, "(")
    BY <1>1, <2>3
  <2> QED
    BY <1>1, <1>6, <2>3, <2>4 DEF m
<1>7. CASE m >= 2
  <2>1. 2 \in S /\ \A q \in S : q \in Nat /\ 2 <= q
    <3>1. 2 \in 1 .. m /\ Keyword(t, 2, "into") /\ ~Keyword(t, 1, "into")
      BY <1>1, <1>2, <1>7, <1>8
    <3>2. \A q \in 1 .. m : Keyword(t, q, "into") => 2 <= q
      BY <1>1, <3>1
    <3> QED
      BY <1>1, <1>7, <3>1, <3>2
  <2> HIDE DEF S
  <2>2. First(S) = 2
    BY <2>1, FirstIs
  <2>3. Columns(t) = 4
    BY <1>3, <2>2 DEF Columns
  <2>4. CASE m < 4
    <3>1. ~Symbol(t, 4, "(")
      BY <1>1, <2>4
    <3> QED
      BY <1>1, <2>3, <2>4, <3>1 DEF m
  <2>5. CASE m >= 4
    <3>1. ASSUME NEW q \in Nat, 5 <= q, q < 4 + 2 * n
          PROVE  Identifier(line, q) \/ Symbol(line, q, Comma)
      <4>1. (\E i \in 0 .. n : q = 3 + 2 * i) \/ (\E i \in 0 .. n - 1 : q = 4 + 2 * i)
        BY <1>2, <3>1, OddOrEven
      <4>2. ASSUME NEW i \in 0 .. n, q = 3 + 2 * i
            PROVE  Identifier(line, q)
        <5>1. i \in 1 .. n
          BY <1>2, <3>1, <4>2
        <5> QED
          BY <4>2, <5>1 DEF IsInsert
      <4>3. ASSUME NEW i \in 0 .. n - 1, q = 4 + 2 * i
            PROVE  Symbol(line, q, Comma)
        <5>1. i \in 1 .. n - 1
          BY <1>2, <3>1, <4>3
        <5> QED
          BY <4>3, <5>1 DEF IsInsert
      <4> QED
        BY <4>1, <4>2, <4>3
    <3>2. CASE m >= 4 + 2 * n
      <4>1. Symbol(line, 4 + 2 * n, ")")
        BY DEF IsInsert
      <4>2. ~Identifier(line, 4 + 2 * n) /\ ~Symbol(line, 4 + 2 * n, Comma)
        BY <4>1, CommaIsNoOther DEF Symbol, Identifier
      <4>3. 4 + 2 * n \in T
        <5>1. 4 + 2 * n \in 1 .. m /\ 4 + 2 * n \in 4 + 1 .. m + 1
          BY <1>1, <1>2, <3>2
        <5> QED
          BY <1>1, <1>8, <4>2, <5>1
      <4>4. ASSUME NEW q \in T, ~(4 + 2 * n <= q)
            PROVE  FALSE
        <5>1. q \in Nat /\ 5 <= q /\ q < 4 + 2 * n /\ q \in 1 .. m
          BY <1>1, <1>2, <3>2, <4>4
        <5>2. ~Identifier(t, q) /\ ~Symbol(t, q, Comma)
          OBVIOUS
        <5>3. Identifier(line, q) \/ Symbol(line, q, Comma)
          BY <3>1, <5>1
        <5> QED
          BY <1>8, <5>1, <5>2, <5>3
      <4>6. \A q \in T : q \in Nat
        BY <1>1
      <4> HIDE DEF T
      <4>5. First(T) = 4 + 2 * n
        BY <4>3, <4>4, <4>6, FirstIs
      <4> QED
        BY <1>1, <1>5, <2>3, <2>5, <3>2, <4>5 DEF m
    <3>3. CASE m < 4 + 2 * n
      <4>1. m + 1 \in T
        BY <1>1, <2>5
      <4>2. \A q \in T : q \in Nat /\ m + 1 <= q
        <5>1. ASSUME NEW q \in T, ~(m + 1 <= q)
              PROVE  FALSE
          <6>1. q \in Nat /\ 5 <= q /\ q < 4 + 2 * n /\ q \in 1 .. m
            BY <1>1, <1>2, <3>3, <5>1
          <6>2. ~Identifier(t, q) /\ ~Symbol(t, q, Comma)
            OBVIOUS
          <6>3. Identifier(line, q) \/ Symbol(line, q, Comma)
            BY <3>1, <6>1
          <6> QED
            BY <1>8, <6>1, <6>2, <6>3
        <5> QED
          BY <1>1, <5>1
      <4> HIDE DEF T
      <4>3. First(T) = m + 1
        BY <4>1, <4>2, FirstIs
      <4> QED
        BY <1>1, <1>2, <1>5, <2>3, <2>5, <3>3, <4>3 DEF m
    <3> QED
      BY <1>1, <1>2, <3>2, <3>3
  <2> QED
    BY <1>1, <2>4, <2>5
<1> QED
  BY <1>1, <1>6, <1>7

LEMMA InsertReturnsAlways ==
  ASSUME NEW t, NEW line, Begins(t, line), NEW n, IsInsert(line, n)
  PROVE  InsertReturns(t)
<1>1. Len(t) \in Nat /\ n \in Nat
  BY DEF Begins, IsInsert
<1>2. CASE Len(t) < 4
  BY <1>2, InsertWalk DEF InsertReturns, IdentListReturns
<1>3. CASE Len(t) >= 4 + 2 * n
  <2>1. Columns(t) = 4 /\ IdentListStop(t, 4) = 4 + 2 * n
    BY <1>1, <1>3, InsertWalk
  <2>2. Symbol(line, 4 + 2 * n, ")")
    BY DEF IsInsert
  <2>3. 4 + 2 * n \in 1 .. Len(t)
    BY <1>1, <1>3
  <2>4. Symbol(t, 4 + 2 * n, ")")
    BY <2>2, <2>3, BeginsTokens
  <2> QED
    BY <2>1, <2>4 DEF InsertReturns, IdentListReturns
<1>4. CASE Len(t) >= 4 /\ Len(t) < 4 + 2 * n
  <2>1. Columns(t) = 4 /\ IdentListStop(t, 4) = Len(t) + 1
    BY <1>1, <1>4, InsertWalk
  <2>2. At(t, Len(t) + 1)[1] = "End"
    BY <1>1, BeginsTokens
  <2> QED
    BY <2>1, <2>2 DEF InsertReturns, IdentListReturns
<1> QED
  BY <1>1, <1>2, <1>3, <1>4

(* A symbol that separates nothing *)
NoSeparator(c) == c # Comma /\ c # "=" /\ c # Semicolon

LEMMA OpeningIsNoSeparator ==
  NoSeparator("(")
BY Zenon DEF NoSeparator, Comma, Semicolon

(* Behind a statement there is at most a semicolon *)
LEMMA EndOfStatement ==
  ASSUME NEW ts, IsText(ts), NEW p \in Nat \ {0}, StatementEnds(ts, p), NEW c, NoSeparator(c)
  PROVE  \A q \in Nat : q >= p => ~Symbol(ts, q, c)
<1>1. \A q \in 1 .. Len(ts) : At(ts, q)[1] # "End"
  <2>1. \A q \in 1 .. Len(ts) : ts[q][1] \in TokenTypes
    BY DEF IsText
  <2> QED
    BY <2>1, PastTheEnd DEF At, TokenTypes
<1>2. \A q : Symbol(ts, q, c) => q \in 1 .. Len(ts)
  BY PastTheEnd
<1>3. Len(ts) \in Nat
  BY PastTheEnd
<1>4. CASE Symbol(ts, p, Semicolon)
  <2>1. At(ts, p + 1)[1] = "End"
    BY <1>4 DEF StatementEnds
  <2>2. Len(ts) <= p
    BY <1>1, <1>3, <2>1
  <2>3. ~Symbol(ts, p, c)
    BY <1>4 DEF Symbol, NoSeparator
  <2>4. ASSUME NEW q \in Nat, q > p
        PROVE  ~Symbol(ts, q, c)
    BY <1>2, <1>3, <2>2, <2>4
  <2> QED
    BY <2>3, <2>4
<1>5. CASE ~Symbol(ts, p, Semicolon)
  <2>1. At(ts, p)[1] = "End"
    BY <1>5 DEF StatementEnds
  <2>2. Len(ts) < p
    BY <1>1, <1>3, <2>1
  <2>3. ASSUME NEW q \in Nat, q >= p
        PROVE  ~Symbol(ts, q, c)
    BY <1>2, <1>3, <2>2, <2>3
  <2> QED
    BY <2>3
<1> QED
  BY <1>4, <1>5

LEMMA EndOfPredicate ==
  ASSUME NEW ts, IsText(ts), NEW p \in Nat \ {0}, NEW key,
         Where(ts, p, key).ok, StatementEnds(ts, Where(ts, p, key).end), NEW c, NoSeparator(c)
  PROVE  \A q \in Nat : q >= p => ~Symbol(ts, q, c)
<1>1. CASE Keyword(ts, p, "where")
  <2>1. /\ Identifier(ts, p + 1) /\ Symbol(ts, p + 2, "=") /\ Literal(ts, p + 3)
        /\ StatementEnds(ts, p + 4) /\ Identifier(ts, p)
    BY <1>1 DEF Where, Keyword
  <2>2. \A q \in Nat : q >= p + 4 => ~Symbol(ts, q, c)
    BY <2>1, EndOfStatement
  <2>3. /\ ~Symbol(ts, p, c) /\ ~Symbol(ts, p + 1, c) /\ ~Symbol(ts, p + 2, c)
        /\ ~Symbol(ts, p + 3, c)
    BY <2>1 DEF Symbol, Identifier, Literal, NoSeparator
  <2>4. \A q \in Nat : q >= p => q >= p + 4 \/ q = p \/ q = p + 1 \/ q = p + 2 \/ q = p + 3
    OBVIOUS
  <2> QED
    BY <2>2, <2>3, <2>4
<1>2. CASE ~Keyword(ts, p, "where")
  <2>1. StatementEnds(ts, p)
    BY <1>2 DEF Where
  <2> QED
    BY <2>1, EndOfStatement
<1> QED
  BY <1>1, <1>2

LEMMA AcceptedUpdate ==
  ASSUME NEW ts, Accepted(ts), Parse(ts).kind = Update, NEW c, NoSeparator(c)
  PROVE  /\ Keyword(ts, 1, "update") /\ TableKnown(ts, 2) /\ Parse(ts).table = Text(ts, 2)
         /\ \A p \in Nat : p # 0 => ~Symbol(ts, p, c)
<1> DEFINE n == ListLength(ts, 4, 3)
           end == ListEnd(4, n, 3)
           where == Where(ts, end, KeyColumn(ts, 2))
<1>1. Keyword(ts, 1, "update") /\ Parse(ts) = ParseUpdate(ts) /\ ParseUpdate(ts) # Rejected
  BY ParsedKind
<1>2. /\ TableKnown(ts, 2) /\ Keyword(ts, 3, "set") /\ where.ok /\ StatementEnds(ts, where.end)
      /\ \A i \in 1 .. n : /\ Identifier(ts, Item(4, i, 3))
                           /\ Symbol(ts, Item(4, i, 3) + 1, "=")
                           /\ Literal(ts, Item(4, i, 3) + 2)
      /\ \E partition, a : ParseUpdate(ts) = Statement(Update, Text(ts, 2), partition, a)
  BY <1>1, UpdateShape
<1>3. n \in Nat \ {0} /\ \A m \in 1 .. n - 1 : Symbol(ts, ListEnd(4, m, 3), Comma)
  <2>1. IsText(ts) /\ 4 \in Nat \ {0} /\ 3 \in {1, 3}
    BY DEF Accepted
  <2>2. n \in 1 .. Len(ts) + 1 /\ \A m \in 1 .. n - 1 : Symbol(ts, ListEnd(4, m, 3), Comma)
    BY <2>1, ListLengthIs
  <2> QED
    BY <2>1, <2>2, PastTheEnd
<1> HIDE DEF n
<1>4. end = 3 + 4 * n /\ end \in Nat \ {0}
  BY <1>3 DEF ListEnd
<1> HIDE DEF end
<1>5. \A q \in Nat : q >= end => ~Symbol(ts, q, c)
  BY <1>2, <1>4, EndOfPredicate DEF Accepted
<1>6. ASSUME NEW q \in Nat, 4 <= q, q < end
      PROVE  ~Symbol(ts, q, c)
  <2> DEFINE i == 1 + (q - 4) \div 4
             at == 4 * i
  <2>1. i \in 1 .. n /\ (q = at \/ q = at + 1 \/ q = at + 2 \/ q = at + 3)
    BY <1>3, <1>4, <1>6
  <2>2. Item(4, i, 3) = at /\ ListEnd(4, i, 3) = at + 3
    <3>1. i \in Int
      BY <2>1
    <3> HIDE DEF i
    <3> QED
      BY <3>1 DEF Item, ListEnd
  <2> HIDE DEF i, at
  <2>3. ~Symbol(ts, at, c) /\ ~Symbol(ts, at + 1, c) /\ ~Symbol(ts, at + 2, c)
    <3>1. Identifier(ts, at) /\ Symbol(ts, at + 1, "=") /\ Literal(ts, at + 2)
      BY <1>2, <2>1, <2>2
    <3> QED
      BY <3>1 DEF Identifier, Symbol, Literal, NoSeparator
  <2>4. q = at + 3 => ~Symbol(ts, at + 3, c)
    <3> HAVE q = at + 3
    <3>1. i \in 1 .. n - 1
      BY <1>3, <1>4, <1>6, <2>1 DEF at
    <3>2. Symbol(ts, at + 3, Comma)
      BY <1>3, <2>2, <3>1
    <3> QED
      BY <3>2 DEF Symbol, NoSeparator
  <2> QED
    BY <2>1, <2>3, <2>4
<1>7. ~Symbol(ts, 1, c) /\ ~Symbol(ts, 2, c) /\ ~Symbol(ts, 3, c)
  BY <1>1, <1>2 DEF Keyword, TableKnown, Identifier, Symbol
<1>8. \A p \in Nat : p # 0 => ~Symbol(ts, p, c)
  BY <1>4, <1>5, <1>6, <1>7
<1>9. Parse(ts).table = Text(ts, 2)
  BY <1>1, <1>2 DEF Statement
<1> QED
  BY <1>1, <1>2, <1>8, <1>9

LEMMA AcceptedDelete ==
  ASSUME NEW ts, Accepted(ts), Parse(ts).kind = Delete, NEW c, NoSeparator(c)
  PROVE  \A p \in Nat : p # 0 => ~Symbol(ts, p, c)
<1> DEFINE where == Where(ts, 4, KeyColumn(ts, 3))
<1>1. Keyword(ts, 1, "delete") /\ ParseDelete(ts) # Rejected
  BY ParsedKind
<1>2. Keyword(ts, 2, "from") /\ TableKnown(ts, 3) /\ where.ok /\ StatementEnds(ts, where.end)
  BY <1>1, DeleteShape
<1>3. \A q \in Nat : q >= 4 => ~Symbol(ts, q, c)
  BY <1>2, EndOfPredicate DEF Accepted
<1>4. ~Symbol(ts, 1, c) /\ ~Symbol(ts, 2, c) /\ ~Symbol(ts, 3, c)
  BY <1>1, <1>2 DEF Keyword, TableKnown, Identifier, Symbol
<1> QED
  BY <1>3, <1>4

(* What the executor is given to read: the text, or a beginning of its line *)
LEMMA TextBegins ==
  ASSUME NEW ts, IsText(ts)
  PROVE  /\ Begins(ts, ts)
         /\ \A m \in 0 .. Len(ts) : Begins(SubSeq(Sanitized(ts), 1, m), Sanitized(ts))
         /\ Begins(<<>>, Sanitized(ts)) /\ Begins(<<>>, ts)
<1> DEFINE line == Sanitized(ts)
           tokens == { line[p] : p \in DOMAIN line }
<1>1. Len(ts) \in Nat /\ DOMAIN ts = 1 .. Len(ts)
  BY PastTheEnd
<1>2. Begins(ts, ts)
  BY <1>1 DEF Begins, At
<1>3. DOMAIN line = 1 .. Len(ts) /\ Len(line) = Len(ts)
  BY <1>1, SanitizedTokens
<1>4. line \in Seq(tokens)
  <2>1. line \in [1 .. Len(ts) -> tokens]
    BY <1>3 DEF Sanitized
  <2> HIDE DEF line, tokens
  <2> QED
    BY <1>1, <2>1
<1> HIDE DEF line, tokens
<1>5. ASSUME NEW m \in 0 .. Len(ts)
      PROVE  Begins(SubSeq(line, 1, m), line)
  <2> DEFINE t == SubSeq(line, 1, m)
  <2>1. Len(t) = m /\ DOMAIN t = 1 .. m /\ m \in Nat
    BY <1>1, <1>3, <1>4
  <2>2. \A p \in 1 .. m : t[p] = line[p] /\ p \in DOMAIN line
    BY <1>1, <1>3, <1>4
  <2> HIDE DEF t
  <2>3. Begins(t, line)
    BY <2>1, <2>2 DEF Begins, At
  <2> QED
    BY <2>3 DEF t
<1>6. \A x : Begins(<<>>, x)
  <2> DEFINE t == <<>>
  <2>1. Len(t) = 0 /\ DOMAIN t = {}
    OBVIOUS
  <2> HIDE DEF t
  <2>2. \A x : Begins(t, x)
    BY <2>1 DEF Begins, At
  <2> QED
    BY <2>2 DEF t
<1> QED
  BY <1>2, <1>5, <1>6 DEF line

LEMMA InsertLine ==
  ASSUME NEW ts, IsText(ts), NEW n, IsInsert(ts, n)
  PROVE  IsInsert(Sanitized(ts), n)
<1> DEFINE line == Sanitized(ts)
<1>1. /\ \A p, c : Symbol(line, p, c) <=> Symbol(ts, p, c)
      /\ \A p : Identifier(line, p) <=> Identifier(ts, p)
      /\ \A p : IsLiteral(line, p) <=> IsLiteral(ts, p)
      /\ \A p, word : Keyword(line, p, word) <=> Keyword(ts, p, word)
  BY SameTokens
<1> HIDE DEF line
<1>2. IsInsert(line, n)
  BY <1>1 DEF IsInsert
<1> QED
  BY <1>2 DEF line

LEMMA ListsOfTextEnd ==
  ASSUME NEW ts, Accepted(ts), NEW t, Parse(ts).kind \in LoggedKinds,
         Begins(t, ts) \/ Begins(t, Sanitized(ts))
  PROVE  InsertReturns(t)
<1>1. CASE Parse(ts).kind = Insert
  <2>1. PICK n : IsInsert(ts, n)
    BY <1>1, AcceptedInsert
  <2>2. IsInsert(Sanitized(ts), n)
    BY <2>1, InsertLine DEF Accepted
  <2> QED
    BY <2>1, <2>2, InsertReturnsAlways
<1>2. CASE Parse(ts).kind \in {Update, Delete}
  <2>1. \A p \in Nat : p # 0 => ~Symbol(ts, p, "(")
    BY <1>2, OpeningIsNoSeparator, AcceptedUpdate, AcceptedDelete
  <2>2. \A p \in Nat : p # 0 => ~Symbol(Sanitized(ts), p, "(")
    BY <2>1, SameTokens DEF Accepted
  <2>3. ~Symbol(t, Columns(t), "(")
    <3>1. ASSUME Symbol(t, Columns(t), "(")
          PROVE  FALSE
      <4>1. Columns(t) \in 1 .. Len(t) /\ Len(t) \in Nat
        BY <3>1, BeginsTokens
      <4>2. Symbol(ts, Columns(t), "(") \/ Symbol(Sanitized(ts), Columns(t), "(")
        BY <3>1, <4>1, BeginsTokens
      <4>3. Columns(t) \in Nat /\ Columns(t) # 0
        BY <4>1
      <4> QED
        BY <2>1, <2>2, <4>2, <4>3
    <3> QED
      BY <3>1
  <2> QED
    BY <2>3 DEF InsertReturns, IdentListReturns
<1> QED
  BY <1>1, <1>2 DEF LoggedKinds

(* Two texts, one behind the other *)
LEMMA AtJoined ==
  ASSUME NEW X, NEW s \in Seq(X), NEW t \in Seq(X)
  PROVE  /\ s \o t \in Seq(X) /\ Len(s \o t) = Len(s) + Len(t)
         /\ Len(s) \in Nat /\ Len(t) \in Nat
         /\ \A p \in 1 .. Len(s) : At(s \o t, p) = At(s, p)
         /\ \A p \in Nat \ {0} : At(s \o t, Len(s) + p) = At(t, p)
<1> DEFINE u == s \o t
<1>1. /\ u \in Seq(X) /\ Len(u) = Len(s) + Len(t) /\ Len(s) \in Nat /\ Len(t) \in Nat
      /\ DOMAIN u = 1 .. Len(s) + Len(t) /\ DOMAIN s = 1 .. Len(s) /\ DOMAIN t = 1 .. Len(t)
      /\ \A p \in 1 .. Len(s) : u[p] = s[p]
      /\ \A p \in 1 .. Len(t) : u[Len(s) + p] = t[p]
  OBVIOUS
<1> HIDE DEF u
<1>2. \A p \in 1 .. Len(s) : At(u, p) = At(s, p)
  BY <1>1 DEF At
<1>3. ASSUME NEW p \in Nat \ {0}
      PROVE  At(u, Len(s) + p) = At(t, p)
  BY <1>1 DEF At
<1> QED
  BY <1>1, <1>2, <1>3 DEF u

IsJoined(u, s, t, X) ==
  /\ u \in Seq(X) /\ Len(u) = Len(s) + Len(t)
  /\ \A p \in 1 .. Len(s) : At(u, p) = At(s, p)
  /\ \A p \in Nat \ {0} : At(u, Len(s) + p) = At(t, p)

LEMMA JoinedIs ==
  ASSUME NEW X, NEW s \in Seq(X), NEW t \in Seq(X)
  PROVE  IsJoined(s \o t, s, t, X)
<1>1. /\ s \o t \in Seq(X) /\ Len(s \o t) = Len(s) + Len(t)
      /\ \A p \in 1 .. Len(s) : At(s \o t, p) = At(s, p)
  BY AtJoined
<1>2. \A p \in Nat \ {0} : At(s \o t, Len(s) + p) = At(t, p)
  BY AtJoined
<1> DEFINE u == s \o t
<1> HIDE DEF u
<1>3. /\ u \in Seq(X) /\ Len(u) = Len(s) + Len(t)
      /\ \A p \in 1 .. Len(s) : At(u, p) = At(s, p)
      /\ \A p \in Nat \ {0} : At(u, Len(s) + p) = At(t, p)
  BY <1>1, <1>2 DEF u
<1>4. IsJoined(u, s, t, X)
  BY <1>3 DEF IsJoined
<1> QED
  BY <1>4 DEF u

(* A torn text that another line continues: m tokens of it, tokens without  *)
(* symbols up to the k-th, then the other text.                             *)
Continues(t, line, m, k, next) ==
  /\ Len(t) \in Nat /\ m \in Nat /\ k \in Nat /\ m <= k
  /\ \A p \in 1 .. m : At(t, p) = At(line, p)
  /\ \A p \in m + 1 .. k : ~(At(t, p)[1] = "Symbol")
  /\ m # 0 => m < k /\ At(t, m + 1)[1] = "Number"
  /\ \A p \in Nat \ {0} : At(t, k + p) = At(next, p)
  /\ \A p : p \notin 1 .. Len(t) => At(t, p)[1] = "End"

LEMMA ListStopIs ==
  ASSUME NEW t, Len(t) \in Nat, NEW c \in Nat, NEW s \in Nat, c < s, s <= Len(t) + 1,
         ~Identifier(t, s), ~Symbol(t, s, Comma),
         \A q \in Nat : c < q /\ q < s => Identifier(t, q) \/ Symbol(t, q, Comma)
  PROVE  IdentListStop(t, c) = s
<1> DEFINE T == { q \in c + 1 .. Len(t) + 1 : ~Identifier(t, q) /\ ~Symbol(t, q, Comma) }
<1>1. s \in T
  OBVIOUS
<1>2. \A q \in T : q \in Nat /\ s <= q
  OBVIOUS
<1>3. IdentListStop(t, c) = First(T)
  BY DEF IdentListStop
<1> HIDE DEF T
<1> QED
  BY <1>1, <1>2, <1>3, FirstIs

LEMMA ColumnsOfInsert ==
  ASSUME NEW line, NEW n, IsInsert(line, n), NEW q \in Nat, 4 < q, q < 4 + 2 * n
  PROVE  Identifier(line, q) \/ Symbol(line, q, Comma)
<1>1. n \in Nat
  BY DEF IsInsert
<1>5. 3 <= q
  OBVIOUS
<1>2. (\E i \in 0 .. n : q = 3 + 2 * i) \/ (\E i \in 0 .. n - 1 : q = 4 + 2 * i)
  BY <1>1, <1>5, OddOrEven
<1>3. ASSUME NEW i \in 0 .. n, q = 3 + 2 * i
      PROVE  Identifier(line, q)
  <2>1. i \in 1 .. n
    BY <1>1, <1>3
  <2> QED
    BY <1>3, <2>1 DEF IsInsert
<1>4. ASSUME NEW i \in 0 .. n - 1, q = 4 + 2 * i
      PROVE  Symbol(line, q, Comma)
  <2>1. i \in 1 .. n - 1
    BY <1>1, <1>4
  <2> QED
    BY <1>4, <2>1 DEF IsInsert
<1> QED
  BY <1>2, <1>3, <1>4

NoOpening(ts) == \A p \in Nat : p # 0 => ~Symbol(ts, p, "(")
Listed(ts) == NoOpening(ts) \/ \E n : IsInsert(ts, n)

LEMMA ContinuedListsEnd ==
  ASSUME NEW t, NEW line, NEW m, NEW k, NEW next, Continues(t, line, m, k, next),
         Listed(line), Listed(next)
  PROVE  InsertReturns(t)
<1> DEFINE S == { q \in 1 .. Len(t) : Keyword(t, q, "into") } \cup {Len(t) + 1}
           F == First(S)
           C == Columns(t)
<1> USE DEF Continues
<1>1. C = F + 2
  BY DEF Columns, SkipToKeyword
<1>2. F \in S /\ \A q \in S : F <= q
  <2>1. S \in SUBSET Nat /\ S # {}
    OBVIOUS
  <2> HIDE DEF S
  <2>2. \E q \in S : \A r \in S : q <= r
    BY <2>1, SmallestOf
  <2> QED
    BY <2>2 DEF First
<1> HIDE DEF F, C
<1> SUFFICES ASSUME Symbol(t, C, "(")
             PROVE  At(t, IdentListStop(t, C))[1] = "Symbol" => Symbol(t, IdentListStop(t, C), ")")
  BY DEF InsertReturns, IdentListReturns, C
<1>9. \A p, c : Symbol(t, p, c) => p \in 1 .. Len(t)
  BY DEF Symbol
<1>3. C \in 1 .. Len(t)
  BY <1>9
<1>4. /\ F \in Nat /\ 1 <= F /\ Keyword(t, F, "into")
      /\ \A q \in 1 .. Len(t) : Keyword(t, q, "into") => F <= q
  BY <1>1, <1>2, <1>3
<1> HIDE DEF S
<1>5. C \in Nat /\ 3 <= C
  BY <1>1, <1>4
<1>6. CASE C <= m
  <2>1. At(t, C) = At(line, C) /\ Symbol(line, C, "(")
    BY <1>5, <1>6 DEF Symbol
  <2>2. PICK n : IsInsert(line, n)
    BY <1>5, <2>1 DEF Listed, NoOpening
  <2>3. n \in Nat /\ Keyword(line, 1, "insert") /\ Keyword(line, 2, "into")
    BY <2>2 DEF IsInsert
  <2>4. At(t, 1) = At(line, 1) /\ At(t, 2) = At(line, 2)
    BY <1>5, <1>6
  <2>5. Keyword(t, 2, "into") /\ ~Keyword(t, 1, "into")
    BY <2>3, <2>4 DEF Keyword, Identifier, Text
  <2>6. F <= 2 /\ F # 1
    <3>1. 2 \in 1 .. Len(t)
      BY <1>3, <1>5
    <3> QED
      BY <1>4, <2>5, <3>1
  <2>7. C = 4
    BY <1>1, <1>4, <2>6
  <2>8. CASE 4 + 2 * n <= m
    <3>1. At(t, 4 + 2 * n) = At(line, 4 + 2 * n)
      BY <2>3, <2>8
    <3>2. Symbol(t, 4 + 2 * n, ")")
      BY <2>2, <3>1 DEF IsInsert, Symbol
    <3>3. 4 + 2 * n \in 1 .. Len(t)
      BY <1>9, <3>2
    <3>4. ~Identifier(t, 4 + 2 * n) /\ ~Symbol(t, 4 + 2 * n, Comma)
      BY <3>2, CommaIsNoOther DEF Symbol, Identifier
    <3>5. ASSUME NEW q \in Nat, 4 < q, q < 4 + 2 * n
          PROVE  Identifier(t, q) \/ Symbol(t, q, Comma)
      <4>1. At(t, q) = At(line, q)
        BY <2>3, <2>8, <3>5
      <4> QED
        BY <2>2, <3>5, <4>1, ColumnsOfInsert DEF Identifier, Symbol
    <3>6. 2 * n > 0
      BY <2>2 DEF IsInsert
    <3>7. IdentListStop(t, 4) = 4 + 2 * n
      <4>1. 4 \in Nat /\ 4 + 2 * n \in Nat /\ 4 < 4 + 2 * n /\ 4 + 2 * n <= Len(t) + 1
        BY <2>3, <3>3, <3>6
      <4> QED
        BY <3>4, <3>5, <4>1, ListStopIs
    <3> QED
      BY <2>7, <3>2, <3>7
  <2>9. CASE m < 4 + 2 * n
    <3>1. At(t, m + 1)[1] = "Number" /\ m + 1 \in Nat
      BY <1>5, <1>6
    <3>2. m + 1 \in 1 .. Len(t)
      BY <3>1
    <3>3. ~Identifier(t, m + 1) /\ ~Symbol(t, m + 1, Comma)
      BY <3>1 DEF Symbol, Identifier
    <3>4. ASSUME NEW q \in Nat, 4 < q, q < m + 1
          PROVE  Identifier(t, q) \/ Symbol(t, q, Comma)
      <4>1. At(t, q) = At(line, q) /\ q < 4 + 2 * n
        BY <2>3, <2>9, <3>4
      <4> QED
        BY <2>2, <3>4, <4>1, ColumnsOfInsert DEF Identifier, Symbol
    <3>5. IdentListStop(t, 4) = m + 1
      <4>1. 4 \in Nat /\ 4 < m + 1 /\ m + 1 <= Len(t) + 1
        BY <1>6, <2>7, <3>2
      <4> QED
        BY <3>1, <3>3, <3>4, <4>1, ListStopIs
    <3> QED
      BY <2>7, <3>1, <3>5
  <2> QED
    BY <2>3, <2>8, <2>9
<1>7. CASE m < C /\ C <= k
  <2>1. C \in m + 1 .. k
    BY <1>5, <1>7
  <2> QED
    BY <2>1 DEF Symbol
<1>8. CASE k < C
  <2> DEFINE p == C - k
  <2>1. p \in Nat \ {0} /\ C = k + p
    BY <1>5, <1>8
  <2> HIDE DEF p
  <2>2. Symbol(next, p, "(")
    BY <2>1 DEF Symbol
  <2>3. PICK n : IsInsert(next, n)
    BY <2>1, <2>2 DEF Listed, NoOpening
  <2>4. n \in Nat /\ Keyword(next, 1, "insert") /\ Keyword(next, 2, "into") /\ 2 * n > 0
    BY <2>3 DEF IsInsert
  <2>5. p # 1 /\ p # 2
    BY <2>2, <2>4 DEF Symbol, Keyword, Identifier
  <2>6. At(t, k + 2) = At(next, 2)
    OBVIOUS
  <2>7. Keyword(t, k + 2, "into")
    BY <2>4, <2>6 DEF Keyword, Identifier, Text
  <2>8. F <= k + 2
    <3>1. k + 2 \in 1 .. Len(t)
      BY <1>3, <2>1, <2>5
    <3> QED
      BY <1>4, <2>7, <3>1
  <2>9. p = 3 \/ p = 4
    BY <1>1, <1>4, <2>1, <2>5, <2>8
  <2>10. p # 3
    <3> SUFFICES ASSUME p = 3 PROVE FALSE
      OBVIOUS
    <3>1. F = k + 1
      BY <1>1, <1>4, <2>1
    <3>2. At(t, k + 1) = At(next, 1)
      OBVIOUS
    <3>3. Keyword(next, 1, "into")
      BY <1>4, <3>1, <3>2 DEF Keyword, Identifier, Text
    <3> QED
      BY <2>4, <3>3 DEF Keyword
  <2>11. C = k + 4
    BY <2>1, <2>9, <2>10
  <2> DEFINE s == k + (4 + 2 * n)
  <2>12. s \in Nat /\ C < s /\ At(t, s) = At(next, 4 + 2 * n)
    BY <2>4, <2>11
  <2> HIDE DEF s
  <2>13. Symbol(t, s, ")")
    BY <2>3, <2>12 DEF IsInsert, Symbol
  <2>14. s <= Len(t) + 1
    <3>1. s \in 1 .. Len(t)
      BY <2>13 DEF Symbol
    <3> QED
      BY <3>1
  <2>15. ~Identifier(t, s) /\ ~Symbol(t, s, Comma)
    BY <2>13, CommaIsNoOther DEF Symbol, Identifier
  <2>16. ASSUME NEW q \in Nat, C < q, q < s
         PROVE  Identifier(t, q) \/ Symbol(t, q, Comma)
    <3> DEFINE r == q - k
    <3>1. r \in Nat /\ 4 < r /\ r < 4 + 2 * n /\ q = k + r
      BY <2>4, <2>11, <2>16 DEF s
    <3> HIDE DEF r
    <3>2. At(t, q) = At(next, r)
      BY <3>1
    <3> QED
      BY <2>3, <3>1, <3>2, ColumnsOfInsert DEF Identifier, Symbol
  <2>17. IdentListStop(t, C) = s
    BY <1>5, <2>12, <2>14, <2>15, <2>16, ListStopIs
  <2> QED
    BY <2>13, <2>17
<1> QED
  BY <1>5, <1>6, <1>7, <1>8

(* A line in the log is a sequence, of tokens of whatever kind, and has the *)
(* shape of its text.                                                       *)
LEMMA LinesAreListed ==
  ASSUME NEW ts, Accepted(ts), Parse(ts).kind \in LoggedKinds
  PROVE  /\ Listed(Sanitized(ts)) /\ Len(Sanitized(ts)) = Len(ts) /\ Len(ts) \in Nat
         /\ \E X : Sanitized(ts) \in Seq(X)
<1>1. Len(Sanitized(ts)) = Len(ts) /\ Len(ts) \in Nat
  BY SanitizedTokens DEF Accepted
<1>2. Listed(Sanitized(ts))
  <2>1. CASE Parse(ts).kind = Insert
    <3>1. PICK n : IsInsert(ts, n)
      BY <2>1, AcceptedInsert
    <3>2. IsInsert(Sanitized(ts), n)
      BY <3>1, InsertLine DEF Accepted
    <3> QED
      BY <3>2 DEF Listed
  <2>2. CASE Parse(ts).kind \in {Update, Delete}
    <3>1. NoOpening(ts)
      BY <2>2, OpeningIsNoSeparator, AcceptedUpdate, AcceptedDelete DEF NoOpening
    <3> QED
      BY <3>1, SameTokens DEF Accepted, NoOpening, Listed
  <2> QED
    BY <2>1, <2>2 DEF LoggedKinds
<1>3. \E X : Sanitized(ts) \in Seq(X)
  <2> DEFINE line == Sanitized(ts)
             tokens == { line[p] : p \in 1 .. Len(ts) }
  <2>1. DOMAIN line = 1 .. Len(ts)
    BY SanitizedTokens, PastTheEnd DEF Accepted
  <2>2. line \in [1 .. Len(ts) -> tokens]
    BY <2>1 DEF Sanitized
  <2> HIDE DEF line, tokens
  <2>3. line \in Seq(tokens)
    BY <1>1, <2>2
  <2> QED
    BY <2>3 DEF line
<1> QED
  BY <1>1, <1>2, <1>3

LEMMA SeqOfMore ==
  ASSUME NEW X, NEW Y, NEW s \in Seq(X)
  PROVE  s \in Seq(X \cup Y) /\ s \in Seq(Y \cup X)
<1>1. s \in [1 .. Len(s) -> X] /\ Len(s) \in Nat
  OBVIOUS
<1>2. s \in [1 .. Len(s) -> X \cup Y] /\ s \in [1 .. Len(s) -> Y \cup X]
  BY <1>1
<1> QED
  BY <1>1, <1>2

(* The texts that the next append leaves of a torn line *)
LEMMA JoinedListsEnd ==
  ASSUME NEW line, Listed(line), NEW X, line \in Seq(X),
         NEW next, Listed(next), NEW Y, next \in Seq(Y),
         NEW a, NEW b, NEW name
  PROVE  /\ InsertReturns(<<Id(name), Num(b)>> \o next)
         /\ \A m \in 0 .. Len(line) :
              InsertReturns(SubSeq(line, 1, m) \o <<Num(a), Id(name), Num(b)>> \o next)
<1> DEFINE Z == (X \cup Y) \cup {Num(a), Id(name), Num(b)}
           two == <<Id(name), Num(b)>>
           three == <<Num(a), Id(name), Num(b)>>
<1>1. line \in Seq(Z) /\ next \in Seq(Z)
  <2>1. line \in Seq(X \cup Y) /\ next \in Seq(X \cup Y)
    BY SeqOfMore
  <2> QED
    BY <2>1, SeqOfMore
<1>2. /\ two \in Seq(Z) /\ Len(two) = 2 /\ three \in Seq(Z) /\ Len(three) = 3
      /\ At(two, 1) = Id(name) /\ At(two, 2) = Num(b)
      /\ At(three, 1) = Num(a) /\ At(three, 2) = Id(name) /\ At(three, 3) = Num(b)
  <2> DEFINE x == Num(a)
             y == Id(name)
             z == Num(b)
  <2> HIDE DEF x, y, z
  <2>1. x \in Z /\ y \in Z /\ z \in Z
    BY DEF x, y, z
  <2> HIDE DEF Z
  <2>2. /\ <<y, z>> \in Seq(Z) /\ Len(<<y, z>>) = 2 /\ <<x, y, z>> \in Seq(Z) /\ Len(<<x, y, z>>) = 3
        /\ At(<<y, z>>, 1) = y /\ At(<<y, z>>, 2) = z
        /\ At(<<x, y, z>>, 1) = x /\ At(<<x, y, z>>, 2) = y /\ At(<<x, y, z>>, 3) = z
    BY <2>1 DEF At
  <2> QED
    BY <2>2 DEF x, y, z
<1>3. Num(a)[1] = "Number" /\ Num(b)[1] = "Number" /\ Id(name)[1] = "Identifier"
  BY DEF Num, Id
<1> HIDE DEF Z, two, three
<1>4. ASSUME NEW t \in Seq(Z)
      PROVE  Len(t) \in Nat /\ \A p : p \notin 1 .. Len(t) => At(t, p)[1] = "End"
  BY DEF At
<1>5. InsertReturns(two \o next)
  <2> DEFINE t == two \o next
  <2>1. /\ t \in Seq(Z)
        /\ \A p \in 1 .. 2 : At(t, p) = At(two, p)
        /\ \A p \in Nat \ {0} : At(t, 2 + p) = At(next, p)
    <3>1. IsJoined(two \o next, two, next, Z)
      BY <1>1, <1>2, JoinedIs
    <3> QED
      BY <1>2, <3>1 DEF IsJoined
  <2> HIDE DEF t
  <2>2. \A p \in 1 .. 2 : ~(At(t, p)[1] = "Symbol")
    <3>1. 1 \in 1 .. 2 /\ 2 \in 1 .. 2 /\ \A p \in 1 .. 2 : p = 1 \/ p = 2
      OBVIOUS
    <3> QED
      BY <1>2, <1>3, <2>1, <3>1
  <2>3. Continues(t, line, 0, 2, next)
    BY <1>4, <2>1, <2>2 DEF Continues
  <2>4. InsertReturns(t)
    BY <2>3, ContinuedListsEnd
  <2> QED
    BY <2>4 DEF t
<1>6. ASSUME NEW m \in 0 .. Len(line)
      PROVE  InsertReturns(SubSeq(line, 1, m) \o three \o next)
  <2> DEFINE short == SubSeq(line, 1, m)
             head == short \o three
             t == head \o next
  <2>1. /\ short \in Seq(Z) /\ Len(short) = m /\ m \in Nat
        /\ \A p \in 1 .. m : At(short, p) = At(line, p)
    <3>1. /\ short \in Seq(Z) /\ Len(short) = m /\ m \in Nat
          /\ DOMAIN short = 1 .. m /\ DOMAIN line = 1 .. Len(line) /\ Len(line) \in Nat
          /\ \A p \in 1 .. m : short[p] = line[p]
      BY <1>1
    <3> HIDE DEF short
    <3>2. 1 .. m \subseteq 1 .. Len(line)
      BY <3>1
    <3> QED
      BY <3>1, <3>2 DEF At
  <2> HIDE DEF short
  <2>2. /\ head \in Seq(Z) /\ Len(head) = m + 3
        /\ \A p \in 1 .. m : At(head, p) = At(short, p)
        /\ \A p \in Nat \ {0} : At(head, m + p) = At(three, p)
    <3>1. IsJoined(short \o three, short, three, Z)
      BY <1>2, <2>1, JoinedIs
    <3> QED
      BY <1>2, <2>1, <3>1 DEF IsJoined
  <2> HIDE DEF head
  <2>3. /\ t \in Seq(Z)
        /\ \A p \in 1 .. m + 3 : At(t, p) = At(head, p)
        /\ \A p \in Nat \ {0} : At(t, (m + 3) + p) = At(next, p)
    <3>1. IsJoined(head \o next, head, next, Z)
      BY <1>1, <2>2, JoinedIs
    <3> QED
      BY <2>2, <3>1 DEF IsJoined
  <2> HIDE DEF t
  <2>4. \A p \in 1 .. m : At(t, p) = At(line, p)
    BY <2>1, <2>2, <2>3
  <2>5. At(t, m + 1) = Num(a) /\ At(t, m + 2) = Id(name) /\ At(t, m + 3) = Num(b)
    <3>1. At(head, m + 1) = Num(a) /\ At(head, m + 2) = Id(name) /\ At(head, m + 3) = Num(b)
      BY <1>2, <2>2
    <3>2. m + 1 \in 1 .. m + 3 /\ m + 2 \in 1 .. m + 3 /\ m + 3 \in 1 .. m + 3
      BY <2>1
    <3> QED
      BY <2>3, <3>1, <3>2
  <2>6. \A p \in m + 1 .. m + 3 : ~(At(t, p)[1] = "Symbol")
    <3>1. \A p \in m + 1 .. m + 3 : p = m + 1 \/ p = m + 2 \/ p = m + 3
      BY <2>1
    <3> QED
      BY <1>3, <2>5, <3>1
  <2>7. Continues(t, line, m, m + 3, next)
    <3>1. m \in Nat /\ m + 3 \in Nat /\ m <= m + 3 /\ m < m + 3
      BY <2>1
    <3> QED
      BY <1>3, <1>4, <2>3, <2>4, <2>5, <2>6, <3>1 DEF Continues
  <2>8. InsertReturns(t)
    BY <2>7, ContinuedListsEnd
  <2> QED
    BY <2>8 DEF t, head, short
<1> QED
  BY <1>5, <1>6 DEF two, three

LEMMA SqlReplaced ==
  ASSUME NEW line, IsRequest(line), NEW text, NEW key
  PROVE  /\ [line EXCEPT !.partition = key, !.sql = text].sql = text
         /\ [line EXCEPT !.sql = text].sql = text
<1> DEFINE k == line.kind
           t == line.table
           p == line.partition
           a == line.aggregate
           q == line.sql
<1>1. line = [kind |-> k, table |-> t, partition |-> p, aggregate |-> a, sql |-> q]
  BY DEF IsRequest
<1> HIDE DEF k, t, p, a, q
<1> QED
  BY <1>1

(* The executor's loop over a list of columns ends for every text the       *)
(* parser lets through, and for every torn line it replays, or torn line    *)
(* that another continued. (ParseIdentList, ReplayWal.)                     *)
THEOREM TableStoreColumnListsEnd ==
  Spec => []ColumnListsEnd
<1>1. Stored => ColumnListsEnd
  <2> SUFFICES ASSUME Stored PROVE ColumnListsEnd
    OBVIOUS
  <2>1. ASSUME NEW c \in Client, Stage(c, "valid"), call[c].request.kind = Insert
        PROVE  InsertReturns(call[c].request.sql)
    <3>1. PICK ts : Accepted(ts) /\ call[c].request = Request(Parse(ts), ts)
      BY <2>1 DEF Stored, Calls, Written
    <3>2. call[c].request.sql = ts /\ Parse(ts).kind = Insert
      BY <2>1, <3>1 DEF Request
    <3> QED
      BY <3>1, <3>2, ListsOfTextEnd, TextBegins DEF Accepted, LoggedKinds
  <2>2. ASSUME tail # NoTail
        PROVE  InsertReturns(ReadTorn(tail.line, tail.cut).sql)
    <3> DEFINE line == tail.line
               cut == tail.cut
    <3>1. WrittenLine(line) /\ cut \in Cuts(line)
      BY <2>2 DEF Stored, Torn
    <3>2. PICK ts : /\ Accepted(ts) /\ Parse(ts).kind \in LoggedKinds
                    /\ line = LineOf(Request(Parse(ts), ts))
      BY <3>1 DEF WrittenLine
    <3>3. KnownRequest(line) /\ IsRequest(line) /\ Len(line.sql) \in Nat
      BY <3>1, KnownLine
    <3>4. line.sql = Sanitized(ts) /\ Len(line.sql) = Len(ts)
      BY <3>2, SanitizedTokens DEF LineOf, Request, Accepted
    <3> DEFINE t == ReadTorn(line, cut).sql
    <3>5. t = <<>> \/ \E m \in 0 .. Len(ts) : t = SubSeq(Sanitized(ts), 1, m)
      <4>1. \/ cut[1] \in {"kind", "table", "key"}
            \/ cut[1] = "text" /\ cut[2] \in 0 .. Len(line.sql)
        BY <3>1, <3>3, CutKinds DEF KnownRequest
      <4>2. \A name, key : FactsOnly(line, name, key).sql = <<>>
        BY <3>3, FactsAre
      <4>3. \A n : [line EXCEPT !.sql = SubSeq(@, 1, n)].sql = SubSeq(line.sql, 1, n)
        BY <3>3, SqlReplaced
      <4> HIDE DEF line, cut
      <4>4. CASE cut[1] \in {"kind", "table", "key"}
        BY <4>2, <4>4 DEF ReadTorn
      <4>5. CASE cut[1] = "text" /\ cut[2] \in 0 .. Len(line.sql)
        BY <3>4, <4>3, <4>5 DEF ReadTorn
      <4> QED
        BY <4>1, <4>4, <4>5
    <3> HIDE DEF t, line, cut
    <3>6. Begins(t, Sanitized(ts))
      BY <3>2, <3>5, TextBegins DEF Accepted
    <3> QED
      BY <3>2, <3>6, ListsOfTextEnd DEF t, line, cut
  <2>3. ASSUME tail # NoTail, NEW c \in Client, Applied(c)
        PROVE  InsertReturns(Glued(tail, Line(c)).sql)
    <3> DEFINE line == tail.line
               cut == tail.cut
               next == Line(c)
    <3>1. WrittenLine(line) /\ cut \in Cuts(line) /\ WrittenLine(next)
      BY <2>3, LineIsWritten DEF Stored, Torn, Calls
    <3>2. PICK ts : /\ Accepted(ts) /\ Parse(ts).kind \in LoggedKinds
                    /\ line = LineOf(Request(Parse(ts), ts))
      BY <3>1 DEF WrittenLine
    <3>3. PICK us : /\ Accepted(us) /\ Parse(us).kind \in LoggedKinds
                    /\ next = LineOf(Request(Parse(us), us))
      BY <3>1 DEF WrittenLine
    <3>4. line.sql = Sanitized(ts) /\ next.sql = Sanitized(us)
      BY <3>2, <3>3 DEF LineOf, Request
    <3>5. KnownRequest(line) /\ IsRequest(line)
      BY <3>1, KnownLine
    <3>6. \/ cut[1] \in {"kind", "table", "key"}
          \/ cut[1] = "text" /\ cut[2] \in 0 .. Len(line.sql)
      BY <3>1, <3>5, CutKinds DEF KnownRequest
    <3>7. /\ Listed(line.sql) /\ Listed(next.sql)
          /\ \E X : line.sql \in Seq(X)
          /\ \E X : next.sql \in Seq(X)
      BY <3>2, <3>3, <3>4, LinesAreListed
    <3>8. \A name, key : FactsOnly(line, name, key).sql = <<>>
      BY <3>5, FactsAre
    <3>9. \A text, key : /\ [line EXCEPT !.partition = key, !.sql = text].sql = text
                         /\ [line EXCEPT !.sql = text].sql = text
      BY <3>5, SqlReplaced
    <3>10. InsertReturns(<<>>)
      BY <3>2, ListsOfTextEnd, TextBegins DEF Accepted
    <3> HIDE DEF line, cut, next
    <3>11. /\ InsertReturns(<<Id(next.table), Num(next.partition)>> \o next.sql)
           /\ \A m \in 0 .. Len(line.sql) :
                InsertReturns(SubSeq(line.sql, 1, m) \o
                                <<Num(next.kind), Id(next.table), Num(next.partition)>> \o next.sql)
      BY <3>7, JoinedListsEnd
    <3> DEFINE glued == Glued(tail, next)
    <3>12. CASE cut[1] = "kind"
      BY <3>10, <3>12 DEF Glued, Nothing, cut, next
    <3>13. CASE cut[1] = "table"
      BY <3>8, <3>10, <3>13 DEF Glued, cut, line, next
    <3>14. CASE cut[1] = "key"
      <4>1. Glued(tail, next) = GluedKey(tail, next)
        BY <3>14 DEF Glued, cut
      <4>2. GluedKey(tail, next).sql \in {<<>>, <<Id(next.table), Num(next.partition)>> \o next.sql}
        BY <3>8, <3>9 DEF GluedKey, line
      <4> QED
        BY <3>10, <3>11, <4>1, <4>2 DEF next
    <3>15. CASE cut[1] = "text" /\ cut[2] \in 0 .. Len(line.sql)
      <4> DEFINE text == SubSeq(line.sql, 1, cut[2]) \o
                           <<Num(next.kind), Id(next.table), Num(next.partition)>> \o next.sql
      <4>1. Glued(tail, next) = [line EXCEPT !.sql = text]
        BY <3>15 DEF Glued, cut, line
      <4>2. InsertReturns(text)
        BY <3>11, <3>15
      <4> HIDE DEF text
      <4> QED
        BY <3>9, <4>1, <4>2 DEF next
    <3> QED
      BY <3>6, <3>12, <3>13, <3>14, <3>15
  <2> QED
    BY <2>1, <2>2, <2>3 DEF ColumnListsEnd
<1> QED
  BY <1>1, TableStoreStored, PTL

--------------------------------------------------------------------------------
(* The row an INSERT names.  The executor counts columns and values; with   *)
(* as many of the one as of the other it pairs them as the parser does.     *)

LEMMA Spread ==
  ASSUME NEW a \in Nat, NEW k \in Nat
  PROVE  Cardinality({ a + 2 * i : i \in 1 .. k }) = k
<1> DEFINE T == { a + 2 * i : i \in 1 .. k }
           f == [i \in 1 .. k |-> a + 2 * i]
<1>1. f \in Bijection(1 .. k, T)
  <2>1. f \in [1 .. k -> T]
    OBVIOUS
  <2>2. \A i, j \in 1 .. k : f[i] = f[j] => i = j
    OBVIOUS
  <2>3. \A x \in T : \E i \in 1 .. k : f[i] = x
    OBVIOUS
  <2> HIDE DEF f, T
  <2> QED
    BY <2>1, <2>2, <2>3 DEF Bijection, Injection, Surjection, IsInjective
<1>2. ExistsBijection(1 .. k, T)
  BY <1>1 DEF ExistsBijection
<1>3. IsFiniteSet(1 .. k) /\ Cardinality(1 .. k) = k
  BY FS_Interval
<1> HIDE DEF T
<1>4. Cardinality(T) = k
  BY <1>2, <1>3, FS_Bijection
<1> QED
  BY <1>4 DEF T

LEMMA Ranks ==
  ASSUME NEW a \in Nat, NEW n \in Nat, NEW S, S = { a + 2 * i : i \in 1 .. n }
  PROVE  Cardinality(S) = n /\ \A i \in 1 .. n : Rank(S, a + 2 * i) = i
<1>1. ASSUME NEW i \in 1 .. n
      PROVE  Rank(S, a + 2 * i) = i
  <2>1. { q \in S : q <= a + 2 * i } = { a + 2 * j : j \in 1 .. i }
    <3>1. ASSUME NEW q \in S, q <= a + 2 * i
          PROVE  q \in { a + 2 * j : j \in 1 .. i }
      <4>1. PICK j \in 1 .. n : q = a + 2 * j
        OBVIOUS
      <4>2. j \in 1 .. i
        BY <3>1, <4>1
      <4> QED
        BY <4>1, <4>2
    <3>2. ASSUME NEW j \in 1 .. i
          PROVE  a + 2 * j \in S /\ a + 2 * j <= a + 2 * i
      <4>1. j \in 1 .. n
        OBVIOUS
      <4> QED
        BY <4>1
    <3> QED
      BY <3>1, <3>2
  <2>2. i \in Nat
    OBVIOUS
  <2>3. Cardinality({ a + 2 * j : j \in 1 .. i }) = i
    BY <2>2, Spread
  <2> QED
    BY <2>1, <2>3 DEF Rank
<1> QED
  BY <1>1, Spread

(* The columns and the values the executor finds *)
LEMMA InsertLists ==
  ASSUME NEW t, Begins(t, t), NEW n, IsInsert(t, n)
  PROVE  /\ IdentList(t, Columns(t)) = { 3 + 2 * i : i \in 1 .. n }
         /\ LiteralList(t, Values(t)) = { 5 + 2 * n + 2 * i : i \in 1 .. n }
<1> DEFINE m == Len(t)
           from == 5 + 2 * n
           S == { q \in 4 + 2 * n .. m : Keyword(t, q, "values") } \cup {m + 1}
           T == { q \in 6 + 2 * n + 1 .. m : Symbol(t, q, ")") } \cup {m + 1}
<1>1. /\ m \in Nat /\ n \in Nat \ {0}
      /\ \A p : p \notin 1 .. m => ~Identifier(t, p) /\ At(t, p)[1] = "End" /\ \A c : ~Symbol(t, p, c)
  BY BeginsTokens DEF IsInsert
<1>2. 6 + 4 * n <= m
  <2>1. 6 + 4 * n \in 1 .. m
    BY <1>1 DEF IsInsert
  <2> QED
    BY <1>1, <2>1
<1>3. Columns(t) = 4 /\ IdentListStop(t, 4) = 4 + 2 * n /\ Symbol(t, 4, "(")
  <2>1. Len(t) >= 4 /\ Len(t) >= 4 + 2 * n
    BY <1>1, <1>2
  <2> HIDE DEF m
  <2> QED
    BY <2>1, InsertWalk DEF IsInsert
<1>4. IdentList(t, Columns(t)) = { 3 + 2 * i : i \in 1 .. n }
  <2>1. IdentList(t, Columns(t)) = { q \in 5 .. 3 + 2 * n : Identifier(t, q) }
    <3>1. 4 + 1 = 5 /\ (4 + 2 * n) - 1 = 3 + 2 * n
      BY <1>1
    <3>2. IdentList(t, 4) = { q \in 4 + 1 .. IdentListStop(t, 4) - 1 : Identifier(t, q) }
      BY <1>3 DEF IdentList
    <3> QED
      BY <1>3, <3>1, <3>2
  <2>2. ASSUME NEW q \in 5 .. 3 + 2 * n, Identifier(t, q)
        PROVE  q \in { 3 + 2 * i : i \in 1 .. n }
    <3>1. (\E i \in 0 .. n : q = 3 + 2 * i) \/ (\E i \in 0 .. n - 1 : q = 4 + 2 * i)
      <4>1. q \in Nat /\ n \in Nat /\ 3 <= q /\ q < 4 + 2 * n
        BY <1>1
      <4> QED
        BY <4>1, OddOrEven
    <3>2. ASSUME NEW i \in 0 .. n - 1, q = 4 + 2 * i
          PROVE  FALSE
      <4>1. i \in 1 .. n - 1
        BY <1>1, <3>2
      <4>2. Symbol(t, q, Comma)
        BY <3>2, <4>1 DEF IsInsert
      <4> QED
        BY <2>2, <4>2 DEF Symbol, Identifier
    <3>3. PICK i \in 0 .. n : q = 3 + 2 * i
      BY <3>1, <3>2
    <3>4. i \in 1 .. n
      BY <1>1, <3>3
    <3> QED
      BY <3>3, <3>4
  <2>3. ASSUME NEW i \in 1 .. n
        PROVE  3 + 2 * i \in 5 .. 3 + 2 * n /\ Identifier(t, 3 + 2 * i)
    BY <1>1 DEF IsInsert
  <2> QED
    BY <2>1, <2>2, <2>3
<1>5. Values(t) = 6 + 2 * n
  <2>1. SkipToKeyword(t, 4 + 2 * n, "values") = First(S)
    BY DEF SkipToKeyword
  <2>2. from \in S /\ \A q \in S : q \in Nat /\ from <= q
    <3>1. ~Keyword(t, 4 + 2 * n, "values")
      BY DEF IsInsert, Keyword, Symbol, Identifier
    <3>2. Keyword(t, from, "values") /\ from \in 4 + 2 * n .. m
      BY <1>1, <1>2 DEF IsInsert
    <3>3. ASSUME NEW q \in 4 + 2 * n .. m, Keyword(t, q, "values")
          PROVE  from <= q
      <4>1. q # 4 + 2 * n
        BY <3>1, <3>3
      <4> QED
        BY <1>1, <4>1
    <3> QED
      BY <1>1, <1>2, <3>2, <3>3
  <2> HIDE DEF S, from
  <2>3. First(S) = from
    BY <2>2, FirstIs
  <2>4. Values(t) = from + 1
    BY <1>3, <2>1, <2>3 DEF Values
  <2> QED
    BY <1>1, <2>4 DEF from
<1>6. ASSUME NEW q \in Nat, 7 + 2 * n <= q, q < 6 + 4 * n
      PROVE  \/ \E i \in 1 .. n : q = from + 2 * i /\ IsLiteral(t, q)
             \/ Symbol(t, q, Comma)
  <2> DEFINE x == q - (2 + 2 * n)
  <2>1. x \in Nat /\ 3 <= x /\ 5 <= x /\ x < 4 + 2 * n /\ q = x + 2 + 2 * n /\ n \in Nat
    BY <1>1, <1>6
  <2> HIDE DEF x
  <2>2. (\E i \in 0 .. n : x = 3 + 2 * i) \/ (\E i \in 0 .. n - 1 : x = 4 + 2 * i)
    BY <2>1, OddOrEven
  <2>3. ASSUME NEW i \in 0 .. n, x = 3 + 2 * i
        PROVE  i \in 1 .. n /\ q = from + 2 * i
    BY <1>1, <2>1, <2>3
  <2>4. ASSUME NEW i \in 0 .. n - 1, x = 4 + 2 * i
        PROVE  i \in 1 .. n - 1 /\ q = 6 + 2 * n + 2 * i
    BY <1>1, <2>1, <2>4
  <2> QED
    BY <2>2, <2>3, <2>4 DEF IsInsert
<1>7. LiteralListStop(t, 6 + 2 * n) = 6 + 4 * n
  <2>1. LiteralListStop(t, 6 + 2 * n) = First(T)
    BY DEF LiteralListStop
  <2>2. 6 + 4 * n \in T
    BY <1>1, <1>2 DEF IsInsert
  <2>3. ASSUME NEW q \in T, ~(6 + 4 * n <= q)
        PROVE  FALSE
    <3>1. q \in Nat /\ 7 + 2 * n <= q /\ q < 6 + 4 * n /\ Symbol(t, q, ")")
      BY <1>1, <1>2, <2>3
    <3>2. IsLiteral(t, q) \/ Symbol(t, q, Comma)
      BY <1>6, <3>1
    <3> QED
      BY <3>1, <3>2, CommaIsNoOther DEF IsLiteral, Symbol
  <2>4. \A q \in T : q \in Nat
    BY <1>1
  <2> HIDE DEF T
  <2>5. First(T) = 6 + 4 * n
    BY <2>2, <2>3, <2>4, FirstIs
  <2> QED
    BY <2>1, <2>5
<1>8. LiteralList(t, Values(t)) = { from + 2 * i : i \in 1 .. n }
  <2>1. LiteralList(t, Values(t)) = { q \in 7 + 2 * n .. 5 + 4 * n : IsLiteral(t, q) }
    <3> DEFINE p == 6 + 2 * n
               stop == LiteralListStop(t, p)
    <3>1. Symbol(t, p, "(") /\ p + 1 = 7 + 2 * n /\ stop - 1 = 5 + 4 * n
      BY <1>1, <1>7 DEF IsInsert
    <3> HIDE DEF p
    <3>2. LiteralList(t, p) = { q \in p + 1 .. stop - 1 : IsLiteral(t, q) }
      BY <3>1 DEF LiteralList
    <3> QED
      BY <1>5, <3>1, <3>2 DEF p
  <2>2. ASSUME NEW q \in 7 + 2 * n .. 5 + 4 * n, IsLiteral(t, q)
        PROVE  q \in { from + 2 * i : i \in 1 .. n }
    <3>1. ~Symbol(t, q, Comma)
      BY <2>2 DEF IsLiteral, Symbol
    <3>2. q \in Nat /\ 7 + 2 * n <= q /\ q < 6 + 4 * n
      BY <1>1
    <3> QED
      BY <1>6, <3>1, <3>2
  <2>3. ASSUME NEW i \in 1 .. n
        PROVE  from + 2 * i \in 7 + 2 * n .. 5 + 4 * n /\ IsLiteral(t, from + 2 * i)
    BY <1>1 DEF IsInsert
  <2> HIDE DEF from
  <2> QED
    BY <2>1, <2>2, <2>3
<1> QED
  BY <1>4, <1>8

LEMMA InsertedValue ==
  ASSUME NEW t, Begins(t, t), NEW n, IsInsert(t, n), NEW i \in 1 .. n,
         NEW key, key = Lower(Text(t, 3 + 2 * i)),
         \A j \in 1 .. n : Lower(Text(t, 3 + 2 * j)) = key => j = i
  PROVE  key \in DOMAIN InsertedRow(t) /\ InsertedRow(t)[key] = Text(t, 5 + 2 * n + 2 * i)
<1> DEFINE columns == IdentList(t, Columns(t))
           values == LiteralList(t, Values(t))
           filled == { p \in columns : Rank(columns, p) <= Cardinality(values) }
           value(p) == CHOOSE q \in values : Rank(values, q) = Rank(columns, p)
           of(name) == { p \in filled : Lower(Text(t, p)) = name }
           names == { Lower(Text(t, p)) : p \in filled }
<1>1. InsertedRow(t) = [name \in names |-> Text(t, value(Last(of(name))))]
  BY DEF InsertedRow
<1>2. n \in Nat \ {0} /\ n \in Nat /\ 5 + 2 * n \in Nat /\ 3 \in Nat
  BY DEF IsInsert
<1>3. /\ columns = { 3 + 2 * j : j \in 1 .. n }
      /\ values = { 5 + 2 * n + 2 * j : j \in 1 .. n }
  BY InsertLists
<1> HIDE DEF columns, values
<1>4. Cardinality(columns) = n /\ \A j \in 1 .. n : Rank(columns, 3 + 2 * j) = j
  BY <1>2, <1>3, Ranks
<1>5. Cardinality(values) = n /\ \A j \in 1 .. n : Rank(values, 5 + 2 * n + 2 * j) = j
  BY <1>2, <1>3, Ranks
<1>6. filled = columns
  <2>1. \A p \in columns : Rank(columns, p) <= n
    BY <1>2, <1>3, <1>4
  <2> QED
    BY <1>5, <2>1
<1>7. 3 + 2 * i \in columns /\ of(key) = {3 + 2 * i}
  <2>1. 3 + 2 * i \in columns
    BY <1>3
  <2>2. ASSUME NEW p \in columns, Lower(Text(t, p)) = key
        PROVE  p = 3 + 2 * i
    BY <1>3, <2>2
  <2> HIDE DEF filled
  <2> QED
    BY <1>6, <2>1, <2>2
<1>8. Last(of(key)) = 3 + 2 * i
  <2> DEFINE x == 3 + 2 * i
  <2>1. x \in Nat
    BY <1>2
  <2> HIDE DEF x
  <2>2. Last({x}) = x
    BY <2>1 DEF Last
  <2> QED
    BY <1>7, <2>2 DEF x
<1>9. value(3 + 2 * i) = 5 + 2 * n + 2 * i
  <2>1. 5 + 2 * n + 2 * i \in values /\ Rank(values, 5 + 2 * n + 2 * i) = Rank(columns, 3 + 2 * i)
    BY <1>3, <1>4, <1>5
  <2>2. \A q \in values : Rank(values, q) = Rank(columns, 3 + 2 * i) => q = 5 + 2 * n + 2 * i
    BY <1>3, <1>4, <1>5
  <2> QED
    BY <2>1, <2>2
<1>10. key \in names
  BY <1>6, <1>7
<1> HIDE DEF names, value, of
<1> QED
  BY <1>1, <1>8, <1>9, <1>10

(* The parser's key of a plain INSERT is the executor's value of that column *)
LEMMA InsertKey ==
  ASSUME KeyMax < ULongMax, NEW ts, Accepted(ts), IsPlain(ts), Parse(ts).kind = Insert,
         NEW t, t = ts \/ t = Sanitized(ts)
  PROVE  LET key == DistributionKey[Lower(Parse(ts).table)]
         IN  key \in DOMAIN InsertedRow(t) /\ NumberOf[InsertedRow(t)[key]] = Parse(ts).partition
<1> DEFINE n == ListLength(ts, 5, 1)
           key == KeyColumn(ts, 3)
           named == { i \in 1 .. n : Lower(Text(ts, Item(5, i, 1))) = key }
           first == CHOOSE i \in named : \A j \in named : i <= j
           at == 5 + 2 * n + 2 * first
<1>1. /\ IsInsert(ts, n) /\ TableKnown(ts, 3)
      /\ \A i \in 1 .. n : Literal(ts, 5 + 2 * n + 2 * i)
      /\ Parse(ts).table = Text(ts, 3) /\ Parse(ts).partition = InsertPartition(ts, n)
  BY AcceptedInsert
<1>2. n \in Nat \ {0} /\ Keyword(ts, 1, "insert") /\ IsText(ts) /\ Parse(ts).partition # NoPartition
  BY <1>1 DEF IsInsert, Accepted, Valid
<1>3. key = DistributionKey[Lower(Parse(ts).table)]
  BY <1>1 DEF KeyColumn
<1>4. /\ named # {}
      /\ InsertPartition(ts, n) = LiteralValue(ts, Item(InsertValues(n), first, 1))
  BY <1>1, <1>2 DEF InsertPartition
<1> HIDE DEF n
<1>5. \A i \in 1 .. n : Item(5, i, 1) = 3 + 2 * i /\ Item(InsertValues(n), i, 1) = 5 + 2 * n + 2 * i
  BY <1>2 DEF Item, InsertValues, ListEnd
<1>6. first \in named
  <2>1. named \in SUBSET Nat
    BY <1>2
  <2> HIDE DEF named
  <2>2. \E i \in named : \A j \in named : i <= j
    BY <1>4, <2>1, SmallestOf
  <2> QED
    BY <2>2
<1>7. first \in 1 .. n /\ key = Lower(Text(ts, 3 + 2 * first))
  BY <1>5, <1>6
<1> HIDE DEF first, key, named
<1>8. \A j \in 1 .. n : Lower(Text(ts, 3 + 2 * j)) = key => j = first
  <2> SUFFICES ASSUME NEW j \in 1 .. n, Lower(Text(ts, 3 + 2 * j)) = key
               PROVE  j = first
    OBVIOUS
  <2>1. Identifier(ts, 3 + 2 * j) /\ Identifier(ts, 3 + 2 * first)
    BY <1>1, <1>7 DEF IsInsert
  <2>2. 3 + 2 * j \in 1 .. Len(ts) /\ 3 + 2 * first \in 1 .. Len(ts) /\ Len(ts) \in Nat
    BY <1>2, <2>1, PastTheEnd
  <2>3. 3 + 2 * j \in 4 .. Len(ts) /\ 3 + 2 * first \in 4 .. Len(ts)
    BY <1>2, <1>7, <2>2
  <2>4. Keyword(ts, 3 + 2 * j, KeyColumn(ts, 3)) /\ Keyword(ts, 3 + 2 * first, KeyColumn(ts, 3))
    BY <1>7, <2>1 DEF Keyword, key
  <2>5. 3 + 2 * j = 3 + 2 * first
    BY <1>1, <1>2, <2>3, <2>4 DEF IsPlain
  <2> QED
    BY <1>2, <1>7, <2>5
<1>9. Parse(ts).partition = LiteralValue(ts, at) /\ Literal(ts, at)
  BY <1>1, <1>4, <1>5, <1>7
<1> HIDE DEF at
<1>10. /\ At(ts, at)[1] = "Number" /\ NumberOf[Text(ts, at)] = Parse(ts).partition
  <2>1. /\ At(ts, at)[1] = "Number" /\ Parse(ts).partition = StrToUL(Text(ts, at))
        /\ Text(ts, at) \in DOMAIN NumberOf
    BY <1>2, <1>9, LiteralValueKnown
  <2>2. StrToUL(Text(ts, at)) <= KeyMax
    BY <1>9, <2>1 DEF Literal
  <2>3. NumberOf[Text(ts, at)] \in Nat /\ KeyMax \in Nat /\ ULongMax \in Nat
    BY <2>1, TableStoreAssumption
  <2> QED
    BY <2>1, <2>2, <2>3 DEF StrToUL
<1>11. IsInsert(t, n) /\ Begins(t, t)
  <2>1. IsInsert(t, n)
    BY <1>1, <1>2, InsertLine
  <2>2. Len(t) \in Nat /\ DOMAIN t = 1 .. Len(t)
    BY <1>2, SanitizedTokens, PastTheEnd
  <2> QED
    BY <2>1, <2>2 DEF Begins, At
<1>12. \A j \in 1 .. n : Text(t, 3 + 2 * j) = Text(ts, 3 + 2 * j)
  BY <1>1, <1>2, SameTokens DEF IsInsert
<1>13. Text(t, at) = Text(ts, at)
  <2>1. ~IsString(ts, at)
    BY <1>10 DEF IsString
  <2>2. At(Sanitized(ts), at) = At(ts, at)
    BY <1>2, <2>1, SanitizedTokens
  <2> QED
    BY <2>2 DEF Text
<1>14. key \in DOMAIN InsertedRow(t) /\ InsertedRow(t)[key] = Text(t, at)
  <2>1. key = Lower(Text(t, 3 + 2 * first)) /\ \A j \in 1 .. n : Lower(Text(t, 3 + 2 * j)) = key => j = first
    BY <1>7, <1>8, <1>12
  <2> QED
    BY <1>7, <1>11, <2>1, InsertedValue DEF at
<1> QED
  BY <1>3, <1>10, <1>13, <1>14

(* Every row of a table names its key *)
Keyed(rws) ==
  \A at \in DOMAIN rws :
    /\ DistributionKey[at[1]] \in DOMAIN rws[at]
    /\ NumberOf[rws[at][DistributionKey[at[1]]]] = at[2]

LEMMA EffectKeyed ==
  ASSUME KeyMax < ULongMax, NEW ts, Accepted(ts), IsPlain(ts), Parse(ts).kind # Select,
         NEW r, r = Request(Parse(ts), ts) \/ r = LineOf(Request(Parse(ts), ts)),
         NEW rws, IsFunction(rws), Keyed(rws)
  PROVE  Keyed(Effect(rws, r))
<1> DEFINE at == RowOf(r)
           key == DistributionKey[at[1]]
           after == Effect(rws, r)
<1>1. /\ r.kind = Parse(ts).kind /\ Lower(r.table) = Lower(Parse(ts).table)
      /\ r.partition = Parse(ts).partition /\ (r.sql = ts \/ r.sql = Sanitized(ts))
  <2> DEFINE q == Request(Parse(ts), ts)
  <2>1. q.kind = Parse(ts).kind /\ q.table = Parse(ts).table /\ q.partition = Parse(ts).partition /\ q.sql = ts
    BY DEF Request
  <2>2. /\ LineOf(q).table = Lower(q.table) /\ LineOf(q).partition = q.partition
        /\ LineOf(q).kind = q.kind /\ LineOf(q).sql = Sanitized(ts)
    BY DEF LineOf, Request
  <2> HIDE DEF q
  <2>3. r = q \/ r = LineOf(q)
    BY DEF q
  <2> QED
    BY <2>1, <2>2, <2>3, LowerTwice
<1>2. at[1] = Lower(Parse(ts).table) /\ at[2] = Parse(ts).partition
  BY <1>1 DEF RowOf
<1>3. ASSUME NEW x, In(after, x), x # at
      PROVE  x \in DOMAIN rws /\ after[x] = rws[x]
  BY <1>3, EffectElsewhere DEF In
<1>4. /\ In(after, at) => r.kind = Insert \/ In(rws, at)
      /\ In(after, at) => after[at] = RowAfter(r, rws[at])
  BY EffectHere
<1> HIDE DEF at, after
<1>5. ASSUME In(after, at)
      PROVE  key \in DOMAIN after[at] /\ NumberOf[after[at][key]] = at[2]
  <2>1. CASE r.kind = Insert
    <3>1. after[at] = InsertedRow(r.sql)
      BY <1>4, <1>5, <2>1 DEF RowAfter
    <3>2. key \in DOMAIN InsertedRow(r.sql) /\ NumberOf[InsertedRow(r.sql)[key]] = Parse(ts).partition
      BY <1>1, <1>2, <2>1, InsertKey
    <3> QED
      BY <1>2, <3>1, <3>2
  <2>2. CASE r.kind # Insert
    <3>1. key \in DOMAIN rws[at] /\ NumberOf[rws[at][key]] = at[2]
      BY <1>4, <1>5, <2>2 DEF Keyed, In
    <3>2. CASE r.kind = Update
      <4>1. after[at] = Overriding(Assigned(r.sql), rws[at])
        BY <1>4, <1>5, <3>2 DEF RowAfter, Insert, Update
      <4>2. key \notin DOMAIN Assigned(r.sql)
        <5>1. /\ Keyword(ts, 1, "update") /\ TableKnown(ts, 2) /\ Parse(ts).table = Text(ts, 2)
          BY <1>1, <3>2, OpeningIsNoSeparator, AcceptedUpdate
        <5>2. key \notin DOMAIN Assigned(ts)
          BY <1>2, <5>1 DEF IsPlain, KeyColumn
        <5>3. DOMAIN Assigned(Sanitized(ts)) = DOMAIN Assigned(ts)
          <6>1. FlatRow(Assigned(Sanitized(ts))) = FlatRow(Assigned(ts))
            BY SameColumns DEF Accepted
          <6>2. \A f : DOMAIN FlatRow(f) = DOMAIN f
            BY DEF FlatRow
          <6> QED
            BY <6>1, <6>2
        <5> QED
          BY <1>1, <5>2, <5>3
      <4> HIDE DEF key
      <4> QED
        BY <3>1, <4>1, <4>2 DEF Overriding
    <3>3. CASE r.kind # Update
      BY <1>4, <1>5, <2>2, <3>1, <3>3 DEF RowAfter
    <3> QED
      BY <3>2, <3>3
  <2> QED
    BY <2>1, <2>2
<1>6. Keyed(after)
  <2> SUFFICES ASSUME NEW x \in DOMAIN after
               PROVE  /\ DistributionKey[x[1]] \in DOMAIN after[x]
                      /\ NumberOf[after[x][DistributionKey[x[1]]]] = x[2]
    BY DEF Keyed
  <2>1. CASE x = at
    BY <1>5, <2>1 DEF In
  <2>2. CASE x # at
    <3>1. x \in DOMAIN rws /\ after[x] = rws[x]
      BY <1>3, <2>2 DEF In
    <3> QED
      BY <3>1 DEF Keyed
  <2> QED
    BY <2>1, <2>2
<1> QED
  BY <1>6 DEF after

(* Without odd statements and torn lines that is so in memory and in the    *)
(* log, which needs no more of the environment than IsPlain of its texts.   *)
Plain == env.faults \cap {"odd", "torn"} = {}
KeyedStore == Plain => Keyed(rows) /\ Keyed(logged)

LEMMA PlainTexts ==
  ASSUME Stored, Plain
  PROVE  tail = NoTail /\ \A ts \in Texts(env) : IsPlain(ts)
BY TextsAssumption DEF Plain, Stored, Torn, Spent

LEMMA KeyedNext ==
  ASSUME KeyMax < ULongMax, Stored, KeyedStore, [Next]_vars
  PROVE  KeyedStore'
<1> SUFFICES ASSUME Plain'
             PROVE  Keyed(rows)' /\ Keyed(logged)'
  BY Zenon DEF KeyedStore
<1>1. env' = env
  <2>1. ASSUME NEW c \in Client, Submit(c)
        PROVE  env' = env
    BY <2>1 DEF Submit
  <2>2. ASSUME NEW c \in Client, Validate(c)
        PROVE  env' = env
    BY <2>2 DEF Validate
  <2>3. ASSUME NEW c \in Client, Execute(c)
        PROVE  env' = env
    BY <2>3 DEF Execute
  <2>4. ASSUME NEW c \in Client, AppendWhole(c) \/ AppendNothing(c) \/ AppendPart(c)
        PROVE  env' = env
    BY <2>4 DEF AppendWhole, AppendNothing, AppendPart, AnswerLogged
  <2>5. ASSUME NEW c \in Client, Return(c)
        PROVE  env' = env
    BY <2>5 DEF Return
  <2>6. ASSUME NEW c \in Client, CrashInAppend(c)
        PROVE  env' = env
    BY <2>6 DEF CrashInAppend, Restart
  <2>7. CASE Crash
    BY <2>7 DEF Crash, Restart
  <2>8. CASE UNCHANGED vars
    BY <2>8 DEF vars
  <2> QED
    BY <2>1, <2>2, <2>3, <2>4, <2>5, <2>6, <2>7, <2>8 DEF Next
<1>2. /\ Plain /\ Keyed(rows) /\ Keyed(logged) /\ tail = NoTail
      /\ \A ts \in Texts(env) : IsPlain(ts)
      /\ "torn" \notin env.faults
  BY <1>1, PlainTexts DEF Plain, KeyedStore
<1>3. IsFunction(rows) /\ IsFunction(logged)
  BY DEF Stored, Tables, IsTable
<1>4. ASSUME NEW c \in Client, Execute(c)
      PROVE  Keyed(rows') /\ Keyed(logged')
  <2> DEFINE r == call[c].request
  <2>1. rows' = Effect(rows, r) /\ logged' = logged
    BY <1>4 DEF Execute
  <2>2. PICK ts \in Texts(env) : Accepted(ts) /\ r = Request(Parse(ts), ts)
    BY <1>4 DEF Execute, Stored, Calls, Written
  <2> HIDE DEF r
  <2>3. CASE Parse(ts).kind # Select
    BY <1>2, <1>3, <2>1, <2>2, <2>3, EffectKeyed
  <2>4. CASE Parse(ts).kind = Select
    <3>1. r.kind = Select
      BY <2>2, <2>4 DEF Request
    <3>2. Effect(rows, r) = rows
      BY <3>1 DEF Effect, Select, Insert, Update, Delete
    <3> QED
      BY <1>2, <2>1, <3>2
  <2> QED
    BY <2>3, <2>4
<1>5. ASSUME NEW c \in Client, AppendWhole(c)
      PROVE  Keyed(rows') /\ Keyed(logged')
  <2>1. rows' = rows /\ logged' = Effect(logged, Line(c)) /\ Written(call[c].request)
        /\ call[c].request.kind \in LoggedKinds
    BY <1>2, <1>5, AnswerLoggedStep DEF AppendWhole, AnswerLogged, Extended
  <2>2. PICK ts \in Texts(env) : Accepted(ts) /\ call[c].request = Request(Parse(ts), ts)
    BY <2>1 DEF Written
  <2>3. Line(c) = LineOf(Request(Parse(ts), ts))
    BY <2>2 DEF Line
  <2>4. Parse(ts).kind # Select
    BY <2>1, <2>2 DEF Request, LoggedKinds, Select, Insert, Update, Delete
  <2> QED
    BY <1>2, <1>3, <2>1, <2>2, <2>3, <2>4, EffectKeyed
<1>6. CASE Crash
  <2>1. rows' = ReplayWal(logged, tail) /\ logged' = logged
    BY <1>6 DEF Crash, Restart
  <2> QED
    BY <1>2, <2>1 DEF ReplayWal
<1>7. ASSUME NEW c \in Client, AppendPart(c) \/ CrashInAppend(c)
      PROVE  FALSE
  BY <1>2, <1>7 DEF AppendPart, CrashInAppend, Tear
<1>8. ASSUME NEW c \in Client, Submit(c) \/ Validate(c) \/ Return(c) \/ AppendNothing(c)
      PROVE  Keyed(rows') /\ Keyed(logged')
  <2>1. rows' = rows /\ logged' = logged
    BY <1>8 DEF Submit, Validate, Return, AppendNothing, AnswerLogged
  <2> QED
    BY <1>2, <2>1
<1>9. CASE UNCHANGED vars
  BY <1>2, <1>9 DEF vars
<1> QED
  BY <1>4, <1>5, <1>6, <1>7, <1>8, <1>9 DEF Next

(* A row is stored under the key that it names, in memory and in the log,   *)
(* though the parser that finds the key and the executor that reads the row *)
(* do not share a grammar: unless a statement names the key twice, sets it, *)
(* or a line is torn.  It takes an unsigned long of more than 32 bits: where *)
(* it has 32, a literal that is too large is read as the largest key.       *)
(* (ParseInsert, ExpectLiteral, ExecuteLocked.)                             *)
THEOREM TableStoreRowsUnderTheirKey ==
  KeyMax < ULongMax => (Spec => []RowsUnderTheirKey)
<1> SUFFICES ASSUME KeyMax < ULongMax
             PROVE  Spec => []RowsUnderTheirKey
  OBVIOUS
<1>1. Init => KeyedStore
  BY DEF Init, KeyedStore, Keyed
<1>2. Stored /\ KeyedStore /\ [Next]_vars => KeyedStore'
  BY KeyedNext
<1>3. KeyedStore => RowsUnderTheirKey
  BY DEF KeyedStore, Plain, Keyed, RowsUnderTheirKey
<1> QED
  BY <1>1, <1>2, <1>3, TableStoreStored, PTL DEF Spec

--------------------------------------------------------------------------------
(* The refinement of DurableTable: where the log can be written, memory and *)
(* the log are exactly what was answered, and each call is about what its   *)
(* client asked.                                                            *)

Meant(k) ==
  /\ k.stage \in {"none", "sent", "valid", "applied", "answered"}
  /\ k.stage # "none" =>
       \/ k.asked \in env.statements /\ k.request.sql = Render(k.asked)
       \/ /\ k.asked = Garbled /\ "typos" \in env.faults
          /\ \E st \in env.statements : k.request.sql \in Typos(Render(st))
  /\ k.stage \in {"valid", "applied"} =>
       /\ Valid(Parse(k.request.sql))
       /\ k.request = Request(Parse(k.request.sql), k.request.sql)
  /\ k.stage = "applied" => k.answer = Response(served, k.request)
  /\ k.stage = "answered" => k.answer # NoAnswer

Exact ==
  Benign(env) =>
    /\ tail = NoTail /\ logged = served /\ rows = Ahead
    /\ \A c \in Client : Meant(call[c])

Mapped == Stored /\ Exact

(* A line without line breaks is its text. *)
LEMMA FlatLine ==
  ASSUME NEW ts, IsText(ts), IsFlat(ts), NEW statement, NEW rws
  PROVE  Effect(rws, LineOf(Request(statement, ts))) = Effect(rws, Request(statement, ts))
<1>1. Sanitized(ts) = ts
  <2>1. \A p \in DOMAIN ts : ts[p] = <<ts[p][1], ts[p][2]>> /\ Flat(ts[p][2]) = ts[p][2]
    BY DEF IsText, IsFlat, Flat
  <2>2. ts = [p \in DOMAIN ts |-> ts[p]]
    BY DEF IsText
  <2> QED
    BY <2>1, <2>2 DEF Sanitized
<1> DEFINE r == Request(statement, ts)
           line == LineOf(r)
<1>2. /\ line.table = Lower(r.table) /\ line.partition = r.partition
      /\ line.kind = r.kind /\ line.sql = r.sql
  BY <1>1 DEF LineOf, Request
<1>3. RowOf(line) = RowOf(r)
  BY <1>2, LowerTwice DEF RowOf
<1> HIDE DEF r, line
<1>4. Effect(rws, line) = Effect(rws, r)
  BY <1>2, <1>3 DEF Effect
<1> QED
  BY <1>4 DEF r, line

(* What a valid call does to the answered rows, and what it answers, is     *)
(* what DurableTable promises of the statement its client asked.            *)
LEMMA DoneAsMeant ==
  ASSUME StatementsReadAsMeant, TyposAreRefused, Spent, Benign(env),
         NEW k, Meant(k), k.stage \in {"valid", "applied"}
  PROVE  /\ k.asked \in env.statements /\ Table!Understood(k.asked)
         /\ Effect(served, k.request) = Table!After(k.asked)
         /\ Response(served, k.request) = Table!AnswerTo(k.asked)
<1> DEFINE ts == k.request.sql
           statement == Parse(ts)
           r == k.request
           st == k.asked
<1>1. /\ env \in Environments
      /\ Valid(statement) /\ r = Request(statement, ts)
  BY DEF Meant, Spent
<1>2. st \in env.statements /\ ts = Render(st)
  BY <1>1 DEF Meant, TyposAreRefused
<1>3. /\ Table!Understood(st)
      /\ st.verb \in DOMAIN KindOf /\ statement.kind = KindOf[st.verb]
      /\ <<Lower(statement.table), statement.partition>> = Table!RowOf(st)
      /\ st.verb = "insert" => InsertedRow(ts) = Table!Given(st)
      /\ st.verb = "update" => Assigned(ts) = Table!Given(st)
      /\ st.verb = "select" => statement.aggregate = st.count
  BY <1>1, <1>2 DEF StatementsReadAsMeant, ReadAsMeant
<1>4. /\ r.kind = statement.kind /\ r.table = statement.table /\ r.partition = statement.partition
      /\ r.aggregate = statement.aggregate
  BY <1>1 DEF Request
<1>5. RowOf(r) = Table!RowOf(st)
  BY <1>3, <1>4 DEF RowOf
<1> HIDE DEF ts, statement, r, st
<1>6. CASE st.verb = "insert"
  <2>1. r.kind = Insert
    BY <1>3, <1>4, <1>6 DEF KindOf
  <2>2. r.sql = ts
    BY DEF r, ts
  <2>3. Effect(served, r) = Overriding([at \in {RowOf(r)} |-> InsertedRow(r.sql)], served)
    BY <2>1 DEF Effect, Insert, Update, Delete
  <2>4. Table!After(st) = Overriding([at \in {RowOf(r)} |-> Table!Given(st)], served)
    BY <1>5, <1>6 DEF Table!After, Table!Overriding, Overriding
  <2>5. Response(served, r) = Table!AnswerTo(st)
    BY <1>6, <2>1 DEF Response, Table!AnswerTo, Answer, Table!Answer, NoRow, Table!NoRow
  <2>6. Assigned(r.sql) = Assigned(ts) /\ InsertedRow(r.sql) = InsertedRow(ts)
    BY <2>2
  <2>7. Effect(served, r) = Table!After(st)
    BY <1>3, <1>6, <2>3, <2>4, <2>6
  <2> QED
    BY <1>2, <1>3, <2>5, <2>7 DEF r, st
<1>7. CASE st.verb = "update"
  <2>1. r.kind = Update
    BY <1>3, <1>4, <1>7 DEF KindOf
  <2>2. r.sql = ts
    BY DEF r, ts
  <2>3. Effect(served, r) = IF RowOf(r) \in DOMAIN served
                            THEN [served EXCEPT ![RowOf(r)] = Overriding(Assigned(r.sql), @)]
                            ELSE served
    BY <2>1 DEF Effect, Insert, Update, Delete
  <2>4. Table!After(st) = IF RowOf(r) \in DOMAIN served
                          THEN [served EXCEPT ![RowOf(r)] = Overriding(Table!Given(st), @)]
                          ELSE served
    BY <1>5, <1>7 DEF Table!After, Table!Overriding, Overriding
  <2>5. Response(served, r) = Table!AnswerTo(st)
    BY <1>5, <1>7, <2>1
       DEF Response, Table!AnswerTo, Answer, Table!Answer, NoRow, Table!NoRow, Insert, Update
  <2>6. Assigned(r.sql) = Assigned(ts) /\ InsertedRow(r.sql) = InsertedRow(ts)
    BY <2>2
  <2>7. Effect(served, r) = Table!After(st)
    BY <1>3, <1>7, <2>3, <2>4, <2>6
  <2> QED
    BY <1>2, <1>3, <2>5, <2>7 DEF r, st
<1>8. CASE st.verb = "delete"
  <2>1. r.kind = Delete
    BY <1>3, <1>4, <1>8 DEF KindOf
  <2>2. Effect(served, r) = [at \in DOMAIN served \ {RowOf(r)} |-> served[at]]
    BY <2>1 DEF Effect, Insert, Update, Delete
  <2>3. Table!After(st) = [at \in DOMAIN served \ {RowOf(r)} |-> served[at]]
    BY <1>5, <1>8 DEF Table!After
  <2>4. Response(served, r) = Table!AnswerTo(st)
    BY <1>5, <1>8, <2>1
       DEF Response, Table!AnswerTo, Answer, Table!Answer, NoRow, Table!NoRow, Insert, Update, Delete
  <2> QED
    BY <1>2, <1>3, <1>8, <2>2, <2>3, <2>4 DEF r, st
<1>9. CASE st.verb = "select"
  <2>1. r.kind = Select /\ r.aggregate = st.count
    BY <1>3, <1>4, <1>9 DEF KindOf
  <2>2. Effect(served, r) = served
    BY <2>1 DEF Effect, Insert, Update, Delete, Select
  <2>3. Table!After(st) = served
    BY <1>9 DEF Table!After
  <2>4. Response(served, r) = Table!AnswerTo(st)
    BY <1>5, <1>9, <2>1
       DEF Response, Table!AnswerTo, Answer, Table!Answer, NoRow, Table!NoRow, Table!Row,
           Insert, Update, Delete, Select
  <2> QED
    BY <1>2, <1>3, <1>9, <2>2, <2>3, <2>4 DEF r, st
<1>10. DOMAIN KindOf = {"select", "insert", "update", "delete"}
  BY DEF KindOf
<1> QED
  BY <1>3, <1>6, <1>7, <1>8, <1>9, <1>10

LEMMA ExactInit ==
  Init => Exact
<1> SUFFICES ASSUME Init PROVE Exact
  OBVIOUS
<1>1. \A c \in Client : Meant(call[c])
  BY DEF Init, NoCall, Meant
<1>2. Ahead = served
  BY TableStoreAssumption DEF Init, Ahead
<1> QED
  BY <1>1, <1>2 DEF Init, Exact

(* A client's call moves on while the answered rows stay: what the others   *)
(* hold is still meant.                                                     *)
LEMMA MeantKept ==
  ASSUME Stored, Exact, Benign(env), NEW c \in Client, NEW k, Meant(k)',
         call' = [call EXCEPT ![c] = k], env' = env,
         served' = served \/ \A d \in Client \ {c} : ~Applied(d)
  PROVE  \A d \in Client : Meant(call[d])'
<1> SUFFICES ASSUME NEW d \in Client PROVE Meant(call[d])'
  OBVIOUS
<1>1. call'[d] = IF d = c THEN k ELSE call[d]
  BY DEF Stored, Calls
<1>2. CASE d = c
  BY <1>1, <1>2 DEF Meant
<1>3. CASE d # c
  BY <1>1, <1>3 DEF Exact, Meant, Applied, Stage
<1> QED
  BY <1>2, <1>3

(* How the parts of the mapping see a call that moves on *)
AskedOf(k) == IF k.stage = "none" THEN NoCall ELSE k.asked
AnswerOf(k) == IF k.stage = "answered" THEN k.answer ELSE NoAnswer

LEMMA MappedCall ==
  ASSUME Stored, NEW c \in Client, NEW k, call' = [call EXCEPT ![c] = k]
  PROVE  /\ [d \in Client |-> AskedOf(call[d])]'
             = [[d \in Client |-> AskedOf(call[d])] EXCEPT ![c] = AskedOf(k)]
         /\ [d \in Client |-> AnswerOf(call[d])]'
             = [[d \in Client |-> AnswerOf(call[d])] EXCEPT ![c] = AnswerOf(k)]
         /\ AskedOf(k) = AskedOf(call[c]) =>
              [d \in Client |-> AskedOf(call[d])]' = [d \in Client |-> AskedOf(call[d])]
         /\ AnswerOf(k) = AnswerOf(call[c]) =>
              [d \in Client |-> AnswerOf(call[d])]' = [d \in Client |-> AnswerOf(call[d])]
<1>1. \A d \in Client : call'[d] = IF d = c THEN k ELSE call[d]
  BY DEF Stored, Calls
<1>2. \A d \in Client : /\ AskedOf(call'[d]) = IF d = c THEN AskedOf(k) ELSE AskedOf(call[d])
                        /\ AnswerOf(call'[d]) = IF d = c THEN AnswerOf(k) ELSE AnswerOf(call[d])
  BY <1>1
<1> HIDE DEF AskedOf, AnswerOf
<1> QED
  BY <1>2

AskedNow == [d \in Client |-> AskedOf(call[d])]
AnsweredNow == [d \in Client |-> AnswerOf(call[d])]

(* The steps of DurableTable, in terms of the calls *)
LEMMA StepsOfTable ==
  ASSUME NEW c \in Client
  PROVE  /\ /\ AskedNow[c] = NoCall
            /\ \E e \in Environments : \E st \in e.statements \cup {Garbled} :
                 AskedNow' = [AskedNow EXCEPT ![c] = st]
            /\ UNCHANGED <<served, AnsweredNow>>
            => Table!Ask(c)
         /\ /\ AskedNow[c] # NoCall /\ AnsweredNow[c] = NoAnswer
            /\ Table!Understood(AskedNow[c])
            /\ AnsweredNow' = [AnsweredNow EXCEPT ![c] = Table!AnswerTo(AskedNow[c])]
            /\ served' = Table!After(AskedNow[c])
            /\ AskedNow' = AskedNow
            => Table!Commit(c)
         /\ /\ AskedNow[c] # NoCall /\ AnsweredNow[c] = NoAnswer
            /\ ~Table!Understood(AskedNow[c])
            /\ AnsweredNow' = [AnsweredNow EXCEPT ![c] = Table!Refusal]
            /\ UNCHANGED <<served, AskedNow>>
            => Table!Refuse(c)
         /\ /\ AnsweredNow[c] # NoAnswer
            /\ AskedNow' = [AskedNow EXCEPT ![c] = NoCall]
            /\ AnsweredNow' = [AnsweredNow EXCEPT ![c] = NoAnswer]
            /\ served' = served
            => Table!Return(c)
         /\ /\ AskedNow' = [d \in Client |-> NoCall]
            /\ AnsweredNow' = [d \in Client |-> NoAnswer]
            /\ served' = served
            => Table!Crash
         /\ UNCHANGED <<served, AskedNow, AnsweredNow>> => UNCHANGED Table!vars
<1>1. /\ AskedNow = [d \in Client |-> IF Stage(d, "none") THEN NoCall ELSE call[d].asked]
      /\ AnsweredNow = [d \in Client |-> IF Stage(d, "answered") THEN call[d].answer ELSE NoAnswer]
  BY DEF AskedNow, AnsweredNow, AskedOf, AnswerOf, Stage
<1>2. /\ AskedNow' = [d \in Client |-> IF Stage(d, "none")' THEN NoCall ELSE call'[d].asked]
      /\ AnsweredNow' = [d \in Client |-> IF Stage(d, "answered")' THEN call'[d].answer ELSE NoAnswer]
  BY DEF AskedNow, AnsweredNow, AskedOf, AnswerOf, Stage
<1> HIDE DEF AskedNow, AnsweredNow
<1>3. /\ AskedNow[c] = NoCall
      /\ \E e \in Environments : \E st \in e.statements \cup {Garbled} :
           AskedNow' = [AskedNow EXCEPT ![c] = st]
      /\ UNCHANGED <<served, AnsweredNow>>
      => Table!Ask(c)
  BY <1>1, <1>2 DEF Table!Ask
<1>4. /\ AskedNow[c] # NoCall /\ AnsweredNow[c] = NoAnswer
      /\ Table!Understood(AskedNow[c])
      /\ AnsweredNow' = [AnsweredNow EXCEPT ![c] = Table!AnswerTo(AskedNow[c])]
      /\ served' = Table!After(AskedNow[c])
      /\ AskedNow' = AskedNow
      => Table!Commit(c)
  BY <1>1, <1>2 DEF Table!Commit, Table!Pending
<1>5. /\ AskedNow[c] # NoCall /\ AnsweredNow[c] = NoAnswer
      /\ ~Table!Understood(AskedNow[c])
      /\ AnsweredNow' = [AnsweredNow EXCEPT ![c] = Table!Refusal]
      /\ UNCHANGED <<served, AskedNow>>
      => Table!Refuse(c)
  BY <1>1, <1>2 DEF Table!Refuse, Table!Pending
<1>6. /\ AnsweredNow[c] # NoAnswer
      /\ AskedNow' = [AskedNow EXCEPT ![c] = NoCall]
      /\ AnsweredNow' = [AnsweredNow EXCEPT ![c] = NoAnswer]
      /\ served' = served
      => Table!Return(c)
  BY <1>1, <1>2 DEF Table!Return
<1>7. /\ AskedNow' = [d \in Client |-> NoCall]
      /\ AnsweredNow' = [d \in Client |-> NoAnswer]
      /\ served' = served
      => Table!Crash
  BY <1>2 DEF Table!Crash
<1>8. UNCHANGED <<served, AskedNow, AnsweredNow>> => UNCHANGED Table!vars
  BY <1>1, <1>2 DEF Table!vars
<1> QED
  BY <1>3, <1>4, <1>5, <1>6, <1>7, <1>8

(* A call that is not the one being logged moves on. *)
LEMMA ExactKept ==
  ASSUME Stored, Exact, Benign(env), NEW c \in Client, call[c].stage # "applied",
         NEW k, Meant(k)', call' = [call EXCEPT ![c] = k],
         UNCHANGED <<env, rows, logged, tail, holder, served>>
  PROVE  Exact'
<1>1. \A d \in Client : Meant(call[d])'
  BY MeantKept
<1>2. holder # c
  BY DEF Stored, Calls, Applied, Stage
<1>3. \A d \in Client : d # c => call'[d] = call[d]
  BY DEF Stored, Calls
<1>4. Ahead' = Ahead
  BY <1>2, <1>3 DEF Ahead
<1> QED
  BY <1>1, <1>4 DEF Exact

(* The steps that leave the rows alone: a client asks, a text is refused or *)
(* found valid, an answer is taken.                                         *)
LEMMA SubmitMaps ==
  ASSUME Mapped, Benign(env), NEW c \in Client, Submit(c)
  PROVE  Exact' /\ Table!Ask(c)
<1>0. Stored /\ Exact /\ call[c].stage = "none" /\ env \in Environments
  BY DEF Mapped, Submit, Stage, Stored, Spent
<1>1. UNCHANGED <<env, rows, logged, tail, holder, served>>
  BY DEF Submit
<1> DEFINE typed(st) == IF "typos" \in env.faults THEN Typos(Render(st)) ELSE {}
           asking(text) == [stage |-> "sent", asked |-> text[1],
                            request |-> Request(NotParsed, text[2]), answer |-> NoAnswer]
<1>2. \E st \in env.statements :
        \E text \in {<<st, Render(st)>>} \cup { <<Garbled, ts>> : ts \in typed(st) } :
          call' = [call EXCEPT ![c] = asking(text)]
  BY DEF Submit
<1> HIDE DEF typed, asking
<1>3. PICK st \in env.statements :
        \E text \in {<<st, Render(st)>>} \cup { <<Garbled, ts>> : ts \in typed(st) } :
          call' = [call EXCEPT ![c] = asking(text)]
  BY <1>2
<1>4. PICK text \in {<<st, Render(st)>>} \cup { <<Garbled, ts>> : ts \in typed(st) } :
        call' = [call EXCEPT ![c] = asking(text)]
  BY <1>3
<1>5. PICK asked, sql :
        /\ text = <<asked, sql>>
        /\ \/ asked = st /\ sql = Render(st)
           \/ asked = Garbled /\ sql \in typed(st)
  BY <1>4
<1>6. PICK k : k = asking(text)
  OBVIOUS
<1>7. /\ k.stage = "sent" /\ k.asked = asked /\ k.request.sql = sql /\ k.answer = NoAnswer
  BY <1>5, <1>6 DEF asking, Request
<1>8. call' = [call EXCEPT ![c] = k]
  BY <1>4, <1>6
<1>9. Meant(k)'
  <2>1. asked = Garbled /\ sql \in typed(st) => "typos" \in env.faults /\ sql \in Typos(Render(st))
    BY DEF typed
  <2> QED
    BY <1>1, <1>5, <1>7, <2>1 DEF Meant
<1>10. Exact'
  BY <1>0, <1>1, <1>8, <1>9, ExactKept
<1>11. /\ AskedOf(k) = asked /\ AnswerOf(k) = NoAnswer
      /\ AskedNow[c] = NoCall /\ AnswerOf(call[c]) = NoAnswer
  BY <1>0, <1>7 DEF AskedOf, AnswerOf, AskedNow
<1>12. AskedNow' = [AskedNow EXCEPT ![c] = asked] /\ AnsweredNow' = AnsweredNow
  BY <1>0, <1>8, <1>11, MappedCall DEF AskedNow, AnsweredNow
<1>13. asked \in env.statements \cup {Garbled}
  BY <1>5
<1>14. Table!Ask(c)
  BY <1>0, <1>1, <1>11, <1>12, <1>13, StepsOfTable
<1> QED
  BY <1>10, <1>14

LEMMA ValidateMaps ==
  ASSUME StatementsReadAsMeant, Mapped, Benign(env), NEW c \in Client, Validate(c)
  PROVE  Exact' /\ (Table!Refuse(c) \/ UNCHANGED Table!vars)
<1> DEFINE k == call[c]
           ts == k.request.sql
           statement == Parse(ts)
           refusal == Answer("UnsupportedSql", <<>>, NoRow)
<1>0. /\ Stored /\ Exact /\ env \in Environments /\ Meant(k) /\ IsCall(k)
      /\ k.stage = "sent"
  BY DEF Mapped, Validate, Stage, Stored, Spent, Exact, Calls
<1>1. UNCHANGED <<env, rows, logged, tail, holder, served>>
  BY DEF Validate
<1>2. call' = [call EXCEPT ![c] =
                 IF Valid(statement) THEN WithRequest(k, "valid", Request(statement, ts))
                                     ELSE WithAnswer(k, "answered", refusal)]
  BY <1>0 DEF Validate, Stored, Calls, WithRequest, WithAnswer
<1>3. AskedNow[c] = k.asked /\ AnsweredNow[c] = NoAnswer /\ k.asked # NoCall
  BY <1>0, StatementsAssumption DEF AskedNow, AnsweredNow, AskedOf, AnswerOf, Meant
<1>4. k.asked = Garbled \/ (k.asked \in env.statements /\ ts = Render(k.asked))
  BY <1>0 DEF Meant
<1>5. CASE Valid(statement)
  <2> DEFINE r == Request(statement, ts)
  <2>1. PICK m : m = WithRequest(k, "valid", r)
    OBVIOUS
  <2> HIDE DEF k
  <2>2. /\ m = [k EXCEPT !.stage = "valid", !.request = r]
        /\ k = [stage |-> k.stage, asked |-> k.asked, request |-> k.request, answer |-> k.answer]
    BY <1>0, <2>1 DEF WithRequest, IsCall
  <2>3. r.sql = ts
    BY DEF Request
  <2> HIDE DEF r, statement, ts
  <2>4. m.stage = "valid" /\ m.asked = k.asked /\ m.request = r
    BY <2>2
  <2>5. call' = [call EXCEPT ![c] = m]
    BY <1>2, <1>5, <2>1 DEF r
  <2>6. Meant(m)'
    <3>1. Valid(Parse(r.sql)) /\ r = Request(Parse(r.sql), r.sql)
      BY <1>5, <2>3 DEF statement, r
    <3>2. r.sql = k.request.sql
      BY <2>3 DEF ts
    <3> HIDE DEF Valid
    <3> QED
      BY <1>0, <1>1, <2>4, <3>1, <3>2 DEF Meant
  <2>7. Exact'
    BY <1>0, <1>1, <2>5, <2>6, ExactKept DEF k
  <2>8. AskedOf(m) = AskedOf(k) /\ AnswerOf(m) = AnswerOf(k)
    BY <1>0, <2>4 DEF AskedOf, AnswerOf
  <2>9. AskedNow' = AskedNow /\ AnsweredNow' = AnsweredNow
    BY <1>0, <2>5, <2>8, MappedCall DEF AskedNow, AnsweredNow, k
  <2> QED
    BY <1>1, <2>7, <2>9, StepsOfTable
<1>6. CASE ~Valid(statement)
  <2>1. PICK m : m = WithAnswer(k, "answered", refusal)
    OBVIOUS
  <2>2. refusal # NoAnswer /\ refusal = Table!Refusal
    BY DEF Answer, NoAnswer, Table!Refusal, Table!Answer, Table!NoRow, NoRow
  <2>3. ~Table!Understood(k.asked)
    <3>1. CASE k.asked = Garbled
      BY <3>1 DEF Table!Understood
    <3>2. CASE k.asked \in env.statements /\ ts = Render(k.asked)
      BY <1>0, <1>6, <3>2 DEF StatementsReadAsMeant, ReadAsMeant
    <3> QED
      BY <1>4, <3>1, <3>2
  <2> HIDE DEF k, refusal
  <2>4. /\ m = [k EXCEPT !.stage = "answered", !.answer = refusal]
        /\ k = [stage |-> k.stage, asked |-> k.asked, request |-> k.request, answer |-> k.answer]
    BY <1>0, <2>1 DEF WithAnswer, IsCall
  <2> HIDE DEF statement, ts
  <2>5. m.stage = "answered" /\ m.asked = k.asked /\ m.request = k.request /\ m.answer = refusal
    BY <2>4
  <2>6. call' = [call EXCEPT ![c] = m]
    BY <1>2, <1>6, <2>1
  <2>7. Meant(m)'
    BY <1>0, <1>1, <2>2, <2>5 DEF Meant
  <2>8. Exact'
    BY <1>0, <1>1, <2>6, <2>7, ExactKept DEF k
  <2>9. AskedOf(m) = AskedOf(k) /\ AnswerOf(m) = refusal
    BY <1>0, <2>5 DEF AskedOf, AnswerOf
  <2>10. AskedNow' = AskedNow /\ AnsweredNow' = [AnsweredNow EXCEPT ![c] = refusal]
    BY <1>0, <2>6, <2>9, MappedCall DEF AskedNow, AnsweredNow, k
  <2> QED
    BY <1>1, <1>3, <2>2, <2>3, <2>8, <2>10, StepsOfTable
<1> QED
  BY <1>5, <1>6

LEMMA ReturnMaps ==
  ASSUME Mapped, Benign(env), NEW c \in Client, Return(c)
  PROVE  Exact' /\ Table!Return(c)
<1>0. Stored /\ Exact /\ call[c].stage = "answered" /\ call[c].answer # NoAnswer
  BY DEF Mapped, Return, Stage, Exact, Meant
<1>1. UNCHANGED <<env, rows, logged, tail, holder, served>> /\ call' = [call EXCEPT ![c] = NoCall]
  BY DEF Return
<1>2. NoCall.stage = "none"
  BY NoCallIsCall
<1>3. Meant(NoCall)'
  BY <1>2 DEF Meant
<1>4. Exact'
  BY <1>0, <1>1, <1>3, ExactKept
<1>5. /\ AskedOf(NoCall) = NoCall /\ AnswerOf(NoCall) = NoAnswer
      /\ AnsweredNow[c] # NoAnswer
  BY <1>0, <1>2 DEF AskedOf, AnswerOf, AnsweredNow
<1>6. AskedNow' = [AskedNow EXCEPT ![c] = NoCall] /\ AnsweredNow' = [AnsweredNow EXCEPT ![c] = NoAnswer]
  <2>1. PICK k : k = NoCall
    OBVIOUS
  <2>2. call' = [call EXCEPT ![c] = k] /\ AskedOf(k) = NoCall /\ AnswerOf(k) = NoAnswer
    BY <1>1, <1>5, <2>1
  <2> QED
    BY <1>0, <2>2, MappedCall DEF AskedNow, AnsweredNow
<1> QED
  BY <1>1, <1>4, <1>5, <1>6, StepsOfTable

(* A statement takes effect when it is executed, if it is not logged, and   *)
(* otherwise when its line is in the log.                                   *)
LEMMA ExecuteMaps ==
  ASSUME StatementsReadAsMeant, TyposAreRefused, Mapped, Benign(env),
         NEW c \in Client, Execute(c)
  PROVE  Exact' /\ (Table!Commit(c) \/ UNCHANGED Table!vars)
<1> DEFINE logs == /\ Response(rows, call[c].request).status = "Ok"
                   /\ call[c].request.kind \in LoggedKinds
<1>1. PICK k, r, answer : k = call[c] /\ r = k.request /\ answer = Response(rows, r)
  OBVIOUS
<1>2. /\ Stored /\ Exact /\ Spent /\ Meant(k) /\ IsCall(k) /\ k.stage = "valid"
      /\ tail = NoTail /\ logged = served /\ rows = Ahead
  BY <1>1 DEF Mapped, Execute, Stage, Stored, Exact, Calls
<1>3. holder = Nobody /\ holder \notin Client
  BY TableStoreAssumption DEF Execute, MutexFree
<1>4. rows = served
  BY <1>2, <1>3 DEF Ahead
<1>5. PICK stage : stage = IF logs THEN "applied" ELSE "answered"
  OBVIOUS
<1>6. /\ rows' = Effect(served, r)
      /\ holder' = IF logs THEN c ELSE Nobody
      /\ served' = IF logs THEN served ELSE Effect(served, r)
      /\ UNCHANGED <<env, logged, tail, suspect, spent>>
  BY <1>1, <1>4 DEF Execute
<1>7. PICK m : m = WithAnswer(k, stage, answer)
  OBVIOUS
<1>8. call' = [call EXCEPT ![c] = m]
  <2>1. call' = [call EXCEPT ![c].stage = stage, ![c].answer = answer]
    BY <1>1, <1>5 DEF Execute
  <2> QED
    BY <1>1, <1>2, <1>7, <2>1 DEF WithAnswer, Stored, Calls
<1>9. m.stage = stage /\ m.asked = k.asked /\ m.request = r /\ m.answer = answer
  <2>1. /\ m = [k EXCEPT !.stage = stage, !.answer = answer]
        /\ k = [stage |-> k.stage, asked |-> k.asked, request |-> k.request, answer |-> k.answer]
    BY <1>2, <1>7 DEF WithAnswer, IsCall
  <2> QED
    BY <1>1, <2>1
<1>10. /\ k.asked \in env.statements /\ Table!Understood(k.asked)
       /\ Effect(served, r) = Table!After(k.asked)
       /\ answer = Table!AnswerTo(k.asked)
  BY <1>1, <1>2, <1>4, DoneAsMeant
<1>11. answer # NoAnswer
  <2>1. \A status, text, row : Answer(status, text, row).status = status
    BY DEF Answer
  <2>2. answer.status # "None"
    <3>1. Written(r) /\ r.kind \in {Select, Insert, Update, Delete}
      BY <1>1, <1>2, WrittenIsKnown DEF Stored, Calls, Stage
    <3> QED
      BY <1>1, <2>1, <3>1 DEF Response, Select, Insert, Update, Delete
  <2> QED
    BY <2>1, <2>2 DEF NoAnswer
<1>12. Meant(m)'
  <2>1. /\ Valid(Parse(r.sql)) /\ r = Request(Parse(r.sql), r.sql)
        /\ \/ k.asked \in env.statements /\ r.sql = Render(k.asked)
           \/ /\ k.asked = Garbled /\ "typos" \in env.faults
              /\ \E st \in env.statements : r.sql \in Typos(Render(st))
    BY <1>1, <1>2 DEF Meant
  <2>2. stage = "applied" => served' = served
    BY <1>5, <1>6
  <2>3. stage \in {"applied", "answered"} /\ env' = env
    BY <1>5, <1>6
  <2> HIDE DEF logs
  <2> QED
    BY <1>1, <1>4, <1>9, <1>11, <2>1, <2>2, <2>3 DEF Meant
<1> HIDE DEF logs
<1>13. Exact'
  <2>1. \A d \in Client : ~Applied(d)
    BY <1>2, <1>3 DEF Stored, Calls
  <2>2. \A d \in Client : Meant(call[d])'
    BY <1>2, <1>6, <1>8, <1>12, <2>1, MeantKept
  <2>3. call'[c].request = r
    BY <1>2, <1>8, <1>9 DEF Stored, Calls
  <2>4. CASE logs
    <3>1. holder' = c /\ served' = served
      BY <1>6, <2>4
    <3>2. rows' = Ahead'
      BY <1>6, <2>3, <3>1 DEF Ahead
    <3> QED
      BY <1>2, <1>6, <2>2, <3>1, <3>2 DEF Exact
  <2>5. CASE ~logs
    <3>1. holder' = Nobody /\ served' = Effect(served, r)
      BY <1>6, <2>5
    <3>2. rows' = Ahead'
      BY <1>3, <1>6, <3>1 DEF Ahead
    <3>3. Effect(served, r) = served
      <4>1. r.kind \in {Select, Insert, Update, Delete}
        BY <1>1, <1>2, WrittenIsKnown DEF Stored, Calls, Stage
      <4>2. r.kind = Select \/ (r.kind = Update /\ ~In(served, RowOf(r)))
        BY <1>1, <1>4, <2>5, <4>1, UnloggedRequest DEF logs
      <4> QED
        BY <4>2 DEF Effect, In, Select, Insert, Update, Delete
    <3> QED
      BY <1>2, <1>6, <2>2, <3>1, <3>2, <3>3 DEF Exact
  <2> QED
    BY <2>4, <2>5
<1>14. /\ AskedNow[c] = k.asked /\ AnsweredNow[c] = NoAnswer /\ k.asked # NoCall
       /\ AskedOf(m) = AskedOf(call[c])
  BY <1>1, <1>2, <1>5, <1>9, <1>10, StatementsAssumption
     DEF AskedNow, AnsweredNow, AskedOf, AnswerOf, Spent
<1>15. AskedNow' = AskedNow
  BY <1>2, <1>8, <1>14, MappedCall DEF AskedNow
<1>16. CASE logs
  <2>1. AnswerOf(m) = AnswerOf(call[c])
    BY <1>1, <1>2, <1>5, <1>9, <1>16 DEF AnswerOf
  <2>2. AnsweredNow' = AnsweredNow /\ served' = served
    BY <1>2, <1>6, <1>8, <1>16, <2>1, MappedCall DEF AnsweredNow
  <2> QED
    BY <1>13, <1>15, <2>2, StepsOfTable
<1>17. CASE ~logs
  <2>1. AnswerOf(m) = answer
    BY <1>5, <1>9, <1>17 DEF AnswerOf
  <2>2. AnsweredNow' = [AnsweredNow EXCEPT ![c] = answer]
    BY <1>2, <1>8, <2>1, MappedCall DEF AnsweredNow
  <2>3. served' = Table!After(k.asked)
    BY <1>6, <1>10, <1>17
  <2>4. Table!Commit(c)
    BY <1>10, <1>14, <1>15, <2>2, <2>3, StepsOfTable
  <2> QED
    BY <1>13, <2>4
<1> QED
  BY <1>16, <1>17

LEMMA AppendWholeMaps ==
  ASSUME StatementsReadAsMeant, TyposAreRefused, Mapped, Benign(env),
         NEW c \in Client, AppendWhole(c)
  PROVE  Exact' /\ Table!Commit(c)
<1>1. PICK k, r : k = call[c] /\ r = k.request
  OBVIOUS
<1>2. /\ Stored /\ Exact /\ Spent /\ Meant(k) /\ IsCall(k) /\ k.stage = "applied" /\ Applied(c)
      /\ holder = c /\ tail = NoTail /\ logged = served /\ rows = Ahead
  BY <1>1 DEF Mapped, AppendWhole, AnswerLogged, Stage, Applied, Stored, Exact, Calls
<1>3. /\ holder' = Nobody /\ holder' \notin Client
      /\ served' = Effect(served, r)
      /\ UNCHANGED <<env, rows, spent>>
  BY <1>1, TableStoreAssumption DEF AppendWhole, AnswerLogged
<1>4. PICK ts \in Texts(env) : Accepted(ts) /\ r = Request(Parse(ts), ts)
  BY <1>1, <1>2 DEF Stored, Calls, Written
<1>5. IsText(ts) /\ IsFlat(ts)
  BY <1>2, <1>4, TextsAssumption DEF Spent, Benign
<1>6. tail' = NoTail /\ logged' = Effect(served, LineOf(r))
  BY <1>1, <1>2 DEF AppendWhole, Extended, Line
<1>7. logged' = served'
  BY <1>3, <1>4, <1>5, <1>6, FlatLine
<1>8. rows' = Effect(served, r)
  BY <1>1, <1>2, <1>3 DEF Ahead
<1>9. rows' = Ahead'
  BY <1>3, <1>8 DEF Ahead
<1>10. PICK m : m = WithStage(k, "answered")
  OBVIOUS
<1>11. call' = [call EXCEPT ![c] = m]
  BY <1>1, <1>10 DEF AppendWhole, AnswerLogged, WithStage, Stored, Calls
<1>12. m.stage = "answered" /\ m.asked = k.asked /\ m.request = r /\ m.answer = k.answer
  <2>1. /\ m = [k EXCEPT !.stage = "answered"]
        /\ k = [stage |-> k.stage, asked |-> k.asked, request |-> k.request, answer |-> k.answer]
    BY <1>2, <1>10 DEF WithStage, IsCall
  <2> QED
    BY <1>1, <2>1
<1>13. /\ k.asked \in env.statements /\ Table!Understood(k.asked)
       /\ Effect(served, r) = Table!After(k.asked)
       /\ k.answer = Table!AnswerTo(k.asked)
  BY <1>1, <1>2, DoneAsMeant DEF Meant
<1>14. k.answer # NoAnswer
  <2>1. \A status, text, row : Answer(status, text, row).status = status
    BY DEF Answer
  <2>2. k.answer = Response(served, r) /\ r.kind \in {Select, Insert, Update, Delete}
    BY <1>1, <1>2, <1>4, WrittenIsKnown DEF Meant, Written
  <2>3. k.answer.status # "None"
    BY <2>1, <2>2 DEF Response, Select, Insert, Update, Delete
  <2> QED
    BY <2>1, <2>3 DEF NoAnswer
<1>15. Meant(m)'
  <2>1. \/ k.asked \in env.statements /\ r.sql = Render(k.asked)
        \/ /\ k.asked = Garbled /\ "typos" \in env.faults
           /\ \E st \in env.statements : r.sql \in Typos(Render(st))
    BY <1>1, <1>2 DEF Meant
  <2> QED
    BY <1>3, <1>12, <1>14, <2>1 DEF Meant
<1>16. Exact'
  <2>1. \A d \in Client \ {c} : ~Applied(d)
    BY <1>2 DEF Stored, Calls
  <2>2. \A d \in Client : Meant(call[d])'
    BY <1>2, <1>3, <1>11, <1>15, <2>1, MeantKept
  <2> QED
    BY <1>6, <1>7, <1>9, <2>2 DEF Exact
<1>17. /\ AskedNow[c] = k.asked /\ AnsweredNow[c] = NoAnswer /\ k.asked # NoCall
       /\ AskedOf(m) = AskedOf(call[c]) /\ AnswerOf(m) = k.answer
  BY <1>1, <1>2, <1>12, <1>13, StatementsAssumption
     DEF AskedNow, AnsweredNow, AskedOf, AnswerOf, Spent
<1>18. AskedNow' = AskedNow /\ AnsweredNow' = [AnsweredNow EXCEPT ![c] = k.answer]
  <2>1. AskedNow' = AskedNow
    BY <1>2, <1>11, <1>17, MappedCall DEF AskedNow
  <2>2. AnsweredNow' = [AnsweredNow EXCEPT ![c] = k.answer]
    <3>1. PICK answer : answer = k.answer
      OBVIOUS
    <3>2. AnswerOf(m) = answer
      BY <1>17, <3>1
    <3>3. AnsweredNow' = [AnsweredNow EXCEPT ![c] = answer]
      BY <1>2, <1>11, <3>2, MappedCall DEF AnsweredNow
    <3> QED
      BY <3>1, <3>3
  <2> QED
    BY <2>1, <2>2
<1>19. Table!Commit(c)
  BY <1>3, <1>13, <1>17, <1>18, StepsOfTable
<1> QED
  BY <1>16, <1>19

(* A crash takes memory back to the log, which is what was answered. *)
LEMMA CrashMaps ==
  ASSUME Mapped, Benign(env), Crash
  PROVE  Exact' /\ (Table!Crash \/ UNCHANGED Table!vars)
<1>1. /\ tail = NoTail /\ logged = served
      /\ UNCHANGED <<env, logged, tail, served>>
      /\ rows' = ReplayWal(logged, tail)
      /\ holder' = Nobody /\ holder' \notin Client
      /\ call' = [c \in Client |-> NoCall]
  BY TableStoreAssumption DEF Mapped, Exact, Crash, Restart
<1>2. rows' = served
  BY <1>1 DEF ReplayWal
<1>3. \A c \in Client : Meant(call[c])'
  <2> SUFFICES ASSUME NEW c \in Client PROVE Meant(call[c])'
    OBVIOUS
  <2>1. call'[c].stage = "none"
    BY <1>1, NoCallIsCall
  <2> QED
    BY <2>1 DEF Meant
<1>4. Exact'
  <2>1. Ahead' = served'
    BY <1>1 DEF Ahead
  <2> QED
    BY <1>1, <1>2, <1>3, <2>1 DEF Exact
<1>5. /\ AskedNow' = [c \in Client |-> NoCall] /\ AnsweredNow' = [c \in Client |-> NoAnswer]
  BY <1>1, NoCallIsCall DEF AskedNow, AnsweredNow, AskedOf, AnswerOf
<1>6. CASE Client = {}
  <2>1. AskedNow' = AskedNow /\ AnsweredNow' = AnsweredNow
    BY <1>6 DEF AskedNow, AnsweredNow
  <2>2. Table!vars' = Table!vars
    BY <1>1, <2>1 DEF Table!vars, AskedNow, AnsweredNow, AskedOf, AnswerOf, Stage
  <2> QED
    BY <1>4, <2>2
<1>7. CASE Client # {}
  BY <1>1, <1>4, <1>5, <1>7, StepsOfTable
<1> QED
  BY <1>6, <1>7

(* Every step of a node whose log can be written is a step of the durable   *)
(* table, or none.                                                          *)
LEMMA MappedNext ==
  ASSUME StatementsReadAsMeant, TyposAreRefused, Mapped, [Next]_vars
  PROVE  Exact' /\ [env.faults \subseteq {"typos"} => Table!Next]_(Table!vars)
<1>0. env' = env
  <2>1. ASSUME NEW c \in Client, Submit(c) \/ Validate(c) \/ Return(c)
        PROVE  env' = env
    BY <2>1 DEF Submit, Validate, Return
  <2>2. ASSUME NEW c \in Client, Execute(c)
        PROVE  env' = env
    BY <2>2 DEF Execute
  <2>3. ASSUME NEW c \in Client, AppendWhole(c) \/ AppendNothing(c) \/ AppendPart(c)
        PROVE  env' = env
    BY <2>3 DEF AppendWhole, AppendNothing, AppendPart, AnswerLogged
  <2>4. ASSUME Restart
        PROVE  env' = env
    BY <2>4 DEF Restart
  <2> QED
    BY <2>1, <2>2, <2>3, <2>4 DEF Next, vars, Crash, CrashInAppend
<1>1. CASE ~Benign(env)
  BY <1>0, <1>1 DEF Exact, Benign
<1>2. CASE Benign(env)
  <2>1. ASSUME NEW c \in Client, Submit(c) \/ Validate(c) \/ Return(c)
        PROVE  Exact' /\ (Table!Next \/ UNCHANGED Table!vars)
    BY <1>2, <2>1, SubmitMaps, ValidateMaps, ReturnMaps DEF Table!Next
  <2>2. ASSUME NEW c \in Client, Execute(c) \/ AppendWhole(c)
        PROVE  Exact' /\ (Table!Next \/ UNCHANGED Table!vars)
    BY <1>2, <2>2, ExecuteMaps, AppendWholeMaps DEF Table!Next
  <2>3. ASSUME NEW c \in Client
        PROVE  ~(AppendNothing(c) \/ AppendPart(c) \/ CrashInAppend(c))
    BY <1>2 DEF AppendNothing, AppendPart, CrashInAppend, Tear, Benign
  <2>4. ASSUME Crash
        PROVE  Exact' /\ (Table!Next \/ UNCHANGED Table!vars)
    BY <1>2, <2>4, CrashMaps DEF Table!Next
  <2>5. ASSUME UNCHANGED vars
        PROVE  Exact' /\ UNCHANGED Table!vars
    <3>1. Exact'
      BY <2>5 DEF vars, Mapped, Exact, Meant, Ahead
    <3>2. UNCHANGED Table!vars
      BY <2>5 DEF vars, Table!vars, Stage
    <3> QED
      BY <3>1, <3>2
  <2> QED
    BY <2>1, <2>2, <2>3, <2>4, <2>5 DEF Next
<1> QED
  BY <1>1, <1>2

(* The storage of a node implements the table if each text by itself is     *)
(* read as it was meant.                                                    *)
LEMMA ReadAsMeantImplementsTable ==
  StatementsReadAsMeant /\ TyposAreRefused => (Spec => ImplementsTable)
<1> SUFFICES ASSUME StatementsReadAsMeant, TyposAreRefused
             PROVE  Spec => ImplementsTable
  OBVIOUS
<1>1. Init => Table!Init
  BY NoCallIsCall DEF Init, Table!Init, Stage, NoRow, Table!NoRow
<1>2. Init => Exact
  BY ExactInit
<1>3. Stored /\ Exact /\ [Next]_vars
      => Exact' /\ [env.faults \subseteq {"typos"} => Table!Next]_(Table!vars)
  BY MappedNext DEF Mapped
<1> QED
  BY <1>1, <1>2, <1>3, TableStoreStored, PTL DEF Spec, ImplementsTable

--------------------------------------------------------------------------------
(* The text of a statement, token by token.                                 *)

Word == {"select", "insert", "update", "delete", "set", "into", "values", "from", "where", "count"}
Token == ({"Identifier", "Number", "String"} \X (STRING \cup Word))
           \cup {Sym("("), Sym(")"), Sym("="), Sym("*"), Sym(Comma)}

LEMMA AtConcat ==
  ASSUME NEW s \in Seq(Token), NEW t \in Seq(Token)
  PROVE  /\ s \o t \in Seq(Token) /\ Len(s \o t) = Len(s) + Len(t)
         /\ Len(s) \in Nat /\ Len(t) \in Nat
         /\ \A p \in 1 .. Len(s) : At(s \o t, p) = At(s, p)
         /\ \A p \in Nat \ {0} : At(s \o t, Len(s) + p) = At(t, p)
BY AtJoined

IsJoin(u, s, t) ==
  /\ u \in Seq(Token) /\ Len(u) = Len(s) + Len(t)
  /\ \A p \in 1 .. Len(s) : At(u, p) = At(s, p)
  /\ \A p \in Nat \ {0} : At(u, Len(s) + p) = At(t, p)

LEMMA Joined ==
  ASSUME NEW s \in Seq(Token), NEW t \in Seq(Token)
  PROVE  IsJoin(s \o t, s, t)
BY AtConcat DEF IsJoin

(* Lists of single tokens, and of assignments *)
LEMMA ListOfTokens ==
  ASSUME NEW n \in Nat \ {0}, NEW items, DOMAIN items = 1 .. n, Len(items) = n,
         \A i \in 1 .. n : items[i][1] \in Token
  PROVE  /\ List(items, 1) \in Seq(Token) /\ Len(List(items, 1)) = 2 * n - 1
         /\ \A i \in 1 .. n : At(List(items, 1), 2 * i - 1) = items[i][1]
         /\ \A i \in 1 .. n - 1 : At(List(items, 1), 2 * i) = Sym(Comma)
<1> DEFINE l == List(items, 1)
<1>1. l = [p \in 1 .. 2 * n - 1 |-> IF p % 2 = 0 THEN Sym(Comma) ELSE items[1 + p \div 2][p % 2]]
  BY DEF List
<1>2. \A i \in 1 .. n : 2 * i - 1 \in 1 .. 2 * n - 1 /\ (2 * i - 1) % 2 = 1 /\ 1 + (2 * i - 1) \div 2 = i
  OBVIOUS
<1>3. \A i \in 1 .. n - 1 : 2 * i \in 1 .. 2 * n - 1 /\ (2 * i) % 2 = 0
  OBVIOUS
<1>4. ASSUME NEW p \in 1 .. 2 * n - 1
      PROVE  (IF p % 2 = 0 THEN Sym(Comma) ELSE items[1 + p \div 2][p % 2]) \in Token
  <2>1. CASE p % 2 = 0
    BY <2>1 DEF Token
  <2>2. CASE p % 2 # 0
    <3>1. p % 2 = 1 /\ 1 + p \div 2 \in 1 .. n
      BY <2>2
    <3> QED
      BY <3>1
  <2> QED
    BY <2>1, <2>2
<1>5. l \in [1 .. 2 * n - 1 -> Token]
  BY <1>1, <1>4
<1> HIDE DEF l
<1>6. l \in Seq(Token) /\ Len(l) = 2 * n - 1 /\ DOMAIN l = 1 .. 2 * n - 1
  <2>1. 2 * n - 1 \in Nat
    OBVIOUS
  <2> QED
    BY <1>5, <2>1
<1>7. ASSUME NEW i \in 1 .. n
      PROVE  At(l, 2 * i - 1) = items[i][1]
  BY <1>1, <1>2, <1>6 DEF At
<1>8. ASSUME NEW i \in 1 .. n - 1
      PROVE  At(l, 2 * i) = Sym(Comma)
  BY <1>1, <1>3, <1>6 DEF At
<1> QED
  BY <1>6, <1>7, <1>8 DEF l

LEMMA ListOfAssignments ==
  ASSUME NEW n \in Nat \ {0}, NEW items, DOMAIN items = 1 .. n, Len(items) = n,
         \A i \in 1 .. n : items[i][1] \in Token /\ items[i][2] \in Token /\ items[i][3] \in Token
  PROVE  /\ List(items, 3) \in Seq(Token) /\ Len(List(items, 3)) = 4 * n - 1
         /\ \A i \in 1 .. n : /\ At(List(items, 3), 4 * i - 3) = items[i][1]
                              /\ At(List(items, 3), 4 * i - 2) = items[i][2]
                              /\ At(List(items, 3), 4 * i - 1) = items[i][3]
         /\ \A i \in 1 .. n - 1 : At(List(items, 3), 4 * i) = Sym(Comma)
<1> DEFINE l == List(items, 3)
<1>1. l = [p \in 1 .. 4 * n - 1 |-> IF p % 4 = 0 THEN Sym(Comma) ELSE items[1 + p \div 4][p % 4]]
  BY DEF List
<1>2. \A i \in 1 .. n : \A k \in 1 .. 3 :
        LET p == 4 * i - 4 + k IN p \in 1 .. 4 * n - 1 /\ p % 4 = k /\ 1 + p \div 4 = i
  OBVIOUS
<1>3. \A i \in 1 .. n - 1 : 4 * i \in 1 .. 4 * n - 1 /\ (4 * i) % 4 = 0
  OBVIOUS
<1>4. ASSUME NEW p \in 1 .. 4 * n - 1
      PROVE  (IF p % 4 = 0 THEN Sym(Comma) ELSE items[1 + p \div 4][p % 4]) \in Token
  <2>1. CASE p % 4 = 0
    BY <2>1 DEF Token
  <2>2. CASE p % 4 # 0
    <3>1. (p % 4 = 1 \/ p % 4 = 2 \/ p % 4 = 3) /\ 1 + p \div 4 \in 1 .. n
      BY <2>2
    <3> QED
      BY <2>2, <3>1
  <2> QED
    BY <2>1, <2>2
<1>5. l \in [1 .. 4 * n - 1 -> Token]
  BY <1>1, <1>4
<1> HIDE DEF l
<1>6. l \in Seq(Token) /\ Len(l) = 4 * n - 1 /\ DOMAIN l = 1 .. 4 * n - 1
  <2>1. 4 * n - 1 \in Nat
    OBVIOUS
  <2> QED
    BY <1>5, <2>1
<1>7. ASSUME NEW i \in 1 .. n, NEW k \in 1 .. 3
      PROVE  At(l, 4 * i - 4 + k) = items[i][k]
  <2> DEFINE p == 4 * i - 4 + k
  <2>1. p \in 1 .. 4 * n - 1 /\ p % 4 = k /\ 1 + p \div 4 = i /\ k # 0
    BY <1>2
  <2> HIDE DEF p
  <2>2. l[p] = items[i][k] /\ At(l, p) = l[p]
    BY <1>1, <1>6, <2>1 DEF At
  <2> QED
    BY <2>2 DEF p
<1>8. ASSUME NEW i \in 1 .. n - 1
      PROVE  At(l, 4 * i) = Sym(Comma)
  BY <1>1, <1>3, <1>6 DEF At
<1>9. ASSUME NEW i \in 1 .. n
      PROVE  At(l, 4 * i - 3) = items[i][1] /\ At(l, 4 * i - 2) = items[i][2] /\ At(l, 4 * i - 1) = items[i][3]
  <2>1. 4 * i - 3 = 4 * i - 4 + 1 /\ 4 * i - 2 = 4 * i - 4 + 2 /\ 4 * i - 1 = 4 * i - 4 + 3
    OBVIOUS
  <2> QED
    BY <1>7, <2>1
<1> QED
  BY <1>6, <1>8, <1>9 DEF l

(* The tokens from p on are the condition of a statement. *)
EndsWithCondition(ts, p, st) ==
  /\ st.where = {} => Len(ts) = p - 1
  /\ \A v \in st.where :
       /\ Len(ts) = p + 3
       /\ At(ts, p) = Id("where") /\ At(ts, p + 1) = Id(v[1])
       /\ At(ts, p + 2) = Sym("=") /\ At(ts, p + 3) = v[2]

LEMMA TokensOfNames ==
  /\ \A text \in STRING \cup Word : Id(text) \in Token
  /\ \A token : IsLiteralOf(token) => token \in Token
  /\ Sym("(") \in Token /\ Sym(")") \in Token /\ Sym("=") \in Token /\ Sym("*") \in Token
  /\ Sym(Comma) \in Token
<1>1. ASSUME NEW text \in STRING \cup Word
      PROVE  Id(text) \in Token
  BY DEF Token, Id
<1>2. ASSUME NEW token, IsLiteralOf(token)
      PROVE  token \in Token
  <2>1. {"Number", "String"} \X STRING \subseteq {"Identifier", "Number", "String"} \X (STRING \cup Word)
    OBVIOUS
  <2> QED
    BY <1>2, <2>1 DEF Token, IsLiteralOf
<1>3. /\ Sym("(") \in Token /\ Sym(")") \in Token /\ Sym("=") \in Token /\ Sym("*") \in Token
      /\ Sym(Comma) \in Token
  BY DEF Token
<1> QED
  BY <1>1, <1>2, <1>3

(* The values and the columns of a statement, as tokens *)
LEMMA StatementTokens ==
  ASSUME NEW st, IsStatement(st)
  PROVE  /\ Len(st.columns) \in Nat /\ DOMAIN st.columns = 1 .. Len(st.columns)
         /\ Len(st.values) \in Nat /\ DOMAIN st.values = 1 .. Len(st.values)
         /\ st.columns # <<>> => Len(st.columns) # 0
         /\ st.values # <<>> => Len(st.values) # 0
         /\ Id(st.written) \in Token
         /\ \A i \in 1 .. Len(st.columns) : Id(st.columns[i]) \in Token
         /\ \A i \in 1 .. Len(st.values) : st.values[i] \in Token /\ IsLiteralOf(st.values[i])
         /\ Id("select") \in Token /\ Id("insert") \in Token /\ Id("update") \in Token
         /\ Id("delete") \in Token /\ Id("set") \in Token /\ Id("into") \in Token
         /\ Id("values") \in Token /\ Id("from") \in Token /\ Id("where") \in Token
         /\ Id("count") \in Token
<1>1. /\ st.columns \in Seq(STRING) /\ st.values \in Seq({"Number", "String"} \X STRING)
      /\ st.written \in STRING
  BY DEF IsStatement
<1>2. /\ Len(st.columns) \in Nat /\ DOMAIN st.columns = 1 .. Len(st.columns)
      /\ st.columns # <<>> => Len(st.columns) # 0
      /\ \A i \in 1 .. Len(st.columns) : st.columns[i] \in STRING
  BY <1>1
<1>3. /\ Len(st.values) \in Nat /\ DOMAIN st.values = 1 .. Len(st.values)
      /\ st.values # <<>> => Len(st.values) # 0
      /\ \A i \in 1 .. Len(st.values) : IsLiteralOf(st.values[i])
  BY <1>1 DEF IsLiteralOf
<1>4. /\ "select" \in Word /\ "insert" \in Word /\ "update" \in Word
      /\ "delete" \in Word /\ "set" \in Word /\ "into" \in Word
      /\ "values" \in Word /\ "from" \in Word /\ "where" \in Word /\ "count" \in Word
  BY DEF Word
<1> QED
  BY <1>1, <1>2, <1>3, <1>4, TokensOfNames

LEMMA ConditionTokens ==
  ASSUME NEW st, IsStatement(st), NEW s \in Seq(Token)
  PROVE  /\ s \o Condition(st) \in Seq(Token)
         /\ EndsWithCondition(s \o Condition(st), Len(s) + 1, st)
         /\ \A p \in 1 .. Len(s) : At(s \o Condition(st), p) = At(s, p)
<1>1. CASE st.where = {}
  <2> DEFINE t == <<>>
  <2>1. Condition(st) = t /\ t \in Seq(Token) /\ Len(t) = 0
    BY <1>1 DEF Condition
  <2> HIDE DEF t
  <2>2. s \o t \in Seq(Token) /\ Len(s \o t) = Len(s) /\ Len(s) \in Nat
    BY <2>1, AtConcat
  <2> QED
    BY <1>1, <2>1, <2>2, AtConcat DEF EndsWithCondition
<1>2. CASE st.where # {}
  <2>1. PICK w : w \in st.where /\ w = CHOOSE v \in st.where : TRUE
    BY <1>2
  <2>2. /\ w = <<w[1], w[2]>> /\ IsName(w[1]) /\ IsLiteralOf(w[2])
        /\ \A v \in st.where : v = w
    BY <2>1 DEF IsStatement
  <2> DEFINE t == <<Id("where"), Id(w[1]), Sym("="), w[2]>>
  <2>3. Condition(st) = t
    BY <1>2, <2>1 DEF Condition
  <2>4. /\ Id("where") \in Token /\ Id(w[1]) \in Token /\ Sym("=") \in Token /\ w[2] \in Token
    BY <2>2, StatementTokens, TokensOfNames DEF IsName
  <2>5. /\ t \in Seq(Token) /\ Len(t) = 4
        /\ At(t, 1) = Id("where") /\ At(t, 2) = Id(w[1]) /\ At(t, 3) = Sym("=") /\ At(t, 4) = w[2]
    BY <2>4 DEF At
  <2> HIDE DEF t
  <2> DEFINE u == s \o t
  <2>6. IsJoin(u, s, t)
    BY <2>5, Joined
  <2> HIDE DEF u
  <2>7. PICK k \in Nat : k = Len(s)
    OBVIOUS
  <2>8. /\ u \in Seq(Token) /\ Len(u) = k + 4
         /\ \A p \in Nat \ {0} : At(u, k + p) = At(t, p)
    BY <2>5, <2>6, <2>7 DEF IsJoin
  <2>9. At(u, k + 1) = At(t, 1) /\ At(u, k + 2) = At(t, 2) /\ At(u, k + 3) = At(t, 3) /\ At(u, k + 4) = At(t, 4)
    <3>1. 1 \in Nat \ {0} /\ 2 \in Nat \ {0} /\ 3 \in Nat \ {0} /\ 4 \in Nat \ {0}
      OBVIOUS
    <3> QED
      BY <2>8, <3>1, Zenon
  <2>10. Len(u) = (k + 1) + 3 /\ k + 2 = (k + 1) + 1 /\ k + 3 = (k + 1) + 2 /\ k + 4 = (k + 1) + 3
    BY <2>8
  <2>11. EndsWithCondition(u, k + 1, st)
    BY <1>2, <2>2, <2>5, <2>9, <2>10 DEF EndsWithCondition
  <2> QED
    BY <2>3, <2>6, <2>11, <2>7 DEF u, IsJoin
<1> QED
  BY <1>1, <1>2

(* The text of an INSERT, of an UPDATE, a DELETE and a SELECT *)
InsertTokens(ts, st, n, m) ==
  /\ ts \in Seq(Token) /\ Len(ts) = 6 + 2 * n + 2 * m
  /\ At(ts, 1) = Id("insert") /\ At(ts, 2) = Id("into") /\ At(ts, 3) = Id(st.written)
  /\ At(ts, 4) = Sym("(")
  /\ \A i \in 1 .. n : At(ts, 3 + 2 * i) = Id(st.columns[i])
  /\ \A i \in 1 .. n - 1 : At(ts, 4 + 2 * i) = Sym(Comma)
  /\ At(ts, 4 + 2 * n) = Sym(")") /\ At(ts, 5 + 2 * n) = Id("values") /\ At(ts, 6 + 2 * n) = Sym("(")
  /\ \A i \in 1 .. m : At(ts, 5 + 2 * n + 2 * i) = st.values[i]
  /\ \A i \in 1 .. m - 1 : At(ts, 6 + 2 * n + 2 * i) = Sym(Comma)
  /\ At(ts, 6 + 2 * n + 2 * m) = Sym(")")
InsertText(ts, st) == InsertTokens(ts, st, Len(st.columns), Len(st.values))

UpdateText(ts, st) ==
  LET n == Len(st.columns)
  IN  /\ ts \in Seq(Token)
      /\ At(ts, 1) = Id("update") /\ At(ts, 2) = Id(st.written) /\ At(ts, 3) = Id("set")
      /\ \A i \in 1 .. n : /\ At(ts, 4 * i) = Id(st.columns[i])
                           /\ At(ts, 4 * i + 1) = Sym("=") /\ At(ts, 4 * i + 2) = st.values[i]
      /\ \A i \in 1 .. n - 1 : At(ts, 4 * i + 3) = Sym(Comma)
      /\ EndsWithCondition(ts, 4 * n + 3, st)

DeleteText(ts, st) ==
  /\ ts \in Seq(Token)
  /\ At(ts, 1) = Id("delete") /\ At(ts, 2) = Id("from") /\ At(ts, 3) = Id(st.written)
  /\ EndsWithCondition(ts, 4, st)

(* `from` stands at p *)
SelectedText(ts, st, p) ==
  IF st.count
  THEN /\ p = 6
       /\ At(ts, 2) = Id("count") /\ At(ts, 3) = Sym("(") /\ At(ts, 4) = Sym("*") /\ At(ts, 5) = Sym(")")
  ELSE IF st.columns = <<>> THEN p = 3 /\ At(ts, 2) = Sym("*")
  ELSE /\ p = 1 + 2 * Len(st.columns)
       /\ \A i \in 1 .. Len(st.columns) : At(ts, 2 * i) = Id(st.columns[i])
       /\ \A i \in 1 .. Len(st.columns) - 1 : At(ts, 1 + 2 * i) = Sym(Comma)

SelectText(ts, st, p) ==
  /\ ts \in Seq(Token) /\ p \in Nat /\ p >= 3
  /\ At(ts, 1) = Id("select") /\ SelectedText(ts, st, p)
  /\ At(ts, p) = Id("from") /\ At(ts, p + 1) = Id(st.written)
  /\ EndsWithCondition(ts, p + 2, st)

LEMMA InsertIsWritten ==
  ASSUME NEW st, IsStatement(st), st.verb = "insert"
  PROVE  InsertText(Render(st), st)
<1>1. PICK n, m : n = Len(st.columns) /\ m = Len(st.values)
  OBVIOUS
<1>2. n \in Nat \ {0} /\ m \in Nat \ {0}
  BY <1>1, StatementTokens DEF IsStatement
<1> DEFINE names == [i \in DOMAIN st.columns |-> <<Id(st.columns[i])>>]
           literals == [i \in DOMAIN st.values |-> <<st.values[i]>>]
           a == <<Id("insert"), Id("into"), Id(st.written), Sym("(")>>
           b == <<Sym(")"), Id("values"), Sym("(")>>
           e == <<Sym(")")>>
           c == List(names, 1)
           v == List(literals, 1)
           ts == Render(st)
<1>3. ts = (((a \o c) \o b) \o v) \o e
  BY DEF Render
<1>4. /\ a \in Seq(Token) /\ Len(a) = 4 /\ b \in Seq(Token) /\ Len(b) = 3 /\ e \in Seq(Token) /\ Len(e) = 1
      /\ At(a, 1) = Id("insert") /\ At(a, 2) = Id("into") /\ At(a, 3) = Id(st.written) /\ At(a, 4) = Sym("(")
      /\ At(b, 1) = Sym(")") /\ At(b, 2) = Id("values") /\ At(b, 3) = Sym("(") /\ At(e, 1) = Sym(")")
  <2>1. /\ Id("insert") \in Token /\ Id("into") \in Token /\ Id(st.written) \in Token
        /\ Id("values") \in Token /\ Sym("(") \in Token /\ Sym(")") \in Token
    BY StatementTokens DEF Token
  <2> QED
    BY <2>1 DEF At
<1>5. /\ c \in Seq(Token) /\ Len(c) = 2 * n - 1
      /\ \A i \in 1 .. n : At(c, 2 * i - 1) = Id(st.columns[i])
      /\ \A i \in 1 .. n - 1 : At(c, 2 * i) = Sym(Comma)
  <2>1. /\ DOMAIN names = 1 .. n /\ Len(names) = n
        /\ \A i \in 1 .. n : names[i][1] = Id(st.columns[i]) /\ names[i][1] \in Token
    BY <1>1, <1>2, StatementTokens
  <2> HIDE DEF names
  <2> QED
    BY <1>2, <2>1, ListOfTokens
<1>6. /\ v \in Seq(Token) /\ Len(v) = 2 * m - 1
      /\ \A i \in 1 .. m : At(v, 2 * i - 1) = st.values[i]
      /\ \A i \in 1 .. m - 1 : At(v, 2 * i) = Sym(Comma)
  <2>1. /\ DOMAIN literals = 1 .. m /\ Len(literals) = m
        /\ \A i \in 1 .. m : literals[i][1] = st.values[i] /\ literals[i][1] \in Token
    BY <1>1, <1>2, StatementTokens
  <2> HIDE DEF literals
  <2> QED
    BY <1>2, <2>1, ListOfTokens
<1> HIDE DEF a, b, c, v, e, ts
<1>7. PICK x : x = a \o c
  OBVIOUS
<1>8. /\ x \in Seq(Token) /\ Len(x) = 3 + 2 * n
      /\ \A p \in 1 .. 4 : At(x, p) = At(a, p)
      /\ \A p \in Nat \ {0} : At(x, 4 + p) = At(c, p)
  <2>1. 4 + (2 * n - 1) = 3 + 2 * n
    BY <1>2
  <2>2. IsJoin(x, a, c)
    BY <1>4, <1>5, <1>7, Joined
  <2> QED
    BY <1>2, <1>4, <1>5, <2>1, <2>2 DEF IsJoin
<1>9. PICK y : y = x \o b
  OBVIOUS
<1>10. /\ y \in Seq(Token) /\ Len(y) = 6 + 2 * n
       /\ \A p \in 1 .. 3 + 2 * n : At(y, p) = At(x, p)
       /\ \A p \in Nat \ {0} : At(y, 3 + 2 * n + p) = At(b, p)
  <2>1. 3 + 2 * n + 3 = 6 + 2 * n
    BY <1>2
  <2>2. IsJoin(y, x, b)
    BY <1>4, <1>8, <1>9, Joined
  <2> QED
    BY <1>2, <1>4, <1>8, <2>1, <2>2 DEF IsJoin
<1>11. PICK z : z = y \o v
  OBVIOUS
<1>12. /\ z \in Seq(Token) /\ Len(z) = 5 + 2 * n + 2 * m
       /\ \A p \in 1 .. 6 + 2 * n : At(z, p) = At(y, p)
       /\ \A p \in Nat \ {0} : At(z, 6 + 2 * n + p) = At(v, p)
  <2>1. 6 + 2 * n + (2 * m - 1) = 5 + 2 * n + 2 * m
    BY <1>2
  <2>2. IsJoin(z, y, v)
    BY <1>6, <1>10, <1>11, Joined
  <2> QED
    BY <1>2, <1>6, <1>10, <2>1, <2>2 DEF IsJoin
<1>13. /\ ts \in Seq(Token) /\ Len(ts) = 6 + 2 * n + 2 * m
       /\ \A p \in 1 .. 5 + 2 * n + 2 * m : At(ts, p) = At(z, p)
       /\ \A p \in Nat \ {0} : At(ts, 5 + 2 * n + 2 * m + p) = At(e, p)
  <2>1. 5 + 2 * n + 2 * m + 1 = 6 + 2 * n + 2 * m /\ ts = z \o e
    BY <1>2, <1>3, <1>7, <1>9, <1>11
  <2>2. IsJoin(ts, z, e)
    BY <1>4, <1>12, <2>1, Joined
  <2> QED
    BY <1>2, <1>4, <1>12, <2>1, <2>2 DEF IsJoin
<1>14. \A p \in 1 .. 3 + 2 * n : At(ts, p) = At(x, p)
  BY <1>2, <1>10, <1>12, <1>13
<1>15. At(ts, 1) = Id("insert") /\ At(ts, 2) = Id("into") /\ At(ts, 3) = Id(st.written) /\ At(ts, 4) = Sym("(")
  BY <1>2, <1>4, <1>8, <1>14
<1>16. ASSUME NEW i \in 1 .. n
       PROVE  At(ts, 3 + 2 * i) = Id(st.columns[i])
  <2>1. 3 + 2 * i = 4 + (2 * i - 1) /\ 2 * i - 1 \in Nat \ {0} /\ 3 + 2 * i \in 1 .. 3 + 2 * n
    BY <1>2
  <2> QED
    BY <1>5, <1>8, <1>14, <2>1
<1>17. ASSUME NEW i \in 1 .. n - 1
       PROVE  At(ts, 4 + 2 * i) = Sym(Comma)
  <2>1. 2 * i \in Nat \ {0} /\ 4 + 2 * i \in 1 .. 3 + 2 * n
    BY <1>2
  <2> QED
    BY <1>5, <1>8, <1>14, <2>1
<1>18. At(ts, 4 + 2 * n) = Sym(")") /\ At(ts, 5 + 2 * n) = Id("values") /\ At(ts, 6 + 2 * n) = Sym("(")
  <2>1. ASSUME NEW p \in 1 .. 3
        PROVE  At(ts, 3 + 2 * n + p) = At(b, p)
    <3>1. /\ 3 + 2 * n + p \in 1 .. 5 + 2 * n + 2 * m /\ 3 + 2 * n + p \in 1 .. 6 + 2 * n
          /\ p \in Nat \ {0}
      BY <1>2
    <3> QED
      BY <1>10, <1>12, <1>13, <3>1
  <2>2. 4 + 2 * n = 3 + 2 * n + 1 /\ 5 + 2 * n = 3 + 2 * n + 2 /\ 6 + 2 * n = 3 + 2 * n + 3
    BY <1>2
  <2> QED
    BY <1>4, <2>1, <2>2
<1>19. \A p \in 1 .. 2 * m - 1 : At(ts, 6 + 2 * n + p) = At(v, p)
  BY <1>2, <1>12, <1>13
<1>20. ASSUME NEW i \in 1 .. m
       PROVE  At(ts, 5 + 2 * n + 2 * i) = st.values[i]
  <2>1. 5 + 2 * n + 2 * i = 6 + 2 * n + (2 * i - 1) /\ 2 * i - 1 \in 1 .. 2 * m - 1
    BY <1>2
  <2> QED
    BY <1>6, <1>19, <2>1
<1>21. ASSUME NEW i \in 1 .. m - 1
       PROVE  At(ts, 6 + 2 * n + 2 * i) = Sym(Comma)
  <2>1. 2 * i \in 1 .. 2 * m - 1
    BY <1>2
  <2> QED
    BY <1>6, <1>19, <2>1
<1>22. At(ts, 6 + 2 * n + 2 * m) = Sym(")")
  <2>1. 6 + 2 * n + 2 * m = 5 + 2 * n + 2 * m + 1 /\ 1 \in Nat \ {0}
    BY <1>2
  <2> QED
    BY <1>4, <1>13, <2>1
<1>23. InsertText(ts, st)
  BY <1>1, <1>13, <1>15, <1>16, <1>17, <1>18, <1>20, <1>21, <1>22 DEF InsertText, InsertTokens
<1> QED
  BY <1>23 DEF ts

LEMMA UpdateIsWritten ==
  ASSUME NEW st, IsStatement(st), st.verb = "update"
  PROVE  UpdateText(Render(st), st)
<1>1. PICK n : n = Len(st.columns) /\ n = Len(st.values)
  BY DEF IsStatement
<1>2. n \in Nat \ {0} /\ DOMAIN st.columns = 1 .. n
  BY <1>1, StatementTokens DEF IsStatement
<1> DEFINE items == [i \in DOMAIN st.columns |-> <<Id(st.columns[i]), Sym("="), st.values[i]>>]
           a == <<Id("update"), Id(st.written), Id("set")>>
           l == List(items, 3)
           ts == Render(st)
<1>3. ts = (a \o l) \o Condition(st)
  BY DEF Render
<1>4. /\ a \in Seq(Token) /\ Len(a) = 3
      /\ At(a, 1) = Id("update") /\ At(a, 2) = Id(st.written) /\ At(a, 3) = Id("set")
  <2>1. Id("update") \in Token /\ Id(st.written) \in Token /\ Id("set") \in Token
    BY StatementTokens
  <2> QED
    BY <2>1 DEF At
<1>5. /\ l \in Seq(Token) /\ Len(l) = 4 * n - 1
      /\ \A i \in 1 .. n : /\ At(l, 4 * i - 3) = Id(st.columns[i]) /\ At(l, 4 * i - 2) = Sym("=")
                           /\ At(l, 4 * i - 1) = st.values[i]
      /\ \A i \in 1 .. n - 1 : At(l, 4 * i) = Sym(Comma)
  <2>1. /\ DOMAIN items = 1 .. n /\ Len(items) = n
        /\ \A i \in 1 .. n : /\ items[i][1] = Id(st.columns[i]) /\ items[i][2] = Sym("=")
                             /\ items[i][3] = st.values[i]
    BY <1>2
  <2>2. \A i \in 1 .. n : Id(st.columns[i]) \in Token /\ Sym("=") \in Token /\ st.values[i] \in Token
    BY <1>1, StatementTokens DEF Token
  <2> HIDE DEF items
  <2>3. \A i \in 1 .. n : items[i][1] \in Token /\ items[i][2] \in Token /\ items[i][3] \in Token
    BY <2>1, <2>2
  <2>4. /\ l \in Seq(Token) /\ Len(l) = 4 * n - 1
        /\ \A i \in 1 .. n : /\ At(l, 4 * i - 3) = items[i][1] /\ At(l, 4 * i - 2) = items[i][2]
                             /\ At(l, 4 * i - 1) = items[i][3]
        /\ \A i \in 1 .. n - 1 : At(l, 4 * i) = Sym(Comma)
    BY <1>2, <2>1, <2>3, ListOfAssignments
  <2> QED
    BY <2>1, <2>4
<1> HIDE DEF a, l, ts
<1>6. PICK x : x = a \o l
  OBVIOUS
<1>7. /\ x \in Seq(Token) /\ Len(x) = 4 * n + 2
      /\ \A p \in 1 .. 3 : At(x, p) = At(a, p)
      /\ \A p \in Nat \ {0} : At(x, 3 + p) = At(l, p)
  <2>1. 3 + (4 * n - 1) = 4 * n + 2
    BY <1>2
  <2>2. IsJoin(x, a, l)
    BY <1>4, <1>5, <1>6, Joined
  <2> QED
    BY <1>2, <1>4, <1>5, <2>1, <2>2 DEF IsJoin
<1>8. /\ ts \in Seq(Token) /\ EndsWithCondition(ts, 4 * n + 3, st)
      /\ \A p \in 1 .. 4 * n + 2 : At(ts, p) = At(x, p)
  <2>1. Len(x) + 1 = 4 * n + 3 /\ Len(x) = 4 * n + 2 /\ ts = x \o Condition(st)
    BY <1>2, <1>3, <1>6, <1>7
  <2>2. /\ x \o Condition(st) \in Seq(Token)
        /\ EndsWithCondition(x \o Condition(st), Len(x) + 1, st)
        /\ \A p \in 1 .. Len(x) : At(x \o Condition(st), p) = At(x, p)
    BY <1>7, ConditionTokens
  <2> QED
    BY <2>1, <2>2
<1>9. At(ts, 1) = Id("update") /\ At(ts, 2) = Id(st.written) /\ At(ts, 3) = Id("set")
  BY <1>2, <1>4, <1>7, <1>8
<1>10. ASSUME NEW p \in 1 .. 4 * n - 1
       PROVE  At(ts, 3 + p) = At(l, p)
  <2>1. 3 + p \in 1 .. 4 * n + 2 /\ p \in Nat \ {0}
    BY <1>2
  <2> QED
    BY <1>7, <1>8, <2>1
<1>11. ASSUME NEW i \in 1 .. n
       PROVE  /\ At(ts, 4 * i) = Id(st.columns[i])
              /\ At(ts, 4 * i + 1) = Sym("=") /\ At(ts, 4 * i + 2) = st.values[i]
  <2>1. /\ 4 * i = 3 + (4 * i - 3) /\ 4 * i + 1 = 3 + (4 * i - 2) /\ 4 * i + 2 = 3 + (4 * i - 1)
        /\ 4 * i - 3 \in 1 .. 4 * n - 1 /\ 4 * i - 2 \in 1 .. 4 * n - 1 /\ 4 * i - 1 \in 1 .. 4 * n - 1
    BY <1>2
  <2> QED
    BY <1>5, <1>10, <2>1
<1>12. ASSUME NEW i \in 1 .. n - 1
       PROVE  At(ts, 4 * i + 3) = Sym(Comma)
  <2>1. 4 * i + 3 = 3 + 4 * i /\ 4 * i \in 1 .. 4 * n - 1
    BY <1>2
  <2> QED
    BY <1>5, <1>10, <2>1
<1>13. UpdateText(ts, st)
  BY <1>1, <1>8, <1>9, <1>11, <1>12 DEF UpdateText
<1> QED
  BY <1>13 DEF ts

LEMMA DeleteIsWritten ==
  ASSUME NEW st, IsStatement(st), st.verb = "delete"
  PROVE  DeleteText(Render(st), st)
<1> DEFINE a == <<Id("delete"), Id("from"), Id(st.written)>>
           ts == Render(st)
<1>1. ts = a \o Condition(st)
  BY DEF Render
<1>2. /\ a \in Seq(Token) /\ Len(a) = 3
      /\ At(a, 1) = Id("delete") /\ At(a, 2) = Id("from") /\ At(a, 3) = Id(st.written)
  <2>1. Id("delete") \in Token /\ Id("from") \in Token /\ Id(st.written) \in Token
    BY StatementTokens
  <2> QED
    BY <2>1 DEF At
<1> HIDE DEF a, ts
<1>3. /\ ts \in Seq(Token) /\ EndsWithCondition(ts, 4, st)
      /\ \A p \in 1 .. 3 : At(ts, p) = At(a, p)
  <2>1. Len(a) + 1 = 4 /\ Len(a) = 3
    BY <1>2
  <2>2. /\ a \o Condition(st) \in Seq(Token)
        /\ EndsWithCondition(a \o Condition(st), Len(a) + 1, st)
        /\ \A p \in 1 .. Len(a) : At(a \o Condition(st), p) = At(a, p)
    BY <1>2, ConditionTokens
  <2> QED
    BY <1>1, <2>1, <2>2
<1>4. DeleteText(ts, st)
  BY <1>2, <1>3 DEF DeleteText
<1> QED
  BY <1>4 DEF ts

LEMMA SelectIsWritten ==
  ASSUME NEW st, IsStatement(st), st.verb = "select"
  PROVE  \E p : SelectText(Render(st), st, p)
<1>1. PICK n : n = Len(st.columns)
  OBVIOUS
<1>2. /\ n \in Nat /\ DOMAIN st.columns = 1 .. n /\ (st.columns = <<>> <=> n = 0)
      /\ st.count \in BOOLEAN
  BY <1>1, StatementTokens DEF IsStatement
<1> DEFINE names == [i \in DOMAIN st.columns |-> <<Id(st.columns[i])>>]
           c == List(names, 1)
           aggregate == <<Id("count"), Sym("("), Sym("*"), Sym(")")>>
           star == <<Sym("*")>>
           selected == IF st.count THEN aggregate ELSE IF n = 0 THEN star ELSE c
           a == <<Id("select")>>
           b == <<Id("from"), Id(st.written)>>
           ts == Render(st)
<1>3. ts = ((a \o selected) \o b) \o Condition(st)
  BY <1>2 DEF Render
<1>4. /\ a \in Seq(Token) /\ Len(a) = 1 /\ At(a, 1) = Id("select")
      /\ b \in Seq(Token) /\ Len(b) = 2 /\ At(b, 1) = Id("from") /\ At(b, 2) = Id(st.written)
      /\ aggregate \in Seq(Token) /\ Len(aggregate) = 4
      /\ At(aggregate, 1) = Id("count") /\ At(aggregate, 2) = Sym("(")
      /\ At(aggregate, 3) = Sym("*") /\ At(aggregate, 4) = Sym(")")
      /\ star \in Seq(Token) /\ Len(star) = 1 /\ At(star, 1) = Sym("*")
  <2>1. /\ Id("select") \in Token /\ Id("from") \in Token /\ Id(st.written) \in Token
        /\ Id("count") \in Token /\ Sym("(") \in Token /\ Sym(")") \in Token /\ Sym("*") \in Token
    BY StatementTokens DEF Token
  <2> QED
    BY <2>1 DEF At
<1>5. n # 0 =>
        /\ c \in Seq(Token) /\ Len(c) = 2 * n - 1
        /\ \A i \in 1 .. n : At(c, 2 * i - 1) = Id(st.columns[i])
        /\ \A i \in 1 .. n - 1 : At(c, 2 * i) = Sym(Comma)
  <2> HAVE n # 0
  <2>1. /\ DOMAIN names = 1 .. n /\ Len(names) = n
        /\ \A i \in 1 .. n : names[i][1] = Id(st.columns[i]) /\ names[i][1] \in Token
    BY <1>1, <1>2, StatementTokens
  <2>2. n \in Nat \ {0}
    BY <1>2
  <2> HIDE DEF names
  <2> QED
    BY <2>1, <2>2, ListOfTokens
<1> HIDE DEF a, b, c, star, aggregate, ts
<1>6. PICK s : s = selected
  OBVIOUS
<1>7. /\ s \in Seq(Token) /\ Len(s) \in Nat \ {0}
      /\ st.count => /\ Len(s) = 4
                     /\ At(s, 1) = Id("count") /\ At(s, 2) = Sym("(")
                     /\ At(s, 3) = Sym("*") /\ At(s, 4) = Sym(")")
      /\ ~st.count /\ n = 0 => Len(s) = 1 /\ At(s, 1) = Sym("*")
      /\ ~st.count /\ n # 0 => s = c
  <2>1. CASE st.count
    <3>1. s = aggregate
      BY <1>6, <2>1, Zenon
    <3>2. /\ s \in Seq(Token) /\ Len(s) = 4
          /\ At(s, 1) = Id("count") /\ At(s, 2) = Sym("(")
          /\ At(s, 3) = Sym("*") /\ At(s, 4) = Sym(")")
      BY <1>4, <3>1, Zenon
    <3> QED
      BY <2>1, <3>2
  <2>2. CASE ~st.count /\ n = 0
    <3>1. s = star
      BY <1>6, <2>2, Zenon
    <3>2. s \in Seq(Token) /\ Len(s) = 1 /\ At(s, 1) = Sym("*")
      BY <1>4, <3>1, Zenon
    <3> QED
      BY <2>2, <3>2
  <2>3. CASE ~st.count /\ n # 0
    <3>1. s = c
      BY <1>6, <2>3, Zenon
    <3> QED
      BY <1>2, <1>5, <2>3, <3>1
  <2> QED
    BY <1>2, <2>1, <2>2, <2>3
<1>8. PICK p : p = Len(s) + 2
  OBVIOUS
<1>9. PICK x : x = a \o s
  OBVIOUS
<1>10. /\ x \in Seq(Token) /\ Len(x) = p - 1
       /\ At(x, 1) = Id("select")
       /\ \A q \in Nat \ {0} : At(x, 1 + q) = At(s, q)
  <2>1. 1 + Len(s) = p - 1
    BY <1>7, <1>8
  <2>2. IsJoin(x, a, s)
    BY <1>4, <1>7, <1>9, Joined
  <2> QED
    BY <1>4, <1>7, <2>1, <2>2 DEF IsJoin
<1>11. PICK y : y = x \o b
  OBVIOUS
<1>12. p \in Nat /\ p >= 3
  BY <1>7, <1>8
<1>13. /\ y \in Seq(Token) /\ Len(y) = p + 1
       /\ \A q \in 1 .. p - 1 : At(y, q) = At(x, q)
       /\ \A q \in Nat \ {0} : At(y, p - 1 + q) = At(b, q)
  <2>1. p - 1 + 2 = p + 1
    BY <1>12
  <2>2. IsJoin(y, x, b)
    BY <1>4, <1>10, <1>11, Joined
  <2> QED
    BY <1>4, <1>10, <1>12, <2>1, <2>2 DEF IsJoin
<1>14. /\ ts \in Seq(Token) /\ EndsWithCondition(ts, p + 2, st)
       /\ \A q \in 1 .. p + 1 : At(ts, q) = At(y, q)
  <2>1. Len(y) + 1 = p + 2 /\ Len(y) = p + 1
    BY <1>12, <1>13
  <2>2. /\ y \o Condition(st) \in Seq(Token)
        /\ EndsWithCondition(y \o Condition(st), Len(y) + 1, st)
        /\ \A q \in 1 .. Len(y) : At(y \o Condition(st), q) = At(y, q)
    BY <1>13, ConditionTokens
  <2>3. ts = y \o Condition(st)
    BY <1>3, <1>6, <1>9, <1>11
  <2> QED
    BY <2>1, <2>2, <2>3
<1>15. At(ts, 1) = Id("select") /\ At(ts, p) = Id("from") /\ At(ts, p + 1) = Id(st.written)
  <2>1. p = p - 1 + 1 /\ p + 1 = p - 1 + 2 /\ 1 \in Nat \ {0} /\ 2 \in Nat \ {0}
    BY <1>12
  <2>2. At(y, p) = At(b, 1) /\ At(y, p + 1) = At(b, 2)
    BY <1>13, <2>1
  <2> QED
    BY <1>4, <1>10, <1>12, <1>13, <1>14, <2>2
<1>16. ASSUME NEW q \in 1 .. Len(s)
       PROVE  At(ts, 1 + q) = At(s, q)
  <2>1. 1 + q \in 1 .. p + 1 /\ 1 + q \in 1 .. p - 1 /\ q \in Nat \ {0}
    BY <1>7, <1>8
  <2> QED
    BY <1>10, <1>13, <1>14, <2>1
<1>17. SelectedText(ts, st, p)
  <2>1. CASE st.count
    <3>1. Len(s) = 4 /\ p = 6
      <4>1. Len(s) = 4
        BY <1>7, <2>1, Zenon
      <4> QED
        BY <1>8, <4>1
    <3>2. /\ At(ts, 1 + 1) = At(s, 1) /\ At(ts, 1 + 2) = At(s, 2)
          /\ At(ts, 1 + 3) = At(s, 3) /\ At(ts, 1 + 4) = At(s, 4)
      BY <1>16, <3>1
    <3> QED
      BY <1>7, <2>1, <3>1, <3>2 DEF SelectedText
  <2>2. CASE ~st.count /\ n = 0
    <3>1. Len(s) = 1 /\ p = 3
      <4>1. Len(s) = 1
        BY <1>7, <2>2, Zenon
      <4> QED
        BY <1>8, <4>1
    <3>2. At(ts, 1 + 1) = At(s, 1)
      BY <1>16, <3>1
    <3> QED
      BY <1>2, <1>7, <2>2, <3>1, <3>2 DEF SelectedText
  <2>3. CASE ~st.count /\ n # 0
    <3>1. s = c /\ Len(s) = 2 * n - 1 /\ n # 0 /\ p = 1 + 2 * n /\ st.columns # <<>>
      <4>1. s = c
        BY <1>6, <2>3, Zenon
      <4>2. Len(s) = 2 * n - 1
        BY <1>5, <2>3, <4>1
      <4>3. p = 1 + 2 * n
        BY <1>2, <1>8, <4>2
      <4>4. st.columns # <<>>
        BY <1>2, <2>3, Zenon
      <4> QED
        BY <2>3, <4>1, <4>2, <4>3, <4>4
    <3>2. ASSUME NEW i \in 1 .. n
          PROVE  At(ts, 2 * i) = Id(st.columns[i])
      <4>1. 2 * i - 1 \in 1 .. Len(s) /\ 2 * i = 1 + (2 * i - 1)
        BY <1>2, <3>1
      <4> QED
        BY <1>5, <1>16, <2>3, <3>1, <4>1
    <3>3. ASSUME NEW i \in 1 .. n - 1
          PROVE  At(ts, 1 + 2 * i) = Sym(Comma)
      <4>1. 2 * i \in 1 .. Len(s)
        BY <1>2, <3>1
      <4> QED
        BY <1>5, <1>16, <2>3, <3>1, <4>1
    <3> QED
      BY <1>1, <2>3, <3>1, <3>2, <3>3 DEF SelectedText
  <2> QED
    BY <2>1, <2>2, <2>3
<1> QED
  BY <1>12, <1>14, <1>15, <1>17 DEF SelectText, ts

(* How single tokens are read *)
LEMMA WordRead ==
  ASSUME NEW ts, NEW p, NEW word \in Word, At(ts, p) = Id(word)
  PROVE  /\ Identifier(ts, p) /\ \A other : Keyword(ts, p, other) <=> other = word
         /\ \A c : ~Symbol(ts, p, c)
<1>1. Lower(word) = word
  BY StatementsAssumption DEF Lower, Word
<1>2. At(ts, p)[1] = "Identifier" /\ At(ts, p)[2] = word
  BY DEF Id
<1> QED
  BY <1>1, <1>2 DEF Identifier, Keyword, Text, Symbol

LEMMA NameRead ==
  ASSUME NEW ts, NEW p, NEW text, At(ts, p) = Id(text)
  PROVE  /\ Identifier(ts, p) /\ Text(ts, p) = text /\ \A c : ~Symbol(ts, p, c)
         /\ IsName(text) => Lower(text) = text
BY DEF Id, Identifier, Text, Symbol, IsName, Lower

LEMMA SymbolRead ==
  ASSUME NEW ts, NEW p, NEW c, At(ts, p) = Sym(c)
  PROVE  /\ \A d : Symbol(ts, p, d) <=> d = c
         /\ ~Identifier(ts, p) /\ \A word : ~Keyword(ts, p, word)
BY DEF Sym, Identifier, Symbol, Keyword

LEMMA LiteralRead ==
  ASSUME KeyMax < ULongMax, NEW ts, IsText(ts), NEW p, NEW v, IsLiteralOf(v), At(ts, p) = v
  PROVE  /\ Literal(ts, p) <=> (Table!Numeral(v) => NumberOf[v[2]] <= KeyMax)
         /\ LiteralValue(ts, p) # NoPartition <=> Table!Numeral(v)
         /\ Literal(ts, p) /\ Table!Numeral(v) =>
              LiteralValue(ts, p) = NumberOf[v[2]] /\ NumberOf[v[2]] \in Nat
         /\ IsLiteral(ts, p) /\ Text(ts, p) = v[2] /\ ~Identifier(ts, p)
         /\ \A c : ~Symbol(ts, p, c)
<1>1. v[1] \in {"Number", "String"}
  BY DEF IsLiteralOf
<1>2. p \in DOMAIN ts /\ ts[p] = v
  BY <1>1 DEF At
<1>3. Text(ts, p) = v[2] /\ (v[1] = "Number" => v[2] \in DOMAIN NumberOf)
  BY <1>2 DEF Text, IsText
<1>4. v[1] = "Number" => /\ NumberOf[v[2]] \in Nat /\ StrToUL(v[2]) \in Nat
                         /\ StrToUL(v[2]) <= KeyMax <=> NumberOf[v[2]] <= KeyMax
                         /\ StrToUL(v[2]) <= KeyMax => StrToUL(v[2]) = NumberOf[v[2]]
  BY <1>3, TableStoreAssumption DEF StrToUL
<1>5. IsLiteral(ts, p) /\ ~Identifier(ts, p) /\ \A c : ~Symbol(ts, p, c)
  BY <1>1 DEF IsLiteral, Identifier, Symbol
<1>6. NoPartition \notin Nat
  BY StatementsAssumption
<1> QED
  BY <1>1, <1>3, <1>4, <1>5, <1>6 DEF Literal, LiteralValue, Table!Numeral

LEMMA EndRead ==
  ASSUME NEW ts \in Seq(Token), NEW p \in Nat, p > Len(ts)
  PROVE  /\ At(ts, p)[1] = "End" /\ StatementEnds(ts, p)
         /\ \A c : ~Symbol(ts, p, c)
         /\ ~Identifier(ts, p) /\ \A word : ~Keyword(ts, p, word)
<1>1. p \notin DOMAIN ts
  OBVIOUS
<1>2. At(ts, p)[1] = "End"
  BY <1>1 DEF At
<1> QED
  BY <1>2 DEF StatementEnds, Symbol, Identifier, Keyword

(* What the parser finds in the condition of a statement *)
LEMMA ConditionRead ==
  ASSUME KeyMax < ULongMax, NEW st, IsStatement(st), st.verb # "insert",
         NEW ts \in Seq(Token), IsText(ts), NEW p \in Nat, EndsWithCondition(ts, p, st),
         NEW key, key = DistributionKey[st.table], NEW where, where = Where(ts, p, key)
  PROVE  /\ StatementEnds(ts, where.end) /\ ~Symbol(ts, p, Comma) /\ ~Symbol(ts, p, "(")
         /\ where.ok <=> \A v \in st.where : Table!Numeral(v[2]) => NumberOf[v[2][2]] <= KeyMax
         /\ where.partition # NoPartition <=> \E literal \in Table!KeyLiterals(st) : Table!Numeral(literal)
         /\ where.ok /\ where.partition # NoPartition =>
              /\ where.partition = NumberOf[(CHOOSE literal \in Table!KeyLiterals(st) : TRUE)[2]]
              /\ where.partition \in Nat
         /\ where.ok /\ where.partition # NoPartition => Len(ts) = p + 3
<1>1. Table!KeyLiterals(st) = { w[2] : w \in { v \in st.where : v[1] = key } }
  BY DEF Table!KeyLiterals
<1>2. CASE st.where = {}
  <2>1. Len(ts) = p - 1 /\ Len(ts) \in Nat
    BY <1>2 DEF EndsWithCondition
  <2>2. /\ StatementEnds(ts, p) /\ ~Symbol(ts, p, Comma) /\ ~Symbol(ts, p, "(")
        /\ ~Keyword(ts, p, "where")
    BY <2>1, EndRead
  <2>3. where.ok /\ where.end = p /\ where.partition = NoPartition
    BY <2>2 DEF Where
  <2>4. Table!KeyLiterals(st) = {}
    BY <1>1, <1>2
  <2> QED
    BY <1>2, <2>2, <2>3, <2>4
<1>3. CASE st.where # {}
  <2>1. PICK v : v \in st.where
    BY <1>3
  <2>2. IsName(v[1]) /\ IsLiteralOf(v[2]) /\ \A w \in st.where : w = v
    BY <2>1 DEF IsStatement
  <2>3. PICK name, literal : name = v[1] /\ literal = v[2]
    OBVIOUS
  <2>4. /\ Len(ts) = p + 3
        /\ At(ts, p) = Id("where") /\ At(ts, p + 1) = Id(name)
        /\ At(ts, p + 2) = Sym("=") /\ At(ts, p + 3) = literal
    BY <2>1, <2>3 DEF EndsWithCondition
  <2>5. Keyword(ts, p, "where") /\ ~Symbol(ts, p, Comma) /\ ~Symbol(ts, p, "(")
    BY <2>4, WordRead DEF Word
  <2>6. Identifier(ts, p + 1) /\ Lower(Text(ts, p + 1)) = name
    BY <2>2, <2>3, <2>4, NameRead
  <2>7. Symbol(ts, p + 2, "=")
    BY <2>4, SymbolRead
  <2>8. StatementEnds(ts, p + 4) /\ ~Keyword(ts, p + 4, "and")
    BY <2>4, EndRead
  <2>9. /\ where.ok <=> Literal(ts, p + 3)
        /\ where.end = p + 4
        /\ where.partition = IF name = key THEN LiteralValue(ts, p + 3) ELSE NoPartition
    BY <2>5, <2>6, <2>7, <2>8 DEF Where, WherePartition
  <2>10. /\ Literal(ts, p + 3) <=> (Table!Numeral(literal) => NumberOf[literal[2]] <= KeyMax)
         /\ LiteralValue(ts, p + 3) # NoPartition <=> Table!Numeral(literal)
         /\ Literal(ts, p + 3) /\ Table!Numeral(literal) =>
              LiteralValue(ts, p + 3) = NumberOf[literal[2]] /\ NumberOf[literal[2]] \in Nat
    BY <2>2, <2>3, <2>4, LiteralRead
  <2>11. Table!KeyLiterals(st) = IF name = key THEN {literal} ELSE {}
    <3>1. CASE name = key
      <4>1. { w \in st.where : w[1] = key } = {v}
        BY <2>1, <2>2, <2>3, <3>1
      <4> QED
        BY <1>1, <2>3, <3>1, <4>1
    <3>2. CASE name # key
      <4>1. { w \in st.where : w[1] = key } = {}
        BY <2>2, <2>3, <3>2
      <4> QED
        BY <1>1, <3>2, <4>1
    <3> QED
      BY <3>1, <3>2
  <2>12. where.ok <=> \A w \in st.where : Table!Numeral(w[2]) => NumberOf[w[2][2]] <= KeyMax
    BY <2>1, <2>2, <2>3, <2>9, <2>10
  <2>13. where.partition # NoPartition <=> name = key /\ Table!Numeral(literal)
    BY <2>9, <2>10
  <2>14. where.partition # NoPartition <=> \E l \in Table!KeyLiterals(st) : Table!Numeral(l)
    BY <2>11, <2>13
  <2>15. ASSUME where.ok, where.partition # NoPartition
         PROVE  /\ where.partition = NumberOf[(CHOOSE l \in Table!KeyLiterals(st) : TRUE)[2]]
                /\ where.partition \in Nat
    <3>1. Table!KeyLiterals(st) = {literal}
      BY <2>11, <2>13, <2>15
    <3>2. (CHOOSE l \in Table!KeyLiterals(st) : TRUE) = literal
      BY <3>1
    <3> QED
      BY <2>9, <2>10, <2>13, <2>15, <3>2
  <2> QED
    BY <2>4, <2>5, <2>8, <2>9, <2>12, <2>14, <2>15
<1> QED
  BY <1>2, <1>3

(* What is no parse error *)
LEMMA StatementRead ==
  ASSUME NEW kind \in {Select, Insert, Update, Delete}, NEW table \in STRING,
         NEW partition \in Nat \cup {NoPartition}, NEW aggregate \in BOOLEAN,
         NEW statement, statement = Statement(kind, table, partition, aggregate)
  PROVE  /\ Valid(statement) <=> partition # NoPartition
         /\ statement.kind = kind /\ statement.table = table /\ statement.partition = partition
         /\ statement.aggregate = aggregate
<1>1. kind \in Select .. Unsupported /\ kind # Unsupported
  BY DEF Select, Insert, Update, Delete, Unsupported
<1>2. statement # Rejected
  BY <1>1, StatementsAssumption DEF Statement
<1> QED
  BY <1>1, <1>2 DEF Statement, Valid

(* The parser that reads a text is that of its first word. *)
LEMMA FirstWordRead ==
  ASSUME NEW ts \in Seq(Token)
  PROVE  /\ At(ts, 1) = Id("select") => Parse(ts) = ParseSelect(ts)
         /\ At(ts, 1) = Id("insert") => Parse(ts) = ParseInsert(ts)
         /\ At(ts, 1) = Id("update") => Parse(ts) = ParseUpdate(ts)
         /\ At(ts, 1) = Id("delete") => Parse(ts) = ParseDelete(ts)
<1>1. \A t \in Token : t[1] # "Unterminated"
  BY DEF Token, Sym
<1>2. ~Unterminated(ts)
  BY <1>1 DEF Unterminated
<1>3. \A word \in Word : At(ts, 1) = Id(word) => \A other : Keyword(ts, 1, other) <=> other = word
  BY WordRead
<1>4. "select" \in Word /\ "insert" \in Word /\ "update" \in Word /\ "delete" \in Word
  BY DEF Word
<1>5. ASSUME At(ts, 1) = Id("select")
      PROVE  Parse(ts) = ParseSelect(ts)
  <2>1. Keyword(ts, 1, "select") /\ ~Keyword(ts, 1, "insert") /\ ~Keyword(ts, 1, "update") /\ ~Keyword(ts, 1, "delete")
    BY <1>3, <1>4, <1>5
  <2> QED
    BY <1>2, <2>1 DEF Parse
<1>6. ASSUME At(ts, 1) = Id("insert")
      PROVE  Parse(ts) = ParseInsert(ts)
  <2>1. ~Keyword(ts, 1, "select") /\ Keyword(ts, 1, "insert") /\ ~Keyword(ts, 1, "update") /\ ~Keyword(ts, 1, "delete")
    BY <1>3, <1>4, <1>6
  <2> QED
    BY <1>2, <2>1 DEF Parse
<1>7. ASSUME At(ts, 1) = Id("update")
      PROVE  Parse(ts) = ParseUpdate(ts)
  <2>1. ~Keyword(ts, 1, "select") /\ ~Keyword(ts, 1, "insert") /\ Keyword(ts, 1, "update") /\ ~Keyword(ts, 1, "delete")
    BY <1>3, <1>4, <1>7
  <2> QED
    BY <1>2, <2>1 DEF Parse
<1>8. ASSUME At(ts, 1) = Id("delete")
      PROVE  Parse(ts) = ParseDelete(ts)
  <2>1. ~Keyword(ts, 1, "select") /\ ~Keyword(ts, 1, "insert") /\ ~Keyword(ts, 1, "update") /\ Keyword(ts, 1, "delete")
    BY <1>3, <1>4, <1>8
  <2> QED
    BY <1>2, <2>1 DEF Parse
<1> QED
  BY <1>5, <1>6, <1>7, <1>8

(* How the key and the acceptance of a statement make its meaning *)
IsMeant(st, statement, aggregate) ==
  /\ Valid(statement) <=> Table!Understood(st)
  /\ Valid(statement) =>
       /\ st.verb \in DOMAIN KindOf /\ statement.kind = KindOf[st.verb]
       /\ <<Lower(statement.table), statement.partition>> = Table!RowOf(st)
       /\ statement.aggregate = aggregate

IsReadAs(st, ok, partition, aggregate, statement) ==
  /\ ok => statement = Statement(KindOf[st.verb], st.written, partition, aggregate)
  /\ ~ok => statement = Rejected
  /\ ok => partition \in Nat \cup {NoPartition}
  /\ ok /\ partition # NoPartition <=> Table!Understood(st)
  /\ ok /\ partition # NoPartition =>
       partition = NumberOf[(CHOOSE literal \in Table!KeyLiterals(st) : TRUE)[2]]

LEMMA Meaning ==
  ASSUME NEW st, IsStatement(st), NEW ok \in BOOLEAN, NEW partition, NEW aggregate \in BOOLEAN,
         NEW statement, IsReadAs(st, ok, partition, aggregate, statement)
  PROVE  IsMeant(st, statement, aggregate)
<1>1. st.verb \in DOMAIN KindOf /\ st.written \in STRING /\ st.table = Lower(st.written)
  BY DEF IsStatement
<1>2. PICK kind \in {Select, Insert, Update, Delete} : kind = KindOf[st.verb]
  BY <1>1 DEF KindOf
<1>3. CASE ok
  <2>1. PICK table \in STRING : table = st.written
    BY <1>1
  <2>2. PICK part \in Nat \cup {NoPartition} : part = partition
    BY <1>3 DEF IsReadAs
  <2>3. statement = Statement(kind, table, part, aggregate)
    BY <1>2, <1>3, <2>1, <2>2 DEF IsReadAs
  <2>4. /\ Valid(statement) <=> part # NoPartition
        /\ statement.kind = kind /\ statement.table = table /\ statement.partition = part
        /\ statement.aggregate = aggregate
    BY <2>3, StatementRead
  <2>5. /\ part # NoPartition <=> Table!Understood(st)
        /\ part # NoPartition => part = NumberOf[(CHOOSE literal \in Table!KeyLiterals(st) : TRUE)[2]]
    BY <1>3, <2>2 DEF IsReadAs
  <2>6. part # NoPartition => <<Lower(statement.table), statement.partition>> = Table!RowOf(st)
    BY <1>1, <2>1, <2>4, <2>5 DEF Table!RowOf
  <2> QED
    BY <1>1, <1>2, <2>4, <2>5, <2>6 DEF IsMeant
<1>4. CASE ~ok
  BY <1>4 DEF Valid, IsMeant, IsReadAs
<1> QED
  BY <1>3, <1>4

(* What its condition makes of a statement with one *)
IsReadWith(st, values, where, aggregate, statement) ==
  LET ok == st.table \in DOMAIN DistributionKey /\ values /\ where.ok
  IN  /\ values <=> \A i \in DOMAIN st.values :
                       Table!Numeral(st.values[i]) => NumberOf[st.values[i][2]] <= KeyMax
      /\ ok => statement = Statement(KindOf[st.verb], st.written, where.partition, aggregate)
      /\ ~ok => statement = Rejected

LEMMA MeaningOfCondition ==
  ASSUME KeyMax < ULongMax, NEW st, IsStatement(st), st # Garbled, st.verb # "insert",
         NEW ts \in Seq(Token), IsText(ts), NEW p \in Nat, EndsWithCondition(ts, p, st),
         NEW where, where = Where(ts, p, DistributionKey[st.table]),
         NEW values \in BOOLEAN, NEW aggregate \in BOOLEAN, NEW statement,
         IsReadWith(st, values, where, aggregate, statement)
  PROVE  IsMeant(st, statement, aggregate)
<1>1. PICK key : key = DistributionKey[st.table]
  OBVIOUS
<1>2. where = Where(ts, p, key)
  BY <1>1
<1>3. /\ where.ok <=> \A v \in st.where : Table!Numeral(v[2]) => NumberOf[v[2][2]] <= KeyMax
      /\ where.partition # NoPartition <=> \E literal \in Table!KeyLiterals(st) : Table!Numeral(literal)
      /\ where.ok /\ where.partition # NoPartition =>
           /\ where.partition = NumberOf[(CHOOSE literal \in Table!KeyLiterals(st) : TRUE)[2]]
           /\ where.partition \in Nat
  BY <1>1, <1>2, ConditionRead
<1>4. values /\ where.ok <=>
        \A literal \in Table!Literals(st) : Table!Numeral(literal) => NumberOf[literal[2]] <= KeyMax
  BY <1>3 DEF Table!Literals, IsReadWith
<1>5. PICK ok \in BOOLEAN : ok <=> st.table \in DOMAIN DistributionKey /\ values /\ where.ok
  OBVIOUS
<1>6. PICK partition : partition = where.partition
  OBVIOUS
<1>7. ok /\ partition # NoPartition <=> Table!Understood(st)
  BY <1>3, <1>4, <1>5, <1>6 DEF Table!Understood
<1>8. ok => partition \in Nat \cup {NoPartition}
  BY <1>3, <1>5, <1>6
<1>9. /\ ok => statement = Statement(KindOf[st.verb], st.written, partition, aggregate)
      /\ ~ok => statement = Rejected
  BY <1>5, <1>6 DEF IsReadWith
<1>10. ok /\ partition # NoPartition =>
         partition = NumberOf[(CHOOSE literal \in Table!KeyLiterals(st) : TRUE)[2]]
  BY <1>3, <1>5, <1>6
<1>11. IsReadAs(st, ok, partition, aggregate, statement)
  BY <1>7, <1>8, <1>9, <1>10 DEF IsReadAs
<1> QED
  BY <1>11, Meaning

LEMMA DeleteRead ==
  ASSUME KeyMax < ULongMax, NEW st, IsStatement(st), st # Garbled, st.verb = "delete",
         IsText(Render(st))
  PROVE  ReadAsMeant(st)
<1>1. PICK ts : ts = Render(st)
  OBVIOUS
<1>2. DeleteText(ts, st) /\ IsText(ts)
  BY <1>1, DeleteIsWritten
<1>3. /\ ts \in Seq(Token) /\ EndsWithCondition(ts, 4, st)
      /\ At(ts, 1) = Id("delete") /\ At(ts, 2) = Id("from") /\ At(ts, 3) = Id(st.written)
  BY <1>2 DEF DeleteText
<1>4. PICK key, where : key = DistributionKey[st.table] /\ where = Where(ts, 4, key)
  OBVIOUS
<1>5. StatementEnds(ts, where.end) /\ where.ok \in BOOLEAN
  <2>1. StatementEnds(ts, where.end)
    BY <1>2, <1>3, <1>4, ConditionRead
  <2> QED
    BY <1>4, <2>1 DEF Where
<1>6. Keyword(ts, 2, "from")
  BY <1>3, WordRead DEF Word
<1>7. /\ Text(ts, 3) = st.written /\ Lower(Text(ts, 3)) = st.table
      /\ TableKnown(ts, 3) <=> st.table \in DOMAIN DistributionKey
      /\ KeyColumn(ts, 3) = key
  BY <1>3, <1>4, NameRead DEF IsStatement, TableKnown, KeyColumn
<1>8. PICK statement : statement = Parse(ts)
  OBVIOUS
<1>9. DOMAIN st.values = {} /\ KindOf[st.verb] = Delete
  BY DEF IsStatement, KindOf
<1>10. IsReadWith(st, TRUE, where, FALSE, statement)
  <2>1. statement = ParseDelete(ts)
    BY <1>3, <1>8, FirstWordRead
  <2>2. ParseDelete(ts) = IF st.table \in DOMAIN DistributionKey /\ where.ok
                          THEN Statement(Delete, st.written, where.partition, FALSE) ELSE Rejected
    BY <1>4, <1>5, <1>6, <1>7 DEF ParseDelete
  <2> QED
    BY <1>9, <2>1, <2>2 DEF IsReadWith
<1>11. IsMeant(st, statement, FALSE)
  <2>1. where = Where(ts, 4, DistributionKey[st.table])
    BY <1>4
  <2> QED
    BY <1>2, <1>3, <1>10, <2>1, MeaningOfCondition
<1> QED
  BY <1>1, <1>8, <1>11 DEF ReadAsMeant, IsMeant

(* The length of a list, known by where its commas are *)
LEMMA ListLengthEquals ==
  ASSUME NEW ts, NEW p, NEW w, NEW n \in Nat \ {0}, Len(ts) \in Nat, n <= Len(ts) + 1,
         ~Symbol(ts, ListEnd(p, n, w), Comma),
         \A m \in 1 .. n - 1 : Symbol(ts, ListEnd(p, m, w), Comma)
  PROVE  ListLength(ts, p, w) = n
<1> DEFINE comma(m) == Symbol(ts, ListEnd(p, m, w), Comma)
           Is(x) == ~comma(x) /\ \A m \in 1 .. x - 1 : comma(m)
<1>1. n \in 1 .. Len(ts) + 1 /\ ~comma(n) /\ \A m \in 1 .. n - 1 : comma(m)
  OBVIOUS
<1> HIDE DEF comma
<1>2. \A x \in 1 .. Len(ts) + 1 : Is(x) <=> x = n
  <2> SUFFICES ASSUME NEW x \in 1 .. Len(ts) + 1
               PROVE  Is(x) <=> x = n
    OBVIOUS
  <2>1. CASE x < n
    <3>1. x \in 1 .. n - 1
      BY <2>1
    <3> QED
      BY <1>1, <2>1, <3>1
  <2>2. CASE n < x
    <3>1. n \in 1 .. x - 1
      BY <2>2
    <3> QED
      BY <1>1, <2>2, <3>1
  <2>3. CASE x = n
    BY <1>1, <2>3
  <2> QED
    BY <2>1, <2>2, <2>3
<1>3. ListLength(ts, p, w) = CHOOSE x \in 1 .. Len(ts) + 1 : Is(x)
  BY DEF ListLength, comma
<1> HIDE DEF Is
<1>4. ListLength(ts, p, w) \in 1 .. Len(ts) + 1 /\ Is(ListLength(ts, p, w))
  BY <1>1, <1>2, <1>3
<1> QED
  BY <1>2, <1>4

(* A statement's assignments and the row they give *)
LEMMA GivenIs ==
  ASSUME NEW st, IsStatement(st), st.verb \in {"insert", "update"}
  PROVE  /\ DOMAIN Table!Given(st) = { st.columns[i] : i \in DOMAIN st.columns }
         /\ \A i \in DOMAIN st.columns : Table!Given(st)[st.columns[i]] = st.values[i][2]
         /\ Table!Given(st) = [c \in DOMAIN Table!Given(st) |-> Table!Given(st)[c]]
<1>1. \A i, j \in DOMAIN st.columns : st.columns[i] = st.columns[j] => i = j
  BY DEF IsStatement
<1> DEFINE index(c) == CHOOSE i \in DOMAIN st.columns : st.columns[i] = c
<1>2. \A i \in DOMAIN st.columns : index(st.columns[i]) = i
  BY <1>1
<1>3. Table!Given(st) = [c \in { st.columns[i] : i \in DOMAIN st.columns } |-> st.values[index(c)][2]]
  BY DEF Table!Given
<1> HIDE DEF index
<1> QED
  BY <1>2, <1>3

LEMMA AssignedIs ==
  ASSUME NEW st, IsStatement(st), st.verb = "update", NEW ts, IsText(ts), UpdateText(ts, st),
         ~Symbol(ts, 4 * Len(st.columns) + 3, Comma)
  PROVE  Assigned(ts) = Table!Given(st)
<1>1. PICK n : n = Len(st.columns) /\ n = Len(st.values)
  BY DEF IsStatement
<1>2. /\ n \in Nat \ {0} /\ DOMAIN st.columns = 1 .. n /\ ~Symbol(ts, 4 * n + 3, Comma)
      /\ \A i \in 1 .. n : IsLiteralOf(st.values[i]) /\ IsName(st.columns[i])
  BY <1>1, StatementTokens DEF IsStatement
<1>3. /\ At(ts, 1) = Id("update") /\ At(ts, 2) = Id(st.written) /\ At(ts, 3) = Id("set")
      /\ \A i \in 1 .. n : /\ At(ts, 4 * i) = Id(st.columns[i])
                           /\ At(ts, 4 * i + 1) = Sym("=") /\ At(ts, 4 * i + 2) = st.values[i]
      /\ \A i \in 1 .. n - 1 : At(ts, 4 * i + 3) = Sym(Comma)
  BY <1>1 DEF UpdateText
<1>4. \A i \in 1 .. n : IsLiteral(ts, 4 * i + 2) /\ Text(ts, 4 * i + 2) = st.values[i][2]
  BY <1>2, <1>3 DEF IsLiteral, IsLiteralOf, Text
<1>5. Len(ts) \in Nat /\ 4 * n + 2 <= Len(ts)
  <2>1. n \in 1 .. n /\ IsLiteral(ts, 4 * n + 2)
    BY <1>2, <1>4
  <2>2. 4 * n + 2 \in 1 .. Len(ts) /\ Len(ts) \in Nat
    BY <2>1, PastTheEnd
  <2> QED
    BY <1>2, <2>2
<1>6. SkipToKeyword(ts, 1, "set") + 1 = 4
  <2> DEFINE S == { q \in 1 .. Len(ts) : Keyword(ts, q, "set") } \cup {Len(ts) + 1}
  <2>1. Keyword(ts, 3, "set") /\ ~Keyword(ts, 1, "set")
    BY <1>3, WordRead DEF Word
  <2>2. ~Keyword(ts, 2, "set")
    BY <1>3, NameRead DEF Keyword, IsStatement, IsName
  <2>3. 3 \in S /\ \A q \in S : q \in Nat /\ 3 <= q
    <3>1. 3 \in S
      BY <1>2, <1>5, <2>1
    <3>2. ASSUME NEW q \in S
          PROVE  q \in Nat /\ 3 <= q
      <4>1. q \in Nat /\ (q = 1 \/ q = 2 \/ 3 <= q)
        BY <1>5
      <4>2. q # 1 /\ q # 2
        BY <1>2, <1>5, <2>1, <2>2
      <4> QED
        BY <4>1, <4>2
    <3> QED
      BY <3>1, <3>2
  <2>4. SkipToKeyword(ts, 1, "set") = First(S)
    BY DEF SkipToKeyword
  <2> HIDE DEF S
  <2>5. First(S) = 3
    BY <2>3, FirstIs
  <2> QED
    BY <2>4, <2>5
<1> DEFINE reached == { i \in 1 .. Len(ts) :
                     \A j \in 1 .. i :
                       /\ Identifier(ts, Item(4, j, 3))
                       /\ Symbol(ts, Item(4, j, 3) + 1, "=")
                       /\ IsLiteral(ts, Item(4, j, 3) + 2)
                       /\ j < i => Symbol(ts, ListEnd(4, j, 3), Comma) }
           of(name) == { i \in reached : Lower(Text(ts, Item(4, i, 3))) = name }
<1>7. Assigned(ts) = [name \in { Lower(Text(ts, Item(4, i, 3))) : i \in reached } |->
                        Text(ts, Item(4, Last(of(name)), 3) + 2)]
  BY <1>6 DEF Assigned
<1>8. \A i \in Nat : Item(4, i, 3) = 4 * i /\ ListEnd(4, i, 3) = 4 * i + 3
  BY DEF Item, ListEnd
<1>9. ASSUME NEW i \in 1 .. n
      PROVE  /\ Identifier(ts, Item(4, i, 3)) /\ Symbol(ts, Item(4, i, 3) + 1, "=")
             /\ IsLiteral(ts, Item(4, i, 3) + 2)
             /\ Lower(Text(ts, Item(4, i, 3))) = st.columns[i]
             /\ Text(ts, Item(4, i, 3) + 2) = st.values[i][2]
  <2>1. Item(4, i, 3) = 4 * i
    BY <1>8
  <2>2. /\ Identifier(ts, 4 * i) /\ Symbol(ts, 4 * i + 1, "=")
        /\ Lower(Text(ts, 4 * i)) = st.columns[i]
    BY <1>2, <1>3, NameRead, SymbolRead
  <2> QED
    BY <1>4, <2>1, <2>2
<1>10. /\ \A j \in 1 .. n - 1 : Symbol(ts, ListEnd(4, j, 3), Comma)
       /\ ~Symbol(ts, ListEnd(4, n, 3), Comma)
  <2>1. ASSUME NEW j \in 1 .. n - 1
        PROVE  Symbol(ts, ListEnd(4, j, 3), Comma)
    <3>1. ListEnd(4, j, 3) = 4 * j + 3
      BY <1>8
    <3>2. Symbol(ts, 4 * j + 3, Comma)
      BY <1>3, SymbolRead
    <3> QED
      BY <3>1, <3>2
  <2>2. ListEnd(4, n, 3) = 4 * n + 3
    BY <1>2, <1>8
  <2> QED
    BY <1>2, <2>1, <2>2
<1>11. reached = 1 .. n
  <2>1. ASSUME NEW i \in reached
        PROVE  i \in 1 .. n
    <3> SUFFICES ASSUME ~(i \in 1 .. n)
                 PROVE  FALSE
      OBVIOUS
    <3>1. n \in 1 .. i /\ n < i
      BY <1>2, <1>5
    <3>2. Symbol(ts, ListEnd(4, n, 3), Comma)
      BY <3>1
    <3> QED
      BY <1>10, <3>2
  <2>2. ASSUME NEW i \in 1 .. n
        PROVE  i \in reached
    <3>1. i \in 1 .. Len(ts)
      BY <1>2, <1>5
    <3>2. ASSUME NEW j \in 1 .. i
          PROVE  /\ Identifier(ts, Item(4, j, 3)) /\ Symbol(ts, Item(4, j, 3) + 1, "=")
                 /\ IsLiteral(ts, Item(4, j, 3) + 2)
                 /\ j < i => Symbol(ts, ListEnd(4, j, 3), Comma)
      <4>1. j \in 1 .. n /\ (j < i => j \in 1 .. n - 1)
        BY <1>2
      <4> QED
        BY <1>9, <1>10, <4>1
    <3> QED
      BY <3>1, <3>2
  <2> HIDE DEF reached
  <2> QED
    BY <2>1, <2>2
<1> HIDE DEF reached
<1>12. ASSUME NEW i \in 1 .. n
       PROVE  Last(of(st.columns[i])) = i
  <2>1. \A j \in 1 .. n : st.columns[j] = st.columns[i] => j = i
    BY <1>1, StatementTokens DEF IsStatement
  <2>2. of(st.columns[i]) = {i}
    BY <1>9, <1>11, <2>1
  <2>3. Last({i}) = i
    BY DEF Last
  <2> QED
    BY <2>2, <2>3
<1> HIDE DEF of
<1>13. { Lower(Text(ts, Item(4, i, 3))) : i \in reached } = { st.columns[i] : i \in 1 .. n }
  BY <1>9, <1>11
<1>14. \A i \in 1 .. n : Text(ts, Item(4, Last(of(st.columns[i])), 3) + 2) = st.values[i][2]
  BY <1>9, <1>12
<1>15. /\ DOMAIN Table!Given(st) = { st.columns[i] : i \in 1 .. n }
       /\ \A i \in 1 .. n : Table!Given(st)[st.columns[i]] = st.values[i][2]
       /\ Table!Given(st) = [c \in DOMAIN Table!Given(st) |-> Table!Given(st)[c]]
  <2>1. st.verb \in {"insert", "update"}
    OBVIOUS
  <2>2. /\ DOMAIN Table!Given(st) = { st.columns[i] : i \in DOMAIN st.columns }
        /\ \A i \in DOMAIN st.columns : Table!Given(st)[st.columns[i]] = st.values[i][2]
        /\ Table!Given(st) = [c \in DOMAIN Table!Given(st) |-> Table!Given(st)[c]]
    BY <2>1, GivenIs
  <2> QED
    BY <1>2, <2>2
<1> DEFINE value(name) == Text(ts, Item(4, Last(of(name)), 3) + 2)
           names == { st.columns[i] : i \in 1 .. n }
<1>16. Assigned(ts) = [name \in names |-> value(name)]
  BY <1>7, <1>13
<1>17. \A name \in names : value(name) = Table!Given(st)[name]
  BY <1>14, <1>15
<1> HIDE DEF value, names
<1> QED
  BY <1>15, <1>16, <1>17 DEF names

LEMMA UpdateRead ==
  ASSUME KeyMax < ULongMax, NEW st, IsStatement(st), st # Garbled, st.verb = "update",
         IsText(Render(st))
  PROVE  ReadAsMeant(st)
<1>1. PICK ts : ts = Render(st)
  OBVIOUS
<1>2. PICK n : n = Len(st.columns) /\ n = Len(st.values)
  BY DEF IsStatement
<1>3. UpdateText(ts, st) /\ IsText(ts) /\ ts \in Seq(Token)
  <2>1. UpdateText(ts, st) /\ IsText(ts)
    BY <1>1, UpdateIsWritten
  <2> QED
    BY <2>1 DEF UpdateText
<1>4. /\ n \in Nat \ {0} /\ DOMAIN st.values = 1 .. n
      /\ \A i \in 1 .. n : IsLiteralOf(st.values[i])
  BY <1>2, StatementTokens DEF IsStatement
<1>5. /\ EndsWithCondition(ts, 4 * n + 3, st)
      /\ At(ts, 1) = Id("update") /\ At(ts, 2) = Id(st.written) /\ At(ts, 3) = Id("set")
      /\ \A i \in 1 .. n : /\ At(ts, 4 * i) = Id(st.columns[i])
                           /\ At(ts, 4 * i + 1) = Sym("=") /\ At(ts, 4 * i + 2) = st.values[i]
      /\ \A i \in 1 .. n - 1 : At(ts, 4 * i + 3) = Sym(Comma)
  BY <1>2, <1>3 DEF UpdateText
<1>6. PICK p \in Nat : p = 4 * n + 3
  BY <1>4
<1>7. PICK key, where : key = DistributionKey[st.table] /\ where = Where(ts, p, key)
  OBVIOUS
<1>8. StatementEnds(ts, where.end) /\ where.ok \in BOOLEAN /\ ~Symbol(ts, p, Comma)
  <2>1. StatementEnds(ts, where.end) /\ ~Symbol(ts, p, Comma)
    BY <1>3, <1>5, <1>6, <1>7, ConditionRead
  <2> QED
    BY <1>7, <2>1 DEF Where
<1>9. /\ Text(ts, 2) = st.written /\ Lower(Text(ts, 2)) = st.table
      /\ TableKnown(ts, 2) <=> st.table \in DOMAIN DistributionKey
      /\ KeyColumn(ts, 2) = key /\ Keyword(ts, 3, "set")
  <2>1. Keyword(ts, 3, "set")
    BY <1>5, WordRead DEF Word
  <2>2. Identifier(ts, 2) /\ Text(ts, 2) = st.written
    BY <1>5, NameRead
  <2> QED
    BY <1>7, <2>1, <2>2 DEF IsStatement, TableKnown, KeyColumn
<1>10. \A i \in 1 .. n : /\ Identifier(ts, 4 * i) /\ Symbol(ts, 4 * i + 1, "=")
                         /\ Literal(ts, 4 * i + 2) <=>
                              (Table!Numeral(st.values[i]) => NumberOf[st.values[i][2]] <= KeyMax)
                         /\ IsLiteral(ts, 4 * i + 2)
  <2> TAKE i \in 1 .. n
  <2>1. Identifier(ts, 4 * i) /\ Symbol(ts, 4 * i + 1, "=")
    BY <1>5, NameRead, SymbolRead
  <2>2. PICK v, q : v = st.values[i] /\ q = 4 * i + 2
    OBVIOUS
  <2>3. At(ts, q) = v /\ IsLiteralOf(v)
    BY <1>4, <1>5, <2>2
  <2>4. /\ Literal(ts, q) <=> (Table!Numeral(v) => NumberOf[v[2]] <= KeyMax)
        /\ IsLiteral(ts, q)
    BY <1>3, <2>3, LiteralRead
  <2> QED
    BY <2>1, <2>2, <2>4
<1>11. Len(ts) \in Nat /\ n <= Len(ts) + 1
  <2>1. n \in 1 .. n /\ IsLiteral(ts, 4 * n + 2)
    BY <1>4, <1>10
  <2>2. 4 * n + 2 \in 1 .. Len(ts) /\ Len(ts) \in Nat
    BY <1>3, <2>1, PastTheEnd
  <2> QED
    BY <1>4, <2>2
<1>12. \A i \in Nat : Item(4, i, 3) = 4 * i /\ ListEnd(4, i, 3) = 4 * i + 3
  BY DEF Item, ListEnd
<1>13. ListLength(ts, 4, 3) = n /\ ListEnd(4, n, 3) = p
  <2>1. ListEnd(4, n, 3) = p
    BY <1>4, <1>6, <1>12
  <2>2. ASSUME NEW m \in 1 .. n - 1
        PROVE  Symbol(ts, ListEnd(4, m, 3), Comma)
    <3>1. ListEnd(4, m, 3) = 4 * m + 3
      BY <1>12
    <3>2. Symbol(ts, 4 * m + 3, Comma)
      BY <1>5, SymbolRead
    <3> QED
      BY <3>1, <3>2
  <2>3. ~Symbol(ts, ListEnd(4, n, 3), Comma)
    BY <1>8, <2>1
  <2>4. ListLength(ts, 4, 3) = n
    BY <1>4, <1>11, <2>2, <2>3, ListLengthEquals
  <2> QED
    BY <2>1, <2>4
<1>14. PICK values \in BOOLEAN :
         values <=> \A i \in DOMAIN st.values :
                      Table!Numeral(st.values[i]) => NumberOf[st.values[i][2]] <= KeyMax
  OBVIOUS
<1>15. values <=> \A i \in 1 .. n : /\ Identifier(ts, Item(4, i, 3))
                                    /\ Symbol(ts, Item(4, i, 3) + 1, "=")
                                    /\ Literal(ts, Item(4, i, 3) + 2)
  <2>1. \A i \in 1 .. n : Item(4, i, 3) = 4 * i
    BY <1>12
  <2>2. \A i \in 1 .. n : /\ Identifier(ts, Item(4, i, 3)) /\ Symbol(ts, Item(4, i, 3) + 1, "=")
                          /\ Literal(ts, Item(4, i, 3) + 2) <=>
                               (Table!Numeral(st.values[i]) => NumberOf[st.values[i][2]] <= KeyMax)
    BY <1>10, <2>1
  <2> QED
    BY <1>4, <1>14, <2>2
<1>16. PICK statement : statement = Parse(ts)
  OBVIOUS
<1>17. IsReadWith(st, values, where, FALSE, statement)
  <2>1. statement = ParseUpdate(ts)
    BY <1>5, <1>16, <1>3, FirstWordRead
  <2>2. ParseUpdate(ts) = IF st.table \in DOMAIN DistributionKey /\ values /\ where.ok
                          THEN Statement(Update, st.written, where.partition, FALSE) ELSE Rejected
    BY <1>7, <1>8, <1>9, <1>13, <1>15 DEF ParseUpdate
  <2>3. KindOf[st.verb] = Update
    BY DEF KindOf
  <2> QED
    BY <1>14, <2>1, <2>2, <2>3 DEF IsReadWith
<1>18. IsMeant(st, statement, FALSE)
  <2>1. where = Where(ts, p, DistributionKey[st.table]) /\ EndsWithCondition(ts, p, st) /\ st.verb # "insert"
    BY <1>5, <1>6, <1>7
  <2> QED
    BY <1>3, <1>17, <2>1, MeaningOfCondition
<1>19. Assigned(ts) = Table!Given(st)
  <2>1. ~Symbol(ts, 4 * Len(st.columns) + 3, Comma)
    BY <1>2, <1>6, <1>8
  <2> QED
    BY <1>3, <2>1, AssignedIs
<1> QED
  BY <1>1, <1>16, <1>18, <1>19 DEF ReadAsMeant, IsMeant

(* What a SELECT selects is read as it was meant *)
Starred(ts) == Symbol(ts, 2, "*")
Aggregated(ts) ==
  ~Starred(ts) /\ (\E name \in DecomposableAggregates : Keyword(ts, 2, name)) /\ Symbol(ts, 3, "(")

LEMMA SelectionRead ==
  ASSUME NEW st, IsStatement(st), st.verb = "select",
         NEW ts, IsText(ts), NEW p, SelectText(ts, st, p)
  PROVE  LET columns == ListLength(ts, 2, 1)
         IN  /\ Aggregated(ts) <=> st.count
             /\ p = IF Starred(ts) THEN 3 ELSE IF Aggregated(ts) THEN 6 ELSE ListEnd(2, columns, 1)
             /\ \/ Starred(ts)
                \/ Aggregated(ts) /\ (Symbol(ts, 4, "*") \/ Identifier(ts, 4)) /\ Symbol(ts, 5, ")")
                \/ ~Aggregated(ts) /\ \A i \in 1 .. columns : Identifier(ts, Item(2, i, 1))
<1>1. SelectedText(ts, st, p) /\ At(ts, p) = Id("from") /\ p \in Nat /\ ts \in Seq(Token)
  BY DEF SelectText
<1>2. CASE st.count
  <2>1. /\ p = 6 /\ At(ts, 2) = Id("count") /\ At(ts, 3) = Sym("(") /\ At(ts, 4) = Sym("*") /\ At(ts, 5) = Sym(")")
    BY <1>1, <1>2 DEF SelectedText
  <2>2. Keyword(ts, 2, "count") /\ ~Starred(ts)
    BY <2>1, WordRead DEF Word, Starred
  <2>3. Symbol(ts, 3, "(") /\ Symbol(ts, 4, "*") /\ Symbol(ts, 5, ")")
    BY <2>1, SymbolRead
  <2>4. Aggregated(ts)
    BY <2>2, <2>3 DEF Aggregated, DecomposableAggregates
  <2> QED
    BY <1>2, <2>1, <2>2, <2>3, <2>4
<1>3. CASE ~st.count /\ st.columns = <<>>
  <2>1. p = 3 /\ At(ts, 2) = Sym("*")
    BY <1>1, <1>3 DEF SelectedText
  <2>2. Starred(ts)
    BY <2>1, SymbolRead DEF Starred
  <2> QED
    BY <1>3, <2>1, <2>2 DEF Aggregated
<1>4. CASE ~st.count /\ st.columns # <<>>
  <2>1. PICK n : n = Len(st.columns)
    OBVIOUS
  <2>2. n \in Nat \ {0}
    BY <1>4, <2>1, StatementTokens
  <2>3. /\ p = 1 + 2 * n
        /\ \A i \in 1 .. n : At(ts, 2 * i) = Id(st.columns[i])
        /\ \A i \in 1 .. n - 1 : At(ts, 1 + 2 * i) = Sym(Comma)
    BY <1>1, <1>4, <2>1 DEF SelectedText
  <2>4. \A i \in 1 .. n : Identifier(ts, 2 * i) /\ \A c : ~Symbol(ts, 2 * i, c)
    <3> TAKE i \in 1 .. n
    <3>1. At(ts, 2 * i) = Id(st.columns[i])
      BY <2>3
    <3> QED
      BY <3>1, NameRead
  <2>5. ~Starred(ts)
    <3>1. 1 \in 1 .. n /\ 2 * 1 = 2
      BY <2>2
    <3>2. ~Symbol(ts, 2 * 1, "*")
      BY <2>4, <3>1
    <3> QED
      BY <3>1, <3>2 DEF Starred
  <2>6. Identifier(ts, p) /\ \A c : ~Symbol(ts, p, c)
    BY <1>1, NameRead
  <2>7. \A i \in 1 .. n - 1 : Symbol(ts, 1 + 2 * i, Comma)
    BY <2>3, SymbolRead
  <2>8. ~Aggregated(ts)
    <3>1. CASE n = 1
      <4>1. p = 3
        BY <2>3, <3>1
      <4> QED
        BY <2>6, <4>1 DEF Aggregated
    <3>2. CASE n # 1
      <4>1. 1 \in 1 .. n - 1 /\ 1 + 2 * 1 = 3
        BY <2>2, <3>2
      <4>2. Symbol(ts, 3, Comma)
        BY <2>7, <4>1
      <4>3. ~Symbol(ts, 3, "(")
        BY <4>2, CommaIsNoOther DEF Symbol
      <4> QED
        BY <4>3 DEF Aggregated
    <3> QED
      BY <3>1, <3>2
  <2>9. Len(ts) \in Nat /\ n <= Len(ts) + 1
    <3>1. p \in 1 .. Len(ts) /\ Len(ts) \in Nat
      BY <2>6, PastTheEnd
    <3> QED
      BY <2>2, <2>3, <3>1
  <2>10. \A i \in Nat : Item(2, i, 1) = 2 * i /\ ListEnd(2, i, 1) = 1 + 2 * i
    BY DEF Item, ListEnd
  <2>11. ListEnd(2, n, 1) = p
    BY <2>2, <2>3, <2>10
  <2>12. ListLength(ts, 2, 1) = n
    <3>1. ASSUME NEW m \in 1 .. n - 1
          PROVE  Symbol(ts, ListEnd(2, m, 1), Comma)
      <4>1. ListEnd(2, m, 1) = 1 + 2 * m
        BY <2>10
      <4>2. Symbol(ts, 1 + 2 * m, Comma)
        BY <2>7
      <4> QED
        BY <4>1, <4>2
    <3>2. ~Symbol(ts, ListEnd(2, n, 1), Comma)
      BY <2>6, <2>11
    <3> QED
      BY <2>2, <2>9, <3>1, <3>2, ListLengthEquals
  <2>13. ASSUME NEW i \in 1 .. n
         PROVE  Identifier(ts, Item(2, i, 1))
    <3>1. Item(2, i, 1) = 2 * i
      BY <2>10
    <3> QED
      BY <2>4, <3>1
  <2> QED
    BY <1>4, <2>5, <2>8, <2>11, <2>12, <2>13
<1> QED
  BY <1>2, <1>3, <1>4

LEMMA SelectRead ==
  ASSUME KeyMax < ULongMax, NEW st, IsStatement(st), st # Garbled, st.verb = "select",
         IsText(Render(st))
  PROVE  ReadAsMeant(st)
<1>1. PICK ts : ts = Render(st)
  OBVIOUS
<1>2. PICK from : SelectText(ts, st, from)
  BY <1>1, SelectIsWritten
<1>3. /\ IsText(ts) /\ ts \in Seq(Token) /\ from \in Nat
      /\ At(ts, 1) = Id("select") /\ At(ts, from) = Id("from") /\ At(ts, from + 1) = Id(st.written)
      /\ EndsWithCondition(ts, from + 2, st)
  BY <1>1, <1>2 DEF SelectText
<1>4. PICK p \in Nat : p = from + 2
  BY <1>3
<1>5. PICK key, where : key = DistributionKey[st.table] /\ where = Where(ts, p, key)
  OBVIOUS
<1>6. StatementEnds(ts, where.end) /\ where.ok \in BOOLEAN /\ EndsWithCondition(ts, p, st)
  <2>1. EndsWithCondition(ts, p, st) /\ st.verb # "insert"
    BY <1>3, <1>4
  <2>2. StatementEnds(ts, where.end)
    BY <1>3, <1>5, <2>1, ConditionRead
  <2> QED
    BY <1>5, <2>1, <2>2 DEF Where
<1>7. /\ Text(ts, from + 1) = st.written /\ Lower(Text(ts, from + 1)) = st.table
      /\ TableKnown(ts, from + 1) <=> st.table \in DOMAIN DistributionKey
      /\ KeyColumn(ts, from + 1) = key /\ Keyword(ts, from, "from")
  <2>1. Keyword(ts, from, "from")
    BY <1>3, WordRead DEF Word
  <2>2. Identifier(ts, from + 1) /\ Text(ts, from + 1) = st.written
    BY <1>3, NameRead
  <2> QED
    BY <1>5, <2>1, <2>2 DEF IsStatement, TableKnown, KeyColumn
<1>8. PICK count \in BOOLEAN : count = st.count
  BY DEF IsStatement
<1>9. LET columns == ListLength(ts, 2, 1)
      IN  /\ Aggregated(ts) <=> count
          /\ from = IF Starred(ts) THEN 3 ELSE IF Aggregated(ts) THEN 6 ELSE ListEnd(2, columns, 1)
          /\ \/ Starred(ts)
             \/ Aggregated(ts) /\ (Symbol(ts, 4, "*") \/ Identifier(ts, 4)) /\ Symbol(ts, 5, ")")
             \/ ~Aggregated(ts) /\ \A i \in 1 .. columns : Identifier(ts, Item(2, i, 1))
  BY <1>2, <1>3, <1>8, SelectionRead
<1>10. PICK statement : statement = Parse(ts)
  OBVIOUS
<1>11. IsReadWith(st, TRUE, where, count, statement)
  <2>1. statement = ParseSelect(ts)
    BY <1>3, <1>10, FirstWordRead
  <2> DEFINE columns == ListLength(ts, 2, 1)
  <2>2. ParseSelect(ts) =
          IF /\ \/ Starred(ts)
                \/ Aggregated(ts) /\ (Symbol(ts, 4, "*") \/ Identifier(ts, 4)) /\ Symbol(ts, 5, ")")
                \/ ~Aggregated(ts) /\ \A i \in 1 .. columns : Identifier(ts, Item(2, i, 1))
             /\ Keyword(ts, from, "from")
             /\ TableKnown(ts, from + 1)
             /\ where.ok
             /\ StatementEnds(ts, where.end)
          THEN Statement(Select, Text(ts, from + 1), where.partition, Aggregated(ts))
          ELSE Rejected
    BY <1>4, <1>5, <1>7, <1>9 DEF ParseSelect, Starred, Aggregated
  <2>3. Statement(Select, Text(ts, from + 1), where.partition, Aggregated(ts)) =
          Statement(Select, st.written, where.partition, count)
    BY <1>7, <1>9 DEF Aggregated
  <2>4. ParseSelect(ts) = IF st.table \in DOMAIN DistributionKey /\ where.ok
                          THEN Statement(Select, st.written, where.partition, count) ELSE Rejected
    BY <1>6, <1>7, <1>9, <2>2, <2>3
  <2>5. KindOf[st.verb] = Select /\ DOMAIN st.values = {}
    BY DEF KindOf, IsStatement
  <2> QED
    BY <2>1, <2>4, <2>5 DEF IsReadWith
<1>12. IsMeant(st, statement, count)
  <2>1. where = Where(ts, p, DistributionKey[st.table]) /\ st.verb # "insert"
    BY <1>5
  <2> QED
    BY <1>3, <1>6, <1>11, <2>1, MeaningOfCondition
<1> QED
  BY <1>1, <1>8, <1>10, <1>12 DEF ReadAsMeant, IsMeant

(* The columns the executor finds in an INSERT, and the row it reads *)
LEMMA InsertedNames ==
  ASSUME NEW t, Begins(t, t), NEW n, IsInsert(t, n)
  PROVE  /\ DOMAIN InsertedRow(t) = { Lower(Text(t, 3 + 2 * i)) : i \in 1 .. n }
         /\ InsertedRow(t) = [name \in DOMAIN InsertedRow(t) |-> InsertedRow(t)[name]]
<1> DEFINE columns == IdentList(t, Columns(t))
           values == LiteralList(t, Values(t))
           filled == { p \in columns : Rank(columns, p) <= Cardinality(values) }
           value(p) == CHOOSE q \in values : Rank(values, q) = Rank(columns, p)
           of(name) == { p \in filled : Lower(Text(t, p)) = name }
           names == { Lower(Text(t, p)) : p \in filled }
<1>1. InsertedRow(t) = [name \in names |-> Text(t, value(Last(of(name))))]
  BY DEF InsertedRow
<1>2. n \in Nat \ {0} /\ n \in Nat /\ 5 + 2 * n \in Nat /\ 3 \in Nat
  BY DEF IsInsert
<1>3. /\ columns = { 3 + 2 * j : j \in 1 .. n }
      /\ values = { 5 + 2 * n + 2 * j : j \in 1 .. n }
  BY InsertLists
<1> HIDE DEF columns, values
<1>4. Cardinality(columns) = n /\ \A j \in 1 .. n : Rank(columns, 3 + 2 * j) = j
  BY <1>2, <1>3, Ranks
<1>5. Cardinality(values) = n
  BY <1>2, <1>3, Ranks
<1>6. filled = columns
  <2>1. \A p \in columns : Rank(columns, p) <= n
    BY <1>2, <1>3, <1>4
  <2> QED
    BY <1>5, <2>1
<1>7. names = { Lower(Text(t, 3 + 2 * i)) : i \in 1 .. n }
  BY <1>3, <1>6
<1> HIDE DEF names, value, of
<1> QED
  BY <1>1, <1>7

LEMMA InsertedIs ==
  ASSUME NEW st, IsStatement(st), st.verb = "insert", NEW ts, IsText(ts),
         NEW n \in Nat \ {0}, DOMAIN st.columns = 1 .. n, InsertTokens(ts, st, n, n), IsInsert(ts, n)
  PROVE  InsertedRow(ts) = Table!Given(st)
<1>1. n \in Nat \ {0} /\ Begins(ts, ts)
  <2>1. Len(ts) \in Nat /\ DOMAIN ts = 1 .. Len(ts)
    BY PastTheEnd
  <2> QED
    BY <2>1 DEF Begins, At, IsInsert
<1>2. \A i \in 1 .. n : /\ At(ts, 3 + 2 * i) = Id(st.columns[i]) /\ IsName(st.columns[i])
                        /\ At(ts, 5 + 2 * n + 2 * i) = st.values[i]
  <2>1. \A i \in 1 .. n : IsName(st.columns[i])
    BY DEF IsStatement
  <2> QED
    BY <2>1 DEF InsertTokens
<1>3. \A i \in 1 .. n : /\ Lower(Text(ts, 3 + 2 * i)) = st.columns[i]
                        /\ Text(ts, 5 + 2 * n + 2 * i) = st.values[i][2]
  <2> TAKE i \in 1 .. n
  <2>1. Text(ts, 5 + 2 * n + 2 * i) = st.values[i][2]
    BY <1>2 DEF Text
  <2>2. Lower(Text(ts, 3 + 2 * i)) = st.columns[i]
    <3>1. At(ts, 3 + 2 * i) = Id(st.columns[i]) /\ IsName(st.columns[i])
      BY <1>2
    <3> QED
      BY <3>1, NameRead
  <2> QED
    BY <2>1, <2>2
<1>4. /\ DOMAIN InsertedRow(ts) = { st.columns[i] : i \in 1 .. n }
      /\ InsertedRow(ts) = [name \in DOMAIN InsertedRow(ts) |-> InsertedRow(ts)[name]]
  <2>1. /\ DOMAIN InsertedRow(ts) = { Lower(Text(ts, 3 + 2 * i)) : i \in 1 .. n }
        /\ InsertedRow(ts) = [name \in DOMAIN InsertedRow(ts) |-> InsertedRow(ts)[name]]
    BY <1>1, InsertedNames
  <2>2. { Lower(Text(ts, 3 + 2 * i)) : i \in 1 .. n } = { st.columns[i] : i \in 1 .. n }
    BY <1>3
  <2> QED
    BY <2>1, <2>2, Zenon
<1>5. ASSUME NEW i \in 1 .. n
      PROVE  InsertedRow(ts)[st.columns[i]] = st.values[i][2]
  <2>1. \A j \in 1 .. n : st.columns[j] = st.columns[i] => j = i
    BY DEF IsStatement
  <2>2. PICK key : key = st.columns[i]
    OBVIOUS
  <2>3. key = Lower(Text(ts, 3 + 2 * i)) /\ \A j \in 1 .. n : Lower(Text(ts, 3 + 2 * j)) = key => j = i
    BY <1>3, <2>1, <2>2
  <2>4. InsertedRow(ts)[key] = Text(ts, 5 + 2 * n + 2 * i)
    BY <1>1, <2>3, InsertedValue
  <2> QED
    BY <1>3, <2>2, <2>4
<1>6. /\ DOMAIN Table!Given(st) = { st.columns[i] : i \in 1 .. n }
      /\ \A i \in 1 .. n : Table!Given(st)[st.columns[i]] = st.values[i][2]
      /\ Table!Given(st) = [c \in DOMAIN Table!Given(st) |-> Table!Given(st)[c]]
  <2>1. st.verb \in {"insert", "update"}
    OBVIOUS
  <2>2. /\ DOMAIN Table!Given(st) = { st.columns[i] : i \in DOMAIN st.columns }
        /\ \A i \in DOMAIN st.columns : Table!Given(st)[st.columns[i]] = st.values[i][2]
        /\ Table!Given(st) = [c \in DOMAIN Table!Given(st) |-> Table!Given(st)[c]]
    BY <2>1, GivenIs
  <2> QED
    BY <2>2
<1>7. PICK f, g : f = InsertedRow(ts) /\ g = Table!Given(st)
  OBVIOUS
<1>8. DOMAIN f = DOMAIN g /\ \A name \in DOMAIN f : f[name] = g[name]
  BY <1>4, <1>5, <1>6, <1>7
<1>9. f = [name \in DOMAIN f |-> f[name]] /\ g = [name \in DOMAIN g |-> g[name]]
  BY <1>4, <1>6, <1>7
<1>10. f = g
  BY <1>8, <1>9
<1> QED
  BY <1>7, <1>10

(* What the parser makes of an INSERT of n columns and m values *)
NamesColumns(ts, st, n) == \A i \in 1 .. n : Lower(Text(ts, 3 + 2 * i)) = st.columns[i]

ReadsValue(ts, p, v) ==
  /\ Literal(ts, p) <=> (Table!Numeral(v) => NumberOf[v[2]] <= KeyMax)
  /\ LiteralValue(ts, p) # NoPartition <=> Table!Numeral(v)
  /\ Literal(ts, p) /\ Table!Numeral(v) =>
       LiteralValue(ts, p) = NumberOf[v[2]] /\ NumberOf[v[2]] \in Nat

InsertParse(ts, st, n, m) ==
  /\ \A i \in 1 .. m : ReadsValue(ts, 5 + 2 * n + 2 * i, st.values[i])
  /\ n = m => IsInsert(ts, n)
  /\ ParseInsert(ts) =
       IF /\ st.table \in DOMAIN DistributionKey
          /\ \A i \in 1 .. m : Literal(ts, 5 + 2 * n + 2 * i)
          /\ n = m
       THEN Statement(Insert, st.written, InsertPartition(ts, n), FALSE) ELSE Rejected
  /\ KeyColumn(ts, 3) = DistributionKey[st.table]
  /\ NamesColumns(ts, st, n)

LEMMA InsertParsed ==
  ASSUME KeyMax < ULongMax, NEW st, IsStatement(st), st.verb = "insert",
         NEW ts, IsText(ts), NEW n \in Nat \ {0}, NEW m \in Nat \ {0},
         DOMAIN st.columns = 1 .. n, st.values \in Seq({"Number", "String"} \X STRING), DOMAIN st.values = 1 .. m,
         InsertTokens(ts, st, n, m)
  PROVE  InsertParse(ts, st, n, m)
<1>1. /\ n \in Nat \ {0} /\ m \in Nat \ {0}
      /\ \A i \in 1 .. m : IsLiteralOf(st.values[i])
      /\ \A i \in 1 .. n : IsName(st.columns[i])
  BY DEF IsStatement, IsLiteralOf
<1>2. /\ ts \in Seq(Token) /\ Len(ts) = 6 + 2 * n + 2 * m
      /\ At(ts, 1) = Id("insert") /\ At(ts, 2) = Id("into") /\ At(ts, 3) = Id(st.written)
      /\ At(ts, 4) = Sym("(")
      /\ \A i \in 1 .. n : At(ts, 3 + 2 * i) = Id(st.columns[i])
      /\ \A i \in 1 .. n - 1 : At(ts, 4 + 2 * i) = Sym(Comma)
      /\ At(ts, 4 + 2 * n) = Sym(")") /\ At(ts, 5 + 2 * n) = Id("values") /\ At(ts, 6 + 2 * n) = Sym("(")
      /\ \A i \in 1 .. m : At(ts, 5 + 2 * n + 2 * i) = st.values[i]
      /\ \A i \in 1 .. m - 1 : At(ts, 6 + 2 * n + 2 * i) = Sym(Comma)
      /\ At(ts, 6 + 2 * n + 2 * m) = Sym(")")
  BY DEF InsertTokens
<1>3. /\ Keyword(ts, 1, "insert") /\ Keyword(ts, 2, "into") /\ Keyword(ts, 5 + 2 * n, "values")
  BY <1>2, WordRead DEF Word
<1>4. /\ Symbol(ts, 4, "(") /\ Symbol(ts, 4 + 2 * n, ")") /\ Symbol(ts, 6 + 2 * n, "(")
      /\ Symbol(ts, 6 + 2 * n + 2 * m, ")")
      /\ ~Symbol(ts, 4 + 2 * n, Comma) /\ ~Symbol(ts, 6 + 2 * n + 2 * m, Comma)
      /\ \A i \in 1 .. n - 1 : Symbol(ts, 4 + 2 * i, Comma)
      /\ \A i \in 1 .. m - 1 : Symbol(ts, 6 + 2 * n + 2 * i, Comma)
  <2>1. /\ Symbol(ts, 4, "(") /\ Symbol(ts, 4 + 2 * n, ")") /\ Symbol(ts, 6 + 2 * n, "(")
        /\ Symbol(ts, 6 + 2 * n + 2 * m, ")")
    BY <1>2, SymbolRead
  <2>2. /\ \A i \in 1 .. n - 1 : Symbol(ts, 4 + 2 * i, Comma)
        /\ \A i \in 1 .. m - 1 : Symbol(ts, 6 + 2 * n + 2 * i, Comma)
    BY <1>2, SymbolRead
  <2>3. ~Symbol(ts, 4 + 2 * n, Comma) /\ ~Symbol(ts, 6 + 2 * n + 2 * m, Comma)
    BY <2>1, CommaIsNoOther DEF Symbol
  <2> QED
    BY <2>1, <2>2, <2>3
<1>5. \A i \in 1 .. n : Identifier(ts, 3 + 2 * i) /\ Lower(Text(ts, 3 + 2 * i)) = st.columns[i]
  <2> TAKE i \in 1 .. n
  <2>1. At(ts, 3 + 2 * i) = Id(st.columns[i]) /\ IsName(st.columns[i])
    BY <1>1, <1>2
  <2> QED
    BY <2>1, NameRead
<1>6. \A i \in 1 .. m : ReadsValue(ts, 5 + 2 * n + 2 * i, st.values[i]) /\ IsLiteral(ts, 5 + 2 * n + 2 * i)
  <2> TAKE i \in 1 .. m
  <2>1. PICK v, q : v = st.values[i] /\ q = 5 + 2 * n + 2 * i
    OBVIOUS
  <2>2. At(ts, q) = v /\ IsLiteralOf(v)
    BY <1>1, <1>2, <2>1
  <2>3. ReadsValue(ts, q, v) /\ IsLiteral(ts, q)
    BY <2>2, LiteralRead DEF ReadsValue
  <2> QED
    BY <2>1, <2>3
<1>7. /\ TableKnown(ts, 3) <=> st.table \in DOMAIN DistributionKey
      /\ Text(ts, 3) = st.written /\ KeyColumn(ts, 3) = DistributionKey[st.table]
  <2>1. Identifier(ts, 3) /\ Text(ts, 3) = st.written
    BY <1>2, NameRead
  <2> QED
    BY <2>1 DEF IsStatement, TableKnown, KeyColumn
<1>8. PICK from \in Nat : from = 7 + 2 * n
  OBVIOUS
<1>9. /\ \A i \in Nat : /\ Item(5, i, 1) = 3 + 2 * i /\ ListEnd(5, i, 1) = 4 + 2 * i
                        /\ Item(from, i, 1) = 5 + 2 * n + 2 * i
                        /\ ListEnd(from, i, 1) = 6 + 2 * n + 2 * i
      /\ InsertValues(n) = from /\ from - 2 = 5 + 2 * n /\ from - 1 = 6 + 2 * n
  <2>1. \A i \in Nat : Item(5, i, 1) = 3 + 2 * i /\ ListEnd(5, i, 1) = 4 + 2 * i
    BY DEF Item, ListEnd
  <2>2. \A i \in Nat : Item(from, i, 1) = 5 + 2 * n + 2 * i
    BY <1>1, <1>8 DEF Item
  <2>3. \A i \in Nat : ListEnd(from, i, 1) = 6 + 2 * n + 2 * i
    BY <1>1, <1>8 DEF ListEnd
  <2>4. from - 2 = 5 + 2 * n /\ from - 1 = 6 + 2 * n
    BY <1>1, <1>8
  <2>5. InsertValues(n) = from
    BY <1>1, <1>8, <2>1 DEF InsertValues
  <2> QED
    BY <2>1, <2>2, <2>3, <2>4, <2>5
<1>10. ListLength(ts, 5, 1) = n /\ ListLength(ts, from, 1) = m
  <2>1. Len(ts) \in Nat /\ n <= Len(ts) + 1 /\ m <= Len(ts) + 1
    BY <1>1, <1>2
  <2>2. ASSUME NEW i \in 1 .. n - 1
        PROVE  Symbol(ts, ListEnd(5, i, 1), Comma)
    <3>1. ListEnd(5, i, 1) = 4 + 2 * i
      BY <1>1, <1>9
    <3>2. Symbol(ts, 4 + 2 * i, Comma)
      BY <1>4
    <3> QED
      BY <3>1, <3>2
  <2>3. ASSUME NEW i \in 1 .. m - 1
        PROVE  Symbol(ts, ListEnd(from, i, 1), Comma)
    <3>1. ListEnd(from, i, 1) = 6 + 2 * n + 2 * i
      BY <1>1, <1>9
    <3>2. Symbol(ts, 6 + 2 * n + 2 * i, Comma)
      BY <1>4
    <3> QED
      BY <3>1, <3>2
  <2>4. ~Symbol(ts, ListEnd(5, n, 1), Comma) /\ ~Symbol(ts, ListEnd(from, m, 1), Comma)
    BY <1>1, <1>4, <1>9
  <2>5. ListLength(ts, 5, 1) = n
    BY <1>1, <2>1, <2>2, <2>4, ListLengthEquals
  <2>6. ListLength(ts, from, 1) = m
    BY <1>1, <2>1, <2>3, <2>4, ListLengthEquals
  <2> QED
    BY <2>5, <2>6
<1>11. InsertColumnsOk(ts, n)
  <2>1. ASSUME NEW i \in 1 .. n
        PROVE  Identifier(ts, Item(5, i, 1))
    <3>1. Item(5, i, 1) = 3 + 2 * i
      BY <1>1, <1>9
    <3> QED
      BY <1>5, <3>1
  <2>2. ListEnd(5, n, 1) = 4 + 2 * n
    BY <1>1, <1>9
  <2> QED
    BY <1>4, <2>1, <2>2 DEF InsertColumnsOk
<1>12. /\ Keyword(ts, from - 2, "values") /\ Symbol(ts, from - 1, "(")
       /\ Symbol(ts, ListEnd(from, m, 1), ")") /\ StatementEnds(ts, ListEnd(from, m, 1) + 1)
  <2>1. ListEnd(from, m, 1) = 6 + 2 * n + 2 * m
    BY <1>1, <1>9
  <2>2. StatementEnds(ts, (6 + 2 * n + 2 * m) + 1)
    <3> DEFINE p == (6 + 2 * n + 2 * m) + 1
    <3>1. p \in Nat /\ p > Len(ts)
      BY <1>1, <1>2
    <3> HIDE DEF p
    <3>2. StatementEnds(ts, p)
      BY <1>2, <3>1, EndRead
    <3> QED
      BY <3>2 DEF p
  <2> QED
    BY <1>3, <1>4, <1>9, <2>1, <2>2
<1>13. (\A i \in 1 .. m : Literal(ts, Item(from, i, 1))) <=> (\A i \in 1 .. m : Literal(ts, 5 + 2 * n + 2 * i))
  <2>1. \A i \in 1 .. m : Item(from, i, 1) = 5 + 2 * n + 2 * i
    BY <1>1, <1>9
  <2> QED
    BY <2>1
<1>14. ParseInsert(ts) =
         IF /\ st.table \in DOMAIN DistributionKey
            /\ \A i \in 1 .. m : Literal(ts, 5 + 2 * n + 2 * i)
            /\ n = m
         THEN Statement(Insert, st.written, InsertPartition(ts, n), FALSE) ELSE Rejected
  <2>1. ParseInsert(ts) =
          IF /\ TableKnown(ts, 3)
             /\ \A i \in 1 .. m : Literal(ts, Item(from, i, 1))
             /\ n = m
          THEN Statement(Insert, Text(ts, 3), InsertPartition(ts, n), FALSE) ELSE Rejected
    BY <1>3, <1>9, <1>10, <1>11, <1>12 DEF ParseInsert
  <2> QED
    BY <1>7, <1>13, <2>1
<1>15. ASSUME n = m
       PROVE  IsInsert(ts, n)
  <2>1. 6 + 2 * n + 2 * m = 6 + 4 * n
    BY <1>1, <1>15
  <2>2. Symbol(ts, 6 + 4 * n, ")")
    BY <1>4, <2>1
  <2>3. \A i \in 1 .. n : IsLiteral(ts, 5 + 2 * n + 2 * i)
    BY <1>6, <1>15
  <2> QED
    BY <1>1, <1>3, <1>4, <1>5, <1>15, <2>2, <2>3 DEF IsInsert
<1> QED
  BY <1>1, <1>5, <1>6, <1>7, <1>14, <1>15 DEF InsertParse, NamesColumns

(* The value of the key column: its literal, and where the parser finds it *)
LEMMA InsertedKey ==
  ASSUME NEW st, IsStatement(st), st.verb = "insert", NEW ts, NEW key,
         NEW n \in Nat \ {0}, DOMAIN st.columns = 1 .. n, KeyColumn(ts, 3) = key,
         key = DistributionKey[st.table],
         NamesColumns(ts, st, n)
  PROVE  \/ InsertPartition(ts, n) = NoPartition /\ Table!KeyLiterals(st) = {}
         \/ \E k \in 1 .. n : /\ InsertPartition(ts, n) = LiteralValue(ts, 5 + 2 * n + 2 * k)
                              /\ Table!KeyLiterals(st) = {st.values[k]}
<1> DEFINE named == { i \in 1 .. n : Lower(Text(ts, Item(5, i, 1))) = KeyColumn(ts, 3) }
           first == CHOOSE i \in named : \A j \in named : i <= j
<1>1. /\ \A i \in 1 .. n : Item(5, i, 1) = 3 + 2 * i
      /\ \A i \in 1 .. n : Item(InsertValues(n), i, 1) = 5 + 2 * n + 2 * i
  <2>1. \A i \in 1 .. n : Item(5, i, 1) = 3 + 2 * i
    BY DEF Item
  <2>2. InsertValues(n) = 7 + 2 * n
    BY DEF InsertValues, ListEnd
  <2>3. \A i \in 1 .. n : Item(7 + 2 * n, i, 1) = 5 + 2 * n + 2 * i
    BY DEF Item
  <2> QED
    BY <2>1, <2>2, <2>3
<1>2. named = { i \in 1 .. n : st.columns[i] = key }
  BY <1>1 DEF NamesColumns
<1>3. InsertPartition(ts, n) =
        IF named = {} THEN NoPartition ELSE LiteralValue(ts, Item(InsertValues(n), first, 1))
  BY DEF InsertPartition
<1>4. Table!KeyLiterals(st) = { st.values[i] : i \in { j \in 1 .. n : st.columns[j] = key } }
  BY DEF Table!KeyLiterals
<1> HIDE DEF named, first
<1>5. CASE named = {}
  BY <1>2, <1>3, <1>4, <1>5
<1>6. CASE named # {}
  <2>1. PICK k \in 1 .. n : st.columns[k] = key
    BY <1>2, <1>6
  <2>2. \A j \in 1 .. n : st.columns[j] = key => j = k
    BY <2>1 DEF IsStatement
  <2>3. named = {k} /\ { j \in 1 .. n : st.columns[j] = key } = {k}
    BY <1>2, <2>1, <2>2
  <2>4. first = k
    BY <2>1, <2>3 DEF first
  <2>5. InsertPartition(ts, n) = LiteralValue(ts, 5 + 2 * n + 2 * k)
    BY <1>1, <1>3, <1>6, <2>1, <2>4
  <2>6. Table!KeyLiterals(st) = {st.values[k]}
    BY <1>4, <2>3
  <2> QED
    BY <2>1, <2>5, <2>6
<1> QED
  BY <1>5, <1>6

LEMMA InsertRead ==
  ASSUME KeyMax < ULongMax, NEW st, IsStatement(st), st # Garbled, st.verb = "insert",
         IsText(Render(st))
  PROVE  ReadAsMeant(st)
<1>1. PICK ts : ts = Render(st)
  OBVIOUS
<1>2. PICK n, m : n = Len(st.columns) /\ m = Len(st.values)
  OBVIOUS
<1>3. /\ n \in Nat \ {0} /\ m \in Nat \ {0} /\ DOMAIN st.columns = 1 .. n /\ DOMAIN st.values = 1 .. m
      /\ st.values \in Seq({"Number", "String"} \X STRING) /\ st.where = {}
  BY <1>2, StatementTokens DEF IsStatement
<1>4. IsText(ts) /\ InsertTokens(ts, st, n, m)
  BY <1>1, <1>2, InsertIsWritten DEF InsertText
<1>5. InsertParse(ts, st, n, m)
  BY <1>3, <1>4, InsertParsed
<1>6. PICK ok \in BOOLEAN : ok <=> /\ st.table \in DOMAIN DistributionKey
                                   /\ \A i \in 1 .. m : Literal(ts, 5 + 2 * n + 2 * i)
                                   /\ n = m
  OBVIOUS
<1>7. PICK partition, statement : partition = InsertPartition(ts, n) /\ statement = Parse(ts)
  OBVIOUS
<1>8. /\ ok => statement = Statement(KindOf[st.verb], st.written, partition, FALSE)
      /\ ~ok => statement = Rejected
  <2>1. ts \in Seq(Token) /\ At(ts, 1) = Id("insert")
    BY <1>4 DEF InsertTokens
  <2>2. statement = ParseInsert(ts)
    BY <1>7, <2>1, FirstWordRead
  <2>3. KindOf[st.verb] = Insert
    BY DEF KindOf
  <2> QED
    BY <1>5, <1>6, <1>7, <2>2, <2>3 DEF InsertParse
<1>9. ok <=> /\ st.table \in DOMAIN DistributionKey /\ n = m
             /\ \A literal \in Table!Literals(st) : Table!Numeral(literal) => NumberOf[literal[2]] <= KeyMax
  <2>1. Table!Literals(st) = { st.values[i] : i \in 1 .. m }
    BY <1>3 DEF Table!Literals
  <2> QED
    BY <1>5, <1>6, <2>1 DEF InsertParse, ReadsValue
<1>10. \/ partition = NoPartition /\ Table!KeyLiterals(st) = {}
       \/ \E k \in 1 .. n : /\ partition = LiteralValue(ts, 5 + 2 * n + 2 * k)
                            /\ Table!KeyLiterals(st) = {st.values[k]}
  <2>1. PICK key : key = DistributionKey[st.table]
    OBVIOUS
  <2>2. KeyColumn(ts, 3) = key /\ NamesColumns(ts, st, n)
    BY <1>5, <2>1 DEF InsertParse
  <2>3. \/ InsertPartition(ts, n) = NoPartition /\ Table!KeyLiterals(st) = {}
        \/ \E k \in 1 .. n : /\ InsertPartition(ts, n) = LiteralValue(ts, 5 + 2 * n + 2 * k)
                             /\ Table!KeyLiterals(st) = {st.values[k]}
    BY <1>3, <2>1, <2>2, InsertedKey
  <2> QED
    BY <1>7, <2>3
<1>11. ASSUME ok
       PROVE  /\ partition \in Nat \cup {NoPartition}
              /\ partition # NoPartition <=> \E literal \in Table!KeyLiterals(st) : Table!Numeral(literal)
              /\ partition # NoPartition =>
                   partition = NumberOf[(CHOOSE literal \in Table!KeyLiterals(st) : TRUE)[2]]
  <2>1. CASE partition = NoPartition /\ Table!KeyLiterals(st) = {}
    BY <2>1
  <2>2. ASSUME NEW k \in 1 .. n, partition = LiteralValue(ts, 5 + 2 * n + 2 * k),
               Table!KeyLiterals(st) = {st.values[k]}
        PROVE  /\ partition \in Nat \cup {NoPartition}
               /\ partition # NoPartition <=> \E literal \in Table!KeyLiterals(st) : Table!Numeral(literal)
               /\ partition # NoPartition =>
                    partition = NumberOf[(CHOOSE literal \in Table!KeyLiterals(st) : TRUE)[2]]
    <3>1. k \in 1 .. m /\ Literal(ts, 5 + 2 * n + 2 * k)
      BY <1>6, <1>11
    <3>2. PICK v : v = st.values[k]
      OBVIOUS
    <3>3. /\ partition # NoPartition <=> Table!Numeral(v)
          /\ Table!Numeral(v) => partition = NumberOf[v[2]] /\ NumberOf[v[2]] \in Nat
      BY <1>5, <2>2, <3>1, <3>2 DEF InsertParse, ReadsValue
    <3>4. Table!KeyLiterals(st) = {v}
      BY <2>2, <3>2
    <3>5. (CHOOSE literal \in Table!KeyLiterals(st) : TRUE) = v
      BY <3>4
    <3> QED
      BY <3>3, <3>4, <3>5
  <2> QED
    BY <1>10, <2>1, <2>2
<1>12. ok /\ partition # NoPartition <=> Table!Understood(st)
  <2>1. Len(st.columns) = Len(st.values) <=> n = m
    BY <1>2
  <2> QED
    BY <1>9, <1>11, <2>1 DEF Table!Understood
<1>13. IsMeant(st, statement, FALSE)
  <2>1. IsReadAs(st, ok, partition, FALSE, statement)
    BY <1>8, <1>11, <1>12 DEF IsReadAs
  <2> QED
    BY <2>1, Meaning
<1>14. ASSUME Valid(statement)
       PROVE  InsertedRow(ts) = Table!Given(st)
  <2>1. ok
    BY <1>8, <1>14 DEF Valid
  <2>2. n = m
    BY <1>6, <2>1
  <2>3. IsInsert(ts, n) /\ InsertTokens(ts, st, n, n)
    BY <1>4, <1>5, <2>2 DEF InsertParse
  <2> QED
    BY <1>3, <1>4, <2>3, InsertedIs
<1> QED
  BY <1>1, <1>7, <1>13, <1>14 DEF ReadAsMeant, IsMeant

LEMMA StatementsAreReadAsMeant == KeyMax < ULongMax => StatementsReadAsMeant
<1> SUFFICES ASSUME KeyMax < ULongMax, NEW e \in Environments, Benign(e), NEW st \in e.statements
             PROVE  ReadAsMeant(st)
  BY DEF StatementsReadAsMeant
<1>1. st # Garbled /\ IsStatement(st)
  BY StatementsAssumption
<1>2. IsText(Render(st))
  BY TextsAssumption DEF Texts
<1>3. st.verb = "select" \/ st.verb = "insert" \/ st.verb = "update" \/ st.verb = "delete"
  BY <1>1 DEF IsStatement, KindOf
<1> QED
  BY <1>1, <1>2, <1>3, SelectRead, InsertRead, UpdateRead, DeleteRead

(* Where a statement ends without a semicolon *)
LEMMA EndOfText ==
  ASSUME NEW ts, IsText(ts), NEW p \in Nat \ {0}, NEW q \in Nat, q = p + 1, StatementEnds(ts, q),
         ~Symbol(ts, q, Semicolon), At(ts, p)[1] # "End"
  PROVE  Len(ts) = p
<1>1. \A r \in 1 .. Len(ts) : At(ts, r)[1] # "End"
  <2>1. \A r \in 1 .. Len(ts) : ts[r][1] \in TokenTypes
    BY DEF IsText
  <2> QED
    BY <2>1, PastTheEnd DEF At, TokenTypes
<1>2. Len(ts) \in Nat /\ DOMAIN ts = 1 .. Len(ts)
  BY PastTheEnd
<1>3. At(ts, q)[1] = "End"
  BY DEF StatementEnds
<1>4. q \notin 1 .. Len(ts)
  BY <1>1, <1>3
<1>5. p \in 1 .. Len(ts)
  BY <1>2 DEF At
<1>6. PICK len \in Nat : len = Len(ts)
  BY <1>2
<1>7. ~(q <= len) /\ p <= len
  BY <1>4, <1>5, <1>6
<1>8. len = p
  BY <1>7
<1> QED
  BY <1>6, <1>8

LEMMA AcceptedCondition ==
  ASSUME NEW ts, IsText(ts), NEW p \in Nat \ {0}, NEW key, NEW where, where = Where(ts, p, key),
         where.ok, StatementEnds(ts, where.end), where.partition # NoPartition
  PROVE  /\ Keyword(ts, p, "where")
         /\ (\A q \in Nat : ~Symbol(ts, q, Semicolon)) => Len(ts) = p + 3
<1>1. Keyword(ts, p, "where")
  BY DEF Where
<1>2. Literal(ts, p + 3) /\ where.end = p + 4
  BY <1>1 DEF Where
<1>3. At(ts, p + 3)[1] # "End"
  BY <1>2 DEF Literal
<1>4. ASSUME \A q \in Nat : ~Symbol(ts, q, Semicolon)
      PROVE  Len(ts) = p + 3
  <2>1. PICK r \in Nat \ {0}, q \in Nat : r = p + 3 /\ q = p + 4 /\ q = r + 1
    OBVIOUS
  <2>2. StatementEnds(ts, q) /\ ~Symbol(ts, q, Semicolon) /\ At(ts, r)[1] # "End"
    BY <1>2, <1>3, <1>4, <2>1
  <2> QED
    BY <2>1, <2>2, EndOfText
<1> QED
  BY <1>1, <1>4

(* What the parser accepts as a SELECT: FROM stands at `from` *)
LEMMA SelectParsed ==
  ASSUME NEW ts, ParseSelect(ts) # Rejected
  PROVE  LET columns == ListLength(ts, 2, 1)
             from == IF Starred(ts) THEN 3 ELSE IF Aggregated(ts) THEN 6 ELSE ListEnd(2, columns, 1)
             where == Where(ts, from + 2, KeyColumn(ts, from + 1))
         IN  /\ \/ Starred(ts)
                \/ Aggregated(ts) /\ (Symbol(ts, 4, "*") \/ Identifier(ts, 4)) /\ Symbol(ts, 5, ")")
                \/ ~Aggregated(ts) /\ \A i \in 1 .. columns : Identifier(ts, Item(2, i, 1))
             /\ Keyword(ts, from, "from")
             /\ TableKnown(ts, from + 1)
             /\ where.ok
             /\ StatementEnds(ts, where.end)
             /\ ParseSelect(ts) = Statement(Select, Text(ts, from + 1), where.partition, Aggregated(ts))
BY DEF ParseSelect, Starred, Aggregated

IsInner(c) == NoSeparator(c) /\ c # "(" /\ c # ")" /\ c # "*"

LEMMA AcceptedSelect ==
  ASSUME NEW ts, Accepted(ts), Keyword(ts, 1, "select"), Parse(ts) = ParseSelect(ts), ParseSelect(ts) # Rejected
  PROVE  \E from \in Nat \ {0} :
           /\ \/ from = 3
              \/ from = 6 /\ Symbol(ts, 3, "(")
              \/ \E n \in Nat \ {0} : /\ from = 1 + 2 * n
                                      /\ n # 1 => Symbol(ts, 3, Comma)
           /\ \A p \in 1 .. from + 1 : \A c : IsInner(c) => ~Symbol(ts, p, c)
           /\ LET where == Where(ts, from + 2, KeyColumn(ts, from + 1))
              IN  where.ok /\ StatementEnds(ts, where.end) /\ where.partition # NoPartition
<1>1. PICK columns : columns = ListLength(ts, 2, 1)
  OBVIOUS
<1>2. PICK from : from = IF Starred(ts) THEN 3 ELSE IF Aggregated(ts) THEN 6 ELSE ListEnd(2, columns, 1)
  OBVIOUS
<1>3. PICK where : where = Where(ts, from + 2, KeyColumn(ts, from + 1))
  OBVIOUS
<1>4. /\ \/ Starred(ts)
         \/ Aggregated(ts) /\ (Symbol(ts, 4, "*") \/ Identifier(ts, 4)) /\ Symbol(ts, 5, ")")
         \/ ~Aggregated(ts) /\ \A i \in 1 .. columns : Identifier(ts, Item(2, i, 1))
      /\ Keyword(ts, from, "from")
      /\ TableKnown(ts, from + 1)
      /\ where.ok
      /\ StatementEnds(ts, where.end)
      /\ ParseSelect(ts) = Statement(Select, Text(ts, from + 1), where.partition, Aggregated(ts))
  BY <1>1, <1>2, <1>3, SelectParsed
<1>5. where.partition # NoPartition
  BY <1>4 DEF Accepted, Valid, Statement
<1>6. /\ columns \in Nat \ {0}
      /\ \A m \in 1 .. columns - 1 : Symbol(ts, ListEnd(2, m, 1), Comma)
  <2>1. IsText(ts) /\ 2 \in Nat \ {0} /\ 1 \in {1, 3}
    BY DEF Accepted
  <2>2. columns \in 1 .. Len(ts) + 1 /\ \A m \in 1 .. columns - 1 : Symbol(ts, ListEnd(2, m, 1), Comma)
    BY <1>1, <2>1, ListLengthIs
  <2> QED
    BY <2>1, <2>2, PastTheEnd
<1>7. \A i \in Nat : Item(2, i, 1) = 2 * i /\ ListEnd(2, i, 1) = 1 + 2 * i
  BY DEF Item, ListEnd
<1>8. /\ from \in Nat \ {0}
      /\ \/ from = 3 /\ Starred(ts)
         \/ from = 6 /\ Aggregated(ts)
         \/ from = 1 + 2 * columns /\ ~Starred(ts) /\ ~Aggregated(ts)
  <2>1. ListEnd(2, columns, 1) = 1 + 2 * columns
    BY <1>6, <1>7
  <2> QED
    BY <1>2, <1>6, <2>1
<1>9. \A c : /\ ~Symbol(ts, 1, c) /\ ~Symbol(ts, from, c) /\ ~Symbol(ts, from + 1, c)
  BY <1>4 DEF Keyword, TableKnown, Identifier, Symbol
<1>10. ASSUME NEW p \in 1 .. from + 1, NEW c, IsInner(c)
       PROVE  ~Symbol(ts, p, c)
  <2>1. CASE from = 3 /\ Starred(ts)
    <3>1. ~Symbol(ts, 2, c)
      BY <1>10, <2>1 DEF Starred, Symbol, IsInner
    <3>2. p = 1 \/ p = 2 \/ p = from \/ p = from + 1
      BY <2>1
    <3> QED
      BY <1>9, <3>1, <3>2
  <2>2. CASE from = 6 /\ Aggregated(ts)
    <3>1. ~Symbol(ts, 2, c) /\ ~Symbol(ts, 3, c)
      BY <1>10, <2>2 DEF Aggregated, Keyword, Identifier, Symbol, IsInner
    <3>2. (Symbol(ts, 4, "*") \/ Identifier(ts, 4)) /\ Symbol(ts, 5, ")")
      BY <1>4, <2>2 DEF Aggregated
    <3>3. ~Symbol(ts, 4, c) /\ ~Symbol(ts, 5, c)
      BY <1>10, <3>2 DEF Identifier, Symbol, IsInner
    <3>4. p = 1 \/ p = 2 \/ p = 3 \/ p = 4 \/ p = 5 \/ p = from \/ p = from + 1
      BY <2>2
    <3> QED
      BY <1>9, <3>1, <3>3, <3>4
  <2>3. CASE from = 1 + 2 * columns /\ ~Starred(ts) /\ ~Aggregated(ts)
    <3>1. p = 1 \/ p = from \/ p = from + 1 \/ p \in 2 .. from - 1
      BY <1>8
    <3>2. ASSUME p \in 2 .. from - 1
          PROVE  ~Symbol(ts, p, c)
      <4>1. (\E i \in 1 .. columns : p = 2 * i) \/ (\E i \in 1 .. columns - 1 : p = 1 + 2 * i)
        <5> DEFINE i == p \div 2
        <5>1. i \in 1 .. columns /\ (p = 2 * i \/ p = 1 + 2 * i)
          BY <1>6, <2>3, <3>2
        <5>2. p = 1 + 2 * i => i \in 1 .. columns - 1
          BY <1>6, <2>3, <3>2, <5>1
        <5> HIDE DEF i
        <5> QED
          BY <5>1, <5>2
      <4>2. ASSUME NEW i \in 1 .. columns, p = 2 * i
            PROVE  ~Symbol(ts, p, c)
        <5>1. Item(2, i, 1) = p
          BY <1>7, <4>2
        <5>2. Identifier(ts, p)
          BY <1>4, <2>3, <5>1
        <5> QED
          BY <5>2 DEF Identifier, Symbol
      <4>3. ASSUME NEW i \in 1 .. columns - 1, p = 1 + 2 * i
            PROVE  ~Symbol(ts, p, c)
        <5>1. ListEnd(2, i, 1) = p
          BY <1>7, <4>3
        <5>2. Symbol(ts, p, Comma)
          BY <1>6, <5>1
        <5> QED
          BY <1>10, <5>2 DEF Symbol, IsInner, NoSeparator
      <4> QED
        BY <4>1, <4>2, <4>3
    <3> QED
      BY <1>9, <3>1, <3>2
  <2> QED
    BY <1>8, <2>1, <2>2, <2>3
<1>11. \/ from = 3
       \/ from = 6 /\ Symbol(ts, 3, "(")
       \/ \E n \in Nat \ {0} : /\ from = 1 + 2 * n
                               /\ n # 1 => Symbol(ts, 3, Comma)
  <2>1. Aggregated(ts) => Symbol(ts, 3, "(")
    BY DEF Aggregated
  <2>2. columns # 1 => Symbol(ts, 3, Comma)
    <3> HAVE columns # 1
    <3>1. 1 \in 1 .. columns - 1 /\ ListEnd(2, 1, 1) = 3
      BY <1>6, <1>7
    <3> QED
      BY <1>6, <3>1
  <2> QED
    BY <1>6, <1>8, <2>1, <2>2
<1> QED
  BY <1>3, <1>4, <1>5, <1>8, <1>10, <1>11

(* No accepted text has a stray symbol *)
LEMMA MarkIsInner == IsInner("?")
BY Zenon DEF IsInner, NoSeparator, Comma, Semicolon

LEMMA EndedSelect ==
  ASSUME NEW ts, IsText(ts), NEW from \in Nat \ {0}, NEW where,
         where = Where(ts, from + 2, KeyColumn(ts, from + 1)),
         where.ok, StatementEnds(ts, where.end), NEW c, IsInner(c),
         \A p \in 1 .. from + 1 : ~Symbol(ts, p, c)
  PROVE  \A p \in Nat \ {0} : ~Symbol(ts, p, c)
<1>1. PICK p, key : p \in Nat \ {0} /\ p = from + 2 /\ key = KeyColumn(ts, from + 1)
  OBVIOUS
<1>2. Where(ts, p, key).ok /\ StatementEnds(ts, Where(ts, p, key).end)
  BY <1>1
<1>3. \A q \in Nat : q >= p => ~Symbol(ts, q, c)
  BY <1>1, <1>2, EndOfPredicate DEF IsInner
<1>4. ASSUME NEW q \in Nat \ {0}
      PROVE  ~Symbol(ts, q, c)
  <2>1. q \in 1 .. from + 1 \/ q >= p
    BY <1>1
  <2> QED
    BY <1>3, <2>1
<1> QED
  BY <1>4

LEMMA AcceptedInsertSymbols ==
  ASSUME NEW ts, Accepted(ts), Parse(ts).kind = Insert, NEW c, IsInner(c)
  PROVE  \A p \in Nat \ {0} : ~Symbol(ts, p, c)
<1>1. PICK n : IsInsert(ts, n) /\ TableKnown(ts, 3) /\ n = ListLength(ts, 5, 1)
  BY AcceptedInsert
<1>2. n \in Nat \ {0}
  BY <1>1 DEF IsInsert
<1>3. PICK end \in Nat \ {0} : end = 7 + 4 * n
  BY <1>2
<1>4. StatementEnds(ts, end)
  <2>1. ParseInsert(ts) # Rejected
    BY ParsedKind
  <2>2. StatementEnds(ts, ListEnd(InsertValues(n), n, 1) + 1)
    BY <1>1, <2>1 DEF ParseInsert
  <2>3. InsertValues(n) = 7 + 2 * n
    BY <1>2 DEF InsertValues, ListEnd
  <2>4. ListEnd(7 + 2 * n, n, 1) + 1 = end
    BY <1>2, <1>3 DEF ListEnd
  <2> QED
    BY <2>2, <2>3, <2>4
<1>5. \A q \in Nat : q >= end => ~Symbol(ts, q, c)
  BY <1>4, EndOfStatement DEF Accepted, IsInner
<1>6. \A p : /\ Identifier(ts, p) \/ IsLiteral(ts, p) => ~Symbol(ts, p, c)
             /\ Symbol(ts, p, Comma) \/ Symbol(ts, p, "(") \/ Symbol(ts, p, ")") => ~Symbol(ts, p, c)
  BY DEF Identifier, IsLiteral, Symbol, IsInner, NoSeparator
<1>7. \A p, word : Keyword(ts, p, word) => Identifier(ts, p)
  BY DEF Keyword
<1>8. ~Symbol(ts, 1, c) /\ ~Symbol(ts, 2, c) /\ ~Symbol(ts, 3, c) /\ ~Symbol(ts, 4, c)
  <2>1. Identifier(ts, 1) /\ Identifier(ts, 2) /\ Identifier(ts, 3) /\ Symbol(ts, 4, "(")
    BY <1>1, <1>7 DEF IsInsert, TableKnown
  <2> QED
    BY <1>6, <2>1
<1>9. ASSUME NEW i \in 1 .. n
      PROVE  /\ ~Symbol(ts, 3 + 2 * i, c) /\ ~Symbol(ts, 4 + 2 * i, c)
             /\ ~Symbol(ts, 5 + 2 * n + 2 * i, c) /\ ~Symbol(ts, 6 + 2 * n + 2 * i, c)
  <2>1. Identifier(ts, 3 + 2 * i) /\ IsLiteral(ts, 5 + 2 * n + 2 * i)
    BY <1>1 DEF IsInsert
  <2>2. CASE i = n
    <3>1. Symbol(ts, 4 + 2 * n, ")") /\ Symbol(ts, 6 + 4 * n, ")") /\ 6 + 2 * n + 2 * n = 6 + 4 * n
      BY <1>1, <1>2 DEF IsInsert
    <3>2. Symbol(ts, 4 + 2 * i, ")") /\ Symbol(ts, 6 + 2 * n + 2 * i, ")")
      BY <2>2, <3>1
    <3> QED
      BY <1>6, <2>1, <3>2
  <2>3. CASE i # n
    <3>1. i \in 1 .. n - 1
      BY <1>2, <2>3
    <3>2. Symbol(ts, 4 + 2 * i, Comma) /\ Symbol(ts, 6 + 2 * n + 2 * i, Comma)
      BY <1>1, <3>1 DEF IsInsert
    <3> QED
      BY <1>6, <2>1, <3>2
  <2> QED
    BY <2>2, <2>3
<1>10. ~Symbol(ts, 5 + 2 * n, c) /\ ~Symbol(ts, 6 + 2 * n, c)
  <2>1. Identifier(ts, 5 + 2 * n) /\ Symbol(ts, 6 + 2 * n, "(")
    BY <1>1, <1>7 DEF IsInsert
  <2> QED
    BY <1>6, <2>1
<1>11. ASSUME NEW p \in Nat \ {0}, p < end
       PROVE  ~Symbol(ts, p, c)
  <2>1. CASE p < 5
    <3>1. p = 1 \/ p = 2 \/ p = 3 \/ p = 4
      BY <2>1
    <3> QED
      BY <1>8, <3>1
  <2>2. CASE 5 <= p /\ p <= 4 + 2 * n
    <3>1. \E i \in 1 .. n : p = 3 + 2 * i \/ p = 4 + 2 * i
      <4> DEFINE i == (p - 3) \div 2
      <4>1. i \in 1 .. n /\ (p = 3 + 2 * i \/ p = 4 + 2 * i)
        BY <1>2, <2>2
      <4> HIDE DEF i
      <4> QED
        BY <4>1
    <3> QED
      BY <1>9, <3>1
  <2>3. CASE p = 5 + 2 * n \/ p = 6 + 2 * n
    BY <1>10, <2>3
  <2>4. CASE 7 + 2 * n <= p
    <3>1. \E i \in 1 .. n : p = 5 + 2 * n + 2 * i \/ p = 6 + 2 * n + 2 * i
      <4> DEFINE i == (p - (5 + 2 * n)) \div 2
      <4>1. i \in 1 .. n /\ (p = 5 + 2 * n + 2 * i \/ p = 6 + 2 * n + 2 * i)
        BY <1>2, <1>3, <1>11, <2>4
      <4> HIDE DEF i
      <4> QED
        BY <4>1
    <3> QED
      BY <1>9, <3>1
  <2>5. p < 5 \/ (5 <= p /\ p <= 4 + 2 * n) \/ p = 5 + 2 * n \/ p = 6 + 2 * n \/ 7 + 2 * n <= p
    BY <1>2
  <2> QED
    BY <2>1, <2>2, <2>3, <2>4, <2>5
<1> QED
  BY <1>3, <1>5, <1>11

LEMMA NoMark ==
  ASSUME NEW ts, Accepted(ts)
  PROVE  \A p \in Nat \ {0} : ~Symbol(ts, p, "?")
<1>1. PICK c : c = "?" /\ IsInner(c) /\ NoSeparator(c)
  BY MarkIsInner DEF IsInner
<1>2. Parse(ts).kind \in {Select, Insert, Update, Delete}
  BY ParsedIsKnown DEF Request
<1>3. CASE Parse(ts).kind = Select
  <2>1. Keyword(ts, 1, "select") /\ Parse(ts) = ParseSelect(ts) /\ ParseSelect(ts) # Rejected
    <3>1. /\ ParseInsert(ts) # Rejected => ParseInsert(ts).kind = Insert
          /\ ParseUpdate(ts) # Rejected => ParseUpdate(ts).kind = Update
          /\ ParseDelete(ts) # Rejected => ParseDelete(ts).kind = Delete
      BY InsertShape, UpdateShape, DeleteShape DEF Statement
    <3> QED
      BY <1>3, <3>1, ParsedBy DEF Select, Insert, Update, Delete
  <2>2. PICK from \in Nat \ {0} :
           /\ \A p \in 1 .. from + 1 : \A d : IsInner(d) => ~Symbol(ts, p, d)
           /\ LET where == Where(ts, from + 2, KeyColumn(ts, from + 1))
              IN  where.ok /\ StatementEnds(ts, where.end)
    BY <2>1, AcceptedSelect
  <2>3. PICK where : where = Where(ts, from + 2, KeyColumn(ts, from + 1))
    OBVIOUS
  <2>4. \A p \in Nat \ {0} : ~Symbol(ts, p, c)
    BY <1>1, <2>2, <2>3, EndedSelect DEF Accepted
  <2> QED
    BY <1>1, <2>4
<1>4. CASE Parse(ts).kind = Insert
  BY <1>1, <1>4, AcceptedInsertSymbols
<1>5. CASE Parse(ts).kind = Update
  BY <1>1, <1>5, AcceptedUpdate
<1>6. CASE Parse(ts).kind = Delete
  BY <1>1, <1>6, AcceptedDelete
<1> QED
  BY <1>2, <1>3, <1>4, <1>5, <1>6

(* How long an accepted text without a semicolon is *)
LEMMA AcceptedLength ==
  ASSUME NEW ts, Accepted(ts), \A q \in Nat : ~Symbol(ts, q, Semicolon)
  PROVE  \/ /\ Keyword(ts, 1, "select")
            /\ \/ Len(ts) = 8
               \/ Len(ts) = 11 /\ Symbol(ts, 3, "(")
               \/ \E n \in Nat \ {0} : Len(ts) = 6 + 2 * n /\ (n # 1 => Symbol(ts, 3, Comma))
         \/ Keyword(ts, 1, "insert") /\ \E n \in Nat \ {0} : Len(ts) = 6 + 4 * n
         \/ Keyword(ts, 1, "update") /\ \E n \in Nat \ {0} : Len(ts) = 6 + 4 * n
         \/ Keyword(ts, 1, "delete") /\ Len(ts) = 7
<1>1. IsText(ts) /\ Parse(ts) # Rejected /\ Parse(ts).partition # NoPartition
  BY DEF Accepted, Valid
<1>2. CASE Keyword(ts, 1, "select") /\ Parse(ts) = ParseSelect(ts) /\ ParseSelect(ts) # Rejected
  <2>1. PICK from \in Nat \ {0} :
          /\ \/ from = 3
             \/ from = 6 /\ Symbol(ts, 3, "(")
             \/ \E n \in Nat \ {0} : /\ from = 1 + 2 * n
                                     /\ n # 1 => Symbol(ts, 3, Comma)
          /\ LET where == Where(ts, from + 2, KeyColumn(ts, from + 1))
             IN  where.ok /\ StatementEnds(ts, where.end) /\ where.partition # NoPartition
    BY <1>2, AcceptedSelect
  <2>2. PICK p, key, where : /\ p \in Nat \ {0} /\ p = from + 2 /\ key = KeyColumn(ts, from + 1)
                             /\ where = Where(ts, p, key)
    OBVIOUS
  <2>3. where.ok /\ StatementEnds(ts, where.end) /\ where.partition # NoPartition
    BY <2>1, <2>2
  <2>4. Len(ts) = p + 3
    BY <1>1, <2>2, <2>3, AcceptedCondition
  <2>5. Len(ts) = from + 5
    BY <2>2, <2>4
  <2> QED
    BY <1>2, <2>1, <2>5
<1>3. CASE Keyword(ts, 1, "insert") /\ Parse(ts) = ParseInsert(ts) /\ ParseInsert(ts) # Rejected
  <2>1. Parse(ts).kind = Insert
    BY <1>3, InsertShape DEF Statement
  <2>2. PICK n : IsInsert(ts, n) /\ n = ListLength(ts, 5, 1)
    BY <2>1, AcceptedInsert
  <2>3. n \in Nat \ {0} /\ Symbol(ts, 6 + 4 * n, ")")
    BY <2>2 DEF IsInsert
  <2>4. StatementEnds(ts, ListEnd(InsertValues(n), n, 1) + 1)
    BY <1>3, <2>2 DEF ParseInsert
  <2>5. PICK p, q : p \in Nat \ {0} /\ q \in Nat /\ p = 6 + 4 * n /\ q = p + 1
    BY <2>3
  <2>6. ListEnd(InsertValues(n), n, 1) + 1 = q
    <3>1. InsertValues(n) = 7 + 2 * n
      BY <2>3 DEF InsertValues, ListEnd
    <3>2. ListEnd(7 + 2 * n, n, 1) + 1 = q
      BY <2>3, <2>5 DEF ListEnd
    <3> QED
      BY <3>1, <3>2
  <2>7. At(ts, p)[1] # "End"
    BY <2>3, <2>5 DEF Symbol
  <2>8. Len(ts) = p
    BY <1>1, <2>4, <2>5, <2>6, <2>7, EndOfText
  <2> QED
    BY <1>3, <2>3, <2>5, <2>8
<1>4. CASE Keyword(ts, 1, "update") /\ Parse(ts) = ParseUpdate(ts) /\ ParseUpdate(ts) # Rejected
  <2>1. PICK n, p, key, where : /\ n = ListLength(ts, 4, 3) /\ p = ListEnd(4, n, 3)
                                /\ key = KeyColumn(ts, 2) /\ where = Where(ts, p, key)
    OBVIOUS
  <2>2. /\ where.ok /\ StatementEnds(ts, where.end)
        /\ ParseUpdate(ts) = Statement(Update, Text(ts, 2), where.partition, FALSE)
    BY <1>4, <2>1, UpdateShape
  <2>3. where.partition # NoPartition
    BY <1>1, <1>4, <2>2 DEF Statement
  <2>4. n \in Nat \ {0}
    <3>1. 4 \in Nat \ {0} /\ 3 \in {1, 3}
      OBVIOUS
    <3>2. n \in 1 .. Len(ts) + 1
      BY <1>1, <2>1, <3>1, ListLengthIs
    <3> QED
      BY <1>1, <3>2, PastTheEnd
  <2>5. p = 3 + 4 * n /\ p \in Nat \ {0}
    BY <2>1, <2>4 DEF ListEnd
  <2>6. Len(ts) = p + 3
    BY <1>1, <2>1, <2>2, <2>3, <2>5, AcceptedCondition
  <2>7. Len(ts) = 6 + 4 * n
    BY <2>4, <2>5, <2>6
  <2> QED
    BY <1>4, <2>4, <2>7
<1>5. CASE Keyword(ts, 1, "delete") /\ Parse(ts) = ParseDelete(ts) /\ ParseDelete(ts) # Rejected
  <2>1. PICK key, where : key = KeyColumn(ts, 3) /\ where = Where(ts, 4, key)
    OBVIOUS
  <2>2. /\ where.ok /\ StatementEnds(ts, where.end)
        /\ ParseDelete(ts) = Statement(Delete, Text(ts, 3), where.partition, FALSE)
    BY <1>5, <2>1, DeleteShape
  <2>3. where.partition # NoPartition
    BY <1>1, <1>5, <2>2 DEF Statement
  <2>4. 4 \in Nat \ {0} /\ 4 + 3 = 7
    OBVIOUS
  <2>5. Len(ts) = 4 + 3
    BY <1>1, <2>1, <2>2, <2>3, <2>4, AcceptedCondition
  <2> QED
    BY <1>5, <2>4, <2>5
<1> QED
  BY <1>2, <1>3, <1>4, <1>5, ParsedBy

LEMMA SemicolonIsNoToken ==
  ASSUME NEW ts \in Seq(Token)
  PROVE  \A q : ~Symbol(ts, q, Semicolon)
<1>1. Semicolon # "(" /\ Semicolon # ")" /\ Semicolon # "=" /\ Semicolon # "*" /\ Semicolon # Comma
  BY Zenon DEF Semicolon, Comma
<1>2. \A t \in Token : t # <<"Symbol", Semicolon>>
  BY <1>1 DEF Token, Sym
<1>3. \A q \in DOMAIN ts : ts[q] \in Token
  OBVIOUS
<1> QED
  BY <1>2, <1>3 DEF Symbol, At

(* A text without one of its tokens *)
LEMMA BehindIt ==
  ASSUME NEW i \in Nat, NEW n \in Nat, i <= n
  PROVE  /\ (IF i + 1 <= n THEN n - (i + 1) + 1 ELSE 0) = n - i
         /\ n - (i + 1) + 1 = n - i
         /\ \A p \in 1 .. n - i : (i + 1) + p - 1 = i + p
OBVIOUS

IsShorter(ts, u, i) ==
  /\ ts \in Seq(Token) /\ Len(ts) = Len(u) - 1 /\ Len(u) \in Nat
  /\ \A p \in 1 .. i - 1 : At(ts, p) = At(u, p)
  /\ \A p \in Nat : p >= i => At(ts, p) = At(u, p + 1)

LEMMA Shortened ==
  ASSUME NEW u \in Seq(Token), NEW i \in 1 .. Len(u)
  PROVE  IsShorter(Without(u, i), u, i)
<1>1. PICK ts : ts = Without(u, i)
  OBVIOUS
<1>2. PICK s, t : s = SubSeq(u, 1, i - 1) /\ t = SubSeq(u, i + 1, Len(u))
  OBVIOUS
<1>3. Len(u) \in Nat /\ i \in Nat /\ DOMAIN u = 1 .. Len(u)
  OBVIOUS
<1>4. /\ s \in Seq(Token) /\ Len(s) = i - 1 /\ DOMAIN s = 1 .. i - 1
      /\ \A p \in 1 .. i - 1 : s[p] = u[p]
  BY <1>2, <1>3
<1>5. /\ t \in Seq(Token) /\ Len(t) = Len(u) - i /\ DOMAIN t = 1 .. Len(u) - i
      /\ \A p \in 1 .. Len(u) - i : t[p] = u[i + p]
  <2>1. PICK n \in Nat : n = Len(u)
    BY <1>3
  <2>2. i <= n /\ DOMAIN u = 1 .. n
    BY <1>3, <2>1
  <2>3. \A p \in i + 1 .. n : u[p] \in Token
    <3> SUFFICES ASSUME NEW p \in i + 1 .. n
                 PROVE  u[p] \in Token
      OBVIOUS
    <3>1. p \in DOMAIN u
      BY <1>3, <2>2
    <3> QED
      BY <3>1
  <2>4. /\ SubSeq(u, i + 1, n) \in Seq(Token)
        /\ Len(SubSeq(u, i + 1, n)) = IF i + 1 <= n THEN n - (i + 1) + 1 ELSE 0
        /\ \A p \in 1 .. n - (i + 1) + 1 : SubSeq(u, i + 1, n)[p] = u[(i + 1) + p - 1]
    BY <1>3, <2>1, <2>3, SubSeqProperties
  <2>5. t = SubSeq(u, i + 1, n)
    BY <1>2, <2>1
  <2>6. t \in Seq(Token) /\ Len(t) = n - i /\ \A p \in 1 .. n - i : t[p] = u[i + p]
    BY <1>3, <2>2, <2>4, <2>5, BehindIt
  <2>7. DOMAIN t = 1 .. Len(t)
    BY <2>6
  <2> QED
    BY <2>1, <2>6, <2>7
<1>6. ts = s \o t
  BY <1>2, <1>1 DEF Without
<1>7. /\ s \o t \in Seq(Token) /\ Len(s \o t) = Len(s) + Len(t)
      /\ \A p \in 1 .. Len(s) : At(s \o t, p) = At(s, p)
      /\ \A p \in Nat \ {0} : At(s \o t, Len(s) + p) = At(t, p)
  BY <1>4, <1>5, AtConcat
<1>8. /\ ts \in Seq(Token) /\ Len(ts) = Len(s) + Len(t)
      /\ \A p \in 1 .. Len(s) : At(ts, p) = At(s, p)
      /\ \A p \in Nat \ {0} : At(ts, Len(s) + p) = At(t, p)
  BY <1>6, <1>7, Zenon
<1>9. ASSUME NEW p \in 1 .. i - 1
      PROVE  At(ts, p) = At(u, p)
  <2>1. p \in 1 .. Len(s) /\ p \in DOMAIN u /\ p \in DOMAIN s
    BY <1>3, <1>4
  <2>2. At(ts, p) = At(s, p)
    BY <1>8, <2>1
  <2>3. At(s, p) = At(u, p)
    BY <1>4, <2>1 DEF At
  <2> QED
    BY <2>2, <2>3
<1>10. ASSUME NEW p \in Nat, p >= i
      PROVE  At(ts, p) = At(u, p + 1)
  <2>1. PICK q \in Nat \ {0} : q = p - (i - 1)
    BY <1>3, <1>10
  <2>2. Len(s) + q = p /\ i + q = p + 1
    BY <1>3, <1>4, <2>1
  <2>3. At(ts, p) = At(t, q)
    BY <1>8, <2>2
  <2>4. At(t, q) = At(u, i + q)
    BY <1>3, <1>5 DEF At
  <2> QED
    BY <2>2, <2>3, <2>4
<1>11. Len(ts) = Len(u) - 1
  BY <1>3, <1>4, <1>5, <1>8
<1> QED
  <2>1. IsShorter(ts, u, i)
    BY <1>3, <1>8, <1>9, <1>10, <1>11, Zenon DEF IsShorter
  <2> QED
    BY <1>1, <2>1

(* Without its first token a text does not begin with a verb *)
LEMMA FirstRemoved ==
  ASSUME NEW st, IsStatement(st), NEW u, u = Render(st)
  PROVE  /\ u \in Seq(Token) /\ Len(u) \in Nat /\ Len(u) >= 3
         /\ \A word \in {"select", "insert", "update", "delete"} : ~Keyword(u, 2, word)
<1>1. \A word \in {"select", "insert", "update", "delete"} : word # "into" /\ word # "from" /\ word # "count"
  OBVIOUS
<1>2. \A word \in Word : At(u, 2) = Id(word) => \A other : Keyword(u, 2, other) <=> other = word
  BY WordRead
<1>3. \A text : At(u, 2) = Id(text) /\ IsName(Lower(text)) =>
        \A word \in {"select", "insert", "update", "delete"} : ~Keyword(u, 2, word)
  BY NameRead DEF IsName, Keyword
<1>4. CASE st.verb = "insert"
  <2>1. InsertTokens(u, st, Len(st.columns), Len(st.values))
    BY <1>4, InsertIsWritten DEF InsertText
  <2>2. /\ u \in Seq(Token) /\ Len(u) = 6 + 2 * Len(st.columns) + 2 * Len(st.values)
        /\ At(u, 2) = Id("into")
    BY <2>1 DEF InsertTokens
  <2>3. PICK n \in Nat, m \in Nat : n = Len(st.columns) /\ m = Len(st.values)
    BY StatementTokens
  <2>4. Len(u) \in Nat /\ Len(u) >= 3
    <3>1. Len(u) = 6 + 2 * n + 2 * m
      BY <2>2, <2>3
    <3> QED
      BY <3>1
  <2>5. "into" \in Word
    BY DEF Word
  <2> QED
    BY <1>1, <1>2, <2>2, <2>4, <2>5
<1>5. CASE st.verb = "delete"
  <2>1. DeleteText(u, st)
    BY <1>5, DeleteIsWritten
  <2>2. u \in Seq(Token) /\ At(u, 2) = Id("from") /\ At(u, 3) = Id(st.written)
    BY <2>1 DEF DeleteText
  <2>3. Len(u) \in Nat /\ Len(u) >= 3
    <3>1. 3 \in DOMAIN u
      BY <2>2 DEF At, Id
    <3> QED
      BY <2>2, <3>1
  <2>4. "from" \in Word
    BY DEF Word
  <2> QED
    BY <1>1, <1>2, <2>2, <2>3, <2>4
<1>6. CASE st.verb = "update"
  <2>1. UpdateText(u, st)
    BY <1>6, UpdateIsWritten
  <2>2. u \in Seq(Token) /\ At(u, 2) = Id(st.written) /\ At(u, 3) = Id("set")
    BY <2>1 DEF UpdateText
  <2>3. Len(u) \in Nat /\ Len(u) >= 3
    <3>1. 3 \in DOMAIN u
      BY <2>2 DEF At, Id
    <3> QED
      BY <2>2, <3>1
  <2>4. IsName(Lower(st.written))
    BY DEF IsStatement
  <2> QED
    BY <1>3, <2>2, <2>3, <2>4
<1>7. CASE st.verb = "select"
  <2>1. PICK p : SelectText(u, st, p)
    BY <1>7, SelectIsWritten
  <2>2. u \in Seq(Token) /\ SelectedText(u, st, p) /\ p \in Nat /\ p >= 3 /\ At(u, p) = Id("from")
    BY <2>1 DEF SelectText
  <2>3. Len(u) \in Nat /\ Len(u) >= 3
    <3>1. p \in DOMAIN u
      BY <2>2 DEF At, Id
    <3> QED
      BY <2>2, <3>1
  <2>4. CASE st.count
    <3>1. At(u, 2) = Id("count") /\ "count" \in Word
      BY <2>2, <2>4 DEF SelectedText, Word
    <3> QED
      BY <1>1, <1>2, <2>2, <2>3, <3>1
  <2>5. CASE ~st.count /\ st.columns = <<>>
    <3>1. At(u, 2) = Sym("*")
      BY <2>2, <2>5 DEF SelectedText
    <3> QED
      BY <2>2, <2>3, <3>1, SymbolRead
  <2>6. CASE ~st.count /\ st.columns # <<>>
    <3>1. 1 \in 1 .. Len(st.columns) /\ DOMAIN st.columns = 1 .. Len(st.columns)
      BY <2>6, StatementTokens
    <3>2. At(u, 2 * 1) = Id(st.columns[1])
      BY <2>2, <2>6, <3>1 DEF SelectedText
    <3>3. IsName(st.columns[1]) /\ Lower(st.columns[1]) = st.columns[1]
      BY <3>1 DEF IsStatement, IsName, Lower
    <3>4. At(u, 2) = Id(st.columns[1]) /\ IsName(Lower(st.columns[1]))
      BY <3>2, <3>3
    <3> QED
      BY <1>3, <2>2, <2>3, <3>4
  <2> QED
    BY <2>4, <2>5, <2>6
<1> QED
  BY <1>4, <1>5, <1>6, <1>7 DEF IsStatement, KindOf

(* How long the text of a statement is *)
LEMMA RenderedLength ==
  ASSUME NEW st, IsStatement(st), NEW u, u = Render(st)
  PROVE  \/ st.verb = "select" /\ st.count /\ Len(u) \in {7, 11}
            /\ At(u, 2) = Id("count") /\ At(u, 3) = Sym("(") /\ At(u, 4) = Sym("*")
         \/ st.verb = "select" /\ Len(u) \in {4, 8}
         \/ st.verb = "select" /\ \E n \in Nat \ {0} :
              /\ Len(u) = 2 * n + 2 \/ Len(u) = 2 * n + 6
              /\ ~Symbol(u, 3, "(") /\ ~Symbol(u, 4, "(")
         \/ st.verb = "insert" /\ \E k \in Nat : Len(u) = 2 * k
         \/ st.verb = "update" /\ \E n \in Nat : Len(u) = 4 * n + 2
         \/ st.verb = "delete" /\ Len(u) \in {3, 7}
<1>1. ASSUME NEW p \in Nat, EndsWithCondition(u, p, st)
      PROVE  Len(u) = p - 1 \/ Len(u) = p + 3
  BY <1>1 DEF EndsWithCondition
<1>2. CASE st.verb = "insert"
  <2>1. InsertTokens(u, st, Len(st.columns), Len(st.values))
    BY <1>2, InsertIsWritten DEF InsertText
  <2>2. PICK n \in Nat, m \in Nat : n = Len(st.columns) /\ m = Len(st.values)
    BY StatementTokens
  <2>3. Len(u) = 6 + 2 * n + 2 * m
    BY <2>1, <2>2 DEF InsertTokens
  <2>4. 3 + n + m \in Nat /\ Len(u) = 2 * (3 + n + m)
    BY <2>3
  <2> QED
    BY <1>2, <2>4
<1>3. CASE st.verb = "delete"
  <2>1. EndsWithCondition(u, 4, st)
    BY <1>3, DeleteIsWritten DEF DeleteText
  <2>2. Len(u) = 4 - 1 \/ Len(u) = 4 + 3
    BY <1>1, <2>1
  <2> QED
    BY <1>3, <2>2
<1>4. CASE st.verb = "update"
  <2>1. EndsWithCondition(u, 4 * Len(st.columns) + 3, st)
    BY <1>4, UpdateIsWritten DEF UpdateText
  <2>2. PICK n \in Nat : n = Len(st.columns)
    BY StatementTokens
  <2>3. PICK p \in Nat : p = 4 * n + 3
    OBVIOUS
  <2>4. EndsWithCondition(u, p, st)
    BY <2>1, <2>2, <2>3
  <2>5. Len(u) = p - 1 \/ Len(u) = p + 3
    BY <1>1, <2>4
  <2>6. Len(u) = 4 * n + 2 \/ Len(u) = 4 * (n + 1) + 2
    BY <2>3, <2>5
  <2>7. n + 1 \in Nat
    OBVIOUS
  <2> QED
    BY <1>4, <2>6, <2>7
<1>5. CASE st.verb = "select"
  <2>1. PICK from : SelectText(u, st, from)
    BY <1>5, SelectIsWritten
  <2>2. PICK p : p \in Nat /\ p = from + 2
    BY <2>1 DEF SelectText
  <2>3. /\ SelectedText(u, st, from) /\ EndsWithCondition(u, p, st) /\ from \in Nat
        /\ At(u, from) = Id("from") /\ At(u, from + 1) = Id(st.written)
    BY <2>1, <2>2 DEF SelectText
  <2>4. Len(u) = p - 1 \/ Len(u) = p + 3
    BY <1>1, <2>2, <2>3
  <2>5. Len(u) = from + 1 \/ Len(u) = from + 5
    BY <2>2, <2>3, <2>4
  <2>6. CASE st.count
    <3>1. from = 6 /\ At(u, 2) = Id("count") /\ At(u, 3) = Sym("(") /\ At(u, 4) = Sym("*")
      BY <2>3, <2>6 DEF SelectedText
    <3> QED
      BY <1>5, <2>5, <2>6, <3>1
  <2>7. CASE ~st.count /\ st.columns = <<>>
    <3>1. from = 3
      BY <2>3, <2>7 DEF SelectedText
    <3> QED
      BY <1>5, <2>5, <3>1
  <2>8. CASE ~st.count /\ st.columns # <<>>
    <3>1. PICK n \in Nat \ {0} : n = Len(st.columns)
      BY <2>8, StatementTokens
    <3>2. /\ from = 1 + 2 * n
          /\ \A i \in 1 .. n : At(u, 2 * i) = Id(st.columns[i])
          /\ \A i \in 1 .. n - 1 : At(u, 1 + 2 * i) = Sym(Comma)
      BY <2>3, <2>8, <3>1 DEF SelectedText
    <3>3. \A c : ~Symbol(u, from, c) /\ ~Symbol(u, from + 1, c)
      BY <2>3, NameRead
    <3>4. ~Symbol(u, 3, "(") /\ ~Symbol(u, 4, "(")
      <4>1. CASE n = 1
        <5>1. from = 3 /\ from + 1 = 4
          BY <3>2, <4>1
        <5> QED
          BY <3>3, <5>1
      <4>2. CASE n # 1
        <5>1. 1 \in 1 .. n - 1 /\ 2 \in 1 .. n /\ 1 + 2 * 1 = 3 /\ 2 * 2 = 4
          BY <4>2
        <5>2. At(u, 3) = Sym(Comma) /\ At(u, 4) = Id(st.columns[2])
          BY <3>2, <5>1
        <5>3. Symbol(u, 3, Comma) /\ ~Symbol(u, 4, "(")
          BY <5>2, SymbolRead, NameRead
        <5> QED
          BY <5>3, CommaIsNoOther DEF Symbol
      <4> QED
        BY <4>1, <4>2
    <3>5. Len(u) = 2 * n + 2 \/ Len(u) = 2 * n + 6
      BY <2>5, <3>2
    <3> QED
      BY <1>5, <3>4, <3>5
  <2> QED
    BY <2>6, <2>7, <2>8
<1> QED
  BY <1>2, <1>3, <1>4, <1>5 DEF IsStatement, KindOf

(* No text with a typo is accepted *)
LEMMA VerbRead ==
  ASSUME NEW st, IsStatement(st), NEW u, u = Render(st), NEW ts, At(ts, 1) = At(u, 1)
  PROVE  \A word : Keyword(ts, 1, word) => word = st.verb
<1>1. At(u, 1) = Id(st.verb) /\ st.verb \in Word
  BY InsertIsWritten, UpdateIsWritten, DeleteIsWritten, SelectIsWritten
     DEF IsStatement, KindOf, InsertText, InsertTokens, UpdateText, DeleteText, SelectText, Word
<1>2. At(ts, 1) = Id(st.verb)
  BY <1>1
<1> QED
  BY <1>1, <1>2, WordRead

LEMMA NoSuchLength ==
  /\ \A a, b \in Nat : 2 * a - 1 # 6 + 4 * b /\ 4 * a + 2 - 1 # 6 + 4 * b
  /\ \A a, b \in Nat : 2 * a + 2 - 1 # 6 + 2 * b /\ 2 * a + 6 - 1 # 6 + 2 * b
  /\ \A a, b \in Nat : 2 * a + 2 - 1 # 8 /\ 2 * a + 6 - 1 # 8
  /\ \A b \in Nat \ {0} : 3 # 6 + 2 * b /\ 7 # 6 + 2 * b /\ 6 # 6 + 2 * b
  /\ \A b \in Nat \ {0} : 10 = 6 + 2 * b => b # 1
OBVIOUS

LEMMA RemovedRefused ==
  ASSUME NEW st, IsStatement(st), NEW u, u = Render(st), NEW i \in 1 .. Len(u),
         NEW ts, ts = Without(u, i), IsText(ts)
  PROVE  ~Valid(Parse(ts))
<1> SUFFICES ASSUME Accepted(ts)
             PROVE  FALSE
  BY DEF Accepted
<1>1. u \in Seq(Token) /\ Len(u) \in Nat /\ Len(u) >= 3
  BY FirstRemoved
<1>2. PICK k \in Nat : k = i
  OBVIOUS
<1>3. PICK len \in Nat : len = Len(u)
  BY <1>1
<1>4. /\ ts \in Seq(Token) /\ Len(ts) = len - 1
      /\ \A p \in 1 .. k - 1 : At(ts, p) = At(u, p)
      /\ \A p \in Nat : p >= k => At(ts, p) = At(u, p + 1)
      /\ k \in 1 .. len
  <2>1. IsShorter(ts, u, i)
    BY <1>1, Shortened
  <2> QED
    BY <1>2, <1>3, <2>1 DEF IsShorter
<1>5. \A q \in Nat : ~Symbol(ts, q, Semicolon)
  BY <1>4, SemicolonIsNoToken
<1>6. k # 1
  <2> SUFFICES ASSUME k = 1
               PROVE  FALSE
    OBVIOUS
  <2>1. 1 \in Nat /\ 1 >= k /\ 1 + 1 = 2
    OBVIOUS
  <2>2. At(ts, 1) = At(u, 2)
    BY <1>4, <2>1
  <2>3. \A word \in {"select", "insert", "update", "delete"} : ~Keyword(u, 2, word)
    BY FirstRemoved
  <2>4. \A word \in {"select", "insert", "update", "delete"} : ~Keyword(ts, 1, word)
    BY <2>2, <2>3 DEF Keyword, Identifier, Text
  <2> QED
    BY <2>4, ParsedBy
<1>7. /\ At(ts, 1) = At(u, 1)
      /\ At(ts, 3) = At(u, 3) \/ At(ts, 3) = At(u, 4)
  <2>1. 1 \in 1 .. k - 1 /\ (3 \in 1 .. k - 1 \/ 3 >= k) /\ 3 \in Nat /\ 3 + 1 = 4
    BY <1>4, <1>6
  <2> QED
    BY <1>4, <2>1
<1>8. \A word : Keyword(ts, 1, word) => word = st.verb
  BY <1>7, VerbRead
<1>9. PICK short \in Int : short = Len(ts) /\ short = len - 1
  BY <1>4
<1>10. CASE st.verb = "insert" \/ st.verb = "update"
  <2>1. PICK n \in Nat : short = 6 + 4 * n
    BY <1>5, <1>8, <1>9, <1>10, AcceptedLength
  <2>2. PICK a \in Nat : len = 2 * a \/ len = 4 * a + 2
    BY <1>3, <1>10, RenderedLength
  <2>3. short = 2 * a - 1 \/ short = 4 * a + 2 - 1
    BY <1>9, <2>2
  <2> QED
    BY <2>1, <2>3, NoSuchLength
<1>11. CASE st.verb = "delete"
  <2>1. short = 7
    BY <1>5, <1>8, <1>9, <1>11, AcceptedLength
  <2>2. len = 3 \/ len = 7
    BY <1>3, <1>11, RenderedLength
  <2> QED
    BY <1>9, <2>1, <2>2
<1>12. CASE st.verb = "select"
  <2>1. \/ short = 8
        \/ short = 11 /\ Symbol(ts, 3, "(")
        \/ \E n \in Nat \ {0} : short = 6 + 2 * n /\ (n # 1 => Symbol(ts, 3, Comma))
    BY <1>5, <1>8, <1>9, <1>12, AcceptedLength
  <2>2. CASE /\ len = 7 \/ len = 11
             /\ At(u, 3) = Sym("(") /\ At(u, 4) = Sym("*")
    <3>1. ~Symbol(ts, 3, Comma)
      <4>1. At(ts, 3) = Sym("(") \/ At(ts, 3) = Sym("*")
        BY <1>7, <2>2
      <4>2. Comma # "(" /\ Comma # "*"
        BY Zenon DEF Comma
      <4> QED
        BY <4>1, <4>2, SymbolRead
    <3>2. short = 6 \/ short = 10
      BY <1>9, <2>2
    <3>3. PICK n \in Nat \ {0} : short = 6 + 2 * n /\ (n # 1 => Symbol(ts, 3, Comma))
      BY <2>1, <3>2
    <3> QED
      BY <3>1, <3>2, <3>3, NoSuchLength
  <2>3. CASE len = 4 \/ len = 8
    <3>1. short = 3 \/ short = 7
      BY <1>9, <2>3
    <3> QED
      BY <2>1, <3>1, NoSuchLength
  <2>4. CASE \E n \in Nat \ {0} : /\ len = 2 * n + 2 \/ len = 2 * n + 6
                                  /\ ~Symbol(u, 3, "(") /\ ~Symbol(u, 4, "(")
    <3>1. PICK n \in Nat : /\ len = 2 * n + 2 \/ len = 2 * n + 6
                           /\ ~Symbol(u, 3, "(") /\ ~Symbol(u, 4, "(")
      BY <2>4
    <3>2. short = 2 * n + 2 - 1 \/ short = 2 * n + 6 - 1
      BY <1>9, <3>1
    <3>3. ~Symbol(ts, 3, "(")
      BY <1>7, <3>1 DEF Symbol
    <3> QED
      BY <2>1, <3>2, <3>3, NoSuchLength
  <2> QED
    BY <1>3, <1>12, <2>2, <2>3, <2>4, RenderedLength
<1>13. st.verb = "select" \/ st.verb = "insert" \/ st.verb = "update" \/ st.verb = "delete"
  BY DEF IsStatement, KindOf
<1> QED
  BY <1>10, <1>11, <1>12, <1>13

LEMMA MarkedRefused ==
  ASSUME NEW u \in Seq(Token), NEW i \in 1 .. Len(u), NEW ts, ts = [u EXCEPT ![i] = Sym("?")], IsText(ts)
  PROVE  ~Valid(Parse(ts))
<1>1. i \in DOMAIN u /\ i \in Nat \ {0}
  OBVIOUS
<1>2. i \in DOMAIN ts /\ ts[i] = Sym("?")
  BY <1>1
<1>3. Symbol(ts, i, "?")
  BY <1>2 DEF Symbol, At, Sym
<1> QED
  BY <1>1, <1>3, NoMark DEF Accepted

LEMMA UnterminatedRefused ==
  ASSUME NEW u \in Seq(Token), NEW i \in 1 .. Len(u), NEW text,
         NEW ts, ts = Append(SubSeq(u, 1, i - 1), <<"Unterminated", text>>), IsText(ts)
  PROVE  ~Valid(Parse(ts))
<1>1. PICK s : s = SubSeq(u, 1, i - 1)
  OBVIOUS
<1>2. DOMAIN s = 1 .. Len(s) /\ Len(s) \in Nat /\ s \in Seq(Token)
  BY <1>1
<1>3. PICK last : last = <<"Unterminated", text>> /\ last[1] = "Unterminated"
  OBVIOUS
<1>4. ts = Append(s, last)
  BY <1>1, <1>3
<1>5. Len(s) + 1 \in DOMAIN ts /\ ts[Len(s) + 1] = last
  BY <1>2, <1>4
<1>6. Unterminated(ts)
  BY <1>3, <1>5 DEF Unterminated
<1> QED
  BY <1>6, ParsedBy DEF Accepted

LEMMA TyposAreAllRefused == TyposAreRefused
<1> SUFFICES ASSUME NEW e \in Environments, Benign(e), "typos" \in e.faults, NEW st \in e.statements,
                    NEW ts \in Typos(Render(st))
             PROVE  ~Valid(Parse(ts))
  BY DEF TyposAreRefused
<1>1. st # Garbled /\ IsStatement(st)
  BY StatementsAssumption
<1>2. IsText(ts)
  BY TextsAssumption DEF Texts
<1>3. PICK u : u = Render(st)
  OBVIOUS
<1>4. u \in Seq(Token)
  BY <1>1, <1>3, FirstRemoved
<1>5. DOMAIN u = 1 .. Len(u)
  BY <1>4
<1>6. PICK i \in 1 .. Len(u) : \/ ts = Without(u, i)
                               \/ ts = [u EXCEPT ![i] = Sym("?")]
                               \/ ts = Append(SubSeq(u, 1, i - 1), <<"Unterminated", u[i][2]>>)
  BY <1>3, <1>5 DEF Typos
<1>7. CASE ts = Without(u, i)
  BY <1>1, <1>2, <1>3, <1>7, RemovedRefused
<1>8. CASE ts = [u EXCEPT ![i] = Sym("?")]
  BY <1>2, <1>4, <1>8, MarkedRefused
<1>9. CASE ts = Append(SubSeq(u, 1, i - 1), <<"Unterminated", u[i][2]>>)
  BY <1>2, <1>4, <1>9, UnterminatedRefused
<1> QED
  BY <1>6, <1>7, <1>8, <1>9

(* With a log that can be written, parser, executor, mutex, log and replay  *)
(* are a durable table (see ImplementsTable), whatever clients, tables and  *)
(* statements there are and however calls interleave and the node crashes,  *)
(* where a key fits an unsigned long with room to spare (on a 32 bit one    *)
(* strtoul's error value is a key).                                         *)
THEOREM TableStoreImplementsTable == KeyMax < ULongMax => (Spec => ImplementsTable)
BY StatementsAreReadAsMeant, TyposAreAllRefused, ReadAsMeantImplementsTable
================================================================================
