----------------------------- MODULE MCTableStore ------------------------------
(* Two clients of a table `users` with key `id`.  Keys are 1 and 12, so that *)
(* one is a prefix of the other and 1 with the digit of an UPDATE is 12; a   *)
(* key of 32 bits is one up to 99, so that 12 with another digit is none.    *)
(* A table `user`, whose name begins that of `users`, has a row with key 0.  *)
EXTENDS TableStoreProperties, TLC

CONSTANTS c1, c2

MCClients == {c1, c2}
MCDistributionKey == [users |-> "id", user |-> "id"]
MCLowerCase == ("Users" :> "users") @@ ("ID" :> "id")
MCNumberOf == ("0" :> 0) @@ ("1" :> 1) @@ ("12" :> 12) @@ ("2" :> 2) @@ ("3" :> 3) @@ ("100" :> 100)
MCFlatText == ("x\ny" :> "x y")
MCBeginnings == [users |-> {"", "us", "user", "users"}, user |-> {"", "user"}]
MCContinued ==
  LET digit == <<"1", "2", "3">>
  IN  [x \in {"", "us", "user", "users"} \X (1 .. 3) |-> x[1] \o digit[x[2]]]

N(text) == <<"Number", text>>
S(text) == <<"String", text>>

Asked(verb, columns, values, where) ==
  [verb |-> verb, table |-> "users", written |-> "users",
   columns |-> columns, values |-> values, where |-> where, count |-> FALSE]

Ins(key, text) == Asked("insert", <<"id", "name">>, <<N(key), S(text)>>, {})
InsUser(key, text) == [Ins(key, text) EXCEPT !.table = "user", !.written = "user"]
Upd(key, text) == Asked("update", <<"name">>, <<S(text)>>, {<<"id", N(key)>>})
Del(key) == Asked("delete", <<>>, <<>>, {<<"id", N(key)>>})
Sel(key) == Asked("select", <<>>, <<>>, {<<"id", N(key)>>})
Cnt(key) == [Sel(key) EXCEPT !.count = TRUE]

(* Statements that are understood, in other forms *)
Forms ==
  { [Asked("insert", <<"age", "id">>, <<N("3"), N("12")>>, {}) EXCEPT !.written = "Users"],
    Asked("update", <<"name", "age">>, <<S("b"), N("3")>>, {<<"id", N("1")>>}),
    Asked("select", <<"id", "name">>, <<>>, {<<"id", N("12")>>}),
    Asked("insert", <<"name">>, <<S("b")>>, {}),
    Del("1"), Cnt("1") }

(* Statements that are not: no key, a key that is no number, too few values, *)
(* a key out of range, another table, a predicate on another column          *)
Refused ==
  { Asked("insert", <<"name">>, <<S("a")>>, {}),
    Asked("insert", <<"id", "name">>, <<S("1"), S("a")>>, {}),
    Asked("insert", <<"id", "name">>, <<N("1")>>, {}),
    Sel("100"),
    [Sel("1") EXCEPT !.table = "other", !.written = "other"],
    Asked("delete", <<>>, <<>>, {}),
    Asked("delete", <<>>, <<>>, {<<"age", N("1")>>}),
    Asked("update", <<"name">>, <<S("a")>>, {<<"name", S("b")>>}) }

Odd ==
  { Asked("insert", <<"id", "id">>, <<N("1"), N("2")>>, {}),
    Asked("update", <<"id">>, <<N("2")>>, {<<"id", N("1")>>}) }

Env(faults, statements, calls, crashes) ==
  [faults |-> faults, statements |-> statements, calls |-> calls, crashes |-> crashes]

MCEnvironments ==
  { Env({}, {Ins("1", "a"), Ins("1", "b"), Ins("12", "a"), Upd("1", "b"), Del("1"), Sel("1"), Cnt("12")}, 3, 1),
    Env({"typos"}, Forms \cup Refused \cup {Sel("1")}, 1, 0),
    Env({}, Forms \cup Refused, 2, 0),
    Env({"torn"}, {Ins("1", "a"), Ins("12", "a"), Upd("12", "b"), Del("12")}, 3, 1),
    Env({"torn"}, {Ins("1", "a"), Del("1"), InsUser("0", "b")}, 3, 1),
    Env({"unwritable"}, {Ins("1", "a"), Upd("1", "b"), Del("1")}, 3, 1),
    Env({"newline"}, {Ins("1", "x\ny"), Upd("1", "x\ny"), Upd("1", "b"), Sel("1")}, 3, 1),
    Env({"odd"}, Odd \cup {Ins("1", "a"), Sel("1")}, 3, 1) }

Interchangeable == Permutations(Client)
================================================================================
