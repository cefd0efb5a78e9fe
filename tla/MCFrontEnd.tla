------------------------------ MODULE MCFrontEnd -------------------------------
(* Six environments: keys that are created and revoked while the process may *)
(* end at any moment; a limit that refills slower than sweep forgets; two    *)
(* clients that update the same documents; and a client that pages through a *)
(* collection that others update, with three queries.                        *)
EXTENDS FrontEndProperties, TLC

CONSTANTS ant1, ant2, ant3, ip, c1, c2

MCKeys == {ant1, ant2, ant3}
MCClients == {c1, c2}
ClientSymmetry == Permutations(MCClients)
MCIds == 1 .. 4
MCCreationLimit == [capacity |-> 4, refill |-> 1]

N(n) == <<3, n>>  \* a number
S(n) == <<4, n>>  \* a string
MCValues == {N(1), N(2), S(1)}
Doc(r, n) == [rank |-> r, note |-> n]
Rank(r) == Doc(r, Missing)
ByRank == [where |-> {}, orderBy |-> "rank", dir |-> "asc", limit |-> 2]

Quiet ==
  [asks |-> {}, issued |-> {ant1}, stored |-> Nothing, ids |-> {}, bodies |-> {},
   query |-> ByRank, limit |-> [capacity |-> 20, refill |-> 0], outage |-> FALSE,
   cut_save |-> FALSE, ticks |-> 0, requests |-> 0, restarts |-> 0]

Paging ==
  [Quiet EXCEPT !.asks = {"put", "delete", "page"},
                !.stored = (1 :> Rank(N(2))) @@ (2 :> Rank(N(1))) @@ (3 :> Rank(N(1))),
                !.ids = {1, 3, 4}, !.bodies = {Rank(N(1)), Rank(N(2))},
                !.requests = 5]

MCEnvironments ==
  { [Quiet EXCEPT !.asks = {"create", "revoke"}, !.cut_save = TRUE,
                  !.ticks = 3, !.requests = 5, !.restarts = 2],
    [Quiet EXCEPT !.asks = {"create", "page"}, !.limit = [capacity |-> 4, refill |-> 1],
                  !.ticks = 6, !.requests = 6, !.restarts = 1],
    [Quiet EXCEPT !.asks = {"put", "patch", "delete"}, !.stored = (1 :> Doc(N(1), N(1))),
                  !.ids = {1}, !.bodies = {Rank(N(2)), Doc(Missing, N(2)), Doc(N(1), N(2))},
                  !.requests = 4, !.restarts = 1, !.outage = TRUE],
    [Paging EXCEPT !.outage = TRUE],
    [Paging EXCEPT !.bodies = {Rank(Missing), Rank(S(1)), Rank(N(2))}, !.requests = 4,
                   !.query = [where |-> {[field |-> "rank", op |-> ">=", value |-> N(1)]},
                              orderBy |-> "rank", dir |-> "desc", limit |-> 1]],
    [Paging EXCEPT !.bodies = {Rank(Missing), Rank(S(1)), Rank(N(2))}, !.requests = 4,
                   !.query = [where |-> {[field |-> "rank", op |-> "!=", value |-> N(2)]},
                              orderBy |-> "id", dir |-> "asc", limit |-> 1]] }
================================================================================
