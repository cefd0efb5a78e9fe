------------------------------ MODULE RouterTable ------------------------------
(***************************************************************************)
(* The arithmetic of engine/src/router.cpp on the pheromone scores of ONE   *)
(* route key: a function from neighbours to scores.  pheromone_ is a map    *)
(* of maps, so a neighbour that never received feedback has no entry; here  *)
(* it is Unseen.  Scores are naturals (the code's doubles in fixed point)   *)
(* and saturate at ScoreCap, which keeps instances finite.                  *)
(*                                                                          *)
(* Only constant-level operators: the modules of the Router and of the mesh *)
(* of gateways apply them in their actions.                                 *)
(***************************************************************************)
EXTENDS Integers, Sequences

CONSTANTS
  Initial,         \* RouterConfig.initial_pheromone
  PenaltyDivisor,  \* 1 / RouterConfig.failure_penalty
  KeepNum,         \* 1 - RouterConfig.evaporation_rate
  KeepDen,         \*   as the fraction KeepNum / KeepDen
  Explores,        \* TRUE iff RouterConfig.exploration_probability > 0
  ScoreCap,        \* bound: the largest score represented
  Unseen           \* the neighbour has no entry in the inner map

ASSUME RouterTableAssumption ==
  /\ ScoreCap \in Nat
  /\ Initial \in 0 .. ScoreCap
  /\ PenaltyDivisor \in Nat \ {0}
  /\ KeepNum \in Nat
  /\ KeepDen \in Nat \ {0}
  /\ KeepNum =< KeepDen
  /\ Explores \in BOOLEAN
  /\ Unseen \notin Nat

Score == 0 .. ScoreCap

Saturate(s) == IF s > ScoreCap THEN ScoreCap ELSE s

(* PheromoneLocked: a missing entry reads as the initial pheromone. *)
PheromoneLocked(scores, n) == IF scores[n] = Unseen THEN Initial ELSE scores[n]

(* lhs is strictly below rhs: pheromone / latency, cross-multiplied. *)
Below(scores, latency, lhs, rhs) ==
  PheromoneLocked(scores, lhs) * latency[rhs] < PheromoneLocked(scores, rhs) * latency[lhs]

(* Choose looks at the candidates by position, visited ones filtered out. *)
Eligible(candidates, visited) == { i \in DOMAIN candidates : candidates[i] \notin visited }

(* std::max_element: the first of the candidates that no other one beats. *)
Best(scores, latency, candidates, visited) ==
  LET eligible == Eligible(candidates, visited)
  IN  { candidates[i] : i \in { b \in eligible : \A j \in eligible :
          /\ ~Below(scores, latency, candidates[b], candidates[j])
          /\ j < b => Below(scores, latency, candidates[j], candidates[b]) } }

(* Every next hop Choose may return: the greedy one, or any eligible one    *)
(* when the explore draw can succeed.  Empty stands for std::nullopt.       *)
NextHops(scores, latency, candidates, visited) ==
  IF Explores THEN { candidates[i] : i \in Eligible(candidates, visited) }
              ELSE Best(scores, latency, candidates, visited)

\* Mutant: the reinforcement replaces the score instead of adding to it.
RewardedAnew(scores, path, reinforcement) ==
  [n \in DOMAIN scores |->
    IF \E i \in 2 .. Len(path) : path[i] = n THEN Saturate(reinforcement) ELSE scores[n]]

(* ObserveSuccess: scores[hop] += reinforcement for each hop of the path    *)
(* after its first node.  operator[] default-inserts 0.0 for a missing      *)
(* entry, NOT the initial pheromone a read of it would give.                *)
Rewarded(scores, path, reinforcement) ==
  [n \in DOMAIN scores |->
    IF \E i \in 2 .. Len(path) : path[i] = n
      THEN Saturate((IF scores[n] = Unseen THEN 0 ELSE scores[n]) + reinforcement)
      ELSE scores[n]]

(* ObserveFailure: only the last node of the path is penalised; its entry   *)
(* is read as PheromoneLocked does, so a missing one starts at Initial.     *)
\* Mutant: the first node of the path is penalised.
PenalisedFirst(scores, path) ==
  IF Len(path) < 2 THEN scores
  ELSE [n \in DOMAIN scores |->
         IF n = path[1] THEN PheromoneLocked(scores, n) \div PenaltyDivisor ELSE scores[n]]

Penalised(scores, path) ==
  IF Len(path) < 2 THEN scores
  ELSE [scores EXCEPT ![path[Len(path)]] =
         PheromoneLocked(scores, path[Len(path)]) \div PenaltyDivisor]

(* Evaporate scales the entries that exist; a missing one stays missing.    *)
\* Mutant: the evaporation rate is added instead of taken off.
EvaporatedUp(scores) ==
  [n \in DOMAIN scores |-> IF scores[n] = Unseen THEN Unseen
                                                 ELSE (scores[n] * KeepDen) \div KeepNum]

Evaporated(scores) ==
  [n \in DOMAIN scores |-> IF scores[n] = Unseen THEN Unseen
                                                 ELSE (scores[n] * KeepNum) \div KeepDen]
================================================================================
