-------------------------------- MODULE Router --------------------------------
(***************************************************************************)
(* One gateway's Router (engine/src/router.cpp), shared by every connection *)
(* thread of the gateway.  mutex_ makes each public method atomic, so each  *)
(* is one action; what is NOT atomic is a caller's Choose ... Observe pair, *)
(* between which other threads choose, observe and evaporate.               *)
(***************************************************************************)
EXTENDS RouterTable, FiniteSets

CONSTANTS
  RouteKey, Neighbor, Thread,
  Self,            \* node_id of the gateway, first node of every path
  Candidates,      \* Neighbors(): the sequence of neighbours
  Latency,         \* link_latency_ms of each neighbour
  Costs,           \* the total costs (ms) a success may be observed with
  ReferenceCost,   \* RouterConfig.reference_cost_ms
  BaseReinforcement,  \* RouterConfig.base_reinforcement
  MinReinforcement,   \* base * RouterConfig.minimum_reinforcement_fraction
  NoDecision,
  DivisorBound     \* bound: the largest divisor that failures in a row are counted by

ASSUME RouterAssumption ==
  /\ Candidates \in Seq(Neighbor)
  /\ Latency \in [Neighbor -> Nat \ {0}]
  /\ Costs \subseteq Nat \ {0}
  /\ ReferenceCost \in Nat
  /\ BaseReinforcement \in Nat
  /\ MinReinforcement \in 0 .. BaseReinforcement
  /\ Self \notin Neighbor
  /\ DivisorBound \in Nat \ {0}

VARIABLES
  pheromone,  \* pheromone_, by key and neighbour
  decision,   \* the RouteDecision each caller holds while it forwards
  divisor,    \* ghost: PenaltyDivisor ^ the failures of an edge since its last
              \* success, as long as that is at most DivisorBound
  peak        \* ghost: what the edge was worth before the first of them

vars == <<pheromone, decision, divisor, peak>>

Path(t) == <<Self, decision[t].hop>>

TypeOK ==
  /\ pheromone \in [RouteKey -> [Neighbor -> Score \cup {Unseen}]]
  /\ decision \in [Thread -> [key : RouteKey, hop : Neighbor] \cup {NoDecision}]
  /\ divisor \in [RouteKey -> [Neighbor -> 1 .. DivisorBound]]
  /\ peak \in [RouteKey -> [Neighbor -> Score]]

Init ==
  /\ pheromone = [k \in RouteKey |-> [n \in Neighbor |-> Unseen]]
  /\ decision = [t \in Thread |-> NoDecision]
  /\ divisor = [k \in RouteKey |-> [n \in Neighbor |-> 1]]
  /\ peak = [k \in RouteKey |-> [n \in Neighbor |-> 0]]

Choose(t, key, visited) ==
  /\ decision[t] = NoDecision
  /\ \E n \in NextHops(pheromone[key], Latency, Candidates, visited) :
       decision' = [decision EXCEPT ![t] = [key |-> key, hop |-> n]]
  /\ UNCHANGED <<pheromone, divisor, peak>>

Reward(t, reinforcement) ==
  /\ decision[t] # NoDecision
  /\ pheromone' = [pheromone EXCEPT ![decision[t].key] = Rewarded(@, Path(t), reinforcement)]
  /\ decision' = [decision EXCEPT ![t] = NoDecision]
  /\ divisor' = [divisor EXCEPT ![decision[t].key][decision[t].hop] = 1]
  /\ peak' = [peak EXCEPT ![decision[t].key][decision[t].hop] = 0]

(* base * clamp(reference / cost, minimum fraction, 1).                     *)
Reinforcement(reference, cost) ==
  LET earned == (BaseReinforcement * reference) \div cost
  IN  IF earned > BaseReinforcement THEN BaseReinforcement
      ELSE IF earned < MinReinforcement THEN MinReinforcement
      ELSE earned

ObserveSuccess(t) == \E cost \in Costs : Reward(t, Reinforcement(ReferenceCost, cost))

ObserveFailure(t) ==
  /\ decision[t] # NoDecision
  /\ pheromone' = [pheromone EXCEPT ![decision[t].key] = Penalised(@, Path(t))]
  /\ decision' = [decision EXCEPT ![t] = NoDecision]
  /\ LET key == decision[t].key
         hop == decision[t].hop
     IN  /\ divisor' = [divisor EXCEPT ![key][hop] =
                          IF @ * PenaltyDivisor =< DivisorBound THEN @ * PenaltyDivisor ELSE @]
         /\ peak' = [peak EXCEPT ![key][hop] =
                       IF divisor[key][hop] = 1 THEN PheromoneLocked(pheromone[key], hop) ELSE @]

Evaporate ==
  /\ pheromone' = [k \in RouteKey |-> Evaporated(pheromone[k])]
  /\ UNCHANGED <<decision, divisor, peak>>

Next ==
  \/ \E t \in Thread, key \in RouteKey, visited \in SUBSET Neighbor : Choose(t, key, visited)
  \/ \E t \in Thread : ObserveSuccess(t) \/ ObserveFailure(t)
  \/ Evaporate

Spec == Init /\ [][Next]_vars
--------------------------------------------------------------------------------
(* Neighbours that the topology lists. *)
Candidate == { Candidates[i] : i \in DOMAIN Candidates }

(* Failing over takes logarithmically many failures: an edge that failed f  *)
(* times in a row is worth at most peak / PenaltyDivisor ^ f, and once that *)
(* is below the initial pheromone the greedy choice prefers any untried     *)
(* neighbour that is no farther, whatever other threads rewarded, chose or  *)
(* evaporated between the failures.                                         *)
FailsOver ==
  \A key \in RouteKey, bad \in Neighbor, other \in Candidate :
    (/\ divisor[key][bad] > 1
     /\ peak[key][bad] < Initial * divisor[key][bad]
     /\ pheromone[key][other] = Unseen
     /\ Latency[other] =< Latency[bad])
      => bad \notin Best(pheromone[key], Latency, Candidates, {})

(* What the failures since the last success have left of an edge. *)
EdgesShrink ==
  \A key \in RouteKey, n \in Neighbor :
    divisor[key][n] > 1
      => PheromoneLocked(pheromone[key], n) * divisor[key][n] =< peak[key][n]
================================================================================
