------------------------------ MODULE RouterPort ------------------------------
(***************************************************************************)
(* service/server/router.js, the service's port of the engine's Router.      *)
(* Both routers observe the same feedback in the same order here, each with *)
(* its own defaults: the engine's is Router's pheromone, the service's is   *)
(* port.  colony.js makes its router with router.js's defaults, where the   *)
(* reference cost is 8 ms and not the engine's 20 ms.                       *)
(***************************************************************************)
EXTENDS Router

CONSTANT PortReferenceCost   \* config.referenceCostMs of router.js

ASSUME RouterPortAssumption ==
  /\ PortReferenceCost \in Nat
  /\ PortReferenceCost =< ReferenceCost

VARIABLE port

portVars == <<vars, port>>

(* observeSuccess: m.set(hop, this.pheromoneFor(key, hop) + reinforcement), *)
(* so a missing entry starts at the initial pheromone.                      *)
PortRewarded(scores, path, reinforcement) ==
  [n \in DOMAIN scores |->
    IF \E i \in 2 .. Len(path) : path[i] = n
      THEN Saturate(PheromoneLocked(scores, n) + reinforcement)
      ELSE scores[n]]

(* observeFailure and evaporate compute what the engine computes. *)
PortPenalised(scores, path) == Penalised(scores, path)
PortEvaporated(scores) == Evaporated(scores)

PortInit == Init /\ port = pheromone

PortObserveSuccess(t) ==
  \E cost \in Costs :
    /\ Reward(t, Reinforcement(ReferenceCost, cost))
    /\ port' = [port EXCEPT ![decision[t].key] =
                  PortRewarded(@, Path(t), Reinforcement(PortReferenceCost, cost))]

PortObserveFailure(t) ==
  /\ ObserveFailure(t)
  /\ port' = [port EXCEPT ![decision[t].key] = PortPenalised(@, Path(t))]

PortEvaporate ==
  /\ Evaporate
  /\ port' = [k \in RouteKey |-> PortEvaporated(port[k])]

PortNext ==
  \/ \E t \in Thread, key \in RouteKey, visited \in SUBSET Neighbor :
       Choose(t, key, visited) /\ UNCHANGED port
  \/ \E t \in Thread : PortObserveSuccess(t) \/ PortObserveFailure(t)
  \/ PortEvaporate

PortSpec == PortInit /\ [][PortNext]_portVars
--------------------------------------------------------------------------------
(* Given the same feedback, the routers know the same edges, and the engine *)
(* rates none more than the initial pheromone below the port, however many  *)
(* successes, failures and evaporations crossed: all that the initial       *)
(* pheromone dropped by an edge's first success in the engine (operator[]   *)
(* inserts 0.0) can ever cost it.  Neither router dominates: the engine's   *)
(* larger reference cost may put its rating above the port's.               *)
PortNeverFarAbove ==
  \A key \in RouteKey, n \in Neighbor :
    /\ pheromone[key][n] = Unseen <=> port[key][n] = Unseen
    /\ PheromoneLocked(port[key], n) =< PheromoneLocked(pheromone[key], n) + Initial
================================================================================
