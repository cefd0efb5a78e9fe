----------------------------- MODULE RouterProofs -----------------------------
(***************************************************************************)
(* Proofs about the engine's Router and its JavaScript port, for every set  *)
(* of neighbours, keys and callers and every RouterConfig that meets the    *)
(* assumptions.                                                             *)
(***************************************************************************)
EXTENDS RouterPort, TLAPS

Scores == [Neighbor -> Score \cup {Unseen}]

(* Dividing keeps the order of two naturals and raises none of them. *)
LEMMA DivisionIsMonotone ==
  ASSUME NEW a \in Nat, NEW b \in Nat, a =< b, NEW d \in Nat \ {0}
  PROVE  a \div d \in Nat /\ a \div d =< b \div d /\ a \div d =< a
OBVIOUS

(* What is divided away comes back at most. *)
LEMMA DivisionShrinks ==
  ASSUME NEW a \in Nat, NEW d \in Nat \ {0}
  PROVE  (a \div d) * d =< a
OBVIOUS

(* Products of naturals: order, and a strict factor. *)
LEMMA ProductIsMonotone ==
  ASSUME NEW a \in Nat, NEW b \in Nat, a =< b, NEW m \in Nat
  PROVE  /\ a * m \in Nat /\ a * m =< b * m
         /\ a < b /\ m > 0 => a * m < b * m
OBVIOUS

(* Evaporation scales both of two scores, and raises none. *)
LEMMA ScalingIsMonotone ==
  ASSUME NEW a \in Nat, NEW b \in Nat, a =< b
  PROVE  /\ (a * KeepNum) \div KeepDen \in Nat
         /\ (a * KeepNum) \div KeepDen =< (b * KeepNum) \div KeepDen
         /\ (a * KeepNum) \div KeepDen =< a
<1>1. KeepNum \in Nat /\ KeepDen \in Nat \ {0} /\ KeepNum =< KeepDen
  BY RouterTableAssumption
<1>2. a * KeepNum \in Nat /\ b * KeepNum \in Nat /\ a * KeepNum =< b * KeepNum
  BY <1>1, ProductIsMonotone
<1>3. (a * KeepNum) \div KeepDen \in Nat
      /\ (a * KeepNum) \div KeepDen =< (b * KeepNum) \div KeepDen
  BY <1>1, <1>2, DivisionIsMonotone
<1>4. (a * KeepNum) \div KeepDen =< a
  BY <1>1
<1> QED
  BY <1>3, <1>4

(* Dividing two naturals brings them no farther apart.                      *)
LEMMA DivisionKeepsDistance ==
  ASSUME NEW a \in Nat, NEW b \in Nat, NEW i \in Nat, b =< a + i, NEW d \in Nat \ {0}
  PROVE  b \div d =< (a \div d) + i
<1>1. /\ a + i * d \in Nat /\ i * d \in Nat /\ i =< i * d
  <2>1. \A x \in Nat, y \in Nat \ {0} : x * y \in Nat /\ x =< x * y
    OBVIOUS
  <2> QED
    BY <2>1
<1>2. b =< a + i * d
  BY <1>1
<1>3. b \div d =< (a + i * d) \div d
  BY <1>1, <1>2, DivisionIsMonotone
<1>4. (a + i * d) \div d = (a \div d) + i
  OBVIOUS
<1> QED
  BY <1>3, <1>4

(* Evaporation brings two scores no farther apart.                          *)
LEMMA ScalingKeepsDistance ==
  ASSUME NEW a \in Nat, NEW b \in Nat, NEW i \in Nat, b =< a + i
  PROVE  (b * KeepNum) \div KeepDen =< ((a * KeepNum) \div KeepDen) + i
<1>1. KeepNum \in Nat /\ KeepDen \in Nat \ {0} /\ KeepNum =< KeepDen
  BY RouterTableAssumption
<1>2. \A x, y \in Nat : x * y \in Nat
  OBVIOUS
<1>3. /\ b * KeepNum \in Nat /\ a * KeepNum \in Nat /\ i * KeepNum \in Nat /\ i * KeepDen \in Nat
  BY <1>1, <1>2
<1>4. b * KeepNum =< a * KeepNum + i * KeepNum
  <2>1. \A x, y, z, m \in Nat : x =< y + z => x * m =< y * m + z * m
    <3> SUFFICES ASSUME NEW x \in Nat, NEW y \in Nat, NEW z \in Nat, NEW m \in Nat, x =< y + z
                 PROVE  x * m =< y * m + z * m
      OBVIOUS
    <3>1. (y + z) * m = y * m + z * m
      OBVIOUS
    <3>2. x * m =< (y + z) * m
      BY ProductIsMonotone
    <3> QED
      BY <3>1, <3>2
  <2> QED
    BY <1>1, <2>1
<1>5. i * KeepNum =< i * KeepDen
  <2>1. \A x, y, m \in Nat : x =< y => m * x =< m * y
    OBVIOUS
  <2> QED
    BY <1>1, <2>1
<1>6. b * KeepNum =< a * KeepNum + i * KeepDen
  BY <1>3, <1>4, <1>5
<1>7. (b * KeepNum) \div KeepDen =< (a * KeepNum + i * KeepDen) \div KeepDen
  BY <1>1, <1>3, <1>6, DivisionIsMonotone
<1>8. \A x \in Nat, d \in Nat \ {0} : (x + i * d) \div d = (x \div d) + i
  OBVIOUS
<1>9. (a * KeepNum + i * KeepDen) \div KeepDen = ((a * KeepNum) \div KeepDen) + i
  BY <1>1, <1>3, <1>8
<1> QED
  BY <1>7, <1>9

(* A reinforcement is a natural, and a smaller reference cost earns no more.*)
LEMMA ReinforcementOrder ==
  ASSUME NEW cost \in Costs
  PROVE  /\ Reinforcement(ReferenceCost, cost) \in Nat
         /\ Reinforcement(PortReferenceCost, cost) \in Nat
         /\ Reinforcement(PortReferenceCost, cost) =< Reinforcement(ReferenceCost, cost)
<1> DEFINE mine == (BaseReinforcement * ReferenceCost) \div cost
           its == (BaseReinforcement * PortReferenceCost) \div cost
<1>1. /\ cost \in Nat \ {0} /\ ReferenceCost \in Nat /\ PortReferenceCost \in Nat
      /\ PortReferenceCost =< ReferenceCost /\ BaseReinforcement \in Nat
      /\ MinReinforcement \in Nat /\ MinReinforcement =< BaseReinforcement
  BY RouterAssumption, RouterPortAssumption
<1>2. \A x, y, m \in Nat : x =< y => m * x \in Nat /\ m * y \in Nat /\ m * x =< m * y
  OBVIOUS
<1>3. /\ BaseReinforcement * PortReferenceCost \in Nat
      /\ BaseReinforcement * ReferenceCost \in Nat
      /\ BaseReinforcement * PortReferenceCost =< BaseReinforcement * ReferenceCost
  BY <1>1, <1>2
<1>4. mine \in Nat /\ its \in Nat /\ its =< mine
  BY <1>1, <1>3, DivisionIsMonotone
<1> HIDE DEF mine, its
<1>5. /\ Reinforcement(ReferenceCost, cost) =
           IF mine > BaseReinforcement THEN BaseReinforcement
           ELSE IF mine < MinReinforcement THEN MinReinforcement ELSE mine
      /\ Reinforcement(PortReferenceCost, cost) =
           IF its > BaseReinforcement THEN BaseReinforcement
           ELSE IF its < MinReinforcement THEN MinReinforcement ELSE its
  BY DEF Reinforcement, mine, its
<1> HIDE DEF Reinforcement
<1> QED
  BY <1>1, <1>4, <1>5

(* A score that is read is a number of the table's range. *)
LEMMA ReadScore ==
  ASSUME NEW scores \in Scores, NEW n \in Neighbor
  PROVE  /\ PheromoneLocked(scores, n) \in Score /\ PheromoneLocked(scores, n) \in Nat
         /\ scores[n] # Unseen => scores[n] \in Score /\ scores[n] = PheromoneLocked(scores, n)
BY RouterTableAssumption DEF PheromoneLocked, Score, Scores

(* What feedback does to one entry of the engine's table. *)
LEMMA EngineFeedback ==
  ASSUME NEW scores \in Scores, NEW hop \in Neighbor, NEW r \in Nat, NEW n \in Neighbor
  PROVE  /\ Rewarded(scores, <<Self, hop>>, r) \in Scores
         /\ Rewarded(scores, <<Self, hop>>, r)[n] =
              IF n = hop THEN Saturate((IF scores[n] = Unseen THEN 0 ELSE scores[n]) + r)
                         ELSE scores[n]
         /\ Penalised(scores, <<Self, hop>>) \in Scores
         /\ Penalised(scores, <<Self, hop>>)[n] =
              IF n = hop THEN PheromoneLocked(scores, n) \div PenaltyDivisor ELSE scores[n]
         /\ Evaporated(scores) \in Scores
         /\ Evaporated(scores)[n] = IF scores[n] = Unseen THEN Unseen
                                    ELSE (scores[n] * KeepNum) \div KeepDen
<1>0. /\ DOMAIN scores = Neighbor /\ Len(<<Self, hop>>) = 2 /\ <<Self, hop>>[2] = hop
      /\ \A m : (\E i \in 2 .. 2 : <<Self, hop>>[i] = m) <=> m = hop
  BY DEF Scores
<1>1. ASSUME NEW m \in Neighbor
      PROVE  Saturate((IF scores[m] = Unseen THEN 0 ELSE scores[m]) + r) \in Score
  <2>1. (IF scores[m] = Unseen THEN 0 ELSE scores[m]) + r \in Nat
    BY ReadScore, RouterTableAssumption DEF Score
  <2> QED
    BY <2>1, RouterTableAssumption DEF Saturate, Score
<1>2. PheromoneLocked(scores, hop) \div PenaltyDivisor \in Score
  <2>1. PheromoneLocked(scores, hop) \in Nat /\ PheromoneLocked(scores, hop) =< ScoreCap
    BY ReadScore DEF Score
  <2>2. /\ PheromoneLocked(scores, hop) \div PenaltyDivisor \in Nat
        /\ PheromoneLocked(scores, hop) \div PenaltyDivisor =< PheromoneLocked(scores, hop)
    BY <2>1, DivisionIsMonotone, RouterTableAssumption
  <2> QED
    BY <2>1, <2>2, RouterTableAssumption DEF Score
<1>3. ASSUME NEW m \in Neighbor, scores[m] # Unseen
      PROVE  (scores[m] * KeepNum) \div KeepDen \in Score
  <2>1. scores[m] \in Nat /\ scores[m] =< ScoreCap
    BY <1>3, ReadScore DEF Score
  <2>2. /\ (scores[m] * KeepNum) \div KeepDen \in Nat
        /\ (scores[m] * KeepNum) \div KeepDen =< scores[m]
    BY <2>1, ScalingIsMonotone
  <2> QED
    BY <2>1, <2>2, RouterTableAssumption DEF Score
<1>4. Rewarded(scores, <<Self, hop>>, r) =
        [m \in Neighbor |->
           IF m = hop THEN Saturate((IF scores[m] = Unseen THEN 0 ELSE scores[m]) + r)
                      ELSE scores[m]]
  BY <1>0 DEF Rewarded
<1>5. Penalised(scores, <<Self, hop>>) =
        [scores EXCEPT ![hop] = PheromoneLocked(scores, hop) \div PenaltyDivisor]
  BY <1>0 DEF Penalised
<1>6. Evaporated(scores) =
        [m \in Neighbor |-> IF scores[m] = Unseen THEN Unseen
                            ELSE (scores[m] * KeepNum) \div KeepDen]
  BY <1>0 DEF Evaporated
<1> QED
  BY <1>1, <1>2, <1>3, <1>4, <1>5, <1>6 DEF Scores

(* The same without a reinforcement.                                        *)
LEMMA EngineFailure ==
  ASSUME NEW scores \in Scores, NEW hop \in Neighbor
  PROVE  /\ Penalised(scores, <<Self, hop>>) \in Scores
         /\ \A n \in Neighbor : Penalised(scores, <<Self, hop>>)[n] =
              IF n = hop THEN PheromoneLocked(scores, n) \div PenaltyDivisor ELSE scores[n]
<1>1. 0 \in Nat
  OBVIOUS
<1> QED
  BY <1>1, EngineFeedback

(* The same of the port's success; the rest of its feedback is the engine's.*)
LEMMA PortFeedback ==
  ASSUME NEW scores \in Scores, NEW hop \in Neighbor, NEW r \in Nat, NEW n \in Neighbor
  PROVE  /\ PortRewarded(scores, <<Self, hop>>, r) \in Scores
         /\ PortRewarded(scores, <<Self, hop>>, r)[n] =
              IF n = hop THEN Saturate(PheromoneLocked(scores, n) + r) ELSE scores[n]
<1>0. /\ DOMAIN scores = Neighbor /\ Len(<<Self, hop>>) = 2 /\ <<Self, hop>>[2] = hop
      /\ \A m : (\E i \in 2 .. 2 : <<Self, hop>>[i] = m) <=> m = hop
  BY DEF Scores
<1>1. ASSUME NEW m \in Neighbor
      PROVE  Saturate(PheromoneLocked(scores, m) + r) \in Score
  <2>1. PheromoneLocked(scores, m) + r \in Nat
    BY ReadScore
  <2> QED
    BY <2>1, RouterTableAssumption DEF Saturate, Score
<1>2. PortRewarded(scores, <<Self, hop>>, r) =
        [m \in Neighbor |->
           IF m = hop THEN Saturate(PheromoneLocked(scores, m) + r) ELSE scores[m]]
  BY <1>0 DEF PortRewarded
<1> QED
  BY <1>1, <1>2 DEF Scores

--------------------------------------------------------------------------------
(* The inductive invariant: types, of the port's table too, what failures   *)
(* leave of an edge, and the distance of the two tables.                    *)
Trails == TypeOK /\ port \in [RouteKey -> Scores] /\ EdgesShrink /\ PortNeverFarAbove

(* Both tables, entry by entry. *)
LEMMA TableFacts ==
  ASSUME Trails
  PROVE  \A key \in RouteKey :
           /\ pheromone[key] \in Scores /\ port[key] \in Scores
           /\ \A n \in Neighbor :
                /\ pheromone[key][n] = Unseen <=> port[key][n] = Unseen
                /\ PheromoneLocked(pheromone[key], n) \in Nat
                /\ PheromoneLocked(port[key], n) \in Nat
                /\ PheromoneLocked(port[key], n) =< PheromoneLocked(pheromone[key], n) + Initial
                /\ divisor[key][n] \in Nat \ {0} /\ divisor[key][n] =< DivisorBound
                /\ peak[key][n] \in Score
<1>1. ASSUME NEW key \in RouteKey
      PROVE  pheromone[key] \in Scores /\ port[key] \in Scores
  BY DEF Trails, TypeOK, Scores
<1>2. ASSUME NEW key \in RouteKey, NEW n \in Neighbor
      PROVE  /\ divisor[key][n] \in 1 .. DivisorBound
             /\ peak[key][n] \in Score
  BY DEF Trails, TypeOK
<1>3. ASSUME NEW key \in RouteKey, NEW n \in Neighbor
      PROVE  /\ divisor[key][n] \in Nat \ {0} /\ divisor[key][n] =< DivisorBound
  BY <1>2, RouterAssumption
<1> QED
  BY <1>1, <1>2, <1>3, ReadScore DEF Trails, PortNeverFarAbove

(* Saturation brings two sums no farther apart. *)
LEMMA SaturationKeepsDistance ==
  \A a, b \in Nat : b =< a + Initial => Saturate(b) =< Saturate(a) + Initial
BY RouterTableAssumption DEF Saturate

(* Choose reads the table only. *)
LEMMA ChooseStep ==
  ASSUME Trails, NEW t \in Thread, NEW key \in RouteKey, NEW visited \in SUBSET Neighbor,
         Choose(t, key, visited), UNCHANGED port
  PROVE  Trails'
<1>1. /\ UNCHANGED <<pheromone, divisor, peak, port>>
      /\ \E n \in NextHops(pheromone[key], Latency, Candidates, visited) :
           decision' = [decision EXCEPT ![t] = [key |-> key, hop |-> n]]
  BY DEF Choose
<1>2. \A n \in NextHops(pheromone[key], Latency, Candidates, visited) : n \in Neighbor
  <2>1. \A i \in DOMAIN Candidates : Candidates[i] \in Neighbor
    BY RouterAssumption
  <2> QED
    BY <2>1 DEF NextHops, Best, Eligible
<1>3. TypeOK'
  BY <1>1, <1>2 DEF Trails, TypeOK
<1> QED
  BY <1>1, <1>3 DEF Trails, EdgesShrink, PortNeverFarAbove, PheromoneLocked

(* A success ends the count of failures of its own edge only. *)
LEMMA SuccessStep ==
  ASSUME Trails, NEW t \in Thread, PortObserveSuccess(t)
  PROVE  Trails'
<1>1. PICK cost \in Costs :
        /\ Reward(t, Reinforcement(ReferenceCost, cost))
        /\ port' = [port EXCEPT ![decision[t].key] =
                      PortRewarded(@, Path(t), Reinforcement(PortReferenceCost, cost))]
  BY DEF PortObserveSuccess
<1>2. PICK r \in Nat, q \in Nat :
        /\ q =< r
        /\ Reward(t, r)
        /\ port' = [port EXCEPT ![decision[t].key] = PortRewarded(@, Path(t), q)]
  BY <1>1, ReinforcementOrder
<1>3. PICK key \in RouteKey, hop \in Neighbor : decision[t] = [key |-> key, hop |-> hop]
  BY <1>2 DEF Reward, Trails, TypeOK
<1>4. decision[t].key = key /\ decision[t].hop = hop /\ Path(t) = <<Self, hop>>
  BY <1>3 DEF Path
<1>5. /\ pheromone' = [pheromone EXCEPT ![key] = Rewarded(@, <<Self, hop>>, r)]
      /\ port' = [port EXCEPT ![key] = PortRewarded(@, <<Self, hop>>, q)]
      /\ decision' = [decision EXCEPT ![t] = NoDecision]
      /\ divisor' = [divisor EXCEPT ![key][hop] = 1]
      /\ peak' = [peak EXCEPT ![key][hop] = 0]
  BY <1>2, <1>4 DEF Reward
<1>6. pheromone[key] \in Scores /\ port[key] \in Scores
  BY TableFacts
<1>7. TypeOK' /\ port' \in [RouteKey -> Scores]
  <2>1. Rewarded(pheromone[key], <<Self, hop>>, r) \in Scores
    BY <1>2, <1>6, EngineFeedback
  <2>2. PortRewarded(port[key], <<Self, hop>>, q) \in Scores
    BY <1>2, <1>6, PortFeedback
  <2>3. 1 \in 1 .. DivisorBound /\ 0 \in Score
    BY RouterAssumption, RouterTableAssumption DEF Score
  <2> QED
    BY <1>5, <2>1, <2>2, <2>3 DEF Trails, TypeOK, Scores
<1> DEFINE mine(n) == IF pheromone[key][n] = Unseen THEN 0 ELSE pheromone[key][n]
           its(n) == PheromoneLocked(port[key], n)
<1>c1. ASSUME NEW n \in Neighbor
      PROVE  Rewarded(pheromone[key], <<Self, hop>>, r)[n] =
               IF n = hop THEN Saturate(mine(n) + r) ELSE pheromone[key][n]
  <2>1. \A scores \in Scores :
          Rewarded(scores, <<Self, hop>>, r)[n] =
            IF n = hop THEN Saturate((IF scores[n] = Unseen THEN 0 ELSE scores[n]) + r)
                       ELSE scores[n]
    BY EngineFeedback
  <2> QED
    BY <1>6, <2>1
<1>c2. ASSUME NEW n \in Neighbor
      PROVE  PortRewarded(port[key], <<Self, hop>>, q)[n] =
               IF n = hop THEN Saturate(its(n) + q) ELSE port[key][n]
  BY <1>6, PortFeedback
<1> HIDE DEF mine, its
<1>8. ASSUME NEW k \in RouteKey, NEW n \in Neighbor, ~(k = key /\ n = hop)
      PROVE  /\ pheromone'[k][n] = pheromone[k][n] /\ port'[k][n] = port[k][n]
             /\ divisor'[k][n] = divisor[k][n] /\ peak'[k][n] = peak[k][n]
  <2>1. CASE k # key
    BY <1>5, <2>1 DEF Trails, TypeOK
  <2>2. CASE k = key
    <3>1. /\ Rewarded(pheromone[key], <<Self, hop>>, r)[n] = pheromone[key][n]
          /\ PortRewarded(port[key], <<Self, hop>>, q)[n] = port[key][n]
      BY <1>8, <1>c1, <1>c2, <2>2
    <3> QED
      BY <1>5, <1>8, <2>2, <3>1 DEF Trails, TypeOK
  <2> QED
    BY <2>1, <2>2
<1>9. EdgesShrink'
  <2>1. divisor'[key][hop] = 1
    BY <1>5 DEF Trails, TypeOK
  <2>2. ASSUME NEW k \in RouteKey, NEW n \in Neighbor, divisor'[k][n] > 1
        PROVE  PheromoneLocked(pheromone'[k], n) * divisor'[k][n] =< peak'[k][n]
    <3>1. ~(k = key /\ n = hop)
      BY <2>1, <2>2
    <3>2. /\ PheromoneLocked(pheromone'[k], n) = PheromoneLocked(pheromone[k], n)
          /\ divisor'[k][n] = divisor[k][n] /\ peak'[k][n] = peak[k][n]
      BY <1>8, <3>1 DEF PheromoneLocked
    <3> QED
      BY <2>2, <3>2 DEF Trails, EdgesShrink
  <2> QED
    BY <2>2 DEF EdgesShrink
<1>10. PortNeverFarAbove'
  <2>1. ASSUME NEW k \in RouteKey, NEW n \in Neighbor
        PROVE  /\ pheromone'[k][n] = Unseen <=> port'[k][n] = Unseen
               /\ PheromoneLocked(port'[k], n) =< PheromoneLocked(pheromone'[k], n) + Initial
    <3>1. CASE k = key /\ n = hop
      <4>1. /\ pheromone'[k][n] = Saturate(mine(hop) + r)
            /\ port'[k][n] = Saturate(its(hop) + q)
        BY <1>5, <1>c1, <1>c2, <3>1 DEF Trails, TypeOK
      <4>2. mine(hop) \in Nat /\ its(hop) \in Nat /\ its(hop) =< mine(hop) + Initial
        <5>1. CASE pheromone[key][hop] = Unseen
          BY <5>1, TableFacts, RouterTableAssumption DEF PheromoneLocked, mine, its, Score
        <5>2. CASE pheromone[key][hop] # Unseen
          BY <5>2, TableFacts, RouterTableAssumption DEF PheromoneLocked, mine, its
        <5> QED
          BY <5>1, <5>2
      <4>3. /\ Saturate(mine(hop) + r) \in Nat /\ Saturate(its(hop) + q) \in Nat
            /\ Saturate(its(hop) + q) =< Saturate(mine(hop) + r) + Initial
        <5>1. /\ mine(hop) + r \in Nat /\ its(hop) + q \in Nat
              /\ its(hop) + q =< (mine(hop) + r) + Initial
          BY <1>2, <4>2, RouterTableAssumption DEF Score
        <5> QED
          BY <5>1, SaturationKeepsDistance, RouterTableAssumption DEF Saturate
      <4> QED
        BY <4>1, <4>3, RouterTableAssumption DEF PheromoneLocked
    <3>2. CASE ~(k = key /\ n = hop)
      BY <1>8, <3>2 DEF Trails, PortNeverFarAbove, PheromoneLocked
    <3> QED
      BY <3>1, <3>2
  <2> QED
    BY <2>1 DEF PortNeverFarAbove
<1> QED
  BY <1>7, <1>9, <1>10 DEF Trails

(* A failure divides its own edge in both tables, and takes the edge's      *)
(* worth before the first failure as the peak.                              *)
LEMMA FailureStep ==
  ASSUME Trails, NEW t \in Thread, PortObserveFailure(t)
  PROVE  Trails'
<1>1. PICK key \in RouteKey, hop \in Neighbor : decision[t] = [key |-> key, hop |-> hop]
  BY DEF PortObserveFailure, ObserveFailure, Trails, TypeOK
<1>2. decision[t].key = key /\ decision[t].hop = hop /\ Path(t) = <<Self, hop>>
  BY <1>1 DEF Path
<1> DEFINE worth == PheromoneLocked(pheromone[key], hop)
           count == divisor[key][hop]
           longer == IF count * PenaltyDivisor =< DivisorBound THEN count * PenaltyDivisor
                                                               ELSE count
           top == IF count = 1 THEN worth ELSE peak[key][hop]
<1>3. /\ pheromone' = [pheromone EXCEPT ![key] = Penalised(@, <<Self, hop>>)]
      /\ port' = [port EXCEPT ![key] = Penalised(@, <<Self, hop>>)]
      /\ decision' = [decision EXCEPT ![t] = NoDecision]
      /\ divisor' = [divisor EXCEPT ![key][hop] = longer]
      /\ peak' = [peak EXCEPT ![key][hop] = top]
  BY <1>2 DEF PortObserveFailure, ObserveFailure, PortPenalised
<1>4. /\ pheromone[key] \in Scores /\ port[key] \in Scores
      /\ worth \in Nat /\ worth \in Score /\ count \in Nat \ {0} /\ count =< DivisorBound
      /\ peak[key][hop] \in Score /\ PenaltyDivisor \in Nat \ {0}
  BY TableFacts, ReadScore, RouterTableAssumption
<1>5. /\ count * PenaltyDivisor \in Nat /\ count * PenaltyDivisor >= count
      /\ longer \in 1 .. DivisorBound /\ longer \in Nat \ {0}
      /\ longer = count \/ longer = count * PenaltyDivisor
      /\ top \in Score
  <2> HIDE DEF worth, count
  <2>1. \A a, d \in Nat \ {0} : a * d \in Nat /\ a * d >= a
    OBVIOUS
  <2>2. count * PenaltyDivisor \in Nat /\ count * PenaltyDivisor >= count
    BY <1>4, <2>1
  <2>3. longer = count \/ (longer = count * PenaltyDivisor /\ longer =< DivisorBound)
    OBVIOUS
  <2>4. longer \in Nat \ {0} /\ longer =< DivisorBound
    <3> HIDE DEF longer
    <3> QED
      BY <1>4, <2>2, <2>3
  <2>5. longer \in 1 .. DivisorBound
    <3> HIDE DEF longer
    <3> QED
      BY <2>4, RouterAssumption
  <2>6. top \in Score
    BY <1>4
  <2> QED
    BY <2>2, <2>3, <2>4, <2>5, <2>6
<1>6. ASSUME NEW n \in Neighbor
      PROVE  Penalised(pheromone[key], <<Self, hop>>)[n] =
               IF n = hop THEN worth \div PenaltyDivisor ELSE pheromone[key][n]
  BY <1>4, EngineFailure
<1>7. ASSUME NEW n \in Neighbor
      PROVE  Penalised(port[key], <<Self, hop>>)[n] =
               IF n = hop THEN PheromoneLocked(port[key], hop) \div PenaltyDivisor
                          ELSE port[key][n]
  BY <1>4, EngineFailure
<1>8. /\ Penalised(pheromone[key], <<Self, hop>>) \in Scores
      /\ Penalised(port[key], <<Self, hop>>) \in Scores
  BY <1>4, EngineFailure
<1>9. /\ worth \div PenaltyDivisor \in Nat
      /\ worth \div PenaltyDivisor =< worth
      /\ (worth \div PenaltyDivisor) * PenaltyDivisor =< worth
  BY <1>4, DivisionIsMonotone, DivisionShrinks
<1> HIDE DEF worth, count, longer, top
<1>10. TypeOK' /\ port' \in [RouteKey -> Scores]
  BY <1>3, <1>5, <1>8 DEF Trails, TypeOK, Scores
<1>11. ASSUME NEW k \in RouteKey, NEW n \in Neighbor, ~(k = key /\ n = hop)
       PROVE  /\ pheromone'[k][n] = pheromone[k][n] /\ port'[k][n] = port[k][n]
              /\ divisor'[k][n] = divisor[k][n] /\ peak'[k][n] = peak[k][n]
  <2>1. CASE k # key
    BY <1>3, <2>1 DEF Trails, TypeOK
  <2>2. CASE k = key
    BY <1>3, <1>6, <1>7, <1>11, <2>2 DEF Trails, TypeOK
  <2> QED
    BY <2>1, <2>2
<1>12. /\ pheromone'[key][hop] = worth \div PenaltyDivisor
       /\ port'[key][hop] = PheromoneLocked(port[key], hop) \div PenaltyDivisor
       /\ divisor'[key][hop] = longer /\ peak'[key][hop] = top
  BY <1>3, <1>6, <1>7 DEF Trails, TypeOK
<1>13. EdgesShrink'
  <2>1. ASSUME longer > 1
        PROVE  (worth \div PenaltyDivisor) * longer =< top
    <3> DEFINE left == worth \div PenaltyDivisor
    <3>1. left * count =< left * (count * PenaltyDivisor)
          /\ left * (count * PenaltyDivisor) = (left * PenaltyDivisor) * count
          /\ (left * PenaltyDivisor) * count =< worth * count
      <4>1. \A a, b, d \in Nat : a * (b * d) = (a * d) * b
        OBVIOUS
      <4>2. \A a, b, d \in Nat : b =< d => a * b =< a * d
        OBVIOUS
      <4>3. \A a, b, d \in Nat : a =< b => a * d =< b * d
        OBVIOUS
      <4>4. left \in Nat /\ count \in Nat /\ PenaltyDivisor \in Nat /\ worth \in Nat
            /\ left * PenaltyDivisor \in Nat /\ left * PenaltyDivisor =< worth
            /\ count * PenaltyDivisor \in Nat /\ count =< count * PenaltyDivisor
        BY <1>4, <1>5, <1>9
      <4> HIDE DEF left
      <4>5. left * count =< left * (count * PenaltyDivisor)
        BY <4>2, <4>4
      <4>6. left * (count * PenaltyDivisor) = (left * PenaltyDivisor) * count
        <5>1. left * (PenaltyDivisor * count) = (left * PenaltyDivisor) * count
          BY <4>1, <4>4
        <5>2. \A a, b \in Nat : a * b = b * a
          OBVIOUS
        <5>3. PenaltyDivisor * count = count * PenaltyDivisor
          BY <4>4, <5>2
        <5> QED
          BY <5>1, <5>3
      <4>7. (left * PenaltyDivisor) * count =< worth * count
        BY <4>3, <4>4
      <4> QED
        BY <4>5, <4>6, <4>7
    <3>2. left * longer =< worth * count
      <4>1. \A a, b \in Nat : a * b \in Nat
        OBVIOUS
      <4>2. left \in Nat /\ count \in Nat /\ worth \in Nat /\ count * PenaltyDivisor \in Nat
            /\ left * PenaltyDivisor \in Nat
        BY <1>4, <1>5, <1>9, <4>1
      <4> HIDE DEF left
      <4>3. left * count \in Nat /\ left * (count * PenaltyDivisor) \in Nat /\ worth * count \in Nat
        BY <4>1, <4>2
      <4> QED
        BY <1>5, <3>1, <4>3
    <3>3. CASE count = 1
      <4>1. top = worth
        BY <3>3 DEF top
      <4> QED
        BY <1>4, <3>2, <3>3, <4>1
    <3>4. CASE count > 1
      <4>1. top = peak[key][hop] /\ worth * count =< peak[key][hop]
        BY <3>4 DEF top, worth, count, Trails, EdgesShrink
      <4>2. peak[key][hop] \in Nat /\ worth * count \in Nat /\ left * longer \in Nat
        <5>1. \A a, b \in Nat : a * b \in Nat
          OBVIOUS
        <5> QED
          BY <1>4, <1>5, <1>9, <5>1, RouterTableAssumption DEF Score
      <4> HIDE DEF left
      <4>3. left * longer =< top
        BY <3>2, <4>1, <4>2
      <4> QED
        BY <4>3 DEF left
    <3> QED
      BY <1>4, <3>3, <3>4
  <2>2. ASSUME NEW k \in RouteKey, NEW n \in Neighbor, divisor'[k][n] > 1
        PROVE  PheromoneLocked(pheromone'[k], n) * divisor'[k][n] =< peak'[k][n]
    <3>1. CASE k = key /\ n = hop
      <4>1. PheromoneLocked(pheromone'[k], n) = worth \div PenaltyDivisor
        BY <1>9, <1>12, <3>1, RouterTableAssumption DEF PheromoneLocked
      <4> QED
        BY <1>12, <2>1, <2>2, <3>1, <4>1
    <3>2. CASE ~(k = key /\ n = hop)
      <4>1. /\ PheromoneLocked(pheromone'[k], n) = PheromoneLocked(pheromone[k], n)
            /\ divisor'[k][n] = divisor[k][n] /\ peak'[k][n] = peak[k][n]
        BY <1>11, <3>2 DEF PheromoneLocked
      <4> QED
        BY <2>2, <4>1 DEF Trails, EdgesShrink
    <3> QED
      BY <3>1, <3>2
  <2> QED
    BY <2>2 DEF EdgesShrink
<1>14. PortNeverFarAbove'
  <2>1. ASSUME NEW k \in RouteKey, NEW n \in Neighbor
        PROVE  /\ pheromone'[k][n] = Unseen <=> port'[k][n] = Unseen
               /\ PheromoneLocked(port'[k], n) =< PheromoneLocked(pheromone'[k], n) + Initial
    <3>1. CASE k = key /\ n = hop
      <4>1. /\ PheromoneLocked(port[key], hop) =< worth + Initial
            /\ PheromoneLocked(port[key], hop) \in Nat /\ Initial \in Nat
        BY TableFacts, RouterTableAssumption DEF worth, Score
      <4>2. /\ PheromoneLocked(port[key], hop) \div PenaltyDivisor
                 =< (worth \div PenaltyDivisor) + Initial
            /\ PheromoneLocked(port[key], hop) \div PenaltyDivisor \in Nat
        <5>1. worth \in Nat /\ PenaltyDivisor \in Nat \ {0}
          BY <1>4
        <5>2. PheromoneLocked(port[key], hop) \div PenaltyDivisor
                =< (worth \div PenaltyDivisor) + Initial
          BY <4>1, <5>1, DivisionKeepsDistance
        <5>3. PheromoneLocked(port[key], hop) \div PenaltyDivisor \in Nat
          BY <4>1, <5>1
        <5> QED
          BY <5>2, <5>3
      <4> QED
        BY <1>9, <1>12, <3>1, <4>2, RouterTableAssumption DEF PheromoneLocked
    <3>2. CASE ~(k = key /\ n = hop)
      BY <1>11, <3>2 DEF Trails, PortNeverFarAbove, PheromoneLocked
    <3> QED
      BY <3>1, <3>2
  <2> QED
    BY <2>1 DEF PortNeverFarAbove
<1> QED
  BY <1>10, <1>13, <1>14 DEF Trails

(* Evaporation lowers every score, and brings the two no farther apart. *)
LEMMA EvaporateStep ==
  ASSUME Trails, PortEvaporate
  PROVE  Trails'
<1>1. /\ pheromone' = [k \in RouteKey |-> Evaporated(pheromone[k])]
      /\ port' = [k \in RouteKey |-> Evaporated(port[k])]
      /\ UNCHANGED <<decision, divisor, peak>>
  BY DEF PortEvaporate, Evaporate, PortEvaporated
<1>2. ASSUME NEW scores \in Scores
      PROVE  /\ Evaporated(scores) \in Scores
             /\ \A n \in Neighbor : Evaporated(scores)[n] =
                  IF scores[n] = Unseen THEN Unseen ELSE (scores[n] * KeepNum) \div KeepDen
  <2>0. 0 \in Nat
    OBVIOUS
  <2>1. ASSUME NEW n \in Neighbor
        PROVE  /\ Evaporated(scores) \in Scores
               /\ Evaporated(scores)[n] =
                    IF scores[n] = Unseen THEN Unseen ELSE (scores[n] * KeepNum) \div KeepDen
    BY EngineFeedback, <2>0
  <2>2. CASE Neighbor = {}
    BY <2>2 DEF Evaporated, Scores
  <2>3. CASE Neighbor # {}
    BY <2>1, <2>3
  <2> QED
    BY <2>2, <2>3
<1>3. TypeOK' /\ port' \in [RouteKey -> Scores]
  <2>1. \A k \in RouteKey : pheromone[k] \in Scores /\ port[k] \in Scores
    BY TableFacts
  <2>2. pheromone' \in [RouteKey -> Scores] /\ port' \in [RouteKey -> Scores]
    BY <1>1, <1>2, <2>1
  <2> QED
    BY <1>1, <2>2 DEF Trails, TypeOK, Scores
<1>4. ASSUME NEW k \in RouteKey, NEW n \in Neighbor
      PROVE  /\ pheromone'[k][n] = Unseen <=> port'[k][n] = Unseen
             /\ PheromoneLocked(port'[k], n) =< PheromoneLocked(pheromone'[k], n) + Initial
             /\ PheromoneLocked(pheromone'[k], n) \in Nat
             /\ PheromoneLocked(pheromone'[k], n) =< PheromoneLocked(pheromone[k], n)
  <2>1. pheromone[k] \in Scores /\ port[k] \in Scores
    BY TableFacts
  <2>2. /\ pheromone'[k][n] = IF pheromone[k][n] = Unseen THEN Unseen
                              ELSE (pheromone[k][n] * KeepNum) \div KeepDen
        /\ port'[k][n] = IF port[k][n] = Unseen THEN Unseen
                         ELSE (port[k][n] * KeepNum) \div KeepDen
    BY <1>1, <1>2, <2>1
  <2>3. pheromone[k][n] = Unseen <=> port[k][n] = Unseen
    BY TableFacts
  <2>4. CASE pheromone[k][n] = Unseen
    BY <2>2, <2>3, <2>4, RouterTableAssumption DEF PheromoneLocked
  <2>5. CASE pheromone[k][n] # Unseen
    <3>1. /\ pheromone[k][n] \in Nat /\ port[k][n] \in Nat /\ Initial \in Nat
          /\ port[k][n] =< pheromone[k][n] + Initial
      BY <2>1, <2>3, <2>5, TableFacts, ReadScore, RouterTableAssumption DEF Score
    <3>2. /\ (pheromone[k][n] * KeepNum) \div KeepDen \in Nat
          /\ (port[k][n] * KeepNum) \div KeepDen
               =< ((pheromone[k][n] * KeepNum) \div KeepDen) + Initial
          /\ (pheromone[k][n] * KeepNum) \div KeepDen =< pheromone[k][n]
          /\ (port[k][n] * KeepNum) \div KeepDen \in Nat
      BY <3>1, ScalingIsMonotone, ScalingKeepsDistance
    <3> QED
      BY <2>2, <2>3, <2>5, <3>2, RouterTableAssumption DEF PheromoneLocked
  <2> QED
    BY <2>4, <2>5
<1>5. EdgesShrink'
  <2>1. ASSUME NEW k \in RouteKey, NEW n \in Neighbor, divisor[k][n] > 1
        PROVE  PheromoneLocked(pheromone'[k], n) * divisor[k][n] =< peak[k][n]
    <3>1. /\ PheromoneLocked(pheromone[k], n) * divisor[k][n] =< peak[k][n]
          /\ PheromoneLocked(pheromone[k], n) \in Nat /\ divisor[k][n] \in Nat
          /\ peak[k][n] \in Nat
      BY <2>1, TableFacts, RouterTableAssumption DEF Trails, EdgesShrink, Score
    <3>2. /\ PheromoneLocked(pheromone'[k], n) * divisor[k][n]
               =< PheromoneLocked(pheromone[k], n) * divisor[k][n]
          /\ PheromoneLocked(pheromone'[k], n) * divisor[k][n] \in Nat
          /\ PheromoneLocked(pheromone[k], n) * divisor[k][n] \in Nat
      <4>1. \A a, b, m \in Nat : a =< b => a * m \in Nat /\ b * m \in Nat /\ a * m =< b * m
        OBVIOUS
      <4> QED
        BY <1>4, <3>1, <4>1
    <3> QED
      BY <3>1, <3>2
  <2> QED
    BY <1>1, <2>1 DEF EdgesShrink
<1>6. PortNeverFarAbove'
  BY <1>4 DEF PortNeverFarAbove
<1> QED
  BY <1>3, <1>5, <1>6 DEF Trails

(* In the beginning no edge has an entry. *)
LEMMA InitTrails ==
  ASSUME PortInit
  PROVE  Trails
<1>1. 1 \in 1 .. DivisorBound /\ 0 \in Score
  BY RouterAssumption, RouterTableAssumption DEF Score
<1>2. TypeOK /\ port \in [RouteKey -> Scores]
  BY <1>1 DEF PortInit, Init, TypeOK, Scores
<1>3. EdgesShrink
  BY DEF PortInit, Init, EdgesShrink
<1>4. PortNeverFarAbove
  BY RouterTableAssumption DEF PortInit, Init, PortNeverFarAbove, PheromoneLocked, Score
<1> QED
  BY <1>2, <1>3, <1>4 DEF Trails

(* Both tables and the ghosts keep their types, the tables their distance,  *)
(* and what failures leave of an edge is bounded by its peak, through any   *)
(* interleaving of choices, feedback and evaporation.                       *)
THEOREM RouterTrails == PortSpec => []Trails
<1>1. PortInit => Trails
  BY InitTrails
<1>2. Trails /\ [PortNext]_portVars => Trails'
  <2> SUFFICES ASSUME Trails, [PortNext]_portVars
               PROVE  Trails'
    OBVIOUS
  <2>1. CASE UNCHANGED portVars
    BY <2>1 DEF portVars, vars, Trails, TypeOK, EdgesShrink, PortNeverFarAbove
  <2> QED
    BY <2>1, ChooseStep, SuccessStep, FailureStep, EvaporateStep DEF PortNext
<1> QED
  BY <1>1, <1>2, PTL DEF PortSpec

(* The engine's table keeps its type: no feedback and no evaporation takes  *)
(* a score out of its range.                                                *)
THEOREM RouterTypeCorrect == PortSpec => []TypeOK
<1>1. Trails => TypeOK
  BY DEF Trails
<1> QED
  BY <1>1, RouterTrails, PTL

(* router.cpp and service/server/router.js: given the same feedback, each   *)
(* with its own reference cost, the port never rates an edge more than the  *)
(* initial pheromone above the engine.                                      *)
THEOREM RouterPortNeverFarAbove == PortSpec => []PortNeverFarAbove
<1>1. Trails => PortNeverFarAbove
  BY DEF Trails
<1> QED
  BY <1>1, RouterTrails, PTL

(* Failing over takes logarithmically many failures: as soon as they have   *)
(* divided what an edge was worth below the initial pheromone, Choose       *)
(* prefers any untried neighbour that is no farther, whatever the callers   *)
(* that share the router did in between.                                    *)
THEOREM RouterFailsOver == PortSpec => []FailsOver
<1>1. ASSUME Trails
      PROVE  FailsOver
  <2> SUFFICES ASSUME NEW key \in RouteKey, NEW bad \in Neighbor, NEW other \in Candidate,
                      divisor[key][bad] > 1,
                      peak[key][bad] < Initial * divisor[key][bad],
                      pheromone[key][other] = Unseen,
                      Latency[other] =< Latency[bad]
               PROVE  bad \notin Best(pheromone[key], Latency, Candidates, {})
    BY DEF FailsOver
  <2>1. other \in Neighbor
    BY RouterAssumption DEF Candidate
  <2> DEFINE left == PheromoneLocked(pheromone[key], bad)
             count == divisor[key][bad]
  <2>2. /\ left \in Nat /\ count \in Nat \ {0} /\ peak[key][bad] \in Nat
        /\ Latency[other] \in Nat \ {0} /\ Latency[bad] \in Nat \ {0} /\ Initial \in Nat
    BY <1>1, <2>1, TableFacts, RouterAssumption, RouterTableAssumption DEF Score
  <2>3. left * count =< peak[key][bad] /\ peak[key][bad] < Initial * count
    BY <1>1 DEF Trails, EdgesShrink
  <2> HIDE DEF left, count
  <2>4. left < Initial
    <3>1. \A a, b, m \in Nat : b =< a => b * m =< a * m
      OBVIOUS
    <3>2. \A a, b \in Nat : a * b \in Nat
      OBVIOUS
    <3>3. left * count \in Nat /\ Initial * count \in Nat /\ left * count < Initial * count
      BY <2>2, <2>3, <3>2
    <3>4. Initial =< left => Initial * count =< left * count
      BY <2>2, <3>1
    <3> QED
      BY <2>2, <3>3, <3>4
  <2>5. left * Latency[other] < Initial * Latency[bad]
    <3>1. \A a, b, m, n \in Nat : a < b /\ m =< n /\ n > 0 => a * m < b * n
      <4>1. \A a, m, n \in Nat : m =< n => a * m =< a * n
        OBVIOUS
      <4>2. \A a, b, n \in Nat : a < b /\ n > 0 => a * n < b * n
        OBVIOUS
      <4>3. \A a, m \in Nat : a * m \in Nat
        OBVIOUS
      <4> SUFFICES ASSUME NEW a \in Nat, NEW b \in Nat, NEW m \in Nat, NEW n \in Nat,
                          a < b, m =< n, n > 0
                   PROVE  a * m < b * n
        OBVIOUS
      <4>4. a * m =< a * n /\ a * n < b * n /\ a * m \in Nat /\ a * n \in Nat /\ b * n \in Nat
        BY <4>1, <4>2, <4>3
      <4> QED
        BY <4>4
    <3> QED
      BY <2>2, <2>4, <3>1
  <2>6. Below(pheromone[key], Latency, bad, other)
    BY <2>5 DEF Below, PheromoneLocked, left
  <2>7. PICK i \in DOMAIN Candidates : Candidates[i] = other
    BY DEF Candidate
  <2>8. i \in Eligible(Candidates, {})
    BY DEF Eligible
  <2> QED
    BY <2>6, <2>7, <2>8 DEF Best
<1> QED
  BY <1>1, RouterTrails, PTL
================================================================================
