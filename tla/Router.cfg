\* 1 unit of score is 0.5: initial 0.5 is 1, base reinforcement 2.5 is 5,
\* the slowest success (2 % of it) rounds up to 1, failure keeps a quarter.
\* A success of 20 ms earns 5 in the engine and 2 in the port, a slow one of
\* 100 ms 1 in both: one fast success rates an untried edge 5 there, 3 here.
\* Three quarters survive an evaporation (the code's 98 % needs longer runs).
CONSTANTS
  k = k  near = near  alsoNear = alsoNear  far = far  t1 = t1  t2 = t2  self = self
  Unseen = Unseen  NoDecision = NoDecision
  RouteKey <- MCKeys  Neighbor <- MCNeighbors  Thread <- MCThreads
  Self <- self  Candidates <- MCCandidates  Latency <- MCLatency
  Costs <- MCCosts  ReferenceCost = 20  PortReferenceCost = 8
  BaseReinforcement = 5  MinReinforcement = 1
  Initial = 1  PenaltyDivisor = 4  KeepNum = 3  KeepDen = 4
  Explores = TRUE  ScoreCap = 6  DivisorBound = 16
SYMMETRY Callers
SPECIFICATION PortSpec
INVARIANTS TypeOK FailsOver PortNeverFarAbove
