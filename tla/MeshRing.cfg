\* Greedy routers: the route a query takes depends on the feedback of others.
CONSTANTS
  a = a  b = b  c = c  ka = ka  kb = kb  kc = kc  p = p  q = q  z = z
  Node <- MCNode  Client <- MCTrio  RouteKey <- MCTwoKeys
  Neighbors <- MCNeighbors  Latency <- MCLatency  Owned <- MCOwned
  Peers <- MCMissingPeer  Entry <- MCCrowd
  HopBudgets <- MCHopBudgets  Reinforcements <- MCReinforcements
  ExecutorStatus <- MCOk
  Waking <- MCMixed
  MaxStops = 1
  NoKey = NoKey  NoRequest = NoRequest  NoNode = NoNode  NoThread = NoThread
  NoResponse = NoResponse
  Initial = 1  PenaltyDivisor = 4  KeepNum = 1  KeepDen = 1
  Explores = FALSE  ScoreCap = 2  Unseen = Unseen
SPECIFICATION Spec
INVARIANTS Discipline RouteIsPath ExactlyOnceWithoutStops
