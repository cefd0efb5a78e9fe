CONSTANTS
  a = a  b = b  c = c  ka = ka  kb = kb  kc = kc  p = p  q = q  z = z
  Node <- MCNode  Client <- MCTrio  RouteKey <- MCKeys
  Neighbors <- MCNeighbors  Latency <- MCLatency  Owned <- MCOwned
  Peers <- MCAllPeers  Entry <- MCEntry
  HopBudgets <- MCHopBudgets  Reinforcements <- MCReinforcements
  ExecutorStatus <- MCOk
  Waking <- MCNode
  MaxStops = 0
  NoKey = NoKey  NoRequest = NoRequest  NoNode = NoNode  NoThread = NoThread
  NoResponse = NoResponse
  Initial = 1  PenaltyDivisor = 4  KeepNum = 1  KeepDen = 1
  Explores = TRUE  ScoreCap = 2  Unseen = Unseen
SPECIFICATION Spec
INVARIANT NoWaitCycle
