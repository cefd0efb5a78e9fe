CONSTANTS
  a = a  b = b  c = c  ka = ka  kc = kc  p = p  q = q 
  Node <- MCNode  Client <- MCClient  RouteKey <- MCKey
  Neighbors <- MCNeighbors  Latency <- MCLatency  Owned <- MCOwned
  Peers <- MCPeers  Entry <- MCEntry
  HopBudgets <- MCHopBudgets  Reinforcements <- MCReinforcements
  ExecutorStatus <- MCExecutorStatus
  Waking <- MCMixed
  MaxStops = 1
  NoKey = NoKey  NoRequest = NoRequest  NoNode = NoNode  NoThread = NoThread
  NoResponse = NoResponse
  Initial = 1  PenaltyDivisor = 4  KeepNum = 1  KeepDen = 1
  Explores = TRUE  ScoreCap = 2  Unseen = Unseen
SPECIFICATION FairSpec
PROPERTIES EveryClientAnswered StopReturnsWhereWoken
