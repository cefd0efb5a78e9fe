\* Connections and frames are bounded, and nobody need stop the server.
CONSTANTS
  k1 = k1  k2 = k2  o1 = o1
  Conn <- MCConns  Other <- MCOthers  Fd <- MCFd  ListenFd = 1
  Listener = Listener  Free = Free  NoFd = NoFd  Oversized = Oversized
  Frames <- MCFrames
  Answered <- MCAnswered  MalformedAnswer <- MCMalformedAnswer
  Environments <- MCEnvironments
  Requests <- MCRequests  Responses <- MCResponses  Cells <- MCCells
  MaxKind = 4  MaxStatus = 4  NoPartition = NoPartition  Malformed = Malformed
CHECK_DEADLOCK FALSE
SPECIFICATION Spec
INVARIANTS TypeOK AnswersInOrder OwnSockets ServedIsRegistered StopLeavesNothing
PROPERTY StopReturns
