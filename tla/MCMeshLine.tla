------------------------------ MODULE MCMeshLine ------------------------------
(* Nodes a - b - c in a line; a owns one key and c the other, so queries     *)
(* cross each other at b.  Client p enters at the end a, q in the middle:    *)
(* whoever comes second finds the connections the first one left cached.     *)
EXTENDS MeshProperties

CONSTANTS a, b, c, ka, kc, p, q

MCNode == {a, b, c}
MCClient == {p, q}
MCKey == {ka, kc}
MCNeighbors == [n \in MCNode |-> CASE n = a -> <<b>> [] n = b -> <<a, c>> [] n = c -> <<b>>]
MCLatency == [n \in MCNode |-> [m \in MCNode |-> 1]]
MCOwned == [n \in MCNode |-> CASE n = a -> {ka} [] n = b -> {} [] n = c -> {kc}]
MCPeers == {<<a, b>>, <<b, a>>, <<b, c>>, <<c, b>>}
MCEntry == [x \in MCClient |-> IF x = p THEN a ELSE b]
MCBothAtEnd == [x \in MCClient |-> a]
MCExecutorStatus == {"Ok", "ExecutionError"}
MCHopBudgets == {0, 2}
MCReinforcements == {2}
\* Node b runs on Winsock, its neighbours on POSIX.
MCMixed == {b}
\* All nodes run on POSIX.
MCNone == {}

(* The line is a topology of the kind that MeshNoWaitCycle is about.         *)
ASSUME LineIsForest == IsForest
================================================================================
