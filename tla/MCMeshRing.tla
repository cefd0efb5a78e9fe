------------------------------ MODULE MCMeshRing ------------------------------
(* Three nodes, every two of them neighbours, each the owner of one key; one *)
(* client per node.  Queries may take the direct link or the detour.         *)
EXTENDS MeshProperties

CONSTANTS a, b, c, ka, kb, kc, p, q, z

MCNode == {a, b, c}
MCPair == {p, q}
MCTrio == {p, q, z}
MCTwoKeys == {ka, kc}
MCKeys == {ka, kb, kc}
MCNeighbors == [n \in MCNode |-> CASE n = a -> <<b, c>> [] n = b -> <<c, a>> [] n = c -> <<a, b>>]
MCLatency == [n \in MCNode |-> [m \in MCNode |-> 1]]
MCOwns == [n \in MCNode |-> CASE n = a -> {ka} [] n = b -> {kb} [] n = c -> {kc}]
MCOwned == [n \in MCNode |-> MCOwns[n] \cap RouteKey]
MCAllPeers == { l \in MCNode \X MCNode : l[1] # l[2] }
\* b was never told the address of c.
MCMissingPeer == MCAllPeers \ {<<b, c>>}
MCEntry == [x \in Client |-> CASE x = p -> a [] x = q -> b [] x = z -> c]
\* Two clients share the entry node a, so the second finds its cached links.
MCCrowd == [x \in Client |-> IF x = z THEN b ELSE a]
MCOk == {"Ok"}
MCHopBudgets == {2}
MCReinforcements == {1}
\* Node b runs on Winsock, the others on POSIX.
MCMixed == {b}

(* The ring has a cycle of links: MeshNoWaitCycle is not about it.           *)
ASSUME RingIsNoForest == ~IsForest
================================================================================
