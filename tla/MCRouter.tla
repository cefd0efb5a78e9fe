------------------------------- MODULE MCRouter -------------------------------
(* One route key, three neighbours of which two are equally near, and two    *)
(* caller threads: the smallest gateway with a tie, a worse link, and        *)
(* callers that interleave.                                                  *)
EXTENDS RouterPort, TLC

CONSTANTS k, near, alsoNear, far, t1, t2, self

MCKeys == {k}
MCNeighbors == {near, alsoNear, far}
MCThreads == {t1, t2}
MCCandidates == <<far, near, alsoNear>>
MCLatency == [n \in MCNeighbors |-> IF n = far THEN 2 ELSE 1]
MCCosts == {20, 100}
Callers == Permutations(MCThreads)
================================================================================
