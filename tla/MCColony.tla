------------------------------- MODULE MCColony -------------------------------
(* One shard.  dx, dz and dw belong to tenant ta, dy to tb; two requests may *)
(* write and one may read at a time.                                         *)
EXTENDS ColonyProperties, TLC

CONSTANTS sh, dx, dy, dz, dw, ta, tb, v1, v2, w1, w2, rd

MCShard == {sh}
MCDocs == {dx, dy, dz, dw}
MCTenants == {ta, tb}
MCValues == {v1, v2}
MCWriters == {w1, w2}
MCReaders == {rd}
MCShardOf == [d \in Doc |-> sh]
MCTenantOf == [d \in Doc |-> IF d = dy THEN tb ELSE ta]

Env(faults, docs, quota, writes, failures, restarts) ==
  [faults |-> faults, docs |-> docs, quota |-> quota,
   writes |-> writes, failures |-> failures, restarts |-> restarts]

MCEnvironments ==
  { Env({}, {dx}, 2, 3, 3, 2),          \* one document, through three writes and restarts
    Env({}, {dx, dy}, 2, 2, 2, 0),      \* two tenants on the same replicas
    Env({}, {dx, dz, dw}, 1, 3, 0, 0),  \* a quota to race for
    Env({"full_disk"}, {dx}, 2, 3, 2, 0),
    Env({"blackout", "early_heal", "degraded_restart"}, {dx}, 2, 2, 3, 1),
    Env({"overlap", "full_disk"}, {dx, dy}, 2, 2, 0, 1) }
MCEarlyHeal == { Env({"early_heal"}, {dx}, 2, 2, 1, 0) }
MCDegradedRestart == { Env({"degraded_restart"}, {dx}, 2, 2, 1, 1) }
Interchangeable == Permutations(Writer) \cup Permutations(Value)
================================================================================
