--------------------------- MODULE ColonyProperties ---------------------------
(* What makes the service's storage correct, and in which environments.     *)
EXTENDS Colony

(* Nothing about the document is open: no write of it is in flight, and     *)
(* none since the last acknowledged one was refused half way or cut short.  *)
Settled(d) == Writes(d) = {} /\ maybe[d] = {}

(* Nothing happens that the program has no defence against; appends may     *)
(* fail, but nobody has restarted from the logs since.                      *)
Tolerable ==
  /\ env.faults \subseteq {"full_disk"}
  /\ "full_disk" \in env.faults => spent.restarts = 0

(* service/README.md: "a healed replica does a full resync from a live      *)
(* sibling".  Through failures, heals and restarts every replica that is up *)
(* for the document's tenant holds what the last acknowledged write left, a *)
(* delete included: the next read is right wherever the router sends it.    *)
UpReplicasCurrent ==
  \A d \in Doc : Settled(d) => \A r \in Targets(d) : store[r][d] = acked[d]

UpReplicasCurrentIfTolerable == Tolerable => UpReplicasCurrent

(* The reads in flight would return, if they ended now, what the last write *)
(* acknowledged before they began left, or what a later write, acknowledged *)
(* or not, puts there: never anything older, failing and healing included.  *)
ReadsAreFresh ==
  Tolerable => \A q \in Reader, d \in Doc :
    reading[q][d] # NoReplica => store[reading[q][d]][d] \in fresh[q][d]

(* colony.js: the index is "rebuilt from whatever the replicas already      *)
(* recovered from their own WALs".  list() lists what was acknowledged and  *)
(* nothing else, though the index is kept apart from the stores.            *)
IndexIsExact ==
  \A d \in Doc : Settled(d) => (d \in listed <=> acked[d] # Absent)

(* With faults it is exact until the first restart, whatever they are.      *)
IndexIsExactIfTolerable == (env.faults = {} \/ spent.restarts = 0) => IndexIsExact

(* The count the quota is tested against is the number of documents in the  *)
(* index, through rewrites, deletes of what is not there, and restarts.     *)
CountIsIndex ==
  \A t \in Tenant : count[t] = Cardinality(listed \cap DocsOf(t))

(* The quota is tested before the write and counted after it: it can be     *)
(* passed, but until a restart by less than the writes in flight.           *)
QuotaOvershootBounded ==
  spent.restarts = 0 => \A t \in Tenant : count[t] < env.quota + Cardinality(Writer)

(* colony.js, syncPrefixFrom: "Changes go through the WAL too, so the       *)
(* resync survives a restart": without faults, the log of a replica that is *)
(* up replays to the acknowledged contents.                                 *)
UpReplicasLogged ==
  env.faults = {} =>
    \A d \in Doc : Settled(d) => \A r \in Targets(d) : disk[r][d] = acked[d]

(* Tenants are isolated: a step changes a document in a replica only if its *)
(* tenant has a write in flight there, heals that replica, or the process   *)
(* restarts.                                                                *)
TenantsIsolated ==
  [][\A r \in Replica, d \in Doc : store'[r][d] # store[r][d] =>
       \/ \E w \in Writes(d) : r \in writing[w].pending
       \/ spent'.restarts > spent.restarts
       \/ HealReplica(TenantOf[d], r)]_vars
================================================================================
