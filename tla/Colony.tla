-------------------------------- MODULE Colony --------------------------------
(***************************************************************************)
(* The storage of the service (service/server/colony.js): documents hashed  *)
(* to shards, three replicas per shard with a store in memory and a log on  *)
(* disk, failures injected per tenant, an index and a count per tenant.     *)
(*                                                                          *)
(* The program is one thread; what interleaves are its requests, at their   *)
(* awaits: a write or a read sleeps before it touches a replica.  Each step *)
(* below is what one request does between two awaits (promises resolve in   *)
(* the same turn, so the last replica's write and the answer are one step). *)
(*                                                                          *)
(* The router is a free choice here: exploration may put any replica first. *)
(***************************************************************************)
EXTENDS Naturals, FiniteSets

CONSTANTS
  Shard, Copies,   \* REPLICA_PROFILES.length; replicas[0] is copy 1
  Doc, Tenant, Value,
  ShardOf,         \* hashToShard of the document's key
  TenantOf,        \* the namespace the document's key starts with
  Writer, Reader,  \* requests that may be in flight together
  Environments,    \* what the program may be exposed to, see Environment
  Absent, NoWrite, NoReplica

Replica == Shard \X (1 .. Copies)

(* What may happen to the program beyond requests for different documents,  *)
(* failures of single replicas, heals and restarts, requests in flight:     *)
(*                                                                          *)
(* overlap: writes of one document are in flight together.                  *)
(* blackout: every replica of a shard may be failed for one tenant.         *)
(* early_heal: a heal while the tenant writes to the shard.                 *)
(* degraded_restart: the process stops while replicas are failed.           *)
(* full_disk: an append to a log may throw.                                 *)
Fault == {"overlap", "blackout", "early_heal", "degraded_restart", "full_disk"}

(* An environment: its faults, the documents its clients use, the quota     *)
(* maxDocsPerTenant, and bounds: how many writes, failures and restarts.    *)
Environment ==
  [faults : SUBSET Fault, docs : SUBSET Doc, quota : Nat,
   writes : Nat, failures : Nat, restarts : Nat]

Content == Value \cup {Absent}

ASSUME ColonyAssumption ==
  /\ Copies \in Nat \ {0}
  /\ ShardOf \in [Doc -> Shard]
  /\ TenantOf \in [Doc -> Tenant]
  /\ IsFiniteSet(Doc)
  /\ \A e \in Environments : e \in Environment
  /\ Absent \notin Value
  /\ NoReplica \notin Replica

VARIABLES
  env,       \* the environment, which does not change
  store,     \* Replica.store
  disk,      \* what replaying the replica's log would give
  failed,    \* Replica.failedFor, by tenant
  listed,    \* Colony.indexes: the documents in them
  count,     \* Colony.tenantDocCounts
  writing,   \* each writer's Colony.write: document, content, replicas still asleep
  reading,   \* each reader's Colony.read of a document: the replica it sleeps for
  acked,     \* ghost: what the last acknowledged write of a document left
  maybe,     \* ghost: contents whose write since then was not acknowledged
  fresh,     \* ghost: the contents a read in flight may return
  spent      \* how many writes, failures and restarts there were

data == <<store, disk>>
index == <<listed, count>>
ghosts == <<acked, maybe, fresh>>
vars == <<env, data, failed, index, writing, reading, ghosts, spent>>

Write == [doc : Doc, content : Content, pending : SUBSET Replica, intact : BOOLEAN]

(* The names above stand apart, and the program is there for its requests. *)
ASSUME RequestsAssumption ==
  /\ NoWrite \notin Write
  /\ IsFiniteSet(Writer) /\ Writer # {}

ReplicasOf(d) == { r \in Replica : r[1] = ShardOf[d] }
UpFor(t) == Replica \ failed[t]
Targets(d) == ReplicasOf(d) \cap UpFor(TenantOf[d])

Writes(d) == { w \in Writer : writing[w] # NoWrite /\ writing[w].doc = d }
InFlight(d) == { writing[w].content : w \in Writes(d) }
DocsOf(t) == { d \in Doc : TenantOf[d] = t }

TypeOK ==
  /\ env \in Environments
  /\ store \in [Replica -> [Doc -> Content]]
  /\ disk \in [Replica -> [Doc -> Content]]
  /\ failed \in [Tenant -> SUBSET Replica]
  /\ listed \in SUBSET Doc
  /\ count \in [Tenant -> Nat]
  /\ writing \in [Writer -> Write \cup {NoWrite}]
  /\ reading \in [Reader -> [Doc -> Replica \cup {NoReplica}]]
  /\ acked \in [Doc -> Content]
  /\ maybe \in [Doc -> SUBSET Content]
  /\ fresh \in [Reader -> [Doc -> SUBSET Content]]
  /\ spent \in [writes : 0 .. env.writes, failures : 0 .. env.failures, restarts : 0 .. env.restarts]

Init ==
  /\ env \in Environments
  /\ store = [r \in Replica |-> [d \in Doc |-> Absent]]
  /\ disk = store
  /\ failed = [t \in Tenant |-> {}]
  /\ listed = {}
  /\ count = [t \in Tenant |-> 0]
  /\ writing = [w \in Writer |-> NoWrite]
  /\ reading = [q \in Reader |-> [d \in Doc |-> NoReplica]]
  /\ acked = [d \in Doc |-> Absent]
  /\ maybe = [d \in Doc |-> {}]
  /\ fresh = [q \in Reader |-> [d \in Doc |-> {}]]
  /\ spent = [writes |-> 0, failures |-> 0, restarts |-> 0]
--------------------------------------------------------------------------------
(* Colony.write; a delete is a write of null. *)

\* Mutant: the quota counts the documents the write would add to.
QuotaReachedLate(d) == d \notin listed /\ count[TenantOf[d]] > env.quota

QuotaReached(d) == d \notin listed /\ count[TenantOf[d]] >= env.quota

\* Mutant: a delete counts down whether or not there was a document.
CountedBlindly(d, content) ==
  [count EXCEPT ![TenantOf[d]] =
     CASE content = Absent -> @ - 1
       [] content # Absent /\ d \notin listed -> @ + 1
       [] OTHER -> @]

\* Mutant: the document is counted whether or not it was in the index.
CountedTwice(d, content) ==
  [count EXCEPT ![TenantOf[d]] =
     CASE content = Absent /\ d \in listed -> @ - 1
       [] content # Absent -> @ + 1
       [] OTHER -> @]

(* _addToIndex and _removeFromIndex count only what changes the index.      *)
Counted(d, content) ==
  [count EXCEPT ![TenantOf[d]] =
     CASE content = Absent /\ d \in listed -> @ - 1
       [] content # Absent /\ d \notin listed -> @ + 1
       [] OTHER -> @]

\* Mutant: a delete leaves the document in the index.
AcknowledgeListed(d, content) ==
  /\ listed' = listed \cup {d}
  /\ UNCHANGED count
  /\ acked' = [acked EXCEPT ![d] = content]
  /\ maybe' = [maybe EXCEPT ![d] = {}]

Acknowledge(d, content) ==
  /\ listed' = IF content = Absent THEN listed \ {d} ELSE listed \cup {d}
  /\ count' = Counted(d, content)
  /\ acked' = [acked EXCEPT ![d] = content]
  /\ maybe' = [maybe EXCEPT ![d] = {}]

(* A write the quota refuses changes nothing. *)
StartWrite(w, d, content) ==
  /\ writing[w] = NoWrite /\ spent.writes < env.writes
  /\ Writes(d) = {} \/ "overlap" \in env.faults
  /\ content # Absent => ~QuotaReached(d)
  /\ fresh' = [q \in Reader |-> [fresh[q] EXCEPT ![d] =
                 IF reading[q][d] = NoReplica THEN @ ELSE @ \cup {content}]]
  /\ spent' = [spent EXCEPT !.writes = @ + 1]
  /\ \/ /\ Targets(d) # {}
        /\ writing' = [writing EXCEPT ![w] =
             [doc |-> d, content |-> content, pending |-> Targets(d), intact |-> TRUE]]
        /\ UNCHANGED <<index, acked, maybe>>
     \/ /\ Targets(d) = {}
        /\ Acknowledge(d, content)
        /\ UNCHANGED writing
  /\ UNCHANGED <<env, data, failed, reading>>

\* Mutant: the client is answered when the first replica is done.
AnswerDueAtOnce(this) == this.intact

AnswerDue(this) == this.intact /\ this.pending = {}

(* One replica of a write in flight is done, well or not.  The client is    *)
(* answered when all are, or with an error as soon as one is not.           *)
Proceed(w, r, ok) ==
  LET this == [writing[w] EXCEPT !.pending = @ \ {r}, !.intact = @ /\ ok]
  IN  /\ writing' = [writing EXCEPT ![w] = IF this.pending = {} THEN NoWrite ELSE this]
      /\ IF AnswerDue(this) THEN Acknowledge(this.doc, this.content)
         ELSE /\ maybe' = [maybe EXCEPT ![this.doc] =
                             IF this.intact THEN @ ELSE @ \cup {this.content}]
              /\ UNCHANGED <<index, acked>>

Put(contents, r, d, content) == [contents EXCEPT ![r][d] = content]

(* Replica.write, after its sleep: the store, then the log. *)
WriteReplica(w, r) ==
  /\ writing[w] # NoWrite /\ r \in writing[w].pending
  /\ store' = Put(store, r, writing[w].doc, writing[w].content)
  /\ disk' = Put(disk, r, writing[w].doc, writing[w].content)
  /\ Proceed(w, r, TRUE)
  /\ UNCHANGED <<env, failed, reading, fresh, spent>>

AppendFails(w, r) ==
  /\ "full_disk" \in env.faults
  /\ writing[w] # NoWrite /\ r \in writing[w].pending
  /\ store' = Put(store, r, writing[w].doc, writing[w].content)
  /\ Proceed(w, r, FALSE)
  /\ UNCHANGED <<env, disk, failed, reading, fresh, spent>>
--------------------------------------------------------------------------------
(* Colony.read: replicas that are down fail at once, in the same turn, so   *)
(* the read sleeps for one that is up, or is refused when none is.  A list  *)
(* is a read of each document in the index, at once.                        *)

StartRead(q, docs) ==
  /\ reading[q] = [d \in Doc |-> NoReplica]
  /\ LET served == { d \in docs : Targets(d) # {} }
     IN  /\ \E chosen \in [served -> Replica] :
              /\ \A d \in served : chosen[d] \in Targets(d)
              /\ reading' = [reading EXCEPT ![q] =
                   [d \in Doc |-> IF d \in served THEN chosen[d] ELSE NoReplica]]
         /\ fresh' = [fresh EXCEPT ![q] = [d \in Doc |->
              IF d \in served THEN {acked[d]} \cup maybe[d] \cup InFlight(d) ELSE {}]]
  /\ UNCHANGED <<env, data, failed, index, writing, acked, maybe, spent>>

Read(q, d) == StartRead(q, {d})
List(q, t) == StartRead(q, listed \cap DocsOf(t))

EndRead(q, d) ==
  /\ reading[q][d] # NoReplica
  /\ reading' = [reading EXCEPT ![q][d] = NoReplica]
  /\ fresh' = [fresh EXCEPT ![q][d] = {}]
  /\ UNCHANGED <<env, data, failed, index, writing, acked, maybe, spent>>
--------------------------------------------------------------------------------
(* Colony.failReplica and healReplica. *)

Siblings(t, r) == { s \in UpFor(t) : s[1] = r[1] /\ s # r }

FailReplica(t, r) ==
  /\ r \notin failed[t] /\ spent.failures < env.failures
  /\ Siblings(t, r) # {} \/ "blackout" \in env.faults
  /\ failed' = [failed EXCEPT ![t] = @ \cup {r}]
  /\ spent' = [spent EXCEPT !.failures = @ + 1]
  /\ UNCHANGED <<env, data, index, writing, reading, ghosts>>

\* Mutant: documents of every tenant are copied.
SyncedAll(contents, t, r, s) ==
  [contents EXCEPT ![r] = [d \in Doc |-> IF store[r][d] # store[s][d] THEN store[s][d] ELSE @[d]]]
\* Mutant: documents that the sibling does not have are kept.
SyncedPresent(contents, t, r, s) ==
  [contents EXCEPT ![r] = [d \in Doc |->
     IF TenantOf[d] = t /\ store[s][d] # Absent THEN store[s][d] ELSE @[d]]]

(* syncPrefixFrom writes and logs the tenant's documents that differ in     *)
(* memory, the ones the sibling no longer has included.                     *)
SyncedPrefix(contents, t, r, s) ==
  [contents EXCEPT ![r] = [d \in Doc |->
     IF TenantOf[d] = t /\ store[r][d] # store[s][d] THEN store[s][d] ELSE @[d]]]

\* Mutant: the resync is not logged.
Unlogged(contents, t, r, s) == contents

Logged(contents, t, r, s) == SyncedPrefix(contents, t, r, s)

HealReplica(t, r) ==
  /\ \/ \A d \in DocsOf(t) : ShardOf[d] = r[1] => Writes(d) = {}
     \/ "early_heal" \in env.faults
  /\ failed' = [failed EXCEPT ![t] = @ \ {r}]
  /\ \/ /\ Siblings(t, r) = {}
        /\ UNCHANGED data
     \/ \E s \in Siblings(t, r) :
          /\ \A other \in Siblings(t, r) : s[2] =< other[2]
          /\ store' = SyncedPrefix(store, t, r, s)
          /\ disk' = Logged(disk, t, r, s)
  /\ UNCHANGED <<env, index, writing, reading, ghosts, spent>>
--------------------------------------------------------------------------------
Representative(s) == <<s, 1>>

(* The process stops and starts again: the constructors replay the logs,    *)
(* the index comes from each shard's first replica, and failures, requests  *)
(* in flight and counts are gone.                                           *)
Restart ==
  /\ spent.restarts < env.restarts
  /\ (\A t \in Tenant : failed[t] = {}) \/ "degraded_restart" \in env.faults
  /\ store' = disk
  /\ failed' = [t \in Tenant |-> {}]
  /\ listed' = { d \in Doc : disk[Representative(ShardOf[d])][d] # Absent }
  /\ count' = [t \in Tenant |-> Cardinality(listed' \cap DocsOf(t))]
  /\ writing' = [w \in Writer |-> NoWrite]
  /\ reading' = [q \in Reader |-> [d \in Doc |-> NoReplica]]
  /\ fresh' = [q \in Reader |-> [d \in Doc |-> {}]]
  /\ maybe' = [d \in Doc |-> maybe[d] \cup InFlight(d)]
  /\ spent' = [spent EXCEPT !.restarts = @ + 1]
  /\ UNCHANGED <<env, disk, acked>>

(* The tenants whose documents are used. *)
Clients == { TenantOf[d] : d \in env.docs }

Next ==
  \/ \E w \in Writer, d \in env.docs, content \in Content : StartWrite(w, d, content)
  \/ \E w \in Writer, r \in Replica : WriteReplica(w, r) \/ AppendFails(w, r)
  \/ \E q \in Reader : \/ \E d \in env.docs : Read(q, d) \/ EndRead(q, d)
                       \/ \E t \in Clients : List(q, t)
  \/ \E t \in Clients, r \in Replica : FailReplica(t, r) \/ HealReplica(t, r)
  \/ Restart

Spec == Init /\ [][Next]_vars
================================================================================
