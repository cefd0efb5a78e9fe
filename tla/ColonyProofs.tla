----------------------------- MODULE ColonyProofs -----------------------------
(***************************************************************************)
(* Proofs about Colony, for any number of shards, replicas, documents,      *)
(* tenants and requests and for every environment: types, the count that    *)
(* the quota is tested against and how far it can pass it, the isolation of *)
(* tenants, and what replicas, reads, logs and the index hold (Replicated). *)
(***************************************************************************)
EXTENDS ColonyProperties, FiniteSetTheorems, TLAPS

Accounts == TypeOK /\ CountIsIndex

LEMMA DocsAreFinite ==
  ASSUME NEW t, NEW S
  PROVE  IsFiniteSet(S \cap DocsOf(t)) /\ Cardinality(S \cap DocsOf(t)) \in Nat
<1>1. DocsOf(t) \in SUBSET Doc
  BY DEF DocsOf
<1>2. IsFiniteSet(DocsOf(t))
  BY <1>1, FS_Subset, ColonyAssumption
<1>3. IsFiniteSet(S \cap DocsOf(t))
  BY <1>2, FS_Intersection
<1> QED
  BY <1>3, FS_CardinalityType

LEMMA TargetsAreReplicas ==
  \A d : Targets(d) \subseteq Replica
BY DEF Targets, ReplicasOf

(* _addToIndex and _removeFromIndex keep the count in step with the index.  *)
LEMMA AcknowledgeCounts ==
  ASSUME Accounts, NEW d \in Doc, NEW content \in Content, Acknowledge(d, content)
  PROVE  /\ listed' \in SUBSET Doc
         /\ count' \in [Tenant -> Nat]
         /\ acked' \in [Doc -> Content]
         /\ maybe' \in [Doc -> SUBSET Content]
         /\ CountIsIndex'
<1> DEFINE mine(t) == listed \cap DocsOf(t)
<1>1. /\ listed \in SUBSET Doc /\ count \in [Tenant -> Nat]
      /\ acked \in [Doc -> Content] /\ maybe \in [Doc -> SUBSET Content]
      /\ \A t \in Tenant : count[t] = Cardinality(mine(t))
      /\ TenantOf[d] \in Tenant
  BY ColonyAssumption DEF Accounts, TypeOK, CountIsIndex
<1>2. listed' \in SUBSET Doc /\ acked' \in [Doc -> Content] /\ maybe' \in [Doc -> SUBSET Content]
  BY <1>1 DEF Acknowledge
<1>3. ASSUME NEW t \in Tenant
      PROVE  count'[t] = Cardinality(listed' \cap DocsOf(t)) /\ count'[t] \in Nat
  <2>1. IsFiniteSet(mine(t)) /\ Cardinality(listed' \cap DocsOf(t)) \in Nat
    BY DocsAreFinite
  <2>2. CASE t # TenantOf[d]
    <3>1. d \notin DocsOf(t)
      BY <2>2 DEF DocsOf
    <3>2. listed' \cap DocsOf(t) = mine(t)
      BY <3>1 DEF Acknowledge
    <3>3. count'[t] = count[t]
      BY <1>1, <2>2 DEF Acknowledge, Counted
    <3> QED
      BY <3>2, <3>3, <1>1, <2>1
  <2>3. CASE t = TenantOf[d] /\ content = Absent
    <3>1. listed' \cap DocsOf(t) = mine(t) \ {d}
      BY <2>3 DEF Acknowledge
    <3>2. d \in mine(t) <=> d \in listed
      BY <2>3 DEF DocsOf
    <3>3. count'[t] = IF d \in listed THEN count[t] - 1 ELSE count[t]
      BY <1>1, <2>3 DEF Acknowledge, Counted
    <3>4. Cardinality(mine(t) \ {d}) =
            IF d \in mine(t) THEN Cardinality(mine(t)) - 1 ELSE Cardinality(mine(t))
      BY <2>1, FS_RemoveElement
    <3> QED
      BY <3>1, <3>2, <3>3, <3>4, <1>1, <2>1
  <2>4. CASE t = TenantOf[d] /\ content # Absent
    <3>1. listed' \cap DocsOf(t) = mine(t) \cup {d}
      BY <2>4 DEF Acknowledge, DocsOf
    <3>2. d \in mine(t) <=> d \in listed
      BY <2>4 DEF DocsOf
    <3>3. count'[t] = IF d \in listed THEN count[t] ELSE count[t] + 1
      BY <1>1, <2>4 DEF Acknowledge, Counted
    <3>4. Cardinality(mine(t) \cup {d}) =
            IF d \in mine(t) THEN Cardinality(mine(t)) ELSE Cardinality(mine(t)) + 1
      BY <2>1, FS_AddElement
    <3> QED
      BY <3>1, <3>2, <3>3, <3>4, <1>1, <2>1
  <2> QED
    BY <2>2, <2>3, <2>4
<1>4. count' = [t \in Tenant |-> count'[t]]
  BY <1>1 DEF Acknowledge, Counted
<1>5. count' \in [Tenant -> Nat]
  BY <1>3, <1>4
<1> QED
  BY <1>2, <1>3, <1>5 DEF CountIsIndex

(* What was spent is within the environment's bounds, and stays there. *)
LEMMA Spending ==
  ASSUME Accounts, env' = env,
         \/ spent.writes < env.writes /\ spent' = [spent EXCEPT !.writes = @ + 1]
         \/ spent.failures < env.failures /\ spent' = [spent EXCEPT !.failures = @ + 1]
         \/ spent.restarts < env.restarts /\ spent' = [spent EXCEPT !.restarts = @ + 1]
  PROVE  spent' \in [writes : 0 .. env'.writes, failures : 0 .. env'.failures,
                     restarts : 0 .. env'.restarts]
<1>1. env.writes \in Nat /\ env.failures \in Nat /\ env.restarts \in Nat
  BY ColonyAssumption DEF Accounts, TypeOK, Environment
<1> DEFINE W == env.writes
           F == env.failures
           R == env.restarts
<1>2. spent \in [writes : 0 .. W, failures : 0 .. F, restarts : 0 .. R]
  BY DEF Accounts, TypeOK
<1>3. W \in Nat /\ F \in Nat /\ R \in Nat
  BY <1>1
<1>4. \/ spent.writes < W /\ spent' = [spent EXCEPT !.writes = @ + 1]
      \/ spent.failures < F /\ spent' = [spent EXCEPT !.failures = @ + 1]
      \/ spent.restarts < R /\ spent' = [spent EXCEPT !.restarts = @ + 1]
  OBVIOUS
<1>5. env'.writes = W /\ env'.failures = F /\ env'.restarts = R
  OBVIOUS
<1> HIDE DEF W, F, R
<1>6. spent' \in [writes : 0 .. W, failures : 0 .. F, restarts : 0 .. R]
  BY <1>2, <1>3, <1>4
<1> QED
  BY <1>5, <1>6

(* What a step leaves alone when it does not acknowledge a write. *)
LEMMA IndexUnchanged ==
  ASSUME Accounts, UNCHANGED index
  PROVE  listed' \in SUBSET Doc /\ count' \in [Tenant -> Nat] /\ CountIsIndex'
BY DEF Accounts, TypeOK, CountIsIndex, index

LEMMA StartWriteAccounts ==
  ASSUME Accounts, NEW w \in Writer, NEW d \in Doc, NEW content \in Content,
         StartWrite(w, d, content)
  PROVE  Accounts'
<1> USE DEF Accounts, TypeOK
<1>1. fresh' \in [Reader -> [Doc -> SUBSET Content]]
  BY DEF StartWrite
<1>2. spent' \in [writes : 0 .. env'.writes, failures : 0 .. env'.failures, restarts : 0 .. env'.restarts]
  BY Spending DEF StartWrite
<1>3. UNCHANGED <<env, data, failed, reading>>
  BY DEF StartWrite
<1>4. CASE Targets(d) # {} /\ writing' = [writing EXCEPT ![w] =
             [doc |-> d, content |-> content, pending |-> Targets(d), intact |-> TRUE]]
           /\ UNCHANGED <<index, acked, maybe>>
  <2>1. writing' \in [Writer -> Write \cup {NoWrite}]
    BY <1>4, TargetsAreReplicas DEF Write
  <2> QED
    BY <1>1, <1>2, <1>3, <1>4, <2>1, IndexUnchanged DEF data
<1>5. CASE Targets(d) = {} /\ Acknowledge(d, content) /\ UNCHANGED writing
  BY <1>1, <1>2, <1>3, <1>5, AcknowledgeCounts DEF data
<1> QED
  BY <1>4, <1>5 DEF StartWrite

(* The part of a replica's write that is about the request and the index.   *)
LEMMA ProceedAccounts ==
  ASSUME Accounts, NEW w \in Writer, NEW r \in Replica, NEW ok \in BOOLEAN,
         writing[w] # NoWrite, Proceed(w, r, ok)
  PROVE  /\ writing[w] \in Write
         /\ writing' \in [Writer -> Write \cup {NoWrite}]
         /\ listed' \in SUBSET Doc /\ count' \in [Tenant -> Nat] /\ CountIsIndex'
         /\ acked' \in [Doc -> Content] /\ maybe' \in [Doc -> SUBSET Content]
<1> DEFINE this == [writing[w] EXCEPT !.pending = @ \ {r}, !.intact = @ /\ ok]
<1>1. writing[w] \in Write /\ writing \in [Writer -> Write \cup {NoWrite}]
  BY DEF Accounts, TypeOK
<1>2. /\ this \in Write
      /\ this.doc \in Doc /\ this.content \in Content /\ this.intact \in BOOLEAN
  BY <1>1 DEF Write
<1>3. writing' \in [Writer -> Write \cup {NoWrite}]
  BY <1>1, <1>2 DEF Proceed
<1>4. CASE AnswerDue(this)
  <2>1. Acknowledge(this.doc, this.content)
    BY <1>4 DEF Proceed
  <2> HIDE DEF this
  <2> QED
    BY <1>1, <1>2, <1>3, <2>1, AcknowledgeCounts
<1>5. CASE ~AnswerDue(this)
  <2>1. /\ UNCHANGED <<index, acked>>
        /\ maybe' = [maybe EXCEPT ![this.doc] =
                       IF this.intact THEN @ ELSE @ \cup {this.content}]
    BY <1>5 DEF Proceed
  <2> HIDE DEF this
  <2>2. maybe' \in [Doc -> SUBSET Content] /\ acked' \in [Doc -> Content]
    BY <1>2, <2>1 DEF Accounts, TypeOK
  <2> QED
    BY <1>1, <1>3, <2>1, <2>2, IndexUnchanged
<1> QED
  BY <1>4, <1>5

LEMMA PutTyped ==
  ASSUME NEW contents \in [Replica -> [Doc -> Content]], NEW r \in Replica,
         NEW this \in Write
  PROVE  Put(contents, r, this.doc, this.content) \in [Replica -> [Doc -> Content]]
BY DEF Put, Write

LEMMA WriteReplicaAccounts ==
  ASSUME Accounts, NEW w \in Writer, NEW r \in Replica,
         WriteReplica(w, r) \/ AppendFails(w, r)
  PROVE  Accounts'
<1>1. writing[w] # NoWrite /\ \E ok \in BOOLEAN : Proceed(w, r, ok)
  BY DEF WriteReplica, AppendFails
<1>2. /\ writing[w] \in Write
      /\ writing' \in [Writer -> Write \cup {NoWrite}]
      /\ listed' \in SUBSET Doc /\ count' \in [Tenant -> Nat] /\ CountIsIndex'
      /\ acked' \in [Doc -> Content] /\ maybe' \in [Doc -> SUBSET Content]
  BY <1>1, ProceedAccounts
<1>3. /\ Put(store, r, writing[w].doc, writing[w].content) \in [Replica -> [Doc -> Content]]
      /\ Put(disk, r, writing[w].doc, writing[w].content) \in [Replica -> [Doc -> Content]]
  BY <1>2, PutTyped DEF Accounts, TypeOK
<1>4. store' \in [Replica -> [Doc -> Content]] /\ disk' \in [Replica -> [Doc -> Content]]
  BY <1>3 DEF WriteReplica, AppendFails, Accounts, TypeOK
<1>5. UNCHANGED <<env, failed, reading, fresh, spent>>
  BY DEF WriteReplica, AppendFails
<1> QED
  BY <1>2, <1>4, <1>5 DEF Accounts, TypeOK

LEMMA StartReadAccounts ==
  ASSUME Accounts, NEW q \in Reader, NEW docs \in SUBSET Doc, StartRead(q, docs)
  PROVE  Accounts'
<1> DEFINE served == { d \in docs : Targets(d) # {} }
<1>1. UNCHANGED <<env, data, failed, index, writing, acked, maybe, spent>>
  BY DEF StartRead
<1>2. PICK chosen \in [served -> Replica] :
        reading' = [reading EXCEPT ![q] =
          [d \in Doc |-> IF d \in served THEN chosen[d] ELSE NoReplica]]
  BY DEF StartRead
<1>3. reading' \in [Reader -> [Doc -> Replica \cup {NoReplica}]]
  BY <1>2 DEF Accounts, TypeOK
<1>4. \A d \in Doc : {acked[d]} \cup maybe[d] \cup InFlight(d) \in SUBSET Content
  BY DEF Accounts, TypeOK, InFlight, Writes, Write
<1>5. fresh' = [fresh EXCEPT ![q] = [d \in Doc |->
        IF d \in served THEN {acked[d]} \cup maybe[d] \cup InFlight(d) ELSE {}]]
  BY DEF StartRead
<1>6. fresh' \in [Reader -> [Doc -> SUBSET Content]]
  BY <1>4, <1>5 DEF Accounts, TypeOK
<1> QED
  BY <1>1, <1>3, <1>6, IndexUnchanged DEF Accounts, TypeOK, data

LEMMA EndReadAccounts ==
  ASSUME Accounts, NEW q \in Reader, NEW d \in Doc, EndRead(q, d)
  PROVE  Accounts'
BY IndexUnchanged DEF EndRead, Accounts, TypeOK, data, index

LEMMA FailReplicaAccounts ==
  ASSUME Accounts, NEW t \in Tenant, NEW r \in Replica, FailReplica(t, r)
  PROVE  Accounts'
<1>2. spent' \in [writes : 0 .. env'.writes, failures : 0 .. env'.failures, restarts : 0 .. env'.restarts]
  BY Spending DEF FailReplica
<1>3. failed' \in [Tenant -> SUBSET Replica]
  BY DEF FailReplica, Accounts, TypeOK
<1>4. UNCHANGED <<env, data, index, writing, reading, ghosts>>
  BY DEF FailReplica
<1> QED
  BY <1>2, <1>3, <1>4, IndexUnchanged DEF Accounts, TypeOK, data, ghosts

LEMMA SyncTyped ==
  ASSUME Accounts, NEW contents \in [Replica -> [Doc -> Content]],
         NEW t \in Tenant, NEW r \in Replica, NEW s \in Replica
  PROVE  SyncedPrefix(contents, t, r, s) \in [Replica -> [Doc -> Content]]
BY DEF SyncedPrefix, Accounts, TypeOK

LEMMA HealReplicaAccounts ==
  ASSUME Accounts, NEW t \in Tenant, NEW r \in Replica, HealReplica(t, r)
  PROVE  Accounts'
<1>1. store \in [Replica -> [Doc -> Content]] /\ disk \in [Replica -> [Doc -> Content]]
  BY DEF Accounts, TypeOK
<1>2. Siblings(t, r) \subseteq Replica
  BY DEF Siblings, UpFor
<1>3. store' \in [Replica -> [Doc -> Content]] /\ disk' \in [Replica -> [Doc -> Content]]
  <2>1. CASE UNCHANGED data
    BY <1>1, <2>1 DEF data
  <2>2. ASSUME NEW s \in Siblings(t, r),
               store' = SyncedPrefix(store, t, r, s), disk' = Logged(disk, t, r, s)
        PROVE  store' \in [Replica -> [Doc -> Content]] /\ disk' \in [Replica -> [Doc -> Content]]
    BY <1>1, <1>2, <2>2, SyncTyped DEF Logged
  <2> QED
    BY <2>1, <2>2 DEF HealReplica
<1>4. failed' \in [Tenant -> SUBSET Replica]
  BY DEF HealReplica, Accounts, TypeOK
<1>5. UNCHANGED <<env, index, writing, reading, ghosts, spent>>
  BY DEF HealReplica
<1> QED
  BY <1>3, <1>4, <1>5, IndexUnchanged DEF Accounts, TypeOK, ghosts

LEMMA RestartAccounts ==
  ASSUME Accounts, Restart
  PROVE  Accounts'
<1>2. spent' \in [writes : 0 .. env'.writes, failures : 0 .. env'.failures, restarts : 0 .. env'.restarts]
  BY Spending DEF Restart
<1>3. \A d \in Doc : maybe[d] \cup InFlight(d) \in SUBSET Content
  BY DEF Accounts, TypeOK, InFlight, Writes, Write
<1>4. count' \in [Tenant -> Nat] /\ CountIsIndex'
  BY DocsAreFinite DEF Restart, CountIsIndex
<1>5. listed' \in SUBSET Doc
  BY DEF Restart
<1> QED
  BY <1>2, <1>3, <1>4, <1>5 DEF Restart, Accounts, TypeOK

LEMMA InitAccounts == Init => Accounts
<1> SUFFICES ASSUME Init PROVE Accounts
  OBVIOUS
<1>1. TypeOK
  BY ColonyAssumption DEF Init, TypeOK, Content, Environment
<1>2. \A t \in Tenant : listed \cap DocsOf(t) = {}
  BY DEF Init
<1>3. CountIsIndex
  BY <1>2, FS_EmptySet DEF Init, CountIsIndex
<1> QED
  BY <1>1, <1>3 DEF Accounts

LEMMA EnvironmentDocs ==
  ASSUME Accounts
  PROVE  env.docs \subseteq Doc /\ Clients \subseteq Tenant
BY ColonyAssumption DEF Accounts, TypeOK, Environment, Clients

LEMMA NextAccounts ==
  ASSUME Accounts, [Next]_vars
  PROVE  Accounts'
<1>1. ASSUME NEW w \in Writer, NEW d \in env.docs, NEW content \in Content,
             StartWrite(w, d, content)
      PROVE  Accounts'
  BY <1>1, StartWriteAccounts, EnvironmentDocs
<1>2. ASSUME NEW w \in Writer, NEW r \in Replica, WriteReplica(w, r) \/ AppendFails(w, r)
      PROVE  Accounts'
  BY <1>2, WriteReplicaAccounts
<1>3. ASSUME NEW q \in Reader, NEW d \in env.docs, Read(q, d) \/ EndRead(q, d)
      PROVE  Accounts'
  BY <1>3, StartReadAccounts, EndReadAccounts, EnvironmentDocs DEF Read
<1>4. ASSUME NEW q \in Reader, NEW t \in Clients, List(q, t)
      PROVE  Accounts'
  <2>1. listed \cap DocsOf(t) \in SUBSET Doc
    BY DEF DocsOf
  <2> QED
    BY <1>4, <2>1, StartReadAccounts DEF List
<1>5. ASSUME NEW t \in Clients, NEW r \in Replica, FailReplica(t, r) \/ HealReplica(t, r)
      PROVE  Accounts'
  BY <1>5, FailReplicaAccounts, HealReplicaAccounts, EnvironmentDocs
<1>6. CASE Restart
  BY <1>6, RestartAccounts
<1>7. CASE UNCHANGED vars
  BY <1>7 DEF Accounts, TypeOK, CountIsIndex, vars, data, index, ghosts
<1> QED
  BY <1>1, <1>2, <1>3, <1>4, <1>5, <1>6, <1>7 DEF Next

(* Types and the count are kept together: a count is a natural number only  *)
(* because it is the size of the index.                                     *)
THEOREM ColonyAccounts == Spec => []Accounts
<1>1. Accounts /\ [Next]_vars => Accounts'
  BY NextAccounts
<1> QED
  BY InitAccounts, <1>1, PTL DEF Spec

(* Every variable keeps its type, in every environment. *)
THEOREM ColonyTypeCorrect == Spec => []TypeOK
<1>1. Accounts => TypeOK
  BY DEF Accounts
<1> QED
  BY ColonyAccounts, <1>1, PTL

(* The count that the quota is tested against is the number of documents in *)
(* the index, whatever happens to the program.                              *)
THEOREM ColonyCountIsIndex == Spec => []CountIsIndex
<1>1. Accounts => CountIsIndex
  BY DEF Accounts
<1> QED
  BY ColonyAccounts, <1>1, PTL

(* A document changes in a replica, and what may allow it: TenantsIsolated. *)
DocChanged(r, d) == store'[r][d] # store[r][d]
Excused(r, d) ==
  \/ \E w \in Writes(d) : r \in writing[w].pending
  \/ spent'.restarts > spent.restarts
  \/ HealReplica(TenantOf[d], r)

LEMMA StepIsolates ==
  ASSUME TypeOK, [Next]_vars, NEW r \in Replica, NEW d \in Doc, DocChanged(r, d)
  PROVE  Excused(r, d)
<1>1. store \in [Replica -> [Doc -> Content]] /\ TenantOf[d] \in Tenant
  BY ColonyAssumption DEF TypeOK
<1>2. ASSUME NEW w \in Writer, NEW s \in Replica, WriteReplica(w, s) \/ AppendFails(w, s)
      PROVE  Excused(r, d)
  <2>1. /\ writing[w] # NoWrite /\ s \in writing[w].pending
        /\ store' = Put(store, s, writing[w].doc, writing[w].content)
    BY <1>2 DEF WriteReplica, AppendFails
  <2>2. r = s /\ d = writing[w].doc
    BY <1>1, <2>1 DEF Put, DocChanged
  <2> QED
    BY <2>1, <2>2 DEF Excused, Writes
<1>3. ASSUME NEW t \in Tenant, NEW s \in Replica, HealReplica(t, s)
      PROVE  Excused(r, d)
  <2>1. PICK sibling \in Siblings(t, s) : store' = SyncedPrefix(store, t, s, sibling)
    BY <1>3 DEF HealReplica, data, DocChanged
  <2>2. r = s /\ TenantOf[d] = t
    BY <1>1, <2>1 DEF SyncedPrefix, DocChanged
  <2> QED
    BY <1>3, <2>2 DEF Excused
<1>4. CASE Restart
  <2>1. env.restarts \in Nat
    BY ColonyAssumption DEF TypeOK, Environment
  <2>2. spent.restarts \in Nat /\ spent'.restarts = spent.restarts + 1
    BY <1>4, <2>1 DEF Restart, TypeOK
  <2> QED
    BY <2>2 DEF Excused
<1>5. ASSUME store' = store
      PROVE  FALSE
  BY <1>5 DEF DocChanged
<1>6. ASSUME NEW w \in Writer, NEW doc \in env.docs, NEW content \in Content,
             StartWrite(w, doc, content)
      PROVE  FALSE
  BY <1>5, <1>6 DEF StartWrite, data
<1>7. ASSUME NEW q \in Reader,
             \/ \E doc \in env.docs : Read(q, doc) \/ EndRead(q, doc)
             \/ \E t \in Clients : List(q, t)
      PROVE  FALSE
  BY <1>5, <1>7 DEF Read, List, StartRead, EndRead, data
<1>8. ASSUME NEW t \in Tenant, NEW s \in Replica, FailReplica(t, s)
      PROVE  FALSE
  BY <1>5, <1>8 DEF FailReplica, data
<1>9. Clients \subseteq Tenant
  BY ColonyAssumption DEF TypeOK, Environment, Clients
<1>10. CASE UNCHANGED vars
  BY <1>5, <1>10 DEF vars, data
<1> QED
  BY <1>2, <1>3, <1>4, <1>6, <1>7, <1>8, <1>9, <1>10 DEF Next

(* Tenants are isolated, whatever the environment does: a document changes  *)
(* in a replica only through its own tenant's write or heal, or a restart.  *)
THEOREM ColonyTenantsIsolated == Spec => TenantsIsolated
<1>1. TypeOK /\ [Next]_vars =>
        \A r \in Replica, d \in Doc : store'[r][d] # store[r][d] =>
          \/ \E w \in Writes(d) : r \in writing[w].pending
          \/ spent'.restarts > spent.restarts
          \/ HealReplica(TenantOf[d], r)
  BY StepIsolates DEF DocChanged, Excused
<1> QED
  BY ColonyTypeCorrect, <1>1, PTL DEF Spec, TenantsIsolated

--------------------------------------------------------------------------------
(* What a replica that is up may hold of a document, what a read may find,  *)
(* and what the index says of it.                                           *)

Possible(d) == {acked[d]} \cup maybe[d] \cup InFlight(d)

OneWrite ==
  "overlap" \notin env.faults =>
    \A w, x \in Writer :
      writing[w] # NoWrite /\ writing[x] # NoWrite /\ writing[w].doc = writing[x].doc => w = x

OneUp ==
  "blackout" \notin env.faults => \A t \in Tenant, r \in Replica : \E s \in UpFor(t) : s[1] = r[1]

AllLogged == "full_disk" \notin env.faults => disk = store

UpPossible ==
  Tolerable => \A d \in Doc : \A r \in Targets(d) : store[r][d] \in Possible(d)

(* A replica that is up, and which a write has passed or left out *)
Passed ==
  Tolerable => \A w \in Writer :
    writing[w] # NoWrite =>
      \A r \in Targets(writing[w].doc) \ writing[w].pending :
        store[r][writing[w].doc] = writing[w].content

ReadsPossible ==
  Tolerable => \A q \in Reader, d \in Doc :
    reading[q][d] # NoReplica =>
      /\ reading[q][d] \in ReplicasOf(d)
      /\ InFlight(d) \subseteq fresh[q][d]
      /\ \A r \in Targets(d) \cup {reading[q][d]} : store[r][d] \in fresh[q][d]

Indexed ==
  env.faults = {} \/ spent.restarts = 0 =>
    \A d \in Doc : maybe[d] = {} => (d \in listed <=> acked[d] # Absent)

Replicated ==
  OneWrite /\ OneUp /\ AllLogged /\ UpPossible /\ Passed /\ ReadsPossible /\ Indexed

(* The tenant's documents that are in the index or that a write in flight   *)
(* may put there.                                                           *)
Wanted(t) == { d \in DocsOf(t) : \E w \in Writes(d) : writing[w].content # Absent }
Owed(t) == (listed \cap DocsOf(t)) \cup Wanted(t)

QuotaKept ==
  spent.restarts = 0 => \A t \in Tenant : Cardinality(Owed(t)) < env.quota + Cardinality(Writer)

LEMMA EnvironmentKept ==
  ASSUME Accounts, [Next]_vars
  PROVE  /\ env' = env
         /\ spent.restarts \in Nat /\ spent'.restarts \in Nat
         /\ IF Restart THEN spent'.restarts = spent.restarts + 1
                       ELSE spent'.restarts = spent.restarts
         /\ Tolerable' => Tolerable
<1>1. env' = env
  BY DEF Next, StartWrite, WriteReplica, AppendFails, Read, List, StartRead, EndRead, FailReplica,
         HealReplica, Restart, vars
<1>2. env.restarts \in Nat /\ spent.restarts \in 0 .. env.restarts
      /\ spent \in [writes : 0 .. env.writes, failures : 0 .. env.failures, restarts : 0 .. env.restarts]
  BY ColonyAssumption DEF Accounts, TypeOK, Environment
<1>3. \/ UNCHANGED spent
      \/ spent' = [spent EXCEPT !.writes = @ + 1]
      \/ spent' = [spent EXCEPT !.failures = @ + 1]
      \/ Restart
  BY DEF Next, StartWrite, WriteReplica, AppendFails, Read, List, StartRead, EndRead, FailReplica,
         HealReplica, vars
<1>4. CASE Restart
  BY <1>1, <1>2, <1>4 DEF Restart, Tolerable
<1>5. CASE ~Restart
  <2>1. spent'.restarts = spent.restarts
    BY <1>2, <1>3, <1>5
  <2> QED
    BY <1>1, <1>2, <1>5, <2>1 DEF Tolerable
<1> QED
  BY <1>4, <1>5

LEMMA ReplicatedInit == Init => Replicated
<1> SUFFICES ASSUME Init PROVE Replicated
  OBVIOUS
<1>1. OneWrite /\ AllLogged
  BY DEF Init, OneWrite, AllLogged
<1>2. OneUp
  BY DEF Init, OneUp, UpFor
<1>3. \A d \in Doc : \A r \in Targets(d) : store[r][d] = acked[d]
  BY TargetsAreReplicas DEF Init
<1>4. UpPossible /\ Passed
  BY <1>3 DEF UpPossible, Possible, Passed, Init
<1>5. ReadsPossible /\ Indexed
  BY DEF Init, ReadsPossible, Indexed
<1> QED
  BY <1>1, <1>2, <1>4, <1>5 DEF Replicated

LEMMA StartWriteReplicates ==
  ASSUME Accounts, Replicated, [Next]_vars,
         NEW w \in Writer, NEW d \in Doc, NEW content \in Content, StartWrite(w, d, content)
  PROVE  Replicated'
<1> USE DEF Replicated
<1>1. /\ UNCHANGED <<env, store, disk, failed, reading>> /\ spent'.restarts = spent.restarts
      /\ writing[w] = NoWrite
      /\ Writes(d) = {} \/ "overlap" \in env.faults
      /\ Tolerable' => Tolerable
  <2>1. spent' = [spent EXCEPT !.writes = @ + 1]
    BY DEF StartWrite
  <2>2. spent'.restarts = spent.restarts
    BY <2>1 DEF Accounts, TypeOK
  <2> QED
    BY <2>2, EnvironmentKept DEF StartWrite, data
<1>2. \A x \in Doc : Targets(x)' = Targets(x)
  BY <1>1 DEF Targets, UpFor, ReplicasOf
<1> DEFINE this == [doc |-> d, content |-> content, pending |-> Targets(d), intact |-> TRUE]
<1>3. \/ /\ writing' = [writing EXCEPT ![w] = this]
         /\ UNCHANGED <<index, acked, maybe>>
      \/ /\ Targets(d) = {} /\ Acknowledge(d, content) /\ UNCHANGED writing
  BY DEF StartWrite
<1>4. /\ \A x \in Writer \ {w} : writing'[x] = writing[x]
      /\ writing'[w] = writing[w] \/ (writing'[w] = this /\ writing'[w].doc = d
                                     /\ writing'[w].content = content /\ writing'[w].pending = Targets(d))
  <2>1. this.doc = d /\ this.content = content /\ this.pending = Targets(d)
    OBVIOUS
  <2>2. DOMAIN writing = Writer
    BY DEF Accounts, TypeOK
  <2> HIDE DEF this
  <2> QED
    BY <1>3, <2>1, <2>2
<1>5. \A x \in Doc : /\ \A c \in InFlight(x)' : c \in InFlight(x) \/ (x = d /\ c = content)
                     /\ InFlight(x) \subseteq InFlight(x)'
  BY <1>1, <1>4 DEF InFlight, Writes
<1>6. OneWrite'
  <2> SUFFICES ASSUME "overlap" \notin env.faults,
                      NEW x \in Writer, NEW y \in Writer,
                      writing'[x] # NoWrite, writing'[y] # NoWrite, writing'[x].doc = writing'[y].doc
               PROVE  x = y
    BY <1>1 DEF OneWrite
  <2>1. \A z \in Writer : writing[z] # NoWrite => writing[z].doc # d
    BY <1>1 DEF Writes
  <2> QED
    BY <1>1, <1>4, <2>1 DEF OneWrite
<1>7. OneUp' /\ AllLogged'
  BY <1>1 DEF OneUp, UpFor, AllLogged
<1>8. UpPossible'
  <2> SUFFICES ASSUME Tolerable, NEW x \in Doc, NEW r \in Targets(x)
               PROVE  store[r][x] \in Possible(x)'
    BY <1>1, <1>2 DEF UpPossible
  <2>1. store[r][x] \in Possible(x)
    BY DEF UpPossible
  <2>2. acked'[x] = acked[x] /\ maybe'[x] = maybe[x]
    <3>1. CASE UNCHANGED <<acked, maybe>>
      BY <3>1
    <3>2. CASE Targets(d) = {} /\ Acknowledge(d, content)
      BY <3>2 DEF Acknowledge, Accounts, TypeOK
    <3> QED
      BY <1>3, <3>1, <3>2
  <2> QED
    BY <1>5, <2>1, <2>2 DEF Possible
<1>9. Passed'
  <2> SUFFICES ASSUME Tolerable, NEW x \in Writer, writing'[x] # NoWrite,
                      NEW r \in (Targets(writing[x].doc) \ writing[x].pending)'
               PROVE  store[r][writing'[x].doc] = writing'[x].content
    BY <1>1 DEF Passed
  <2>1. Targets(writing[x].doc)' = Targets(writing'[x].doc)
    BY <1>1 DEF Targets, UpFor, ReplicasOf
  <2> QED
    BY <1>1, <1>4, <2>1 DEF Passed
<1>10. ReadsPossible'
  <2> SUFFICES ASSUME Tolerable, NEW q \in Reader, NEW x \in Doc, reading[q][x] # NoReplica
               PROVE  /\ reading[q][x] \in ReplicasOf(x)
                      /\ InFlight(x)' \subseteq fresh'[q][x]
                      /\ \A r \in Targets(x) \cup {reading[q][x]} : store[r][x] \in fresh'[q][x]
    BY <1>1, <1>2 DEF ReadsPossible, ReplicasOf
  <2>1. fresh'[q][x] = IF x = d THEN fresh[q][x] \cup {content} ELSE fresh[q][x]
    BY DEF StartWrite, Accounts, TypeOK
  <2> QED
    BY <1>5, <2>1 DEF ReadsPossible
<1>11. Indexed'
  <2> SUFFICES ASSUME env.faults = {} \/ spent.restarts = 0, NEW x \in Doc, maybe'[x] = {}
               PROVE  x \in listed' <=> acked'[x] # Absent
    BY <1>1 DEF Indexed
  <2>1. CASE UNCHANGED <<index, acked, maybe>>
    BY <2>1 DEF Indexed, index
  <2>2. CASE Acknowledge(d, content)
    BY <2>2 DEF Acknowledge, Indexed, Accounts, TypeOK
  <2> QED
    BY <1>3, <2>1, <2>2
<1> QED
  BY <1>6, <1>7, <1>8, <1>9, <1>10, <1>11

LEMMA WriteReplicaReplicates ==
  ASSUME Accounts, Replicated, [Next]_vars,
         NEW w \in Writer, NEW r \in Replica, WriteReplica(w, r) \/ AppendFails(w, r)
  PROVE  Replicated'
<1> USE DEF Replicated
<1>1. PICK ok \in BOOLEAN : Proceed(w, r, ok)
  BY DEF WriteReplica, AppendFails
<1>0. writing[w] # NoWrite /\ writing[w] \in Write
  BY DEF WriteReplica, AppendFails, Accounts, TypeOK
<1>7. PICK d \in Doc, v \in Content : d = writing[w].doc /\ v = writing[w].content
  BY <1>0 DEF Write
<1> DEFINE this == [writing[w] EXCEPT !.pending = @ \ {r}, !.intact = @ /\ ok]
<1>2. /\ UNCHANGED <<env, failed, reading, fresh, spent>>
      /\ writing[w] # NoWrite
      /\ store' = Put(store, r, d, v)
      /\ Tolerable' <=> Tolerable
  BY <1>7 DEF WriteReplica, AppendFails, Tolerable
<1>3. /\ this \in Write /\ this # NoWrite
      /\ this.doc = d /\ this.content = v /\ this.pending = writing[w].pending \ {r}
  <2>1. /\ this \in Write
        /\ this.doc = d /\ this.content = v /\ this.pending = writing[w].pending \ {r}
    BY <1>0, <1>7 DEF Write
  <2> HIDE DEF this
  <2> QED
    BY <2>1, RequestsAssumption
<1>4. /\ writing' = [writing EXCEPT ![w] = IF this.pending = {} THEN NoWrite ELSE this]
      /\ \/ /\ this.intact /\ this.pending = {} /\ Acknowledge(d, v)
         \/ /\ ~(this.intact /\ this.pending = {})
            /\ maybe' = [maybe EXCEPT ![d] = IF this.intact THEN @ ELSE @ \cup {v}]
            /\ UNCHANGED <<index, acked>>
  BY <1>1, <1>3, <1>7 DEF Proceed, AnswerDue
<1>5. /\ \A x \in Writer \ {w} : writing'[x] = writing[x]
      /\ writing'[w] = IF this.pending = {} THEN NoWrite ELSE this
  BY <1>4 DEF Accounts, TypeOK
<1>6. \A s \in Replica, x \in Doc : store'[s][x] = IF s = r /\ x = d THEN v ELSE store[s][x]
  BY <1>2, <1>3 DEF Put, Accounts, TypeOK
<1> HIDE DEF this
<1>8. \A x \in Doc : Targets(x)' = Targets(x) /\ Targets(x) \subseteq Replica
  BY <1>2 DEF Targets, UpFor, ReplicasOf
<1>9. /\ v \in InFlight(d)
      /\ \A x \in Doc : InFlight(x)' \subseteq InFlight(x)
      /\ \A x \in Doc \ {d} : InFlight(x)' = InFlight(x)
      /\ this.pending # {} => InFlight(d)' = InFlight(d)
  <2>1. \A x \in Doc : \A c : c \in InFlight(x) <=>
          \E y \in Writer : writing[y] # NoWrite /\ writing[y].doc = x /\ writing[y].content = c
    BY DEF InFlight, Writes
  <2>2. \A x \in Doc : \A c : c \in InFlight(x)' <=>
          \E y \in Writer : writing'[y] # NoWrite /\ writing'[y].doc = x /\ writing'[y].content = c
    BY DEF InFlight, Writes
  <2>3. v \in InFlight(d)
    BY <1>2, <1>3, <1>7, <2>1
  <2>4. \A y \in Writer : writing'[y] # NoWrite =>
          writing[y] # NoWrite /\ writing'[y].doc = writing[y].doc /\ writing'[y].content = writing[y].content
    BY <1>2, <1>3, <1>5, <1>7
  <2>5. \A x \in Doc : \A c : c \in InFlight(x)' => c \in InFlight(x)
    <3> SUFFICES ASSUME NEW x \in Doc, NEW c, c \in InFlight(x)'
                 PROVE  c \in InFlight(x)
      OBVIOUS
    <3>1. PICK y \in Writer : writing'[y] # NoWrite /\ writing'[y].doc = x /\ writing'[y].content = c
      BY <2>2
    <3> QED
      BY <2>1, <2>4, <3>1
  <2>6. ASSUME NEW x \in Doc, x # d \/ this.pending # {}, NEW c \in InFlight(x)
        PROVE  c \in InFlight(x)'
    <3>1. PICK y \in Writer : writing[y] # NoWrite /\ writing[y].doc = x /\ writing[y].content = c
      BY <2>1
    <3>2. writing'[y] # NoWrite /\ writing'[y].doc = x /\ writing'[y].content = c
      BY <1>3, <1>5, <1>7, <2>6, <3>1
    <3> QED
      BY <2>2, <3>2
  <2>7. \A x \in Doc : InFlight(x)' \subseteq InFlight(x)
    BY <2>5
  <2>8. \A x \in Doc : x # d \/ this.pending # {} => InFlight(x) \subseteq InFlight(x)'
    BY <2>6
  <2>9. \A x \in Doc : x # d \/ this.pending # {} => InFlight(x)' = InFlight(x)
    BY <2>7, <2>8
  <2> QED
    BY <1>3, <2>3, <2>7, <2>9
<1>10. "overlap" \notin env.faults =>
         InFlight(d) = {v} /\ \A x \in Writer \ {w} : writing[x] # NoWrite => writing[x].doc # d
  BY <1>2, <1>7 DEF OneWrite, InFlight, Writes
<1>11. Tolerable => "overlap" \notin env.faults
  BY DEF Tolerable
<1>12. OneWrite'
  BY <1>2, <1>3, <1>5, <1>7 DEF OneWrite
<1>13. OneUp'
  BY <1>2 DEF OneUp, UpFor
<1>14. AllLogged'
  BY <1>2, <1>7 DEF AllLogged, WriteReplica, AppendFails
<1>15. ASSUME Tolerable, this.pending = {}, NEW s \in Targets(d)
       PROVE  store'[s][d] = v
  BY <1>2, <1>3, <1>6, <1>7, <1>8, <1>15 DEF Passed
<1>16. UpPossible'
  <2> SUFFICES ASSUME Tolerable, NEW x \in Doc, NEW s \in Targets(x)
               PROVE  store'[s][x] \in Possible(x)'
    BY <1>2, <1>8 DEF UpPossible
  <2>1. store[s][x] \in Possible(x) /\ s \in Replica
    BY <1>8 DEF UpPossible
  <2>2. CASE x # d
    <3>1. acked'[x] = acked[x] /\ maybe'[x] = maybe[x]
      BY <1>3, <1>4, <2>2 DEF Acknowledge, Accounts, TypeOK
    <3> QED
      BY <1>6, <1>9, <2>1, <2>2, <3>1 DEF Possible
  <2>3. CASE x = d /\ this.pending = {} /\ Acknowledge(d, v)
    <3>1. acked'[d] = v
      BY <1>3, <2>3 DEF Acknowledge, Accounts, TypeOK
    <3> QED
      BY <1>15, <2>3, <3>1 DEF Possible
  <2>4. CASE x = d /\ this.pending = {} /\ ~this.intact
    <3>1. v \in maybe'[d]
      BY <1>3, <1>4, <2>4 DEF Accounts, TypeOK
    <3> QED
      BY <1>15, <2>4, <3>1 DEF Possible
  <2>5. CASE x = d /\ this.pending # {}
    <3>1. acked'[d] = acked[d] /\ maybe[d] \subseteq maybe'[d]
      BY <1>3, <1>4, <2>5 DEF Accounts, TypeOK
    <3>2. InFlight(d)' = InFlight(d) /\ v \in InFlight(d)
      BY <1>9, <2>5
    <3>3. store'[s][d] = v \/ store'[s][d] = store[s][d]
      BY <1>3, <1>6, <2>1
    <3> QED
      BY <2>1, <2>5, <3>1, <3>2, <3>3 DEF Possible
  <2> QED
    BY <1>4, <2>2, <2>3, <2>4, <2>5
<1>17. Passed'
  <2> SUFFICES ASSUME Tolerable, NEW x \in Writer, writing'[x] # NoWrite,
                      NEW s \in (Targets(writing[x].doc) \ writing[x].pending)'
               PROVE  store'[s][writing'[x].doc] = writing'[x].content
    BY <1>2 DEF Passed
  <2>1. CASE x = w
    <3>1. writing'[x] = this /\ s \in Targets(d) /\ s \in Replica /\ s \notin writing[w].pending \ {r}
      BY <1>3, <1>5, <1>8, <2>1
    <3>2. s # r => store[s][d] = v
      BY <1>2, <1>7, <3>1 DEF Passed
    <3> QED
      BY <1>3, <1>6, <3>1, <3>2
  <2>2. CASE x # w
    <3>1. writing'[x] = writing[x] /\ writing[x].doc # d
      BY <1>5, <1>10, <1>11, <2>2
    <3>2. writing[x].doc \in Doc
      BY <3>1 DEF Accounts, TypeOK, Write
    <3>3. s \in Targets(writing[x].doc) \ writing[x].pending /\ s \in Replica
      BY <1>2, <3>1 DEF Targets, UpFor, ReplicasOf
    <3>4. store[s][writing[x].doc] = writing[x].content
      BY <3>1, <3>3 DEF Passed
    <3> QED
      BY <1>6, <3>1, <3>2, <3>3, <3>4
  <2> QED
    BY <2>1, <2>2
<1>18. ReadsPossible'
  <2> SUFFICES ASSUME Tolerable, NEW q \in Reader, NEW x \in Doc, reading[q][x] # NoReplica
               PROVE  /\ reading[q][x] \in ReplicasOf(x)
                      /\ InFlight(x)' \subseteq fresh[q][x]
                      /\ \A s \in Targets(x) \cup {reading[q][x]} : store'[s][x] \in fresh[q][x]
    BY <1>2, <1>8 DEF ReadsPossible, ReplicasOf
  <2>1. /\ reading[q][x] \in ReplicasOf(x) /\ reading[q][x] \in Replica
        /\ InFlight(x) \subseteq fresh[q][x]
        /\ \A s \in Targets(x) \cup {reading[q][x]} : store[s][x] \in fresh[q][x]
    BY DEF ReadsPossible, ReplicasOf
  <2> QED
    BY <1>6, <1>8, <1>9, <2>1
<1>19. Indexed'
  <2> SUFFICES ASSUME env.faults = {} \/ spent.restarts = 0, NEW x \in Doc, maybe'[x] = {}
               PROVE  x \in listed' <=> acked'[x] # Absent
    BY <1>2 DEF Indexed
  <2>1. CASE Acknowledge(d, v)
    BY <1>3, <2>1 DEF Acknowledge, Indexed, Accounts, TypeOK
  <2>2. CASE maybe' = [maybe EXCEPT ![d] = IF this.intact THEN @ ELSE @ \cup {v}] /\ UNCHANGED <<index, acked>>
    <3>1. maybe[x] = {}
      BY <1>3, <2>2 DEF Accounts, TypeOK
    <3> QED
      BY <2>2, <3>1 DEF Indexed, index
  <2> QED
    BY <1>4, <2>1, <2>2
<1> QED
  BY <1>12, <1>13, <1>14, <1>16, <1>17, <1>18, <1>19

(* A read begins, or ends: it finds what is possible when it begins. *)
LEMMA ReadReplicates ==
  ASSUME Accounts, Replicated, NEW q \in Reader,
         \/ \E docs \in SUBSET Doc : StartRead(q, docs)
         \/ \E d \in Doc : EndRead(q, d)
  PROVE  Replicated'
<1> USE DEF Replicated
<1>1. /\ UNCHANGED <<env, store, disk, failed, index, writing, acked, maybe, spent>>
      /\ Tolerable' <=> Tolerable
  BY DEF StartRead, EndRead, data, Tolerable
<1>2. OneWrite' /\ OneUp' /\ AllLogged' /\ Passed' /\ Indexed'
  BY <1>1 DEF OneWrite, OneUp, AllLogged, Passed, Indexed, index, UpFor, Targets, ReplicasOf
<1>3. \A x \in Doc : /\ Targets(x)' = Targets(x) /\ Possible(x)' = Possible(x)
                     /\ InFlight(x)' = InFlight(x)
  BY <1>1 DEF Targets, UpFor, ReplicasOf, Possible, InFlight, Writes
<1>4. UpPossible'
  BY <1>1, <1>3 DEF UpPossible
<1>5. ReadsPossible'
  <2> SUFFICES ASSUME Tolerable, NEW p \in Reader, NEW x \in Doc, reading'[p][x] # NoReplica
               PROVE  /\ reading'[p][x] \in ReplicasOf(x)
                      /\ InFlight(x) \subseteq fresh'[p][x]
                      /\ \A r \in Targets(x) \cup {reading'[p][x]} : store[r][x] \in fresh'[p][x]
    BY <1>1, <1>3 DEF ReadsPossible, ReplicasOf
  <2>1. CASE reading'[p][x] = reading[p][x] /\ fresh'[p][x] = fresh[p][x]
    BY <2>1 DEF ReadsPossible
  <2>2. ASSUME reading'[p][x] \in Targets(x), fresh'[p][x] = Possible(x)
        PROVE  /\ reading'[p][x] \in ReplicasOf(x)
               /\ InFlight(x) \subseteq fresh'[p][x]
               /\ \A r \in Targets(x) \cup {reading'[p][x]} : store[r][x] \in fresh'[p][x]
    BY <2>2 DEF UpPossible, Possible, Targets
  <2>3. ASSUME NEW docs \in SUBSET Doc, StartRead(q, docs), p = q
        PROVE  reading'[p][x] \in Targets(x) /\ fresh'[p][x] = Possible(x)
    <3> DEFINE served == { d \in docs : Targets(d) # {} }
    <3>1. PICK chosen \in [served -> Replica] :
            /\ \A d \in served : chosen[d] \in Targets(d)
            /\ reading' = [reading EXCEPT ![q] =
                 [d \in Doc |-> IF d \in served THEN chosen[d] ELSE NoReplica]]
      BY <2>3 DEF StartRead
    <3>2. reading'[q][x] = IF x \in served THEN chosen[x] ELSE NoReplica
      BY <3>1 DEF Accounts, TypeOK
    <3>3. fresh'[q][x] = IF x \in served THEN Possible(x) ELSE {}
      BY <2>3 DEF StartRead, Possible, Accounts, TypeOK
    <3> QED
      BY <2>3, <3>1, <3>2, <3>3
  <2>4. ASSUME NEW docs \in SUBSET Doc, StartRead(q, docs), p # q
        PROVE  reading'[p] = reading[p] /\ fresh'[p] = fresh[p]
    BY <2>4 DEF StartRead, Accounts, TypeOK
  <2>5. ASSUME NEW d \in Doc, EndRead(q, d)
        PROVE  reading'[p][x] = reading[p][x] /\ fresh'[p][x] = fresh[p][x]
    BY <2>5 DEF EndRead, Accounts, TypeOK
  <2> QED
    BY <2>1, <2>2, <2>3, <2>4, <2>5
<1> QED
  BY <1>2, <1>4, <1>5

LEMMA FailReplicaReplicates ==
  ASSUME Accounts, Replicated, [Next]_vars,
         NEW t \in Tenant, NEW r \in Replica, FailReplica(t, r)
  PROVE  Replicated'
<1> USE DEF Replicated
<1>1. /\ UNCHANGED <<env, store, disk, index, writing, reading, acked, maybe, fresh>>
      /\ spent'.restarts = spent.restarts
      /\ failed' = [failed EXCEPT ![t] = @ \cup {r}]
  <2>1. spent' = [spent EXCEPT !.failures = @ + 1]
    BY DEF FailReplica
  <2>2. spent'.restarts = spent.restarts
    BY <2>1 DEF Accounts, TypeOK
  <2> QED
    BY <2>2 DEF FailReplica, data, ghosts
<1>2. Tolerable' <=> Tolerable
  BY <1>1 DEF Tolerable
<1>3. \A x \in Doc : /\ Possible(x)' = Possible(x) /\ InFlight(x)' = InFlight(x)
                     /\ Targets(x)' \subseteq Targets(x)
  <2>1. \A x \in Doc : Targets(x)' \subseteq Targets(x)
    BY <1>1, ColonyAssumption DEF Targets, UpFor, ReplicasOf, Accounts, TypeOK
  <2> QED
    BY <1>1, <2>1 DEF Possible, InFlight, Writes
<1>4. OneWrite' /\ AllLogged' /\ Indexed'
  BY <1>1 DEF OneWrite, AllLogged, Indexed, index
<1>5. OneUp'
  <2> SUFFICES ASSUME "blackout" \notin env.faults, NEW u \in Tenant, NEW p \in Replica
               PROVE  \E s \in UpFor(u)' : s[1] = p[1]
    BY <1>1 DEF OneUp
  <2>1. PICK s \in UpFor(u) : s[1] = p[1]
    BY DEF OneUp
  <2>2. CASE u # t \/ s # r
    <3>1. s \in UpFor(u)'
      BY <1>1, <2>2 DEF UpFor, Accounts, TypeOK
    <3> QED
      BY <2>1, <3>1
  <2>3. CASE u = t /\ s = r
    <3>1. PICK z \in Siblings(t, r) : TRUE
      BY DEF FailReplica
    <3>2. z \in UpFor(t)' /\ z[1] = r[1]
      BY <1>1, <3>1 DEF Siblings, UpFor, Accounts, TypeOK
    <3> QED
      BY <2>1, <2>3, <3>2
  <2> QED
    BY <2>2, <2>3
<1>6. UpPossible'
  BY <1>1, <1>2, <1>3 DEF UpPossible
<1>7. Passed'
  <2> SUFFICES ASSUME Tolerable, NEW w \in Writer, writing[w] # NoWrite,
                      NEW s \in Targets(writing[w].doc)', s \notin writing[w].pending
               PROVE  store[s][writing[w].doc] = writing[w].content
    BY <1>1, <1>2 DEF Passed
  <2>1. writing[w].doc \in Doc
    BY DEF Accounts, TypeOK, Write
  <2>2. s \in Targets(writing[w].doc)
    BY <1>1, <2>1, ColonyAssumption DEF Targets, UpFor, ReplicasOf, Accounts, TypeOK
  <2> QED
    BY <2>2 DEF Passed
<1>8. ReadsPossible'
  <2> SUFFICES ASSUME Tolerable, NEW q \in Reader, NEW x \in Doc, reading[q][x] # NoReplica
               PROVE  /\ reading[q][x] \in ReplicasOf(x)
                      /\ InFlight(x) \subseteq fresh[q][x]
                      /\ \A s \in Targets(x)' \cup {reading[q][x]} : store[s][x] \in fresh[q][x]
    BY <1>1, <1>2, <1>3 DEF ReadsPossible, ReplicasOf
  <2> QED
    BY <1>3 DEF ReadsPossible
<1> QED
  BY <1>4, <1>5, <1>6, <1>7, <1>8

(* A replica that is healed has what a sibling that was up has. *)
LEMMA HealReplicaReplicates ==
  ASSUME Accounts, Replicated, NEW t \in Tenant, NEW r \in Replica, HealReplica(t, r)
  PROVE  Replicated'
<1> USE DEF Replicated
<1>1. /\ UNCHANGED <<env, index, writing, reading, acked, maybe, fresh, spent>>
      /\ failed' = [failed EXCEPT ![t] = @ \ {r}]
      /\ Tolerable' <=> Tolerable
  BY DEF HealReplica, ghosts, Tolerable
<1>2. ASSUME Tolerable, NEW x \in Doc, x \in DocsOf(t), ShardOf[x] = r[1]
      PROVE  Writes(x) = {}
  BY <1>2 DEF HealReplica, Tolerable
<1>3. \A x \in Doc : Possible(x)' = Possible(x) /\ InFlight(x)' = InFlight(x)
  BY <1>1 DEF Possible, InFlight, Writes
<1>4. \A x \in Doc : \A s \in Targets(x)' :
        /\ s \in Replica /\ s[1] = ShardOf[x]
        /\ s \in Targets(x) \/ (s = r /\ s \notin Targets(x) /\ x \in DocsOf(t) /\ ShardOf[x] = r[1])
  BY <1>1, ColonyAssumption DEF Targets, UpFor, ReplicasOf, DocsOf, Accounts, TypeOK
(* the sibling's copy, or nothing changed because there is none *)
<1>5. \/ /\ UNCHANGED <<store, disk>> /\ Siblings(t, r) = {}
      \/ \E z \in Siblings(t, r) :
           /\ store' = SyncedPrefix(store, t, r, z) /\ disk' = SyncedPrefix(disk, t, r, z)
  BY DEF HealReplica, data, Logged
<1>6. ASSUME NEW z \in Siblings(t, r), store' = SyncedPrefix(store, t, r, z)
      PROVE  /\ z \in UpFor(t) /\ z \in Replica /\ z[1] = r[1]
             /\ \A s \in Replica, x \in Doc :
                  store'[s][x] = IF s = r /\ x \in DocsOf(t) THEN store[z][x] ELSE store[s][x]
  <2>1. z \in UpFor(t) /\ z \in Replica /\ z[1] = r[1]
    BY DEF Siblings, UpFor
  <2>2. \A s \in Replica, x \in Doc :
          store'[s][x] = IF s = r /\ TenantOf[x] = t THEN store[z][x] ELSE store[s][x]
    BY <1>6, <2>1 DEF SyncedPrefix, Accounts, TypeOK
  <2> QED
    BY <2>1, <2>2 DEF DocsOf
<1>7. OneWrite' /\ Indexed'
  BY <1>1 DEF OneWrite, Indexed, index
<1>8. OneUp'
  <2>1. \A u \in Tenant : UpFor(u) \subseteq UpFor(u)'
    BY <1>1 DEF UpFor, Accounts, TypeOK
  <2> QED
    BY <1>1, <2>1 DEF OneUp
<1>9. AllLogged'
  BY <1>1, <1>5 DEF AllLogged
(* what an up replica holds after the heal, one held before it *)
<1>10. ASSUME Tolerable, NEW x \in Doc, NEW s \in Targets(x)'
       PROVE  \E u \in Targets(x) : store'[s][x] = store[u][x] /\ (Writes(x) # {} => u = s)
  <2>1. s \in Replica /\ s[1] = ShardOf[x]
        /\ (s \in Targets(x) \/ (s = r /\ s \notin Targets(x) /\ x \in DocsOf(t) /\ ShardOf[x] = r[1]))
    BY <1>4
  <2>2. CASE UNCHANGED store /\ Siblings(t, r) = {}
    <3>1. s \in Targets(x)
      <4>1. SUFFICES ASSUME s = r, s \notin Targets(x), x \in DocsOf(t), ShardOf[x] = r[1]
                     PROVE  FALSE
        BY <2>1
      <4>2. PICK z \in UpFor(t) : z[1] = r[1]
        BY <1>10 DEF OneUp, Tolerable
      <4>3. r \notin UpFor(t)
        BY <4>1 DEF Targets, ReplicasOf, DocsOf, UpFor
      <4> QED
        BY <2>2, <4>2, <4>3 DEF Siblings
    <3> QED
      BY <2>2, <3>1
  <2>3. ASSUME NEW z \in Siblings(t, r), store' = SyncedPrefix(store, t, r, z)
        PROVE  \E u \in Targets(x) : store'[s][x] = store[u][x] /\ (Writes(x) # {} => u = s)
    <3>1. /\ z \in UpFor(t) /\ z \in Replica /\ z[1] = r[1]
          /\ store'[s][x] = IF s = r /\ x \in DocsOf(t) THEN store[z][x] ELSE store[s][x]
      BY <1>6, <2>1, <2>3
    <3>2. CASE s = r /\ x \in DocsOf(t)
      <4>1. ShardOf[x] = r[1] /\ Writes(x) = {}
        BY <1>2, <1>10, <2>1, <3>2
      <4>2. z \in Targets(x)
        BY <3>1, <3>2, <4>1 DEF Targets, ReplicasOf, DocsOf
      <4> QED
        BY <3>1, <3>2, <4>1, <4>2
    <3>3. CASE ~(s = r /\ x \in DocsOf(t))
      BY <2>1, <3>1, <3>3
    <3> QED
      BY <3>2, <3>3
  <2> QED
    BY <1>5, <2>2, <2>3
<1>11. UpPossible'
  <2> SUFFICES ASSUME Tolerable, NEW x \in Doc, NEW s \in Targets(x)'
               PROVE  store'[s][x] \in Possible(x)
    BY <1>1, <1>3 DEF UpPossible
  <2> QED
    BY <1>10 DEF UpPossible
<1>12. Passed'
  <2> SUFFICES ASSUME Tolerable, NEW w \in Writer, writing[w] # NoWrite, NEW x \in Doc, x = writing[w].doc,
                      NEW s \in Targets(x)', s \notin writing[w].pending
               PROVE  store'[s][x] = writing[w].content
    <3>1. \A w \in Writer : writing[w] # NoWrite => writing[w].doc \in Doc
      BY DEF Accounts, TypeOK, Write
    <3> QED
      BY <1>1, <3>1 DEF Passed
  <2>1. w \in Writes(x)
    BY DEF Writes
  <2>2. s \in Targets(x) /\ store'[s][x] = store[s][x]
    BY <1>10, <2>1
  <2> QED
    BY <2>2 DEF Passed
<1>13. ReadsPossible'
  <2> SUFFICES ASSUME Tolerable, NEW q \in Reader, NEW x \in Doc, reading[q][x] # NoReplica
               PROVE  /\ reading[q][x] \in ReplicasOf(x)
                      /\ InFlight(x) \subseteq fresh[q][x]
                      /\ \A s \in Targets(x)' \cup {reading[q][x]} : store'[s][x] \in fresh[q][x]
    BY <1>1, <1>3 DEF ReadsPossible, ReplicasOf
  <2>1. /\ reading[q][x] \in ReplicasOf(x)
        /\ InFlight(x) \subseteq fresh[q][x]
        /\ \A s \in Targets(x) \cup {reading[q][x]} : store[s][x] \in fresh[q][x]
    BY DEF ReadsPossible
  <2>2. \A s \in Targets(x)' : store'[s][x] \in fresh[q][x]
    BY <1>10, <2>1
  <2>3. store'[reading[q][x]][x] \in fresh[q][x]
    <3>1. reading[q][x] \in Replica /\ reading[q][x][1] = ShardOf[x]
      BY <2>1 DEF ReplicasOf
    <3>2. CASE UNCHANGED store
      BY <2>1, <3>2
    <3>3. ASSUME NEW z \in Siblings(t, r), store' = SyncedPrefix(store, t, r, z)
          PROVE  store'[reading[q][x]][x] \in fresh[q][x]
      <4>1. /\ z \in UpFor(t) /\ z \in Replica /\ z[1] = r[1]
            /\ store'[reading[q][x]][x] =
                 IF reading[q][x] = r /\ x \in DocsOf(t) THEN store[z][x] ELSE store[reading[q][x]][x]
        BY <1>6, <3>1, <3>3
      <4>2. CASE reading[q][x] = r /\ x \in DocsOf(t)
        <5>1. z \in Targets(x)
          BY <3>1, <4>1, <4>2 DEF Targets, ReplicasOf, DocsOf
        <5> QED
          BY <2>1, <4>1, <4>2, <5>1
      <4> QED
        BY <2>1, <4>1, <4>2
    <3> QED
      BY <1>5, <3>2, <3>3
  <2> QED
    BY <2>1, <2>2, <2>3
<1> QED
  BY <1>7, <1>8, <1>9, <1>11, <1>12, <1>13

(* Nothing was failed, so every replica that a log brings back was up. *)
LEMMA RestartReplicates ==
  ASSUME Accounts, Replicated, [Next]_vars, Restart
  PROVE  Replicated'
<1> USE DEF Replicated
<1>1. /\ UNCHANGED <<env, disk, acked>> /\ store' = disk
      /\ failed' = [t \in Tenant |-> {}]
      /\ listed' = { d \in Doc : disk[Representative(ShardOf[d])][d] # Absent }
      /\ writing' = [w \in Writer |-> NoWrite]
      /\ reading' = [q \in Reader |-> [d \in Doc |-> NoReplica]]
      /\ maybe' = [d \in Doc |-> maybe[d] \cup InFlight(d)]
  BY DEF Restart
<1>2. spent'.restarts # 0 /\ (Tolerable' => Tolerable)
  BY EnvironmentKept
<1>3. OneWrite' /\ AllLogged' /\ Passed' /\ ReadsPossible'
  BY <1>1 DEF OneWrite, AllLogged, Passed, ReadsPossible
<1>4. OneUp'
  BY <1>1 DEF OneUp, UpFor
<1>5. ASSUME env.faults = {}, NEW x \in Doc, NEW s \in ReplicasOf(x)
      PROVE  store'[s][x] \in {acked[x]} \cup maybe'[x] /\ s \in Replica
  <2>1. Tolerable /\ disk = store /\ \A t \in Tenant : failed[t] = {}
    BY <1>5 DEF Tolerable, AllLogged, Restart
  <2>2. s \in Targets(x)
    BY <2>1, ColonyAssumption DEF Targets, UpFor, ReplicasOf
  <2>3. store[s][x] \in Possible(x) /\ s \in Replica
    BY <2>1, <2>2 DEF UpPossible, ReplicasOf
  <2> QED
    BY <1>1, <2>1, <2>3 DEF Possible
<1>6. Tolerable' => env.faults = {}
  BY <1>1, <1>2 DEF Tolerable
<1>7. UpPossible'
  <2> SUFFICES ASSUME env.faults = {}, NEW x \in Doc, NEW s \in Targets(x)'
               PROVE  store'[s][x] \in Possible(x)'
    BY <1>6 DEF UpPossible
  <2>1. s \in ReplicasOf(x)
    BY DEF Targets, ReplicasOf
  <2> QED
    BY <1>1, <1>5, <2>1 DEF Possible
<1>8. Indexed'
  <2> SUFFICES ASSUME env.faults = {}, NEW x \in Doc, maybe'[x] = {}
               PROVE  x \in listed' <=> acked'[x] # Absent
    BY <1>1, <1>2 DEF Indexed
  <2>1. Representative(ShardOf[x]) \in ReplicasOf(x)
    BY ColonyAssumption DEF Representative, ReplicasOf, Replica
  <2> QED
    BY <1>1, <1>5, <2>1
<1> QED
  BY <1>3, <1>4, <1>7, <1>8

LEMMA ReplicatedNext ==
  ASSUME Accounts, Replicated, [Next]_vars
  PROVE  Replicated'
<1>1. ASSUME NEW w \in Writer, NEW d \in env.docs, NEW content \in Content, StartWrite(w, d, content)
      PROVE  Replicated'
  BY <1>1, StartWriteReplicates, EnvironmentDocs
<1>2. ASSUME NEW w \in Writer, NEW r \in Replica, WriteReplica(w, r) \/ AppendFails(w, r)
      PROVE  Replicated'
  BY <1>2, WriteReplicaReplicates
<1>3. ASSUME NEW q \in Reader,
             \/ \E d \in env.docs : Read(q, d) \/ EndRead(q, d)
             \/ \E t \in Clients : List(q, t)
      PROVE  Replicated'
  <2>1. (\E docs \in SUBSET Doc : StartRead(q, docs)) \/ (\E d \in Doc : EndRead(q, d))
    <3>1. \A t : listed \cap DocsOf(t) \in SUBSET Doc
      BY DEF DocsOf
    <3>2. \A d \in env.docs : d \in Doc /\ {d} \in SUBSET Doc
      BY EnvironmentDocs
    <3> QED
      BY <1>3, <3>1, <3>2 DEF Read, List
  <2> QED
    BY <2>1, ReadReplicates
<1>4. ASSUME NEW t \in Clients, NEW r \in Replica, FailReplica(t, r) \/ HealReplica(t, r)
      PROVE  Replicated'
  BY <1>4, FailReplicaReplicates, HealReplicaReplicates, EnvironmentDocs
<1>5. CASE Restart
  BY <1>5, RestartReplicates
<1>6. CASE UNCHANGED vars
  BY <1>6 DEF vars, data, index, ghosts, Replicated, OneWrite, OneUp, AllLogged, UpPossible, Passed,
              ReadsPossible, Indexed, Tolerable, Possible, InFlight, Writes, Targets, UpFor
<1> QED
  BY <1>1, <1>2, <1>3, <1>4, <1>5, <1>6 DEF Next

LEMMA ReplicatedAlways == Spec => [](Accounts /\ Replicated)
<1>1. Init => Accounts /\ Replicated
  BY InitAccounts, ReplicatedInit
<1>2. (Accounts /\ Replicated) /\ [Next]_vars => (Accounts /\ Replicated)'
  BY NextAccounts, ReplicatedNext
<1> QED
  BY <1>1, <1>2, PTL DEF Spec

LEMMA SettledIsAcked ==
  ASSUME Replicated, Tolerable, NEW d \in Doc, Settled(d), NEW r \in Targets(d)
  PROVE  store[r][d] = acked[d]
<1>1. InFlight(d) = {} /\ maybe[d] = {}
  BY DEF Settled, InFlight
<1> QED
  BY <1>1 DEF Replicated, UpPossible, Possible

(* However replicas fail, heal and restart, and requests interleave, every  *)
(* replica that is up holds what the last acknowledged write left.          *)
(* (colony.js, write, healReplica and syncPrefixFrom)                       *)
THEOREM ColonyUpReplicasCurrent == Spec => []UpReplicasCurrentIfTolerable
<1>1. Replicated => UpReplicasCurrentIfTolerable
  BY SettledIsAcked DEF UpReplicasCurrentIfTolerable, UpReplicasCurrent
<1> QED
  BY <1>1, ReplicatedAlways, PTL

(* A read finds nothing older than the last write acknowledged before it    *)
(* began, also when its replica fails, is healed or is written meanwhile.   *)
(* (colony.js, read and list)                                               *)
THEOREM ColonyReadsAreFresh == Spec => []ReadsAreFresh
<1>1. Replicated => ReadsAreFresh
  BY DEF Replicated, ReadsPossible, ReadsAreFresh
<1> QED
  BY <1>1, ReplicatedAlways, PTL

(* The index lists what was acknowledged and nothing else: through restarts *)
(* where there are no faults, and with any until the first one.             *)
(* (colony.js, _addToIndex, _removeFromIndex and the constructor)           *)
THEOREM ColonyIndexIsExact == Spec => []IndexIsExactIfTolerable
<1>1. Replicated => IndexIsExactIfTolerable
  BY DEF Replicated, Indexed, IndexIsExactIfTolerable, IndexIsExact, Settled
<1> QED
  BY <1>1, ReplicatedAlways, PTL

(* Without faults the logs replay to what was acknowledged, resyncs         *)
(* included. (colony.js, syncPrefixFrom and appendWal)                      *)
THEOREM ColonyUpReplicasLogged == Spec => []UpReplicasLogged
<1>1. Replicated => UpReplicasLogged
  <2>1. env.faults = {} => Tolerable
    BY DEF Tolerable
  <2> QED
    BY <2>1, SettledIsAcked DEF UpReplicasLogged, Replicated, AllLogged
<1> QED
  BY <1>1, ReplicatedAlways, PTL

--------------------------------------------------------------------------------
(* The quota: a write that is let in leaves the tenant with fewer documents *)
(* than the quota, and with at most one more for each request in flight;    *)
(* from then on what is owed only shrinks until the next one is let in.     *)

LEMMA OwedIsFinite ==
  ASSUME NEW t
  PROVE  /\ IsFiniteSet(Owed(t)) /\ Cardinality(Owed(t)) \in Nat
         /\ \A S \in SUBSET Owed(t) :
              Cardinality(S) \in Nat /\ Cardinality(S) =< Cardinality(Owed(t))
<1>1. Owed(t) \in SUBSET Doc
  BY DEF Owed, Wanted, DocsOf
<1>2. IsFiniteSet(Owed(t))
  BY <1>1, FS_Subset, ColonyAssumption
<1>3. \A S \in SUBSET Owed(t) : IsFiniteSet(S) /\ Cardinality(S) =< Cardinality(Owed(t))
  BY <1>2, FS_Subset
<1> QED
  BY <1>2, <1>3, FS_CardinalityType

(* A writer that is idle leaves room for one document more. *)
LEMMA OneDocumentEach ==
  ASSUME NEW w \in Writer, writing[w] = NoWrite, NEW d, NEW t
  PROVE  /\ IsFiniteSet({d} \cup Wanted(t))
         /\ Cardinality({d} \cup Wanted(t)) =< Cardinality(Writer)
<1> DEFINE wants(x) == x \in Writes(writing[x].doc) /\ writing[x].content # Absent
                       /\ writing[x].doc \in DocsOf(t)
           busy == { x \in Writer : x = w \/ wants(x) }
           f == [x \in busy |-> IF x = w THEN d ELSE writing[x].doc]
           T == {d} \cup Wanted(t)
<1>1. \A x \in busy : f[x] \in T
  BY DEF Wanted
<1>2. \A e \in T : \E x \in busy : f[x] = e
  <2>1. f[w] = d /\ w \in busy
    OBVIOUS
  <2>2. ASSUME NEW e \in Wanted(t)
        PROVE  \E x \in busy : f[x] = e
    <3>1. PICK x \in Writes(e) : writing[x].content # Absent
      BY DEF Wanted
    <3>2. x \in Writer /\ x # w /\ writing[x].doc = e /\ e \in DocsOf(t)
      BY DEF Writes, Wanted
    <3> QED
      BY <3>1, <3>2
  <2> QED
    BY <2>1, <2>2
<1>3. f \in Surjection(busy, T)
  BY <1>1, <1>2 DEF Surjection
<1>4. busy \in SUBSET Writer
  OBVIOUS
<1>5. IsFiniteSet(busy) /\ Cardinality(busy) =< Cardinality(Writer)
  BY <1>4, FS_Subset, RequestsAssumption
<1> HIDE DEF busy, f, T
<1>6. IsFiniteSet(T) /\ Cardinality(T) =< Cardinality(busy)
  BY <1>3, <1>5, FS_Surjection
<1>7. Cardinality(T) \in Nat /\ Cardinality(busy) \in Nat /\ Cardinality(Writer) \in Nat
  BY <1>5, <1>6, FS_CardinalityType, RequestsAssumption
<1>8. IsFiniteSet(T) /\ Cardinality(T) =< Cardinality(Writer)
  BY <1>5, <1>6, <1>7
<1> QED
  BY <1>8 DEF T

(* What the quota let in is within the bound. *)
LEMMA LetInUnderQuota ==
  ASSUME Accounts, NEW w \in Writer, writing[w] = NoWrite, NEW d \in Doc, ~QuotaReached(d),
         d \notin listed, NEW S, S \subseteq Owed(TenantOf[d]) \cup {d}
  PROVE  Cardinality(S) < env.quota + Cardinality(Writer)
<1> DEFINE t == TenantOf[d]
           L == listed \cap DocsOf(t)
           T == {d} \cup Wanted(t)
<1>1. t \in Tenant /\ env.quota \in Nat /\ count[t] = Cardinality(L) /\ count[t] \in Nat
  BY ColonyAssumption DEF Accounts, TypeOK, CountIsIndex, Environment
<1>2. count[t] < env.quota
  BY <1>1 DEF QuotaReached
<1>3. IsFiniteSet(L) /\ Cardinality(L) \in Nat
  BY DocsAreFinite
<1>4. IsFiniteSet(T) /\ Cardinality(T) =< Cardinality(Writer)
  BY OneDocumentEach
<1>5. S \in SUBSET (L \cup T)
  BY DEF Owed
<1> HIDE DEF t, L, T
<1>6. /\ IsFiniteSet(L \cup T)
      /\ Cardinality(L \cup T) = Cardinality(L) + Cardinality(T) - Cardinality(L \cap T)
  BY <1>3, <1>4, FS_Union
<1>7. IsFiniteSet(L \cap T)
  BY <1>3, FS_Intersection
<1>8. IsFiniteSet(S) /\ Cardinality(S) =< Cardinality(L \cup T)
  BY <1>5, <1>6, FS_Subset
<1>9. /\ Cardinality(T) \in Nat /\ Cardinality(Writer) \in Nat /\ Cardinality(S) \in Nat
      /\ Cardinality(L \cap T) \in Nat /\ Cardinality(L \cup T) \in Nat
  BY <1>4, <1>6, <1>7, <1>8, FS_CardinalityType, RequestsAssumption
<1> QED
  BY <1>1, <1>2, <1>3, <1>4, <1>6, <1>8, <1>9

(* A step after which no more is owed than before *)
LEMMA OwedLessKept ==
  ASSUME Accounts, QuotaKept, env' = env, spent.restarts = 0, NEW t \in Tenant,
         NEW S, S \subseteq Owed(t)
  PROVE  Cardinality(S) < env.quota + Cardinality(Writer)
<1>1. Cardinality(Owed(t)) < env.quota + Cardinality(Writer)
  BY DEF QuotaKept
<1>2. /\ Cardinality(S) =< Cardinality(Owed(t)) /\ Cardinality(S) \in Nat
      /\ Cardinality(Owed(t)) \in Nat
  BY OwedIsFinite
<1>3. env.quota \in Nat /\ Cardinality(Writer) \in Nat
  BY ColonyAssumption, RequestsAssumption, FS_CardinalityType DEF Accounts, TypeOK, Environment
<1> QED
  BY <1>1, <1>2, <1>3

LEMMA StartWriteInQuota ==
  ASSUME Accounts, QuotaKept, spent.restarts = 0, env' = env,
         NEW w \in Writer, NEW d \in Doc, NEW content \in Content,
         StartWrite(w, d, content), NEW t \in Tenant
  PROVE  Cardinality(Owed(t)') < env.quota + Cardinality(Writer)
<1>1. writing[w] = NoWrite /\ (content # Absent => ~QuotaReached(d))
  BY DEF StartWrite
<1>2. \/ listed' = listed
      \/ content = Absent /\ listed' \subseteq listed
      \/ content # Absent /\ listed' = listed \cup {d}
  BY DEF StartWrite, Acknowledge, index
<1>3. \A x \in Writer :
        \/ writing'[x] = writing[x]
        \/ x = w /\ writing'[x].doc = d /\ writing'[x].content = content
  BY DEF StartWrite, Accounts, TypeOK
<1>4. listed' \cap DocsOf(t) \subseteq
        (listed \cap DocsOf(t)) \cup (IF content = Absent THEN {} ELSE {d})
  BY <1>2
<1>5. Wanted(t)' \subseteq Wanted(t) \cup (IF content = Absent THEN {} ELSE {d})
  <2> SUFFICES ASSUME NEW e \in DocsOf(t), NEW x \in Writer, writing'[x] # NoWrite,
                      writing'[x].doc = e, writing'[x].content # Absent
               PROVE  e \in Wanted(t) \cup (IF content = Absent THEN {} ELSE {d})
    BY DEF Wanted, Writes, DocsOf
  <2> QED
    BY <1>3 DEF Wanted, Writes
<1>6. Owed(t)' \subseteq Owed(t) \cup (IF content = Absent THEN {} ELSE {d})
  BY <1>4, <1>5 DEF Owed, DocsOf
<1>7. Owed(t)' \subseteq DocsOf(t)
  BY DEF Owed, Wanted, DocsOf
<1>8. CASE content = Absent \/ d \in listed \/ t # TenantOf[d]
  <2>1. Owed(t)' \subseteq Owed(t)
    BY <1>6, <1>7, <1>8 DEF Owed, DocsOf
  <2> QED
    BY <2>1, OwedLessKept
<1>9. CASE content # Absent /\ d \notin listed /\ t = TenantOf[d]
  <2>1. Owed(t)' \subseteq Owed(TenantOf[d]) \cup {d}
    BY <1>6, <1>9
  <2> QED
    BY <1>1, <1>9, <2>1, LetInUnderQuota
<1> QED
  BY <1>8, <1>9

LEMMA WriteReplicaInQuota ==
  ASSUME Accounts, NEW w \in Writer, NEW r \in Replica,
         WriteReplica(w, r) \/ AppendFails(w, r), NEW t \in Tenant
  PROVE  Owed(t)' \subseteq Owed(t)
<1>1. writing[w] # NoWrite /\ \E ok \in BOOLEAN : Proceed(w, r, ok)
  BY DEF WriteReplica, AppendFails
<1>2. writing[w] \in Write
  BY <1>1 DEF Accounts, TypeOK
<1>3. \/ listed' = listed
      \/ writing[w].content = Absent /\ listed' \subseteq listed
      \/ writing[w].content # Absent /\ listed' = listed \cup {writing[w].doc}
  BY <1>1, <1>2 DEF Proceed, Acknowledge, index, Write
<1>4. \A x \in Writer :
        \/ writing'[x] = writing[x]
        \/ x = w /\ writing'[x] = NoWrite
        \/ x = w /\ writing'[x].doc = writing[w].doc /\ writing'[x].content = writing[w].content
  BY <1>1, <1>2 DEF Proceed, Accounts, TypeOK, Write
<1>5. w \in Writes(writing[w].doc)
  BY <1>1 DEF Writes
<1>6. listed' \cap DocsOf(t) \subseteq Owed(t)
  BY <1>3, <1>5 DEF Owed, Wanted
<1>7. Wanted(t)' \subseteq Wanted(t)
  <2> SUFFICES ASSUME NEW e \in DocsOf(t), NEW x \in Writer, writing'[x] # NoWrite,
                      writing'[x].doc = e, writing'[x].content # Absent
               PROVE  e \in Wanted(t)
    BY DEF Wanted, Writes, DocsOf
  <2> QED
    BY <1>1, <1>4 DEF Wanted, Writes
<1> QED
  BY <1>6, <1>7 DEF Owed, DocsOf

LEMMA QuotaNext ==
  ASSUME Accounts, QuotaKept, [Next]_vars
  PROVE  QuotaKept'
<1> SUFFICES ASSUME spent.restarts = 0, ~Restart, NEW t \in Tenant
             PROVE  Cardinality(Owed(t)') < env.quota + Cardinality(Writer)
  <2>1. env' = env /\ (spent'.restarts = 0 => spent.restarts = 0 /\ ~Restart)
    BY EnvironmentKept
  <2> QED
    BY <2>1 DEF QuotaKept
<1>1. env' = env
  BY EnvironmentKept
<1>2. ASSUME NEW w \in Writer, NEW d \in env.docs, NEW content \in Content, StartWrite(w, d, content)
      PROVE  Cardinality(Owed(t)') < env.quota + Cardinality(Writer)
  BY <1>1, <1>2, StartWriteInQuota, EnvironmentDocs
<1>3. ASSUME NEW w \in Writer, NEW r \in Replica, WriteReplica(w, r) \/ AppendFails(w, r)
      PROVE  Cardinality(Owed(t)') < env.quota + Cardinality(Writer)
  <2>1. Owed(t)' \subseteq Owed(t)
    BY <1>3, WriteReplicaInQuota
  <2> QED
    BY <1>1, <2>1, OwedLessKept
<1>4. CASE UNCHANGED <<listed, writing>>
  <2>1. Owed(t)' \subseteq Owed(t)
    BY <1>4 DEF Owed, Wanted, Writes
  <2> QED
    BY <1>1, <2>1, OwedLessKept
<1>5. ASSUME NEW q \in Reader,
             \/ \E d \in env.docs : Read(q, d) \/ EndRead(q, d)
             \/ \E s \in Clients : List(q, s)
      PROVE  UNCHANGED <<listed, writing>>
  BY <1>5 DEF Read, List, StartRead, EndRead, index
<1>6. ASSUME NEW s \in Clients, NEW r \in Replica, FailReplica(s, r) \/ HealReplica(s, r)
      PROVE  UNCHANGED <<listed, writing>>
  BY <1>6 DEF FailReplica, HealReplica, index
<1>7. CASE UNCHANGED vars
  BY <1>4, <1>7 DEF vars, index
<1> QED
  BY <1>2, <1>3, <1>4, <1>5, <1>6, <1>7 DEF Next

LEMMA QuotaInit == Init => QuotaKept
<1> SUFFICES ASSUME Init, NEW t \in Tenant
             PROVE  Cardinality(Owed(t)) < env.quota + Cardinality(Writer)
  BY DEF QuotaKept
<1>1. Owed(t) = {}
  BY DEF Init, Owed, Wanted, Writes
<1>2. Cardinality(Writer) \in Nat /\ Cardinality(Writer) # 0
  BY RequestsAssumption, FS_CardinalityType, FS_EmptySet
<1>3. env.quota \in Nat
  BY ColonyAssumption DEF Init, Environment
<1> QED
  BY <1>1, <1>2, <1>3, FS_EmptySet

(* However many writes pass the test of the quota together, the documents   *)
(* of a tenant exceed it by less than there are requests in flight, until a *)
(* restart forgets the requests. (colony.js, write)                         *)
THEOREM ColonyQuotaOvershootBounded == Spec => []QuotaOvershootBounded
<1>1. Accounts /\ QuotaKept => QuotaOvershootBounded
  <2> SUFFICES ASSUME Accounts, QuotaKept, spent.restarts = 0, NEW t \in Tenant
               PROVE  count[t] < env.quota + Cardinality(Writer)
    BY DEF QuotaOvershootBounded
  <2>1. Cardinality(Owed(t)) < env.quota + Cardinality(Writer)
    BY DEF QuotaKept
  <2>2. listed \cap DocsOf(t) \in SUBSET Owed(t)
    BY DEF Owed
  <2>3. /\ Cardinality(listed \cap DocsOf(t)) =< Cardinality(Owed(t))
        /\ Cardinality(listed \cap DocsOf(t)) \in Nat /\ Cardinality(Owed(t)) \in Nat
    BY <2>2, OwedIsFinite
  <2>4. env.quota \in Nat /\ Cardinality(Writer) \in Nat
    BY ColonyAssumption, RequestsAssumption, FS_CardinalityType DEF Accounts, TypeOK, Environment
  <2>5. count[t] = Cardinality(listed \cap DocsOf(t))
    BY DEF Accounts, CountIsIndex
  <2> QED
    BY <2>1, <2>3, <2>4, <2>5
<1>2. QuotaKept /\ Accounts /\ [Next]_vars => QuotaKept'
  BY QuotaNext
<1> QED
  BY <1>1, <1>2, QuotaInit, ColonyAccounts, PTL DEF Spec
================================================================================
