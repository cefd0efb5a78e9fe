------------------------------- MODULE FrontEnd --------------------------------
(***************************************************************************)
(* The HTTP front end of the service (service/server/index.js) with its     *)
(* keys (auth.js), its token buckets (rateLimit.js) and its queries         *)
(* (query.js).                                                              *)
(*                                                                          *)
(* The program is one thread; a request runs from one await to the next.    *)
(* Keys are checked and tokens taken when a request arrives; then it waits  *)
(* for its body, or for the colony, which is a map of documents here: each  *)
(* read and each write takes effect at a moment of its own (module Colony). *)
(* A document has two fields, a rank and a note, whose values are Query's.  *)
(***************************************************************************)
EXTENDS Query, Sequences

CONSTANTS
  Key,       \* what KeyStore.create may draw, each once
  Tenant,    \* the key whose collection the clients use
  Address,   \* where keys are created from
  Client,    \* requests for documents that may be in flight together
  Id,        \* ids are numbered in their order
  Value,     \* values of fields
  Unit,      \* a token, in units of the refill
  CreationLimit,  \* [capacity, refill per tick] in units
  Idle,      \* sweep's idleMs, in ticks
  None, Torn,
  Environments

Document == [rank : Value \cup {Missing}, note : Value \cup {Missing}]
Clause == [field : {"rank", "note"}, op : Operators, value : Value]

(* An environment: what clients ask, and what they write (the body of a     *)
(* DELETE is ignored) and query; the key file and the documents the service starts    *)
(* with; the limit of a key; whether reads may fail for want of a replica,  *)
(* and whether a save may be cut off (a crash in it, or a full disk, which  *)
(* throws where nothing catches and ends the process too); and bounds on    *)
(* time, requests and restarts.                                             *)
Environment ==
  [asks : SUBSET {"create", "revoke", "put", "patch", "delete", "page"},
   issued : SUBSET Key, stored : UNION { [S -> Document] : S \in SUBSET Id },
   ids : SUBSET Id, bodies : SUBSET Document,
   query : [where : SUBSET Clause, orderBy : {"id", "rank", "note"},
            dir : {"asc", "desc"}, limit : Nat \ {0}],
   limit : [capacity : Nat, refill : Nat], outage : BOOLEAN,
   cut_save : BOOLEAN, ticks : Nat, requests : Nat, restarts : Nat]

ASSUME FrontEndAssumption ==
  /\ \A e \in Environments : e \in Environment
  /\ Id \subseteq Nat /\ Value \subseteq Nat \X Nat /\ Missing \notin Value
  /\ Unit \in Nat \ {0} /\ Idle \in Nat
  /\ CreationLimit \in [capacity : Nat, refill : Nat]
  /\ Tenant \in Key /\ Address \notin Key
  /\ IsFiniteSet(Id) /\ None \notin Id  \* NAME_PATTERN bounds their length
  /\ Torn \notin UNION { [S -> BOOLEAN] : S \in SUBSET Key }

VARIABLES
  env,       \* the environment, which does not change
  up,        \* the process runs
  keys,      \* KeyStore.keys: whether each is revoked
  file,      \* keys.json
  now,       \* the time in ticks
  bucket,    \* RateLimiter.buckets of both limiters, by identity
  docs,      \* the documents the colony has
  request,   \* the requests for documents in flight
  page,      \* a client that reads the collection page by page
  told,      \* ghost: keys that were answered, and whether their revocation was
  history,   \* ghost: when each identity was admitted since the start
  merged,    \* ghost: the documents if each request took effect at once
  crossed,   \* ghost: documents whose PATCH another update crossed
  spent      \* how many requests and restarts there were

stores == <<docs, merged, crossed>>
secrets == <<keys, file, told>>
admission == <<bucket, history>>
vars == <<env, up, secrets, admission, now, stores, request, page, spent>>

Nothing == [x \in {} |-> x]
Put(f, x, v) == [y \in DOMAIN f \cup {x} |-> IF y = x THEN v ELSE f[y]]
Drop(f, x) == [y \in DOMAIN f \ {x} |-> f[y]]

Init ==
  /\ env \in Environments
  /\ up = TRUE
  /\ keys = [k \in env.issued |-> FALSE] /\ file = keys /\ told = keys
  /\ now = 0
  /\ bucket = Nothing /\ history = [i \in Key \cup {Address} |-> <<>>]
  /\ docs = env.stored /\ merged = docs /\ crossed = {}
  /\ request = [c \in Client |-> None]
  /\ page = None
  /\ spent = [requests |-> 0, restarts |-> 0]

Asked ==
  /\ up
  /\ spent.requests < env.requests
  /\ spent' = [spent EXCEPT !.requests = @ + 1]
Asks(what) == what \in env.asks /\ Asked

Tick ==
  /\ now < env.ticks
  /\ now' = now + 1
  /\ UNCHANGED <<env, up, secrets, admission, stores, request, page, spent>>

----------------------------------------------------------------------------
(* RateLimiter *)

LimitOf(i) == IF i = Address THEN CreationLimit ELSE env.limit

\* Mutant: a refill may overflow the bucket
Uncapped(level, i) == level

Capped(level, i) == IF level > LimitOf(i).capacity THEN LimitOf(i).capacity ELSE level

Refilled(i) ==
  IF i \in DOMAIN bucket
  THEN Capped(bucket[i].tokens + (now - bucket[i].lastRefill) * LimitOf(i).refill, i)
  ELSE LimitOf(i).capacity

Allowed(i) == Refilled(i) >= Unit
Take(i) ==
  bucket' = Put(bucket, i, [tokens |-> IF Allowed(i) THEN Refilled(i) - Unit ELSE Refilled(i),
                            lastRefill |-> now])

(* take's caller goes on, or answers 429 *)
Admitted(i) ==
  /\ Allowed(i)
  /\ Take(i)
  /\ history' = [history EXCEPT ![i] = Append(@, now)]

\* Mutant: a bucket is dropped when it was idle, full or not
SweptIdle(i) == now - bucket[i].lastRefill > Idle

Swept(i) == bucket[i].tokens >= LimitOf(i).capacity /\ now - bucket[i].lastRefill > Idle

Sweep ==
  /\ up
  /\ bucket' = [i \in { j \in DOMAIN bucket : ~Swept(j) } |-> bucket[i]]
  /\ UNCHANGED <<env, up, secrets, history, now, stores, request, page, spent>>

----------------------------------------------------------------------------
(* KeyStore, and the requests that change it.  A request is answered in the *)
(* turn that saves; a cut save leaves a file that does not parse and ends   *)
(* the process.                                                             *)

IsValid(k) == k \in DOMAIN keys /\ ~keys[k]

(* The process ends, and what only it knew is gone *)
Ends ==
  /\ up' = FALSE
  /\ keys' = Nothing
  /\ request' = [c \in Client |-> None] /\ page' = None

\* Mutant: a revocation is kept in memory only
SavedButRevocations(ks) == [k \in DOMAIN ks |-> k \in DOMAIN file /\ file[k]]

Saved(ks) == ks

(* The key store becomes ks and is saved, then k's new state is answered;   *)
(* or the process ends in the save, or after it and before the answer,      *)
(* which leaves the client without knowledge of k                           *)
Saves(ks, k) ==
  \/ /\ keys' = ks
     /\ file' = Saved(ks)
     /\ told' = Put(told, k, ks[k])
     /\ UNCHANGED <<up, request, page>>
  \/ /\ env.cut_save
     /\ file' \in {Torn, Saved(ks)}
     /\ told' = Drop(told, k)
     /\ Ends

CreateKey ==
  /\ Asks("create")
  /\ Admitted(Address)
  /\ \E k \in Key \ DOMAIN keys : Saves(Put(keys, k, FALSE), k)
  /\ UNCHANGED <<env, now, stores>>

Revoke ==
  /\ Asks("revoke")
  /\ \E k \in Key :
       /\ IsValid(k)
       /\ Admitted(k)
       /\ Saves(Put(keys, k, TRUE), k)
  /\ UNCHANGED <<env, now, stores>>

(* Refused with 429: no token is taken, but the bucket is refilled *)
Refused ==
  /\ Asked
  /\ \E i \in Key \cup {Address} :
       /\ i = Address \/ IsValid(i)
       /\ ~Allowed(i)
       /\ Take(i)
  /\ UNCHANGED <<env, up, secrets, history, now, stores, request, page>>

Crash ==
  /\ up
  /\ spent.restarts < env.restarts
  /\ Ends
  /\ UNCHANGED <<env, file, told, admission, now, stores, spent>>

(* A file that does not parse makes the constructor throw *)
Boot ==
  /\ ~up
  /\ spent.restarts < env.restarts
  /\ spent' = [spent EXCEPT !.restarts = @ + 1]
  /\ file # Torn
  /\ up' = TRUE
  /\ keys' = file
  /\ bucket' = Nothing /\ history' = [i \in DOMAIN history |-> <<>>]
  /\ UNCHANGED <<env, file, told, now, stores, request, page>>

----------------------------------------------------------------------------
(* PUT, PATCH and DELETE of a document.  A request is [op, id, body, read], *)
(* where read is what PATCH read: it waits for its body between the read    *)
(* and the write.  A PATCH that was crossed is marked.                      *)

(* { ...existing.value, ...patch } *)
Merged(doc, patch) ==
  [f \in {"rank", "note"} |-> IF patch[f] = Missing THEN doc[f] ELSE patch[f]]

Begin(c) ==
  /\ request[c] = None
  /\ \E op \in {"put", "patch", "delete"}, id \in env.ids, body \in env.bodies :
       /\ Asks(op)
       /\ IsValid(Tenant)
       /\ Admitted(Tenant)
       /\ request' = [request EXCEPT ![c] =
            [op |-> op, id |-> id, body |-> body, read |-> None, crossed |-> FALSE]]
  /\ UNCHANGED <<env, up, secrets, now, stores, page>>

\* Mutant: PATCH writes its body only
ExistingEmpty(id) == [rank |-> Missing, note |-> Missing]

Existing(id) == docs[id]

(* 404 if it is absent, 503 if no replica of its shard can be reached *)
ReadExisting(c) ==
  LET r == request[c] IN
  /\ r # None
  /\ r.op = "patch" /\ r.read = None
  /\ \/ request' = [request EXCEPT ![c] =
          IF r.id \in DOMAIN docs THEN [r EXCEPT !.read = Existing(r.id)] ELSE None]
     \/ env.outage /\ request' = [request EXCEPT ![c] = None]
  /\ UNCHANGED <<env, up, secrets, admission, now, stores, page, spent>>

(* What r writes over the documents ds, where it found the document doc *)
Written(r, ds, doc) ==
  CASE r.op = "put" -> Put(ds, r.id, r.body)
    [] r.op = "delete" -> Drop(ds, r.id)
    [] r.op = "patch" -> Put(ds, r.id, Merged(doc, r.body))

(* The write takes effect; the requests that read its document are crossed, *)
(* and its document is no longer steady for the client that pages           *)
Write(c) ==
  LET r == request[c] IN
  /\ r # None
  /\ r.op = "patch" => r.read # None
  /\ docs' = Written(r, docs, r.read)
  /\ merged' = IF r.op = "patch" /\ r.id \notin DOMAIN merged THEN merged
               ELSE Written(r, merged, IF r.op = "patch" THEN merged[r.id] ELSE None)
  /\ crossed' = IF r.op # "patch" THEN crossed \ {r.id}
                ELSE IF r.crossed THEN crossed \cup {r.id} ELSE crossed
  /\ request' = [d \in Client |->
       IF d = c \/ request[d] = None THEN None
       ELSE IF request[d].id = r.id /\ request[d].read # None
       THEN [request[d] EXCEPT !.crossed = TRUE] ELSE request[d]]
  /\ page' = IF page = None THEN None ELSE [page EXCEPT !.steady = @ \ {r.id}]
  /\ UNCHANGED <<env, up, secrets, admission, now, spent>>

----------------------------------------------------------------------------
(* A client pages through the collection with a query: each page lists the  *)
(* ids, reads each document at a moment of its own, and answers those that  *)
(* match after the cursor.                                                  *)

AskPage ==
  /\ page # None => page.state # "reading"
  /\ Asks("page")
  /\ IsValid(Tenant)
  /\ Admitted(Tenant)
  /\ page' =
       IF page # None => page.state = "done"
       THEN [state |-> "reading", ids |-> DOMAIN docs, found |-> Nothing, cursor |-> None,
             times |-> [id \in Id |-> 0], steady |-> DOMAIN docs, firm |-> TRUE]
       ELSE [page EXCEPT !.state = "reading", !.ids = DOMAIN docs, !.found = Nothing]
  /\ UNCHANGED <<env, up, secrets, now, stores, request>>

(* A document that is gone is left out, and so is one that cannot be read *)
ReadListed(id) ==
  /\ page # None
  /\ page.state = "reading" /\ id \in page.ids
  /\ \/ page' = [page EXCEPT !.ids = @ \ {id},
                             !.found = IF id \in DOMAIN docs THEN Put(@, id, docs[id]) ELSE @]
     \/ /\ env.outage
        /\ page' = [page EXCEPT !.ids = @ \ {id}, !.steady = @ \ {id}]
  /\ UNCHANGED <<env, up, secrets, admission, now, stores, request, spent>>

(* applyQuery: an error ends the scan; a cursor is firm while its document  *)
(* was not updated                                                          *)
AnswerPage ==
  /\ page # None
  /\ page.state = "reading" /\ page.ids = {}
  /\ LET found == page.found
         query == env.query
         rest == Rest(found, query, page.cursor, None)
         first == PageOf(found, query, rest)
         last == CHOOSE d \in first : \A e \in first : e = d \/ Sorts(found, query, e, d)
         more == More(query, rest)
     IN  page' =
           IF page.cursor # None /\ page.cursor \notin Filtered(found, query)
           THEN None
           ELSE [page EXCEPT
                   !.state = IF more THEN "more" ELSE "done",
                   !.cursor = IF more THEN last ELSE None,
                   !.found = Nothing,
                   !.times = [d \in Id |-> IF d \in first THEN @[d] + 1 ELSE @[d]],
                   !.firm = @ /\ page.cursor \in page.steady \cup {None}]
  /\ UNCHANGED <<env, up, secrets, admission, now, stores, request, spent>>

----------------------------------------------------------------------------
Next ==
  \/ Tick
  \/ Sweep
  \/ CreateKey
  \/ Revoke
  \/ Refused
  \/ Crash
  \/ Boot
  \/ \E c \in Client : Begin(c) \/ ReadExisting(c) \/ Write(c)
  \/ AskPage
  \/ \E id \in Id : ReadListed(id)
  \/ AnswerPage

Spec == Init /\ [][Next]_vars
================================================================================
