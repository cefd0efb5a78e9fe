---------------------------- MODULE FrontEndProofs -----------------------------
(***************************************************************************)
(* Proofs about FrontEnd, for any keys, clients, documents, limits and      *)
(* environments: a key is what its client was told, through every crash     *)
(* (KeysKept), no identity is admitted more often than its bucket allows    *)
(* (RateKept), no update is lost but where a PATCH was crossed (Updated),   *)
(* and pages list each untouched document once (Paged).                     *)
(***************************************************************************)
EXTENDS FrontEndProperties, FiniteSetTheorems, WellFoundedInduction, TLAPS

(* What a restart would find agrees with what was told *)
Agrees(ks) == \A k \in DOMAIN told : k \in DOMAIN ks /\ ks[k] = told[k]

KeysKept ==
  /\ up => keys = file
  /\ up \/ file # Torn => Agrees(file)

(* A save changes one key, in memory, in the file and in what is told, or   *)
(* ends the process with nothing told of it.                                *)
LEMMA SavesKeepsKeys ==
  ASSUME KeysKept, up, NEW k, NEW revoked, Saves(Put(keys, k, revoked), k)
  PROVE  KeysKept'
<1> DEFINE ks == Put(keys, k, revoked)
<1>1. keys = file /\ Agrees(keys)
  BY DEF KeysKept
<1>2. /\ DOMAIN ks = DOMAIN keys \cup {k}
      /\ ks[k] = revoked
      /\ \A y \in DOMAIN keys : y # k => ks[y] = keys[y]
  BY DEF Put
<1> HIDE DEF ks
<1>3. CASE keys' = ks /\ file' = Saved(ks) /\ told' = Put(told, k, ks[k]) /\ UNCHANGED up
  <2>1. /\ DOMAIN told' = DOMAIN told \cup {k}
        /\ told'[k] = ks[k]
        /\ \A y \in DOMAIN told : y # k => told'[y] = told[y]
    BY <1>3 DEF Put
  <2>2. keys' = file' /\ file' = ks
    BY <1>3 DEF Saved
  <2>3. ASSUME NEW y \in DOMAIN told'
        PROVE  y \in DOMAIN ks /\ ks[y] = told'[y]
    <3>1. CASE y = k
      BY <3>1, <2>1, <1>2
    <3>2. CASE y # k
      BY <3>2, <2>1, <1>1, <1>2 DEF Agrees
    <3> QED
      BY <3>1, <3>2
  <2> QED
    BY <2>2, <2>3 DEF KeysKept, Agrees
<1>4. CASE file' \in {Torn, Saved(ks)} /\ told' = Drop(told, k) /\ Ends
  <2>1. /\ DOMAIN told' = DOMAIN told \ {k}
        /\ \A y \in DOMAIN told : y # k => told'[y] = told[y]
    BY <1>4 DEF Drop
  <2>2. ~up'
    BY <1>4 DEF Ends
  <2>3. \A y \in DOMAIN told' : y \in DOMAIN ks /\ ks[y] = told'[y]
    BY <2>1, <1>1, <1>2 DEF Agrees
  <2>4. file' = Torn \/ file' = ks
    BY <1>4 DEF Saved
  <2> QED
    BY <2>2, <2>3, <2>4 DEF KeysKept, Agrees
<1> QED
  BY <1>3, <1>4 DEF Saves, ks

LEMMA KeysKeptInit == Init => KeysKept
BY DEF Init, KeysKept, Agrees

LEMMA KeysKeptNext == KeysKept /\ [Next]_vars => KeysKept'
<1> SUFFICES ASSUME KeysKept, [Next]_vars
             PROVE  KeysKept'
  OBVIOUS
<1>1. CASE UNCHANGED <<up, secrets>>
  BY <1>1 DEF KeysKept, Agrees, secrets
<1>2. CASE CreateKey
  <2>1. PICK k \in Key \ DOMAIN keys : Saves(Put(keys, k, FALSE), k)
    BY <1>2 DEF CreateKey
  <2>2. up
    BY <1>2 DEF CreateKey, Asks, Asked
  <2> QED
    BY <2>1, <2>2, SavesKeepsKeys
<1>3. CASE Revoke
  <2>1. PICK k \in Key : Saves(Put(keys, k, TRUE), k)
    BY <1>3 DEF Revoke
  <2>2. up
    BY <1>3 DEF Revoke, Asks, Asked
  <2> QED
    BY <2>1, <2>2, SavesKeepsKeys
<1>4. CASE Crash
  BY <1>4 DEF Crash, Ends, KeysKept, Agrees
<1>5. CASE Boot
  BY <1>5 DEF Boot, KeysKept, Agrees
<1>6. CASE Tick \/ Sweep \/ Refused \/ AskPage \/ AnswerPage
  BY <1>1, <1>6 DEF Tick, Sweep, Refused, AskPage, AnswerPage, secrets
<1>7. CASE \E c \in Client : Begin(c) \/ ReadExisting(c) \/ Write(c)
  BY <1>1, <1>7 DEF Begin, ReadExisting, Write, secrets
<1>8. CASE \E id \in Id : ReadListed(id)
  BY <1>1, <1>8 DEF ReadListed, secrets
<1>9. CASE UNCHANGED vars
  BY <1>1, <1>9 DEF vars, secrets
<1> QED
  BY <1>2, <1>3, <1>4, <1>5, <1>6, <1>7, <1>8, <1>9 DEF Next

(* A client's key is valid from the answer that gave it until its           *)
(* revocation, and never after that one's answer, whatever crashes and      *)
(* cut-off saves there are.  (auth.js)                                      *)
THEOREM FrontEndKeysAsAnswered == Spec => []KeysAsAnswered
<1>1. KeysKept => KeysAsAnswered
  BY DEF KeysKept, Agrees, KeysAsAnswered, IsValid
<1> QED
  BY <1>1, KeysKeptInit, KeysKeptNext, PTL DEF Spec

----------------------------------------------------------------------------
(* The rate limit.  What an identity was admitted since the m-th time, and  *)
(* what it could still be admitted now, together stay within a full bucket  *)
(* and the refill since then.                                               *)

Identity == Key \cup {Address}

Typed ==
  /\ env \in Environments
  /\ now \in Nat
  /\ history \in [Identity -> Seq(Nat)]
  /\ DOMAIN bucket \subseteq Identity
  /\ \A i \in DOMAIN bucket :
       /\ bucket[i].tokens \in Nat /\ bucket[i].tokens <= LimitOf(i).capacity
       /\ bucket[i].lastRefill \in Nat /\ bucket[i].lastRefill <= now

Within(i) ==
  \A m \in DOMAIN history[i] :
    /\ history[i][m] <= now
    /\ (Len(history[i]) - m + 1) * Unit + Refilled(i)
         <= LimitOf(i).capacity + LimitOf(i).refill * (now - history[i][m])

Spaced(i) ==
  LET at == history[i] IN
  \A m \in DOMAIN at : \A n \in m .. Len(at) :
    (n - m + 1) * Unit <= LimitOf(i).capacity + LimitOf(i).refill * (at[n] - at[m])

RateKept == Typed /\ \A i \in Identity : Within(i) /\ Spaced(i)

LEMMA OneMore == \A a, b \in Nat : (a + 1) * b = a * b + b /\ b * (a + 1) = b * a + b
OBVIOUS

LEMMA ProductIsNat == \A a, b \in Nat : a * b \in Nat /\ b * 0 = 0 /\ 0 * b = 0 /\ 1 * b = b
OBVIOUS

LEMMA UnitIsNat == Unit \in Nat
BY FrontEndAssumption

LEMMA LimitIsNat ==
  ASSUME env \in Environments, NEW i
  PROVE  LimitOf(i).capacity \in Nat /\ LimitOf(i).refill \in Nat
<1>1. env \in Environment
  BY FrontEndAssumption
<1>2. env.limit \in [capacity : Nat, refill : Nat]
  BY <1>1 DEF Environment
<1>3. CreationLimit \in [capacity : Nat, refill : Nat]
  BY FrontEndAssumption
<1> QED
  BY <1>2, <1>3 DEF LimitOf

LEMMA RefilledIsLevel ==
  ASSUME Typed, NEW i
  PROVE  Refilled(i) \in Nat /\ Refilled(i) <= LimitOf(i).capacity
<1>1. LimitOf(i).capacity \in Nat /\ LimitOf(i).refill \in Nat
  BY LimitIsNat DEF Typed
<1>2. CASE i \in DOMAIN bucket
  <2>1. now - bucket[i].lastRefill \in Nat
    BY <1>2 DEF Typed
  <2>2. (now - bucket[i].lastRefill) * LimitOf(i).refill \in Nat
    BY <2>1, <1>1, ProductIsNat
  <2> QED
    BY <2>2, <1>1, <1>2 DEF Refilled, Capped, Typed
<1>3. CASE i \notin DOMAIN bucket
  BY <1>1, <1>3 DEF Refilled
<1> QED
  BY <1>2, <1>3

(* Taking from a bucket leaves the refilled level, less the token if there  *)
(* was one, and leaves the other buckets alone.                             *)
LEMMA TakeLeaves ==
  ASSUME Typed, NEW i \in Identity, Take(i), UNCHANGED <<env, now>>
  PROVE  /\ DOMAIN bucket' \subseteq Identity
         /\ \A j \in DOMAIN bucket' :
              /\ bucket'[j].tokens \in Nat /\ bucket'[j].tokens <= LimitOf(j).capacity
              /\ bucket'[j].lastRefill \in Nat /\ bucket'[j].lastRefill <= now
         /\ Refilled(i)' = IF Allowed(i) THEN Refilled(i) - Unit ELSE Refilled(i)
         /\ \A j \in Identity \ {i} : Refilled(j)' = Refilled(j)
<1> DEFINE left == IF Allowed(i) THEN Refilled(i) - Unit ELSE Refilled(i)
<1>1. /\ DOMAIN bucket' = DOMAIN bucket \cup {i}
      /\ bucket'[i] = [tokens |-> left, lastRefill |-> now]
      /\ \A j \in DOMAIN bucket : j # i => bucket'[j] = bucket[j]
  BY DEF Take, Put
<1>2. LimitOf(i).capacity \in Nat /\ LimitOf(i).refill \in Nat
  BY LimitIsNat DEF Typed
<1>3. left \in Nat /\ left <= LimitOf(i).capacity
  BY <1>2, RefilledIsLevel, UnitIsNat DEF Allowed
<1> HIDE DEF left
<1>4. bucket'[i].tokens = left /\ bucket'[i].lastRefill = now
  BY <1>1
<1>5. Refilled(i)' = left
  <2>1. Refilled(i)' = Capped(left + (now - now) * LimitOf(i).refill, i)
    BY <1>1, <1>4 DEF Refilled, Capped, LimitOf
  <2>2. (now - now) * LimitOf(i).refill = 0
    BY <1>2, ProductIsNat DEF Typed
  <2> QED
    BY <2>1, <2>2, <1>2, <1>3 DEF Capped
<1>6. \A j \in Identity \ {i} : Refilled(j)' = Refilled(j)
  BY <1>1 DEF Refilled, Capped, LimitOf
<1>7. \A j \in DOMAIN bucket' :
        /\ bucket'[j].tokens \in Nat /\ bucket'[j].tokens <= LimitOf(j).capacity
        /\ bucket'[j].lastRefill \in Nat /\ bucket'[j].lastRefill <= now
  <2> TAKE j \in DOMAIN bucket'
  <2>1. CASE j = i
    BY <2>1, <1>3, <1>4 DEF Typed
  <2>2. CASE j # i
    BY <2>2, <1>1 DEF Typed
  <2> QED
    BY <2>1, <2>2
<1> QED
  BY <1>1, <1>5, <1>6, <1>7 DEF left, Typed

(* A time span of one more tick, or of none *)
LEMMA SpanGrows ==
  \A r, t, h \in Nat : h <= t => r * (t - h) \in Nat /\ r * (t + 1 - h) = r * (t - h) + r
<1> SUFFICES ASSUME NEW r \in Nat, NEW t \in Nat, NEW h \in Nat, h <= t
             PROVE  r * (t - h) \in Nat /\ r * (t + 1 - h) = r * (t - h) + r
  OBVIOUS
<1>1. t - h \in Nat /\ t + 1 - h = (t - h) + 1
  OBVIOUS
<1> QED
  BY <1>1, OneMore, ProductIsNat

LEMMA AdmittedKeepsRate ==
  ASSUME RateKept, NEW i \in Identity, Admitted(i), UNCHANGED <<env, now>>
  PROVE  RateKept'
<1> DEFINE at == history[i]
           cap == LimitOf(i).capacity
           refill == LimitOf(i).refill
           level == Refilled(i)
<1>1. Typed /\ Allowed(i) /\ Take(i) /\ history' = [history EXCEPT ![i] = Append(@, now)]
  BY DEF RateKept, Admitted
<1>2. /\ history' \in [Identity -> Seq(Nat)]
      /\ history'[i] = Append(at, now)
      /\ \A j \in Identity \ {i} : history'[j] = history[j]
      /\ at \in Seq(Nat)
  BY <1>1 DEF Typed
<1>3. \A j : LimitOf(j)' = LimitOf(j)
  BY DEF LimitOf
<1>4. Refilled(i)' = level - Unit /\ \A j \in Identity \ {i} : Refilled(j)' = Refilled(j)
  BY <1>1, TakeLeaves
<1>5. level \in Nat /\ level <= cap /\ level >= Unit
  BY <1>1, RefilledIsLevel DEF Allowed
<1>6. cap \in Nat /\ refill \in Nat /\ Unit \in Nat /\ now \in Nat
  BY <1>1, LimitIsNat, UnitIsNat DEF Typed
<1>7. Typed'
  BY <1>1, <1>2, <1>3, TakeLeaves DEF Typed
<1>8. /\ Len(history'[i]) = Len(at) + 1 /\ Len(at) \in Nat
      /\ DOMAIN history'[i] = 1 .. Len(at) + 1
      /\ \A m \in 1 .. Len(at) : history'[i][m] = at[m] /\ at[m] \in Nat
      /\ history'[i][Len(at) + 1] = now
      /\ DOMAIN at = 1 .. Len(at)
  BY <1>2, <1>6
<1>9. \A m \in 1 .. Len(at) :
        /\ at[m] <= now
        /\ (Len(at) - m + 1) * Unit + level <= cap + refill * (now - at[m])
  BY <1>8 DEF RateKept, Within
<1>10. \A m \in 1 .. Len(at) : \A n \in m .. Len(at) :
         (n - m + 1) * Unit <= cap + refill * (at[n] - at[m])
  BY <1>8 DEF RateKept, Spaced
<1> HIDE DEF at, cap, refill, level
(* The m-th time of those before, with one admission more *)
<1>11. ASSUME NEW m \in 1 .. Len(at)
       PROVE  /\ (Len(at) + 1 - m + 1) * Unit + (level - Unit) <= cap + refill * (now - at[m])
              /\ (Len(at) + 1 - m + 1) * Unit <= cap + refill * (now - at[m])
  <2>1. Len(at) - m + 1 \in Nat /\ Len(at) + 1 - m + 1 = (Len(at) - m + 1) + 1
    BY <1>8
  <2>2. (Len(at) + 1 - m + 1) * Unit = (Len(at) - m + 1) * Unit + Unit
    BY <2>1, <1>6, OneMore
  <2>3. (Len(at) - m + 1) * Unit \in Nat /\ refill * (now - at[m]) \in Nat
    BY <2>1, <1>6, <1>8, <1>9, ProductIsNat, SpanGrows
  <2> QED
    BY <2>2, <2>3, <1>5, <1>6, <1>9
<1>12. (Len(at) + 1 - (Len(at) + 1) + 1) * Unit = Unit /\ refill * (now - now) = 0
  <2>1. Len(at) + 1 - (Len(at) + 1) + 1 = 1 /\ now - now = 0
    BY <1>6, <1>8
  <2> QED
    BY <2>1, <1>6, ProductIsNat
<1>13. Within(i)'
  <2> SUFFICES ASSUME NEW m \in 1 .. Len(at) + 1
               PROVE  /\ history'[i][m] <= now
                      /\ (Len(at) + 1 - m + 1) * Unit + (level - Unit)
                           <= cap + refill * (now - history'[i][m])
    BY <1>3, <1>4, <1>8 DEF Within, cap, refill
  <2>1. CASE m \in 1 .. Len(at)
    BY <2>1, <1>8, <1>9, <1>11
  <2>2. CASE m = Len(at) + 1
    BY <2>2, <1>5, <1>6, <1>8, <1>12
  <2> QED
    BY <2>1, <2>2, <1>8
<1>14. Spaced(i)'
  <2> SUFFICES ASSUME NEW m \in 1 .. Len(at) + 1, NEW n \in m .. Len(at) + 1
               PROVE  (n - m + 1) * Unit
                        <= cap + refill * (history'[i][n] - history'[i][m])
    BY <1>3, <1>8 DEF Spaced, cap, refill
  <2>1. CASE m \in 1 .. Len(at) /\ n \in m .. Len(at)
    BY <2>1, <1>8, <1>10
  <2>2. CASE m \in 1 .. Len(at) /\ n = Len(at) + 1
    BY <2>2, <1>8, <1>11
  <2>3. CASE m = Len(at) + 1 /\ n = Len(at) + 1
    BY <2>3, <1>5, <1>6, <1>8, <1>12
  <2> QED
    BY <2>1, <2>2, <2>3, <1>8
<1>15. \A j \in Identity \ {i} : Within(j)' /\ Spaced(j)'
  BY <1>2, <1>3, <1>4 DEF RateKept, Within, Spaced
<1> QED
  BY <1>7, <1>13, <1>14, <1>15 DEF RateKept

LEMMA RefusedKeepsRate == ASSUME RateKept, Refused PROVE RateKept'
<1>1. PICK i \in Identity : ~Allowed(i) /\ Take(i)
  BY DEF Refused, Identity
<1>2. UNCHANGED <<env, now, history>> /\ Typed
  BY DEF Refused, RateKept
<1>3. \A j : LimitOf(j)' = LimitOf(j)
  BY <1>2 DEF LimitOf
<1>4. \A j \in Identity : Refilled(j)' = Refilled(j)
  BY <1>1, <1>2, TakeLeaves
<1>5. Typed'
  BY <1>1, <1>2, <1>3, TakeLeaves DEF Typed
<1> QED
  BY <1>2, <1>3, <1>4, <1>5 DEF RateKept, Within, Spaced

LEMMA TickKeepsRate == ASSUME RateKept, Tick PROVE RateKept'
<1>1. Typed /\ now' = now + 1 /\ now \in Nat /\ UNCHANGED <<env, bucket, history>>
  BY DEF RateKept, Tick, Typed, admission
<1>2. \A j : LimitOf(j)' = LimitOf(j)
  BY <1>1 DEF LimitOf
<1>3. Typed'
  BY <1>1, <1>2 DEF Typed
<1>4. ASSUME NEW i \in Identity
      PROVE  Within(i)' /\ Spaced(i)'
  <2> DEFINE cap == LimitOf(i).capacity
             refill == LimitOf(i).refill
  <2>1. cap \in Nat /\ refill \in Nat /\ Unit \in Nat
    BY <1>1, LimitIsNat, UnitIsNat DEF Typed
  <2>2. Refilled(i) \in Nat
    BY <1>1, RefilledIsLevel
  <2>3. Refilled(i)' \in Nat /\ Refilled(i)' <= Refilled(i) + refill
    <3>1. CASE i \in DOMAIN bucket
      <4> DEFINE kept == bucket[i].tokens
                 since == bucket[i].lastRefill
      <4>1. kept \in Nat /\ since \in Nat /\ since <= now /\ now - since \in Nat
        BY <1>1, <3>1 DEF Typed
      <4>2. (now' - since) * refill = (now - since) * refill + refill
        <5>1. now' - since = (now - since) + 1
          BY <1>1, <4>1
        <5> QED
          BY <5>1, <4>1, <2>1, OneMore
      <4>3. (now - since) * refill \in Nat
        BY <4>1, <2>1, ProductIsNat
      <4>4. Refilled(i) = Capped(kept + (now - since) * refill, i)
        BY <3>1 DEF Refilled
      <4>5. Refilled(i)' = Capped(kept + (now' - since) * refill, i)
        BY <1>1, <3>1 DEF Refilled, Capped, LimitOf
      <4> QED
        BY <4>1, <4>2, <4>3, <4>4, <4>5, <2>1 DEF Capped
    <3>2. CASE i \notin DOMAIN bucket
      BY <3>2, <1>1, <2>1 DEF Refilled, LimitOf
    <3> QED
      BY <3>1, <3>2
  <2>4. Within(i)'
    <3> SUFFICES ASSUME NEW m \in DOMAIN history[i]
                 PROVE  /\ history[i][m] <= now'
                        /\ (Len(history[i]) - m + 1) * Unit + Refilled(i)'
                             <= cap + refill * (now' - history[i][m])
      BY <1>1 DEF Within, LimitOf
    <3> DEFINE taken == (Len(history[i]) - m + 1) * Unit
               span == refill * (now - history[i][m])
    <3>1. /\ history[i] \in Seq(Nat) /\ m \in 1 .. Len(history[i])
          /\ history[i][m] \in Nat /\ history[i][m] <= now
          /\ taken + Refilled(i) <= cap + span
      BY <1>1 DEF RateKept, Within, Typed
    <3>2. span \in Nat /\ refill * (now' - history[i][m]) = span + refill
      <4> DEFINE at == history[i][m]
      <4>1. refill \in Nat /\ now \in Nat /\ at \in Nat /\ at <= now
        BY <3>1, <1>1, <2>1
      <4> HIDE DEF at, refill
      <4>2. refill * (now - at) \in Nat /\ refill * (now + 1 - at) = refill * (now - at) + refill
        BY <4>1, SpanGrows
      <4>3. now' - at = now + 1 - at
        BY <1>1, <4>1
      <4> QED
        BY <4>2, <4>3 DEF at
    <3>3. taken \in Nat
      <4>1. Len(history[i]) - m + 1 \in Nat
        BY <3>1
      <4> QED
        BY <4>1, <2>1, ProductIsNat
    <3>4. history[i][m] <= now'
      BY <3>1, <1>1
    <3>5. taken + Refilled(i)' <= cap + (span + refill)
      <4> HIDE DEF taken, span, cap, refill
      <4> QED
        BY <3>1, <3>2, <3>3, <2>1, <2>2, <2>3
    <3> QED
      BY <3>2, <3>4, <3>5
  <2> QED
    BY <2>4, <1>1, <1>2 DEF RateKept, Spaced
<1> QED
  BY <1>3, <1>4 DEF RateKept

(* A bucket is dropped only when it is full, which is what a new one is *)
LEMMA SweepKeepsRate == ASSUME RateKept, Sweep PROVE RateKept'
<1>1. Typed /\ UNCHANGED <<env, history, now>>
      /\ bucket' = [i \in { j \in DOMAIN bucket : ~Swept(j) } |-> bucket[i]]
  BY DEF RateKept, Sweep
<1>2. \A j : LimitOf(j)' = LimitOf(j)
  BY <1>1 DEF LimitOf
<1>3. Typed'
  BY <1>1, <1>2 DEF Typed
<1>4. ASSUME NEW j \in Identity
      PROVE  Refilled(j)' = Refilled(j)
  <2>1. CASE j \in DOMAIN bucket /\ Swept(j)
    <3>1. LimitOf(j).capacity \in Nat /\ LimitOf(j).refill \in Nat
      BY <1>1, LimitIsNat DEF Typed
    <3>2. now - bucket[j].lastRefill \in Nat /\ bucket[j].tokens \in Nat
          /\ bucket[j].tokens >= LimitOf(j).capacity
      BY <1>1, <2>1 DEF Typed, Swept
    <3>3. (now - bucket[j].lastRefill) * LimitOf(j).refill \in Nat
      BY <3>1, <3>2, ProductIsNat
    <3>4. Refilled(j) = LimitOf(j).capacity
      BY <2>1, <3>1, <3>2, <3>3, <1>1 DEF Refilled, Capped, Typed
    <3>5. Refilled(j)' = LimitOf(j).capacity
      BY <1>1, <1>2, <2>1 DEF Refilled
    <3> QED
      BY <3>4, <3>5
  <2>2. CASE j \in DOMAIN bucket /\ ~Swept(j)
    BY <2>2, <1>1, <1>2 DEF Refilled, Capped
  <2>3. CASE j \notin DOMAIN bucket
    BY <2>3, <1>1, <1>2 DEF Refilled
  <2> QED
    BY <2>1, <2>2, <2>3
<1> QED
  BY <1>1, <1>2, <1>3, <1>4 DEF RateKept, Within, Spaced

LEMMA BootKeepsRate == ASSUME RateKept, Boot PROVE RateKept'
<1>1. /\ Typed /\ UNCHANGED <<env, now>> /\ bucket' = Nothing
      /\ history' = [i \in Identity |-> <<>>]
  BY DEF RateKept, Boot, Typed
<1>2. DOMAIN bucket' = {} /\ \A i \in Identity : history'[i] = <<>>
  BY <1>1 DEF Nothing
<1>3. Typed'
  BY <1>1, <1>2 DEF Typed
<1> QED
  BY <1>2, <1>3 DEF RateKept, Within, Spaced

LEMMA RateKeptInit == Init => RateKept
<1> SUFFICES ASSUME Init PROVE RateKept
  OBVIOUS
<1>1. DOMAIN bucket = {} /\ history = [i \in Identity |-> <<>>] /\ now = 0
  BY DEF Init, Nothing, Identity
<1>2. Typed
  BY <1>1 DEF Typed, Init
<1> QED
  BY <1>1, <1>2 DEF RateKept, Within, Spaced

LEMMA RateKeptNext == RateKept /\ [Next]_vars => RateKept'
<1> SUFFICES ASSUME RateKept, [Next]_vars
             PROVE  RateKept'
  OBVIOUS
<1>1. CASE UNCHANGED <<env, admission, now>>
  <2>1. UNCHANGED <<env, bucket, history, now>>
    BY <1>1 DEF admission
  <2>2. \A i : LimitOf(i)' = LimitOf(i)
    BY <2>1 DEF LimitOf
  <2>3. \A i : Refilled(i)' = Refilled(i)
    BY <2>1, <2>2 DEF Refilled, Capped
  <2> QED
    BY <2>1, <2>2, <2>3 DEF RateKept, Typed, Within, Spaced
<1>2. CASE CreateKey
  BY <1>2, AdmittedKeepsRate DEF CreateKey, Identity
<1>3. CASE Revoke
  <2>1. PICK k \in Key : Admitted(k)
    BY <1>3 DEF Revoke
  <2> QED
    BY <1>3, <2>1, AdmittedKeepsRate DEF Revoke, Identity
<1>4. CASE AskPage \/ \E c \in Client : Begin(c)
  <2>1. Admitted(Tenant) /\ UNCHANGED <<env, now>> /\ Tenant \in Identity
    BY <1>4, FrontEndAssumption DEF AskPage, Begin, Identity
  <2> QED
    BY <2>1, AdmittedKeepsRate
<1>5. CASE Refused
  BY <1>5, RefusedKeepsRate
<1>6. CASE Tick
  BY <1>6, TickKeepsRate
<1>7. CASE Sweep
  BY <1>7, SweepKeepsRate
<1>8. CASE Boot
  BY <1>8, BootKeepsRate
<1>9. CASE Crash \/ AnswerPage \/ \E id \in Id : ReadListed(id)
  BY <1>1, <1>9 DEF Crash, AnswerPage, ReadListed
<1>10. CASE \E c \in Client : ReadExisting(c) \/ Write(c)
  BY <1>1, <1>10 DEF ReadExisting, Write
<1>11. CASE UNCHANGED vars
  BY <1>1, <1>11 DEF vars, admission
<1> QED
  BY <1>2, <1>3, <1>4, <1>5, <1>6, <1>7, <1>8, <1>9, <1>10, <1>11 DEF Next

(* An identity is admitted, over any span of one run of the process, at     *)
(* most a full bucket and what refills in that span, whatever capacity and  *)
(* refill its limit has and whatever sweep drops.  (rateLimit.js)           *)
THEOREM FrontEndRateBounded == Spec => []RateBounded
<1>1. RateKept => RateBounded
  BY DEF RateKept, Typed, Spaced, RateBounded
<1> QED
  BY <1>1, RateKeptInit, RateKeptNext, PTL DEF Spec

----------------------------------------------------------------------------
(* Types, and updates of documents.  What an open PATCH read is still what  *)
(* its document is, unless it was marked as crossed; then a write makes the *)
(* same of the document as it makes of the updates one after the other.     *)

Maps(U, V) == UNION { [S -> V] : S \in SUBSET U }
KeyMaps == Maps(Key, BOOLEAN)
Collections == Maps(Id, Document)
Requests ==
  [op : {"put", "patch", "delete"}, id : Id, body : Document, read : Document \cup {None},
   crossed : BOOLEAN]

Stored ==
  /\ env \in Environments
  /\ keys \in KeyMaps /\ file \in KeyMaps \cup {Torn}
  /\ docs \in Collections /\ merged \in Collections
  /\ request \in [Client -> Requests \cup {None}]
  /\ up => file # Torn
  /\ ~up => page = None /\ \A c \in Client : request[c] = None

ReadIsCurrent(r) ==
  r # None /\ r.read # None /\ ~r.crossed => r.id \in DOMAIN docs /\ docs[r.id] = r.read

Updated == UpdatesAreKept /\ \A c \in Client : ReadIsCurrent(request[c])

LEMMA EnvironmentFacts ==
  ASSUME env \in Environments
  PROVE  /\ env.issued \in SUBSET Key /\ env.ids \in SUBSET Id /\ env.bodies \in SUBSET Document
         /\ env.stored \in Collections
         /\ env.query.orderBy \in {"id", "rank", "note"} /\ env.query.limit \in Nat \ {0}
<1>1. env \in Environment
  BY FrontEndAssumption
<1> QED
  BY <1>1 DEF Environment, Collections, Maps

(* Putting and dropping keep the type of a map *)
LEMMA MapFacts ==
  ASSUME NEW U, NEW V, NEW f \in Maps(U, V), NEW x \in U
  PROVE  /\ \A v \in V : Put(f, x, v) \in Maps(U, V)
         /\ Drop(f, x) \in Maps(U, V)
<1>1. PICK S \in SUBSET U : f \in [S -> V]
  BY DEF Maps
<1>2. ASSUME NEW v \in V
      PROVE  Put(f, x, v) \in [S \cup {x} -> V]
  BY <1>1 DEF Put
<1>3. Drop(f, x) \in [S \ {x} -> V]
  BY <1>1 DEF Drop
<1>4. S \cup {x} \in SUBSET U /\ S \ {x} \in SUBSET U
  OBVIOUS
<1> QED
  BY <1>1, <1>2, <1>3, <1>4 DEF Maps

LEMMA MapDomain ==
  ASSUME NEW U, NEW V, NEW f \in Maps(U, V)
  PROVE  DOMAIN f \in SUBSET U /\ \A y \in DOMAIN f : f[y] \in V
BY DEF Maps

LEMMA MapIsMap == ASSUME NEW U, NEW V, NEW S \in SUBSET U, NEW f \in [S -> V] PROVE f \in Maps(U, V)
BY DEF Maps

LEMMA EmptyMap == ASSUME NEW U, NEW V PROVE Nothing \in Maps(U, V)
<1>1. Nothing \in [{} -> V] /\ {} \in SUBSET U
  BY DEF Nothing
<1> QED
  BY <1>1 DEF Maps

LEMMA MergedIsDocument ==
  ASSUME NEW doc \in Document, NEW patch \in Document
  PROVE  Merged(doc, patch) \in Document
<1>1. /\ doc.rank \in Value \cup {Missing} /\ doc.note \in Value \cup {Missing}
      /\ patch.rank \in Value \cup {Missing} /\ patch.note \in Value \cup {Missing}
  BY DEF Document
<1>2. Merged(doc, patch) =
        [rank |-> IF patch.rank = Missing THEN doc.rank ELSE patch.rank,
         note |-> IF patch.note = Missing THEN doc.note ELSE patch.note]
  BY DEF Merged
<1> QED
  BY <1>1, <1>2 DEF Document

(* A save leaves a map of keys, or a torn file and no process *)
LEMMA SavesKeepsStored ==
  ASSUME Stored, up, NEW k \in Key, NEW revoked \in BOOLEAN, Saves(Put(keys, k, revoked), k),
         UNCHANGED <<env, stores>>
  PROVE  Stored'
<1>1. Put(keys, k, revoked) \in KeyMaps
  BY MapFacts DEF Stored, KeyMaps
<1>2. Torn \notin KeyMaps
  BY FrontEndAssumption DEF KeyMaps, Maps
<1>3. Nothing \in KeyMaps
  BY EmptyMap DEF KeyMaps
<1>4. CASE /\ keys' = Put(keys, k, revoked) /\ file' = Saved(Put(keys, k, revoked))
           /\ UNCHANGED <<up, request, page>>
  BY <1>1, <1>2, <1>4 DEF Stored, Saved, stores
<1>5. CASE file' \in {Torn, Saved(Put(keys, k, revoked))} /\ Ends
  BY <1>1, <1>3, <1>5 DEF Stored, Saved, Ends, stores
<1> QED
  BY <1>4, <1>5 DEF Saves

LEMMA StoredInit == Init => Stored
<1> SUFFICES ASSUME Init PROVE Stored
  OBVIOUS
<1>1. [k \in env.issued |-> FALSE] \in KeyMaps
  BY EnvironmentFacts, MapIsMap DEF Init, KeyMaps
<1>2. Torn \notin KeyMaps
  BY FrontEndAssumption DEF KeyMaps, Maps
<1> QED
  BY <1>1, <1>2, EnvironmentFacts DEF Init, Stored

LEMMA WriteKeepsStored == ASSUME Stored, NEW c \in Client, Write(c) PROVE Stored'
<1> DEFINE r == request[c]
<1>1. r \in Requests /\ (r.op = "patch" => r.read # None)
  BY DEF Write, Stored
<1>2. /\ docs' = Written(r, docs, r.read)
      /\ merged' = IF r.op = "patch" /\ r.id \notin DOMAIN merged THEN merged
                   ELSE Written(r, merged, IF r.op = "patch" THEN merged[r.id] ELSE None)
      /\ request' = [d \in Client |->
           IF d = c \/ request[d] = None THEN None
           ELSE IF request[d].id = r.id /\ request[d].read # None
           THEN [request[d] EXCEPT !.crossed = TRUE] ELSE request[d]]
      /\ page = None => page' = None
      /\ UNCHANGED <<env, up, keys, file>>
  BY DEF Write, secrets
<1>3. /\ r.op \in {"put", "patch", "delete"} /\ r.id \in Id /\ r.body \in Document
      /\ r.op = "patch" => r.read \in Document
  BY <1>1 DEF Requests
<1>4. up
  BY <1>1 DEF Stored, Write
<1>5. ASSUME NEW ds \in Collections, NEW doc, r.op = "patch" => doc \in Document
      PROVE  Written(r, ds, doc) \in Collections
  <2> HIDE DEF r
  <2>1. r.op = "patch" => Merged(doc, r.body) \in Document
    BY <1>3, <1>5, MergedIsDocument
  <2>0. ds \in Maps(Id, Document)
    BY DEF Collections
  <2>2. /\ \A v \in Document : Put(ds, r.id, v) \in Collections
        /\ Drop(ds, r.id) \in Collections
    BY <1>3, <2>0, MapFacts DEF Collections
  <2> QED
    BY <1>3, <2>1, <2>2 DEF Written
<1>6. docs' \in Collections
  BY <1>2, <1>3, <1>5 DEF Stored
<1>7. merged' \in Collections
  <2>1. r.op = "patch" /\ r.id \in DOMAIN merged => merged[r.id] \in Document
    BY <1>3, MapDomain DEF Stored, Collections
  <2> QED
    BY <1>2, <1>5, <2>1 DEF Stored
<1>8. request' \in [Client -> Requests \cup {None}]
  <2>1. \A d \in Client : request[d] # None => [request[d] EXCEPT !.crossed = TRUE] \in Requests
    BY DEF Stored, Requests
  <2> QED
    BY <1>2, <2>1 DEF Stored
<1> QED
  BY <1>2, <1>4, <1>6, <1>7, <1>8 DEF Stored

LEMMA StoredNext == Stored /\ [Next]_vars => Stored'
<1> SUFFICES ASSUME Stored, [Next]_vars
             PROVE  Stored'
  OBVIOUS
<1>1. CASE UNCHANGED <<env, up, keys, file, docs, merged, request, page>>
  BY <1>1 DEF Stored
<1>2. CASE Tick \/ Sweep \/ Refused \/ UNCHANGED vars
  BY <1>1, <1>2 DEF Tick, Sweep, Refused, vars, secrets, stores
<1>3. CASE CreateKey
  <2>1. PICK k \in Key : Saves(Put(keys, k, FALSE), k)
    BY <1>3 DEF CreateKey
  <2> QED
    BY <1>3, <2>1, SavesKeepsStored DEF CreateKey, Asks, Asked
<1>4. CASE Revoke
  <2>1. PICK k \in Key : Saves(Put(keys, k, TRUE), k)
    BY <1>4 DEF Revoke
  <2> QED
    BY <1>4, <2>1, SavesKeepsStored DEF Revoke, Asks, Asked
<1>5. CASE Crash
  <2>1. Nothing \in KeyMaps
    BY EmptyMap DEF KeyMaps
  <2> QED
    BY <1>5, <2>1 DEF Crash, Ends, Stored, stores
<1>6. CASE Boot
  BY <1>6 DEF Boot, Stored, stores
<1>7. ASSUME NEW c \in Client, Begin(c)
      PROVE  Stored'
  <2>1. PICK op \in {"put", "patch", "delete"}, id \in env.ids, body \in env.bodies :
          request' = [request EXCEPT ![c] =
            [op |-> op, id |-> id, body |-> body, read |-> None, crossed |-> FALSE]]
    BY <1>7 DEF Begin
  <2>2. [op |-> op, id |-> id, body |-> body, read |-> None, crossed |-> FALSE] \in Requests
    BY EnvironmentFacts DEF Stored, Requests
  <2>3. up /\ UNCHANGED <<env, up, keys, file, docs, merged, page>>
    BY <1>7 DEF Begin, Asks, Asked, secrets, stores
  <2> QED
    BY <2>1, <2>2, <2>3 DEF Stored
<1>8. ASSUME NEW c \in Client, ReadExisting(c)
      PROVE  Stored'
  <2>1. request[c] \in Requests /\ UNCHANGED <<env, up, keys, file, docs, merged, page>>
    BY <1>8 DEF ReadExisting, Stored, secrets, stores
  <2>2. request[c].id \in DOMAIN docs => docs[request[c].id] \in Document
    BY MapDomain DEF Stored, Collections
  <2>3. \A d \in Document : [request[c] EXCEPT !.read = d] \in Requests
    BY <2>1 DEF Requests
  <2>4. request' \in [Client -> Requests \cup {None}]
    BY <1>8, <2>2, <2>3 DEF ReadExisting, Existing, Stored
  <2>5. up
    BY <1>8 DEF ReadExisting, Stored
  <2> QED
    BY <2>1, <2>4, <2>5 DEF Stored
<1>9. ASSUME NEW c \in Client, Write(c)
      PROVE  Stored'
  BY <1>9, WriteKeepsStored
<1>10. CASE AskPage
  BY <1>10 DEF AskPage, Asks, Asked, Stored, secrets, stores
<1>11. CASE \E id \in Id : ReadListed(id)
  BY <1>11 DEF ReadListed, Stored, secrets, stores
<1>12. CASE AnswerPage
  BY <1>12 DEF AnswerPage, Stored, secrets, stores
<1> QED
  BY <1>2, <1>3, <1>4, <1>5, <1>6, <1>7, <1>8, <1>9, <1>10, <1>11, <1>12 DEF Next

(* What runs has a key file that parses behind it, documents are documents, *)
(* buckets within their capacity, and no request outlives the process.      *)
(* (index.js, auth.js, rateLimit.js)                                        *)
THEOREM FrontEndTypeCorrect == Spec => []TypeOK
<1>1. Stored /\ RateKept => TypeOK
  <2> SUFFICES ASSUME Stored, RateKept PROVE TypeOK
    OBVIOUS
  <2>1. DOMAIN docs \subseteq Id /\ \A id \in DOMAIN docs : docs[id] \in Document
    BY MapDomain DEF Stored, Collections
  <2>2. ASSUME NEW i \in DOMAIN bucket
        PROVE  bucket[i].tokens \in 0 .. LimitOf(i).capacity /\ bucket[i].lastRefill <= now
    BY LimitIsNat DEF RateKept, Typed
  <2> QED
    BY <2>1, <2>2 DEF TypeOK, Stored
<1> QED
  BY <1>1, StoredInit, StoredNext, RateKeptInit, RateKeptNext, PTL DEF Spec

(* Where the documents and what they should be agree, a write keeps them so *)
LEMMA WriteKeepsUpdated == ASSUME Stored, Updated, NEW c \in Client, Write(c) PROVE Updated'
<1> DEFINE r == request[c]
<1>1. /\ r \in Requests /\ (r.op = "patch" => r.read # None) /\ ReadIsCurrent(r)
  BY DEF Write, Stored, Updated
<1>2. /\ docs' = Written(r, docs, r.read)
      /\ merged' = IF r.op = "patch" /\ r.id \notin DOMAIN merged THEN merged
                   ELSE Written(r, merged, IF r.op = "patch" THEN merged[r.id] ELSE None)
      /\ crossed' = IF r.op # "patch" THEN crossed \ {r.id}
                    ELSE IF r.crossed THEN crossed \cup {r.id} ELSE crossed
      /\ request' = [d \in Client |->
           IF d = c \/ request[d] = None THEN None
           ELSE IF request[d].id = r.id /\ request[d].read # None
           THEN [request[d] EXCEPT !.crossed = TRUE] ELSE request[d]]
      /\ r # None
  BY DEF Write
<1>3. r.op \in {"put", "patch", "delete"} /\ r.id \in Id
  BY <1>1 DEF Requests
<1>4. \A id \in Id \ crossed :
        /\ id \in DOMAIN docs <=> id \in DOMAIN merged
        /\ id \in DOMAIN docs => docs[id] = merged[id]
  BY DEF Updated, UpdatesAreKept
<1> HIDE DEF r
<1>5. ASSUME NEW id \in Id, id # r.id
      PROVE  /\ id \in DOMAIN docs' <=> id \in DOMAIN docs
             /\ id \in DOMAIN docs => docs'[id] = docs[id]
             /\ id \in DOMAIN merged' <=> id \in DOMAIN merged
             /\ id \in DOMAIN merged => merged'[id] = merged[id]
  BY <1>2, <1>3, <1>5 DEF Written, Put, Drop
<1>6. ASSUME r.id \notin crossed'
      PROVE  /\ r.id \in DOMAIN docs' <=> r.id \in DOMAIN merged'
             /\ r.id \in DOMAIN docs' => docs'[r.id] = merged'[r.id]
  <2>1. CASE r.op \in {"put", "delete"}
    BY <1>2, <2>1 DEF Written, Put, Drop
  <2>2. CASE r.op = "patch"
    <3>1. r.id \notin crossed /\ ~r.crossed
      BY <1>1, <1>2, <1>6, <2>2 DEF Requests
    <3>2. r.id \in DOMAIN docs /\ docs[r.id] = r.read
      BY <1>1, <1>2, <2>2, <3>1 DEF ReadIsCurrent
    <3>3. r.id \in DOMAIN merged /\ merged[r.id] = r.read
      BY <1>3, <1>4, <3>1, <3>2
    <3> QED
      BY <1>2, <2>2, <3>3 DEF Written, Put
  <2> QED
    BY <1>3, <2>1, <2>2
<1>7. UpdatesAreKept'
  <2> SUFFICES ASSUME NEW id \in Id \ crossed'
               PROVE  /\ id \in DOMAIN docs' <=> id \in DOMAIN merged'
                      /\ id \in DOMAIN docs' => docs'[id] = merged'[id]
    BY DEF UpdatesAreKept
  <2>1. CASE id = r.id
    BY <1>6, <2>1
  <2>2. CASE id # r.id
    <3>1. id \notin crossed
      BY <1>2, <2>2
    <3> QED
      BY <1>4, <1>5, <2>2, <3>1
  <2> QED
    BY <2>1, <2>2
<1>8. ASSUME NEW d \in Client
      PROVE  ReadIsCurrent(request[d])'
  <2>1. CASE d = c \/ request[d] = None
    BY <1>2, <2>1 DEF ReadIsCurrent
  <2>2. CASE d # c /\ request[d] # None
    <3>1. request[d] \in Requests /\ ReadIsCurrent(request[d])
      BY <2>2 DEF Stored, Updated
    <3>2. CASE request[d].id = r.id /\ request[d].read # None
      BY <1>2, <2>2, <3>1, <3>2 DEF ReadIsCurrent, Requests
    <3>3. CASE request[d].id # r.id
      <4>1. request'[d] = request[d] /\ request[d].id \in Id
        BY <1>2, <2>2, <3>1, <3>3 DEF Requests
      <4> QED
        BY <1>5, <3>1, <3>3, <4>1 DEF ReadIsCurrent
    <3>4. CASE request[d].read = None
      BY <1>2, <2>2, <3>4 DEF ReadIsCurrent
    <3> QED
      BY <3>2, <3>3, <3>4
  <2> QED
    BY <2>1, <2>2
<1> QED
  BY <1>7, <1>8 DEF Updated

LEMMA UpdatedNext == Stored /\ Updated /\ [Next]_vars => Updated'
<1> SUFFICES ASSUME Stored, Updated, [Next]_vars
             PROVE  Updated'
  OBVIOUS
<1>1. CASE UNCHANGED stores /\ \A c \in Client : request'[c] \in {request[c], None}
  BY <1>1 DEF Updated, UpdatesAreKept, ReadIsCurrent, stores
<1>2. CASE Tick \/ Sweep \/ Refused \/ AskPage \/ AnswerPage \/ UNCHANGED vars
  BY <1>1, <1>2 DEF Tick, Sweep, Refused, AskPage, AnswerPage, vars, stores
<1>3. CASE \E id \in Id : ReadListed(id)
  BY <1>1, <1>3 DEF ReadListed
<1>4. CASE CreateKey \/ Revoke
  BY <1>1, <1>4 DEF CreateKey, Revoke, Saves, Ends
<1>5. CASE Crash \/ Boot
  BY <1>1, <1>5 DEF Crash, Boot, Ends
<1>6. ASSUME NEW c \in Client, Begin(c)
      PROVE  Updated'
  <2>1. PICK op \in {"put", "patch", "delete"}, id \in env.ids, body \in env.bodies :
          request' = [request EXCEPT ![c] =
            [op |-> op, id |-> id, body |-> body, read |-> None, crossed |-> FALSE]]
    BY <1>6 DEF Begin
  <2>2. ASSUME NEW d \in Client
        PROVE  request'[d] = request[d] \/ request'[d].read = None
    BY <2>1 DEF Stored
  <2> QED
    BY <1>6, <2>2 DEF Begin, Updated, UpdatesAreKept, ReadIsCurrent, stores
<1>7. ASSUME NEW c \in Client, ReadExisting(c)
      PROVE  Updated'
  <2>1. /\ request[c] \in Requests /\ UNCHANGED stores
        /\ \/ /\ request[c].id \in DOMAIN docs
              /\ request' = [request EXCEPT ![c].read = docs[request[c].id]]
           \/ request' = [request EXCEPT ![c] = None]
    BY <1>7 DEF ReadExisting, Existing, Stored
  <2>2. ASSUME NEW d \in Client
        PROVE  ReadIsCurrent(request[d])'
    <3>1. CASE d # c
      BY <2>1, <3>1 DEF Stored, Updated, ReadIsCurrent, stores
    <3>2. CASE d = c
      BY <2>1, <3>2 DEF Stored, ReadIsCurrent, Requests, stores
    <3> QED
      BY <3>1, <3>2
  <2> QED
    BY <2>1, <2>2 DEF Updated, UpdatesAreKept, stores
<1> QED
  BY <1>2, <1>3, <1>4, <1>5, <1>6, <1>7, WriteKeepsUpdated DEF Next

(* A document that no other update crossed between the read and the write   *)
(* of a PATCH is what its updates make of it one after the other, for any   *)
(* clients, documents and interleaving, through crashes and restarts.       *)
(* (index.js)                                                               *)
THEOREM FrontEndUpdatesAreKept == Spec => []UpdatesAreKept
<1>1. Init => Updated
  BY DEF Init, Updated, UpdatesAreKept, ReadIsCurrent
<1>2. Updated => UpdatesAreKept
  BY DEF Updated
<1> QED
  BY <1>1, <1>2, StoredInit, StoredNext, UpdatedNext, PTL DEF Spec

----------------------------------------------------------------------------
(* The order of a page *)

LEMMA LessIsTotal ==
  ASSUME NEW a \in Nat \X Nat, NEW b \in Nat \X Nat, NEW c \in Nat \X Nat
  PROVE  /\ ~Less(a, a)
         /\ Less(a, b) \/ Less(b, a) \/ a = b
         /\ Less(a, b) => a # b /\ ~Less(b, a)
         /\ Less(a, b) /\ Less(b, c) => Less(a, c)
BY DEF Less

(* Whatever types the values of a field have and however many are missing   *)
(* or equal, a query puts documents in one order, ascending or descending:  *)
(* a page has a last document, and the documents after a cursor are those   *)
(* that no earlier page had.  (query.js: compare, applyQuery.)              *)
THEOREM FrontEndOneOrder ==
  ASSUME NEW D \in SUBSET Id, NEW found \in [D -> Document],
         NEW query, query.orderBy \in {"id", "rank", "note"},
         NEW d \in D, NEW e \in D, NEW f \in D
  PROVE  /\ ~Sorts(found, query, d, d)
         /\ d # e => (Sorts(found, query, d, e) <=> ~Sorts(found, query, e, d))
         /\ Sorts(found, query, d, e) /\ Sorts(found, query, e, f) => Sorts(found, query, d, f)
<1> DEFINE By(x) == OrderedBy(found, query, x)
<1>1. \A x \in D : x \in Nat /\ By(x) \in Nat \X Nat
  <2>1. \A x \in D : x \in Nat
    BY FrontEndAssumption
  <2>2. \A v \in Value \cup {Missing} : v \in Nat \X Nat
    BY FrontEndAssumption DEF Missing
  <2>3. \A x \in D : found[x].rank \in Nat \X Nat /\ found[x].note \in Nat \X Nat
    BY <2>2 DEF Document
  <2> QED
    BY <2>1, <2>3 DEF OrderedBy, StringType
<1>2. \A x, y \in D : Ascends(found, query, x, y) <=> Less(By(x), By(y)) \/ (By(x) = By(y) /\ x < y)
  BY DEF Ascends
<1> HIDE DEF By
<1>3. \A x, y, z \in D :
        /\ ~Less(By(x), By(x))
        /\ Less(By(x), By(y)) \/ Less(By(y), By(x)) \/ By(x) = By(y)
        /\ Less(By(x), By(y)) => By(x) # By(y) /\ ~Less(By(y), By(x))
        /\ Less(By(x), By(y)) /\ Less(By(y), By(z)) => Less(By(x), By(z))
  BY <1>1, LessIsTotal
<1>4. \A x, y, z \in D :
        /\ ~Ascends(found, query, x, x)
        /\ x # y => (Ascends(found, query, x, y) <=> ~Ascends(found, query, y, x))
        /\ Ascends(found, query, x, y) /\ Ascends(found, query, y, z)
             => Ascends(found, query, x, z)
  <2> TAKE x, y, z \in D
  <2>1. ~Ascends(found, query, x, x)
    BY <1>1, <1>2, <1>3
  <2>2. x # y => (Ascends(found, query, x, y) <=> ~Ascends(found, query, y, x))
    BY <1>1, <1>2, <1>3
  <2>3. Ascends(found, query, x, y) /\ Ascends(found, query, y, z) => Ascends(found, query, x, z)
    BY <1>1, <1>2, <1>3
  <2> QED
    BY <2>1, <2>2, <2>3
<1> QED
  BY <1>4 DEF Sorts

----------------------------------------------------------------------------
(* Pages.  A client's cursor splits the documents that nobody touched into  *)
(* those the pages had, each once, and those still to come.                 *)

Pages ==
  [state : {"reading", "more", "done"}, ids : SUBSET Id, found : Collections,
   cursor : Id \cup {None}, times : [Id -> Nat], steady : SUBSET Id, firm : BOOLEAN]

(* What was read of an untouched document is what it is *)
FoundIsCurrent ==
  page.state = "reading" =>
    \A id \in page.steady \ page.ids : id \in DOMAIN page.found /\ page.found[id] = docs[id]

Passed(id) == page.cursor # None /\ ~Sorts(docs, env.query, page.cursor, id)

PassedOnce ==
  page.state # "done" /\ page.firm /\ page.cursor \in page.steady \cup {None} =>
    \A id \in page.steady :
      page.times[id] = IF Matches(docs[id], env.query) /\ Passed(id) THEN 1 ELSE 0

Paged ==
  page # None => /\ page \in Pages /\ page.steady \subseteq DOMAIN docs
                 /\ FoundIsCurrent /\ PassedOnce /\ PagesExact
(* A strict order of a finite set has a last element: one with no element   *)
(* after it.                                                                *)
LEMMA FiniteHasLast ==
  ASSUME NEW T, IsFiniteSet(T), T # {}, NEW R,
         \A a \in T : <<a, a>> \notin R,
         \A a, b, c \in T : <<a, b>> \in R /\ <<b, c>> \in R => <<a, c>> \in R
  PROVE  \E d \in T : \A e \in T : <<d, e>> \notin R
<1> DEFINE After(d) == { e \in T : <<d, e>> \in R }
           U == { After(d) : d \in T }
<1>1. IsWellFoundedOn(StrictSubsetOrdering(T), SUBSET T)
  BY FS_StrictSubsetOrderingWellFounded, FS_FiniteSubsetsOfFinite
<1>2. U \subseteq SUBSET T /\ U # {}
  <2>1. PICK d \in T : TRUE
    OBVIOUS
  <2>2. After(d) \in U
    OBVIOUS
  <2>3. U \subseteq SUBSET T
    OBVIOUS
  <2> HIDE DEF U
  <2> QED
    BY <2>2, <2>3
<1>3. PICK x \in U : \A y \in U : <<y, x>> \notin StrictSubsetOrdering(T)
  <2> HIDE DEF U
  <2> QED
    BY <1>1, <1>2, WFMin
<1>4. PICK d \in T : x = After(d)
  OBVIOUS
<1>5. ASSUME NEW e \in T, <<d, e>> \in R
      PROVE  FALSE
  <2>1. After(e) \subseteq After(d)
    BY <1>5
  <2>2. e \in After(d) /\ e \notin After(e)
    BY <1>5
  <2>3. <<After(e), After(d)>> \in StrictSubsetOrdering(T)
    <3>1. After(e) # After(d) /\ After(e) \in SUBSET T /\ After(d) \in SUBSET T
      BY <2>2
    <3> HIDE DEF After
    <3> QED
      BY <2>1, <3>1 DEF StrictSubsetOrdering
  <2> QED
    BY <1>3, <1>4, <2>3
<1> QED
  BY <1>5

(* What one page is of the documents after a cursor: all of them if they    *)
(* fit, else some, with a last one, and those that sort before another on   *)
(* the page.                                                                *)
LEMMA PageFacts ==
  ASSUME NEW D \in SUBSET Id, NEW found \in [D -> Document],
         NEW query, query.orderBy \in {"id", "rank", "note"}, query.limit \in Nat \ {0},
         NEW rest \in SUBSET D
  PROVE  /\ PageOf(found, query, rest) \subseteq rest
         /\ ~More(query, rest) => PageOf(found, query, rest) = rest
         /\ More(query, rest) =>
              \E d \in PageOf(found, query, rest) : \A e \in PageOf(found, query, rest) :
                e = d \/ Sorts(found, query, e, d)
         /\ \A d \in PageOf(found, query, rest), e \in rest :
              Sorts(found, query, e, d) => e \in PageOf(found, query, rest)
<1> DEFINE Before(d) == { e \in rest : Sorts(found, query, e, d) }
           first == PageOf(found, query, rest)
           R == { p \in rest \X rest : Sorts(found, query, p[1], p[2]) }
           Q == { p \in rest \X rest : Sorts(found, query, p[2], p[1]) }
<1>1. IsFiniteSet(rest)
  BY FS_Subset, FrontEndAssumption
<1>2. \A d \in rest : IsFiniteSet(Before(d)) /\ Cardinality(Before(d)) \in Nat
  <2> TAKE d \in rest
  <2>1. Before(d) \in SUBSET rest
    OBVIOUS
  <2> HIDE DEF Before
  <2> QED
    BY <1>1, <2>1, FS_Subset, FS_CardinalityType
<1>3. first = { d \in rest : Cardinality(Before(d)) < query.limit }
  BY DEF PageOf
<1>4. /\ \A a \in rest : ~Sorts(found, query, a, a)
      /\ \A a, b \in rest : a # b => (Sorts(found, query, a, b) <=> ~Sorts(found, query, b, a))
      /\ \A a, b, c \in rest : Sorts(found, query, a, b) /\ Sorts(found, query, b, c)
           => Sorts(found, query, a, c)
  BY FrontEndOneOrder
<1>5. first \subseteq rest
  BY <1>3
<1>6. ASSUME ~More(query, rest)
      PROVE  first = rest
  <2>1. Cardinality(rest) \in Nat /\ Cardinality(rest) =< query.limit
    BY <1>1, <1>6, FS_CardinalityType DEF More
  <2>2. ASSUME NEW d \in rest
        PROVE  Cardinality(Before(d)) < query.limit
    <3>1. Before(d) \in SUBSET rest /\ Before(d) # rest
      BY <1>4
    <3>2. Cardinality(Before(d)) =< Cardinality(rest) /\ Cardinality(Before(d)) # Cardinality(rest)
      <4> HIDE DEF Before
      <4> QED
        BY <1>1, <3>1, FS_Subset
    <3>3. Cardinality(Before(d)) \in Nat
      BY <1>2
    <3> HIDE DEF Before
    <3> QED
      BY <2>1, <3>2, <3>3
  <2> QED
    BY <1>3, <2>2
<1>7. ASSUME NEW d \in first, NEW e \in rest, Sorts(found, query, e, d)
      PROVE  e \in first
  <2>1. d \in rest /\ Cardinality(Before(d)) < query.limit
    BY <1>3
  <2>2. Before(e) \in SUBSET Before(d)
    BY <1>4, <1>7, <2>1
  <2>3. /\ Cardinality(Before(e)) =< Cardinality(Before(d))
        /\ Cardinality(Before(e)) \in Nat /\ Cardinality(Before(d)) \in Nat
    <3>1. IsFiniteSet(Before(d)) /\ Cardinality(Before(e)) \in Nat /\ Cardinality(Before(d)) \in Nat
      BY <1>2, <2>1
    <3> HIDE DEF Before
    <3> QED
      BY <2>2, <3>1, FS_Subset
  <2>4. Cardinality(Before(e)) < query.limit
    <3> HIDE DEF Before
    <3> QED
      BY <2>1, <2>3
  <2> QED
    BY <1>3, <2>4
<1>8. ASSUME More(query, rest)
      PROVE  \E d \in first : \A e \in first : e = d \/ Sorts(found, query, e, d)
  <2>1. rest # {}
    BY <1>8, FS_EmptySet DEF More
  <2>2. PICK d \in rest : \A e \in rest : <<d, e>> \notin Q
    <3>1. \A a \in rest : <<a, a>> \notin Q
      BY <1>4
    <3>2. \A a, b, c \in rest : <<a, b>> \in Q /\ <<b, c>> \in Q => <<a, c>> \in Q
      BY <1>4
    <3> HIDE DEF Q
    <3> QED
      BY <1>1, <2>1, <3>1, <3>2, FiniteHasLast
  <2>3. Before(d) = {}
    BY <2>2
  <2>4. d \in first
    <3>1. Cardinality(Before(d)) = 0
      BY <2>3, FS_EmptySet
    <3> HIDE DEF Before
    <3> QED
      BY <1>3, <3>1
  <2>5. IsFiniteSet(first) /\ first # {}
    BY <1>1, <1>5, <2>4, FS_Subset
  <2>6. PICK last \in first : \A e \in first : <<last, e>> \notin R
    <3>1. \A a \in first : <<a, a>> \notin R
      BY <1>4, <1>5
    <3>2. \A a, b, c \in first : <<a, b>> \in R /\ <<b, c>> \in R => <<a, c>> \in R
      BY <1>4, <1>5
    <3> HIDE DEF R, first
    <3> QED
      BY <2>5, <3>1, <3>2, FiniteHasLast
  <2>7. \A e \in first : e = last \/ Sorts(found, query, e, last)
    BY <1>4, <1>5, <2>6
  <2> QED
    BY <2>7
<1> QED
  BY <1>5, <1>6, <1>7, <1>8

(* The order of two documents depends on the two *)
LEMMA SortsLocally ==
  ASSUME NEW found, NEW query, NEW others, NEW d, NEW e,
         found[d] = others[d], found[e] = others[e]
  PROVE  Sorts(found, query, d, e) <=> Sorts(others, query, d, e)
BY DEF Sorts, Ascends, OrderedBy

(* A page is begun, read and answered; the documents and the query are      *)
(* those of the moment.                                                     *)
LEMMA AskKeepsPaged == ASSUME Stored, Paged, AskPage PROVE Paged'
<1>1. /\ page' =
           IF page # None => page.state = "done"
           THEN [state |-> "reading", ids |-> DOMAIN docs, found |-> Nothing, cursor |-> None,
                 times |-> [id \in Id |-> 0], steady |-> DOMAIN docs, firm |-> TRUE]
           ELSE [page EXCEPT !.state = "reading", !.ids = DOMAIN docs, !.found = Nothing]
      /\ docs' = docs /\ env' = env
  BY DEF AskPage, stores
<1>2. DOMAIN docs \in SUBSET Id /\ Nothing \in Collections
  BY MapDomain, EmptyMap DEF Stored, Collections
<1>3. CASE page # None => page.state = "done"
  <2>1. page' = [state |-> "reading", ids |-> DOMAIN docs, found |-> Nothing, cursor |-> None,
                 times |-> [id \in Id |-> 0], steady |-> DOMAIN docs, firm |-> TRUE]
    BY <1>1, <1>3
  <2>2. page' \in Pages
    BY <1>2, <2>1 DEF Pages
  <2>3. /\ page'.state = "reading" /\ page'.ids = DOMAIN docs /\ page'.steady = DOMAIN docs
        /\ page'.cursor = None /\ page'.times = [id \in Id |-> 0]
    BY <2>1
  <2>4. PassedOnce'
    BY <1>1, <1>2, <2>3 DEF PassedOnce, Passed
  <2>5. FoundIsCurrent' /\ PagesExact'
    BY <2>3 DEF FoundIsCurrent, PagesExact
  <2> QED
    BY <1>1, <2>2, <2>3, <2>4, <2>5 DEF Paged
<1>4. CASE ~(page # None => page.state = "done")
  <2>1. /\ page' = [page EXCEPT !.state = "reading", !.ids = DOMAIN docs, !.found = Nothing]
        /\ page \in Pages /\ page.state # "done" /\ PassedOnce /\ page.steady \subseteq DOMAIN docs
    BY <1>1, <1>4 DEF Paged
  <2>2. page' \in Pages
    BY <1>2, <2>1 DEF Pages
  <2>3. /\ page'.state = "reading" /\ page'.ids = DOMAIN docs /\ page'.steady = page.steady
        /\ page'.cursor = page.cursor /\ page'.times = page.times /\ page'.firm = page.firm
    BY <2>1 DEF Pages
  <2>4. PassedOnce'
    BY <1>1, <2>1, <2>3 DEF PassedOnce, Passed
  <2>5. FoundIsCurrent' /\ PagesExact'
    BY <2>1, <2>3 DEF FoundIsCurrent, PagesExact
  <2> QED
    BY <1>1, <2>1, <2>2, <2>3, <2>4, <2>5 DEF Paged
<1> QED
  BY <1>3, <1>4

LEMMA ReadKeepsPaged == ASSUME Stored, Paged, NEW id \in Id, ReadListed(id) PROVE Paged'
<1>1. /\ page # None /\ page \in Pages /\ page.state = "reading" /\ id \in page.ids
      /\ page.steady \subseteq DOMAIN docs /\ FoundIsCurrent /\ PassedOnce
      /\ docs' = docs /\ env' = env
  BY DEF ReadListed, Paged, stores
<1>2. PICK found \in Collections, steady \in SUBSET page.steady :
        /\ page' = [page EXCEPT !.ids = @ \ {id}, !.found = found, !.steady = steady]
        /\ \A x \in steady \ (page.ids \ {id}) : x \in DOMAIN found /\ found[x] = docs[x]
  <2>1. CASE page' = [page EXCEPT !.ids = @ \ {id},
                        !.found = IF id \in DOMAIN docs THEN Put(@, id, docs[id]) ELSE @]
    <3> DEFINE found == IF id \in DOMAIN docs THEN Put(page.found, id, docs[id]) ELSE page.found
    <3>1. found \in Collections
      <4>1. page.found \in Maps(Id, Document)
        BY <1>1 DEF Pages, Collections
      <4>2. id \in DOMAIN docs => docs[id] \in Document
        BY MapDomain DEF Stored, Collections
      <4> QED
        BY <4>1, <4>2, MapFacts DEF Collections
    <3>2. page' = [page EXCEPT !.ids = @ \ {id}, !.found = found, !.steady = page.steady]
      BY <1>1, <2>1 DEF Pages
    <3>3. \A x \in page.steady \ (page.ids \ {id}) : x \in DOMAIN found /\ found[x] = docs[x]
      BY <1>1 DEF FoundIsCurrent, Put
    <3> HIDE DEF found
    <3> QED
      BY <3>1, <3>2, <3>3
  <2>2. CASE page' = [page EXCEPT !.ids = @ \ {id}, !.steady = @ \ {id}]
    <3> DEFINE steady == page.steady \ {id}
    <3>1. page' = [page EXCEPT !.ids = @ \ {id}, !.found = page.found, !.steady = steady]
      BY <1>1, <2>2 DEF Pages
    <3>2. \A x \in steady \ (page.ids \ {id}) : x \in DOMAIN page.found /\ page.found[x] = docs[x]
      BY <1>1 DEF FoundIsCurrent
    <3>3. page.found \in Collections /\ steady \in SUBSET page.steady
      BY <1>1 DEF Pages
    <3> HIDE DEF steady
    <3> QED
      BY <3>1, <3>2, <3>3
  <2> QED
    BY <2>1, <2>2 DEF ReadListed
<1>3. page' \in Pages
  BY <1>1, <1>2 DEF Pages
<1>4. /\ page'.state = "reading" /\ page'.ids = page.ids \ {id} /\ page'.found = found
      /\ page'.steady = steady /\ page'.cursor = page.cursor /\ page'.times = page.times
      /\ page'.firm = page.firm
  BY <1>1, <1>2 DEF Pages
<1>5. FoundIsCurrent' /\ PagesExact'
  BY <1>1, <1>2, <1>4 DEF FoundIsCurrent, PagesExact
<1>6. PassedOnce'
  BY <1>1, <1>4 DEF PassedOnce, Passed
<1> QED
  BY <1>1, <1>3, <1>4, <1>5, <1>6 DEF Paged

(* The document that is written is untouched no longer *)
LEMMA WriteKeepsPaged == ASSUME Stored, Paged, NEW c \in Client, Write(c) PROVE Paged'
<1> DEFINE r == request[c]
<1>1. /\ r \in Requests /\ env' = env
      /\ docs' = Written(r, docs, r.read)
      /\ page' = IF page = None THEN None ELSE [page EXCEPT !.steady = @ \ {r.id}]
  BY DEF Write, Stored
<1>2. \A id : id # r.id => (id \in DOMAIN docs' <=> id \in DOMAIN docs)
                           /\ (id \in DOMAIN docs => docs'[id] = docs[id])
  BY <1>1 DEF Written, Put, Drop, Requests
<1> HIDE DEF r
<1>3. CASE page # None
  <2>1. /\ page \in Pages /\ page.steady \subseteq DOMAIN docs
        /\ FoundIsCurrent /\ PassedOnce /\ PagesExact
        /\ page' = [page EXCEPT !.steady = @ \ {r.id}]
    BY <1>1, <1>3 DEF Paged
  <2>2. page' \in Pages
    BY <2>1 DEF Pages
  <2>3. /\ page'.state = page.state /\ page'.ids = page.ids /\ page'.found = page.found
        /\ page'.steady = page.steady \ {r.id} /\ page'.cursor = page.cursor
        /\ page'.times = page.times /\ page'.firm = page.firm
    BY <2>1 DEF Pages
  <2>4. page'.steady \subseteq DOMAIN docs' /\ \A id \in page'.steady : docs'[id] = docs[id]
    BY <1>2, <2>1, <2>3
  <2>5. FoundIsCurrent' /\ PagesExact'
    BY <1>1, <1>3, <2>1, <2>3, <2>4 DEF FoundIsCurrent, PagesExact
  <2>6. PassedOnce'
    <3> SUFFICES ASSUME page'.state # "done", page'.firm, page'.cursor \in page'.steady \cup {None},
                        NEW id \in page'.steady
                 PROVE  page'.times[id] =
                          IF Matches(docs'[id], env'.query) /\ Passed(id)' THEN 1 ELSE 0
      BY DEF PassedOnce
    <3>1. docs'[id] = docs[id] /\ id \in page.steady /\ page.cursor \in page.steady \cup {None}
      BY <2>3, <2>4
    <3>2. page.cursor # None => docs'[page.cursor] = docs[page.cursor]
      BY <2>3, <2>4
    <3>3. Passed(id)' <=> Passed(id)
      BY <1>1, <2>3, <3>1, <3>2 DEF Passed, Sorts, Ascends, OrderedBy
    <3> QED
      BY <1>1, <2>1, <2>3, <3>1, <3>3 DEF PassedOnce
  <2> QED
    BY <2>2, <2>4, <2>5, <2>6 DEF Paged
<1>4. CASE page = None
  BY <1>1, <1>4 DEF Paged
<1> QED
  BY <1>3, <1>4

(* The documents after the cursor that are on the page are passed now, those*)
(* behind it are not yet, and after the last page all are.                  *)
LEMMA AnswerKeepsPaged == ASSUME Stored, Paged, AnswerPage PROVE Paged'
<1> DEFINE found == page.found
           query == env.query
           cursor == page.cursor
           rest == Rest(found, query, cursor, None)
           first == PageOf(found, query, rest)
           last == CHOOSE d \in first : \A e \in first : e = d \/ Sorts(found, query, e, d)
           more == More(query, rest)
           times == [d \in Id |-> IF d \in first THEN page.times[d] + 1 ELSE page.times[d]]
           firm == page.firm /\ cursor \in page.steady \cup {None}
<1>1. /\ page # None /\ page.state = "reading" /\ page.ids = {}
      /\ page \in Pages /\ page.steady \subseteq DOMAIN docs /\ FoundIsCurrent /\ PassedOnce
      /\ docs' = docs /\ env' = env
  BY DEF AnswerPage, Paged, stores
<1>2. \/ page' = None
      \/ /\ cursor # None => cursor \in Filtered(found, query)
         /\ page' = [page EXCEPT
                       !.state = IF more THEN "more" ELSE "done",
                       !.cursor = IF more THEN last ELSE None,
                       !.found = Nothing, !.times = times, !.firm = firm]
  BY <1>1 DEF AnswerPage, Pages
<1>3. /\ found \in Collections /\ cursor \in Id \cup {None} /\ page.times \in [Id -> Nat]
      /\ page.steady \in SUBSET Id /\ page.firm \in BOOLEAN
  BY <1>1 DEF Pages
<1>4. /\ query.orderBy \in {"id", "rank", "note"} /\ query.limit \in Nat \ {0}
  BY EnvironmentFacts DEF Stored
<1>5. \A id \in page.steady : id \in DOMAIN found /\ found[id] = docs[id]
  BY <1>1 DEF FoundIsCurrent
<1>6. PICK D \in SUBSET Id : found \in [D -> Document]
  BY <1>3 DEF Collections, Maps
<1>7. rest \in SUBSET D
  BY <1>6 DEF Rest, Filtered
<1>8. /\ first \subseteq rest
      /\ ~more => first = rest
      /\ more => \E d \in first : \A e \in first : e = d \/ Sorts(found, query, e, d)
      /\ \A d \in first, e \in rest : Sorts(found, query, e, d) => e \in first
  <2> HIDE DEF rest, found, query
  <2> QED
    BY <1>4, <1>6, <1>7, PageFacts
<1>9. more => last \in first /\ \A e \in first : e = last \/ Sorts(found, query, e, last)
  <2> HIDE DEF first, found, query, more
  <2> QED
    BY <1>8
<1>10. CASE page' = None
  BY <1>10 DEF Paged
<1>11. CASE page' # None
  <2>1. /\ cursor # None => cursor \in Filtered(found, query)
        /\ page' = [page EXCEPT
                      !.state = IF more THEN "more" ELSE "done",
                      !.cursor = IF more THEN last ELSE None,
                      !.found = Nothing, !.times = times, !.firm = firm]
    BY <1>2, <1>11
  <2>2. page' \in Pages
    <3>1. Nothing \in Collections
      BY EmptyMap DEF Collections
    <3>2. times \in [Id -> Nat]
      BY <1>3
    <3>3. more => last \in Id
      BY <1>7, <1>8, <1>9
    <3>4. firm \in BOOLEAN
      BY <1>3
    <3> HIDE DEF times, firm, more, last
    <3> QED
      BY <1>1, <2>1, <3>1, <3>2, <3>3, <3>4 DEF Pages
  <2>3. /\ page'.state = (IF more THEN "more" ELSE "done")
        /\ page'.cursor = (IF more THEN last ELSE None)
        /\ page'.times = times /\ page'.steady = page.steady /\ (page'.firm <=> firm)
    <3> HIDE DEF times, firm, more, last
    <3> QED
      BY <1>1, <2>1 DEF Pages
  (* What the order says of an untouched document, the cursor and the page *)
  <2>4. ASSUME firm, NEW id \in page.steady
        PROVE  /\ id \in rest <=> Matches(docs[id], query)
                                  /\ (cursor = None \/ Sorts(found, query, cursor, id))
               /\ page.times[id] = IF /\ Matches(docs[id], query) /\ cursor # None
                                      /\ ~Sorts(found, query, cursor, id)
                                   THEN 1 ELSE 0
    <3>1. id \in DOMAIN found /\ found[id] = docs[id]
      BY <1>5
    <3>2. id \in rest <=> Matches(docs[id], query)
                          /\ (cursor = None \/ Sorts(found, query, cursor, id))
      BY <3>1 DEF Rest, Filtered
    <3>3. cursor # None => (Sorts(found, query, cursor, id) <=> Sorts(docs, query, cursor, id))
      <4>1. cursor # None => found[cursor] = docs[cursor]
        BY <1>5, <2>4
      <4> QED
        BY <3>1, <4>1, SortsLocally
    <3>4. page.times[id] = IF Matches(docs[id], query) /\ Passed(id) THEN 1 ELSE 0
      BY <1>1, <2>4 DEF PassedOnce
    <3> QED
      BY <3>2, <3>3, <3>4 DEF Passed
  <2>5. ASSUME firm, NEW id \in page.steady, Matches(docs[id], query), id \notin rest
        PROVE  cursor # None /\ ~Sorts(found, query, cursor, id) /\ page.times[id] = 1
    BY <2>4, <2>5
  <2>6. ASSUME firm, NEW id \in page.steady
        PROVE  times[id] = IF Matches(docs[id], query) /\ (id \in rest => id \in first)
                           THEN 1 ELSE 0
    <3>1. times[id] = IF id \in first THEN page.times[id] + 1 ELSE page.times[id]
      BY <1>3
    <3>2. id \in first => id \in rest
      BY <1>8
    <3> HIDE DEF times, first, rest, firm, found, query, cursor
    <3> QED
      BY <2>4, <2>6, <3>1, <3>2
  <2>7. PagesExact'
    <3> SUFFICES ASSUME page'.state = "done", page'.firm, NEW id \in page'.steady
                 PROVE  page'.times[id] = IF Matches(docs'[id], env'.query) THEN 1 ELSE 0
      BY DEF PagesExact
    <3>1. ~more /\ firm /\ id \in page.steady
      BY <2>3
    <3>2. id \in rest => id \in first
      BY <1>8, <3>1
    <3> HIDE DEF first, rest, times, firm
    <3> QED
      BY <1>1, <2>3, <2>6, <3>1, <3>2
  <2>8. PassedOnce'
    <3> SUFFICES ASSUME page'.state # "done", page'.firm, page'.cursor \in page'.steady \cup {None},
                        NEW id \in page'.steady
                 PROVE  page'.times[id] =
                          IF Matches(docs'[id], env'.query) /\ Passed(id)' THEN 1 ELSE 0
      BY DEF PassedOnce
    <3>1. more /\ firm /\ id \in page.steady /\ page'.cursor = last
      BY <2>3
    <3>2. last \in first /\ last \in rest /\ last \in D /\ last # None
      BY <1>7, <1>8, <1>9, <3>1, FrontEndAssumption
    <3>3. last \in page.steady
      BY <2>3, <3>1, <3>2
    <3>4. Passed(id)' <=> ~Sorts(found, query, last, id)
      <4>1. found[last] = docs[last] /\ found[id] = docs[id]
        BY <1>5, <3>1, <3>3
      <4> HIDE DEF found, last, query
      <4>2. Sorts(found, query, last, id) <=> Sorts(docs, query, last, id)
        BY <4>1, SortsLocally
      <4> QED
        BY <1>1, <3>1, <3>2, <4>2 DEF Passed, query
    <3>5. id \in D
      BY <1>5, <1>6, <3>1
    <3>6. ASSUME id \in first
          PROVE  ~Sorts(found, query, last, id)
      <4>1. id = last \/ Sorts(found, query, id, last)
        BY <1>9, <3>1, <3>6
      <4> HIDE DEF found, last, query, first
      <4> QED
        BY <1>4, <1>6, <3>2, <3>5, <4>1, FrontEndOneOrder
    <3>7. ASSUME id \in rest, id \notin first
          PROVE  Sorts(found, query, last, id)
      <4>1. id # last /\ ~Sorts(found, query, id, last)
        BY <1>8, <3>2, <3>7
      <4> HIDE DEF found, last, query, first, rest
      <4> QED
        BY <1>4, <1>6, <3>2, <3>5, <4>1, FrontEndOneOrder
    <3>8. ASSUME id \notin rest, Matches(docs[id], query)
          PROVE  ~Sorts(found, query, last, id)
      <4>1. cursor # None /\ ~Sorts(found, query, cursor, id)
        BY <2>5, <3>1, <3>8
      <4>2. cursor \in D /\ Sorts(found, query, cursor, last)
        BY <1>6, <2>1, <3>2, <4>1 DEF Rest, Filtered
      <4> HIDE DEF found, last, query, first, rest, cursor
      <4> QED
        BY <1>4, <1>6, <3>2, <3>5, <4>1, <4>2, FrontEndOneOrder
    <3>9. page'.times[id] = IF Matches(docs[id], query) /\ (id \in rest => id \in first)
                            THEN 1 ELSE 0
      BY <2>3, <2>6, <3>1
    <3>10. id \in first => id \in rest
      BY <1>8
    <3>11. docs' = docs /\ env'.query = query
      BY <1>1
    <3> HIDE DEF found, last, query, first, rest, cursor, times, more, firm
    <3> QED
      BY <3>4, <3>6, <3>7, <3>8, <3>9, <3>10, <3>11
  <2>9. FoundIsCurrent'
    BY <2>3 DEF FoundIsCurrent
  <2> QED
    BY <1>1, <2>2, <2>3, <2>7, <2>8, <2>9 DEF Paged
<1> QED
  BY <1>10, <1>11

LEMMA PagedNext == Stored /\ Paged /\ [Next]_vars => Paged'
<1> SUFFICES ASSUME Stored, Paged, [Next]_vars
             PROVE  Paged'
  OBVIOUS
<1>1. CASE UNCHANGED <<env, docs>> /\ page' \in {page, None}
  BY <1>1 DEF Paged, FoundIsCurrent, PassedOnce, Passed, PagesExact
<1>2. CASE Tick \/ Sweep \/ Refused \/ Crash \/ Boot \/ UNCHANGED vars
  BY <1>1, <1>2 DEF Tick, Sweep, Refused, Crash, Boot, Ends, vars, stores
<1>3. CASE CreateKey \/ Revoke
  BY <1>1, <1>3 DEF CreateKey, Revoke, Saves, Ends, stores
<1>4. CASE \E c \in Client : Begin(c) \/ ReadExisting(c)
  BY <1>1, <1>4 DEF Begin, ReadExisting, stores
<1> QED
  BY <1>2, <1>3, <1>4, WriteKeepsPaged, AskKeepsPaged, ReadKeepsPaged, AnswerKeepsPaged DEF Next

(* A client that follows the cursors to the end gets every document that    *)
(* was there and untouched all along exactly once if it matches, and never  *)
(* if not, for any query, limit, order and types of values, however others  *)
(* write, delete and move documents between and within its pages.           *)
(* (query.js: applyQuery; colony.js: list)                                  *)
THEOREM FrontEndPagesExact == Spec => []PagesExact
<1>1. Init => Paged
  BY DEF Init, Paged
<1>2. Paged => PagesExact
  BY DEF Paged, PagesExact
<1> QED
  BY <1>1, <1>2, StoredInit, StoredNext, PagedNext, PTL DEF Spec
================================================================================
