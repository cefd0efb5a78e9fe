------------------------------- MODULE Induction -------------------------------
(***************************************************************************)
(* Induction over the naturals for proofs whose data are sequences: a fact  *)
(* about a number is membership in the set of the numbers it holds of.      *)
(***************************************************************************)
EXTENDS Integers, FiniteSetTheorems, WellFoundedInduction, TLAPS

(* A set of naturals has a smallest element: among the intervals up to its  *)
(* elements, all within one of them, some has no smaller one.               *)
LEMMA SmallestOf ==
  ASSUME NEW S \in SUBSET Nat, S # {}
  PROVE  \E n \in S : \A m \in S : n <= m
<1>1. PICK k \in S : TRUE
  OBVIOUS
<1> DEFINE T == { 0 .. m : m \in { x \in S : x <= k } }
<1>2. IsFiniteSet(0 .. k)
  BY FS_Interval
<1>3. IsWellFoundedOn(StrictSubsetOrdering(0 .. k), SUBSET (0 .. k))
  BY <1>2, FS_StrictSubsetOrderingWellFounded, FS_FiniteSubsetsOfFinite
<1>4. T \subseteq SUBSET (0 .. k)
  OBVIOUS
<1>5. 0 .. k \in T
  OBVIOUS
<1>6. PICK x \in T : \A y \in T : <<y, x>> \notin StrictSubsetOrdering(0 .. k)
  <2> HIDE DEF T
  <2> QED
    BY <1>3, <1>4, <1>5, WFMin
<1>7. PICK n \in S : n <= k /\ x = 0 .. n
  OBVIOUS
<1>8. ASSUME NEW m \in S, m < n
      PROVE  FALSE
  <2>1. 0 .. m \in T /\ m <= k
    BY <1>7, <1>8
  <2>2. 0 .. m \subseteq 0 .. n /\ 0 .. m # 0 .. n
    BY <1>8
  <2>3. <<0 .. m, x>> \in StrictSubsetOrdering(0 .. k)
    BY <1>7, <2>1, <2>2 DEF StrictSubsetOrdering
  <2> QED
    BY <1>6, <2>1, <2>3
<1> QED
  BY <1>8

(* What holds of 0, and with a number of the next, holds of all. *)
LEMMA SetInduction ==
  ASSUME NEW S, 0 \in S, \A n \in Nat : n \in S => n + 1 \in S
  PROVE  Nat \subseteq S
<1> SUFFICES ASSUME ~(Nat \subseteq S)
             PROVE  FALSE
  OBVIOUS
<1> DEFINE Out == { n \in Nat : n \notin S }
<1>1. Out \in SUBSET Nat /\ Out # {}
  OBVIOUS
<1>2. PICK n \in Out : \A m \in Out : n <= m
  <2> HIDE DEF Out
  <2> QED
    BY <1>1, SmallestOf
<1>3. n # 0 /\ n - 1 \in Nat
  OBVIOUS
<1>4. n - 1 \notin Out
  BY <1>2, <1>3
<1> QED
  BY <1>3, <1>4

(* A function defined from its value at 0 and a step, over 0 .. n, exists. *)
Recurs(g, V, a, step, n) ==
  /\ g \in [0 .. n -> V]
  /\ \A i \in 0 .. n : g[i] = IF i = 0 THEN a ELSE step[<<i, g[i - 1]>>]

LEMMA FiniteRecursion ==
  ASSUME NEW V, NEW a \in V, NEW step \in [Nat \X V -> V], NEW n \in Nat
  PROVE  \E g : Recurs(g, V, a, step, n)
<1> DEFINE Is(g, k) == \A i \in 0 .. k : g[i] = IF i = 0 THEN a ELSE step[<<i, g[i - 1]>>]
           S == { k \in Nat : \E g \in [0 .. k -> V] : Is(g, k) }
<1>1. 0 \in S
  <2>1. [i \in 0 .. 0 |-> a] \in [0 .. 0 -> V] /\ Is([i \in 0 .. 0 |-> a], 0)
    OBVIOUS
  <2> QED
    BY <2>1
<1>2. ASSUME NEW k \in Nat, k \in S
      PROVE  k + 1 \in S
  <2>1. PICK g \in [0 .. k -> V] : Is(g, k)
    BY <1>2
  <2> DEFINE h == [i \in 0 .. k + 1 |-> IF i = k + 1 THEN step[<<i, g[k]>>] ELSE g[i]]
  <2>2. h \in [0 .. k + 1 -> V]
    <3>1. g[k] \in V /\ <<k + 1, g[k]>> \in Nat \X V
      OBVIOUS
    <3>2. step[<<k + 1, g[k]>>] \in V
      BY <3>1
    <3> QED
      BY <3>2
  <2>3. ASSUME NEW i \in 0 .. k + 1
        PROVE  h[i] = IF i = 0 THEN a ELSE step[<<i, h[i - 1]>>]
    <3>1. CASE i = k + 1
      <4>1. h[i] = step[<<i, g[k]>>] /\ i # 0 /\ i - 1 = k /\ k \in 0 .. k + 1 /\ k # k + 1
        BY <3>1
      <4>2. h[i - 1] = g[k]
        BY <4>1
      <4> HIDE DEF h
      <4> QED
        BY <4>1, <4>2
    <3>2. CASE i \in 0 .. k
      <4>1. h[i] = g[i]
        BY <3>2
      <4>2. i # 0 => i - 1 \in 0 .. k + 1 /\ i - 1 # k + 1
        BY <3>2
      <4>3. i # 0 => h[i - 1] = g[i - 1]
        BY <4>2
      <4> HIDE DEF h
      <4> QED
        BY <2>1, <3>2, <4>1, <4>3
    <3> QED
      BY <3>1, <3>2
  <2> HIDE DEF h
  <2> QED
    BY <2>2, <2>3
<1> HIDE DEF S
<1>3. n \in S
  BY <1>1, <1>2, SetInduction
<1> QED
  BY <1>3 DEF S, Recurs
================================================================================
