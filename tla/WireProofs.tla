------------------------------- MODULE WireProofs -------------------------------
(***************************************************************************)
(* Proofs about Wire, for all messages: what is encoded is decoded, and a   *)
(* message that was cut or goes on is refused.                              *)
(*                                                                          *)
(* Where a reader ends depends only on cells before that place.  It ends at *)
(* the end of an encoded message, so it does not end at the end of a part   *)
(* of one, nor of a longer one.                                             *)
(***************************************************************************)
EXTENDS Wire, Induction, SequenceTheorems

Legible(b) == \A p \in Nat : Cell(b, p) \in Nat

Follow(P, b, first, n) ==
  /\ P \in [0 .. n -> Nat]
  /\ P[0] = first
  /\ \A i \in 1 .. n : P[i] = Behind(b, P[i - 1])

LEMMA PositionsAre ==
  ASSUME NEW b, Legible(b), NEW first \in Nat, NEW n \in Nat
  PROVE  Follow(Positions(b, first, n), b, first, n)
<1> DEFINE V == Nat
           step == [p \in Nat \X V |-> Behind(b, p[2])]
           Is(h) == h = [i \in 0 .. n |-> IF i = 0 THEN first ELSE Behind(b, h[i - 1])]
<1>1. \A p \in Nat : Behind(b, p) \in Nat
  BY DEF Legible, Behind
<1>2. PICK g : Recurs(g, V, first, step, n)
  <2>1. step \in [Nat \X V -> V]
    BY <1>1
  <2>2. first \in V
    OBVIOUS
  <2> HIDE DEF step, V
  <2> QED
    BY <2>1, <2>2, FiniteRecursion
<1>3. g \in [0 .. n -> Nat] /\ \A i \in 0 .. n : g[i] = IF i = 0 THEN first ELSE step[<<i, g[i - 1]>>]
  <2> HIDE DEF step
  <2> QED
    BY <1>2 DEF Recurs
<1>4. Is(g)
  <2>1. ASSUME NEW i \in 0 .. n, i # 0
        PROVE  step[<<i, g[i - 1]>>] = Behind(b, g[i - 1])
    <3>1. i - 1 \in 0 .. n /\ i \in Nat
      BY <2>1
    <3>2. <<i, g[i - 1]>> \in Nat \X V
      BY <1>3, <3>1
    <3> QED
      BY <3>2
  <2> HIDE DEF step
  <2>2. \A i \in 0 .. n : g[i] = IF i = 0 THEN first ELSE Behind(b, g[i - 1])
    BY <1>3, <2>1
  <2> QED
    BY <1>3, <2>2
<1>5. Positions(b, first, n) = CHOOSE h : Is(h)
  BY DEF Positions
<1>6. Is(Positions(b, first, n))
  <2>1. Is(CHOOSE h : Is(h))
    <3> HIDE DEF Is
    <3> QED
      BY <1>4
  <2> QED
    BY <1>5, <2>1
<1> DEFINE P == Positions(b, first, n)
<1> HIDE DEF P
<1>7. P = [i \in 0 .. n |-> IF i = 0 THEN first ELSE Behind(b, P[i - 1])]
  BY <1>6 DEF P
<1>8. P[0] = first /\ \A i \in 1 .. n : P[i] = Behind(b, P[i - 1])
  <2>1. \A i \in 0 .. n : P[i] = IF i = 0 THEN first ELSE Behind(b, P[i - 1])
    BY ONLY <1>7
  <2>2. 0 \in 0 .. n /\ \A i \in 1 .. n : i \in 0 .. n /\ i # 0
    OBVIOUS
  <2> QED
    BY <2>1, <2>2
<1>9. \A i \in 0 .. n : P[i] \in Nat
  <2> DEFINE S == { i \in Nat : i <= n => P[i] \in Nat }
  <2>1. 0 \in S
    BY <1>8
  <2>2. ASSUME NEW i \in Nat, i \in S
        PROVE  i + 1 \in S
    <3>1. ASSUME i + 1 <= n
          PROVE  P[i + 1] \in Nat
      <4>1. i + 1 \in 1 .. n /\ (i + 1) - 1 = i
        BY <3>1
      <4>2. P[i + 1] = Behind(b, P[i])
        BY <1>8, <4>1
      <4>3. P[i] \in Nat
        BY <2>2, <3>1
      <4> QED
        BY <4>2, <4>3 DEF Legible, Behind
    <3> QED
      BY <3>1
  <2> HIDE DEF S
  <2>3. Nat \subseteq S
    BY <2>1, <2>2, SetInduction
  <2> QED
    BY <2>3 DEF S
<1> QED
  BY <1>7, <1>8, <1>9 DEF P, Follow

(* They ascend. *)
LEMMA PositionsAscend ==
  ASSUME NEW b, Legible(b), NEW first \in Nat, NEW n \in Nat,
         NEW i \in 0 .. n, NEW j \in 0 .. n, i < j
  PROVE  /\ Positions(b, first, n)[i] < Positions(b, first, n)[j]
         /\ first + j <= Positions(b, first, n)[j]
<1> DEFINE P == Positions(b, first, n)
           S == { k \in Nat : k <= n => /\ first + k <= P[k]
                                        /\ \A l \in 0 .. n : l < k => P[l] < P[k] }
<1>1. /\ P \in [0 .. n -> Nat] /\ P[0] = first
      /\ \A k \in 1 .. n : P[k] = Behind(b, P[k - 1])
  BY PositionsAre DEF Follow
<1> HIDE DEF P
<1>2. ASSUME NEW k \in 1 .. n
      PROVE  P[k] > P[k - 1]
  <2>1. P[k - 1] \in Nat /\ P[k] = Behind(b, P[k - 1])
    BY <1>1
  <2> QED
    BY <2>1 DEF Legible, Behind
<1>3. 0 \in S
  BY <1>1
<1>4. ASSUME NEW k \in Nat, k \in S
      PROVE  k + 1 \in S
  <2> SUFFICES ASSUME k + 1 <= n
               PROVE  first + (k + 1) <= P[k + 1] /\ \A l \in 0 .. n : l < k + 1 => P[l] < P[k + 1]
    OBVIOUS
  <2>1. P[k + 1] > P[k] /\ P[k] \in Nat /\ P[k + 1] \in Nat /\ first + k <= P[k]
    BY <1>1, <1>2, <1>4
  <2>2. ASSUME NEW l \in 0 .. n, l < k + 1
        PROVE  P[l] < P[k + 1]
    <3>1. l = k \/ P[l] < P[k]
      BY <1>4, <2>2
    <3> QED
      BY <1>1, <2>1, <3>1
  <2> QED
    BY <2>1, <2>2
<1> HIDE DEF S
<1>5. Nat \subseteq S
  BY <1>3, <1>4, SetInduction
<1>6. j \in S
  BY <1>5
<1> QED
  BY <1>6 DEF S, P

(* The fields' positions in a request *)
PartitionAt(b) == Behind(b, Behind(b, 1) + 1)
AggregateAt(b) == PartitionAt(b) + PartitionCells(b, PartitionAt(b))
HopsIn(b) == Cell(b, AggregateAt(b) + 1)
HopsAt(b) == Positions(b, AggregateAt(b) + 2, HopsIn(b))
EndOf(b) == HopsAt(b)[HopsIn(b)]

(* A reader stops at the same place in messages that agree up to there. *)
LEMMA EndAgrees ==
  ASSUME NEW b, NEW c,
         Legible(b), Legible(c),
         \A p \in Nat : 0 < p /\ p < EndOf(b) => Cell(c, p) = Cell(b, p)
  PROVE  EndOf(c) = EndOf(b) /\ EndOf(b) \in Nat /\ EndOf(b) > 0
<1> DEFINE n == HopsIn(b)
           first == AggregateAt(b) + 2
<1>1. /\ Behind(b, 1) \in Nat /\ 1 < Behind(b, 1)
      /\ PartitionAt(b) \in Nat /\ Behind(b, 1) + 1 < PartitionAt(b)
      /\ AggregateAt(b) \in Nat /\ PartitionAt(b) < AggregateAt(b)
      /\ n \in Nat /\ first \in Nat
  <2>1. Behind(b, 1) \in Nat /\ 1 < Behind(b, 1)
    BY DEF Legible, Behind
  <2>2. PartitionAt(b) \in Nat /\ Behind(b, 1) + 1 < PartitionAt(b)
    BY <2>1 DEF Legible, Behind, PartitionAt
  <2>3. AggregateAt(b) \in Nat /\ PartitionAt(b) < AggregateAt(b)
    BY <2>2 DEF PartitionCells, AggregateAt, Legible
  <2>4. HopsIn(b) \in Nat
    BY <2>3 DEF HopsIn, Legible
  <2> QED
    BY <2>1, <2>2, <2>3, <2>4
<1> HIDE DEF n, first
<1>2. /\ HopsAt(b) \in [0 .. n -> Nat] /\ HopsAt(b)[0] = first
      /\ \A i \in 1 .. n : HopsAt(b)[i] = Behind(b, HopsAt(b)[i - 1])
  <2>1. HopsAt(b) = Positions(b, first, n)
    BY DEF HopsAt, first, n
  <2>2. Follow(HopsAt(b), b, first, n)
    BY <1>1, <2>1, PositionsAre
  <2> QED
    BY <2>2 DEF Follow
<1>3. EndOf(b) \in Nat /\ first <= EndOf(b) /\ \A i \in 0 .. n : i < n => HopsAt(b)[i] < EndOf(b)
  <2>1. EndOf(b) = HopsAt(b)[n] /\ EndOf(b) \in Nat
    BY <1>1, <1>2 DEF EndOf, n
  <2>2. ASSUME NEW i \in 0 .. n, i < n
        PROVE  HopsAt(b)[i] < HopsAt(b)[n] /\ first + n <= HopsAt(b)[n]
    <3>1. HopsAt(b) = Positions(b, first, n) /\ n \in 0 .. n
      BY <1>1 DEF HopsAt, first, n
    <3> QED
      BY <1>1, <2>2, <3>1, PositionsAscend
  <2>3. first <= HopsAt(b)[n]
    <3>1. CASE n = 0
      BY <1>1, <1>2, <3>1
    <3>2. CASE n # 0
      <4>1. 0 \in 0 .. n /\ 0 < n
        BY <1>1, <3>2
      <4> QED
        BY <1>1, <1>2, <2>2, <4>1
    <3> QED
      BY <3>1, <3>2
  <2> QED
    BY <2>1, <2>2, <2>3
<1>4. AggregateAt(b) + 1 < EndOf(b)
  BY <1>1, <1>3 DEF first
<1>5. Behind(c, 1) = Behind(b, 1)
  <2>1. Cell(c, 1) = Cell(b, 1)
    BY <1>1, <1>3, <1>4
  <2> QED
    BY <2>1 DEF Legible, Behind
<1>6. PartitionAt(c) = PartitionAt(b)
  <2>1. Cell(c, Behind(b, 1) + 1) = Cell(b, Behind(b, 1) + 1)
    BY <1>1, <1>3, <1>4
  <2> QED
    BY <1>5, <2>1 DEF PartitionAt, Behind
<1>7. AggregateAt(c) = AggregateAt(b)
  <2>1. Cell(c, PartitionAt(b)) = Cell(b, PartitionAt(b))
    BY <1>1, <1>3, <1>4
  <2> QED
    BY <1>6, <2>1 DEF AggregateAt, PartitionCells
<1>8. HopsIn(c) = n
  <2>1. Cell(c, AggregateAt(b) + 1) = Cell(b, AggregateAt(b) + 1)
    BY <1>1, <1>3, <1>4
  <2> QED
    BY <1>7, <2>1 DEF HopsIn, n
<1>9. /\ HopsAt(c)[0] = first
      /\ \A i \in 1 .. n : HopsAt(c)[i] = Behind(c, HopsAt(c)[i - 1])
  <2>1. HopsAt(c) = Positions(c, first, n)
    BY <1>7, <1>8 DEF HopsAt, first
  <2>2. Follow(HopsAt(c), c, first, n)
    BY <1>1, <2>1, PositionsAre
  <2> QED
    BY <2>2 DEF Follow
<1>10. HopsAt(c)[n] = HopsAt(b)[n]
  <2> DEFINE S == { i \in Nat : i <= n => HopsAt(c)[i] = HopsAt(b)[i] }
  <2>1. 0 \in S
    BY <1>2, <1>9
  <2>2. ASSUME NEW i \in Nat, i \in S
        PROVE  i + 1 \in S
    <3> SUFFICES ASSUME i + 1 <= n
                 PROVE  HopsAt(c)[i + 1] = HopsAt(b)[i + 1]
      OBVIOUS
    <3>1. i \in 0 .. n /\ i < n /\ i + 1 \in 1 .. n
      BY <1>1
    <3>2. HopsAt(b)[i] \in Nat /\ 0 < HopsAt(b)[i] /\ HopsAt(b)[i] < EndOf(b)
      <4>1. HopsAt(b)[i] \in Nat /\ HopsAt(b)[i] < EndOf(b)
        BY <1>2, <1>3, <3>1
      <4>2. first <= HopsAt(b)[i]
        <5>1. CASE i = 0
          BY <1>1, <1>2, <5>1
        <5>2. CASE i # 0
          <6>1. 0 \in 0 .. n /\ 0 < i
            BY <1>1, <5>2
          <6>2. HopsAt(b)[0] < HopsAt(b)[i]
            BY <1>1, <3>1, <6>1, PositionsAscend DEF HopsAt, first, n
          <6> QED
            BY <1>1, <1>2, <3>1, <6>2
        <5> QED
          BY <5>1, <5>2
      <4> QED
        BY <1>1, <4>1, <4>2 DEF first
    <3>3. Cell(c, HopsAt(b)[i]) = Cell(b, HopsAt(b)[i]) /\ HopsAt(c)[i] = HopsAt(b)[i]
      BY <2>2, <3>1, <3>2
    <3>4. /\ HopsAt(c)[i + 1] = Behind(c, HopsAt(c)[i])
          /\ HopsAt(b)[i + 1] = Behind(b, HopsAt(b)[i])
      <4>1. (i + 1) - 1 = i
        OBVIOUS
      <4> QED
        BY <1>2, <1>9, <3>1, <4>1
    <3> QED
      BY <3>3, <3>4 DEF Legible, Behind
  <2> HIDE DEF S
  <2>3. Nat \subseteq S
    BY <2>1, <2>2, SetInduction
  <2>4. n \in S
    BY <1>1, <2>3
  <2> QED
    BY <1>1, <2>4 DEF S
<1> QED
  BY <1>1, <1>3, <1>4, <1>8, <1>10 DEF EndOf, n

LEMMA LengthIsNatural == \A s \in Seq(Nat) : Len(s) \in Nat
  OBVIOUS

(* c begins with b; s stands in b behind position p *)
Begins(b, c) == Len(b) <= Len(c) /\ \A i \in 1 .. Len(b) : c[i] = b[i]
Stands(b, p, s) == p + Len(s) <= Len(b) /\ \A i \in 1 .. Len(s) : b[p + i] = s[i]

LEMMA BeginsAppended ==
  \A b, c \in Seq(Nat) :
    /\ b \o c \in Seq(Nat) /\ Len(b \o c) = Len(b) + Len(c)
    /\ Begins(b, b \o c)
    /\ Stands(b \o c, Len(b), c)
  BY DEF Begins, Stands

LEMMA BeginsTrans ==
  \A b, c, d \in Seq(Nat) : Begins(b, c) /\ Begins(c, d) => Begins(b, d)
  BY DEF Begins

LEMMA StandsOn ==
  ASSUME NEW b \in Seq(Nat), NEW c \in Seq(Nat), NEW s \in Seq(Nat), NEW p \in Nat,
         Stands(b, p, s), Begins(b, c)
  PROVE  Stands(c, p, s)
<1>1. ASSUME NEW i \in 1 .. Len(s)
      PROVE  c[p + i] = s[i]
  <2>1. p + i \in 1 .. Len(b)
    BY DEF Stands
  <2> QED
    BY <2>1 DEF Stands, Begins
<1> QED
  BY <1>1 DEF Stands, Begins

LEMMA CellStands ==
  \A b \in Seq(Nat), p, x \in Nat : Stands(b, p, <<x>>) => Cell(b, p + 1) = x
  BY DEF Stands, Cell

LEMMA StringStands ==
  ASSUME NEW b \in Seq(Nat), NEW p \in Nat, NEW s \in Seq(Nat), Stands(b, p, String(s))
  PROVE  /\ Behind(b, p + 1) = p + 2 + Len(s)
         /\ Bytes(b, p + 1) = s
         /\ p + 1 + Len(s) <= Len(b)
<1>1. String(s) \in Seq(Nat) /\ Len(String(s)) = 1 + Len(s) /\ String(s)[1] = Len(s)
      /\ \A i \in 1 .. Len(s) : String(s)[i + 1] = s[i]
  BY DEF String
<1>2. p + 1 + Len(s) <= Len(b)
  BY <1>1 DEF Stands
<1>3. b[p + 1] = Len(s)
  <2>1. 1 \in 1 .. Len(String(s))
    BY <1>1
  <2> QED
    BY <1>1, <2>1 DEF Stands
<1>4. Cell(b, p + 1) = Len(s)
  BY <1>2, <1>3 DEF Cell
<1>5. ASSUME NEW i \in 1 .. Len(s)
      PROVE  b[p + 1 + i] = s[i]
  <2>1. i + 1 \in 1 .. Len(String(s))
    BY <1>1
  <2>2. b[p + (i + 1)] = String(s)[i + 1]
    BY <2>1 DEF Stands
  <2>3. p + (i + 1) = p + 1 + i
    OBVIOUS
  <2> QED
    BY <1>1, <2>2, <2>3
<1>6. SubSeq(b, p + 2, p + 1 + Len(s)) = s
  <2> DEFINE u == SubSeq(b, p + 2, p + 1 + Len(s))
  <2>1. /\ u \in Seq(Nat) /\ Len(u) = Len(s)
        /\ \A i \in 1 .. Len(s) : u[i] = b[p + 2 + i - 1]
    <3>1. p + 2 \in Int /\ p + 1 + Len(s) \in Int /\ p + 1 + Len(s) - (p + 2) + 1 = Len(s)
      OBVIOUS
    <3>2. \A i \in p + 2 .. p + 1 + Len(s) : b[i] \in Nat
      BY <1>2
    <3>3. /\ u \in Seq(Nat)
          /\ Len(u) = IF p + 2 <= p + 1 + Len(s) THEN p + 1 + Len(s) - (p + 2) + 1 ELSE 0
          /\ \A i \in 1 .. p + 1 + Len(s) - (p + 2) + 1 : u[i] = b[p + 2 + i - 1]
      BY <3>1, <3>2, SubSeqProperties
    <3> HIDE DEF u
    <3> QED
      BY <3>1, <3>3
  <2> HIDE DEF u
  <2>2. ASSUME NEW i \in 1 .. Len(s)
        PROVE  u[i] = s[i]
    <3>1. p + 2 + i - 1 = p + 1 + i
      OBVIOUS
    <3> QED
      BY <1>5, <2>1, <3>1
  <2>3. u = s
    BY <2>1, <2>2, SeqEqual
  <2> QED
    BY <2>3 DEF u
<1> QED
  <2>1. p + 1 + 1 = p + 2
    OBVIOUS
  <2> QED
    BY <1>2, <1>4, <1>6, <2>1 DEF Behind, Bytes

LEMMA TextLegible == \A b \in Seq(Nat) : Legible(b)
  BY DEF Legible, Cell

(* Strings one after another *)
Joins(U, ss) ==
  /\ U \in [0 .. Len(ss) -> Seq(Nat)]
  /\ U[0] = <<>>
  /\ \A i \in 1 .. Len(ss) : U[i] = U[i - 1] \o String(ss[i])

LEMMA StringLegible ==
  \A s \in Text : String(s) \in Seq(Nat) /\ Len(String(s)) = 1 + Len(s)
  BY DEF Text, String

LEMMA StringsUpToAre ==
  ASSUME NEW ss \in Seq(Text)
  PROVE  Joins(StringsUpTo(ss), ss)
<1> DEFINE n == Len(ss)
           V == Seq(Nat)
           step == [p \in Nat \X V |-> IF p[1] \in 1 .. n THEN p[2] \o String(ss[p[1]]) ELSE <<>>]
           Is(h) == h = [i \in 0 .. n |-> IF i = 0 THEN <<>> ELSE h[i - 1] \o String(ss[i])]
<1>1. n \in Nat /\ <<>> \in V
  OBVIOUS
<1>2. ASSUME NEW i \in 1 .. n
      PROVE  String(ss[i]) \in Seq(Nat)
  <2>1. ss[i] \in Text
    OBVIOUS
  <2> QED
    BY <2>1, StringLegible
<1>3. step \in [Nat \X V -> V]
  <2>1. ASSUME NEW p \in Nat \X V
        PROVE  (IF p[1] \in 1 .. n THEN p[2] \o String(ss[p[1]]) ELSE <<>>) \in V
    BY <1>2
  <2> QED
    BY <2>1
<1>4. PICK g : Recurs(g, V, <<>>, step, n)
  <2> HIDE DEF step, V, n
  <2> QED
    BY <1>1, <1>3, FiniteRecursion
<1>5. g \in [0 .. n -> V] /\ \A i \in 0 .. n : g[i] = IF i = 0 THEN <<>> ELSE step[<<i, g[i - 1]>>]
  <2> HIDE DEF step, V, n
  <2> QED
    BY <1>4 DEF Recurs
<1>6. Is(g)
  <2>1. ASSUME NEW i \in 0 .. n, i # 0
        PROVE  step[<<i, g[i - 1]>>] = g[i - 1] \o String(ss[i])
    <3>1. i - 1 \in 0 .. n /\ i \in Nat /\ i \in 1 .. n
      BY <2>1
    <3>2. <<i, g[i - 1]>> \in Nat \X V
      BY <1>5, <3>1
    <3> QED
      BY <3>1, <3>2
  <2> HIDE DEF step
  <2>2. \A i \in 0 .. n : g[i] = IF i = 0 THEN <<>> ELSE g[i - 1] \o String(ss[i])
    BY <1>5, <2>1
  <2> QED
    BY <1>5, <2>2
<1>7. StringsUpTo(ss) = CHOOSE h : Is(h)
  BY DEF StringsUpTo
<1>8. Is(StringsUpTo(ss))
  <2>1. Is(CHOOSE h : Is(h))
    <3> HIDE DEF Is
    <3> QED
      BY <1>6
  <2> QED
    BY <1>7, <2>1
<1> DEFINE U == StringsUpTo(ss)
<1> HIDE DEF U, n
<1>9. U = [i \in 0 .. n |-> IF i = 0 THEN <<>> ELSE U[i - 1] \o String(ss[i])]
  BY <1>8 DEF U
<1>10. U[0] = <<>> /\ \A i \in 1 .. n : U[i] = U[i - 1] \o String(ss[i])
  <2>1. \A i \in 0 .. n : U[i] = IF i = 0 THEN <<>> ELSE U[i - 1] \o String(ss[i])
    BY ONLY <1>9
  <2>2. 0 \in 0 .. n /\ \A i \in 1 .. n : i \in 0 .. n /\ i # 0
    BY <1>1
  <2> QED
    BY <2>1, <2>2
<1>11. \A i \in 0 .. n : U[i] \in Seq(Nat)
  <2> DEFINE S == { i \in Nat : i <= n => U[i] \in Seq(Nat) }
  <2>1. 0 \in S
    BY <1>1, <1>10
  <2>2. ASSUME NEW i \in Nat, i \in S
        PROVE  i + 1 \in S
    <3>1. ASSUME i + 1 <= n
          PROVE  U[i + 1] \in Seq(Nat)
      <4>1. i + 1 \in 1 .. n /\ (i + 1) - 1 = i
        BY <1>1, <3>1
      <4>2. U[i + 1] = U[i] \o String(ss[i + 1])
        BY <1>10, <4>1
      <4>3. U[i] \in Seq(Nat)
        BY <1>1, <2>2, <3>1
      <4>4. String(ss[i + 1]) \in Seq(Nat)
        BY <1>2, <4>1 DEF n
      <4> QED
        BY <4>2, <4>3, <4>4
    <3> QED
      BY <3>1
  <2> HIDE DEF S
  <2>3. Nat \subseteq S
    BY <2>1, <2>2, SetInduction
  <2> QED
    BY <1>1, <2>3 DEF S
<1>12. U \in [0 .. n -> Seq(Nat)]
  BY <1>9, <1>11
<1> QED
  BY <1>10, <1>12 DEF Joins, U, n

LEMMA JoinsBegin ==
  ASSUME NEW ss \in Seq(Text), NEW U, Joins(U, ss)
  PROVE  \A i \in 0 .. Len(ss) : Begins(U[i], U[Len(ss)])
<1> DEFINE n == Len(ss)
           S == { k \in Nat : k <= n => \A i \in 0 .. k : Begins(U[i], U[k]) }
<1>1. n \in Nat
  OBVIOUS
<1>2. \A i \in 0 .. n : U[i] \in Seq(Nat)
  BY DEF Joins
<1>3. ASSUME NEW i \in 0 .. n
      PROVE  Begins(U[i], U[i])
  BY <1>2 DEF Begins
<1>4. 0 \in S
  BY <1>1, <1>3
<1>5. ASSUME NEW k \in Nat, k \in S
      PROVE  k + 1 \in S
  <2> SUFFICES ASSUME k + 1 <= n, NEW i \in 0 .. k + 1
               PROVE  Begins(U[i], U[k + 1])
    OBVIOUS
  <2>1. CASE i = k + 1
    BY <1>3, <2>1
  <2>2. CASE i # k + 1
    <3>1. i \in 0 .. k /\ i \in 0 .. n /\ k \in 0 .. n /\ k + 1 \in 1 .. n /\ k + 1 \in 0 .. n
      BY <1>1, <2>2
    <3>2. Begins(U[i], U[k])
      BY <1>1, <1>5, <3>1
    <3>3. U[k + 1] = U[k] \o String(ss[k + 1])
      <4>1. (k + 1) - 1 = k
        OBVIOUS
      <4> QED
        BY <3>1, <4>1 DEF Joins
    <3>4. String(ss[k + 1]) \in Seq(Nat)
      <4>1. ss[k + 1] \in Text
        BY <3>1
      <4> QED
        BY <4>1, StringLegible
    <3>5. Begins(U[k], U[k + 1])
      BY <1>2, <3>1, <3>3, <3>4, BeginsAppended
    <3> QED
      BY <1>2, <3>1, <3>2, <3>5, BeginsTrans
  <2> QED
    BY <2>1, <2>2
<1> HIDE DEF S
<1>6. n \in S
  BY <1>1, <1>4, <1>5, SetInduction
<1> QED
  BY <1>1, <1>6 DEF S

(* Where the fields of a request stand *)
FieldsStand(b, r) ==
  LET partition == 3 + Len(r.sql) + Len(r.table)
      aggregate == partition + (IF r.partition = NoPartition THEN 1 ELSE 2)
      budget == aggregate + 2 + Len(Strings(r.route))
  IN  /\ Stands(b, 0, String(r.sql))
      /\ Stands(b, 1 + Len(r.sql), <<r.kind>>)
      /\ Stands(b, 2 + Len(r.sql), String(r.table))
      /\ Stands(b, partition, Flag(r.partition # NoPartition))
      /\ r.partition # NoPartition => Stands(b, partition + 1, <<r.partition>>)
      /\ Stands(b, aggregate, Flag(r.aggregate))
      /\ Stands(b, aggregate + 1, <<Len(r.route)>>)
      /\ Stands(b, aggregate + 2, Strings(r.route))
      /\ Stands(b, budget, <<r.hop_budget>>)
      /\ Len(b) = budget + 1

LEMMA CellsLegible ==
  /\ \A x \in Nat : <<x>> \in Seq(Nat) /\ Len(<<x>>) = 1
  /\ \A f \in BOOLEAN : Flag(f) \in Seq(Nat) /\ Len(Flag(f)) = 1
  BY DEF Flag

LEMMA EncodedFieldsStand ==
  ASSUME NEW r \in RequestMessage
  PROVE  EncodeRequest(r) \in Seq(Nat) /\ FieldsStand(EncodeRequest(r), r)
<1> DEFINE sql == String(r.sql)
           table == String(r.table)
           partition == IF r.partition = NoPartition THEN Flag(FALSE)
                        ELSE Flag(TRUE) \o <<r.partition>>
           hops == Strings(r.route)
           kind == <<r.kind>>
           aggregate == Flag(r.aggregate)
           route == <<Len(r.route)>>
           budget == <<r.hop_budget>>
           b1 == sql
           b2 == b1 \o kind
           b3 == b2 \o table
           b4 == b3 \o partition
           b5 == b4 \o aggregate
           b6 == b5 \o route
           b7 == b6 \o hops
           b8 == b7 \o budget
<1>1. /\ r.sql \in Text /\ r.table \in Text /\ r.kind \in Nat /\ r.aggregate \in BOOLEAN
      /\ r.partition \in Nat \cup {NoPartition} /\ r.route \in Seq(Text) /\ r.hop_budget \in Nat
      /\ Len(r.route) \in Nat /\ Len(r.sql) \in Nat /\ Len(r.table) \in Nat
  BY WireAssumption DEF RequestMessage, Text
<1>2. /\ sql \in Seq(Nat) /\ Len(sql) = 1 + Len(r.sql)
      /\ table \in Seq(Nat) /\ Len(table) = 1 + Len(r.table)
  BY <1>1, StringLegible
<1>3. /\ kind \in Seq(Nat) /\ Len(kind) = 1
      /\ aggregate \in Seq(Nat) /\ Len(aggregate) = 1
      /\ route \in Seq(Nat) /\ Len(route) = 1
      /\ budget \in Seq(Nat) /\ Len(budget) = 1
  BY <1>1, CellsLegible
<1>4. hops \in Seq(Nat)
  <2>1. Joins(StringsUpTo(r.route), r.route)
    BY <1>1, StringsUpToAre
  <2>2. Len(r.route) \in 0 .. Len(r.route)
    BY <1>1
  <2> QED
    BY <2>1, <2>2 DEF Joins, Strings
<1>5. /\ partition \in Seq(Nat)
      /\ Len(partition) = IF r.partition = NoPartition THEN 1 ELSE 2
      /\ Stands(partition, 0, Flag(r.partition # NoPartition))
      /\ r.partition # NoPartition => Stands(partition, 1, <<r.partition>>)
  <2>1. CASE r.partition = NoPartition
    <3>1. partition = Flag(FALSE) /\ (r.partition # NoPartition) = FALSE
      BY <2>1
    <3>2. Flag(FALSE) \in Seq(Nat) /\ Len(Flag(FALSE)) = 1
      BY CellsLegible
    <3>3. Stands(Flag(FALSE), 0, Flag(FALSE))
      BY <3>2 DEF Stands
    <3> HIDE DEF partition
    <3> QED
      BY <2>1, <3>1, <3>2, <3>3
  <2>2. CASE r.partition # NoPartition
    <3> DEFINE f == Flag(TRUE)
               x == <<r.partition>>
    <3>1. partition = f \o x /\ (r.partition # NoPartition) = TRUE
      BY <2>2
    <3>2. f \in Seq(Nat) /\ Len(f) = 1 /\ x \in Seq(Nat) /\ Len(x) = 1
      BY <1>1, <2>2, CellsLegible
    <3>3. Flag(r.partition # NoPartition) = f
      BY <3>1
    <3> HIDE DEF partition, f, x
    <3>7. /\ f \o x \in Seq(Nat) /\ Len(f \o x) = Len(f) + Len(x)
          /\ Begins(f, f \o x) /\ Stands(f \o x, Len(f), x)
      BY <3>2, BeginsAppended
    <3>4. /\ f \o x \in Seq(Nat) /\ Len(f \o x) = 2
          /\ Begins(f, f \o x) /\ Stands(f \o x, 1, x)
      BY <3>2, <3>7
    <3>5. Stands(f, 0, f)
      BY <3>2 DEF Stands
    <3>6. Stands(f \o x, 0, f)
      BY <3>2, <3>4, <3>5, StandsOn
    <3> QED
      BY <2>2, <3>1, <3>3, <3>4, <3>6 DEF x
  <2> QED
    BY <2>1, <2>2
<1>6. EncodeRequest(r) = b8
  BY DEF EncodeRequest
<1> HIDE DEF sql, table, partition, hops, kind, aggregate, route, budget
<1> HIDE DEF b1
<1>0. b1 = sql
  BY DEF b1
<1>7. /\ b2 \in Seq(Nat) /\ Len(b2) = Len(b1) + Len(kind)
     /\ Begins(b1, b2) /\ Stands(b2, Len(b1), kind)
  <2> HIDE DEF b2
  <2>1. b2 = b1 \o kind
    BY DEF b2
  <2> QED
    BY <1>0, <1>2, <1>3, <2>1, BeginsAppended
<1> HIDE DEF b2
<1>8. /\ b3 \in Seq(Nat) /\ Len(b3) = Len(b2) + Len(table)
     /\ Begins(b2, b3) /\ Stands(b3, Len(b2), table)
  <2> HIDE DEF b3
  <2>1. b3 = b2 \o table
    BY DEF b3
  <2> QED
    BY <1>7, <1>2, <2>1, BeginsAppended
<1> HIDE DEF b3
<1>9. /\ b4 \in Seq(Nat) /\ Len(b4) = Len(b3) + Len(partition)
     /\ Begins(b3, b4) /\ Stands(b4, Len(b3), partition)
  <2> HIDE DEF b4
  <2>1. b4 = b3 \o partition
    BY DEF b4
  <2> QED
    BY <1>8, <1>5, <2>1, BeginsAppended
<1> HIDE DEF b4
<1>10. /\ b5 \in Seq(Nat) /\ Len(b5) = Len(b4) + Len(aggregate)
      /\ Begins(b4, b5) /\ Stands(b5, Len(b4), aggregate)
  <2> HIDE DEF b5
  <2>1. b5 = b4 \o aggregate
    BY DEF b5
  <2> QED
    BY <1>9, <1>3, <2>1, BeginsAppended
<1> HIDE DEF b5
<1>11. /\ b6 \in Seq(Nat) /\ Len(b6) = Len(b5) + Len(route)
      /\ Begins(b5, b6) /\ Stands(b6, Len(b5), route)
  <2> HIDE DEF b6
  <2>1. b6 = b5 \o route
    BY DEF b6
  <2> QED
    BY <1>10, <1>3, <2>1, BeginsAppended
<1> HIDE DEF b6
<1>12. /\ b7 \in Seq(Nat) /\ Len(b7) = Len(b6) + Len(hops)
      /\ Begins(b6, b7) /\ Stands(b7, Len(b6), hops)
  <2> HIDE DEF b7
  <2>1. b7 = b6 \o hops
    BY DEF b7
  <2> QED
    BY <1>11, <1>4, <2>1, BeginsAppended
<1> HIDE DEF b7
<1>13. /\ b8 \in Seq(Nat) /\ Len(b8) = Len(b7) + Len(budget)
      /\ Begins(b7, b8) /\ Stands(b8, Len(b7), budget)
  <2> HIDE DEF b8
  <2>1. b8 = b7 \o budget
    BY DEF b8
  <2> QED
    BY <1>12, <1>3, <2>1, BeginsAppended
<1> HIDE DEF b8
<1>14. Begins(b7, b8) /\ Begins(b6, b8) /\ Begins(b5, b8) /\ Begins(b4, b8)
       /\ Begins(b3, b8) /\ Begins(b2, b8) /\ Begins(b1, b8)
  <2>1. Begins(b7, b8)
    BY <1>13
  <2>2. Begins(b6, b8)
    BY <2>1, <1>11, <1>12, <1>13, BeginsTrans
  <2>3. Begins(b5, b8)
    BY <2>2, <1>10, <1>11, <1>13, BeginsTrans
  <2>4. Begins(b4, b8)
    BY <2>3, <1>9, <1>10, <1>13, BeginsTrans
  <2>5. Begins(b3, b8)
    BY <2>4, <1>8, <1>9, <1>13, BeginsTrans
  <2>6. Begins(b2, b8)
    BY <2>5, <1>7, <1>8, <1>13, BeginsTrans
  <2>7. Begins(b1, b8)
    BY <2>6, <1>0, <1>2, <1>7, <1>13, BeginsTrans
  <2> QED
    BY <2>1, <2>2, <2>3, <2>4, <2>5, <2>6, <2>7
<1>15. /\ Len(b1) = 1 + Len(r.sql) /\ Len(b2) = 2 + Len(r.sql)
       /\ Len(b3) = 3 + Len(r.sql) + Len(r.table)
  <2>1. Len(b1) = 1 + Len(r.sql)
    BY <1>0, <1>2
  <2>2. Len(b2) = Len(b1) + 1
    BY <1>3, <1>7
  <2>3. Len(b3) = Len(b2) + (1 + Len(r.table))
    BY <1>2, <1>8
  <2>4. /\ Len(r.sql) \in Nat /\ Len(r.table) \in Nat
        /\ Len(b1) \in Nat /\ Len(b2) \in Nat /\ Len(b3) \in Nat
    BY <1>0, <1>1, <1>2, <1>7, <1>8, LengthIsNatural
  <2>5. Len(b2) = 2 + Len(r.sql)
    <3>1. \A x \in Nat : \A u, v : u = 1 + x /\ v = u + 1 => v = 2 + x
      OBVIOUS
    <3> QED
      BY <2>1, <2>2, <2>4, <3>1
  <2>6. Len(b3) = 3 + Len(r.sql) + Len(r.table)
    <3>1. \A x, y \in Nat : (2 + x) + (1 + y) = 3 + x + y
      OBVIOUS
    <3>2. Len(b3) = (2 + Len(r.sql)) + (1 + Len(r.table))
      BY <2>3, <2>5
    <3> QED
      BY <2>4, <3>1, <3>2
  <2> QED
    BY <2>1, <2>5, <2>6
<1>16. /\ Stands(b8, 0, sql)
       /\ Stands(b8, Len(b1), kind)
       /\ Stands(b8, Len(b2), table)
  <2>1. Stands(b1, 0, sql)
    BY <1>2, <1>0 DEF Stands
  <2>2. 0 \in Nat /\ Len(b1) \in Nat /\ Len(b2) \in Nat /\ kind \in Seq(Nat)
    BY <1>1, <1>3, <1>15
  <2>3. Stands(b8, 0, sql)
    BY <1>2, <1>0, <1>13, <1>14, <2>1, <2>2, StandsOn
  <2>4. Stands(b8, Len(b1), kind)
    BY <1>7, <1>13, <1>14, <2>2, StandsOn
  <2>5. Stands(b8, Len(b2), table)
    BY <1>2, <1>8, <1>13, <1>14, <2>2, StandsOn
  <2> QED
    BY <2>3, <2>4, <2>5
<1>17. Stands(b8, Len(b3), partition)
  <2>1. Len(b3) \in Nat
    BY <1>8
  <2> QED
    BY <1>5, <1>9, <1>13, <1>14, <2>1, StandsOn
<1>18. /\ Stands(b8, Len(b4), aggregate) /\ Stands(b8, Len(b5), route)
       /\ Stands(b8, Len(b6), hops) /\ Stands(b8, Len(b7), budget)
  <2>1. /\ Len(b4) \in Nat /\ Len(b5) \in Nat /\ Len(b6) \in Nat
        /\ aggregate \in Seq(Nat) /\ route \in Seq(Nat)
    BY <1>3, <1>9, <1>10, <1>11
  <2>2. Stands(b8, Len(b4), aggregate)
    BY <1>10, <1>13, <1>14, <2>1, StandsOn
  <2>3. Stands(b8, Len(b5), route)
    BY <1>11, <1>13, <1>14, <2>1, StandsOn
  <2>4. Stands(b8, Len(b6), hops)
    BY <1>4, <1>12, <1>13, <1>14, <2>1, StandsOn
  <2> QED
    BY <1>13, <2>2, <2>3, <2>4
<1>19. /\ Stands(b8, Len(b3), Flag(r.partition # NoPartition))
       /\ r.partition # NoPartition => Stands(b8, Len(b3) + 1, <<r.partition>>)
  <2>1. ASSUME NEW p \in Nat, NEW s \in Seq(Nat), Stands(partition, p, s)
        PROVE  Stands(b8, Len(b3) + p, s)
    <3>1. Len(b3) \in Nat /\ Len(b8) \in Nat /\ Len(partition) \in Nat
      BY <1>5, <1>8, <1>13
    <3>2. Len(b3) + p + Len(s) <= Len(b8)
      BY <1>17, <2>1, <3>1 DEF Stands
    <3>3. ASSUME NEW i \in 1 .. Len(s)
          PROVE  b8[Len(b3) + p + i] = s[i]
      <4>1. partition[p + i] = s[i] /\ p + i \in 1 .. Len(partition)
        BY <2>1, <3>1 DEF Stands
      <4>2. b8[Len(b3) + (p + i)] = partition[p + i]
        BY <1>17, <4>1 DEF Stands
      <4>3. Len(b3) + (p + i) = Len(b3) + p + i
        BY <3>1
      <4> QED
        BY <4>1, <4>2, <4>3
    <3> QED
      BY <3>2, <3>3 DEF Stands
  <2>2. Len(b3) + 0 = Len(b3) /\ 0 \in Nat /\ 1 \in Nat
    BY <1>8
  <2>3. Flag(r.partition # NoPartition) \in Seq(Nat)
    BY CellsLegible
  <2>4. r.partition # NoPartition => <<r.partition>> \in Seq(Nat)
    BY <1>1, CellsLegible
  <2>5. Stands(b8, Len(b3) + 0, Flag(r.partition # NoPartition))
    BY <1>5, <2>1, <2>2, <2>3
  <2>6. r.partition # NoPartition => Stands(b8, Len(b3) + 1, <<r.partition>>)
    BY <1>5, <2>1, <2>2, <2>4
  <2> QED
    BY <2>2, <2>5, <2>6
<1>20. /\ Len(b4) = 3 + Len(r.sql) + Len(r.table) + (IF r.partition = NoPartition THEN 1 ELSE 2)
       /\ Len(b5) = Len(b4) + 1 /\ Len(b6) = Len(b4) + 2 /\ Len(b7) = Len(b4) + 2 + Len(hops)
       /\ Len(b8) = Len(b7) + 1
  BY <1>1, <1>3, <1>4, <1>5, <1>9, <1>10, <1>11, <1>12, <1>13, <1>15
<1>21. FieldsStand(b8, r)
  BY <1>15, <1>16, <1>18, <1>19, <1>20
     DEF FieldsStand, sql, table, hops, kind, aggregate, route, budget
<1> QED
  BY <1>6, <1>13, <1>21

(* A decoder's conditions and fields, by the positions above *)
LEMMA DecodedRequest ==
  \A b : DecodeRequest(b) =
    IF /\ AggregateAt(b) + 1 + HopsIn(b) < Len(b)
       /\ EndOf(b) = Len(b)
       /\ Cell(b, Behind(b, 1)) <= MaxKind
    THEN [sql |-> Bytes(b, 1), kind |-> Cell(b, Behind(b, 1)),
          table |-> Bytes(b, Behind(b, 1) + 1),
          partition |-> IF Cell(b, PartitionAt(b)) = 0 THEN NoPartition
                        ELSE Cell(b, PartitionAt(b) + 1),
          aggregate |-> Cell(b, AggregateAt(b)) # 0,
          route |-> [i \in 1 .. HopsIn(b) |-> Bytes(b, HopsAt(b)[i - 1])],
          hop_budget |-> Cell(b, Len(b))]
    ELSE Malformed
  BY DEF DecodeRequest, PartitionAt, AggregateAt, HopsIn, HopsAt, EndOf

LEMMA FlagCell ==
  \A b \in Seq(Nat), p \in Nat, f \in BOOLEAN :
    Stands(b, p, Flag(f)) => Cell(b, p + 1) = IF f THEN 1 ELSE 0
  BY CellStands DEF Flag

(* What follows one another from the first string's place on *)
LEMMA HopsStand ==
  ASSUME NEW b \in Seq(Nat), NEW p \in Nat, NEW ss \in Seq(Text), Stands(b, p, Strings(ss)),
         NEW P, Follow(P, b, p + 1, Len(ss))
  PROVE  /\ P[Len(ss)] = p + 1 + Len(Strings(ss))
         /\ \A i \in 1 .. Len(ss) : Bytes(b, P[i - 1]) = ss[i]
         /\ Len(ss) <= Len(Strings(ss))
<1> DEFINE n == Len(ss)
           U == StringsUpTo(ss)
<1>1. n \in Nat /\ n \in 0 .. n /\ 0 \in 0 .. n
  OBVIOUS
<1>2. Joins(U, ss)
  BY StringsUpToAre
<1> HIDE DEF U, n
<1>3. U \in [0 .. n -> Seq(Nat)] /\ U[0] = <<>> /\ U[n] = Strings(ss)
  BY <1>2 DEF Joins, Strings, n, U
<1>4. \A i \in 0 .. n : Begins(U[i], U[n])
  BY <1>2, JoinsBegin DEF n
<1>5. ASSUME NEW i \in 1 .. n
      PROVE  /\ i - 1 \in 0 .. n /\ i \in 0 .. n /\ ss[i] \in Seq(Nat)
             /\ U[i - 1] \in Seq(Nat) /\ U[i] \in Seq(Nat)
             /\ Len(U[i]) = Len(U[i - 1]) + 1 + Len(ss[i])
             /\ Stands(b, p + Len(U[i - 1]), String(ss[i]))
  <2>1. i - 1 \in 0 .. n /\ i \in 0 .. n /\ ss[i] \in Text
    BY <1>1 DEF n
  <2>2. U[i - 1] \in Seq(Nat) /\ U[i] \in Seq(Nat) /\ U[n] \in Seq(Nat)
    BY <1>1, <1>3, <2>1
  <2>3. String(ss[i]) \in Seq(Nat) /\ Len(String(ss[i])) = 1 + Len(ss[i]) /\ ss[i] \in Seq(Nat)
    BY <2>1, StringLegible DEF Text
  <2>4. U[i] = U[i - 1] \o String(ss[i])
    BY <1>2 DEF Joins, n
  <2>5. /\ Len(U[i]) = Len(U[i - 1]) + Len(String(ss[i]))
        /\ Stands(U[i], Len(U[i - 1]), String(ss[i]))
    BY <2>2, <2>3, <2>4, BeginsAppended
  <2>6. Stands(U[n], Len(U[i - 1]), String(ss[i]))
    <3>1. Len(U[i - 1]) \in Nat
      BY <2>2
    <3> QED
      BY <1>4, <2>1, <2>2, <2>3, <2>5, <3>1, StandsOn
  <2>7. Stands(b, p + Len(U[i - 1]), String(ss[i]))
    <3> DEFINE q == Len(U[i - 1])
               s == String(ss[i])
    <3>1. q \in Nat /\ s \in Seq(Nat) /\ Len(U[n]) \in Nat /\ Stands(b, p, U[n])
      BY <1>3, <2>2, <2>3
    <3> HIDE DEF q, s
    <3>2. Stands(U[n], q, s)
      BY <2>6 DEF q, s
    <3>3. p + q + Len(s) <= Len(b)
      BY <3>1, <3>2 DEF Stands
    <3>4. ASSUME NEW j \in 1 .. Len(s)
          PROVE  b[p + q + j] = s[j]
      <4>1. U[n][q + j] = s[j] /\ q + j \in 1 .. Len(U[n])
        BY <3>1, <3>2 DEF Stands
      <4>2. b[p + (q + j)] = U[n][q + j]
        BY <3>1, <4>1 DEF Stands
      <4>3. p + (q + j) = p + q + j
        BY <3>1
      <4> QED
        BY <4>1, <4>2, <4>3
    <3>5. Stands(b, p + q, s)
      BY <3>3, <3>4 DEF Stands
    <3> QED
      BY <3>5 DEF q, s
  <2>8. Len(U[i]) = Len(U[i - 1]) + 1 + Len(ss[i])
    <3>1. Len(U[i - 1]) \in Nat /\ Len(ss[i]) \in Nat /\ Len(U[i]) \in Nat
      BY <2>2, <2>3, LengthIsNatural
    <3>2. Len(U[i]) = Len(U[i - 1]) + (1 + Len(ss[i]))
      BY <2>3, <2>5
    <3>3. \A x, y \in Nat : \A z : z = x + (1 + y) => z = x + 1 + y
      OBVIOUS
    <3> QED
      BY <3>1, <3>2, <3>3
  <2> QED
    BY <2>1, <2>2, <2>3, <2>7, <2>8
<1> DEFINE L == [k \in 0 .. n |-> Len(U[k])]
           W == [k \in 1 .. n |-> Len(ss[k])]
<1>6. /\ L \in [0 .. n -> Nat] /\ L[0] = 0 /\ W \in [1 .. n -> Nat]
      /\ \A i \in 1 .. n : L[i] = L[i - 1] + 1 + W[i]
  <2>1. L \in [0 .. n -> Nat] /\ L[0] = 0
    BY <1>1, <1>3
  <2>2. W \in [1 .. n -> Nat]
    BY <1>5
  <2>3. ASSUME NEW i \in 1 .. n
        PROVE  L[i] = L[i - 1] + 1 + W[i]
    BY <1>5
  <2> QED
    BY <2>1, <2>2, <2>3
<1>7. P[0] = p + 1 /\ \A i \in 1 .. n : P[i] = Behind(b, P[i - 1])
  BY DEF Follow, n
<1>8. ASSUME NEW i \in 1 .. n, P[i - 1] = p + 1 + L[i - 1]
      PROVE  P[i] = p + 1 + L[i] /\ Bytes(b, P[i - 1]) = ss[i]
  <2>1. /\ i - 1 \in 0 .. n /\ ss[i] \in Seq(Nat) /\ L[i - 1] = Len(U[i - 1]) /\ W[i] = Len(ss[i])
        /\ Stands(b, p + Len(U[i - 1]), String(ss[i]))
    BY <1>5
  <2> HIDE DEF L, W
  <2>2. L[i - 1] \in Nat /\ W[i] \in Nat /\ L[i] = L[i - 1] + 1 + W[i]
    BY <1>6, <2>1
  <2> DEFINE q == p + L[i - 1]
  <2>3. q \in Nat /\ P[i - 1] = q + 1
    BY <1>8, <2>2
  <2>4. Stands(b, q, String(ss[i]))
    BY <2>1
  <2> HIDE DEF q
  <2>5. Behind(b, q + 1) = q + 2 + W[i] /\ Bytes(b, q + 1) = ss[i]
    <3>1. Behind(b, q + 1) = q + 2 + Len(ss[i]) /\ Bytes(b, q + 1) = ss[i]
      BY <2>1, <2>3, <2>4, StringStands
    <3> QED
      BY <2>1, <3>1
  <2>6. P[i] = q + 2 + W[i] /\ Bytes(b, P[i - 1]) = ss[i]
    BY <1>7, <2>3, <2>5
  <2>7. P[i] = p + L[i - 1] + 2 + W[i]
    BY <2>6 DEF q
  <2>8. p + 1 + L[i] = p + L[i - 1] + 2 + W[i]
    <3>1. \A x, y \in Nat : \A z : z = x + 1 + y => p + 1 + z = p + x + 2 + y
      OBVIOUS
    <3> QED
      BY <2>2, <3>1
  <2> QED
    BY <2>6, <2>7, <2>8
<1> DEFINE S == { k \in Nat : k <= n => P[k] = p + 1 + L[k] /\ k <= L[k] }
<1> HIDE DEF L, W
<1>9. 0 \in S
  BY <1>1, <1>6, <1>7
<1>10. ASSUME NEW k \in Nat, k \in S
       PROVE  k + 1 \in S
  <2>1. ASSUME k + 1 <= n
        PROVE  P[k + 1] = p + 1 + L[k + 1] /\ k + 1 <= L[k + 1]
    <3>1. k + 1 \in 1 .. n /\ (k + 1) - 1 = k /\ k \in 0 .. n
      BY <1>1, <2>1
    <3>2. P[k] = p + 1 + L[k] /\ k <= L[k]
      BY <1>1, <1>10, <3>1
    <3>3. P[k + 1] = p + 1 + L[k + 1]
      BY <1>8, <3>1, <3>2
    <3>4. L[k + 1] = L[k] + 1 + W[k + 1] /\ W[k + 1] \in Nat /\ L[k] \in Nat
      BY <1>6, <3>1
    <3> QED
      BY <3>2, <3>3, <3>4
  <2> QED
    BY <1>1, <2>1
<1>11. ASSUME NEW k \in 0 .. n
       PROVE  P[k] = p + 1 + L[k] /\ k <= L[k]
  <2>1. k \in S
    <3> HIDE DEF S
    <3>1. Nat \subseteq S
      BY <1>9, <1>10, SetInduction
    <3> QED
      BY <1>1, <3>1
  <2> QED
    BY <1>1, <2>1
<1>12. ASSUME NEW i \in 1 .. n
       PROVE  Bytes(b, P[i - 1]) = ss[i]
  BY <1>5, <1>8, <1>11
<1>13. L[n] = Len(Strings(ss))
  BY <1>1, <1>3 DEF L
<1> QED
  BY <1>1, <1>11, <1>12, <1>13 DEF n

LEMMA RequestIsDecoded ==
  ASSUME NEW r \in RequestMessage
  PROVE  /\ EncodeRequest(r) \in Seq(Nat)
         /\ EndOf(EncodeRequest(r)) = Len(EncodeRequest(r))
         /\ DecodeRequest(EncodeRequest(r)) = r
<1> DEFINE b == EncodeRequest(r)
           k == Len(r.sql)
           t == Len(r.table)
           h == Len(r.route)
           l == Len(Strings(r.route))
           optional == IF r.partition = NoPartition THEN 1 ELSE 2
           p == 3 + k + t
           a == p + optional
<1>1. b \in Seq(Nat) /\ FieldsStand(b, r)
  BY EncodedFieldsStand
<1>2. /\ r.sql \in Seq(Nat) /\ r.table \in Seq(Nat) /\ r.kind \in 0 .. MaxKind /\ r.kind \in Nat
      /\ r.aggregate \in BOOLEAN /\ r.partition \in Nat \cup {NoPartition}
      /\ r.route \in Seq(Text) /\ r.hop_budget \in Nat
      /\ r.kind <= MaxKind
  BY WireAssumption DEF RequestMessage, Text
<1>3. Strings(r.route) \in Seq(Nat)
  <2>1. Joins(StringsUpTo(r.route), r.route)
    BY <1>2, StringsUpToAre
  <2>2. Len(r.route) \in 0 .. Len(r.route)
    BY <1>2
  <2> QED
    BY <2>1, <2>2 DEF Joins, Strings
<1>4. k \in Nat /\ t \in Nat /\ h \in Nat /\ l \in Nat /\ optional \in Nat
  BY <1>2, <1>3, LengthIsNatural
<1>5. /\ Stands(b, 0, String(r.sql))
      /\ Stands(b, 1 + k, <<r.kind>>)
      /\ Stands(b, 2 + k, String(r.table))
      /\ Stands(b, p, Flag(r.partition # NoPartition))
      /\ r.partition # NoPartition => Stands(b, p + 1, <<r.partition>>)
      /\ Stands(b, a, Flag(r.aggregate))
      /\ Stands(b, a + 1, <<h>>)
      /\ Stands(b, a + 2, Strings(r.route))
      /\ Stands(b, a + 2 + l, <<r.hop_budget>>)
      /\ Len(b) = a + 2 + l + 1
  BY <1>1 DEF FieldsStand
<1> HIDE DEF b, k, t, h, l
<1>6. p \in Nat /\ a \in Nat /\ p = 3 + k + t /\ a = p + optional
  BY <1>4
<1> HIDE DEF p, a
<1>7. Behind(b, 1) = 2 + k /\ Bytes(b, 1) = r.sql
  <2>1. 0 \in Nat /\ 0 + 1 = 1 /\ 0 + 2 = 2
    OBVIOUS
  <2>2. Behind(b, 0 + 1) = 0 + 2 + k /\ Bytes(b, 0 + 1) = r.sql
    BY <1>1, <1>2, <1>5, <2>1, StringStands DEF k
  <2> QED
    BY <2>1, <2>2
<1>8. Cell(b, 2 + k) = r.kind
  <2>1. 1 + k \in Nat /\ (1 + k) + 1 = 2 + k
    BY <1>4
  <2> QED
    BY <1>1, <1>2, <1>5, <2>1, CellStands
<1>9. Behind(b, 3 + k) = p + 1 /\ Bytes(b, 3 + k) = r.table
  <2>1. 2 + k \in Nat /\ (2 + k) + 1 = 3 + k /\ (2 + k) + 2 + t = p + 1
    BY <1>4, <1>6
  <2>2. Behind(b, (2 + k) + 1) = (2 + k) + 2 + t /\ Bytes(b, (2 + k) + 1) = r.table
    BY <1>1, <1>2, <1>5, <2>1, StringStands DEF t
  <2> QED
    BY <2>1, <2>2
<1>10. PartitionAt(b) = p + 1
  <2>1. (2 + k) + 1 = 3 + k
    BY <1>4
  <2> QED
    BY <1>7, <1>9, <2>1 DEF PartitionAt
<1>11. Cell(b, p + 1) = IF r.partition # NoPartition THEN 1 ELSE 0
  BY <1>1, <1>5, <1>6, FlagCell
<1>12. r.partition # NoPartition => Cell(b, p + 2) = r.partition
  <2>1. p + 1 \in Nat /\ (p + 1) + 1 = p + 2
    BY <1>6
  <2> QED
    BY <1>1, <1>2, <1>5, <2>1, CellStands
<1>13. AggregateAt(b) = a + 1
  <2>1. PartitionCells(b, p + 1) = optional
    BY <1>11 DEF PartitionCells
  <2>2. p + 1 + optional = a + 1
    BY <1>4, <1>6
  <2> HIDE DEF optional
  <2> QED
    BY <1>10, <2>1, <2>2 DEF AggregateAt
<1>14. Cell(b, a + 1) = IF r.aggregate THEN 1 ELSE 0
  BY <1>1, <1>2, <1>5, <1>6, FlagCell
<1>15. HopsIn(b) = h
  <2>1. a + 1 \in Nat /\ (a + 1) + 1 = a + 2
    BY <1>6
  <2>2. Cell(b, (a + 1) + 1) = h
    BY <1>1, <1>4, <1>5, <2>1, CellStands
  <2> QED
    BY <1>13, <2>2 DEF HopsIn
<1>16. /\ EndOf(b) = Len(b)
       /\ \A i \in 1 .. h : Bytes(b, HopsAt(b)[i - 1]) = r.route[i]
       /\ h <= l
  <2>1. a + 1 + 2 = (a + 2) + 1 /\ a + 2 \in Nat /\ (a + 2) + 1 \in Nat
        /\ (a + 2) + 1 + l = a + 2 + l + 1
    BY <1>4, <1>6
  <2>2. HopsAt(b) = Positions(b, (a + 2) + 1, h)
    BY <1>13, <1>15, <2>1 DEF HopsAt
  <2>3. Follow(HopsAt(b), b, (a + 2) + 1, h)
    <3>1. Legible(b)
      BY <1>1, TextLegible
    <3> QED
      BY <1>4, <2>1, <2>2, <3>1, PositionsAre
  <2>4. /\ HopsAt(b)[h] = (a + 2) + 1 + l
        /\ \A i \in 1 .. h : Bytes(b, HopsAt(b)[i - 1]) = r.route[i]
        /\ h <= l
    BY <1>1, <1>2, <1>5, <2>1, <2>3, HopsStand DEF h, l
  <2>5. EndOf(b) = HopsAt(b)[h]
    BY <1>15 DEF EndOf
  <2> QED
    BY <1>5, <2>1, <2>4, <2>5
<1>17. Cell(b, Len(b)) = r.hop_budget
  <2>1. a + 2 + l \in Nat
    BY <1>4, <1>6
  <2> QED
    BY <1>1, <1>2, <1>5, <2>1, CellStands
<1>18. AggregateAt(b) + 1 + HopsIn(b) < Len(b)
  <2>1. a + 1 + 1 + h < a + 2 + l + 1
    BY <1>4, <1>6, <1>16
  <2> QED
    BY <1>5, <1>13, <1>15, <2>1
<1>19. Cell(b, Behind(b, 1)) = r.kind
  BY <1>7, <1>8
<1>20. Bytes(b, Behind(b, 1) + 1) = r.table
  <2>1. (2 + k) + 1 = 3 + k
    BY <1>4
  <2> QED
    BY <1>7, <1>9, <2>1
<1>21. (IF Cell(b, PartitionAt(b)) = 0 THEN NoPartition ELSE Cell(b, PartitionAt(b) + 1)) = r.partition
  <2>1. (p + 1) + 1 = p + 2
    BY <1>6
  <2> QED
    BY <1>10, <1>11, <1>12, <2>1
<1>22. (Cell(b, AggregateAt(b)) # 0) = r.aggregate
  BY <1>2, <1>13, <1>14
<1>23. [i \in 1 .. HopsIn(b) |-> Bytes(b, HopsAt(b)[i - 1])] = r.route
  <2>1. r.route = [i \in 1 .. h |-> r.route[i]]
    <3>1. r.route \in [1 .. h -> Text]
      BY <1>2, LenProperties DEF h
    <3> QED
      BY <3>1
  <2> QED
    BY <1>15, <1>16, <2>1
<1>24. DecodeRequest(b) =
         [sql |-> r.sql, kind |-> r.kind, table |-> r.table, partition |-> r.partition,
          aggregate |-> r.aggregate, route |-> r.route, hop_budget |-> r.hop_budget]
  <2>1. /\ AggregateAt(b) + 1 + HopsIn(b) < Len(b) /\ EndOf(b) = Len(b)
        /\ Cell(b, Behind(b, 1)) <= MaxKind
    BY <1>2, <1>16, <1>18, <1>19
  <2>2. DecodeRequest(b) =
          [sql |-> Bytes(b, 1), kind |-> Cell(b, Behind(b, 1)),
           table |-> Bytes(b, Behind(b, 1) + 1),
           partition |-> IF Cell(b, PartitionAt(b)) = 0 THEN NoPartition
                         ELSE Cell(b, PartitionAt(b) + 1),
           aggregate |-> Cell(b, AggregateAt(b)) # 0,
           route |-> [i \in 1 .. HopsIn(b) |-> Bytes(b, HopsAt(b)[i - 1])],
           hop_budget |-> Cell(b, Len(b))]
    BY <2>1, DecodedRequest
  <2> QED
    BY <1>7, <1>17, <1>19, <1>20, <1>21, <1>22, <1>23, <2>2
<1>25. r = [sql |-> r.sql, kind |-> r.kind, table |-> r.table, partition |-> r.partition,
            aggregate |-> r.aggregate, route |-> r.route, hop_budget |-> r.hop_budget]
  BY DEF RequestMessage
<1> QED
  BY <1>1, <1>16, <1>24, <1>25 DEF b

(* What was cut or goes on is refused: up to where a reader of the cut      *)
(* message would end, and up to the end of the whole one, they agree.       *)
LEMMA CutRequestIsRefused ==
  ASSUME NEW r \in RequestMessage, NEW n \in Nat, n < Len(EncodeRequest(r))
  PROVE  DecodeRequest(SubSeq(EncodeRequest(r), 1, n)) = Malformed
<1> DEFINE b == EncodeRequest(r)
           c == SubSeq(b, 1, n)
<1>1. b \in Seq(Nat) /\ EndOf(b) = Len(b)
  BY RequestIsDecoded
<1> HIDE DEF b
<1>2. c \in Seq(Nat) /\ Len(c) = n /\ \A i \in 1 .. n : c[i] = b[i]
  <2>1. 1 \in Int /\ n \in Int /\ \A i \in 1 .. n : b[i] \in Nat
    BY <1>1 DEF b
  <2>2. /\ c \in Seq(Nat) /\ Len(c) = IF 1 <= n THEN n - 1 + 1 ELSE 0
        /\ \A i \in 1 .. n - 1 + 1 : c[i] = b[1 + i - 1]
    BY <2>1, SubSeqProperties
  <2>3. n - 1 + 1 = n /\ \A i \in 1 .. n : 1 + i - 1 = i
    OBVIOUS
  <2> HIDE DEF c
  <2> QED
    BY <2>2, <2>3
<1> HIDE DEF c
<1>3. Legible(b) /\ Legible(c)
  BY <1>1, <1>2, TextLegible
<1>4. EndOf(c) # Len(c)
  <2> SUFFICES ASSUME EndOf(c) = n
               PROVE  FALSE
    BY <1>2
  <2>1. ASSUME NEW q \in Nat, 0 < q, q < EndOf(c)
        PROVE  Cell(b, q) = Cell(c, q)
    <3>1. q \in 1 .. n /\ q \in 1 .. Len(b)
      BY <1>1, <2>1 DEF b
    <3> QED
      BY <1>1, <1>2, <3>1 DEF Cell
  <2>2. EndOf(b) = EndOf(c)
    BY <1>3, <2>1, EndAgrees
  <2> QED
    BY <1>1, <2>2 DEF b
<1>5. DecodeRequest(c) = Malformed
  BY <1>4, DecodedRequest
<1> QED
  BY <1>5 DEF b, c

LEMMA ExtendedRequestIsRefused ==
  ASSUME NEW r \in RequestMessage, NEW x \in Nat
  PROVE  DecodeRequest(Append(EncodeRequest(r), x)) = Malformed
<1> DEFINE b == EncodeRequest(r)
           c == Append(b, x)
<1>1. b \in Seq(Nat) /\ EndOf(b) = Len(b)
  BY RequestIsDecoded
<1> HIDE DEF b
<1>2. /\ c \in Seq(Nat) /\ Len(c) = Len(b) + 1 /\ \A i \in 1 .. Len(b) : c[i] = b[i]
      /\ Len(b) \in Nat
  BY <1>1
<1> HIDE DEF c
<1>3. Legible(b) /\ Legible(c)
  BY <1>1, <1>2, TextLegible
<1>4. EndOf(c) # Len(c)
  <2>1. ASSUME NEW q \in Nat, 0 < q, q < EndOf(b)
        PROVE  Cell(c, q) = Cell(b, q)
    <3>1. q \in 1 .. Len(b) /\ q \in 1 .. Len(c)
      BY <1>1, <1>2, <2>1
    <3> QED
      BY <1>1, <1>2, <3>1 DEF Cell
  <2>2. EndOf(c) = EndOf(b)
    BY <1>3, <2>1, EndAgrees
  <2> QED
    BY <1>1, <1>2, <2>2
<1>5. DecodeRequest(c) = Malformed
  BY <1>4, DecodedRequest
<1> QED
  BY <1>5 DEF b, c

(* A response, likewise *)
LEMMA EncodedResponseStands ==
  ASSUME NEW r \in ResponseMessage
  PROVE  /\ EncodeResponse(r) \in Seq(Nat)
         /\ r.status \in Nat /\ r.status <= MaxStatus /\ r.payload \in Seq(Nat) /\ r.elapsed \in Nat
         /\ r = [status |-> r.status, payload |-> r.payload, elapsed |-> r.elapsed]
         /\ Stands(EncodeResponse(r), 0, <<r.status>>)
         /\ Stands(EncodeResponse(r), 1, String(r.payload))
         /\ Stands(EncodeResponse(r), 2 + Len(r.payload), <<r.elapsed>>)
         /\ Len(EncodeResponse(r)) = 2 + Len(r.payload) + 1
<1> DEFINE s == <<r.status>>
           t == String(r.payload)
           e == <<r.elapsed>>
           k == Len(r.payload)
           c == s \o t
<1>1. /\ r.status \in Nat /\ r.status <= MaxStatus /\ r.payload \in Seq(Nat) /\ r.elapsed \in Nat
      /\ r = [status |-> r.status, payload |-> r.payload, elapsed |-> r.elapsed]
  BY WireAssumption DEF ResponseMessage, Text
<1>2. /\ s \in Seq(Nat) /\ Len(s) = 1 /\ t \in Seq(Nat) /\ Len(t) = 1 + k
      /\ e \in Seq(Nat) /\ Len(e) = 1 /\ k \in Nat
  BY <1>1, CellsLegible, StringLegible, LengthIsNatural DEF Text
<1>3. EncodeResponse(r) = c \o e
  BY DEF EncodeResponse
<1> HIDE DEF s, t, e, k
<1>4. /\ c \in Seq(Nat) /\ Len(c) = Len(s) + Len(t) /\ Begins(s, c) /\ Stands(c, Len(s), t)
  BY <1>2, BeginsAppended
<1> HIDE DEF c
<1>5. /\ c \o e \in Seq(Nat) /\ Len(c \o e) = Len(c) + Len(e)
      /\ Begins(c, c \o e) /\ Stands(c \o e, Len(c), e)
  BY <1>2, <1>4, BeginsAppended
<1>6. Len(c) = 2 + k
  BY <1>2, <1>4
<1>7. 0 \in Nat /\ 1 \in Nat /\ Stands(s, 0, s)
  BY <1>2 DEF Stands
<1>8. Stands(c, 0, s) /\ Stands(c, 1, t)
  BY <1>2, <1>4, <1>7, StandsOn
<1>9. Stands(c \o e, 0, s) /\ Stands(c \o e, 1, t)
  BY <1>2, <1>4, <1>5, <1>7, <1>8, StandsOn
<1>10. Stands(c \o e, 2 + k, e) /\ Len(c \o e) = 2 + k + 1
  BY <1>2, <1>5, <1>6
<1> QED
  BY <1>1, <1>3, <1>5, <1>9, <1>10 DEF s, t, e, k

LEMMA ResponseIsDecoded ==
  ASSUME NEW r \in ResponseMessage
  PROVE  /\ EncodeResponse(r) \in Seq(Nat)
         /\ Behind(EncodeResponse(r), 2) = Len(EncodeResponse(r))
         /\ 2 < Len(EncodeResponse(r))
         /\ DecodeResponse(EncodeResponse(r)) = r
<1> DEFINE b == EncodeResponse(r)
           k == Len(r.payload)
<1>1. /\ b \in Seq(Nat)
      /\ r.status \in Nat /\ r.status <= MaxStatus /\ r.payload \in Seq(Nat) /\ r.elapsed \in Nat
      /\ r = [status |-> r.status, payload |-> r.payload, elapsed |-> r.elapsed]
      /\ Stands(b, 0, <<r.status>>)
      /\ Stands(b, 1, String(r.payload))
      /\ Stands(b, 2 + k, <<r.elapsed>>)
      /\ Len(b) = 2 + k + 1
  BY EncodedResponseStands
<1> HIDE DEF b
<1>2. k \in Nat /\ Len(b) \in Nat
  BY <1>1, LengthIsNatural
<1>3. 0 \in Nat /\ 0 + 1 = 1 /\ 1 \in Nat /\ 1 + 1 = 2 /\ 1 + 2 + k = 2 + k + 1 /\ 2 + k \in Nat
  BY <1>2
<1>4. Cell(b, 1) = r.status
  BY <1>1, <1>3, CellStands
<1>5. Behind(b, 2) = 1 + 2 + k /\ Bytes(b, 2) = r.payload
  BY <1>1, <1>3, StringStands
<1>6. Cell(b, 2 + k + 1) = r.elapsed
  BY <1>1, <1>3, CellStands
<1>7. Behind(b, 2) = Len(b) /\ Cell(b, Behind(b, 2)) = r.elapsed
  BY <1>1, <1>3, <1>5, <1>6
<1>8. DecodeResponse(b) = r
  BY <1>1, <1>4, <1>5, <1>7 DEF DecodeResponse
<1>9. 2 < Len(b)
  BY <1>1, <1>2
<1> QED
  BY <1>1, <1>7, <1>8, <1>9 DEF b

LEMMA ChangedResponseIsRefused ==
  ASSUME NEW r \in ResponseMessage, NEW c \in Seq(Nat),
         Len(c) # Len(EncodeResponse(r)),
         \A i \in 1 .. Len(c) : i <= Len(EncodeResponse(r)) => c[i] = EncodeResponse(r)[i]
  PROVE  DecodeResponse(c) = Malformed
<1> DEFINE b == EncodeResponse(r)
<1>1. b \in Seq(Nat) /\ Behind(b, 2) = Len(b) /\ 2 < Len(b)
  BY ResponseIsDecoded
<1> HIDE DEF b
<1>2. Len(b) \in Nat /\ Len(c) \in Nat /\ Len(c) # Len(b)
  BY <1>1, LengthIsNatural DEF b
<1>3. Behind(c, 2) # Len(c)
  <2>1. CASE 2 <= Len(c)
    <3>1. 2 \in 1 .. Len(c) /\ 2 \in 1 .. Len(b)
      BY <1>1, <1>2, <2>1
    <3>2. c[2] = b[2]
      BY <1>1, <3>1 DEF b
    <3>3. Cell(c, 2) = Cell(b, 2)
      BY <1>1, <3>1, <3>2 DEF Cell
    <3> QED
      BY <1>1, <1>2, <3>3 DEF Behind
  <2>2. CASE ~(2 <= Len(c))
    <3>1. Cell(c, 2) = 0
      BY <1>2, <2>2 DEF Cell
    <3> QED
      BY <1>2, <2>2, <3>1 DEF Behind
  <2> QED
    BY <2>1, <2>2
<1> QED
  BY <1>3 DEF DecodeResponse
================================================================================
