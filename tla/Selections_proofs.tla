-------------------------- MODULE Selections_proofs -------------------------
(***************************************************************************)
(* What the other proofs need about numbers, finite sets and sequences:    *)
(* the largest and the smallest of some numbers, induction up to a bound,  *)
(* the ranks and the one listing of a finite ordered set, and what Picked, *)
(* First and the FlattenSeq of the community modules leave of a sequence.  *)
(***************************************************************************)
EXTENDS Selections, SequencesExt, TLAPS, FiniteSetTheorems, SequenceTheorems, WellFoundedInduction
-----------------------------------------------------------------------------
(* A set of numbers up to n has a largest and a smallest one.              *)
LEMMA LargestIndex ==
    ASSUME NEW n \in Nat, NEW S \in SUBSET (1..n), S # {}
    PROVE  \E i \in S : \A j \in S : j <= i
<1> DEFINE R == OpToRel(<, Nat)
           T == {n - i : i \in S}
<1>1. IsWellFoundedOn(R, Nat)
  BY NatLessThanWellFounded
<1>2. \A i \in S : i \in 1..n /\ n - i \in Nat
  OBVIOUS
<1>3. T \subseteq Nat /\ T # {}
  BY <1>2
<1>4. PICK x \in T : \A y \in T : <<y, x>> \notin R
  <2> HIDE DEF R, T
  <2>1. QED
    BY <1>1, <1>3, WFMin
<1>5. \A y \in T : ~(y < x)
  BY <1>3, <1>4 DEF OpToRel
<1>6. PICK i \in S : x = n - i
  BY <1>4
<1>7. \A j \in S : ~(n - j < n - i)
  BY <1>5, <1>6
<1>8. QED
  BY <1>2, <1>7

LEMMA SmallestIndex ==
    ASSUME NEW n \in Nat, NEW S \in SUBSET (1..n), S # {}
    PROVE  \E i \in S : \A j \in S : i <= j
<1> DEFINE R == OpToRel(<, Nat)
<1>1. IsWellFoundedOn(R, Nat)
  BY NatLessThanWellFounded
<1>2. S \subseteq Nat
  OBVIOUS
<1>3. PICK i \in S : \A j \in S : <<j, i>> \notin R
  <2> HIDE DEF R
  <2>1. QED
    BY <1>1, <1>2, WFMin
<1>4. \A j \in S : ~(j < i)
  BY <1>2, <1>3 DEF OpToRel
<1>5. QED
  BY <1>2, <1>4

(* Induction up to a bound, with a set in the place of a predicate.        *)
LEMMA BoundedInduction ==
    ASSUME NEW n \in Nat, NEW S, n > 0 => 1 \in S,
           \A i \in 1..(n - 1) : i \in S => i + 1 \in S
    PROVE  1..n \subseteq S
<1> SUFFICES ASSUME ~(1..n \subseteq S) PROVE FALSE
  OBVIOUS
<1> DEFINE R == OpToRel(<, Nat)
           Missing == {i \in 1..n : i \notin S}
<1>1. IsWellFoundedOn(R, Nat)
  BY NatLessThanWellFounded
<1>2. Missing \subseteq Nat /\ Missing # {}
  OBVIOUS
<1>3. PICK i \in Missing : \A j \in Missing : <<j, i>> \notin R
  <2> HIDE DEF R, Missing
  <2>1. QED
    BY <1>1, <1>2, WFMin
<1>4. \A j \in Missing : ~(j < i)
  BY <1>2, <1>3 DEF OpToRel
<1>5. i \in 1..n /\ i \notin S /\ i # 1
  OBVIOUS
<1>6. i - 1 \in 1..(n - 1) /\ i - 1 \in 1..n /\ i - 1 < i /\ (i - 1) + 1 = i
  BY <1>5
<1>7. i - 1 \in S
  BY <1>4, <1>6
<1>8. QED
  BY <1>5, <1>6, <1>7

(* Ranks in a strict total order of a finite set.                          *)
IsOrderOf(R, S) ==
    /\ \A x \in S : <<x, x>> \notin R
    /\ \A x, y, z \in S : <<x, y>> \in R /\ <<y, z>> \in R => <<x, z>> \in R
    /\ \A x, y \in S : x # y => <<x, y>> \in R \/ <<y, x>> \in R

Below(R, S, x) == {y \in S : <<y, x>> \in R}

LEMMA Ranks ==
    ASSUME NEW S, IsFiniteSet(S), NEW R, IsOrderOf(R, S)
    PROVE  /\ Cardinality(S) \in Nat
           /\ \A x, y \in S : <<x, y>> \in R
                                => Cardinality(Below(R, S, x)) < Cardinality(Below(R, S, y))
           /\ \A x, y \in S : Cardinality(Below(R, S, x)) < Cardinality(Below(R, S, y))
                                => <<x, y>> \in R
           /\ \A n \in 1..Cardinality(S) : \E x \in S : Cardinality(Below(R, S, x)) = n - 1
<1> DEFINE c == Cardinality(S)
           rank == [x \in S |-> Cardinality(Below(R, S, x))]
<1>1. c \in Nat
  BY FS_CardinalityType
<1>2. \A x \in S : /\ Below(R, S, x) \in SUBSET S /\ x \notin Below(R, S, x)
                   /\ IsFiniteSet(Below(R, S, x)) /\ rank[x] \in Nat /\ rank[x] < c
  <2>1. ASSUME NEW x \in S
        PROVE  /\ Below(R, S, x) \in SUBSET S /\ x \notin Below(R, S, x)
               /\ IsFiniteSet(Below(R, S, x)) /\ rank[x] \in Nat /\ rank[x] < c
    <3>1. Below(R, S, x) \in SUBSET S /\ x \notin Below(R, S, x)
      BY DEF Below, IsOrderOf
    <3>2. IsFiniteSet(Below(R, S, x)) /\ rank[x] <= c /\ rank[x] # c
      BY <3>1, FS_Subset
    <3>3. rank[x] \in Nat
      BY <3>2, FS_CardinalityType
    <3>4. QED
      BY <1>1, <3>1, <3>2, <3>3
  <2>2. QED
    BY <2>1
<1>3. \A x, y \in S : <<x, y>> \in R => rank[x] < rank[y]
  <2>1. ASSUME NEW x \in S, NEW y \in S, <<x, y>> \in R PROVE rank[x] < rank[y]
    <3>1. Below(R, S, x) \in SUBSET Below(R, S, y) /\ x \in Below(R, S, y)
      BY <2>1 DEF Below, IsOrderOf
    <3>2. Below(R, S, x) # Below(R, S, y)
      BY <1>2, <3>1
    <3>3. rank[x] <= rank[y] /\ rank[x] # rank[y]
      BY <1>2, <3>1, <3>2, FS_Subset
    <3>4. QED
      BY <1>2, <3>3
  <2>2. QED
    BY <2>1
<1>4. \A x, y \in S : rank[x] < rank[y] => <<x, y>> \in R
  <2>1. ASSUME NEW x \in S, NEW y \in S, rank[x] < rank[y], <<x, y>> \notin R PROVE FALSE
    <3>1. x # y /\ <<y, x>> \in R
      BY <1>2, <2>1 DEF IsOrderOf
    <3>2. rank[y] < rank[x]
      BY <1>3, <3>1
    <3>3. QED
      BY <1>2, <2>1, <3>2
  <2>2. QED
    BY <2>1
<1>5. \A x, y \in S : rank[x] = rank[y] => x = y
  <2>1. \A x, y \in S : x # y => rank[x] < rank[y] \/ rank[y] < rank[x]
    BY <1>3 DEF IsOrderOf
  <2>2. QED
    BY <1>2, <2>1
<1>6. rank \in Injection(S, 0..(c - 1))
  <2>1. rank \in [S -> 0..(c - 1)]
    BY <1>1, <1>2
  <2>2. IsInjective(rank)
    BY <1>5 DEF IsInjective
  <2>3. QED
    BY <2>1, <2>2 DEF Injection
<1>7. IsFiniteSet(0..(c - 1)) /\ Cardinality(0..(c - 1)) = c
  BY <1>1, FS_Interval, SMTT(60)
<1>8. rank \in Surjection(S, 0..(c - 1))
  BY <1>6, <1>7, FS_Injection
<1>9. \A n \in 1..c : \E x \in S : rank[x] = n - 1
  <2> HIDE DEF rank, c
  <2>1. \A t \in 0..(c - 1) : \E x \in S : rank[x] = t
    BY <1>8 DEF Surjection
  <2>2. \A n \in 1..c : n - 1 \in 0..(c - 1)
    BY <1>1
  <2>3. QED
    BY <2>1, <2>2
<1>10. QED
  BY <1>1, <1>3, <1>4, <1>9

(* A function that gives every rank an element of that rank.               *)
IsRanking(order, R, S) ==
    /\ order = [n \in 1..Cardinality(S) |-> order[n]]
    /\ \A n \in DOMAIN order :
            (\E x \in S : Cardinality(Below(R, S, x)) = n - 1)
            => order[n] \in S /\ Cardinality(Below(R, S, order[n])) = n - 1

LEMMA RankOrder ==
    ASSUME NEW S, IsFiniteSet(S), NEW R, IsOrderOf(R, S), NEW order, IsRanking(order, R, S)
    PROVE  /\ \A n \in DOMAIN order : order[n] \in S
           /\ \A m, n \in DOMAIN order : m < n => <<order[m], order[n]>> \in R
           /\ \A m, n \in DOMAIN order : order[m] = order[n] => m = n
           /\ \A x \in S : \E n \in DOMAIN order : order[n] = x
<1> DEFINE c == Cardinality(S)
           D == 1..c
<1>1. c \in Nat
  BY Ranks
<1>0. order = [n \in D |-> order[n]]
  BY DEF IsRanking
<1>2. \A n \in D : order[n] \in S /\ Cardinality(Below(R, S, order[n])) = n - 1
  BY <1>0, Ranks DEF IsRanking
<1>3. \A m, n \in D : m < n => <<order[m], order[n]>> \in R
  <2>1. ASSUME NEW m \in D, NEW n \in D, m < n PROVE <<order[m], order[n]>> \in R
    <3>1. m - 1 < n - 1
      BY <1>1, <2>1
    <3>2. QED
      BY <1>2, <3>1, Ranks
  <2>2. QED
    BY <2>1
<1>4. \A m, n \in D : order[m] = order[n] => m = n
  <2>1. \A m, n \in D : m - 1 = n - 1 => m = n
    BY <1>1
  <2>2. QED
    BY <1>2, <2>1
<1>5. order \in Injection(D, S)
  <2>1. order \in [D -> S]
    BY <1>0, <1>2
  <2>2. QED
    BY <1>4, <2>1 DEF Injection, IsInjective
<1>6. Cardinality(D) = c
  BY <1>1, FS_Interval
<1>7. order \in Surjection(D, S)
  BY <1>5, <1>6, FS_Injection
<1>8. \A x \in S : \E n \in D : order[n] = x
  BY <1>7 DEF Surjection
<1>9. QED
  BY <1>0, <1>2, <1>3, <1>4, <1>8

LEMMA ConcatParts ==
    ASSUME NEW T, NEW s \in Seq(T), NEW t \in Seq(T)
    PROVE  /\ \A k \in 1..Len(s) : (s \o t)[k] = s[k]
           /\ \A k \in 1..Len(t) : (s \o t)[Len(s) + k] = t[k]
<1>1. Len(s) \in Nat /\ Len(t) \in Nat
  BY LenProperties
<1>2. ASSUME NEW k \in 1..Len(s) PROVE (s \o t)[k] = s[k]
  BY <1>1, ConcatProperties
<1>3. ASSUME NEW k \in 1..Len(t) PROVE (s \o t)[Len(s) + k] = t[k]
  BY <1>1, ConcatProperties
<1>4. QED
  BY <1>2, <1>3

(* FlattenSeq: the i-th part of the list stands after offset[i].           *)
IsOffsets(seqs, offset) ==
    /\ offset \in [1..(Len(seqs) + 1) -> Nat]
    /\ offset[1] = 0
    /\ \A i \in 1..Len(seqs) : offset[i + 1] = offset[i] + Len(seqs[i])
    /\ Len(FlattenSeq(seqs)) = offset[Len(seqs) + 1]
    /\ \A i \in 1..Len(seqs) : \A k \in 1..Len(seqs[i]) :
            FlattenSeq(seqs)[offset[i] + k] = seqs[i][k]

LEMMA FlattenSeqOffsets ==
    ASSUME NEW T, NEW seqs \in Seq(Seq(T))
    PROVE  FlattenSeq(seqs) \in Seq(T) /\ \E offset : IsOffsets(seqs, offset)
<1> DEFINE L == Len(seqs)
           IsFlatten(f, m) == f = [i \in 1..m |-> IF i = 1 THEN seqs[i] ELSE f[i - 1] \o seqs[i]]
           flatten == CHOOSE f : IsFlatten(f, L)
           IsOffset(o, f, m) ==
               /\ o \in [1..(m + 1) -> Nat]
               /\ o[1] = 0
               /\ \A i \in 1..m : o[i + 1] = o[i] + Len(seqs[i])
               /\ f[m] \in Seq(T) /\ Len(f[m]) = o[m + 1]
               /\ \A i \in 1..m : \A k \in 1..Len(seqs[i]) : f[m][o[i] + k] = seqs[i][k]
<1>1. L \in Nat /\ DOMAIN seqs = 1..L /\ \A i \in 1..L : seqs[i] \in Seq(T)
  BY LenProperties, ElementOfSeq
<1> HIDE DEF L
<1>2. ASSUME L = 0
      PROVE  \E o \in [1..(L + 1) -> Nat] :
                /\ o[1] = 0
                /\ FlattenSeq(seqs) \in Seq(T) /\ Len(FlattenSeq(seqs)) = o[L + 1]
  <2>1. FlattenSeq(seqs) = seqs /\ seqs = <<>>
    BY <1>2, <1>1 DEF FlattenSeq, L
  <2> DEFINE o == [i \in 1..(L + 1) |-> 0]
  <2>2. o \in [1..(L + 1) -> Nat] /\ o[1] = 0 /\ o[L + 1] = 0
    BY <1>2
  <2>3. QED
    BY <2>1, <2>2, EmptySeq
<1>3. ASSUME L # 0 PROVE FlattenSeq(seqs) = flatten[L]
  BY <1>3 DEF FlattenSeq, L
<1>4. \A m \in 1..L : \E f : IsFlatten(f, m)
  <2> DEFINE Good == {m \in 1..L : \E f : IsFlatten(f, m)}
  <2>1. ASSUME L > 0 PROVE 1 \in Good
    <3>1. IsFlatten([i \in 1..1 |-> seqs[1]], 1)
      OBVIOUS
    <3>2. 1 \in 1..L
      BY <1>1, <2>1
    <3> HIDE DEF IsFlatten
    <3>3. QED
      BY <3>1, <3>2
  <2>2. ASSUME NEW m \in 1..(L - 1), m \in Good PROVE m + 1 \in Good
    <3>1. PICK f : IsFlatten(f, m)
      BY <2>2
    <3> DEFINE g == [i \in 1..(m + 1) |-> IF i = m + 1 THEN f[m] \o seqs[m + 1] ELSE f[i]]
    <3>2. \A i \in 1..m : g[i] = f[i]
      BY <1>1
    <3>3. \A i \in 1..(m + 1) : g[i] = IF i = 1 THEN seqs[i] ELSE g[i - 1] \o seqs[i]
      <4>1. ASSUME NEW i \in 1..(m + 1)
            PROVE  g[i] = IF i = 1 THEN seqs[i] ELSE g[i - 1] \o seqs[i]
        <5>1. CASE i = m + 1
          <6>1. m \in 1..m /\ i # 1 /\ i - 1 = m
            BY <1>1, <5>1
          <6>2. QED
            BY <3>2, <5>1, <6>1
        <5>2. CASE i # m + 1
          <6>1. i \in 1..m /\ (i # 1 => i - 1 \in 1..m)
            BY <1>1, <5>2
          <6>2. f[i] = IF i = 1 THEN seqs[i] ELSE f[i - 1] \o seqs[i]
            BY <3>1, <6>1
          <6>3. QED
            BY <3>2, <6>1, <6>2
        <5>3. QED
          BY <5>1, <5>2
      <4>2. QED
        BY <4>1
    <3>4. IsFlatten(g, m + 1)
      <4>1. g = [i \in 1..(m + 1) |-> g[i]]
        OBVIOUS
      <4> HIDE DEF g
      <4>2. QED
        BY <3>3, <4>1
    <3>5. m + 1 \in 1..L
      BY <1>1
    <3> HIDE DEF g, IsFlatten
    <3>6. QED
      BY <3>4, <3>5
  <2>3. 1..L \subseteq Good
    <3> HIDE DEF Good
    <3>1. QED
      BY <1>1, <2>1, <2>2, BoundedInduction
  <2> HIDE DEF IsFlatten
  <2>4. QED
    BY <2>3
<1>5. ASSUME L # 0 PROVE IsFlatten(flatten, L)
  <2> HIDE DEF IsFlatten
  <2>0. L \in 1..L
    BY <1>1, <1>5
  <2>1. \E f : IsFlatten(f, L)
    BY <1>4, <2>0
  <2>2. QED
    BY <2>1
<1> HIDE DEF flatten
<1>6. ASSUME L # 0
      PROVE  \A m \in 1..L : \E o : IsOffset(o, flatten, m)
  <2> DEFINE Good == {m \in 1..L : \E o : IsOffset(o, flatten, m)}
  <2>0. \A i \in 1..L : flatten[i] = IF i = 1 THEN seqs[i] ELSE flatten[i - 1] \o seqs[i]
    BY <1>5, <1>6
  <2>1. 1 \in Good
    <3>1. 1 \in 1..L /\ seqs[1] \in Seq(T)
      BY <1>1, <1>6
    <3>2. flatten[1] = seqs[1]
      BY <2>0, <3>1
    <3> DEFINE o == [i \in 1..(1 + 1) |-> IF i = 1 THEN 0 ELSE Len(seqs[1])]
    <3>3. Len(seqs[1]) \in Nat
      BY <3>1, LenProperties
    <3>4. o \in [1..(1 + 1) -> Nat] /\ o[1] = 0 /\ o[1 + 1] = Len(seqs[1])
      BY <3>3
    <3> HIDE DEF o
    <3>5. \A i \in 1..1 : i = 1
      OBVIOUS
    <3>6. o[1 + 1] = o[1] + Len(seqs[1])
      BY <3>3, <3>4
    <3>7. \A k \in 1..Len(seqs[1]) : o[1] + k = k
      BY <3>3, <3>4
    <3>8. IsOffset(o, flatten, 1)
      BY <3>1, <3>2, <3>4, <3>5, <3>6, <3>7
    <3>9. QED
      BY <3>1, <3>8, ZenonT(60)
  <2>2. ASSUME NEW m \in 1..(L - 1), m \in Good PROVE m + 1 \in Good
    <3>1. PICK o : IsOffset(o, flatten, m)
      BY <2>2
    <3>2. m \in 1..L /\ m + 1 \in 1..L /\ m \in Nat /\ m + 1 # 1 /\ (m + 1) - 1 = m
      BY <1>1
    <3>3. seqs[m + 1] \in Seq(T) /\ Len(seqs[m + 1]) \in Nat
      BY <1>1, <3>2, LenProperties
    <3>4. flatten[m + 1] = flatten[m] \o seqs[m + 1]
      BY <2>0, <3>2
    <3>50. flatten[m] \in Seq(T)
      BY <3>1
    <3>5. /\ flatten[m + 1] \in Seq(T)
          /\ Len(flatten[m + 1]) = Len(flatten[m]) + Len(seqs[m + 1])
      BY <3>3, <3>4, <3>50, ConcatProperties
    <3>51. /\ \A k \in 1..Len(flatten[m]) : (flatten[m] \o seqs[m + 1])[k] = flatten[m][k]
           /\ \A k \in 1..Len(seqs[m + 1]) :
                (flatten[m] \o seqs[m + 1])[Len(flatten[m]) + k] = seqs[m + 1][k]
      <4> DEFINE a == flatten[m]
                 b == seqs[m + 1]
      <4>1. a \in Seq(T) /\ b \in Seq(T)
        BY <3>3, <3>50
      <4> HIDE DEF a, b
      <4>2. /\ \A k \in 1..Len(a) : (a \o b)[k] = a[k]
            /\ \A k \in 1..Len(b) : (a \o b)[Len(a) + k] = b[k]
        BY <4>1, ConcatParts
      <4>3. QED
        BY <4>2 DEF a, b
    <3>52. /\ \A k \in 1..Len(flatten[m]) : flatten[m + 1][k] = flatten[m][k]
           /\ \A k \in 1..Len(seqs[m + 1]) :
                flatten[m + 1][Len(flatten[m]) + k] = seqs[m + 1][k]
      BY <3>4, <3>51, Zenon
    <3> DEFINE q == [i \in 1..((m + 1) + 1) |->
                        IF i = (m + 1) + 1 THEN o[m + 1] + Len(seqs[m + 1]) ELSE o[i]]
    <3>6. \A i \in 1..(m + 1) : i \in 1..((m + 1) + 1) /\ q[i] = o[i] /\ o[i] \in Nat
      BY <3>1, <3>2
    <3>7. q[(m + 1) + 1] = o[m + 1] + Len(seqs[m + 1])
      BY <3>2
    <3>8. q \in [1..((m + 1) + 1) -> Nat]
      <4>1. m + 1 \in 1..(m + 1)
        BY <3>2
      <4>2. \A i \in 1..((m + 1) + 1) : i = (m + 1) + 1 \/ i \in 1..(m + 1)
        BY <3>2
      <4>4. q = [i \in 1..((m + 1) + 1) |-> q[i]]
        OBVIOUS
      <4> HIDE DEF q
      <4>30. o[m + 1] \in Nat
        BY <3>6, <4>1
      <4>3. o[m + 1] + Len(seqs[m + 1]) \in Nat
        BY <3>3, <4>30
      <4>5. \A i \in 1..((m + 1) + 1) : q[i] \in Nat
        BY <3>6, <3>7, <4>2, <4>3
      <4>6. QED
        BY <4>4, <4>5
    <3> HIDE DEF q
    <3>9. q[1] = 0
      BY <3>1, <3>2, <3>6
    <3>10. ASSUME NEW i \in 1..(m + 1) PROVE q[i + 1] = q[i] + Len(seqs[i])
      <4>1. CASE i = m + 1
        BY <3>6, <3>7, <4>1
      <4>2. CASE i # m + 1
        <5>1. i \in 1..m /\ i + 1 \in 1..(m + 1)
          BY <3>2, <4>2
        <5>2. QED
          BY <3>1, <3>6, <5>1
      <4>3. QED
        BY <4>1, <4>2
    <3>11. Len(flatten[m]) = o[m + 1] /\ o[m + 1] \in Nat
      BY <3>1, <3>2
    <3>12. ASSUME NEW i \in 1..(m + 1), NEW k \in 1..Len(seqs[i])
           PROVE  flatten[m + 1][q[i] + k] = seqs[i][k]
      <4>1. i \in 1..L /\ Len(seqs[i]) \in Nat
        BY <1>1, <3>2, LenProperties
      <4>2. CASE i = m + 1
        <5>1. q[i] = Len(flatten[m])
          BY <3>6, <3>11, <4>2
        <5>2. flatten[m + 1][Len(flatten[m]) + k] = seqs[m + 1][k]
          BY <3>52, <4>2
        <5>3. QED
          BY <4>2, <5>1, <5>2
      <4>3. CASE i # m + 1
        <5>1. i \in 1..m /\ q[i] = o[i]
          BY <3>2, <3>6, <4>3
        <5>2. flatten[m][o[i] + k] = seqs[i][k]
          BY <3>1, <5>1
        <5>3. o[i] + k \in 1..Len(flatten[m])
          <6> DEFINE End == {j \in 1..(m + 1) : i < j => o[i] + Len(seqs[i]) <= o[j]}
          <6>0. \A j \in 1..m : o[j + 1] = o[j] + Len(seqs[j])
            BY <3>1
          <6>1. 1 \in End
            BY <3>2
          <6>2. ASSUME NEW j \in 1..((m + 1) - 1), j \in End PROVE j + 1 \in End
            <7>1. j \in 1..m /\ j \in 1..(m + 1) /\ j + 1 \in 1..(m + 1) /\ j \in 1..L
              BY <1>1, <3>2
            <7>2. Len(seqs[j]) \in Nat /\ o[j] \in Nat /\ o[i] \in Nat
              BY <1>1, <7>1, <3>6, LenProperties
            <7>3. o[j + 1] = o[j] + Len(seqs[j])
              BY <6>0, <7>1
            <7>4. i < j => o[i] + Len(seqs[i]) <= o[j]
              BY <6>2
            <7>5. i < j + 1 => o[i] + Len(seqs[i]) <= o[j + 1]
              <8>1. CASE i < j
                <9> DEFINE first == o[i] + Len(seqs[i])
                           here == o[j]
                           next == o[j + 1]
                           long == Len(seqs[j])
                <9>1. first <= here
                  BY <7>4, <8>1
                <9>2. first \in Int /\ here \in Int /\ long \in Nat /\ next = here + long
                  <10>1. next = here + long
                    BY <7>3
                  <10>2. here \in Int /\ long \in Nat
                    BY <7>2
                  <10>3. o[i] \in Int /\ Len(seqs[i]) \in Int
                    BY <4>1, <7>2
                  <10>4. first \in Int
                    BY <10>3
                  <10>5. QED
                    BY <10>1, <10>2, <10>4
                <9> HIDE DEF first, here, next, long
                <9>3. first <= next
                  BY <9>1, <9>2
                <9>4. QED
                  BY <9>3 DEF first, next
              <8>2. CASE i = j
                BY <4>1, <7>2, <7>3, <8>2
              <8>3. CASE ~(i <= j)
                BY <7>1, <8>3
              <8>4. QED
                BY <7>1, <8>1, <8>2, <8>3
            <7>6. QED
              BY <7>1, <7>5
          <6>3. 1..(m + 1) \subseteq End
            <7> HIDE DEF End
            <7>1. m + 1 \in Nat
              BY <3>2
            <7>2. QED
              BY <6>1, <6>2, <7>1, BoundedInduction
          <6>4. m + 1 \in End /\ i < m + 1
            BY <3>2, <5>1, <6>3
          <6>5. o[i] + Len(seqs[i]) <= o[m + 1] /\ o[i] \in Nat
            BY <3>6, <6>4
          <6>6. QED
            <7> DEFINE start == o[i]
                       long == Len(seqs[i])
                       end == Len(flatten[m])
            <7>1. start \in Nat /\ end \in Nat /\ start + long <= end
              BY <3>11, <6>5
            <7>2. long \in Nat /\ k \in 1..long
              BY <4>1
            <7> HIDE DEF start, long, end
            <7>3. start + k \in 1..end
              BY <7>1, <7>2
            <7>4. QED
              BY <7>3 DEF start, end
        <5>4. flatten[m + 1][o[i] + k] = flatten[m][o[i] + k]
          BY <3>52, <5>3
        <5>5. QED
          BY <5>1, <5>2, <5>4
      <4>4. QED
        BY <4>2, <4>3
    <3>13. Len(flatten[m + 1]) = q[(m + 1) + 1]
      BY <3>5, <3>7, <3>11
    <3>14. IsOffset(q, flatten, m + 1)
      BY <3>5, <3>8, <3>9, <3>10, <3>12, <3>13
    <3> HIDE DEF IsOffset
    <3>15. QED
      BY <3>2, <3>14
  <2>3. 1..L \subseteq Good
    <3> HIDE DEF Good
    <3>1. QED
      BY <1>1, <2>1, <2>2, BoundedInduction
  <2> HIDE DEF IsOffset
  <2>4. QED
    BY <2>3
<1>7. CASE L = 0
  <2>1. 1..L = {}
    BY <1>7
  <2>2. QED
    BY <1>2, <1>7, <2>1 DEF L, IsOffsets
<1>8. CASE L # 0
  <2>1. L \in 1..L
    BY <1>1, <1>8
  <2>2. PICK o : IsOffset(o, flatten, L)
    BY <1>6, <1>8, <2>1
  <2>3. FlattenSeq(seqs) = flatten[L]
    BY <1>3, <1>8
  <2>4. QED
    <3>1. /\ o \in [1..(L + 1) -> Nat]
          /\ o[1] = 0
          /\ \A i \in 1..L : o[i + 1] = o[i] + Len(seqs[i])
          /\ FlattenSeq(seqs) \in Seq(T) /\ Len(FlattenSeq(seqs)) = o[L + 1]
          /\ \A i \in 1..L : \A k \in 1..Len(seqs[i]) :
                FlattenSeq(seqs)[o[i] + k] = seqs[i][k]
      BY <2>2, <2>3
    <3>2. IsOffsets(seqs, o)
      BY <3>1 DEF L, IsOffsets
    <3>3. QED
      BY <3>1, <3>2
<1>9. QED
  BY <1>7, <1>8

(* Every element of the flattened list has one place in one of the parts,  *)
(* and the other way round; the parts follow each other.                   *)
IsPlacing(seqs, part, place) ==
    LET flat == FlattenSeq(seqs)
    IN  /\ \A n \in 1..Len(flat) : /\ part[n] \in 1..Len(seqs)
                                  /\ place[n] \in 1..Len(seqs[part[n]])
                                  /\ flat[n] = seqs[part[n]][place[n]]
        /\ \A m, n \in 1..Len(flat) : part[m] = part[n] /\ place[m] = place[n] => m = n
        /\ \A i \in 1..Len(seqs) : \A k \in 1..Len(seqs[i]) :
                \E n \in 1..Len(flat) : part[n] = i /\ place[n] = k

InOrder(seqs, part) ==
    \A m, n \in 1..Len(FlattenSeq(seqs)) : m < n => part[m] <= part[n]

LEMMA FlattenSeqInOrder ==
    ASSUME NEW T, NEW seqs \in Seq(Seq(T))
    PROVE  /\ FlattenSeq(seqs) \in Seq(T)
           /\ \E part, place : IsPlacing(seqs, part, place) /\ InOrder(seqs, part)
<1> DEFINE L == Len(seqs)
           F == FlattenSeq(seqs)
           D == 1..Len(F)
<1>1. L \in Nat /\ \A i \in 1..L : seqs[i] \in Seq(T) /\ Len(seqs[i]) \in Nat
  BY LenProperties, ElementOfSeq
<1>2. PICK offset \in [1..(L + 1) -> Nat] :
        /\ offset[1] = 0
        /\ \A i \in 1..L : offset[i + 1] = offset[i] + Len(seqs[i])
        /\ F \in Seq(T) /\ Len(F) = offset[L + 1]
        /\ \A i \in 1..L : \A k \in 1..Len(seqs[i]) : F[offset[i] + k] = seqs[i][k]
  <2>1. \E offset \in [1..(Len(seqs) + 1) -> Nat] :
            /\ offset[1] = 0
            /\ \A i \in 1..Len(seqs) : offset[i + 1] = offset[i] + Len(seqs[i])
            /\ FlattenSeq(seqs) \in Seq(T)
            /\ Len(FlattenSeq(seqs)) = offset[Len(seqs) + 1]
            /\ \A i \in 1..Len(seqs) : \A k \in 1..Len(seqs[i]) :
                    FlattenSeq(seqs)[offset[i] + k] = seqs[i][k]
    BY FlattenSeqOffsets, ZenonT(60) DEF IsOffsets
  <2>2. QED
    BY <2>1
<1> HIDE DEF L, F
<1>3. Len(F) \in Nat
  BY <1>2, LenProperties
<1>4. \A i \in 1..L : i \in 1..(L + 1) /\ i + 1 \in 1..(L + 1) /\ offset[i] \in Nat
  BY <1>1, <1>2
<1>5. ASSUME NEW n \in D
      PROVE  \E i \in 1..L : \E k \in 1..Len(seqs[i]) : n = offset[i] + k
  <2> DEFINE Before == {i \in 1..L : offset[i] < n}
  <2>1. L # 0
    BY <1>2, <1>3
  <2>2. 1 \in Before
    BY <1>1, <1>2, <1>3, <2>1
  <2>3. PICK i \in Before : \A j \in Before : j <= i
    <3> HIDE DEF Before
    <3>1. Before \in SUBSET (1..L)
      BY DEF Before
    <3>2. QED
      BY <1>1, <2>2, <3>1, LargestIndex
  <2>4. i \in 1..L /\ offset[i] < n /\ offset[i] \in Nat /\ Len(seqs[i]) \in Nat
    BY <1>1, <1>4
  <2>5. n <= offset[i + 1]
    <3>1. CASE i = L
      BY <1>2, <3>1
    <3>2. CASE i # L
      <4>1. i + 1 \in 1..L
        BY <1>1, <2>4, <3>2
      <4>2. ~(offset[i + 1] < n)
        BY <1>1, <2>3, <2>4, <4>1
      <4>3. QED
        BY <1>3, <1>4, <4>1, <4>2
    <3>3. QED
      BY <3>1, <3>2
  <2>6. offset[i + 1] = offset[i] + Len(seqs[i])
    BY <1>2, <2>4
  <2>7. n - offset[i] \in 1..Len(seqs[i]) /\ n = offset[i] + (n - offset[i])
    BY <1>3, <2>4, <2>5, <2>6, SMTT(60)
  <2>8. QED
    BY <2>4, <2>7
<1>6. \A i \in 1..L : \A j \in 1..(L + 1) : i < j => offset[i] + Len(seqs[i]) <= offset[j]
  <2> SUFFICES ASSUME NEW i \in 1..L
               PROVE  \A j \in 1..(L + 1) : i < j => offset[i] + Len(seqs[i]) <= offset[j]
    OBVIOUS
  <2> DEFINE End == {j \in 1..(L + 1) : i < j => offset[i] + Len(seqs[i]) <= offset[j]}
  <2>0. L + 1 \in Nat /\ (L + 1) - 1 = L /\ i \in Nat
        /\ offset[i] \in Nat /\ Len(seqs[i]) \in Nat
    BY <1>1, <1>4
  <2>1. 1 \in End
    BY <2>0
  <2>2. ASSUME NEW j \in 1..((L + 1) - 1), j \in End PROVE j + 1 \in End
    <3>1. j \in 1..L /\ j \in Nat /\ j + 1 \in 1..(L + 1) /\ offset[j] \in Nat
          /\ Len(seqs[j]) \in Nat
      BY <1>1, <1>4, <2>0
    <3>2. offset[j + 1] = offset[j] + Len(seqs[j])
      BY <1>2, <3>1
    <3>3. i < j => offset[i] + Len(seqs[i]) <= offset[j]
      BY <2>2
    <3>4. i < j + 1 => offset[i] + Len(seqs[i]) <= offset[j + 1]
      <4>1. CASE i < j
        BY <2>0, <3>1, <3>2, <3>3, <4>1, SMTT(60)
      <4>2. CASE i = j
        BY <2>0, <3>1, <3>2, <4>2
      <4>3. CASE j < i
        BY <2>0, <3>1, <4>3
      <4>4. QED
        BY <2>0, <3>1, <4>1, <4>2, <4>3
    <3>5. QED
      BY <3>1, <3>4
  <2>3. 1..(L + 1) \subseteq End
    <3> HIDE DEF End
    <3>1. QED
      BY <2>0, <2>1, <2>2, BoundedInduction
  <2>4. QED
    BY <2>3
<1> DEFINE At(n, i, k) == k \in 1..Len(seqs[i]) /\ n = offset[i] + k
           part == [n \in D |-> CHOOSE i \in 1..L : \E k \in 1..Len(seqs[i]) : n = offset[i] + k]
           place == [n \in D |-> n - offset[part[n]]]
<1>7. \A n \in D : part[n] \in 1..L /\ \E k \in 1..Len(seqs[part[n]]) : n = offset[part[n]] + k
  BY <1>5
<1> HIDE DEF part
<1>8. \A n \in D : /\ part[n] \in 1..L
                   /\ place[n] \in 1..Len(seqs[part[n]]) /\ n = offset[part[n]] + place[n]
  <2> SUFFICES ASSUME NEW n \in D
               PROVE  /\ part[n] \in 1..L
                      /\ place[n] \in 1..Len(seqs[part[n]]) /\ n = offset[part[n]] + place[n]
    OBVIOUS
  <2>1. PICK k \in 1..Len(seqs[part[n]]) : n = offset[part[n]] + k
    BY <1>7
  <2>2. part[n] \in 1..L /\ offset[part[n]] \in Nat /\ Len(seqs[part[n]]) \in Nat
    BY <1>1, <1>4, <1>7
  <2>3. place[n] = k
    BY <2>1, <2>2
  <2>4. QED
    BY <2>1, <2>2, <2>3
<1> HIDE DEF place
<1>11. \A n \in D : F[n] = seqs[part[n]][place[n]]
  BY <1>2, <1>8, ZenonT(60)
<1>12. \A m, n \in D : part[m] = part[n] /\ place[m] = place[n] => m = n
  BY <1>8
<1>13. \A i \in 1..L : \A k \in 1..Len(seqs[i]) : \E n \in D : part[n] = i /\ place[n] = k
  <2> SUFFICES ASSUME NEW i \in 1..L, NEW k \in 1..Len(seqs[i])
               PROVE  \E n \in D : part[n] = i /\ place[n] = k
    OBVIOUS
  <2>1. offset[i] \in Nat /\ Len(seqs[i]) \in Nat /\ i \in Nat /\ k \in Nat /\ offset[L + 1] \in Nat
    BY <1>1, <1>2, <1>4
  <2>2. i < L + 1 /\ L + 1 \in 1..(L + 1)
    BY <1>1
  <2>3. offset[i] + Len(seqs[i]) <= offset[L + 1]
    BY <1>6, <2>2
  <2>40. 1 <= k /\ k <= Len(seqs[i]) /\ Len(F) = offset[L + 1]
    BY <1>2, <2>1
  <2>41. offset[i] + k \in D
    BY <2>1, <2>3, <2>40
  <2>4. PICK n \in D : n = offset[i] + k
    BY <2>41
  <2>50. PICK p \in 1..L : /\ part[n] = p
                          /\ \E q \in 1..Len(seqs[p]) : place[n] = q /\ n = offset[p] + q
    BY <1>8, <2>4
  <2>5. PICK q \in 1..Len(seqs[p]) : part[n] = p /\ place[n] = q /\ n = offset[p] + q
    BY <2>50
  <2>6. offset[p] \in Nat /\ Len(seqs[p]) \in Nat /\ p \in Nat /\ q \in Nat
    BY <1>1, <1>4, <2>5
  <2>7. ~(p < i)
    <3>1. ASSUME p < i PROVE FALSE
      <4>1. i \in 1..(L + 1)
        BY <1>4
      <4>2. offset[p] + Len(seqs[p]) <= offset[i]
        BY <1>6, <3>1, <4>1
      <4>3. QED
        BY <2>1, <2>4, <2>5, <2>6, <4>2, SMTT(60)
    <3>2. QED
      BY <3>1
  <2>8. ~(i < p)
    <3>1. ASSUME i < p PROVE FALSE
      <4>1. p \in 1..(L + 1)
        BY <1>4
      <4>2. offset[i] + Len(seqs[i]) <= offset[p]
        BY <1>6, <3>1, <4>1
      <4>3. QED
        BY <2>1, <2>4, <2>40, <2>5, <2>6, <4>2, SMTT(60)
    <3>2. QED
      BY <3>1
  <2>9. p = i
    BY <2>1, <2>6, <2>7, <2>8
  <2>10. q = k
    BY <2>1, <2>4, <2>5, <2>6, <2>9
  <2>11. QED
    BY <2>5, <2>9, <2>10
<1>14. \A m, n \in D : m < n => part[m] <= part[n]
  <2>1. ASSUME NEW m \in D, NEW n \in D, m < n, part[n] < part[m] PROVE FALSE
    <3> DEFINE i == part[n]
               j == part[m]
               k == place[n]
               l == place[m]
    <3>1. /\ i \in 1..L /\ k \in 1..Len(seqs[i]) /\ n = offset[i] + k
          /\ j \in 1..L /\ l \in 1..Len(seqs[j]) /\ m = offset[j] + l
      BY <1>8
    <3>2. i < j
      BY <2>1
    <3> HIDE DEF i, j, k, l
    <3>3. offset[i] + Len(seqs[i]) <= offset[j]
      BY <1>4, <1>6, <3>1, <3>2
    <3>4. /\ offset[i] \in Nat /\ offset[j] \in Nat /\ Len(seqs[i]) \in Nat
          /\ Len(seqs[j]) \in Nat
      BY <1>1, <1>4, <3>1
    <3>5. /\ k \in Nat /\ k <= Len(seqs[i]) /\ l \in Nat /\ 1 <= l
          /\ n = offset[i] + k /\ m = offset[j] + l
      BY <3>1, <3>4
    <3>6. ASSUME NEW o \in Nat, NEW q \in Nat, NEW len \in Nat, k <= len, o + len <= q
          PROVE  o + k < q + l
      BY <3>5, <3>6
    <3>7. offset[i] + k < offset[j] + l
      BY <3>3, <3>4, <3>5, <3>6
    <3>8. n \in Int /\ m \in Int
      OBVIOUS
    <3>9. QED
      BY <2>1, <3>5, <3>7, <3>8
  <2>2. \A n \in D : part[n] \in Int
    BY <1>8
  <2>3. QED
    BY <2>1, <2>2
<1>15. QED
  <2>1. /\ \A n \in D : /\ part[n] \in 1..L
                        /\ place[n] \in 1..Len(seqs[part[n]])
                        /\ F[n] = seqs[part[n]][place[n]]
        /\ \A m, n \in D : part[m] = part[n] /\ place[m] = place[n] => m = n
        /\ \A i \in 1..L : \A k \in 1..Len(seqs[i]) : \E n \in D : part[n] = i /\ place[n] = k
    BY <1>8, <1>11, <1>12, <1>13
  <2>2. IsPlacing(seqs, part, place)
    BY <2>1 DEF IsPlacing, L, F
  <2>3. InOrder(seqs, part)
    BY <1>14 DEF InOrder, F
  <2>4. F \in Seq(T)
    BY <1>2
  <2>5. QED
    BY <2>2, <2>3, <2>4 DEF F

LEMMA FlattenSeqPlaces ==
    ASSUME NEW T, NEW seqs \in Seq(Seq(T))
    PROVE  /\ FlattenSeq(seqs) \in Seq(T)
           /\ \E part, place : IsPlacing(seqs, part, place)
  BY FlattenSeqInOrder
----------------------------------------------------------------------------
(* t lists the elements of s at the positions P, each once; order[n] is    *)
(* the position in s of the n-th element of t.                             *)
IsSelection(s, P, t, order) ==
    /\ \A n \in 1..Len(t) : order[n] \in P /\ t[n] = s[order[n]]
    /\ \A m, n \in 1..Len(t) : order[m] = order[n] => m = n
    /\ \A i \in P : \E n \in 1..Len(t) : order[n] = i

ReadsAt(t, s, order) == t = [n \in DOMAIN order |-> s[order[n]]]

LEMMA SelectionFromOrder ==
    ASSUME NEW T, NEW s \in Seq(T), NEW P \in SUBSET (1..Len(s)), NEW R, IsOrderOf(R, P),
           NEW order, IsRanking(order, R, P), NEW t, ReadsAt(t, s, order)
    PROVE  /\ t \in Seq(T) /\ Len(t) = Cardinality(P) /\ Cardinality(P) \in Nat
           /\ IsSelection(s, P, t, order)
           /\ \A m, n \in 1..Len(t) : m < n => <<order[m], order[n]>> \in R
<1>1. Len(s) \in Nat /\ \A i \in 1..Len(s) : s[i] \in T
  BY LenProperties, ElementOfSeq
<1>2. IsFiniteSet(P) /\ Cardinality(P) \in Nat
  <2>1. IsFiniteSet(1..Len(s))
    BY <1>1, FS_Interval
  <2>2. IsFiniteSet(P)
    BY <2>1, FS_Subset
  <2>3. QED
    BY <2>2, FS_CardinalityType
<1>3. /\ \A n \in DOMAIN order : order[n] \in P
      /\ \A m, n \in DOMAIN order : m < n => <<order[m], order[n]>> \in R
      /\ \A m, n \in DOMAIN order : order[m] = order[n] => m = n
      /\ \A x \in P : \E n \in DOMAIN order : order[n] = x
  BY <1>2, RankOrder
<1>4. DOMAIN order = 1..Cardinality(P)
  BY DEF IsRanking
<1>5. t \in Seq(T) /\ Len(t) = Cardinality(P)
  <2>1. \A n \in 1..Cardinality(P) : s[order[n]] \in T
    BY <1>1, <1>3, <1>4
  <2>2. t = [n \in 1..Cardinality(P) |-> s[order[n]]]
    BY <1>4 DEF ReadsAt
  <2>3. QED
    BY <1>2, <2>1, <2>2
<1>6. \A n \in DOMAIN order : t[n] = s[order[n]]
  BY DEF ReadsAt
<1>7. IsSelection(s, P, t, order)
  BY <1>3, <1>4, <1>5, <1>6 DEF IsSelection
<1>8. QED
  BY <1>2, <1>3, <1>4, <1>5, <1>7

LEMMA PickedProperties ==
    ASSUME NEW T, NEW s \in Seq(T), NEW P \in SUBSET (1..Len(s))
    PROVE  /\ Picked(s, P) \in Seq(T)
           /\ Len(Picked(s, P)) = Cardinality(P) /\ Cardinality(P) \in Nat
           /\ \E order :
                /\ IsSelection(s, P, Picked(s, P), order)
                /\ \A m, n \in 1..Len(Picked(s, P)) : m < n => order[m] < order[n]
<1> DEFINE Pick(n) == CHOOSE x \in P : Cardinality({y \in P : y < x}) = n - 1
           order == [n \in 1..Cardinality(P) |-> Pick(n)]
           R == {p \in P \X P : p[1] < p[2]}
<1>1. Len(s) \in Nat /\ \A i \in P : i \in Nat
  BY LenProperties
<1>2. \A i, j \in P : <<i, j>> \in R <=> i < j
  OBVIOUS
<1>3. \A i \in P : {j \in P : j < i} = Below(R, P, i)
  BY <1>2 DEF Below
<1>4. ReadsAt(Picked(s, P), s, order)
  BY DEF Picked, Ordered, ReadsAt
<1>5. IsOrderOf(R, P)
  BY <1>1, <1>2 DEF IsOrderOf
<1>6. \A n : (\E x \in P : Cardinality({y \in P : y < x}) = n - 1)
                => Pick(n) \in P /\ Cardinality({y \in P : y < Pick(n)}) = n - 1
  OBVIOUS
<1> HIDE DEF Pick, R
<1>7. order = [n \in 1..Cardinality(P) |-> order[n]] /\ \A n \in DOMAIN order : order[n] = Pick(n)
  OBVIOUS
<1> HIDE DEF order
<1>8. ASSUME NEW n \in DOMAIN order, \E x \in P : Cardinality(Below(R, P, x)) = n - 1
      PROVE  order[n] \in P /\ Cardinality(Below(R, P, order[n])) = n - 1
  <2>1. \E x \in P : Cardinality({y \in P : y < x}) = n - 1
    BY <1>3, <1>8
  <2>2. order[n] \in P /\ Cardinality({y \in P : y < order[n]}) = n - 1
    BY <1>6, <1>7, <2>1
  <2>3. QED
    BY <1>3, <2>2
<1>9. /\ Picked(s, P) \in Seq(T)
      /\ Len(Picked(s, P)) = Cardinality(P) /\ Cardinality(P) \in Nat
      /\ IsSelection(s, P, Picked(s, P), order)
      /\ \A m, n \in 1..Len(Picked(s, P)) : m < n => <<order[m], order[n]>> \in R
  <2>1. IsRanking(order, R, P)
    BY <1>7, <1>8 DEF IsRanking
  <2>2. QED
    BY <1>4, <1>5, <2>1, SelectionFromOrder
<1>10. \A m, n \in 1..Len(Picked(s, P)) : m < n => order[m] < order[n]
  BY <1>2, <1>9 DEF IsSelection
<1>11. QED
  BY <1>9, <1>10

LEMMA FirstProperties ==
    ASSUME NEW T, NEW s \in Seq(T), NEW n \in Nat
    PROVE  /\ First(n, s) \in Seq(T)
           /\ Len(First(n, s)) \in Nat
           /\ Len(First(n, s)) <= n /\ Len(First(n, s)) <= Len(s)
           /\ Len(First(n, s)) = n \/ Len(First(n, s)) = Len(s)
           /\ \A i \in 1..Len(First(n, s)) : First(n, s)[i] = s[i]
<1> DEFINE k == IF n <= Len(s) THEN n ELSE Len(s)
<1>1. Len(s) \in Nat /\ \A i \in 1..Len(s) : s[i] \in T
  BY LenProperties, ElementOfSeq
<1>2. k \in Nat /\ k <= n /\ k <= Len(s) /\ (k = n \/ k = Len(s))
  BY <1>1
<1>3. First(n, s) = SubSeq(s, 1, k)
  BY DEF First
<1> HIDE DEF k
<1>4. \A i \in 1..k : s[i] \in T
  BY <1>1, <1>2
<1>5. /\ SubSeq(s, 1, k) \in Seq(T)
      /\ Len(SubSeq(s, 1, k)) = IF 1 <= k THEN k - 1 + 1 ELSE 0
      /\ \A i \in 1..(k - 1 + 1) : SubSeq(s, 1, k)[i] = s[1 + i - 1]
  BY <1>2, <1>4, SubSeqProperties
<1>6. Len(SubSeq(s, 1, k)) = k /\ \A i \in 1..k : SubSeq(s, 1, k)[i] = s[i]
  BY <1>2, <1>5
<1>7. QED
  BY <1>2, <1>3, <1>5, <1>6

(* A list without repetitions of numbers up to n has at most n of them.    *)
LEMMA NoMoreThan ==
    ASSUME NEW m \in Nat, NEW n \in Nat, NEW f \in [1..m -> 1..n],
           \A k, l \in 1..m : f[k] = f[l] => k = l
    PROVE  m <= n
<1>1. f \in Injection(1..m, 1..n)
  BY DEF Injection, IsInjective
<1>2. /\ IsFiniteSet(1..n) /\ Cardinality(1..n) = n
      /\ IsFiniteSet(1..m) /\ Cardinality(1..m) = m
  BY FS_Interval
<1>3. Cardinality(1..m) <= Cardinality(1..n)
  BY <1>1, <1>2, FS_Injection
<1>4. QED
  BY <1>2, <1>3

(* r lists the elements of S in the order R, each once: there is one such  *)
(* list, as every element stands behind those below it.                    *)
IsListing(r, R, S) ==
    /\ \A k \in 1..Len(r) : r[k] \in S
    /\ \A k, l \in 1..Len(r) : k < l => <<r[k], r[l]>> \in R
    /\ \A x \in S : \E k \in 1..Len(r) : r[k] = x

LEMMA SizeOfList ==
    ASSUME NEW T, NEW r \in Seq(T), NEW m \in 0..Len(r),
           \A k, l \in 1..Len(r) : r[k] = r[l] => k = l
    PROVE  Cardinality({r[j] : j \in 1..m}) = m
<1> DEFINE B == {r[j] : j \in 1..m}
           f == [j \in 1..m |-> r[j]]
<1>1. Len(r) \in Nat /\ m \in Nat /\ \A j \in 1..m : j \in 1..Len(r)
  BY LenProperties
<1>2. f \in Injection(1..m, B)
  <2>1. f \in [1..m -> B]
    OBVIOUS
  <2>2. \A k, l \in 1..m : f[k] = f[l] => k = l
    BY <1>1
  <2> HIDE DEF f, B
  <2>3. QED
    BY <2>1, <2>2 DEF Injection, IsInjective
<1>3. f \in Surjection(1..m, B)
  <2>1. f \in [1..m -> B] /\ \A y \in B : \E j \in 1..m : f[j] = y
    OBVIOUS
  <2> HIDE DEF f, B
  <2>2. QED
    BY <2>1 DEF Surjection
<1> HIDE DEF f, B
<1>4. ExistsBijection(1..m, B)
  BY <1>2, <1>3 DEF ExistsBijection, Bijection
<1>5. IsFiniteSet(1..m) /\ Cardinality(1..m) = m
  BY <1>1, FS_Interval
<1>6. Cardinality(B) = m
  <2> DEFINE I == 1..m
  <2>1. IsFiniteSet(I) /\ Cardinality(I) = m /\ ExistsBijection(I, B)
    BY <1>4, <1>5, SMTT(60)
  <2> HIDE DEF I
  <2>2. QED
    BY <2>1, FS_Bijection
<1>7. QED
  BY <1>6 DEF B

LEMMA ListingRanks ==
    ASSUME NEW T, NEW r \in Seq(T), NEW S, NEW R, IsOrderOf(R, S), IsListing(r, R, S)
    PROVE  /\ Len(r) = Cardinality(S)
           /\ \A k \in 1..Len(r) : Cardinality(Below(R, S, r[k])) = k - 1
<1>1. Len(r) \in Nat
  BY LenProperties
<1>2. \A k, l \in 1..Len(r) : <<r[k], r[l]>> \in R => k < l
  <2>1. ASSUME NEW k \in 1..Len(r), NEW l \in 1..Len(r), <<r[k], r[l]>> \in R, ~(k < l)
        PROVE  FALSE
    <3>1. r[k] \in S /\ r[l] \in S
      BY DEF IsListing
    <3>2. k # l
      BY <2>1, <3>1 DEF IsOrderOf
    <3>3. l < k
      BY <1>1, <2>1, <3>2
    <3>4. <<r[l], r[k]>> \in R
      BY <3>3 DEF IsListing
    <3>5. QED
      BY <2>1, <3>1, <3>4 DEF IsOrderOf
  <2>2. QED
    BY <2>1
<1>3. \A k, l \in 1..Len(r) : r[k] = r[l] => k = l
  <2>1. ASSUME NEW k \in 1..Len(r), NEW l \in 1..Len(r), r[k] = r[l] PROVE k = l
    <3>1. r[k] \in S
      BY DEF IsListing
    <3>2. ~(k < l) /\ ~(l < k)
      BY <2>1, <3>1 DEF IsListing, IsOrderOf
    <3>3. QED
      BY <1>1, <3>2
  <2>2. QED
    BY <2>1
<1>4. Cardinality({r[j] : j \in 1..Len(r)}) = Len(r)
  BY <1>1, <1>3, SizeOfList
<1>5. {r[j] : j \in 1..Len(r)} = S
  BY DEF IsListing
<1>6. ASSUME NEW k \in 1..Len(r) PROVE Cardinality(Below(R, S, r[k])) = k - 1
  <2>1. k - 1 \in 0..Len(r) /\ \A j \in 1..(k - 1) : j \in 1..Len(r) /\ j < k
    BY <1>1
  <2>2. {r[j] : j \in 1..(k - 1)} \subseteq Below(R, S, r[k])
    BY <2>1 DEF Below, IsListing
  <2>3. \A y \in Below(R, S, r[k]) : \E j \in 1..(k - 1) : y = r[j]
    <3>1. ASSUME NEW y \in Below(R, S, r[k]) PROVE \E j \in 1..(k - 1) : y = r[j]
      <4>1. y \in S /\ <<y, r[k]>> \in R
        BY DEF Below
      <4>2. PICK j \in 1..Len(r) : r[j] = y
        BY <4>1 DEF IsListing
      <4>3. j < k
        BY <1>2, <4>1, <4>2
      <4>4. j \in 1..(k - 1)
        BY <1>1, <4>3
      <4>5. QED
        BY <4>2, <4>4
    <3>2. QED
      BY <3>1
  <2>4. Below(R, S, r[k]) = {r[j] : j \in 1..(k - 1)}
    BY <2>2, <2>3
  <2>5. QED
    BY <1>3, <2>1, <2>4, SizeOfList
<1>7. QED
  BY <1>4, <1>5, <1>6

LEMMA OneListing ==
    ASSUME NEW T, NEW r \in Seq(T), NEW t \in Seq(T), NEW S, IsFiniteSet(S), NEW R,
           IsOrderOf(R, S), IsListing(r, R, S), IsListing(t, R, S)
    PROVE  r = t
<1>1. Len(r) = Len(t) /\ Len(r) \in Nat
  BY ListingRanks, LenProperties
<1>2. \A x \in S : Cardinality(Below(R, S, x)) < Cardinality(Below(R, S, x)) => FALSE
  BY Ranks DEF IsOrderOf
<1>3. \A x, y \in S : x # y => Cardinality(Below(R, S, x)) # Cardinality(Below(R, S, y))
  <2>1. ASSUME NEW x \in S, NEW y \in S, x # y,
               Cardinality(Below(R, S, x)) = Cardinality(Below(R, S, y))
        PROVE  FALSE
    <3>1. \/ Cardinality(Below(R, S, x)) < Cardinality(Below(R, S, y))
          \/ Cardinality(Below(R, S, y)) < Cardinality(Below(R, S, x))
      BY <2>1, Ranks DEF IsOrderOf
    <3>2. QED
      BY <1>2, <2>1, <3>1
  <2>2. QED
    BY <2>1
<1>4. \A k \in 1..Len(r) : r[k] = t[k]
  <2>1. ASSUME NEW k \in 1..Len(r) PROVE r[k] = t[k]
    <3>1. r[k] \in S /\ t[k] \in S
      BY <1>1 DEF IsListing
    <3>2. Cardinality(Below(R, S, r[k])) = k - 1 /\ Cardinality(Below(R, S, t[k])) = k - 1
      BY <1>1, ListingRanks
    <3>3. QED
      BY <1>3, <3>1, <3>2
  <2>2. QED
    BY <2>1
<1>5. QED
  BY <1>1, <1>4, SeqEqual

(* A list is what is picked at P if it reads s at the places P, in order.  *)
ReadsInOrder(b, s, P, from) ==
    /\ \A n \in 1..Len(b) : from[n] \in P /\ b[n] = s[from[n]]
    /\ \A m, n \in 1..Len(b) : m < n => from[m] < from[n]
    /\ \A i \in P : \E n \in 1..Len(b) : from[n] = i

LEMMA PickedIs ==
    ASSUME NEW T, NEW s \in Seq(T), NEW P \in SUBSET (1..Len(s)), NEW b \in Seq(T),
           NEW from, ReadsInOrder(b, s, P, from)
    PROVE  b = Picked(s, P)
<1> SUFFICES ASSUME \A n \in 1..Len(b) : from[n] \in P /\ b[n] = s[from[n]],
                    \A m, n \in 1..Len(b) : m < n => from[m] < from[n],
                    \A i \in P : \E n \in 1..Len(b) : from[n] = i
             PROVE  b = Picked(s, P)
  BY DEF ReadsInOrder
<1> DEFINE a == Picked(s, P)
           R == {p \in P \X P : p[1] < p[2]}
<1>1. /\ a \in Seq(T) /\ Len(s) \in Nat /\ Len(a) \in Nat /\ Len(b) \in Nat
  BY PickedProperties, LenProperties
<1>2. PICK order : /\ IsSelection(s, P, a, order)
                   /\ \A m, n \in 1..Len(a) : m < n => order[m] < order[n]
  BY PickedProperties
<1> DEFINE f == [n \in 1..Len(a) |-> order[n]]
           g == [n \in 1..Len(b) |-> from[n]]
<1> HIDE DEF a
<1>4. \A i, j \in P : <<i, j>> \in R <=> i < j
  OBVIOUS
<1>5. \A i \in P : i \in Int
  BY <1>1
<1> HIDE DEF R
<1>6. IsOrderOf(R, P)
  BY <1>4, <1>5 DEF IsOrderOf
<1>7. IsFiniteSet(P)
  <2>1. IsFiniteSet(1..Len(s))
    BY <1>1, FS_Interval
  <2>2. QED
    BY <2>1, FS_Subset
<1>8. /\ f \in Seq(P) /\ Len(f) = Len(a) /\ \A n \in 1..Len(a) : f[n] = order[n]
  <2>1. \A n \in 1..Len(a) : order[n] \in P
    BY <1>2 DEF IsSelection
  <2>2. QED
    BY <1>1, <2>1
<1>9. /\ g \in Seq(P) /\ Len(g) = Len(b) /\ \A n \in 1..Len(b) : g[n] = from[n]
  BY <1>1
<1> HIDE DEF f, g
<1>10. IsListing(f, R, P)
  <2>1. \A k \in 1..Len(f) : f[k] \in P
    BY <1>2, <1>8 DEF IsSelection
  <2>2. \A k, l \in 1..Len(f) : k < l => f[k] < f[l]
    BY <1>2, <1>8
  <2>3. \A x \in P : \E k \in 1..Len(f) : f[k] = x
    BY <1>2, <1>8 DEF IsSelection
  <2>4. QED
    BY <1>4, <2>1, <2>2, <2>3 DEF IsListing
<1>11. IsListing(g, R, P)
  <2>1. \A k \in 1..Len(g) : g[k] \in P /\ g[k] = from[k]
    BY <1>9
  <2>2. \A k, l \in 1..Len(g) : k < l => g[k] < g[l]
    BY <1>9, <2>1
  <2>3. \A x \in P : \E k \in 1..Len(g) : g[k] = x
    BY <1>9, <2>1
  <2>4. QED
    BY <1>4, <2>1, <2>2, <2>3 DEF IsListing
<1>12. f = g
  BY <1>6, <1>7, <1>8, <1>9, <1>10, <1>11, OneListing
<1>13. Len(a) = Len(b)
  BY <1>8, <1>9, <1>12
<1>14. \A n \in 1..Len(a) : a[n] = b[n]
  <2>1. ASSUME NEW n \in 1..Len(a) PROVE a[n] = b[n]
    <3>1. a[n] = s[order[n]]
      BY <1>2 DEF IsSelection
    <3>2. b[n] = s[from[n]]
      BY <1>13
    <3>3. order[n] = from[n]
      BY <1>8, <1>9, <1>12, <1>13
    <3>4. QED
      BY <3>1, <3>2, <3>3
  <2>2. QED
    BY <2>1
<1>15. a = b
  BY <1>1, <1>13, <1>14, SeqEqual
<1>16. QED
  BY <1>15 DEF a

(* Two lists have the same part picked if the places picked from one are,  *)
(* in order, all the places picked from the other.                         *)
LEMMA SamePicked ==
    ASSUME NEW T, NEW s \in Seq(T), NEW t \in Seq(T),
           NEW P \in SUBSET (1..Len(s)), NEW Q \in SUBSET (1..Len(t)), NEW from,
           \A n \in Q : from[n] \in P /\ t[n] = s[from[n]],
           \A m, n \in Q : m < n => from[m] < from[n],
           \A i \in P : \E n \in Q : from[n] = i
    PROVE  Picked(t, Q) = Picked(s, P)
<1> DEFINE b == Picked(t, Q)
<1>1. b \in Seq(T) /\ Len(b) \in Nat
  BY PickedProperties, LenProperties
<1>2. PICK order : /\ IsSelection(t, Q, b, order)
                   /\ \A m, n \in 1..Len(b) : m < n => order[m] < order[n]
  BY PickedProperties
<1> DEFINE f == [n \in 1..Len(b) |-> from[order[n]]]
<1> HIDE DEF b
<1>3. \A n \in 1..Len(b) : order[n] \in Q /\ b[n] = t[order[n]]
  BY <1>2 DEF IsSelection
<1>4. \A n \in 1..Len(b) : f[n] = from[order[n]]
  OBVIOUS
<1> HIDE DEF f
<1>5. \A n \in 1..Len(b) : f[n] \in P /\ b[n] = s[f[n]]
  BY <1>3, <1>4, ZenonT(60)
<1>6. \A m, n \in 1..Len(b) : m < n => f[m] < f[n]
  BY <1>2, <1>3, <1>4, ZenonT(60)
<1>7. \A i \in P : \E n \in 1..Len(b) : f[n] = i
  <2>1. \A j \in Q : \E n \in 1..Len(b) : order[n] = j
    BY <1>2 DEF IsSelection
  <2>2. QED
    BY <1>4, <2>1
<1>8. b = Picked(s, P)
  <2>1. ReadsInOrder(b, s, P, f)
    BY <1>5, <1>6, <1>7 DEF ReadsInOrder
  <2>2. QED
    BY <1>1, <2>1, PickedIs
<1>9. QED
  BY <1>8 DEF b
=============================================================================
