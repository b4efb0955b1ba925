--------------------------- MODULE Pipeline_proofs --------------------------
(***************************************************************************)
(* Theorems about Pipeline.                                                *)
(*                                                                         *)
(* First lemmas about the operators of Retrieval,                          *)
(* KnowledgeBase, Grounding and Chains that the pipeline is built from.    *)
(* Then the invariants: DataInv is what each stage hands to the next one;  *)
(* ConsultInv, OutInv, StrideInv and ChainsInv add what their theorems are *)
(* about, and are proved over the steps that DataInv allows.               *)
(***************************************************************************)
EXTENDS Pipeline, Selections_proofs

(* Sorting keeps every element, and each once.                             *)
LEMMA SortDescProperties ==
    ASSUME NEW T, NEW s \in Seq(T), \A i \in 1..Len(s) : s[i].key \in Int
    PROVE  /\ SortDesc(s) \in Seq(T) /\ Len(SortDesc(s)) = Len(s)
           /\ \E order : IsSelection(s, 1..Len(s), SortDesc(s), order)
<1> DEFINE P == DOMAIN s
           Before(u, v) == \/ s[u].key > s[v].key
                           \/ s[u].key = s[v].key /\ u < v
           Pick(n) == CHOOSE x \in P : Cardinality({y \in P : Before(y, x)}) = n - 1
           order == [n \in 1..Cardinality(P) |-> Pick(n)]
           R == {p \in P \X P : Before(p[1], p[2])}
<1>1. Len(s) \in Nat /\ P = 1..Len(s) /\ IsFiniteSet(P) /\ Cardinality(P) = Len(s)
  BY LenProperties, FS_Interval, SMTT(60)
<1>2. \A i, j \in P : <<i, j>> \in R <=> Before(i, j)
  OBVIOUS
<1>3. \A i \in P : {j \in P : Before(j, i)} = Below(R, P, i)
  <2> HIDE DEF R, Before
  <2>1. QED
    BY <1>2 DEF Below
<1>4. SortDesc(s) = [n \in P |-> s[order[n]]]
  BY DEF SortDesc, Ordered
<1>5. IsOrderOf(R, P)
  <2>1. \A i \in P : i \in Int /\ s[i].key \in Int
    BY <1>1
  <2>2. /\ \A i \in P : ~Before(i, i)
        /\ \A i, j, k \in P : Before(i, j) /\ Before(j, k) => Before(i, k)
        /\ \A i, j \in P : i # j => Before(i, j) \/ Before(j, i)
    <3>1. \A i \in P : ~Before(i, i)
      BY <2>1
    <3>2. ASSUME NEW i \in P, NEW j \in P, NEW k \in P, Before(i, j), Before(j, k)
          PROVE  Before(i, k)
      BY <2>1, <3>2
    <3>3. ASSUME NEW i \in P, NEW j \in P, i # j PROVE Before(i, j) \/ Before(j, i)
      <4>1. i \in Int /\ j \in Int /\ s[i].key \in Int /\ s[j].key \in Int
        BY <2>1
      <4>2. i < j \/ j < i
        BY <3>3, <4>1
      <4>3. s[i].key > s[j].key \/ s[j].key > s[i].key
              \/ (s[i].key = s[j].key /\ s[j].key = s[i].key)
        BY <4>1
      <4>4. QED
        BY <4>2, <4>3
    <3> HIDE DEF Before
    <3>4. QED
      BY <3>1, <3>2, <3>3
  <2> HIDE DEF Before, R
  <2>3. QED
    BY <1>2, <2>2 DEF IsOrderOf
<1>6. \A n : (\E x \in P : Cardinality({y \in P : Before(y, x)}) = n - 1)
                => Pick(n) \in P /\ Cardinality({y \in P : Before(y, Pick(n))}) = n - 1
  <2> HIDE DEF Before, P
  <2>1. QED
    OBVIOUS
<1> HIDE DEF Pick, R, Before
<1>7. order = [n \in 1..Cardinality(P) |-> order[n]] /\ \A n \in DOMAIN order : order[n] = Pick(n)
  OBVIOUS
<1>8. DOMAIN order = P
  BY <1>1
<1> HIDE DEF order
<1>9. ASSUME NEW n \in DOMAIN order, \E x \in P : Cardinality(Below(R, P, x)) = n - 1
      PROVE  order[n] \in P /\ Cardinality(Below(R, P, order[n])) = n - 1
  <2>1. \E x \in P : Cardinality({y \in P : Before(y, x)}) = n - 1
    BY <1>3, <1>9
  <2>2. order[n] \in P /\ Cardinality({y \in P : Before(y, order[n])}) = n - 1
    BY <1>6, <1>7, <2>1
  <2>3. QED
    BY <1>3, <2>2
<1>10. IsRanking(order, R, P)
  BY <1>7, <1>9 DEF IsRanking
<1>11. ReadsAt(SortDesc(s), s, order)
  BY <1>4, <1>8 DEF ReadsAt
<1>12. P \in SUBSET (1..Len(s))
  BY <1>1
<1>13. /\ SortDesc(s) \in Seq(T) /\ Len(SortDesc(s)) = Cardinality(P)
       /\ IsSelection(s, P, SortDesc(s), order)
  <2> HIDE DEF P
  <2>1. QED
    BY <1>5, <1>10, <1>11, <1>12, SelectionFromOrder
<1>14. QED
  BY <1>1, <1>13

(* The rows of some patterns, as a query reads them.                       *)
HitsOf(table, P) == {[pid |-> p, row |-> table[p]] : p \in P}

LEMMA NearestProperties ==
    ASSUME NEW table, NEW a, NEW P, IsFiniteSet(P), NEW limit \in Nat,
           \A p \in P : table[p].sim[a] \in Int,
           \A p, q \in P : p # q => table[p].sim[a] # table[q].sim[a]
    PROVE  LET h == Nearest(table, a, P, limit)
           IN  /\ h \in Seq(HitsOf(table, P))
               /\ \A m, n \in 1..Len(h) : h[m].pid = h[n].pid => m = n
               /\ limit > 0 /\ P # {} => Len(h) > 0
<1> DEFINE Before(p, q) == table[p].sim[a] > table[q].sim[a]
           Pick(n) == CHOOSE x \in P : Cardinality({y \in P : Before(y, x)}) = n - 1
           order == [n \in 1..Cardinality(P) |-> Pick(n)]
           R == {p \in P \X P : Before(p[1], p[2])}
<1>1. \A p, q \in P : <<p, q>> \in R <=> Before(p, q)
  OBVIOUS
<1>2. \A p \in P : {q \in P : Before(q, p)} = Below(R, P, p)
  <2> HIDE DEF R, Before
  <2>1. QED
    BY <1>1 DEF Below
<1>3. IsOrderOf(R, P)
  <2>1. /\ \A i \in P : ~Before(i, i)
        /\ \A i, j, k \in P : Before(i, j) /\ Before(j, k) => Before(i, k)
        /\ \A i, j \in P : i # j => Before(i, j) \/ Before(j, i)
    OBVIOUS
  <2> HIDE DEF Before, R
  <2>2. QED
    BY <1>1, <2>1 DEF IsOrderOf
<1>4. \A n : (\E x \in P : Cardinality({y \in P : Before(y, x)}) = n - 1)
                => Pick(n) \in P /\ Cardinality({y \in P : Before(y, Pick(n))}) = n - 1
  <2> HIDE DEF Before
  <2>1. QED
    OBVIOUS
<1> DEFINE f == First(limit, order)
<1>5. Nearest(table, a, P, limit) = [i \in DOMAIN f |-> [pid |-> f[i], row |-> table[f[i]]]]
  BY DEF Nearest, Ordered
<1> HIDE DEF Pick, R, Before, f
<1>6. order = [n \in 1..Cardinality(P) |-> order[n]] /\ \A n \in DOMAIN order : order[n] = Pick(n)
  OBVIOUS
<1> HIDE DEF order
<1>7. ASSUME NEW n \in DOMAIN order, \E x \in P : Cardinality(Below(R, P, x)) = n - 1
      PROVE  order[n] \in P /\ Cardinality(Below(R, P, order[n])) = n - 1
  <2>1. \E x \in P : Cardinality({y \in P : Before(y, x)}) = n - 1
    BY <1>2, <1>7
  <2>2. order[n] \in P /\ Cardinality({y \in P : Before(y, order[n])}) = n - 1
    BY <1>4, <1>6, <2>1
  <2>3. QED
    BY <1>2, <2>2
<1>8. IsRanking(order, R, P)
  BY <1>6, <1>7 DEF IsRanking
<1>9. /\ \A n \in DOMAIN order : order[n] \in P
      /\ \A m, n \in DOMAIN order : order[m] = order[n] => m = n
      /\ \A x \in P : \E n \in DOMAIN order : order[n] = x
  BY <1>3, <1>8, RankOrder
<1>10. Cardinality(P) \in Nat /\ DOMAIN order = 1..Cardinality(P)
  BY <1>6, FS_CardinalityType
<1>11. order \in Seq(P) /\ Len(order) = Cardinality(P)
  BY <1>6, <1>9, <1>10
<1>12. /\ f \in Seq(P) /\ Len(f) \in Nat /\ DOMAIN f = 1..Len(f) /\ Len(f) <= Len(order)
       /\ Len(f) = limit \/ Len(f) = Len(order)
       /\ \A i \in 1..Len(f) : f[i] = order[i]
  BY <1>11, FirstProperties, LenProperties, ZenonT(60) DEF f
<1>13. \A i \in 1..Len(f) : f[i] \in P /\ i \in DOMAIN order
  <2>1. \A i \in 1..Len(f) : i \in DOMAIN order
    <3>1. DOMAIN order = 1..Len(order) /\ Len(order) \in Nat
      BY <1>10, <1>11, SMTT(60)
    <3>2. Len(f) \in Nat /\ Len(f) <= Len(order)
      BY <1>12
    <3>3. QED
      BY <3>1, <3>2
  <2>2. QED
    BY <1>9, <1>12, <2>1
<1> DEFINE h == Nearest(table, a, P, limit)
<1>14. /\ Len(h) = Len(f) /\ h \in Seq(HitsOf(table, P))
       /\ \A i \in 1..Len(f) : h[i].pid = f[i]
  <2>1. h = [i \in 1..Len(f) |-> [pid |-> f[i], row |-> table[f[i]]]]
    BY <1>5, <1>12
  <2>2. \A i \in 1..Len(f) : [pid |-> f[i], row |-> table[f[i]]] \in HitsOf(table, P)
    BY <1>13 DEF HitsOf
  <2>3. /\ DOMAIN h = 1..Len(f)
        /\ \A i \in 1..Len(f) : h[i] = [pid |-> f[i], row |-> table[f[i]]]
    BY <2>1
  <2>4. \A i \in 1..Len(f) : h[i].pid = f[i] /\ h[i] \in HitsOf(table, P)
    BY <2>2, <2>3
  <2>5. h = [i \in 1..Len(f) |-> h[i]]
    BY <2>1, <2>3
  <2> HIDE DEF h
  <2>6. h \in Seq(HitsOf(table, P)) /\ Len(h) = Len(f)
    BY <1>12, <2>4, <2>5
  <2>7. QED
    BY <2>4, <2>6, SMTT(60)
<1> HIDE DEF h
<1>15. \A m, n \in 1..Len(h) : h[m].pid = h[n].pid => m = n
  <2>1. \A m, n \in 1..Len(f) : order[m] = order[n] => m = n
    BY <1>9, <1>13, SMTT(60)
  <2>2. \A n \in 1..Len(f) : h[n].pid = order[n]
    BY <1>12, <1>14, ZenonT(60)
  <2>3. QED
    BY <1>14, <2>1, <2>2
<1>16. ASSUME limit > 0, P # {} PROVE Len(h) > 0
  <2>1. Cardinality(P) > 0
    BY <1>9, <1>10, <1>16
  <2>2. QED
    BY <1>11, <1>12, <1>14, <1>16, <2>1
<1>17. QED
  BY <1>14, <1>15, <1>16 DEF h
----------------------------------------------------------------------------

(* The least of a set of positions is one of them.                         *)
LEMMA MinIsMember ==
    ASSUME NEW n \in Nat, NEW S \in SUBSET (1..n), S # {}
    PROVE  Min(S) \in S
<1>1. PICK i \in S : \A j \in S : i <= j
  BY SmallestIndex
<1>2. QED
  BY <1>1 DEF Min

LEMMA ExtremeOfTwo ==
    ASSUME NEW a \in Int, NEW b \in Int
    PROVE  /\ Min({a, b}) \in {a, b} /\ Min({a, b}) <= a /\ Min({a, b}) <= b
           /\ Max({a, b}) \in {a, b} /\ Max({a, b}) >= a /\ Max({a, b}) >= b
<1>1. \E x \in {a, b} : \A y \in {a, b} : x <= y
  OBVIOUS
<1>2. \E x \in {a, b} : \A y \in {a, b} : x >= y
  OBVIOUS
<1>3. QED
  BY <1>1, <1>2 DEF Min, Max

----------------------------------------------------------------------------
(* The data of one asset: hits and candidates of patterns of P.            *)
Hits(P) == [pid : P, row : Rows]
Candidates(P) == [pid : P, asset : ToSet(AssetOrder), stride : Stride \cup {NoStride},
                  score : 0..200, key : Int]
OnePerPid(s) == \A m, n \in 1..Len(s) : s[m].pid = s[n].pid => m = n

LEMMA ImpliedStrideType ==
    ASSUME NEW asset PROVE ImpliedStride(asset) \in Seq(Stride)
<1> DEFINE P == {i \in DOMAIN StrideForAttribute : StrideForAttribute[i][1] \in asset.protects}
           applicable == Picked(StrideForAttribute, P)
<1>1. /\ StrideForAttribute \in Seq(Attributes \X Stride)
      /\ P \in SUBSET (1..Len(StrideForAttribute))
  BY DEF StrideForAttribute, Attributes, Stride
<1>2. applicable \in Seq(Attributes \X Stride)
  <2> HIDE DEF P
  <2>1. QED
    BY <1>1, PickedProperties
<1>3. Len(applicable) \in Nat /\ DOMAIN applicable = 1..Len(applicable)
      /\ \A i \in 1..Len(applicable) : applicable[i] \in Attributes \X Stride
  <2> HIDE DEF applicable
  <2>1. QED
    BY <1>2, LenProperties, ElementOfSeq
<1>4. ImpliedStride(asset) = [i \in DOMAIN applicable |-> applicable[i][2]]
  BY DEF ImpliedStride
<1> HIDE DEF applicable
<1>5. \A i \in 1..Len(applicable) : applicable[i][2] \in Stride
  BY <1>3
<1>6. QED
  BY <1>3, <1>4, <1>5

LEMMA AddNewProperties ==
    ASSUME NEW T, NEW h \in Seq(T), NEW x \in Seq(T), OnePerPid(h), OnePerPid(x)
    PROVE  /\ AddNew(h, x) \in Seq(T) /\ OnePerPid(AddNew(h, x))
           /\ \A i \in 1..Len(h) : i \in 1..Len(AddNew(h, x)) /\ AddNew(h, x)[i] = h[i]
           /\ \A n \in 1..Len(x) : \E i \in 1..Len(AddNew(h, x)) : AddNew(h, x)[i].pid = x[n].pid
                                     /\ (AddNew(h, x)[i] = x[n] \/ i \in 1..Len(h))
<1> DEFINE P == {n \in DOMAIN x : \A i \in DOMAIN h : h[i].pid # x[n].pid}
           t == Picked(x, P)
           r == AddNew(h, x)
<1>1. /\ Len(h) \in Nat /\ Len(x) \in Nat /\ DOMAIN h = 1..Len(h) /\ DOMAIN x = 1..Len(x)
      /\ P \in SUBSET (1..Len(x))
  BY LenProperties
<1>2. /\ t \in Seq(T) /\ Len(t) \in Nat
      /\ \E order : IsSelection(x, P, t, order)
  <2> HIDE DEF P
  <2>1. QED
    BY <1>1, PickedProperties, LenProperties
<1>3. PICK order : IsSelection(x, P, t, order)
  BY <1>2
<1>4. r = h \o t
  BY DEF AddNew
<1>5. \A n \in P : n \in 1..Len(x) /\ \A i \in 1..Len(h) : h[i].pid # x[n].pid
  BY <1>1
<1>6. \A n \in 1..Len(x) : n \in P \/ \E i \in 1..Len(h) : h[i].pid = x[n].pid
  BY <1>1
<1> HIDE DEF P, t, r
<1>7. /\ r \in Seq(T) /\ Len(r) = Len(h) + Len(t)
      /\ \A i \in 1..Len(h) : r[i] = h[i]
      /\ \A k \in 1..Len(t) : r[Len(h) + k] = t[k]
  BY <1>2, <1>4, ConcatParts, ConcatProperties
<1>8. \A i \in 1..Len(h) : i \in 1..Len(r)
  BY <1>1, <1>2, <1>7
<1>9. /\ \A k \in 1..Len(t) : order[k] \in P /\ t[k] = x[order[k]]
      /\ \A k, l \in 1..Len(t) : order[k] = order[l] => k = l
      /\ \A n \in P : \E k \in 1..Len(t) : order[k] = n
  BY <1>3 DEF IsSelection
<1>10. \A i \in 1..Len(r) : i \in 1..Len(h) \/ \E k \in 1..Len(t) : i = Len(h) + k
  <2> SUFFICES ASSUME NEW i \in 1..Len(r), i \notin 1..Len(h)
               PROVE  \E k \in 1..Len(t) : i = Len(h) + k
    OBVIOUS
  <2>1. i - Len(h) \in 1..Len(t) /\ i = Len(h) + (i - Len(h))
    BY <1>1, <1>2, <1>7
  <2>2. QED
    BY <2>1
<1>11. OnePerPid(r)
  <2> SUFFICES ASSUME NEW m \in 1..Len(r), NEW n \in 1..Len(r)
               PROVE  r[m].pid = r[n].pid => m = n
    BY Zenon DEF OnePerPid
  <2> SUFFICES ASSUME r[m].pid = r[n].pid PROVE m = n
    OBVIOUS
  <2>0. r[m].pid = r[n].pid
    OBVIOUS
  <2>1. ASSUME NEW i \in 1..Len(h), NEW k \in 1..Len(t), h[i].pid = t[k].pid PROVE FALSE
    <3>1. order[k] \in P /\ t[k] = x[order[k]]
      BY <1>9
    <3>2. h[i].pid # x[order[k]].pid
      BY <1>5, <3>1
    <3>3. QED
      BY <2>1, <3>1, <3>2
  <2>2. ASSUME NEW k \in 1..Len(t), NEW l \in 1..Len(t), t[k].pid = t[l].pid PROVE k = l
    <3>1. x[order[k]].pid = x[order[l]].pid
      BY <1>9, <2>2
    <3>2. order[k] \in 1..Len(x) /\ order[l] \in 1..Len(x)
      BY <1>5, <1>9
    <3>3. order[k] = order[l]
      BY <3>1, <3>2 DEF OnePerPid
    <3>4. QED
      BY <1>9, <3>3
  <2>3. CASE m \in 1..Len(h) /\ n \in 1..Len(h)
    <3>1. h[m].pid = h[n].pid
      BY <1>7, <2>0, <2>3
    <3>2. QED
      BY <2>3, <3>1 DEF OnePerPid
  <2>4. CASE m \in 1..Len(h) /\ n \notin 1..Len(h)
    <3>1. PICK k \in 1..Len(t) : n = Len(h) + k
      BY <1>10, <2>4
    <3>2. h[m].pid = t[k].pid
      BY <1>7, <2>0, <2>4, <3>1
    <3>3. QED
      BY <2>1, <2>4, <3>2
  <2>5. CASE m \notin 1..Len(h) /\ n \in 1..Len(h)
    <3>1. PICK k \in 1..Len(t) : m = Len(h) + k
      BY <1>10, <2>5
    <3>2. h[n].pid = t[k].pid
      BY <1>7, <2>0, <2>5, <3>1
    <3>3. QED
      BY <2>1, <2>5, <3>2
  <2>6. CASE m \notin 1..Len(h) /\ n \notin 1..Len(h)
    <3>1. PICK k \in 1..Len(t) : m = Len(h) + k
      BY <1>10, <2>6
    <3>2. PICK l \in 1..Len(t) : n = Len(h) + l
      BY <1>10, <2>6
    <3>3. t[k].pid = t[l].pid
      BY <1>7, <2>0, <3>1, <3>2
    <3>4. k = l
      BY <2>2, <3>3
    <3>5. QED
      BY <3>1, <3>2, <3>4
  <2>7. QED
    BY <2>3, <2>4, <2>5, <2>6
<1>12. ASSUME NEW n \in 1..Len(x)
       PROVE  \E i \in 1..Len(r) : r[i].pid = x[n].pid /\ (r[i] = x[n] \/ i \in 1..Len(h))
  <2>1. CASE n \in P
    <3>1. PICK k \in 1..Len(t) : order[k] = n
      BY <1>9, <2>1
    <3>2. Len(h) + k \in 1..Len(r)
      BY <1>1, <1>2, <1>7
    <3>3. r[Len(h) + k] = x[n]
      BY <1>7, <1>9, <3>1
    <3>4. QED
      BY <3>2, <3>3
  <2>2. CASE n \notin P
    BY <1>6, <1>7, <1>8, <2>2
  <2>3. QED
    BY <2>1, <2>2
<1>13. QED
  BY <1>7, <1>8, <1>11, <1>12 DEF r
----------------------------------------------------------------------------
(* The scores, and the candidates of one asset.                            *)
LEMMA ScoreType ==
    ASSUME NEW asset \in Asset, NEW P, NEW hit \in Hits(P), NEW a \in ToSet(AssetOrder),
           NEW rerank
    PROVE  Candidate(asset, a, hit, rerank) \in Candidates(P)
<1> DEFINE row == hit.row
           sim == row.sim[a]
<1>1. row \in Rows /\ hit.pid \in P /\ sim \in -100..100 /\ row.stride \in Stride \cup {NoStride}
  BY DEF Hits, Rows, Similarities
<1>2. /\ TagBoost \in Int /\ HardwarePenalty \in Int
  BY RetrievalAssumption DEF RetrievalAssumption
<1>3. Cardinality(asset.tags \cap row.tags) \in Int
  <2>1. IsFiniteSet(Tags)
    <3>1. \A x, y : IsFiniteSet({x, y})
      <4>1. SUFFICES ASSUME NEW x, NEW y PROVE IsFiniteSet({x} \cup {y})
        OBVIOUS
      <4>2. QED
        BY FS_Singleton, FS_Union
    <3> DEFINE A == {"hardware", "firmware"} \cup {"physical", "wireless"}
               B == {"network", "web"} \cup {"cloud", "mobile"}
               C == {"ics", "automotive"} \cup {"crypto", "credentials"}
    <3>2. Tags = (A \cup B) \cup C
      BY DEF Tags
    <3>3. IsFiniteSet(A) /\ IsFiniteSet(B) /\ IsFiniteSet(C)
      BY <3>1, FS_Union
    <3> HIDE DEF A, B, C
    <3>4. IsFiniteSet(A \cup B)
      BY <3>3, FS_Union
    <3>5. QED
      BY <3>2, <3>3, <3>4, FS_Union
  <2>2. asset.tags \cap row.tags \in SUBSET Tags
    BY DEF Asset
  <2>3. IsFiniteSet(asset.tags \cap row.tags)
    BY <2>1, <2>2, FS_Subset
  <2>4. QED
    BY <2>3, FS_CardinalityType
<1> DEFINE overlap == Min({Cardinality(asset.tags \cap row.tags), 2})
           misfit == /\ "hardware" \in row.tags
                     /\ asset.tags \cap {"hardware", "firmware", "physical"} = {}
           penalty == IF misfit THEN HardwarePenalty ELSE 0
<1>4. overlap \in Int
  BY <1>3, ExtremeOfTwo
<1>5. penalty \in Int
  BY <1>2
<1>6. RerankScore(asset, row, sim) = 2 * (sim + TagBoost * overlap - penalty)
  BY DEF RerankScore
<1>7. Candidate(asset, a, hit, rerank) =
        [pid |-> hit.pid, asset |-> a, stride |-> row.stride, score |-> sim + 100,
         key |-> IF rerank THEN RerankScore(asset, row, sim) ELSE sim + 100]
  BY DEF Candidate
<1> HIDE DEF row, sim, overlap, penalty
<1>8. RerankScore(asset, row, sim) \in Int
  <2>1. TagBoost * overlap \in Int
    BY <1>2, <1>4
  <2>2. QED
    BY <1>1, <1>2, <1>5, <1>6, <2>1
<1>9. sim + 100 \in 0..200 /\ sim + 100 \in Int
  BY <1>1
<1> HIDE DEF RerankScore
<1>10. QED
  BY <1>1, <1>7, <1>8, <1>9 DEF Candidates

(* Permuting and selecting leave a pattern its one place.                  *)
LEMMA OnePerPidSelected ==
    ASSUME NEW s, NEW P \in SUBSET (1..Len(s)), NEW t, NEW order,
           IsSelection(s, P, t, order), OnePerPid(s)
    PROVE  OnePerPid(t)
<1> SUFFICES ASSUME NEW m \in 1..Len(t), NEW n \in 1..Len(t)
             PROVE  t[m].pid = t[n].pid => m = n
  BY Zenon DEF OnePerPid
<1> SUFFICES ASSUME t[m].pid = t[n].pid PROVE m = n
  OBVIOUS
<1>1. /\ order[m] \in P /\ order[n] \in P /\ t[m] = s[order[m]] /\ t[n] = s[order[n]]
      /\ order[m] = order[n] => m = n
  BY DEF IsSelection
<1>2. s[order[m]].pid = s[order[n]].pid
  BY <1>1
<1>3. order[m] = order[n]
  BY <1>1, <1>2 DEF OnePerPid
<1>4. QED
  BY <1>1, <1>3

LEMMA AssetCandidatesType ==
    ASSUME NEW asset \in Asset, NEW P, NEW h \in Seq(Hits(P)), OnePerPid(h),
           NEW a \in ToSet(AssetOrder)
    PROVE  LET l == AssetCandidates(asset, a, h)
           IN  /\ l \in Seq(Candidates(P)) /\ Len(l) <= TopK /\ OnePerPid(l)
               /\ \A n \in 1..Len(l) : l[n].asset = a
<1> DEFINE rerank == UseRerank(h)
           all == [i \in DOMAIN h |-> Candidate(asset, a, h[i], rerank)]
           implied == ImpliedStride(asset)
           chosen == IF rerank /\ StrideSlots > 0 /\ implied # <<>>
                     THEN ToSet(SelectTop(all, implied)) ELSE ToSet(all)
           positions == {i \in DOMAIN all : all[i] \in chosen}
           kept == Picked(all, positions)
           Own == {c \in Candidates(P) : c.asset = a}
<1>1. AssetCandidates(asset, a, h) = First(TopK, SortDesc(kept))
  BY DEF AssetCandidates
<1>2. Len(h) \in Nat /\ DOMAIN h = 1..Len(h) /\ \A i \in 1..Len(h) : h[i] \in Hits(P)
  BY LenProperties, ElementOfSeq
<1> HIDE DEF rerank
<1>3. \A i \in 1..Len(h) : all[i] \in Own /\ all[i].pid = h[i].pid
  <2>1. \A i \in 1..Len(h) : all[i] = Candidate(asset, a, h[i], rerank)
    BY <1>2
  <2>2. \A i \in 1..Len(h) : all[i].asset = a /\ all[i].pid = h[i].pid
    BY <2>1 DEF Candidate
  <2>3. \A i \in 1..Len(h) : all[i] \in Candidates(P)
    BY <1>2, <2>1, ScoreType
  <2>4. QED
    BY <2>2, <2>3
<1>4. /\ all \in Seq(Own) /\ Len(all) = Len(h) /\ DOMAIN all = 1..Len(h)
  <2>1. DOMAIN all = 1..Len(h) /\ all = [i \in 1..Len(h) |-> all[i]]
    BY <1>2
  <2> HIDE DEF all, Own
  <2>2. QED
    BY <1>2, <1>3, <2>1
<1>5. OnePerPid(all)
  <2> HIDE DEF all
  <2>1. QED
    BY <1>3, <1>4 DEF OnePerPid
<1>6. positions \in SUBSET (1..Len(all))
  BY <1>4
<1> HIDE DEF all, positions, Own, kept
<1>7. kept \in Seq(Own) /\ \E order : IsSelection(all, positions, kept, order)
  BY <1>4, <1>6, PickedProperties DEF kept
<1>8. OnePerPid(kept)
  BY <1>5, <1>6, <1>7, OnePerPidSelected
<1>9. Len(kept) \in Nat /\ \A i \in 1..Len(kept) : kept[i] \in Own /\ kept[i].key \in Int
  BY <1>7, LenProperties, ElementOfSeq DEF Own, Candidates
<1> DEFINE sorted == SortDesc(kept)
<1>10. /\ sorted \in Seq(Own) /\ Len(sorted) = Len(kept)
       /\ \E order : IsSelection(kept, 1..Len(kept), sorted, order)
  BY <1>7, <1>9, SortDescProperties
<1>11. OnePerPid(sorted)
  <2> HIDE DEF sorted
  <2>1. 1..Len(kept) \in SUBSET (1..Len(kept))
    OBVIOUS
  <2>2. QED
    BY <1>8, <1>10, <2>1, OnePerPidSelected
<1> DEFINE l == First(TopK, sorted)
<1> HIDE DEF sorted
<1>12. /\ l \in Seq(Own) /\ Len(l) \in Nat /\ Len(l) <= TopK /\ Len(l) <= Len(sorted)
       /\ \A i \in 1..Len(l) : l[i] = sorted[i]
  <2>1. TopK \in Nat
    BY RetrievalAssumption DEF RetrievalAssumption
  <2>2. QED
    BY <1>10, <2>1, FirstProperties
<1>13. OnePerPid(l)
  <2>1. Len(sorted) \in Nat
    BY <1>9, <1>10
  <2>2. \A i \in 1..Len(l) : i \in 1..Len(sorted)
    BY <1>12, <2>1
  <2> HIDE DEF l
  <2>3. QED
    BY <1>11, <1>12, <2>2 DEF OnePerPid
<1>14. l \in Seq(Candidates(P)) /\ \A n \in 1..Len(l) : l[n].asset = a
  <2> HIDE DEF l
  <2>1. Own \subseteq Candidates(P) /\ \A c \in Own : c.asset = a
    BY DEF Own
  <2>2. \A n \in 1..Len(l) : l[n] \in Own
    BY <1>12, ElementOfSeq
  <2>3. QED
    BY <1>12, <2>1, <2>2, SeqMonotonic
<1>15. AssetCandidates(asset, a, h) = l
  BY <1>1 DEF sorted
<1>16. QED
  BY <1>12, <1>13, <1>14, <1>15
----------------------------------------------------------------------------
(* The best matches of a category, in the order given.                     *)
LEMMA OfStrideProperties ==
    ASSUME NEW T, NEW ordered \in Seq(T), NEW category
    PROVE  LET best == OfStride(ordered, category)
           IN  /\ best \in Seq(T) /\ Len(best) \in Nat
               /\ \A i \in 1..Len(best) : best[i].stride = category
               /\ (\E k \in 1..Len(ordered) : ordered[k].stride = category) => Len(best) >= 1
<1> DEFINE P == {i \in DOMAIN ordered : ordered[i].stride = category}
           best == OfStride(ordered, category)
<1>1. DOMAIN ordered = 1..Len(ordered)
  BY LenProperties
<1>2. /\ P \in SUBSET (1..Len(ordered))
      /\ \A i \in 1..Len(ordered) : i \in P <=> ordered[i].stride = category
  BY <1>1
<1>3. best = Picked(ordered, P)
  BY DEF OfStride
<1> HIDE DEF P, best
<1>4. best \in Seq(T) /\ Len(best) \in Nat /\ \E order : IsSelection(ordered, P, best, order)
  BY <1>2, <1>3, PickedProperties, LenProperties
<1>5. PICK order : IsSelection(ordered, P, best, order)
  BY <1>4
<1>6. /\ \A n \in 1..Len(best) : order[n] \in P /\ best[n] = ordered[order[n]]
      /\ \A i \in P : \E n \in 1..Len(best) : order[n] = i
  BY <1>5 DEF IsSelection
<1>7. ASSUME NEW i \in 1..Len(best) PROVE best[i].stride = category
  <2>1. order[i] \in 1..Len(ordered) /\ order[i] \in P /\ best[i] = ordered[order[i]]
    BY <1>2, <1>6
  <2>2. QED
    BY <1>2, <2>1
<1>8. ASSUME NEW k \in 1..Len(ordered), ordered[k].stride = category PROVE Len(best) >= 1
  <2>1. PICK n \in 1..Len(best) : order[n] = k
    BY <1>2, <1>6, <1>8
  <2>2. QED
    BY <1>4, <2>1
<1>9. QED
  BY <1>4, <1>7, <1>8 DEF best

(* Among the first n places reserved is one of the n-th category, if any   *)
(* candidate is of that category.                                          *)
LEMMA ReservedCovers ==
    ASSUME NEW T, NEW ordered \in Seq(T), NEW categories \in Seq(Stride),
           StrideSlots > 0, NEW n \in 1..Len(categories),
           NEW k \in 1..Len(ordered), ordered[k].stride = categories[n]
    PROVE  LET r == Reserved(ordered, categories)
           IN  /\ r \in Seq(T)
               /\ \E m \in 1..Len(r) : m <= n /\ r[m].stride = categories[n]
<1> DEFINE L == Len(categories)
           N == StrideSlots * L
           Cat(i) == categories[((i - 1) % L) + 1]
           Rank(i) == ((i - 1) \div L) + 1
           Best(i) == OfStride(ordered, Cat(i))
           Turn(i) == IF Rank(i) <= Len(Best(i)) THEN <<Best(i)[Rank(i)]>> ELSE <<>>
           turns == [i \in 1..N |-> Turn(i)]
           r == Reserved(ordered, categories)
<1>1. r = FlattenSeq(turns)
  BY DEF Reserved
<1>2. L \in Nat /\ L > 0 /\ StrideSlots \in Nat
  BY RetrievalAssumption, LenProperties DEF RetrievalAssumption
<1>3. N \in Nat /\ L <= N /\ n \in 1..N
  <2>1. StrideSlots >= 1
    BY <1>2
  <2>2. StrideSlots * L >= 1 * L /\ StrideSlots * L \in Nat
    BY <1>2, <2>1
  <2>3. QED
    BY <1>2, <2>2
<1>4. \A i \in 1..N : Rank(i) \in Nat /\ Rank(i) >= 1
  BY <1>2
<1>5. Rank(n) = 1 /\ Cat(n) = categories[n]
  <2>1. (n - 1) \div L = 0 /\ (n - 1) % L = n - 1
    BY <1>2, SMTT(60)
  <2>2. QED
    BY <2>1
<1> HIDE DEF Rank, Cat
<1>6. \A i : /\ Best(i) \in Seq(T) /\ Len(Best(i)) \in Nat
             /\ \A j \in 1..Len(Best(i)) : Best(i)[j].stride = Cat(i)
  BY OfStrideProperties
<1>7. Len(Best(n)) >= 1
  BY <1>5, OfStrideProperties
<1> HIDE DEF Best
<1>8. \A i \in 1..N : Turn(i) \in Seq(T) /\ Len(Turn(i)) \in 0..1
  <2> SUFFICES ASSUME NEW i \in 1..N PROVE Turn(i) \in Seq(T) /\ Len(Turn(i)) \in 0..1
    OBVIOUS
  <2>1. CASE Rank(i) <= Len(Best(i))
    <3>1. Best(i)[Rank(i)] \in T
      BY <1>4, <1>6, <2>1, ElementOfSeq
    <3>2. QED
      BY <2>1, <3>1
  <2>2. CASE ~(Rank(i) <= Len(Best(i)))
    BY <2>2
  <2>3. QED
    BY <2>1, <2>2
<1>9. Turn(n) = <<Best(n)[1]>> /\ Best(n)[1].stride = categories[n] /\ Len(Turn(n)) = 1
  BY <1>5, <1>6, <1>7
<1> HIDE DEF Turn
<1>10. /\ turns \in Seq(Seq(T)) /\ Len(turns) = N
       /\ \A i \in 1..N : turns[i] = Turn(i)
  <2>1. turns = [i \in 1..N |-> turns[i]] /\ \A i \in 1..N : turns[i] = Turn(i)
    OBVIOUS
  <2>2. \A i \in 1..N : turns[i] \in Seq(T)
    BY <1>8, <2>1
  <2> HIDE DEF turns, N
  <2>3. turns \in Seq(Seq(T)) /\ Len(turns) = N
    BY <1>3, <2>1, <2>2
  <2>4. QED
    BY <2>1, <2>3
<1> HIDE DEF turns, N, L, r
<1>11. PICK offset \in [1..(N + 1) -> Nat] :
        /\ offset[1] = 0
        /\ \A i \in 1..N : offset[i + 1] = offset[i] + Len(turns[i])
        /\ r \in Seq(T)
        /\ Len(r) = offset[N + 1]
        /\ \A i \in 1..N : \A j \in 1..Len(turns[i]) : r[offset[i] + j] = turns[i][j]
  <2>1. turns \in Seq(Seq(T))
    BY <1>10
  <2>2. FlattenSeq(turns) \in Seq(T) /\ \E offset : IsOffsets(turns, offset)
    BY <2>1, FlattenSeqOffsets
  <2>3. PICK offset : IsOffsets(turns, offset)
    BY <2>2
  <2>4. QED
    BY <1>1, <1>10, <2>2, <2>3 DEF IsOffsets
<1>12. \A i \in 1..N : offset[i] \in Nat /\ offset[i + 1] \in Nat /\ Len(turns[i]) \in 0..1
                       /\ offset[i + 1] = offset[i] + Len(turns[i])
  <2>1. \A i \in 1..N : i \in 1..(N + 1) /\ i + 1 \in 1..(N + 1)
    BY <1>3
  <2>2. QED
    BY <1>8, <1>10, <1>11, <2>1
<1>13. offset[n] <= n - 1
  <2> DEFINE S == {i \in 1..N : offset[i] <= i - 1}
  <2>1. N > 0 => 1 \in S
    BY <1>3, <1>11
  <2>2. \A i \in 1..(N - 1) : i \in S => i + 1 \in S
    <3> SUFFICES ASSUME NEW i \in 1..(N - 1), offset[i] <= i - 1
                 PROVE  i + 1 \in 1..N /\ offset[i + 1] <= (i + 1) - 1
      OBVIOUS
    <3>1. i \in 1..N /\ i + 1 \in 1..N
      BY <1>3
    <3>2. /\ offset[i] \in Nat /\ offset[i + 1] \in Nat /\ Len(turns[i]) \in 0..1
          /\ offset[i + 1] = offset[i] + Len(turns[i])
      BY <1>12, <3>1
    <3>3. offset[i + 1] <= (i + 1) - 1
      <4> DEFINE here == offset[i]
                 next == offset[i + 1]
                 long == Len(turns[i])
      <4>1. here <= i - 1 /\ i \in Int
        BY <3>1
      <4>2. here \in Nat /\ next \in Nat /\ long \in 0..1 /\ next = here + long
        BY <3>2
      <4> HIDE DEF here, next, long, S
      <4>3. next <= (i + 1) - 1
        BY <4>1, <4>2
      <4>4. QED
        BY <4>3 DEF next
    <3>4. QED
      BY <3>1, <3>3
  <2> HIDE DEF S
  <2>3. 1..N \subseteq S
    BY <1>3, <2>1, <2>2, BoundedInduction
  <2>4. QED
    BY <1>3, <2>3 DEF S
<1>14. offset[n] + 1 <= offset[N + 1]
  <2> DEFINE S == {i \in 1..(N + 1) : n < i => offset[n] + 1 <= offset[i]}
  <2>0. offset[n] \in Nat /\ offset[n + 1] = offset[n] + 1
    BY <1>3, <1>9, <1>10, <1>12
  <2>1. N + 1 > 0 => 1 \in S
    BY <1>3
  <2>2. \A i \in 1..((N + 1) - 1) : i \in S => i + 1 \in S
    <3> SUFFICES ASSUME NEW i \in 1..N, i \in S, n < i + 1
                 PROVE  i + 1 \in 1..(N + 1) /\ offset[n] + 1 <= offset[i + 1]
      BY <1>3
    <3>0. /\ offset[i] \in Nat /\ offset[i + 1] \in Nat /\ Len(turns[i]) \in 0..1
          /\ offset[i + 1] = offset[i] + Len(turns[i])
          /\ i + 1 \in 1..(N + 1) /\ i \in Nat /\ n \in Nat
      <4>1. i + 1 \in 1..(N + 1) /\ i \in Nat /\ n \in Nat
        BY <1>3
      <4>2. QED
        BY <1>12, <4>1
    <3>1. CASE n = i
      BY <2>0, <3>0, <3>1
    <3>2. CASE n < i
      <4>1. offset[n] + 1 <= offset[i]
        BY <3>2
      <4>2. offset[i + 1] >= offset[i]
        BY <3>0
      <4>3. QED
        BY <2>0, <3>0, <4>1, <4>2, SMTT(60)
    <3>3. QED
      BY <3>0, <3>1, <3>2
  <2> HIDE DEF S
  <2>3. 1..(N + 1) \subseteq S
    <3>1. N + 1 \in Nat
      BY <1>3
    <3>2. QED
      BY <2>1, <2>2, <3>1, BoundedInduction
  <2>4. N + 1 \in S /\ n < N + 1
    BY <1>3, <2>3
  <2>5. QED
    BY <2>4 DEF S
<1> DEFINE m == offset[n] + 1
<1>15. m \in 1..Len(r) /\ m <= n
  <2>1. offset[n] \in Nat /\ n \in Nat /\ Len(r) = offset[N + 1] /\ Len(r) \in Nat
    BY <1>3, <1>11, <1>12, LenProperties
  <2>2. QED
    BY <1>13, <1>14, <2>1
<1>16. r[m].stride = categories[n]
  <2>1. 1 \in 1..Len(turns[n]) /\ turns[n][1] = Best(n)[1]
    BY <1>3, <1>9, <1>10, SMTT(60)
  <2>2. r[m] = Best(n)[1]
    BY <1>3, <1>11, <2>1
  <2>3. QED
    BY <1>9, <2>2
<1>17. QED
  BY <1>11, <1>15, <1>16 DEF r
----------------------------------------------------------------------------
(* The selection: a category asked for that has a candidate keeps one.     *)
LEMMA CandidateFields ==
    ASSUME NEW asset, NEW n, NEW hit, NEW b
    PROVE  LET c == Candidate(asset, n, hit, b)
           IN  c.stride = hit.row.stride /\ c.pid = hit.pid /\ c.asset = n
BY DEF Candidate

LEMMA IntervalSize ==
    ASSUME NEW n \in Nat PROVE IsFiniteSet(1..n) /\ Cardinality(1..n) = n
BY FS_Interval

LEMMA SelectTopCovers ==
    ASSUME NEW all, all \in Seq(ToSet(all)), \A i \in 1..Len(all) : all[i].key \in Int,
           NEW categories \in Seq(Stride), Len(categories) <= TopK, StrideSlots > 0,
           NEW category \in ToSet(categories),
           NEW i \in 1..Len(all), all[i].stride = category
    PROVE  LET top == SelectTop(all, categories)
           IN  /\ top \in Seq(ToSet(all)) /\ Len(top) \in Nat /\ Len(top) <= TopK
               /\ \E m \in 1..Len(top) : \E k \in 1..Len(all) :
                    top[m] = all[k] /\ all[k].stride = category
<1> DEFINE T == ToSet(all)
           ordered == SortDesc(all)
           r == Reserved(ordered, categories)
           Q == {j \in DOMAIN ordered : ordered[j] \notin ToSet(r)}
           others == Picked(ordered, Q)
           top == SelectTop(all, categories)
<1>1. top = First(TopK, r \o others)
  BY DEF SelectTop
<1>2. /\ Len(all) \in Nat /\ DOMAIN all = 1..Len(all)
      /\ \A x \in T : \E k \in 1..Len(all) : x = all[k]
  <2>1. Len(all) \in Nat /\ DOMAIN all = 1..Len(all)
    BY LenProperties
  <2>2. QED
    BY <2>1 DEF ToSet
<1>3. all \in Seq(T)
  OBVIOUS
<1> HIDE DEF T
<1>4. /\ ordered \in Seq(T) /\ Len(ordered) = Len(all)
      /\ \E order : IsSelection(all, 1..Len(all), ordered, order)
  BY <1>3, SortDescProperties
<1>5. PICK k \in 1..Len(ordered) : ordered[k] = all[i]
  <2>1. PICK order : IsSelection(all, 1..Len(all), ordered, order)
    BY <1>4
  <2>2. PICK n \in 1..Len(ordered) : order[n] = i
    BY <2>1 DEF IsSelection
  <2>3. ordered[n] = all[order[n]]
    BY <2>1 DEF IsSelection
  <2>4. QED
    BY <2>2, <2>3
<1>6. PICK n \in 1..Len(categories) : categories[n] = category
  <2>1. DOMAIN categories = 1..Len(categories)
    BY LenProperties
  <2>2. QED
    BY <2>1 DEF ToSet
<1> HIDE DEF ordered
<1>7. /\ r \in Seq(T)
      /\ \E m \in 1..Len(r) : m <= n /\ r[m].stride = categories[n]
  <2>1. ordered[k].stride = categories[n]
    BY <1>5, <1>6
  <2>2. QED
    BY <1>4, <2>1, ReservedCovers
<1>8. PICK m \in 1..Len(r) : m <= n /\ r[m].stride = category
  BY <1>6, <1>7
<1>9. Q \in SUBSET (1..Len(ordered))
  <2>1. DOMAIN ordered = 1..Len(ordered)
    BY <1>4, LenProperties
  <2>2. QED
    BY <2>1
<1> HIDE DEF r, Q
<1>10. others \in Seq(T)
  BY <1>4, <1>9, PickedProperties
<1> HIDE DEF others
<1>11. Len(r) \in Nat /\ Len(others) \in Nat /\ TopK \in Nat /\ Len(categories) \in Nat
  BY <1>7, <1>10, RetrievalAssumption, LenProperties DEF RetrievalAssumption
<1>12. /\ r \o others \in Seq(T) /\ Len(r \o others) = Len(r) + Len(others)
       /\ (r \o others)[m] = r[m]
  BY <1>7, <1>10, ConcatProperties, ConcatParts
<1> DEFINE whole == r \o others
<1>13. whole \in Seq(T) /\ m \in 1..Len(whole) /\ m <= TopK /\ whole[m].stride = category
  <2>1. m \in Nat /\ n \in Nat /\ m >= 1 /\ m <= Len(r) /\ m <= n /\ n <= Len(categories)
    BY <1>8, <1>11
  <2>2. Len(whole) = Len(r) + Len(others) /\ whole \in Seq(T) /\ whole[m].stride = category
    BY <1>8, <1>12
  <2> HIDE DEF whole
  <2>3. QED
    BY <1>11, <2>1, <2>2
<1>14. top = First(TopK, whole)
  BY <1>1
<1> HIDE DEF whole, top
<1>15. /\ top \in Seq(T) /\ Len(top) \in Nat /\ Len(top) <= TopK
       /\ Len(top) = TopK \/ Len(top) = Len(whole)
       /\ \A j \in 1..Len(top) : top[j] = whole[j]
  BY <1>11, <1>13, <1>14, FirstProperties
<1>16. m \in 1..Len(top)
  <2>1. m \in Nat /\ m >= 1 /\ m <= Len(whole)
    BY <1>13
  <2>2. QED
    BY <1>13, <1>15, <2>1
<1>17. top[m] \in T /\ top[m].stride = category
  BY <1>13, <1>15, <1>16, ElementOfSeq
<1>18. PICK j \in 1..Len(all) : top[m] = all[j]
  BY <1>2, <1>17
<1>19. QED
  BY <1>15, <1>16, <1>17, <1>18 DEF top, T

(* The list of an asset has a candidate of a category that its attributes  *)
(* imply, if some hit is of that category and there is a place for each.   *)
LEMMA AssetCandidatesCover ==
    ASSUME NEW asset \in Asset, NEW P, NEW h \in Seq(Hits(P)), OnePerPid(h),
           NEW a \in ToSet(AssetOrder), UseRerank(h), StrideSlots > 0,
           Len(ImpliedStride(asset)) <= TopK, NEW category \in ToSet(ImpliedStride(asset)),
           NEW i \in 1..Len(h), h[i].row.stride = category
    PROVE  LET l == AssetCandidates(asset, a, h)
           IN  \E n \in 1..Len(l) : l[n].stride = category
<1> DEFINE rerank == UseRerank(h)
           all == [j \in DOMAIN h |-> Candidate(asset, a, h[j], rerank)]
           implied == ImpliedStride(asset)
           top == SelectTop(all, implied)
           positions == {j \in DOMAIN all : all[j] \in ToSet(top)}
           kept == Picked(all, positions)
<1>1. implied \in Seq(Stride) /\ implied # <<>>
  <2>1. implied \in Seq(Stride)
    BY ImpliedStrideType
  <2>2. QED
    BY <2>1 DEF ToSet
<1>2. AssetCandidates(asset, a, h) = First(TopK, SortDesc(kept))
  BY <1>1 DEF AssetCandidates
<1> HIDE DEF rerank
<1>3. Len(h) \in Nat /\ DOMAIN h = 1..Len(h) /\ \A j \in 1..Len(h) : h[j] \in Hits(P)
  BY LenProperties, ElementOfSeq
<1>4. \A j \in 1..Len(h) : /\ all[j] \in Candidates(P)
                           /\ all[j].pid = h[j].pid /\ all[j].stride = h[j].row.stride
  <2>1. \A j \in 1..Len(h) : all[j] = Candidate(asset, a, h[j], rerank)
    BY <1>3
  <2> HIDE DEF all
  <2>2. ASSUME NEW j \in 1..Len(h)
        PROVE  all[j].stride = h[j].row.stride /\ all[j].pid = h[j].pid
    <3>1. all[j] = Candidate(asset, a, h[j], rerank)
      BY <2>1
    <3>2. QED
      BY <3>1, CandidateFields
  <2>3. \A j \in 1..Len(h) : all[j] \in Candidates(P)
    BY <1>3, <2>1, ScoreType
  <2>4. QED
    BY <2>2, <2>3
<1>5. all \in Seq(Candidates(P)) /\ Len(all) = Len(h) /\ DOMAIN all = 1..Len(h)
  <2>1. DOMAIN all = 1..Len(h) /\ all = [j \in 1..Len(h) |-> all[j]]
    BY <1>3
  <2> HIDE DEF all
  <2>2. QED
    BY <1>3, <1>4, <2>1
<1> HIDE DEF all, implied
<1>6. all \in Seq(ToSet(all)) /\ \A j \in 1..Len(all) : all[j].key \in Int
  <2>1. all \in Seq(ToSet(all))
    <3>1. \A j \in 1..Len(all) : all[j] \in ToSet(all)
      BY <1>5 DEF ToSet
    <3>2. all = [j \in 1..Len(all) |-> all[j]]
      BY <1>5, LenProperties
    <3>3. QED
      BY <1>3, <1>5, <3>1, <3>2
  <2>2. QED
    BY <1>4, <1>5, <2>1 DEF Candidates
<1>7. \A m, n \in 1..Len(all) : all[m] = all[n] => m = n
  BY <1>4, <1>5 DEF OnePerPid
<1>8. /\ top \in Seq(ToSet(all)) /\ Len(top) \in Nat /\ Len(top) <= TopK
      /\ \E m \in 1..Len(top) : \E k \in 1..Len(all) :
            top[m] = all[k] /\ all[k].stride = category
  <2>1. i \in 1..Len(all) /\ all[i].stride = category
    BY <1>4, <1>5
  <2>2. Len(implied) <= TopK /\ category \in ToSet(implied)
    BY DEF implied
  <2>3. QED
    BY <1>1, <1>6, <2>1, <2>2, SelectTopCovers
<1>9. PICK m \in 1..Len(top), k \in 1..Len(all) : top[m] = all[k] /\ all[k].stride = category
  BY <1>8
<1>10. /\ positions \in SUBSET (1..Len(all))
       /\ \A j \in positions : \E n \in DOMAIN top : top[n] = all[j]
  BY <1>5 DEF ToSet
<1>11. TopK \in Nat
  BY RetrievalAssumption DEF RetrievalAssumption
<1>12. DOMAIN top = 1..Len(top)
  BY <1>8, LenProperties
<1>13. k \in positions
  BY <1>5, <1>9, <1>12 DEF ToSet
<1> HIDE DEF top, positions
<1>14. Cardinality(positions) <= TopK
  <2> DEFINE f == [j \in positions |-> CHOOSE n \in 1..Len(top) : top[n] = all[j]]
  <2>1. \A j \in positions : f[j] \in 1..Len(top) /\ top[f[j]] = all[j]
    BY <1>10, <1>12
  <2>2. f \in [positions -> 1..Len(top)]
    <3>1. f = [j \in positions |-> f[j]]
      OBVIOUS
    <3> HIDE DEF f
    <3>2. QED
      BY <2>1, <3>1
  <2> HIDE DEF f
  <2>3. \A j, n \in positions : f[j] = f[n] => j = n
    BY <1>7, <1>10, <2>1, SMTT(60)
  <2>4. f \in Injection(positions, 1..Len(top))
    <3>1. DOMAIN f = positions
      BY <2>2
    <3>2. IsInjective(f)
      BY <2>3, <3>1 DEF IsInjective
    <3>3. QED
      BY <2>2, <3>2 DEF Injection
  <2>5. IsFiniteSet(1..Len(top)) /\ Cardinality(1..Len(top)) = Len(top)
    <3>1. Len(top) \in Nat
      BY <1>8
    <3>2. QED
      BY <3>1, IntervalSize
  <2>6. Cardinality(positions) <= Len(top) /\ IsFiniteSet(positions)
    BY <2>4, <2>5, FS_Injection
  <2>7. Cardinality(positions) \in Nat
    BY <2>6, FS_CardinalityType
  <2>8. QED
    BY <1>8, <1>11, <2>6, <2>7
<1>15. /\ kept \in Seq(Candidates(P)) /\ Len(kept) = Cardinality(positions) /\ Len(kept) \in Nat
       /\ \E order : IsSelection(all, positions, kept, order)
  BY <1>5, <1>10, PickedProperties
<1>16. PICK u \in 1..Len(kept) : kept[u] = all[k]
  <2>1. PICK order : IsSelection(all, positions, kept, order)
    BY <1>15
  <2>2. PICK u \in 1..Len(kept) : order[u] = k
    BY <1>13, <2>1 DEF IsSelection
  <2>3. kept[u] = all[order[u]]
    BY <2>1 DEF IsSelection
  <2>4. QED
    BY <2>2, <2>3
<1> HIDE DEF kept
<1> DEFINE sorted == SortDesc(kept)
<1>17. /\ sorted \in Seq(Candidates(P)) /\ Len(sorted) = Len(kept)
       /\ \E order : IsSelection(kept, 1..Len(kept), sorted, order)
  <2>1. \A j \in 1..Len(kept) : kept[j].key \in Int
    <3>1. \A j \in 1..Len(kept) : kept[j] \in Candidates(P)
      BY <1>15, ElementOfSeq
    <3>2. QED
      BY <3>1 DEF Candidates
  <2>2. QED
    BY <1>15, <2>1, SortDescProperties
<1> HIDE DEF sorted
<1>18. PICK v \in 1..Len(sorted) : sorted[v] = kept[u]
  <2>1. PICK order : IsSelection(kept, 1..Len(kept), sorted, order)
    BY <1>17
  <2>2. PICK v \in 1..Len(sorted) : order[v] = u
    BY <2>1 DEF IsSelection
  <2>3. sorted[v] = kept[order[v]]
    BY <2>1 DEF IsSelection
  <2>4. QED
    BY <2>2, <2>3
<1> DEFINE l == First(TopK, sorted)
<1>19. /\ Len(l) \in Nat /\ Len(l) <= TopK /\ (Len(l) = TopK \/ Len(l) = Len(sorted))
       /\ \A j \in 1..Len(l) : l[j] = sorted[j]
       /\ Len(l) <= Len(sorted)
  BY <1>11, <1>17, FirstProperties
<1> HIDE DEF l
<1>20. Len(l) = Len(sorted)
  BY <1>11, <1>14, <1>15, <1>17, <1>19
<1>21. v \in 1..Len(l) /\ l[v].stride = category
  BY <1>9, <1>16, <1>18, <1>19, <1>20
<1>22. AssetCandidates(asset, a, h) = l
  BY <1>2 DEF l, sorted
<1>23. QED
  BY <1>21, <1>22
----------------------------------------------------------------------------
(* The lists of the assets, and the one list made of them.                 *)
IsLists(seqs, P) ==
    /\ seqs \in Seq(Seq(Candidates(P))) /\ Len(seqs) <= Len(AssetOrder)
    /\ \A i \in 1..Len(seqs) :
        /\ Len(seqs[i]) <= TopK /\ OnePerPid(seqs[i])
        /\ \A n \in 1..Len(seqs[i]) : seqs[i][n].asset = AssetOrder[i]

OwnOf(s, a) == {i \in DOMAIN s : s[i].asset = a}
FewOf(s, a) ==
    /\ Cardinality(OwnOf(s, a)) <= TopK
    /\ \A i, j \in OwnOf(s, a) : s[i].pid = s[j].pid => i = j

LEMMA FinalListProperties ==
    ASSUME NEW P, NEW seqs, IsLists(seqs, P)
    PROVE  LET f == FinalList(seqs)
           IN  /\ f \in Seq(Candidates(P))
               /\ \A a : FewOf(f, a)
               /\ \A i \in 1..Len(seqs) : \A n \in 1..Len(seqs[i]) :
                    \E m \in 1..Len(f) : f[m] = seqs[i][n]
<1> DEFINE flat == FlattenSeq(seqs)
           f == FinalList(seqs)
           N == Len(AssetOrder)
<1>1. /\ Len(seqs) \in Nat /\ Len(seqs) <= N /\ N \in Nat /\ DOMAIN AssetOrder = 1..N
      /\ \A i, j \in 1..N : AssetOrder[i] = AssetOrder[j] => i = j
  <2>1. Len(seqs) \in Nat /\ N \in Nat /\ DOMAIN AssetOrder = 1..N
    BY PipelineAssumption, LenProperties DEF PipelineAssumption, IsLists
  <2>2. \A i, j \in 1..N : AssetOrder[i] = AssetOrder[j] => i = j
    BY <2>1, PipelineAssumption DEF PipelineAssumption, IsInjective
  <2>3. QED
    BY <2>1, <2>2 DEF IsLists
<1>2. flat \in Seq(Candidates(P)) /\ \E part, place : IsPlacing(seqs, part, place)
  BY FlattenSeqPlaces DEF IsLists
<1>3. PICK part, place : IsPlacing(seqs, part, place)
  BY <1>2
<1>4. /\ \A n \in 1..Len(flat) : /\ part[n] \in 1..Len(seqs)
                                 /\ place[n] \in 1..Len(seqs[part[n]])
                                 /\ flat[n] = seqs[part[n]][place[n]]
      /\ \A m, n \in 1..Len(flat) : part[m] = part[n] /\ place[m] = place[n] => m = n
      /\ \A i \in 1..Len(seqs) : \A k \in 1..Len(seqs[i]) :
                \E n \in 1..Len(flat) : part[n] = i /\ place[n] = k
  BY <1>3 DEF IsPlacing
<1> HIDE DEF flat, N
<1>5. /\ f \in Seq(Candidates(P)) /\ Len(f) = Len(flat)
      /\ \E order : IsSelection(flat, 1..Len(flat), f, order)
  <2>1. \A i \in 1..Len(flat) : flat[i] \in Candidates(P)
    BY <1>2, ElementOfSeq
  <2>2. \A i \in 1..Len(flat) : flat[i].key \in Int
    BY <2>1 DEF Candidates
  <2>3. f = SortDesc(flat)
    BY DEF FinalList, flat
  <2> HIDE DEF f
  <2>4. QED
    BY <1>2, <2>2, <2>3, SortDescProperties
<1>6. PICK order : IsSelection(flat, 1..Len(flat), f, order)
  BY <1>5
<1>7. /\ \A n \in 1..Len(f) : order[n] \in 1..Len(flat) /\ f[n] = flat[order[n]]
      /\ \A m, n \in 1..Len(f) : order[m] = order[n] => m = n
      /\ \A i \in 1..Len(flat) : \E n \in 1..Len(f) : order[n] = i
  BY <1>6 DEF IsSelection
<1> HIDE DEF f
<1> DEFINE Of(n) == part[order[n]]
           In(n) == place[order[n]]
<1>8. \A n \in 1..Len(f) : /\ Of(n) \in 1..Len(seqs) /\ In(n) \in 1..Len(seqs[Of(n)])
                           /\ f[n] = seqs[Of(n)][In(n)]
  BY <1>4, <1>7, ZenonT(60)
<1>9. \A m, n \in 1..Len(f) : Of(m) = Of(n) /\ In(m) = In(n) => m = n
  <2> SUFFICES ASSUME NEW m \in 1..Len(f), NEW n \in 1..Len(f)
               PROVE  Of(m) = Of(n) /\ In(m) = In(n) => m = n
    OBVIOUS
  <2>1. order[m] \in 1..Len(flat) /\ order[n] \in 1..Len(flat)
    BY <1>7
  <2>2. Of(m) = Of(n) /\ In(m) = In(n) => order[m] = order[n]
    BY <1>4, <2>1
  <2>3. QED
    BY <1>7, <2>2
<1> HIDE DEF Of, In
<1>10. ASSUME NEW a PROVE FewOf(f, a)
  <2> DEFINE own == OwnOf(f, a)
  <2>1. \A n \in own : n \in 1..Len(f) /\ f[n].asset = a
    BY <1>5, LenProperties DEF OwnOf
  <2> HIDE DEF own
  <2>2. \A n \in own : AssetOrder[Of(n)] = a /\ Of(n) \in 1..N
    <3> SUFFICES ASSUME NEW n \in own PROVE AssetOrder[Of(n)] = a /\ Of(n) \in 1..N
      OBVIOUS
    <3>1. /\ n \in 1..Len(f) /\ Of(n) \in 1..Len(seqs) /\ In(n) \in 1..Len(seqs[Of(n)])
          /\ f[n] = seqs[Of(n)][In(n)] /\ f[n].asset = a
      BY <1>8, <2>1
    <3>2. seqs[Of(n)][In(n)].asset = AssetOrder[Of(n)]
      BY <3>1 DEF IsLists
    <3>3. QED
      BY <1>1, <3>1, <3>2
  <2>3. \A m, n \in own : Of(m) = Of(n)
    BY <1>1, <2>2
  <2>4. \A m, n \in own : f[m].pid = f[n].pid => m = n
    <3> SUFFICES ASSUME NEW m \in own, NEW n \in own
                 PROVE  f[m].pid = f[n].pid => m = n
      OBVIOUS
    <3>1. /\ Of(n) \in 1..Len(seqs) /\ In(n) \in 1..Len(seqs[Of(n)])
          /\ In(m) \in 1..Len(seqs[Of(n)])
          /\ f[n] = seqs[Of(n)][In(n)] /\ f[m] = seqs[Of(n)][In(m)]
      BY <1>8, <2>1, <2>3
    <3>2. OnePerPid(seqs[Of(n)])
      BY <3>1 DEF IsLists
    <3>3. f[m].pid = f[n].pid => In(m) = In(n)
      BY <3>1, <3>2 DEF OnePerPid
    <3>4. QED
      BY <1>9, <2>1, <2>3, <3>3
  <2>5. Cardinality(own) <= TopK
    <3> DEFINE g == [n \in own |-> In(n)]
    <3>1. TopK \in Nat
      BY RetrievalAssumption DEF RetrievalAssumption
    <3>2. \A n \in own : In(n) \in 1..TopK
      <4> SUFFICES ASSUME NEW n \in own PROVE In(n) \in 1..TopK
        OBVIOUS
      <4>1. Of(n) \in 1..Len(seqs) /\ In(n) \in 1..Len(seqs[Of(n)])
        BY <1>8, <2>1
      <4>2. Len(seqs[Of(n)]) <= TopK /\ Len(seqs[Of(n)]) \in Nat
        <5>1. seqs[Of(n)] \in Seq(Candidates(P))
          BY <4>1, ElementOfSeq DEF IsLists
        <5>2. QED
          BY <4>1, <5>1, LenProperties DEF IsLists
      <4>3. QED
        BY <3>1, <4>1, <4>2
    <3>3. \A m, n \in own : In(m) = In(n) => m = n
      BY <1>9, <2>1, <2>3
    <3>4. g \in Injection(own, 1..TopK)
      <4>1. g \in [own -> 1..TopK] /\ DOMAIN g = own /\ \A n \in own : g[n] = In(n)
        BY <3>2
      <4> HIDE DEF g
      <4>2. IsInjective(g)
        BY <3>3, <4>1 DEF IsInjective
      <4>3. QED
        BY <4>1, <4>2 DEF Injection
    <3>5. IsFiniteSet(1..TopK) /\ Cardinality(1..TopK) = TopK
      BY <3>1, IntervalSize
    <3>6. QED
      BY <3>4, <3>5, FS_Injection
  <2>6. QED
    BY <2>4, <2>5 DEF FewOf, own
<1>11. ASSUME NEW i \in 1..Len(seqs), NEW n \in 1..Len(seqs[i])
       PROVE  \E m \in 1..Len(f) : f[m] = seqs[i][n]
  <2>1. PICK k \in 1..Len(flat) : part[k] = i /\ place[k] = n
    BY <1>4
  <2>2. PICK m \in 1..Len(f) : order[m] = k
    BY <1>7
  <2>3. f[m] = seqs[i][n]
    BY <1>4, <1>7, <2>1, <2>2, ZenonT(60)
  <2>4. QED
    BY <2>3
<1>12. QED
  BY <1>5, <1>10, <1>11 DEF f
----------------------------------------------------------------------------
(* The tables that the builds write, and those they write into.            *)
KnownTable(table) ==
    IsTable(table) /\ \A p \in DOMAIN table : <<p, table[p].sim>> \in Embeddings

LEMMA KnownDistances ==
    ASSUME NEW table, KnownTable(table), NEW a \in ToSet(AssetOrder)
    PROVE  /\ IsFiniteSet(DOMAIN table)
           /\ \A p \in DOMAIN table : table[p] \in Rows /\ table[p].sim[a] \in Int
           /\ \A p, q \in DOMAIN table : p # q => table[p].sim[a] # table[q].sim[a]
<1>1. IsFiniteSet(DOMAIN table) /\ \A p \in DOMAIN table : table[p] \in Rows
  BY DEF KnownTable, IsTable
<1>2. \A p \in DOMAIN table : table[p].sim[a] \in Int
  BY <1>1 DEF Rows, Similarities
<1>3. ASSUME NEW p \in DOMAIN table, NEW q \in DOMAIN table, p # q
      PROVE  table[p].sim[a] # table[q].sim[a]
  <2> DEFINE e == <<p, table[p].sim>>
             f == <<q, table[q].sim>>
  <2>1. e \in Embeddings /\ f \in Embeddings /\ e[1] # f[1]
    BY <1>3 DEF KnownTable
  <2>2. e[2][a] # f[2][a]
    BY <2>1, DistanceAssumption
  <2>3. QED
    BY <2>2
<1>4. QED
  BY <1>1, <1>2, <1>3

LEMMA InferStrideType ==
    ASSUME NEW h \in [Stride -> Nat]
    PROVE  InferStride(h) \in Stride \cup {NoStride}
<1> DEFINE V == {h[c] : c \in DOMAIN h}
           total == h["Spoofing"] + h["Tampering"] + h["Repudiation"]
                      + h["InformationDisclosure"] + h["DenialOfService"]
                      + h["ElevationOfPrivilege"]
           best == Max(V)
<1>1. DOMAIN h = Stride /\ \A c \in Stride : h[c] \in Nat
  OBVIOUS
<1>2. total \in Nat /\ \A c \in Stride : h[c] <= total
  BY <1>1 DEF Stride
<1> HIDE DEF total
<1>3. best \in V
  <2> DEFINE W == {v + 1 : v \in V}
  <2>1. \A v \in V : v \in Nat /\ v <= total
    BY <1>1, <1>2
  <2>2. V # {}
    BY <1>1 DEF Stride
  <2> HIDE DEF V
  <2>3. W \in SUBSET (1..(total + 1)) /\ W # {}
    <3>1. \A v \in V : v + 1 \in 1..(total + 1)
      BY <1>2, <2>1
    <3>2. QED
      BY <2>2, <3>1
  <2>4. PICK w \in W : \A x \in W : x <= w
    <3>1. total + 1 \in Nat
      BY <1>2
    <3> HIDE DEF W
    <3>2. QED
      BY <2>3, <3>1, LargestIndex
  <2>5. PICK v \in V : w = v + 1
    BY <2>4
  <2>6. \A x \in V : x + 1 <= v + 1
    BY <2>4, <2>5
  <2>7. \A x \in V : v >= x
    BY <2>1, <2>6
  <2>8. QED
    BY <2>7 DEF Max
<1>4. CASE best < 2
  BY <1>4 DEF InferStride, NoStride
<1>5. CASE ~(best < 2)
  <2> DEFINE S == {i \in DOMAIN StrideOrder : h[StrideOrder[i]] = best}
  <2>1. DOMAIN StrideOrder = 1..6 /\ \A i \in 1..6 : StrideOrder[i] \in Stride
    BY DEF StrideOrder, Stride
  <2>2. \A c \in Stride : \E i \in 1..6 : StrideOrder[i] = c
    BY DEF StrideOrder, Stride
  <2>3. PICK c \in Stride : h[c] = best
    BY <1>1, <1>3
  <2> HIDE DEF best
  <2>4. S \in SUBSET (1..6) /\ S # {}
    BY <2>1, <2>2, <2>3
  <2>5. Min(S) \in 1..6
    <3> HIDE DEF S
    <3>1. Min(S) \in S
      BY <2>4, MinIsMember
    <3>2. QED
      BY <2>4, <3>1
  <2>6. InferStride(h) = StrideOrder[Min(S)]
    BY <1>5 DEF InferStride, best
  <2>7. QED
    BY <2>1, <2>5, <2>6
<1>6. QED
  BY <1>4, <1>5

LEMMA IdsProperties ==
    ASSUME NEW T, NEW data \in Seq(T)
    PROVE  /\ IsFiniteSet(Ids(data))
           /\ \A p \in Ids(data) : FirstWith(data, p) \in T /\ FirstWith(data, p).pid = p
<1>1. /\ Len(data) \in Nat /\ DOMAIN data = 1..Len(data)
      /\ \A i \in 1..Len(data) : data[i] \in T
  BY LenProperties, ElementOfSeq
<1>2. IsFiniteSet(Ids(data))
  <2> DEFINE f == [i \in 1..Len(data) |-> data[i].pid]
  <2>1. /\ \A i \in 1..Len(data) : f[i] \in Ids(data)
        /\ \A p \in Ids(data) : \E i \in 1..Len(data) : f[i] = p
    BY <1>1 DEF Ids
  <2>2. f = [i \in 1..Len(data) |-> f[i]]
    OBVIOUS
  <2> HIDE DEF f
  <2>3. f \in Surjection(1..Len(data), Ids(data))
    BY <2>1, <2>2 DEF Surjection
  <2>4. IsFiniteSet(1..Len(data))
    BY <1>1, IntervalSize
  <2>5. QED
    BY <2>3, <2>4, FS_Surjection
<1>3. ASSUME NEW p \in Ids(data)
      PROVE  FirstWith(data, p) \in T /\ FirstWith(data, p).pid = p
  <2> DEFINE S == {i \in DOMAIN data : data[i].pid = p}
  <2>1. S \in SUBSET (1..Len(data)) /\ S # {}
    BY <1>1 DEF Ids
  <2>2. \A i \in S : i \in 1..Len(data) /\ data[i].pid = p
    BY <1>1
  <2>3. FirstWith(data, p) = data[Min(S)]
    BY DEF FirstWith
  <2> HIDE DEF S
  <2>4. Min(S) \in S
    BY <1>1, <2>1, MinIsMember
  <2>5. QED
    BY <1>1, <2>2, <2>3, <2>4
<1>4. QED
  BY <1>2, <1>3

LEMMA SeedEntriesKnown == KnownTable(SeedEntries)
<1> DEFINE E == ToSet(SeedData)
<1>1. /\ IsFiniteSet(Ids(SeedData))
      /\ \A p \in Ids(SeedData) :
            FirstWith(SeedData, p) \in E /\ FirstWith(SeedData, p).pid = p
  BY EntryAssumption, IdsProperties DEF EntryAssumption
<1>2. DOMAIN SeedEntries = Ids(SeedData)
      /\ \A p \in Ids(SeedData) : SeedEntries[p] = SeedRow(FirstWith(SeedData, p))
  BY DEF SeedEntries
<1>3. ASSUME NEW e \in E
      PROVE  IsPatternId(e.pid) /\ SeedRow(e) \in Rows /\ <<e.pid, SeedRow(e).sim>> \in Embeddings
  <2>1. /\ IsPatternId(e.pid) /\ e.source \in Sources /\ e.hint \in Stride \cup {NoStride}
        /\ e.sim \in Similarities
    BY EntryAssumption DEF EntryAssumption
  <2>2. SeedRow(e) = [source |-> e.source, stride |-> e.hint, tags |-> {}, sim |-> e.sim]
    BY DEF SeedRow
  <2>3. SeedRow(e) \in Rows /\ SeedRow(e).sim = e.sim
    BY <2>1, <2>2 DEF Rows
  <2>4. <<e.pid, e.sim>> \in Embeddings
    BY DEF Embeddings
  <2>5. QED
    BY <2>1, <2>3, <2>4
<1>4. \A p \in Ids(SeedData) : /\ IsPatternId(p) /\ SeedEntries[p] \in Rows
                               /\ <<p, SeedEntries[p].sim>> \in Embeddings
  BY <1>1, <1>2, <1>3
<1>5. SeedEntries \in [DOMAIN SeedEntries -> Rows]
  BY <1>2, <1>4 DEF SeedEntries
<1>6. QED
  BY <1>1, <1>2, <1>4, <1>5 DEF KnownTable, IsTable

LEMMA FullEntriesKnown == KnownTable(FullEntries)
<1> DEFINE E == ToSet(FullData)
           data == CatalogueEntries(FullData)
           P == {i \in DOMAIN FullData : \/ FullData[i].source = "STRIDE"
                                         \/ FullData[i].form \notin {"deprecated", "empty"}}
<1>1. FullData \in Seq(E) /\ DOMAIN FullData = 1..Len(FullData)
  BY EntryAssumption, LenProperties DEF EntryAssumption
<1>2. data \in Seq(E)
  <2>1. P \in SUBSET (1..Len(FullData)) /\ data = Picked(FullData, P)
    BY <1>1 DEF CatalogueEntries
  <2> HIDE DEF P, data, E
  <2>2. QED
    BY <1>1, <2>1, PickedProperties
<1>3. FullEntries = [p \in Ids(data) |-> FullRow(data, FirstWith(data, p))]
  BY DEF FullEntries
<1> HIDE DEF data
<1>4. /\ IsFiniteSet(Ids(data))
      /\ \A p \in Ids(data) : FirstWith(data, p) \in E /\ FirstWith(data, p).pid = p
  BY <1>2, IdsProperties
<1>5. ASSUME NEW e \in E
      PROVE  /\ IsPatternId(e.pid) /\ FullRow(data, e) \in Rows
             /\ <<e.pid, FullRow(data, e).sim>> \in Embeddings
  <2>1. /\ IsPatternId(e.pid) /\ e.source \in Sources /\ e.hint \in Stride \cup {NoStride}
        /\ e.sim \in Similarities /\ e.hits \in [Stride -> Nat] /\ e.tags \in SUBSET Tags
    BY EntryAssumption DEF EntryAssumption
  <2> DEFINE category == IF e.source = "STRIDE" THEN e.hint ELSE InferStride(e.hits)
             tags == e.tags \cup {t \in {"ics"} : e.pid \in IcsIds(data)}
  <2>2. FullRow(data, e) = [source |-> e.source, stride |-> category, tags |-> tags,
                            sim |-> e.sim]
    BY DEF FullRow
  <2>3. category \in Stride \cup {NoStride}
    <3>1. e.hits \in [Stride -> Nat]
      BY <2>1
    <3>2. InferStride(e.hits) \in Stride \cup {NoStride}
      BY <3>1, InferStrideType
    <3>3. QED
      BY <2>1, <3>2
  <2>4. tags \in SUBSET Tags
    <3>1. "ics" \in Tags
      BY DEF Tags
    <3>2. \A t \in tags : t \in e.tags \/ t = "ics"
      OBVIOUS
    <3> HIDE DEF tags
    <3>3. QED
      BY <2>1, <3>1, <3>2
  <2> HIDE DEF category, tags
  <2>5. FullRow(data, e) \in Rows /\ FullRow(data, e).sim = e.sim
    BY <2>1, <2>2, <2>3, <2>4 DEF Rows
  <2>6. <<e.pid, e.sim>> \in Embeddings
    BY DEF Embeddings
  <2>7. QED
    BY <2>1, <2>5, <2>6
<1>6. DOMAIN FullEntries = Ids(data)
      /\ \A p \in Ids(data) : FullEntries[p] = FullRow(data, FirstWith(data, p))
  BY <1>3
<1>7. \A p \in Ids(data) : /\ IsPatternId(p) /\ FullEntries[p] \in Rows
                           /\ <<p, FullEntries[p].sim>> \in Embeddings
  BY <1>4, <1>5, <1>6
<1>8. FullEntries \in [DOMAIN FullEntries -> Rows]
  BY <1>3, <1>6, <1>7
<1>9. QED
  BY <1>4, <1>6, <1>7, <1>8 DEF KnownTable, IsTable

LEMMA UpsertKnown ==
    ASSUME NEW table, KnownTable(table), NEW entries, KnownTable(entries)
    PROVE  /\ KnownTable(Upsert(table, entries))
           /\ DOMAIN table \subseteq DOMAIN Upsert(table, entries)
<1> DEFINE D == DOMAIN table \cup DOMAIN entries
           new == Upsert(table, entries)
<1>1. new = [p \in D |-> IF p \in DOMAIN entries THEN entries[p] ELSE table[p]]
  BY DEF Upsert
<1> HIDE DEF new
<1>2. DOMAIN new = D /\ \A p \in D : (p \in DOMAIN entries /\ new[p] = entries[p])
                                        \/ (p \in DOMAIN table /\ new[p] = table[p])
  BY <1>1
<1>3. IsFiniteSet(D)
  BY FS_Union DEF KnownTable, IsTable
<1>4. /\ \A p \in DOMAIN table : IsPatternId(p) /\ table[p] \in Rows
                                 /\ <<p, table[p].sim>> \in Embeddings
      /\ \A p \in DOMAIN entries : IsPatternId(p) /\ entries[p] \in Rows
                                 /\ <<p, entries[p].sim>> \in Embeddings
  BY DEF KnownTable, IsTable
<1> HIDE DEF D
<1>5. \A p \in D : IsPatternId(p) /\ new[p] \in Rows /\ <<p, new[p].sim>> \in Embeddings
  BY <1>2, <1>4
<1>6. new \in [D -> Rows]
  <2>1. new = [p \in D |-> new[p]]
    BY <1>1
  <2>2. QED
    BY <1>5, <2>1
<1>7. KnownTable(new)
  BY <1>2, <1>3, <1>5, <1>6 DEF KnownTable, IsTable
<1>8. QED
  BY <1>2, <1>7 DEF D, new
----------------------------------------------------------------------------
(* The gate on the answer of the deterministic fallback.                   *)
LEMMA SuffixOfItself ==
    ASSUME NEW T, NEW s \in Seq(T) PROVE IsSuffix(s, s)
<1>1. Len(s) \in Nat
  BY LenProperties
<1>2. Reverse(s) = [i \in 1..Len(s) |-> s[(Len(s) - i) + 1]]
  BY DEF Reverse
<1>3. \A i \in 1..Len(s) : s[(Len(s) - i) + 1] \in T
  BY <1>1, ElementOfSeq
<1>4. Reverse(s) \in Seq(T)
  BY <1>1, <1>2, <1>3
<1>5. Len(Reverse(s)) \in Nat
  BY <1>4, LenProperties
<1>6. QED
  BY <1>5 DEF IsSuffix, IsPrefix

(* References: what ends in what, and the words of a reference.            *)
LEMMA SuffixIndices ==
    ASSUME NEW S, NEW T, NEW s \in Seq(S), NEW t \in Seq(T)
    PROVE  IsSuffix(s, t) <=> /\ Len(s) <= Len(t)
                              /\ \A k \in 1..Len(s) : s[k] = t[Len(t) - Len(s) + k]
<1> DEFINE rs == Reverse(s)
           rt == Reverse(t)
           m == Len(s)
           n == Len(t)
<1>1. m \in Nat /\ n \in Nat
  BY LenProperties
<1>2. rs \in Seq(S) /\ Len(rs) = m /\ \A i \in 1..m : rs[i] = s[(m - i) + 1]
  <2>1. rs = [i \in 1..m |-> s[(m - i) + 1]]
    BY DEF Reverse
  <2>2. \A i \in 1..m : s[(m - i) + 1] \in S
    BY <1>1, ElementOfSeq
  <2> HIDE DEF rs
  <2>3. QED
    BY <1>1, <2>1, <2>2
<1>3. rt \in Seq(T) /\ Len(rt) = n /\ \A i \in 1..n : rt[i] = t[(n - i) + 1]
  <2>1. rt = [i \in 1..n |-> t[(n - i) + 1]]
    BY DEF Reverse
  <2>2. \A i \in 1..n : t[(n - i) + 1] \in T
    BY <1>1, ElementOfSeq
  <2> HIDE DEF rt
  <2>3. QED
    BY <1>1, <2>1, <2>2
<1>4. IsSuffix(s, t) <=> m <= n /\ SubSeq(rs, 1, m) = SubSeq(rt, 1, m)
  BY <1>2, <1>3 DEF IsSuffix, IsPrefix
<1> HIDE DEF rs, rt
<1>5. m <= n => (SubSeq(rs, 1, m) = SubSeq(rt, 1, m) <=> \A i \in 1..m : rs[i] = rt[i])
  <2> SUFFICES ASSUME m <= n
               PROVE  SubSeq(rs, 1, m) = SubSeq(rt, 1, m) <=> \A i \in 1..m : rs[i] = rt[i]
    OBVIOUS
  <2> DEFINE a == SubSeq(rs, 1, m)
             b == SubSeq(rt, 1, m)
  <2>1. /\ \A i \in 1..m : rs[i] \in S
        /\ \A i \in 1..m : rt[i] \in T
    BY <1>1, <1>2, <1>3, ElementOfSeq
  <2>2. a = [i \in 1..m |-> rs[i]] /\ b = [i \in 1..m |-> rt[i]]
    BY <1>1, <2>1 DEF SubSeq
  <2> HIDE DEF a, b
  <2>3. a = b <=> \A i \in 1..m : rs[i] = rt[i]
    BY <2>2
  <2>4. QED
    BY <2>3 DEF a, b
<1>6. m <= n => ((\A i \in 1..m : rs[i] = rt[i]) <=> \A k \in 1..m : s[k] = t[n - m + k])
  <2> SUFFICES ASSUME m <= n
               PROVE  (\A i \in 1..m : rs[i] = rt[i]) <=> \A k \in 1..m : s[k] = t[n - m + k]
    OBVIOUS
  <2>1. ASSUME \A i \in 1..m : rs[i] = rt[i], NEW k \in 1..m PROVE s[k] = t[n - m + k]
    <3> DEFINE i == (m - k) + 1
    <3>1. i \in 1..m /\ i \in 1..n /\ (m - i) + 1 = k /\ (n - i) + 1 = n - m + k
      BY <1>1
    <3> HIDE DEF i
    <3>2. rs[i] = s[k] /\ rt[i] = t[n - m + k]
      BY <1>2, <1>3, <3>1
    <3>3. QED
      BY <2>1, <3>1, <3>2
  <2>2. ASSUME \A k \in 1..m : s[k] = t[n - m + k], NEW i \in 1..m PROVE rs[i] = rt[i]
    <3> DEFINE k == (m - i) + 1
    <3>1. k \in 1..m /\ i \in 1..n /\ (n - i) + 1 = n - m + k
      BY <1>1
    <3>2. rs[i] = s[k] /\ rt[i] = t[(n - i) + 1]
      BY <1>2, <1>3, <3>1
    <3> HIDE DEF k
    <3>3. QED
      BY <2>2, <3>1, <3>2
  <2>3. QED
    BY <2>1, <2>2
<1>7. QED
  BY <1>4, <1>5, <1>6

LEMMA SuffixTransitive ==
    ASSUME NEW S, NEW T, NEW U, NEW s \in Seq(S), NEW t \in Seq(T), NEW u \in Seq(U),
           IsSuffix(s, t), IsSuffix(t, u)
    PROVE  IsSuffix(s, u)
<1> DEFINE l == Len(s)
           m == Len(t)
           n == Len(u)
<1>1. l \in Nat /\ m \in Nat /\ n \in Nat
  BY LenProperties
<1>2. l <= m /\ \A k \in 1..l : s[k] = t[m - l + k]
  BY SuffixIndices
<1>3. m <= n /\ \A k \in 1..m : t[k] = u[n - m + k]
  BY SuffixIndices
<1> HIDE DEF l, m, n
<1>4. ASSUME NEW k \in 1..l PROVE s[k] = u[n - l + k]
  <2> DEFINE j == m - l + k
  <2>1. j \in 1..m /\ n - m + j = n - l + k
    BY <1>1, <1>2
  <2>2. s[k] = t[j]
    BY <1>2
  <2> HIDE DEF j
  <2>3. t[j] = u[n - l + k]
    BY <1>3, <2>1
  <2>4. QED
    BY <2>2, <2>3
<1>5. l <= n
  BY <1>1, <1>2, <1>3
<1>6. QED
  BY <1>4, <1>5, SuffixIndices DEF l, n

LEMMA ConsIndices ==
    ASSUME NEW T, NEW s \in Seq(T), NEW x \in T
    PROVE  /\ <<x>> \o s \in Seq(T) /\ Len(<<x>> \o s) = Len(s) + 1 /\ Len(s) \in Nat
           /\ (<<x>> \o s)[1] = x
           /\ \A k \in 1..Len(s) : (<<x>> \o s)[k + 1] = s[k]
<1> DEFINE one == <<x>>
<1>1. one \in Seq(T) /\ Len(one) = 1 /\ one[1] = x
  OBVIOUS
<1> HIDE DEF one
<1>2. /\ one \o s \in Seq(T) /\ Len(one \o s) = Len(one) + Len(s)
      /\ \A k \in 1..Len(one) : (one \o s)[k] = one[k]
      /\ \A k \in 1..Len(s) : (one \o s)[Len(one) + k] = s[k]
  BY <1>1, ConcatProperties, ConcatParts
<1>3. Len(s) \in Nat
  BY LenProperties
<1>4. (one \o s)[1] = x /\ Len(one \o s) = Len(s) + 1
  BY <1>1, <1>2, <1>3
<1>5. ASSUME NEW k \in 1..Len(s) PROVE (one \o s)[k + 1] = s[k]
  <2>1. k + 1 = Len(one) + k
    BY <1>1, <1>3
  <2>2. QED
    BY <1>2, <2>1
<1>6. QED
  BY <1>2, <1>3, <1>4, <1>5 DEF one

LEMMA SuffixOfCons ==
    ASSUME NEW T, NEW s \in Seq(T), NEW x \in T PROVE IsSuffix(s, <<x>> \o s)
<1> DEFINE t == <<x>> \o s
<1>1. /\ t \in Seq(T) /\ Len(t) = Len(s) + 1 /\ Len(s) \in Nat
      /\ \A k \in 1..Len(s) : t[k + 1] = s[k]
  BY ConsIndices
<1> HIDE DEF t
<1>2. \A k \in 1..Len(s) : s[k] = t[Len(t) - Len(s) + k]
  <2>1. \A k \in 1..Len(s) : Len(t) - Len(s) + k = k + 1
    BY <1>1
  <2>2. QED
    BY <1>1, <2>1
<1>3. Len(s) <= Len(t)
  BY <1>1
<1>4. QED
  BY <1>1, <1>2, <1>3, SuffixIndices DEF t

NoDash(s) == {i \in 1..Len(s) : s[i] # "-"}

LEMMA NormPicks ==
    ASSUME NEW T, NEW s \in Seq(T)
    PROVE  Norm(s) = Picked(s, NoDash(s)) /\ Norm(s) \in Seq(T)
<1>1. DOMAIN s = 1..Len(s)
  BY LenProperties
<1>2. Norm(s) = Picked(s, NoDash(s))
  BY <1>1 DEF Norm, NoDash
<1>3. NoDash(s) \in SUBSET (1..Len(s))
  BY DEF NoDash
<1>4. QED
  BY <1>2, <1>3, PickedProperties

LEMMA NormOfDash ==
    ASSUME NEW T, NEW s \in Seq(T), "-" \in T
    PROVE  Norm(<<"-">> \o s) = Norm(s)
<1> DEFINE t == <<"-">> \o s
           from == [n \in 1..Len(t) |-> n - 1]
           P == NoDash(s)
           Q == NoDash(t)
<1>1. /\ t \in Seq(T) /\ Len(t) = Len(s) + 1 /\ Len(s) \in Nat /\ t[1] = "-"
      /\ \A k \in 1..Len(s) : t[k + 1] = s[k]
  BY ConsIndices
<1> HIDE DEF t
<1>2. P \in SUBSET (1..Len(s)) /\ Q \in SUBSET (1..Len(t))
  BY DEF NoDash
<1>3. ASSUME NEW n \in Q PROVE n \in 1..Len(t) /\ n - 1 \in P /\ t[n] = s[n - 1]
  <2>1. n \in 1..Len(t) /\ t[n] # "-"
    BY DEF NoDash
  <2>2. n # 1
    BY <1>1, <2>1
  <2>3. n - 1 \in 1..Len(s) /\ (n - 1) + 1 = n
    BY <1>1, <2>1, <2>2
  <2>4. t[n] = s[n - 1]
    BY <1>1, <2>3
  <2>5. QED
    BY <2>1, <2>3, <2>4 DEF NoDash
<1>4. \A n \in Q : from[n] = n - 1
  BY <1>2
<1>5. ASSUME NEW i \in P PROVE i + 1 \in Q /\ from[i + 1] = i
  <2>1. i \in 1..Len(s) /\ s[i] # "-"
    BY DEF NoDash
  <2>2. i + 1 \in 1..Len(t) /\ t[i + 1] = s[i]
    BY <1>1, <2>1
  <2>3. i + 1 \in Q
    BY <2>1, <2>2 DEF NoDash
  <2>4. (i + 1) - 1 = i
    BY <2>1
  <2>5. QED
    BY <1>4, <2>3, <2>4
<1> HIDE DEF P, Q, from
<1>6. \A n \in Q : from[n] \in P /\ t[n] = s[from[n]]
  BY <1>3, <1>4
<1>7. \A m, n \in Q : m < n => from[m] < from[n]
  <2>1. \A m, n \in Q : m \in Int /\ n \in Int
    BY <1>2
  <2>2. QED
    BY <1>4, <2>1
<1>8. \A i \in P : \E n \in Q : from[n] = i
  BY <1>5
<1>9. Picked(t, Q) = Picked(s, P)
  BY <1>1, <1>2, <1>6, <1>7, <1>8, SamePicked
<1>10. QED
  BY <1>1, <1>9, NormPicks DEF P, Q, t

LEMMA NormOfCons ==
    ASSUME NEW T, NEW s \in Seq(T), NEW x \in T, x # "-"
    PROVE  Norm(<<x>> \o s) = <<x>> \o Norm(s)
<1> DEFINE t == <<x>> \o s
           a == Norm(s)
           b == <<x>> \o a
           P == NoDash(s)
           Q == NoDash(t)
<1>1. /\ t \in Seq(T) /\ Len(t) = Len(s) + 1 /\ Len(s) \in Nat /\ t[1] = x
      /\ \A k \in 1..Len(s) : t[k + 1] = s[k]
  BY ConsIndices
<1>2. a \in Seq(T) /\ a = Picked(s, P)
  BY NormPicks
<1>3. P \in SUBSET (1..Len(s)) /\ Q \in SUBSET (1..Len(t))
  BY DEF NoDash
<1> HIDE DEF a
<1>4. /\ b \in Seq(T) /\ Len(b) = Len(a) + 1 /\ Len(a) \in Nat /\ b[1] = x
      /\ \A k \in 1..Len(a) : b[k + 1] = a[k]
  BY <1>2, ConsIndices
<1> HIDE DEF b, t
<1>5. PICK order : /\ IsSelection(s, P, a, order)
                   /\ \A m, n \in 1..Len(a) : m < n => order[m] < order[n]
  BY <1>2, <1>3, PickedProperties
<1>6. /\ \A n \in 1..Len(a) : order[n] \in P /\ a[n] = s[order[n]]
      /\ \A i \in P : \E n \in 1..Len(a) : order[n] = i
  BY <1>5 DEF IsSelection
<1> DEFINE from == [n \in 1..Len(b) |-> IF n = 1 THEN 1 ELSE order[n - 1] + 1]
<1>7. 1 \in 1..Len(b) /\ from[1] = 1
  BY <1>4
<1>8. ASSUME NEW k \in 1..Len(a) PROVE k + 1 \in 1..Len(b) /\ from[k + 1] = order[k] + 1
  <2>1. k + 1 \in 1..Len(b) /\ k + 1 # 1 /\ (k + 1) - 1 = k
    BY <1>4
  <2>2. QED
    BY <2>1
<1>9. \A n \in 1..Len(b) : n = 1 \/ \E k \in 1..Len(a) : n = k + 1
  <2>1. ASSUME NEW n \in 1..Len(b), n # 1 PROVE \E k \in 1..Len(a) : n = k + 1
    <3>1. n - 1 \in 1..Len(a) /\ n = (n - 1) + 1
      BY <1>4, <2>1
    <3>2. QED
      BY <3>1
  <2>2. QED
    BY <2>1
<1> HIDE DEF from
<1>10. ASSUME NEW i \in P PROVE i \in 1..Len(s) /\ i + 1 \in Q /\ t[i + 1] = s[i]
  <2>1. i \in 1..Len(s) /\ s[i] # "-"
    BY DEF NoDash
  <2>2. i + 1 \in 1..Len(t) /\ t[i + 1] = s[i]
    BY <1>1, <2>1
  <2>3. QED
    BY <2>1, <2>2 DEF NoDash
<1>11. 1 \in Q /\ t[1] = x
  BY <1>1 DEF NoDash
<1>12. \A i \in Q : i = 1 \/ \E j \in P : i = j + 1
  <2>1. ASSUME NEW i \in Q, i # 1 PROVE \E j \in P : i = j + 1
    <3>1. i \in 1..Len(t) /\ t[i] # "-"
      BY DEF NoDash
    <3>2. i - 1 \in 1..Len(s) /\ i = (i - 1) + 1
      BY <1>1, <2>1, <3>1
    <3>3. s[i - 1] # "-"
      BY <1>1, <3>1, <3>2
    <3>4. i - 1 \in P
      BY <3>2, <3>3 DEF NoDash
    <3>5. QED
      BY <3>2, <3>4
  <2>2. QED
    BY <2>1
<1> HIDE DEF P, Q
<1>13. \A n \in 1..Len(b) : from[n] \in Q /\ b[n] = t[from[n]]
  <2>1. from[1] \in Q /\ b[1] = t[from[1]]
    BY <1>4, <1>7, <1>11
  <2>2. ASSUME NEW k \in 1..Len(a) PROVE from[k + 1] \in Q /\ b[k + 1] = t[from[k + 1]]
    <3> DEFINE i == order[k]
    <3>1. i \in P /\ a[k] = s[i] /\ from[k + 1] = i + 1
      BY <1>6, <1>8
    <3> HIDE DEF i
    <3>2. QED
      BY <1>4, <1>10, <3>1
  <2>3. QED
    BY <1>9, <2>1, <2>2
<1>14. ASSUME NEW m \in 1..Len(b), NEW n \in 1..Len(b), m < n PROVE from[m] < from[n]
  <2>1. PICK l \in 1..Len(a) : n = l + 1
    BY <1>4, <1>9, <1>14
  <2>2. from[n] = order[l] + 1 /\ order[l] \in Nat \ {0}
    <3>1. order[l] \in P
      BY <1>6
    <3>2. order[l] \in 1..Len(s)
      BY <1>10, <3>1
    <3>3. QED
      BY <1>8, <2>1, <3>2
  <2>3. CASE m = 1
    BY <1>7, <2>2, <2>3
  <2>4. CASE m # 1
    <3>1. PICK k \in 1..Len(a) : m = k + 1
      BY <1>9, <2>4
    <3>2. from[m] = order[k] + 1 /\ order[k] \in Nat
      <4>1. order[k] \in P
        BY <1>6
      <4>2. order[k] \in 1..Len(s)
        BY <1>10, <4>1
      <4>3. QED
        BY <1>8, <3>1, <4>2
    <3>3. k < l
      BY <1>4, <1>14, <2>1, <3>1
    <3>4. order[k] < order[l]
      BY <1>5, <3>3
    <3>5. QED
      BY <2>2, <3>2, <3>4
  <2>5. QED
    BY <2>3, <2>4
<1>15. \A i \in Q : \E n \in 1..Len(b) : from[n] = i
  <2>1. ASSUME NEW j \in P PROVE \E n \in 1..Len(b) : from[n] = j + 1
    <3>1. PICK k \in 1..Len(a) : order[k] = j
      BY <1>6
    <3>2. QED
      BY <1>8, <3>1
  <2>2. QED
    BY <1>7, <1>12, <2>1
<1>16. b = Picked(t, Q)
  <2>1. \A m, n \in 1..Len(b) : m < n => from[m] < from[n]
    BY <1>14
  <2>2. t \in Seq(T) /\ b \in Seq(T) /\ Q \in SUBSET (1..Len(t))
    BY <1>1, <1>3, <1>4
  <2>3. ReadsInOrder(b, t, Q, from)
    BY <1>13, <1>15, <2>1 DEF ReadsInOrder
  <2>4. QED
    BY <2>2, <2>3, PickedIs
<1>17. QED
  BY <1>1, <1>16, NormPicks DEF a, b, t, Q

LEMMA NormOfStripped ==
    ASSUME NEW T, NEW s \in Seq(T)
    PROVE  Stripped(s) \in Seq(T) /\ Norm(Stripped(s)) = Norm(s)
<1> DEFINE K == {i \in 1..Len(s) : /\ \E j \in 1..i : s[j] # "-"
                                   /\ \E j \in i..Len(s) : s[j] # "-"}
           t == Stripped(s)
           P == NoDash(s)
           Q == NoDash(t)
<1>1. Len(s) \in Nat /\ DOMAIN s = 1..Len(s)
  BY LenProperties
<1>2. t = Picked(s, K)
  BY <1>1 DEF Stripped
<1>3. K \in SUBSET (1..Len(s))
  OBVIOUS
<1>4. P \in SUBSET K
  <2>1. ASSUME NEW i \in P PROVE i \in K
    <3>1. i \in 1..Len(s) /\ s[i] # "-"
      BY DEF NoDash
    <3>2. i \in 1..i /\ i \in i..Len(s)
      BY <1>1, <3>1
    <3>3. QED
      BY <3>1, <3>2
  <2>2. QED
    BY <2>1
<1> HIDE DEF K, t
<1>5. t \in Seq(T)
  BY <1>2, <1>3, PickedProperties
<1>6. PICK order : /\ IsSelection(s, K, t, order)
                   /\ \A m, n \in 1..Len(t) : m < n => order[m] < order[n]
  BY <1>2, <1>3, PickedProperties
<1>7. /\ \A n \in 1..Len(t) : order[n] \in K /\ t[n] = s[order[n]]
      /\ \A i \in K : \E n \in 1..Len(t) : order[n] = i
  BY <1>6 DEF IsSelection
<1>8. P \in SUBSET (1..Len(s)) /\ Q \in SUBSET (1..Len(t))
  BY DEF NoDash
<1>9. \A n \in Q : order[n] \in P /\ t[n] = s[order[n]]
  <2>1. ASSUME NEW n \in Q PROVE order[n] \in P /\ t[n] = s[order[n]]
    <3> DEFINE i == order[n]
    <3>1. n \in 1..Len(t) /\ t[n] # "-"
      BY DEF NoDash
    <3>2. i \in K /\ t[n] = s[i]
      BY <1>7, <3>1
    <3> HIDE DEF i
    <3>3. i \in P
      BY <1>3, <3>1, <3>2 DEF NoDash
    <3>4. QED
      BY <3>2, <3>3 DEF i
  <2>2. QED
    BY <2>1
<1>10. \A i \in P : \E n \in Q : order[n] = i
  <2>1. ASSUME NEW i \in P PROVE \E n \in Q : order[n] = i
    <3>1. PICK n \in 1..Len(t) : order[n] = i
      BY <1>4, <1>7
    <3>2. t[n] = s[i] /\ s[i] # "-"
      BY <1>7, <3>1 DEF NoDash
    <3>3. n \in Q
      BY <3>1, <3>2 DEF NoDash
    <3>4. QED
      BY <3>1, <3>3
  <2>2. QED
    BY <2>1
<1>11. \A m, n \in Q : m < n => order[m] < order[n]
  BY <1>6, <1>8
<1> HIDE DEF P, Q
<1>12. Picked(t, Q) = Picked(s, P)
  BY <1>5, <1>8, <1>9, <1>10, <1>11, SamePicked, SMTT(60)
<1>13. QED
  BY <1>5, <1>12, NormPicks DEF t, P, Q

(* A reference that matches the retrieved id resolves to no other id.      *)
IsReference(ref) == ref \in Seq(ToSet(ref))

LEMMA AttckForm ==
    ASSUME NEW T, NEW s \in Seq(T), "ATT&CK" \in T, "-" \in T
    PROVE  LET v == <<"ATT&CK", "-">> \o s
           IN  /\ Norm(v) = <<"ATT&CK">> \o Norm(s)
               /\ v[1] = "ATT&CK" /\ SubSeq(v, 3, Len(v)) = s
<1> DEFINE one == <<"ATT&CK">>
           dashed == <<"-">> \o s
           two == <<"ATT&CK", "-">>
           v == two \o s
           w == one \o dashed
<1>1. /\ dashed \in Seq(T) /\ Len(dashed) = Len(s) + 1 /\ Len(s) \in Nat
      /\ dashed[1] = "-" /\ \A k \in 1..Len(s) : dashed[k + 1] = s[k]
  BY ConsIndices
<1>2. Norm(dashed) = Norm(s)
  BY NormOfDash
<1> HIDE DEF dashed
<1>3. Norm(w) = one \o Norm(s)
  BY <1>1, <1>2, NormOfCons
<1>4. /\ w \in Seq(T) /\ Len(w) = Len(dashed) + 1 /\ w[1] = "ATT&CK"
      /\ \A k \in 1..Len(dashed) : w[k + 1] = dashed[k]
  BY <1>1, ConsIndices
<1>5. two \in Seq(T) /\ Len(two) = 2 /\ two[1] = "ATT&CK" /\ two[2] = "-"
  OBVIOUS
<1> HIDE DEF w, two
<1>6. /\ v \in Seq(T) /\ Len(v) = Len(two) + Len(s)
      /\ \A k \in 1..Len(two) : v[k] = two[k]
      /\ \A k \in 1..Len(s) : v[Len(two) + k] = s[k]
  BY <1>5, ConcatProperties, ConcatParts
<1> HIDE DEF v
<1>7. Len(v) = Len(s) + 2 /\ v[1] = "ATT&CK" /\ v[2] = "-"
      /\ \A k \in 1..Len(s) : v[k + 2] = s[k]
  <2>1. Len(v) = Len(s) + 2 /\ v[1] = "ATT&CK" /\ v[2] = "-"
    BY <1>1, <1>5, <1>6
  <2>2. ASSUME NEW k \in 1..Len(s) PROVE v[k + 2] = s[k]
    <3>1. Len(two) + k = k + 2
      BY <1>1, <1>5
    <3>2. QED
      BY <1>6, <3>1
  <2>3. QED
    BY <2>1, <2>2
<1>8. v = w
  <2>1. Len(v) = Len(w) /\ Len(v) \in Nat
    BY <1>1, <1>4, <1>7
  <2>2. v[1] = w[1] /\ v[2] = w[2]
    <3>1. 1 \in 1..Len(dashed)
      BY <1>1
    <3>2. w[1 + 1] = dashed[1]
      BY <1>4, <3>1
    <3>3. QED
      BY <1>1, <1>4, <1>7, <3>2
  <2>3. ASSUME NEW k \in 1..Len(s) PROVE v[k + 2] = w[k + 2]
    <3>1. k + 1 \in 1..Len(dashed) /\ (k + 1) + 1 = k + 2
      BY <1>1
    <3>2. w[k + 2] = dashed[k + 1]
      BY <1>4, <3>1
    <3>3. QED
      BY <1>1, <1>7, <3>2
  <2>4. \A n \in 1..Len(v) : n = 1 \/ n = 2 \/ \E k \in 1..Len(s) : n = k + 2
    <3>1. ASSUME NEW n \in 1..Len(v), n # 1, n # 2 PROVE \E k \in 1..Len(s) : n = k + 2
      <4>1. n - 2 \in 1..Len(s) /\ n = (n - 2) + 2
        BY <1>1, <1>7, <3>1
      <4>2. QED
        BY <4>1
    <3>2. QED
      BY <3>1
  <2>5. \A n \in 1..Len(v) : v[n] = w[n]
    BY <2>2, <2>3, <2>4
  <2>6. QED
    BY <1>4, <1>6, <2>1, <2>5, SeqEqual
<1>9. SubSeq(v, 3, Len(v)) = s
  <2> DEFINE u == SubSeq(v, 3, Len(v))
  <2>1. \A i \in 3..Len(v) : v[i] \in T
    BY <1>1, <1>6, <1>7, ElementOfSeq
  <2>2. /\ u \in Seq(T) /\ Len(u) = IF 3 <= Len(v) THEN Len(v) - 3 + 1 ELSE 0
        /\ \A i \in 1..(Len(v) - 3 + 1) : u[i] = v[3 + i - 1]
    BY <1>1, <1>7, <2>1, SubSeqProperties
  <2> HIDE DEF u
  <2>3. Len(u) = Len(s) /\ Len(v) - 3 + 1 = Len(s)
    BY <1>1, <1>7, <2>2
  <2>4. ASSUME NEW k \in 1..Len(s) PROVE u[k] = s[k]
    <3>1. 3 + k - 1 = k + 2
      BY <1>1
    <3>2. QED
      BY <1>7, <2>2, <2>3, <3>1
  <2>5. u = s
    BY <1>1, <2>2, <2>3, <2>4, SeqEqual
  <2>6. QED
    BY <2>5 DEF u
<1>10. QED
  BY <1>3, <1>7, <1>8, <1>9 DEF v, two

LEMMA VariantsAgree ==
    ASSUME NEW p \in PatternIds, NEW q \in PatternIds, IsReference(p), IsReference(q),
           NEW ref, IsReference(ref), RefMatches(ref, p), q \in Variants(ref)
    PROVE  q = p
<1> SUFFICES ASSUME q # p PROVE FALSE
  OBVIOUS
<1> DEFINE T == ToSet(ref) \cup {"ATT&CK", "-"}
           attck == <<"ATT&CK", "-">>
           one == <<"ATT&CK">>
<1>1. ref \in Seq(T) /\ "ATT&CK" \in T /\ "-" \in T
  <2>1. Seq(ToSet(ref)) \subseteq Seq(T)
    BY SeqMonotonic
  <2>2. QED
    BY <2>1 DEF IsReference
<1> HIDE DEF T
<1>2. ~IsSuffix(Norm(q), Norm(p)) /\ ~IsSuffix(Norm(p), Norm(q))
  BY IdAssumption DEF IdAssumption
<1>3. q[1] = "ATT&CK" => ~IsSuffix(Norm(SubSeq(q, 3, Len(q))), Norm(p))
  BY IdAssumption DEF IdAssumption
<1>4. IsSuffix(Norm(ref), Norm(p)) \/ IsSuffix(Norm(p), Norm(ref))
  BY DEF RefMatches
<1>5. Norm(q) # Norm(ref)
  BY <1>2, <1>4
<1>6. CASE q = ref
  BY <1>5, <1>6
<1>7. CASE q = attck \o ref
  <2>1. Norm(q) = one \o Norm(ref) /\ q[1] = "ATT&CK" /\ SubSeq(q, 3, Len(q)) = ref
    BY <1>1, <1>7, AttckForm
  <2>2. IsSuffix(Norm(p), Norm(ref))
    BY <1>3, <1>4, <2>1
  <2>3. Norm(ref) \in Seq(T) /\ Norm(p) \in Seq(ToSet(p)) /\ Norm(q) \in Seq(ToSet(q))
    BY <1>1, NormPicks DEF IsReference
  <2>4. IsSuffix(Norm(ref), Norm(q))
    BY <1>1, <2>1, <2>3, SuffixOfCons
  <2>5. IsSuffix(Norm(p), Norm(q))
    BY <2>2, <2>3, <2>4, SuffixTransitive
  <2>6. QED
    BY <1>2, <2>5
<1>8. CASE ref # <<>> /\ ref[1] = "ATT&CK" /\ q = attck \o Stripped(Tail(ref))
  <2> DEFINE rest == Tail(ref)
  <2>1. /\ rest \in Seq(T) /\ Len(rest) = Len(ref) - 1
        /\ \A i \in 1..Len(rest) : rest[i] = ref[i + 1]
    BY <1>1, <1>8, HeadTailProperties
  <2> HIDE DEF rest
  <2>2. Stripped(rest) \in Seq(T) /\ Norm(Stripped(rest)) = Norm(rest)
    BY <2>1, NormOfStripped
  <2>3. Norm(q) = one \o Norm(rest)
    <3>1. Norm(attck \o Stripped(rest)) = one \o Norm(Stripped(rest))
      BY <1>1, <2>2, AttckForm
    <3>2. QED
      BY <1>8, <2>2, <3>1 DEF rest
  <2>4. Norm(one \o rest) = one \o Norm(rest)
    BY <1>1, <2>1, NormOfCons
  <2>5. one \o rest = ref
    <3> DEFINE t == one \o rest
    <3>1. /\ t \in Seq(T) /\ Len(t) = Len(rest) + 1 /\ Len(rest) \in Nat
          /\ t[1] = "ATT&CK" /\ \A k \in 1..Len(rest) : t[k + 1] = rest[k]
      BY <1>1, <2>1, ConsIndices
    <3> HIDE DEF t
    <3>2. Len(ref) \in Nat /\ Len(t) = Len(ref)
      BY <1>1, <2>1, <3>1, LenProperties
    <3>3. \A n \in 1..Len(t) : t[n] = ref[n]
      <4>1. ASSUME NEW n \in 1..Len(t), n # 1 PROVE t[n] = ref[n]
        <5>1. n - 1 \in 1..Len(rest) /\ (n - 1) + 1 = n
          BY <3>1, <4>1
        <5>2. QED
          BY <2>1, <3>1, <5>1
      <4>2. t[1] = ref[1]
        BY <1>8, <3>1
      <4>3. QED
        BY <4>1, <4>2
    <3>4. t = ref
      BY <1>1, <3>1, <3>2, <3>3, SeqEqual
    <3>5. QED
      BY <3>4 DEF t
  <2>6. QED
    BY <1>5, <2>3, <2>4, <2>5
<1>9. QED
  BY <1>6, <1>7, <1>8 DEF Variants

LEMMA MatchesItself ==
    ASSUME NEW pid, IsPatternId(pid)
    PROVE  RefMatches(pid, pid) /\ pid # <<>> /\ pid \in Variants(pid)
<1> DEFINE P == {i \in DOMAIN pid : pid[i] # "-"}
           n == Norm(pid)
<1>1. pid \in Seq(ToSet(pid)) /\ DOMAIN pid = 1..Len(pid)
  BY LenProperties DEF IsPatternId
<1>2. P \in SUBSET (1..Len(pid)) /\ P # {}
  BY <1>1 DEF IsPatternId
<1>3. n = Picked(pid, P)
  BY DEF Norm
<1> HIDE DEF P, n
<1>4. n \in Seq(ToSet(pid)) /\ \E order : IsSelection(pid, P, n, order)
  BY <1>1, <1>2, <1>3, PickedProperties
<1>5. \E k \in 1..Len(n) : TRUE
  BY <1>2, <1>4 DEF IsSelection
<1>6. n # <<>>
  BY <1>5
<1>7. IsSuffix(n, n)
  BY <1>4, SuffixOfItself
<1>8. RefMatches(pid, pid)
  <2>1. Norm(pid) # <<>> /\ IsSuffix(Norm(pid), Norm(pid))
    BY <1>6, <1>7 DEF n
  <2>2. QED
    BY <2>1 DEF RefMatches
<1>9. pid # <<>>
  <2>1. PICK i \in 1..Len(pid) : TRUE
    BY <1>2
  <2>2. Len(pid) # 0
    BY <1>1, <2>1, LenProperties
  <2>3. QED
    BY <2>2
<1>10. pid \in Variants(pid)
  BY DEF Variants
<1>11. QED
  BY <1>8, <1>9, <1>10

LEMMA FallbackPassesGate ==
    ASSUME NEW assets \in Inputs, NEW P, NEW c \in Candidates(P), IsPatternId(c.pid),
           Words(assets[c.asset].interfaces \cup {assets[c.asset].trust_zone}) # {}
    PROVE  Passes(Fallback(c, assets[c.asset]), c.pid, assets)
<1> DEFINE asset == assets[c.asset]
           category == IF c.stride = "None" THEN "Tampering" ELSE c.stride
           standard == IF asset.interfaces = {} THEN {"standard"} ELSE asset.interfaces
           s == Fallback(c, asset)
<1>1. /\ c.asset \in DOMAIN assets /\ c.asset # "" /\ IsPatternId(c.pid)
      /\ category \in Stride /\ asset \in Asset
  <2>1. /\ c.asset \in ToSet(AssetOrder)
        /\ c.stride \in Stride \cup {NoStride}
    BY DEF Candidates
  <2>2. DOMAIN assets = ToSet(AssetOrder) /\ \A i \in DOMAIN AssetOrder : AssetOrder[i] # ""
    BY PipelineAssumption DEF PipelineAssumption
  <2>3. c.asset \in DOMAIN assets /\ c.asset # ""
    BY <2>1, <2>2 DEF ToSet
  <2>4. asset \in Asset
    BY <2>3, PipelineAssumption DEF PipelineAssumption
  <2>5. category \in Stride
    BY <2>1 DEF Stride, NoStride
  <2>6. QED
    BY <2>1, <2>3, <2>4, <2>5
<1>2. /\ s.asset = c.asset /\ s.stride = category /\ s.vector = {FallbackWord[category]}
      /\ s.ref = c.pid /\ s.matched = c.pid /\ s.reason = "specific"
      /\ s.citation.text = "text" /\ s.citation.names = {RefCore(c.pid)}
      /\ s.exposure = standard \cup {"interface", asset.trust_zone, "trust", "zone"}
  BY DEF Fallback
<1>3. RefMatches(c.pid, c.pid) /\ c.pid # <<>>
  BY <1>1, MatchesItself
<1>4. FallbackWord[category] \in Vocabulary[category]
  <2> HIDE DEF category
  <2>1. \A k \in Stride : k \in {"Spoofing", "Tampering", "Repudiation",
                               "InformationDisclosure", "DenialOfService",
                               "ElevationOfPrivilege"}
    BY DEF Stride
  <2>2. CASE category = "Spoofing"
    BY <2>2 DEF FallbackWord, Vocabulary
  <2>3. CASE category = "Tampering"
    BY <2>3 DEF FallbackWord, Vocabulary
  <2>4. CASE category = "Repudiation"
    BY <2>4 DEF FallbackWord, Vocabulary
  <2>5. CASE category = "InformationDisclosure"
    BY <2>5 DEF FallbackWord, Vocabulary
  <2>6. CASE category = "DenialOfService"
    BY <2>6 DEF FallbackWord, Vocabulary
  <2>7. CASE category = "ElevationOfPrivilege"
    BY <2>7 DEF FallbackWord, Vocabulary
  <2>8. QED
    BY <1>1, <2>1, <2>2, <2>3, <2>4, <2>5, <2>6, <2>7
<1> HIDE DEF category, s
<1>5. Validate(s) = {}
  <2>1. CitationPresent(s)
    BY <1>2 DEF CitationPresent
  <2>2. SchemaComplete(s)
    BY <1>1, <1>2, <1>3 DEF SchemaComplete
  <2>3. Consistent(s)
    BY <1>2, <1>4 DEF Consistent
  <2>4. EvidenceComplete(s)
    BY <1>2, <1>3 DEF EvidenceComplete
  <2>5. QED
    BY <2>1, <2>2, <2>3, <2>4 DEF Validate
<1>6. CheckGrounding(s, c.pid, assets) = {}
  <2>1. Retrieved(s, c.pid)
    BY <1>2, <1>3 DEF Retrieved
  <2>2. s.asset \in DOMAIN assets
    BY <1>1, <1>2
  <2>3. CitationMatches(s, c.pid)
    BY <1>2, <1>3 DEF CitationMatches
  <2>4. ExposureGrounded(s, assets)
    <3> DEFINE vocabulary == AssetVocabulary(s.asset, assets[s.asset])
    <3>1. PICK w \in Words(asset.interfaces \cup {asset.trust_zone}) : TRUE
      OBVIOUS
    <3>2. w \in vocabulary
      BY <1>2, <3>1 DEF AssetVocabulary, Words
    <3>3. w \in Words(s.exposure)
      BY <1>2, <3>1 DEF Words
    <3> HIDE DEF vocabulary
    <3>4. vocabulary = {} \/ Words(s.exposure) \cap vocabulary # {}
      BY <3>2, <3>3
    <3>5. QED
      BY <3>4 DEF ExposureGrounded, vocabulary
  <2>5. QED
    BY <2>1, <2>2, <2>3, <2>4 DEF CheckGrounding
<1>7. QED
  BY <1>5, <1>6 DEF Passes, s
----------------------------------------------------------------------------
(* The queries, on a table as the builds leave it.                         *)
LEMMA PoolQueryProperties ==
    ASSUME NEW table, KnownTable(table), NEW a \in ToSet(AssetOrder), NEW sources
    PROVE  LET rows == PoolQuery(table, a, sources)
           IN  rows \in Seq(HitsOf(table, DOMAIN table)) /\ OnePerPid(rows)
<1> DEFINE P == {p \in DOMAIN table : table[p].source \in sources}
<1>1. PoolLimit \in Nat
  <2>1. TopK \in Nat /\ PoolSize \in Nat
    BY RetrievalAssumption DEF RetrievalAssumption
  <2>2. 2 * TopK \in Nat /\ 2 * TopK \in Int /\ PoolSize \in Int
    BY <2>1
  <2>3. Max({2 * TopK, PoolSize}) \in {2 * TopK, PoolSize}
    BY <2>2, ExtremeOfTwo
  <2>4. QED
    BY <2>1, <2>2, <2>3 DEF PoolLimit
<1>2. PoolQuery(table, a, sources) = Nearest(table, a, P, PoolLimit)
  BY DEF PoolQuery
<1>3. P \in SUBSET DOMAIN table
  OBVIOUS
<1> HIDE DEF P
<1>4. /\ IsFiniteSet(P)
      /\ \A p \in P : table[p].sim[a] \in Int
      /\ \A p, q \in P : p # q => table[p].sim[a] # table[q].sim[a]
  BY <1>3, KnownDistances, FS_Subset
<1> DEFINE rows == Nearest(table, a, P, PoolLimit)
<1>5. /\ rows \in Seq(HitsOf(table, P))
      /\ \A m, n \in 1..Len(rows) : rows[m].pid = rows[n].pid => m = n
  BY <1>1, <1>4, NearestProperties
<1> HIDE DEF rows
<1>6. HitsOf(table, P) \subseteq HitsOf(table, DOMAIN table)
  BY <1>3 DEF HitsOf
<1>7. rows \in Seq(HitsOf(table, DOMAIN table)) /\ OnePerPid(rows)
  BY <1>5, <1>6, SeqMonotonic DEF OnePerPid
<1>8. QED
  BY <1>2, <1>7 DEF rows

LEMMA StrideQueryProperties ==
    ASSUME NEW table, KnownTable(table), NEW a \in ToSet(AssetOrder), NEW sources, NEW category
    PROVE  LET rows == StrideQuery(table, a, sources, category)
           IN  /\ rows \in Seq(HitsOf(table, DOMAIN table)) /\ OnePerPid(rows)
               /\ \A i \in 1..Len(rows) : rows[i].row.stride = category
               /\ (StrideSlots > 0
                     /\ \E p \in DOMAIN table : table[p].source \in sources
                                                 /\ table[p].stride = category)
                  => Len(rows) > 0
<1> DEFINE P == {p \in DOMAIN table : table[p].source \in sources /\ table[p].stride = category}
           limit == 3 * StrideSlots
<1>1. limit \in Nat /\ (StrideSlots > 0 => limit > 0)
  BY RetrievalAssumption DEF RetrievalAssumption
<1>2. StrideQuery(table, a, sources, category) = Nearest(table, a, P, limit)
  BY DEF StrideQuery
<1>3. P \in SUBSET DOMAIN table /\ \A p \in P : table[p].stride = category
  OBVIOUS
<1>4. (\E p \in DOMAIN table : table[p].source \in sources /\ table[p].stride = category)
        => P # {}
  OBVIOUS
<1> HIDE DEF P, limit
<1>5. /\ IsFiniteSet(P)
      /\ \A p \in P : table[p].sim[a] \in Int
      /\ \A p, q \in P : p # q => table[p].sim[a] # table[q].sim[a]
  BY <1>3, KnownDistances, FS_Subset
<1> DEFINE rows == Nearest(table, a, P, limit)
<1>6. /\ rows \in Seq(HitsOf(table, P))
      /\ \A m, n \in 1..Len(rows) : rows[m].pid = rows[n].pid => m = n
      /\ limit > 0 /\ P # {} => Len(rows) > 0
  BY <1>1, <1>5, NearestProperties
<1> HIDE DEF rows
<1>7. HitsOf(table, P) \subseteq HitsOf(table, DOMAIN table)
      /\ \A h \in HitsOf(table, P) : h.row.stride = category
  BY <1>3 DEF HitsOf
<1>8. rows \in Seq(HitsOf(table, DOMAIN table)) /\ OnePerPid(rows)
  BY <1>6, <1>7, SeqMonotonic DEF OnePerPid
<1>9. \A i \in 1..Len(rows) : rows[i].row.stride = category
  <2>1. \A i \in 1..Len(rows) : rows[i] \in HitsOf(table, P)
    BY <1>6, ElementOfSeq
  <2>2. QED
    BY <1>7, <2>1
<1>10. QED
  BY <1>1, <1>2, <1>4, <1>6, <1>8, <1>9 DEF rows

LEMMA PoolProperties ==
    ASSUME NEW T, NEW rows \in Seq(T), OnePerPid(rows)
    PROVE  Pool(rows) \in Seq(T) /\ OnePerPid(Pool(rows))
<1>1. CASE UseRerank(rows)
  BY <1>1 DEF Pool
<1>2. CASE ~UseRerank(rows)
  <2> DEFINE f == First(2 * TopK, rows)
  <2>1. 2 * TopK \in Nat /\ Len(rows) \in Nat
    <3>1. TopK \in Nat /\ Len(rows) \in Nat
      BY RetrievalAssumption, LenProperties DEF RetrievalAssumption
    <3>2. QED
      BY <3>1
  <2>2. /\ f \in Seq(T) /\ Len(f) \in Nat /\ Len(f) <= Len(rows)
        /\ \A i \in 1..Len(f) : f[i] = rows[i]
    BY <2>1, FirstProperties
  <2>3. Pool(rows) = f
    BY <1>2 DEF Pool
  <2> HIDE DEF f
  <2>4. \A i \in 1..Len(f) : i \in 1..Len(rows)
    BY <2>1, <2>2
  <2>5. OnePerPid(f)
    BY <2>2, <2>4 DEF OnePerPid
  <2>6. QED
    BY <2>2, <2>3, <2>5
<1>3. QED
  BY <1>1, <1>2

LEMMA HitsOfKnown ==
    ASSUME NEW table, KnownTable(table)
    PROVE  HitsOf(table, DOMAIN table) \subseteq Hits(DOMAIN table)
BY DEF HitsOf, Hits, KnownTable, IsTable

LEMMA GrowingIds ==
    ASSUME NEW P, NEW Q, P \subseteq Q
    PROVE  /\ Seq(Hits(P)) \subseteq Seq(Hits(Q))
           /\ Seq(Candidates(P)) \subseteq Seq(Candidates(Q))
           /\ \A seqs : IsLists(seqs, P) => IsLists(seqs, Q)
<1>1. Hits(P) \subseteq Hits(Q) /\ Candidates(P) \subseteq Candidates(Q)
  BY DEF Hits, Candidates
<1>2. Seq(Hits(P)) \subseteq Seq(Hits(Q)) /\ Seq(Candidates(P)) \subseteq Seq(Candidates(Q))
  BY <1>1, SeqMonotonic
<1>3. Seq(Seq(Candidates(P))) \subseteq Seq(Seq(Candidates(Q)))
  BY <1>2, SeqMonotonic
<1>4. QED
  BY <1>2, <1>3 DEF IsLists
----------------------------------------------------------------------------
(* The types of what one analysis holds.                                   *)

FetchInv ==
    /\ at \in 0..Len(AssetOrder)
    /\ phase \in {"idle", "open"} => lists = <<>>
    /\ phase \in {"pool", "stride"} => at # 0 /\ Len(lists) = at - 1
    /\ phase = "fetched" => Len(lists) = Len(AssetOrder)
    /\ hits \in Seq(Hits(DOMAIN kb)) /\ OnePerPid(hits)
    /\ cats \in Seq(Stride)
    /\ IsLists(lists, DOMAIN kb)

CandidateInv ==
    /\ candidates \in Seq(Candidates(DOMAIN kb \cup {StubId}))
    /\ ~stub => candidates \in Seq(Candidates(DOMAIN kb))
    /\ \A a \in ToSet(AssetOrder) : FewOf(candidates, a)

DataInv ==
    /\ phase \in Phases /\ KnownTable(kb) /\ input \in Inputs
    /\ {reachable, connected, tagged, stub} \subseteq BOOLEAN
    /\ FetchInv /\ CandidateInv

LEMMA NoCandidates ==
    ASSUME NEW P
    PROVE  /\ <<>> \in Seq(Candidates(P)) /\ <<>> \in Seq(Hits(P)) /\ OnePerPid(<<>>)
           /\ IsLists(<<>>, P) /\ \A a : FewOf(<<>>, a)
<1>1. /\ <<>> \in Seq(Candidates(P)) /\ <<>> \in Seq(Hits(P)) /\ <<>> \in Seq(Seq(Candidates(P)))
      /\ Len(<<>>) = 0 /\ DOMAIN <<>> = {}
  BY EmptySeq
<1>2. OnePerPid(<<>>)
  BY <1>1 DEF OnePerPid
<1>3. Len(AssetOrder) \in Nat
  BY PipelineAssumption, LenProperties DEF PipelineAssumption
<1>4. IsLists(<<>>, P)
  BY <1>1, <1>3 DEF IsLists
<1>5. ASSUME NEW a PROVE FewOf(<<>>, a)
  <2>1. OwnOf(<<>>, a) = {}
    BY <1>1 DEF OwnOf
  <2>2. Cardinality(OwnOf(<<>>, a)) = 0
    BY <2>1, FS_EmptySet
  <2>3. QED
    BY <2>1, <2>2, RetrievalAssumption DEF FewOf, RetrievalAssumption
<1>6. QED
  BY <1>1, <1>2, <1>4, <1>5

LEMMA DataInit == Init => DataInv
<1> SUFFICES ASSUME Init PROVE DataInv
  OBVIOUS
<1>1. KnownTable(kb)
  <2>1. PICK table \in InitialKbs : KbInit(table)
    BY DEF Init
  <2>2. IsTable(table) /\ kb = table
    BY <2>1, TableAssumption DEF KbInit
  <2>3. \A p \in DOMAIN table : <<p, table[p].sim>> \in Embeddings
    BY DEF Embeddings
  <2>4. QED
    BY <2>2, <2>3 DEF KnownTable
<1>2. /\ phase = "idle" /\ input \in Inputs /\ at = 0
      /\ {reachable, connected, tagged, stub} \subseteq BOOLEAN
      /\ hits = <<>> /\ cats = <<>> /\ lists = <<>> /\ candidates = <<>>
  BY DEF Init, KbInit
<1>3. cats \in Seq(Stride) /\ at \in 0..Len(AssetOrder)
  <2>1. Len(AssetOrder) \in Nat
    BY PipelineAssumption, LenProperties DEF PipelineAssumption
  <2>2. QED
    BY <1>2, <2>1, EmptySeq
<1>4. FetchInv
  BY <1>2, <1>3, NoCandidates DEF FetchInv
<1>5. CandidateInv
  BY <1>2, NoCandidates DEF CandidateInv
<1>6. QED
  BY <1>1, <1>2, <1>4, <1>5 DEF DataInv, Phases

(* Where the fetch is.                                                     *)
LEMMA CurrentAsset ==
    ASSUME DataInv, phase \in {"pool", "stride"}
    PROVE  /\ at \in 1..Len(AssetOrder) /\ Len(AssetOrder) \in Nat
           /\ Current \in ToSet(AssetOrder) /\ input[Current] \in Asset
<1>1. Len(AssetOrder) \in Nat /\ DOMAIN AssetOrder = 1..Len(AssetOrder)
  BY PipelineAssumption, LenProperties DEF PipelineAssumption
<1>2. at \in 1..Len(AssetOrder)
  BY <1>1 DEF DataInv, FetchInv
<1>3. Current \in ToSet(AssetOrder)
  BY <1>1, <1>2 DEF Current, ToSet
<1>4. input[Current] \in Asset
  BY <1>3, PipelineAssumption DEF PipelineAssumption, DataInv
<1>5. QED
  BY <1>1, <1>2, <1>3, <1>4

LEMMA DataQueries == DataInv /\ (QueryPool \/ QueryStride) => DataInv'
<1> SUFFICES ASSUME DataInv, QueryPool \/ QueryStride PROVE DataInv'
  OBVIOUS
<1> USE DEF DataInv
<1>1. /\ phase \in {"pool", "stride"} /\ phase' = "stride"
      /\ UNCHANGED <<kb, reachable, connected, tagged, at, lists, input, candidates, stub>>
  BY DEF QueryPool, QueryStride, kbvars
<1>2. /\ at \in 1..Len(AssetOrder)
      /\ Current \in ToSet(AssetOrder) /\ input[Current] \in Asset
  BY <1>1, CurrentAsset
<1>3. HitsOf(kb, DOMAIN kb) \subseteq Hits(DOMAIN kb)
  BY HitsOfKnown
<1>4. hits' \in Seq(Hits(DOMAIN kb)) /\ OnePerPid(hits') /\ cats' \in Seq(Stride)
  <2>1. CASE QueryPool
    <3> DEFINE rows == PoolQuery(kb, Current, CurrentSources)
    <3>1. rows \in Seq(HitsOf(kb, DOMAIN kb)) /\ OnePerPid(rows)
      BY <1>2, PoolQueryProperties
    <3>2. /\ hits' = Pool(rows)
          /\ cats' = ImpliedStride(input[Current]) \/ cats' = <<>>
      BY <2>1 DEF QueryPool
    <3> HIDE DEF rows
    <3>3. rows \in Seq(Hits(DOMAIN kb))
      BY <1>3, <3>1, SeqMonotonic
    <3>4. hits' \in Seq(Hits(DOMAIN kb)) /\ OnePerPid(hits')
      BY <3>1, <3>2, <3>3, PoolProperties
    <3>5. cats' \in Seq(Stride)
      BY <3>2, ImpliedStrideType, EmptySeq
    <3>6. QED
      BY <3>4, <3>5
  <2>2. CASE QueryStride
    <3> DEFINE rows == StrideQuery(kb, Current, CurrentSources, Head(cats))
    <3>1. rows \in Seq(HitsOf(kb, DOMAIN kb)) /\ OnePerPid(rows)
      BY <1>2, StrideQueryProperties
    <3>2. hits' = AddNew(hits, rows) /\ cats' = Tail(cats) /\ cats # <<>>
      BY <2>2 DEF QueryStride
    <3> HIDE DEF rows
    <3>3. rows \in Seq(Hits(DOMAIN kb))
      BY <1>3, <3>1, SeqMonotonic
    <3>4. hits \in Seq(Hits(DOMAIN kb)) /\ OnePerPid(hits) /\ cats \in Seq(Stride)
      BY DEF FetchInv
    <3>5. hits' \in Seq(Hits(DOMAIN kb)) /\ OnePerPid(hits')
      BY <3>1, <3>2, <3>3, <3>4, AddNewProperties
    <3>6. cats' \in Seq(Stride)
      BY <3>2, <3>4, HeadTailProperties
    <3>7. QED
      BY <3>5, <3>6
  <2>3. QED
    BY <2>1, <2>2
<1>5. FetchInv'
  BY <1>1, <1>4 DEF FetchInv
<1>6. CandidateInv'
  BY <1>1 DEF CandidateInv
<1>7. QED
  BY <1>1, <1>5, <1>6 DEF Phases

LEMMA DataNextAsset == DataInv /\ NextAsset => DataInv'
<1> SUFFICES ASSUME DataInv, NextAsset PROVE DataInv'
  OBVIOUS
<1> USE DEF DataInv
<1> DEFINE N == Len(AssetOrder)
           l == AssetCandidates(input[Current], Current, hits)
<1>1. /\ phase = "stride" /\ lists' = Append(lists, l) /\ hits' = <<>>
      /\ IF at = N THEN phase' = "fetched" /\ at' = 0 ELSE phase' = "pool" /\ at' = at + 1
      /\ UNCHANGED <<kb, reachable, connected, tagged, cats, input, candidates, stub>>
  BY DEF NextAsset, kbvars
<1>2. /\ at \in 1..N /\ N \in Nat
      /\ Current \in ToSet(AssetOrder) /\ input[Current] \in Asset
  BY <1>1, CurrentAsset
<1>3. /\ hits \in Seq(Hits(DOMAIN kb)) /\ OnePerPid(hits) /\ IsLists(lists, DOMAIN kb)
      /\ Len(lists) = at - 1
  BY <1>1 DEF FetchInv
<1>4. /\ l \in Seq(Candidates(DOMAIN kb)) /\ Len(l) <= TopK /\ OnePerPid(l)
      /\ \A n \in 1..Len(l) : l[n].asset = Current
  BY <1>2, <1>3, AssetCandidatesType
<1> HIDE DEF l
<1>5. /\ lists' \in Seq(Seq(Candidates(DOMAIN kb))) /\ Len(lists') = at
      /\ \A i \in 1..Len(lists) : lists'[i] = lists[i]
      /\ lists'[at] = l
  <2>1. lists \in Seq(Seq(Candidates(DOMAIN kb)))
    BY <1>3 DEF IsLists
  <2>2. /\ Append(lists, l) \in Seq(Seq(Candidates(DOMAIN kb)))
        /\ Len(Append(lists, l)) = Len(lists) + 1
        /\ \A i \in 1..Len(lists) : Append(lists, l)[i] = lists[i]
        /\ Append(lists, l)[Len(lists) + 1] = l
    BY <1>4, <2>1, AppendProperties
  <2>3. Len(lists) + 1 = at
    BY <1>2, <1>3
  <2>4. QED
    BY <1>1, <2>2, <2>3
<1>6. IsLists(lists', DOMAIN kb)
  <2>1. ASSUME NEW i \in 1..Len(lists')
        PROVE  /\ Len(lists'[i]) <= TopK /\ OnePerPid(lists'[i])
               /\ \A n \in 1..Len(lists'[i]) : lists'[i][n].asset = AssetOrder[i]
    <3>1. CASE i = at
      BY <1>4, <1>5, <3>1 DEF Current
    <3>2. CASE i # at
      <4>1. i \in 1..Len(lists)
        BY <1>2, <1>3, <1>5, <3>2
      <4>2. lists'[i] = lists[i]
        BY <1>5, <4>1
      <4>3. QED
        BY <1>3, <4>1, <4>2 DEF IsLists
    <3>3. QED
      BY <3>1, <3>2
  <2>2. Len(lists') <= N
    BY <1>2, <1>5
  <2>3. QED
    BY <1>5, <2>1, <2>2 DEF IsLists
<1>7. FetchInv'
  <2>1. /\ at' \in 0..N
        /\ phase' \in {"pool", "stride"} => at' # 0 /\ Len(lists') = at' - 1
        /\ phase' = "fetched" => Len(lists') = N
        /\ phase' \notin {"idle", "open"}
    BY <1>1, <1>2, <1>5
  <2>2. hits' \in Seq(Hits(DOMAIN kb')) /\ OnePerPid(hits') /\ cats' \in Seq(Stride)
    BY <1>1, NoCandidates DEF FetchInv
  <2>3. IsLists(lists', DOMAIN kb')
    BY <1>1, <1>6
  <2>4. QED
    BY <2>1, <2>2, <2>3 DEF FetchInv
<1>8. CandidateInv'
  BY <1>1 DEF CandidateInv
<1>9. QED
  BY <1>1, <1>7, <1>8 DEF Phases
----------------------------------------------------------------------------
(* The paths and stubs, and the steps that write a table.                  *)
LEMMA DataBuildPaths == DataInv /\ BuildPaths => DataInv'
<1> SUFFICES ASSUME DataInv, BuildPaths PROVE DataInv'
  OBVIOUS
<1> USE DEF DataInv
<1>1. /\ phase' \in {"failed", "paths"} /\ lists' = <<>> /\ connected' = FALSE
      /\ candidates' = candidates \/ candidates' = FinalList(lists)
      /\ UNCHANGED <<kb, reachable, tagged, at, hits, cats, input, stub>>
  BY DEF BuildPaths, kbvars
<1>2. FetchInv'
  <2>1. IsLists(lists', DOMAIN kb)
    BY <1>1, NoCandidates
  <2>2. QED
    BY <1>1, <2>1 DEF FetchInv
<1>3. CandidateInv'
  <2>1. CASE candidates' = candidates
    BY <1>1, <2>1 DEF CandidateInv
  <2>2. CASE candidates' = FinalList(lists)
    <3>1. IsLists(lists, DOMAIN kb)
      BY DEF FetchInv
    <3>2. /\ candidates' \in Seq(Candidates(DOMAIN kb))
          /\ \A a : FewOf(candidates', a)
      BY <2>2, <3>1, FinalListProperties
    <3>3. candidates' \in Seq(Candidates(DOMAIN kb \cup {StubId}))
      BY <3>2, GrowingIds
    <3>4. QED
      BY <1>1, <3>2, <3>3 DEF CandidateInv
  <2>3. QED
    BY <1>1, <2>1, <2>2
<1>4. QED
  BY <1>1, <1>2, <1>3 DEF Phases

LEMMA DataStubs == DataInv /\ FallBackToStubs => DataInv'
<1> SUFFICES ASSUME DataInv, FallBackToStubs PROVE DataInv'
  OBVIOUS
<1> USE DEF DataInv
<1>1. /\ phase' = "paths" /\ at' = 0 /\ hits' = <<>> /\ cats' = <<>> /\ lists' = <<>>
      /\ stub' = TRUE /\ connected' = FALSE
      /\ candidates' = [i \in DOMAIN AssetOrder |-> StubCandidate(AssetOrder[i])]
      /\ UNCHANGED <<kb, reachable, tagged, input>>
  BY DEF FallBackToStubs, kbvars
<1>2. /\ Len(AssetOrder) \in Nat /\ DOMAIN AssetOrder = 1..Len(AssetOrder)
      /\ \A i, j \in 1..Len(AssetOrder) : AssetOrder[i] = AssetOrder[j] => i = j
  <2>1. Len(AssetOrder) \in Nat /\ DOMAIN AssetOrder = 1..Len(AssetOrder)
    BY PipelineAssumption, LenProperties DEF PipelineAssumption
  <2>2. QED
    BY <2>1, PipelineAssumption DEF PipelineAssumption, IsInjective
<1>3. FetchInv'
  <2>1. IsLists(<<>>, DOMAIN kb) /\ <<>> \in Seq(Hits(DOMAIN kb)) /\ OnePerPid(<<>>)
        /\ <<>> \in Seq(Stride) /\ 0 \in 0..Len(AssetOrder)
    BY <1>2, NoCandidates, EmptySeq
  <2>2. QED
    BY <1>1, <2>1 DEF FetchInv
<1>4. CandidateInv'
  <2> DEFINE P == DOMAIN kb \cup {StubId}
  <2>1. \A i \in 1..Len(AssetOrder) : StubCandidate(AssetOrder[i]) \in Candidates(P)
    <3> SUFFICES ASSUME NEW i \in 1..Len(AssetOrder)
                 PROVE  StubCandidate(AssetOrder[i]) \in Candidates(P)
      OBVIOUS
    <3>1. AssetOrder[i] \in ToSet(AssetOrder)
      BY <1>2 DEF ToSet
    <3>2. "ElevationOfPrivilege" \in Stride \cup {NoStride} /\ StubId \in P
      BY DEF Stride
    <3> HIDE DEF P
    <3>3. QED
      BY <3>1, <3>2 DEF StubCandidate, Candidates, StubId
  <2>2. /\ DOMAIN candidates' = 1..Len(AssetOrder)
        /\ \A i \in 1..Len(AssetOrder) : candidates'[i] = StubCandidate(AssetOrder[i])
    BY <1>1, <1>2
  <2>3. candidates' = [i \in 1..Len(AssetOrder) |-> candidates'[i]]
    BY <1>1, <1>2
  <2> HIDE DEF P
  <2>4. candidates' \in Seq(Candidates(P))
    BY <1>2, <2>1, <2>2, <2>3
  <2>5. \A i \in 1..Len(AssetOrder) : candidates'[i].asset = AssetOrder[i]
    BY <2>2 DEF StubCandidate
  <2>6. ASSUME NEW a \in ToSet(AssetOrder) PROVE FewOf(candidates', a)
    <3> DEFINE own == OwnOf(candidates', a)
    <3>1. \A i, j \in own : i = j
      BY <1>2, <2>2, <2>5 DEF OwnOf
    <3> HIDE DEF own
    <3>2. Cardinality(own) <= TopK
      <4>1. TopK \in Nat /\ TopK >= 1
        BY RetrievalAssumption DEF RetrievalAssumption
      <4>2. CASE own = {}
        BY <4>1, <4>2, FS_EmptySet
      <4>3. CASE own # {}
        <5>1. PICK i : own = {i}
          BY <3>1, <4>3
        <5>2. Cardinality(own) = 1
          BY <5>1, FS_Singleton
        <5>3. QED
          BY <4>1, <5>2
      <4>4. QED
        BY <4>2, <4>3
    <3>3. QED
      BY <3>1, <3>2 DEF FewOf, own
  <2>7. QED
    BY <1>1, <2>4, <2>6 DEF CandidateInv, P
<1>5. QED
  BY <1>1, <1>3, <1>4 DEF Phases

LEMMA DataBuild == DataInv /\ Build => DataInv'
<1> SUFFICES ASSUME DataInv, Build PROVE DataInv'
  OBVIOUS
<1> USE DEF DataInv
<1>1. UNCHANGED <<connected, tagged, at, hits, cats, lists, input, phase, candidates, stub>>
  BY DEF Build, fetchvars
<1>2. /\ UNCHANGED reachable
      /\ \/ kb' = kb
         \/ kb' = Upsert(kb, SeedEntries)
         \/ kb' = Upsert(kb, FullEntries)
  BY DEF Build, BuildSeed, BuildFull
<1>3. KnownTable(kb') /\ DOMAIN kb \subseteq DOMAIN kb'
  BY <1>2, SeedEntriesKnown, FullEntriesKnown, UpsertKnown
<1>4. FetchInv'
  BY <1>1, <1>3, GrowingIds DEF FetchInv
<1>5. CandidateInv'
  <2>1. DOMAIN kb \cup {StubId} \subseteq DOMAIN kb' \cup {StubId}
    BY <1>3
  <2>2. QED
    BY <1>1, <1>3, <2>1, GrowingIds DEF CandidateInv
<1>6. QED
  BY <1>1, <1>2, <1>3, <1>4, <1>5

LEMMA DataStep == DataInv /\ [Next]_vars => DataInv'
<1> SUFFICES ASSUME DataInv, [Next]_vars PROVE DataInv'
  OBVIOUS
<1>0. /\ Len(AssetOrder) \in Nat /\ 1 \in 0..Len(AssetOrder) /\ Len(<<>>) = 0
  <2>1. AssetOrder \in Seq(STRING) /\ AssetOrder # <<>>
    BY PipelineAssumption DEF PipelineAssumption
  <2>2. Len(AssetOrder) \in Nat /\ Len(AssetOrder) # 0
    BY <2>1, LenProperties
  <2>3. QED
    BY <2>2
<1>1. CASE Begin
  <2>1. /\ phase = "idle" /\ phase' = "open"
        /\ UNCHANGED <<kb, reachable, fetchvars, input, candidates, stub>>
    BY <1>1 DEF Begin
  <2>2. FetchInv' /\ CandidateInv'
    BY <2>1 DEF DataInv, FetchInv, CandidateInv, fetchvars
  <2>3. QED
    BY <2>1, <2>2 DEF DataInv, fetchvars, Phases
<1>2. CASE OpenFetch
  <2>1. /\ phase = "open" /\ phase' = "pool" /\ connected' = TRUE /\ at' = 1
        /\ tagged' \in BOOLEAN
        /\ UNCHANGED <<kb, reachable, hits, cats, lists, input, candidates, stub>>
    BY <1>2 DEF OpenFetch, IsTagged, kbvars
  <2>2. FetchInv' /\ CandidateInv'
    BY <1>0, <2>1 DEF DataInv, FetchInv, CandidateInv
  <2>3. QED
    BY <2>1, <2>2 DEF DataInv, Phases
<1>3. CASE QueryPool \/ QueryStride
  BY <1>3, DataQueries
<1>4. CASE NextAsset
  BY <1>4, DataNextAsset
<1>5. CASE BuildPaths
  BY <1>5, DataBuildPaths
<1>6. CASE FallBackToStubs
  BY <1>6, DataStubs
<1>7. CASE Generate \/ GenerateFails \/ Review \/ Propose
  <2>1. /\ phase' \in {"generated", "failed", "reviewed", "done"}
        /\ UNCHANGED <<kb, reachable, fetchvars, input, candidates, stub>>
    BY <1>7 DEF Generate, GenerateFails, Review, Propose, kbvars
  <2>2. FetchInv' /\ CandidateInv'
    BY <2>1 DEF DataInv, FetchInv, CandidateInv, fetchvars
  <2>3. QED
    BY <2>1, <2>2 DEF DataInv, Phases, fetchvars
<1>8. CASE Build
  BY <1>8, DataBuild
<1>9. CASE LoseDatabase \/ Probe
  <2>1. /\ reachable' \in BOOLEAN /\ connected' \in BOOLEAN
        /\ UNCHANGED <<kb, tagged, at, hits, cats, lists, input, phase, candidates, stub>>
    BY <1>9 DEF LoseDatabase, Outage, Probe, Ready, Recover, LookUp, fetchvars, DataInv
  <2>2. FetchInv' /\ CandidateInv'
    BY <2>1 DEF DataInv, FetchInv, CandidateInv
  <2>3. QED
    BY <2>1, <2>2 DEF DataInv
<1>10. CASE Restart
  <2>1. /\ phase' = (IF phase = "idle" THEN phase ELSE "failed")
        /\ connected' = FALSE /\ candidates' = <<>>
        /\ UNCHANGED <<kb, reachable, tagged, at, hits, cats, lists, input, stub>>
    BY <1>10 DEF Restart
  <2>2. FetchInv'
    BY <2>1 DEF DataInv, FetchInv
  <2>3. CandidateInv'
    BY <2>1, NoCandidates DEF CandidateInv
  <2>4. QED
    BY <2>1, <2>2, <2>3 DEF DataInv, Phases
<1>11. CASE UNCHANGED vars
  <2>1. FetchInv' /\ CandidateInv'
    BY <1>11 DEF DataInv, FetchInv, CandidateInv, vars, kbvars, fetchvars
  <2>2. QED
    BY <1>11, <2>1 DEF DataInv, vars, kbvars, fetchvars
<1>12. QED
  BY <1>1, <1>2, <1>3, <1>4, <1>5, <1>6, <1>7, <1>8, <1>9, <1>10, <1>11
     DEF Next, Analysis, Terminated
----------------------------------------------------------------------------
(* What is fetched was read from some table.                               *)
ConsultInv ==
    /\ phase \in Phases
    /\ phase \in {"idle", "open", "pool", "stride", "fetched"} => candidates = <<>> /\ ~stub
    /\ phase \in {"stride", "fetched"} => consulted # {}
    /\ candidates # <<>> /\ ~stub => consulted # {}

LEMMA ConsultInit == Init => ConsultInv
BY DEF Init, ConsultInv, Phases

LEMMA ConsultStep == ConsultInv /\ [Next]_vars => ConsultInv'
<1> SUFFICES ASSUME ConsultInv, [Next]_vars PROVE ConsultInv'
  OBVIOUS
<1> USE DEF ConsultInv, Phases
<1>1. CASE Begin
  BY <1>1 DEF Begin
<1>2. CASE OpenFetch
  BY <1>2 DEF OpenFetch
<1>3. CASE QueryPool
  <2>1. candidates' = <<>> /\ ~stub'
    BY <1>3 DEF QueryPool
  <2>2. consulted' = consulted \cup {kb} /\ consulted' # {}
    BY <1>3 DEF QueryPool
  <2>3. QED
    BY <1>3, <2>1, <2>2 DEF QueryPool
<1>4. CASE QueryStride
  <2>1. candidates' = <<>> /\ ~stub' /\ phase' = "stride"
    BY <1>4 DEF QueryStride
  <2>2. consulted' = consulted \cup {kb} /\ consulted' # {}
    BY <1>4 DEF QueryStride
  <2>3. QED
    BY <1>4, <2>1, <2>2 DEF QueryStride
<1>5. CASE NextAsset
  BY <1>5 DEF NextAsset
<1>6. CASE BuildPaths
  BY <1>6 DEF BuildPaths
<1>7. CASE FallBackToStubs
  BY <1>7 DEF FallBackToStubs
<1>8. CASE Generate \/ GenerateFails \/ Review \/ Propose
  BY <1>8 DEF Generate, GenerateFails, Review, Propose
<1>9. CASE Build
  BY <1>9 DEF Build
<1>10. CASE LoseDatabase
  BY <1>10 DEF LoseDatabase
<1>11. CASE Probe
  BY <1>11 DEF Probe
<1>12. CASE Restart
  BY <1>12 DEF Restart
<1>13. CASE UNCHANGED vars
  BY <1>13 DEF vars
<1>14. QED
  BY <1>1, <1>2, <1>3, <1>4, <1>5, <1>6, <1>7, <1>8, <1>9, <1>10, <1>11, <1>12, <1>13
     DEF Next, Analysis, Terminated

----------------------------------------------------------------------------
LEMMA KnownIds ==
    ASSUME NEW table, KnownTable(table)
    PROVE  \A p \in DOMAIN table : p \in PatternIds /\ IsReference(p)
<1> SUFFICES ASSUME NEW p \in DOMAIN table PROVE p \in PatternIds /\ IsReference(p)
  OBVIOUS
<1>1. <<p, table[p].sim>> \in Embeddings /\ IsPatternId(p)
  BY DEF KnownTable, IsTable
<1>2. p \in {e[1] : e \in Embeddings}
  <2>1. <<p, table[p].sim>>[1] = p
    OBVIOUS
  <2>2. QED
    BY <1>1, <2>1
<1>3. QED
  BY <1>1, <1>2 DEF PatternIds, IsReference, IsPatternId

LEMMA CandidatePattern ==
    ASSUME DataInv, NEW i \in DOMAIN candidates
    PROVE  /\ candidates[i] \in Candidates(DOMAIN kb \cup {StubId})
           /\ IsPatternId(candidates[i].pid)
           /\ ~stub => candidates[i].pid \in DOMAIN kb
           /\ candidates[i].pid \in PatternIds
<1>1. /\ DOMAIN candidates = 1..Len(candidates)
      /\ candidates[i] \in Candidates(DOMAIN kb \cup {StubId})
  BY LenProperties, ElementOfSeq DEF DataInv, CandidateInv
<1>2. candidates[i].pid \in DOMAIN kb \cup {StubId}
  BY <1>1 DEF Candidates
<1>3. \A p \in DOMAIN kb : IsPatternId(p)
  BY DEF DataInv, KnownTable, IsTable
<1>4. IsPatternId(StubId)
  <2> DEFINE T == ToSet(StubId)
  <2>1. StubId[1] = "CWE" /\ DOMAIN StubId = 1..4
    BY DEF StubId
  <2>2. StubId[1] \in T /\ StubId[2] \in T /\ StubId[3] \in T /\ StubId[4] \in T
    BY <2>1 DEF ToSet
  <2>3. StubId \in Seq(T)
    <3> HIDE DEF T
    <3>1. QED
      BY <2>2 DEF StubId
  <2>4. QED
    BY <2>1, <2>3 DEF IsPatternId
<1>5. ~stub => candidates[i].pid \in DOMAIN kb
  <2>1. SUFFICES ASSUME ~stub PROVE candidates[i].pid \in DOMAIN kb
    OBVIOUS
  <2>2. candidates[i] \in Candidates(DOMAIN kb)
    BY <1>1, <2>1, ElementOfSeq DEF DataInv, CandidateInv
  <2>3. QED
    BY <2>2 DEF Candidates
<1>6. candidates[i].pid \in PatternIds
  BY <1>2, KnownIds DEF DataInv, PatternIds
<1>7. QED
  BY <1>1, <1>2, <1>3, <1>4, <1>5, <1>6

(* The scenarios: each belongs to a candidate; what passes the gate cites  *)
(* the pattern of its path, and the verdict on the answer of the fallback  *)
(* is that of the gate.                                                    *)
IsJudged(s) ==
    /\ s.path \in DOMAIN candidates /\ s.passed \in BOOLEAN
    /\ IsReference(s.item.ref)
    /\ s.passed => Retrieved(s.item, candidates[s.path].pid)
    /\ s.by = "down" =>
        LET c == candidates[s.path]
        IN  s.passed = Passes(Fallback(c, input[c.asset]), c.pid, input)

OutInv ==
    /\ phase \notin {"generated", "reviewed", "done"} => scenarios = <<>> /\ approved = {}
    /\ \A i \in DOMAIN scenarios : IsJudged(scenarios[i])
    /\ approved \subseteq DOMAIN scenarios

LEMMA AnswerItems ==
    ASSUME NEW kind, NEW c, IsPatternId(c.pid)
    PROVE  LET items == Items(kind, c)
           IN  /\ items = <<>> \/ \E x : items = <<x>> /\ IsReference(x.ref)
               /\ kind = "down" => items = <<Fallback(c, input[c.asset])>>
<1> DEFINE item == Fallback(c, input[c.asset])
<1>0. /\ IsReference(item.ref)
      /\ \A ref : Cite(item, ref).ref = ref
      /\ [item EXCEPT !.exposure = {"surface"}].ref = item.ref
  BY DEF IsPatternId, IsReference, Fallback, Cite
<1> HIDE DEF item
<1>1. CASE kind = "none"
  BY <1>1 DEF Items
<1>2. CASE kind = "part"
  <2>1. Items(kind, c) = <<Cite(item, <<Last(c.pid)>>)>>
    BY <1>2 DEF Items, item
  <2>2. IsReference(<<Last(c.pid)>>)
    BY DEF IsReference, ToSet
  <2>3. IsReference(Cite(item, <<Last(c.pid)>>).ref)
    BY <1>0, <2>2
  <2>4. QED
    BY <1>2, <2>1, <2>3
<1>3. CASE kind = "foreign"
  <2>1. Items(kind, c) = <<Cite(item, Foreign)>>
    BY <1>3 DEF Items, item
  <2>2. IsReference(Cite(item, Foreign).ref)
    BY <1>0, IdAssumption DEF IdAssumption, IsReference
  <2>3. QED
    BY <1>3, <2>1, <2>2
<1>4. CASE kind = "vague"
  <2>1. Items(kind, c) = <<[item EXCEPT !.exposure = {"surface"}]>>
    BY <1>4 DEF Items, item
  <2>2. QED
    BY <1>0, <1>4, <2>1
<1>5. CASE kind \notin {"none", "part", "foreign", "vague"}
  <2>1. Items(kind, c) = <<item>>
    BY <1>5 DEF Items, item
  <2>2. QED
    BY <1>0, <2>1 DEF item
<1>6. QED
  BY <1>1, <1>2, <1>3, <1>4, <1>5

LEMMA PassesRetrieved ==
    ASSUME NEW s, NEW pid, NEW assets, Passes(s, pid, assets)
    PROVE  Retrieved(s, pid)
BY DEF Passes, CheckGrounding

LEMMA JudgedScenarios ==
    ASSUME DataInv, NEW answer
    PROVE  LET s == Scenarios(answer)
           IN  DOMAIN s = 1..Len(s) /\ \A n \in DOMAIN s : IsJudged(s[n])
<1> DEFINE items(i) == Items(answer[i], candidates[i])
           verdict(i, n) == [item |-> items(i)[n], path |-> i, by |-> answer[i],
                             passed |-> Passes(items(i)[n], candidates[i].pid, input)]
           judged(i) == [n \in DOMAIN items(i) |-> verdict(i, n)]
           parts == [i \in DOMAIN candidates |-> judged(i)]
           T == UNION {{verdict(i, n) : n \in DOMAIN items(i)} : i \in DOMAIN candidates}
           s == FlattenSeq(parts)
<1>1. Len(candidates) \in Nat /\ DOMAIN candidates = 1..Len(candidates)
  BY LenProperties DEF DataInv, CandidateInv
<1>2. ASSUME NEW i \in DOMAIN candidates
      PROVE  /\ judged(i) \in Seq(T)
             /\ \A n \in DOMAIN judged(i) : IsJudged(judged(i)[n])
  <2>1. /\ items(i) = <<>> \/ \E x : items(i) = <<x>> /\ IsReference(x.ref)
        /\ answer[i] = "down" => items(i) = <<Fallback(candidates[i], input[candidates[i].asset])>>
    BY AnswerItems, CandidatePattern
  <2>2. \E m \in Nat : DOMAIN items(i) = 1..m
    <3> HIDE DEF items
    <3>1. CASE items(i) = <<>>
      <4>1. DOMAIN items(i) = 1..0
        BY <3>1
      <4>2. QED
        BY <4>1
    <3>2. CASE \E x : items(i) = <<x>>
      <4>1. DOMAIN items(i) = 1..1
        BY <3>2
      <4>2. QED
        BY <4>1
    <3>3. QED
      BY <2>1, <3>1, <3>2
  <2>3. \A n \in DOMAIN items(i) : verdict(i, n) \in T
    <3> HIDE DEF items, verdict
    <3>1. QED
      OBVIOUS
  <2>4. ASSUME NEW n \in DOMAIN items(i) PROVE IsJudged(verdict(i, n))
    <3>1. /\ verdict(i, n).path = i /\ verdict(i, n).by = answer[i]
          /\ verdict(i, n).item = items(i)[n]
          /\ verdict(i, n).passed = Passes(items(i)[n], candidates[i].pid, input)
      OBVIOUS
    <3>2. Passes(items(i)[n], candidates[i].pid, input) \in BOOLEAN
      BY DEF Passes
    <3>3. answer[i] = "down" => items(i)[n] = Fallback(candidates[i], input[candidates[i].asset])
      <4>1. SUFFICES ASSUME answer[i] = "down"
                     PROVE  items(i)[n] = Fallback(candidates[i], input[candidates[i].asset])
        OBVIOUS
      <4>2. items(i) = <<Fallback(candidates[i], input[candidates[i].asset])>>
        BY <2>1, <4>1
      <4> HIDE DEF items
      <4>3. n = 1
        BY <4>2
      <4>4. QED
        BY <4>2, <4>3
    <3>4. IsReference(items(i)[n].ref)
      <4> HIDE DEF items
      <4>1. PICK x : items(i) = <<x>> /\ IsReference(x.ref)
        BY <2>1
      <4>2. n = 1
        BY <4>1
      <4>3. QED
        BY <4>1, <4>2
    <3> HIDE DEF verdict, items
    <3>5. verdict(i, n).passed => Retrieved(verdict(i, n).item, candidates[i].pid)
      BY <3>1, PassesRetrieved
    <3>6. QED
      BY <3>1, <3>2, <3>3, <3>4, <3>5 DEF IsJudged
  <2> HIDE DEF items, verdict, T
  <2>5. judged(i) \in Seq(T)
    BY <2>2, <2>3
  <2>6. QED
    BY <2>4, <2>5
<1>3. parts \in Seq(Seq(T)) /\ Len(parts) = Len(candidates)
      /\ \A i \in 1..Len(candidates) : parts[i] = judged(i)
  <2> HIDE DEF judged, T
  <2>1. QED
    BY <1>1, <1>2
<1>4. Scenarios(answer) = s
  BY Zenon DEF Scenarios
<1> HIDE DEF parts, judged, T
<1>5. s \in Seq(T) /\ \E part, place : IsPlacing(parts, part, place)
  BY <1>3, FlattenSeqPlaces
<1>6. PICK part, place : IsPlacing(parts, part, place)
  BY <1>5
<1>7. DOMAIN s = 1..Len(s)
  BY <1>5, LenProperties
<1>8. ASSUME NEW n \in 1..Len(s) PROVE IsJudged(s[n])
  <2>1. /\ part[n] \in 1..Len(candidates) /\ place[n] \in 1..Len(parts[part[n]])
        /\ s[n] = parts[part[n]][place[n]]
    BY <1>3, <1>6 DEF IsPlacing
  <2>2. parts[part[n]] = judged(part[n]) /\ judged(part[n]) \in Seq(T)
    BY <1>1, <1>2, <1>3, <2>1
  <2>3. DOMAIN judged(part[n]) = 1..Len(judged(part[n]))
    BY <2>2, LenProperties
  <2>4. QED
    BY <1>1, <1>2, <2>1, <2>2, <2>3
<1>9. QED
  BY <1>4, <1>7, <1>8 DEF s

LEMMA OutInit == Init => OutInv
BY DEF Init, OutInv

LEMMA OutStep == DataInv /\ OutInv /\ [Next]_vars => OutInv'
<1> SUFFICES ASSUME DataInv, OutInv, [Next]_vars PROVE OutInv'
  OBVIOUS
<1>1. CASE Generate
  <2>1. PICK answer \in [DOMAIN candidates -> Answers] : scenarios' = Scenarios(answer)
    BY <1>1 DEF Generate
  <2>2. \A n \in DOMAIN scenarios' : IsJudged(scenarios'[n])
    BY <2>1, JudgedScenarios
  <2>3. phase = "paths" /\ phase' = "generated" /\ UNCHANGED <<candidates, input, approved>>
    BY <1>1 DEF Generate
  <2>4. (\A n \in DOMAIN scenarios : IsJudged(scenarios[n]))'
    BY <2>2, <2>3 DEF IsJudged
  <2>5. approved' = {}
    BY <2>3 DEF OutInv
  <2>6. QED
    BY <2>3, <2>4, <2>5 DEF OutInv
<1>2. CASE Review
  <2>1. /\ phase = "generated" /\ phase' = "reviewed" /\ approved' \subseteq DOMAIN scenarios
        /\ UNCHANGED <<scenarios, candidates, input>>
    BY <1>2 DEF Review
  <2>2. QED
    BY <2>1 DEF OutInv, IsJudged
<1>3. CASE Propose
  <2>1. /\ phase = "reviewed" /\ phase' = "done"
        /\ UNCHANGED <<scenarios, candidates, input, approved>>
    BY <1>3 DEF Propose
  <2>2. QED
    BY <2>1 DEF OutInv, IsJudged
<1>4. CASE Begin \/ OpenFetch \/ QueryPool \/ QueryStride \/ NextAsset \/ BuildPaths
             \/ FallBackToStubs \/ GenerateFails \/ Restart
  <2>1. /\ phase \notin {"generated", "reviewed", "done"}
        /\ phase' \notin {"generated", "reviewed", "done"}
        /\ UNCHANGED <<scenarios, approved>>
    BY <1>4 DEF Begin, OpenFetch, QueryPool, QueryStride, NextAsset, BuildPaths,
                FallBackToStubs, GenerateFails, Restart, outvars
  <2>2. scenarios' = <<>> /\ approved' = {}
    BY <2>1 DEF OutInv
  <2>3. DOMAIN scenarios' = {}
    BY <2>2
  <2>4. QED
    BY <2>1, <2>2, <2>3 DEF OutInv
<1>5. CASE Build \/ LoseDatabase \/ Probe \/ UNCHANGED vars
  <2>1. UNCHANGED <<phase, scenarios, approved, candidates, input>>
    BY <1>5 DEF Build, LoseDatabase, Probe, outvars, vars
  <2>2. QED
    BY <2>1 DEF OutInv, IsJudged
<1>6. QED
  BY <1>1, <1>2, <1>3, <1>4, <1>5 DEF Next, Analysis, Terminated

LEMMA PipelineInvariant == Spec => [](DataInv /\ OutInv)
<1>1. Init => DataInv /\ OutInv
  BY DataInit, OutInit
<1>2. DataInv /\ OutInv /\ [Next]_vars => DataInv' /\ OutInv'
  BY DataStep, OutStep
<1>3. QED
  BY <1>1, <1>2, PTL DEF Spec

(* Types; no asset has more than TopK candidates, or one pattern twice.    *)
THEOREM PipelineTypes == Spec => []TypeOK
<1>1. ASSUME DataInv, OutInv PROVE TypeOK
  <2>1. \A p \in DOMAIN kb : kb[p].source \in Sources /\ kb[p].stride \in Stride \cup {NoStride}
    BY <1>1 DEF DataInv, KnownTable, IsTable, Rows
  <2>2. /\ phase \in Phases /\ at \in 0..Len(AssetOrder)
        /\ {reachable, connected, tagged, stub} \subseteq BOOLEAN
    BY <1>1 DEF DataInv, FetchInv
  <2>3. ToSet(cats) \subseteq Stride
    BY <1>1, LenProperties, ElementOfSeq DEF DataInv, FetchInv, ToSet
  <2>4. /\ DOMAIN candidates = 1..Len(candidates)
        /\ \A i \in 1..Len(candidates) : candidates[i] \in Candidates(DOMAIN kb \cup {StubId})
    BY <1>1, LenProperties, ElementOfSeq DEF DataInv, CandidateInv
  <2>5. DOMAIN input = ToSet(AssetOrder)
    BY <1>1, PipelineAssumption DEF DataInv, PipelineAssumption
  <2>6. \A i \in DOMAIN candidates :
            /\ candidates[i].asset \in DOMAIN input /\ candidates[i].score \in 0..200
            /\ candidates[i].key \in Int /\ candidates[i].stride \in Stride \cup {NoStride}
    BY <2>4, <2>5 DEF Candidates
  <2>7. ASSUME NEW a \in DOMAIN input
        PROVE  LET own == {i \in DOMAIN candidates : candidates[i].asset = a}
               IN  /\ Cardinality(own) <= TopK
                   /\ \A i, j \in own : candidates[i].pid = candidates[j].pid => i = j
    BY <1>1, <2>5 DEF DataInv, CandidateInv, FewOf, OwnOf
  <2>8. /\ \A i \in DOMAIN scenarios :
            scenarios[i].path \in DOMAIN candidates /\ scenarios[i].passed \in BOOLEAN
        /\ approved \subseteq DOMAIN scenarios
    BY <1>1 DEF OutInv, IsJudged
  <2>9. QED
    BY <2>1, <2>2, <2>3, <2>6, <2>7, <2>8 DEF TypeOK
<1>2. QED
  BY <1>1, PipelineInvariant, PTL

(* The deterministic fallback passes the gate for every pattern the        *)
(* knowledge base can hold, for the stub, and for every asset with a word  *)
(* that the grounding check keeps.                                         *)
THEOREM FallbackAlwaysPasses == Spec => []FallbackPasses
<1>1. ASSUME DataInv, OutInv PROVE FallbackPasses
  <2> SUFFICES ASSUME NEW i \in DOMAIN scenarios, scenarios[i].by = "down",
                      LET asset == input[candidates[scenarios[i].path].asset]
                      IN  Words(asset.interfaces \cup {asset.trust_zone}) # {}
               PROVE  scenarios[i].passed
    BY DEF FallbackPasses
  <2> DEFINE c == candidates[scenarios[i].path]
  <2>1. /\ scenarios[i].path \in DOMAIN candidates
        /\ scenarios[i].passed = Passes(Fallback(c, input[c.asset]), c.pid, input)
    BY <1>1 DEF OutInv, IsJudged
  <2>2. c \in Candidates(DOMAIN kb \cup {StubId}) /\ IsPatternId(c.pid)
    BY <1>1, <2>1, CandidatePattern
  <2>3. input \in Inputs
    BY <1>1 DEF DataInv
  <2>4. Words(input[c.asset].interfaces \cup {input[c.asset].trust_zone}) # {}
    OBVIOUS
  <2> HIDE DEF c
  <2>5. Passes(Fallback(c, input[c.asset]), c.pid, input)
    BY <2>2, <2>3, <2>4, FallbackPassesGate
  <2>6. QED
    BY <2>1, <2>5 DEF c
<1>2. QED
  BY <1>1, PipelineInvariant, PTL

(* What passes the gate can resolve to the pattern of its path only: the   *)
(* gate compares the ends of ids, the lookup whole ids, and no id in use   *)
(* ends in another.                                                        *)
THEOREM GroundedResolves == Spec => []GroundedIsRetrieved
<1>1. ASSUME DataInv, OutInv PROVE GroundedIsRetrieved
  <2> SUFFICES ASSUME NEW i \in DOMAIN scenarios, scenarios[i].passed,
                      NEW q \in Variants(scenarios[i].item.ref) \cap DOMAIN kb
               PROVE  q = candidates[scenarios[i].path].pid
    BY DEF GroundedIsRetrieved
  <2> DEFINE ref == scenarios[i].item.ref
             p == candidates[scenarios[i].path].pid
  <2>1. /\ scenarios[i].path \in DOMAIN candidates
        /\ IsReference(ref) /\ RefMatches(ref, p)
    BY <1>1 DEF OutInv, IsJudged, Retrieved
  <2>2. p \in PatternIds /\ IsReference(p)
    BY <1>1, <2>1, CandidatePattern DEF IsPatternId, IsReference
  <2>3. q \in PatternIds /\ IsReference(q) /\ q \in Variants(ref)
    BY <1>1, KnownIds DEF DataInv
  <2> HIDE DEF ref, p
  <2>4. q = p
    BY <2>1, <2>2, <2>3, VariantsAgree
  <2>5. QED
    BY <2>4 DEF p
<1>2. QED
  BY <1>1, PipelineInvariant, PTL

(* An approved scenario that cites the pattern retrieved for it cites one  *)
(* that the table still holds, whatever was built since: a build adds and  *)
(* replaces rows, and takes none away.                                     *)
THEOREM CitedPatternsRemain == Spec => []CitedStaysKnown
<1>1. ASSUME DataInv, OutInv PROVE CitedStaysKnown
  <2> SUFFICES ASSUME NEW i \in approved, ~stub,
                      scenarios[i].item.ref = candidates[scenarios[i].path].pid
               PROVE  KbReferenceExists(kb, scenarios[i].item.ref)
    BY DEF CitedStaysKnown
  <2> DEFINE ref == scenarios[i].item.ref
  <2>1. scenarios[i].path \in DOMAIN candidates
    BY <1>1 DEF OutInv, IsJudged
  <2>2. ref \in DOMAIN kb /\ IsPatternId(ref)
    BY <1>1, <2>1, CandidatePattern
  <2>3. ref \in Variants(ref)
    BY <2>2, MatchesItself
  <2>4. QED
    BY <2>2, <2>3 DEF KbReferenceExists
<1>2. QED
  BY <1>1, PipelineInvariant, PTL
----------------------------------------------------------------------------
(* The STRIDE categories that have to reach the reviewer: those with a     *)
(* reserved place, and a pattern in the table that was consulted.  While   *)
(* one asset is fetched each of them has a row among its hits or a query   *)
(* still to come.                                                          *)
Wanted(table, a) ==
    LET implied == ImpliedStride(input[a])
        sources == QuerySources(input[a], tagged)
    IN  {c \in ToSet(implied) :
            /\ StrideSlots > 0 /\ Len(implied) <= TopK
            /\ UseRerank(PoolQuery(table, a, sources))
            /\ \E p \in DOMAIN table : table[p].source \in sources /\ table[p].stride = c}

ListsCover(table) ==
    \A i \in 1..Len(lists) : \A c \in Wanted(table, AssetOrder[i]) :
        \E n \in 1..Len(lists[i]) : lists[i][n].stride = c

HitsCover(table) ==
    /\ hits \in Seq(HitsOf(table, DOMAIN table))
    /\ \A c \in Wanted(table, Current) :
        /\ UseRerank(hits)
        /\ c \in ToSet(cats) \/ \E i \in 1..Len(hits) : hits[i].row.stride = c

CandidatesCover(table) ==
    \A a \in ToSet(AssetOrder) : \A c \in Wanted(table, a) :
        \E n \in 1..Len(candidates) : candidates[n].asset = a /\ candidates[n].stride = c

StrideInv ==
    /\ phase \in {"idle", "open"} => consulted = {}
    /\ consulted = {} => lists = <<>>
    /\ \A table \in consulted :
        /\ KnownTable(table)
        /\ consulted = {table} /\ ~stub =>
            /\ ListsCover(table)
            /\ phase = "stride" => HitsCover(table)
            /\ candidates # <<>> => CandidatesCover(table)

LEMMA WantedIs ==
    ASSUME NEW table, NEW a, NEW c \in Wanted(table, a)
    PROVE  LET sources == QuerySources(input[a], tagged)
           IN  /\ c \in ToSet(ImpliedStride(input[a]))
               /\ StrideSlots > 0 /\ Len(ImpliedStride(input[a])) <= TopK
               /\ UseRerank(PoolQuery(table, a, sources))
               /\ \E p \in DOMAIN table : table[p].source \in sources /\ table[p].stride = c
BY DEF Wanted

LEMMA CoverKept ==
    ASSUME NEW table, UNCHANGED <<tagged, input>>
    PROVE  /\ UNCHANGED lists /\ ListsCover(table) => ListsCover(table)'
           /\ UNCHANGED candidates /\ CandidatesCover(table) => CandidatesCover(table)'
           /\ UNCHANGED <<at, hits, cats>> /\ HitsCover(table) => HitsCover(table)'
<1>1. \A a : Wanted(table, a)' = Wanted(table, a)
  BY DEF Wanted
<1>2. UNCHANGED lists /\ ListsCover(table) => ListsCover(table)'
  BY <1>1, SMTT(60) DEF ListsCover
<1>3. UNCHANGED candidates /\ CandidatesCover(table) => CandidatesCover(table)'
  BY <1>1 DEF CandidatesCover
<1>4. UNCHANGED <<at, hits, cats>> /\ HitsCover(table) => HitsCover(table)'
  BY <1>1 DEF HitsCover, Current
<1>5. QED
  BY <1>2, <1>3, <1>4

LEMMA StrideQueryPool == DataInv /\ ConsultInv /\ StrideInv /\ QueryPool => StrideInv'
<1> SUFFICES ASSUME DataInv, ConsultInv, StrideInv, QueryPool PROVE StrideInv'
  OBVIOUS
<1> DEFINE rows == PoolQuery(kb, Current, CurrentSources)
<1>1. /\ phase = "pool" /\ phase' = "stride" /\ consulted' = consulted \cup {kb}
      /\ hits' = Pool(rows)
      /\ cats' = IF UseRerank(rows) /\ StrideSlots > 0 THEN ImpliedStride(input[Current]) ELSE <<>>
      /\ UNCHANGED <<kb, tagged, at, lists, input, candidates, stub>>
  BY DEF QueryPool, kbvars
<1>2. Current \in ToSet(AssetOrder) /\ KnownTable(kb)
  BY <1>1, CurrentAsset DEF DataInv
<1>3. rows \in Seq(HitsOf(kb, DOMAIN kb)) /\ OnePerPid(rows)
  BY <1>2, PoolQueryProperties
<1>4. candidates' = <<>>
  BY <1>1 DEF ConsultInv
<1>5. \A table \in consulted' : KnownTable(table)
  BY <1>1, <1>2 DEF StrideInv
<1>6. UNCHANGED Current /\ \A table, a : Wanted(table, a)' = Wanted(table, a)
  BY <1>1 DEF Current, Wanted
<1>7. ASSUME consulted' = {kb}, ~stub PROVE ListsCover(kb)'
  <2>1. CASE consulted = {}
    <3>1. lists' = <<>>
      BY <1>1, <2>1 DEF StrideInv
    <3>2. QED
      BY <3>1 DEF ListsCover
  <2>2. CASE consulted # {}
    <3>1. consulted = {kb}
      BY <1>1, <1>7, <2>2
    <3>2. ListsCover(kb)
      BY <1>7, <3>1 DEF StrideInv
    <3>3. QED
      BY <1>1, <3>2, CoverKept
  <2>3. QED
    BY <2>1, <2>2
<1>8. HitsCover(kb)'
  <2>1. hits' \in Seq(HitsOf(kb, DOMAIN kb))
    BY <1>1, <1>3, PoolProperties
  <2>2. ASSUME NEW c \in Wanted(kb, Current)
        PROVE  UseRerank(hits') /\ c \in ToSet(cats')
    <3>1. UseRerank(rows) /\ StrideSlots > 0 /\ c \in ToSet(ImpliedStride(input[Current]))
      BY WantedIs DEF CurrentSources
    <3>2. hits' = rows
      BY <1>1, <3>1 DEF Pool
    <3>3. QED
      BY <1>1, <3>1, <3>2
  <2>3. QED
    BY <1>1, <1>6, <2>1, <2>2 DEF HitsCover
<1>9. \A table \in consulted' : consulted' = {table} => table = kb
  BY <1>1
<1>10. QED
  BY <1>1, <1>4, <1>5, <1>7, <1>8, <1>9 DEF StrideInv

LEMMA StrideQueryStride == DataInv /\ ConsultInv /\ StrideInv /\ QueryStride => StrideInv'
<1> SUFFICES ASSUME DataInv, ConsultInv, StrideInv, QueryStride PROVE StrideInv'
  OBVIOUS
<1> DEFINE category == Head(cats)
           rows == StrideQuery(kb, Current, CurrentSources, category)
<1>1. /\ phase = "stride" /\ phase' = "stride" /\ consulted' = consulted \cup {kb}
      /\ cats # <<>> /\ hits' = AddNew(hits, rows) /\ cats' = Tail(cats)
      /\ UNCHANGED <<kb, tagged, at, lists, input, candidates, stub>>
  BY DEF QueryStride, kbvars
<1>2. Current \in ToSet(AssetOrder) /\ KnownTable(kb)
  BY <1>1, CurrentAsset DEF DataInv
<1>3. /\ rows \in Seq(HitsOf(kb, DOMAIN kb)) /\ OnePerPid(rows)
      /\ \A i \in 1..Len(rows) : rows[i].row.stride = category
      /\ (StrideSlots > 0 /\ \E p \in DOMAIN kb : kb[p].source \in CurrentSources
                                                   /\ kb[p].stride = category)
            => Len(rows) > 0
  BY <1>2, StrideQueryProperties
<1> HIDE DEF rows
<1>4. candidates' = <<>> /\ consulted # {}
  BY <1>1 DEF ConsultInv
<1>5. \A table \in consulted' : KnownTable(table)
  BY <1>1, <1>2 DEF StrideInv
<1>6. UNCHANGED Current /\ \A table, a : Wanted(table, a)' = Wanted(table, a)
  BY <1>1 DEF Current, Wanted
<1>7. cats \in Seq(Stride) /\ OnePerPid(hits)
  BY DEF DataInv, FetchInv
<1>8. ASSUME consulted' = {kb}, ~stub PROVE ListsCover(kb)' /\ HitsCover(kb)'
  <2>1. consulted = {kb}
    BY <1>1, <1>4, <1>8
  <2>2. ListsCover(kb) /\ HitsCover(kb)
    BY <1>1, <1>8, <2>1 DEF StrideInv
  <2>3. ListsCover(kb)'
    BY <1>1, <2>2, CoverKept
  <2>4. hits \in Seq(HitsOf(kb, DOMAIN kb))
    BY <2>2 DEF HitsCover
  <2>5. /\ hits' \in Seq(HitsOf(kb, DOMAIN kb)) /\ OnePerPid(hits')
        /\ \A i \in 1..Len(hits) : i \in 1..Len(hits') /\ hits'[i] = hits[i]
        /\ \A n \in 1..Len(rows) : \E i \in 1..Len(hits') :
                hits'[i].pid = rows[n].pid /\ (hits'[i] = rows[n] \/ i \in 1..Len(hits))
    <3> DEFINE more == AddNew(hits, rows)
    <3>1. /\ more \in Seq(HitsOf(kb, DOMAIN kb)) /\ OnePerPid(more)
          /\ \A i \in 1..Len(hits) : i \in 1..Len(more) /\ more[i] = hits[i]
          /\ \A n \in 1..Len(rows) : \E i \in 1..Len(more) :
                more[i].pid = rows[n].pid /\ (more[i] = rows[n] \/ i \in 1..Len(hits))
      BY <1>3, <1>7, <2>4, AddNewProperties
    <3>2. hits' = more
      BY <1>1
    <3> HIDE DEF more
    <3>3. QED
      BY <3>1, <3>2
  <2>6. ASSUME NEW c \in Wanted(kb, Current)
        PROVE  /\ UseRerank(hits')
               /\ c \in ToSet(cats') \/ \E i \in 1..Len(hits') : hits'[i].row.stride = c
    <3>1. /\ UseRerank(hits)
          /\ c \in ToSet(cats) \/ \E i \in 1..Len(hits) : hits[i].row.stride = c
      BY <2>2 DEF HitsCover
    <3>2. UseRerank(hits')
      <4>1. DOMAIN hits = 1..Len(hits) /\ DOMAIN hits' = 1..Len(hits')
        BY <2>4, <2>5, LenProperties
      <4>2. QED
        BY <2>5, <3>1, <4>1 DEF UseRerank
    <3>3. CASE \E i \in 1..Len(hits) : hits[i].row.stride = c
      BY <2>5, <3>2, <3>3
    <3>4. CASE c = category
      <4>1. Len(rows) > 0 /\ Len(rows) \in Nat
        <5>1. /\ StrideSlots > 0
              /\ \E p \in DOMAIN kb : kb[p].source \in CurrentSources /\ kb[p].stride = c
          BY WantedIs DEF CurrentSources
        <5>2. QED
          BY <1>3, <3>4, <5>1, LenProperties
      <4>2. PICK i \in 1..Len(hits') : hits'[i].pid = rows[1].pid
        BY <2>5, <4>1
      <4>3. hits'[i] \in HitsOf(kb, DOMAIN kb) /\ rows[1] \in HitsOf(kb, DOMAIN kb)
        BY <1>3, <2>5, <4>1, <4>2, ElementOfSeq
      <4>4. \A h \in HitsOf(kb, DOMAIN kb) : h.row = kb[h.pid]
        BY DEF HitsOf
      <4>5. hits'[i].row = rows[1].row
        BY <4>2, <4>3, <4>4
      <4>6. hits'[i].row.stride = c
        BY <1>3, <3>4, <4>1, <4>5
      <4>7. QED
        BY <3>2, <4>2, <4>6
    <3>5. CASE c \in ToSet(cats) /\ c # category
      <4>1. PICK k \in 1..Len(cats) : cats[k] = c
        BY <1>7, <3>5, LenProperties DEF ToSet
      <4>2. /\ Len(cats) \in Nat /\ Tail(cats) \in Seq(Stride)
            /\ Len(Tail(cats)) = Len(cats) - 1 /\ category = cats[1]
            /\ \A m \in 1..Len(Tail(cats)) : Tail(cats)[m] = cats[m + 1]
        BY <1>1, <1>7, HeadTailProperties, LenProperties
      <4>3. k - 1 \in 1..Len(Tail(cats)) /\ (k - 1) + 1 = k
        BY <3>5, <4>1, <4>2
      <4>4. Tail(cats)[k - 1] = c /\ DOMAIN Tail(cats) = 1..Len(Tail(cats))
        BY <4>1, <4>2, <4>3, LenProperties
      <4>5. c \in ToSet(Tail(cats))
        BY <4>3, <4>4 DEF ToSet
      <4>6. QED
        BY <1>1, <3>2, <4>5
    <3>6. QED
      BY <3>1, <3>3, <3>4, <3>5
  <2>7. HitsCover(kb)'
    BY <1>1, <1>6, <2>5, <2>6 DEF HitsCover
  <2>8. QED
    BY <2>3, <2>7
<1>9. \A table \in consulted' : consulted' = {table} => table = kb
  BY <1>1
<1>10. QED
  BY <1>1, <1>4, <1>5, <1>8, <1>9 DEF StrideInv

LEMMA StrideNextAsset == DataInv /\ ConsultInv /\ StrideInv /\ NextAsset => StrideInv'
<1> SUFFICES ASSUME DataInv, ConsultInv, StrideInv, NextAsset PROVE StrideInv'
  OBVIOUS
<1> DEFINE l == AssetCandidates(input[Current], Current, hits)
<1>1. /\ phase = "stride" /\ phase' \in {"fetched", "pool"} /\ cats = <<>>
      /\ lists' = Append(lists, l)
      /\ UNCHANGED <<consulted, tagged, input, candidates, stub>>
  BY DEF NextAsset
<1>2. /\ Current \in ToSet(AssetOrder) /\ input[Current] \in Asset /\ at \in 1..Len(AssetOrder)
      /\ Len(AssetOrder) \in Nat
  BY <1>1, CurrentAsset
<1>3. /\ hits \in Seq(Hits(DOMAIN kb)) /\ OnePerPid(hits) /\ Len(lists) = at - 1
      /\ lists \in Seq(Seq(Candidates(DOMAIN kb)))
  BY <1>1 DEF DataInv, FetchInv, IsLists
<1>4. l \in Seq(Candidates(DOMAIN kb))
  BY <1>2, <1>3, AssetCandidatesType
<1>5. candidates' = <<>> /\ consulted' # {}
  BY <1>1 DEF ConsultInv
<1>6. \A table, a : Wanted(table, a)' = Wanted(table, a)
  BY <1>1 DEF Wanted
<1>7. ASSUME NEW table \in consulted, consulted = {table}, ~stub PROVE ListsCover(table)'
  <2>1. ListsCover(table) /\ HitsCover(table)
    BY <1>1, <1>7 DEF StrideInv
  <2>2. ASSUME NEW c \in Wanted(table, Current)
        PROVE  \E n \in 1..Len(l) : l[n].stride = c
    <3>1. UseRerank(hits) /\ (c \in ToSet(cats) \/ \E i \in 1..Len(hits) : hits[i].row.stride = c)
      BY <2>1 DEF HitsCover
    <3>2. ToSet(cats) = {}
      BY <1>1 DEF ToSet
    <3>3. PICK i \in 1..Len(hits) : hits[i].row.stride = c
      BY <3>1, <3>2
    <3>4. /\ StrideSlots > 0 /\ Len(ImpliedStride(input[Current])) <= TopK
          /\ c \in ToSet(ImpliedStride(input[Current]))
      BY WantedIs
    <3>5. QED
      BY <1>2, <1>3, <3>1, <3>3, <3>4, AssetCandidatesCover
  <2> HIDE DEF l
  <2>3. /\ Len(lists') = at /\ lists'[at] = l
        /\ \A i \in 1..(at - 1) : lists'[i] = lists[i]
    <3>1. /\ Len(Append(lists, l)) = Len(lists) + 1
          /\ \A i \in 1..Len(lists) : Append(lists, l)[i] = lists[i]
          /\ Append(lists, l)[Len(lists) + 1] = l
      BY <1>3, <1>4, AppendProperties
    <3>2. Len(lists) + 1 = at
      BY <1>2, <1>3
    <3>3. QED
      BY <1>1, <1>3, <3>1, <3>2
  <2>4. ASSUME NEW i \in 1..Len(lists'), NEW c \in Wanted(table, AssetOrder[i])
        PROVE  \E n \in 1..Len(lists'[i]) : lists'[i][n].stride = c
    <3>1. CASE i = at
      <4>1. c \in Wanted(table, Current)
        BY <2>4, <3>1 DEF Current
      <4>2. QED
        BY <2>2, <2>3, <3>1, <4>1
    <3>2. CASE i # at
      <4>1. i \in 1..(at - 1) /\ i \in 1..Len(lists)
        BY <1>2, <1>3, <2>3, <3>2
      <4>2. lists'[i] = lists[i]
        BY <2>3, <4>1
      <4>3. \E n \in 1..Len(lists[i]) : lists[i][n].stride = c
        BY <2>1, <2>4, <4>1 DEF ListsCover
      <4>4. QED
        BY <4>2, <4>3
    <3>3. QED
      BY <3>1, <3>2
  <2>5. QED
    BY <1>6, <2>4 DEF ListsCover
<1>8. QED
  BY <1>1, <1>5, <1>7 DEF StrideInv

LEMMA StrideBuildPaths == DataInv /\ ConsultInv /\ StrideInv /\ BuildPaths => StrideInv'
<1> SUFFICES ASSUME DataInv, ConsultInv, StrideInv, BuildPaths PROVE StrideInv'
  OBVIOUS
<1>1. /\ phase = "fetched" /\ phase' \in {"failed", "paths"} /\ lists' = <<>>
      /\ candidates' = candidates \/ candidates' = FinalList(lists)
      /\ UNCHANGED <<consulted, tagged, input, stub>>
  BY DEF BuildPaths
<1>2. candidates = <<>>
  BY <1>1 DEF ConsultInv
<1>3. \A table, a : Wanted(table, a)' = Wanted(table, a)
  BY <1>1 DEF Wanted
<1>4. \A table : ListsCover(table)'
  BY <1>1 DEF ListsCover
<1>5. IsLists(lists, DOMAIN kb) /\ Len(lists) = Len(AssetOrder)
  BY <1>1 DEF DataInv, FetchInv
<1>6. ASSUME NEW table \in consulted, consulted = {table}, ~stub, candidates' # <<>>
      PROVE  CandidatesCover(table)'
  <2>1. candidates' = FinalList(lists)
    BY <1>1, <1>2, <1>6
  <2>2. ListsCover(table)
    BY <1>6 DEF StrideInv
  <2>3. \A i \in 1..Len(lists) : \A n \in 1..Len(lists[i]) :
            \E m \in 1..Len(candidates') : candidates'[m] = lists[i][n]
    BY <1>5, <2>1, FinalListProperties, SMTT(60)
  <2>4. ASSUME NEW a \in ToSet(AssetOrder), NEW c \in Wanted(table, a)
        PROVE  \E m \in 1..Len(candidates') :
                    candidates'[m].asset = a /\ candidates'[m].stride = c
    <3>1. PICK i \in 1..Len(AssetOrder) : AssetOrder[i] = a
      BY PipelineAssumption, LenProperties DEF PipelineAssumption, ToSet
    <3>2. c \in Wanted(table, AssetOrder[i])
      BY <2>4, <3>1
    <3>3. PICK n \in 1..Len(lists[i]) : lists[i][n].stride = c
      BY <1>5, <2>2, <3>2 DEF ListsCover
    <3>4. lists[i][n].asset = a
      BY <1>5, <3>1, <3>3 DEF IsLists
    <3>5. PICK m \in 1..Len(candidates') : candidates'[m] = lists[i][n]
      BY <1>5, <2>3, <3>1, <3>3
    <3>6. QED
      BY <3>3, <3>4, <3>5
  <2>5. QED
    BY <1>3, <2>4 DEF CandidatesCover
<1>7. QED
  BY <1>1, <1>4, <1>6 DEF StrideInv

LEMMA StrideStep == DataInv /\ ConsultInv /\ StrideInv /\ [Next]_vars => StrideInv'
<1> SUFFICES ASSUME DataInv, ConsultInv, StrideInv, [Next]_vars PROVE StrideInv'
  OBVIOUS
<1>1. CASE Begin \/ OpenFetch
  <2>1. /\ phase \in {"idle", "open"} /\ UNCHANGED <<consulted, lists>>
    BY <1>1 DEF Begin, OpenFetch, fetchvars
  <2>2. consulted' = {} /\ lists' = <<>>
    BY <2>1 DEF StrideInv
  <2>3. QED
    BY <2>2 DEF StrideInv
<1>2. CASE QueryPool
  BY <1>2, StrideQueryPool
<1>3. CASE QueryStride
  BY <1>3, StrideQueryStride
<1>4. CASE NextAsset
  BY <1>4, StrideNextAsset
<1>5. CASE BuildPaths
  BY <1>5, StrideBuildPaths
<1>6. CASE FallBackToStubs
  <2>1. stub' = TRUE /\ lists' = <<>> /\ phase' = "paths" /\ UNCHANGED consulted
    BY <1>6 DEF FallBackToStubs
  <2>2. QED
    BY <2>1 DEF StrideInv
<1>7. CASE Generate \/ GenerateFails \/ Review \/ Propose
  <2>1. /\ phase' \in {"generated", "failed", "reviewed", "done"}
        /\ UNCHANGED <<consulted, lists, tagged, input, candidates, stub>>
    BY <1>7 DEF Generate, GenerateFails, Review, Propose, fetchvars
  <2>2. QED
    BY <2>1, CoverKept DEF StrideInv
<1>8. CASE Build \/ LoseDatabase \/ Probe \/ UNCHANGED vars
  <2>1. UNCHANGED <<phase, consulted, lists, hits, cats, at, tagged, input, candidates, stub>>
    BY <1>8 DEF Build, LoseDatabase, Probe, fetchvars, outvars, vars
  <2>2. QED
    BY <2>1, CoverKept DEF StrideInv
<1>9. CASE Restart
  <2>1. /\ phase' = (IF phase = "idle" THEN phase ELSE "failed") /\ candidates' = <<>>
        /\ UNCHANGED <<consulted, lists, tagged, input, stub>>
    BY <1>9 DEF Restart
  <2>2. QED
    BY <2>1, CoverKept DEF StrideInv
<1>10. QED
  BY <1>1, <1>2, <1>3, <1>4, <1>5, <1>6, <1>7, <1>8, <1>9 DEF Next, Analysis, Terminated

(* With slots reserved and places for all categories, every implied STRIDE *)
(* category that the one consulted content has a pattern for is among the  *)
(* candidates of its asset: neither the turns of the reserved places, nor  *)
(* the second sort by score, nor a cut at TopK loses its only match.       *)
THEOREM StrideAlwaysReachesReview == Spec => []StrideReachesReview
<1>1. Init => StrideInv
  BY DEF Init, StrideInv
<1>2. ASSUME DataInv, StrideInv PROVE StrideReachesReview
  <2> SUFFICES ASSUME NEW table \in consulted, consulted = {table}, ~stub, candidates # <<>>,
                      NEW a \in DOMAIN input,
                      StrideSlots > 0, Len(ImpliedStride(input[a])) <= TopK,
                      UseRerank(PoolQuery(table, a, QuerySources(input[a], tagged))),
                      NEW c \in ToSet(ImpliedStride(input[a])),
                      \E p \in DOMAIN table : /\ table[p].source \in QuerySources(input[a], tagged)
                                              /\ table[p].stride = c
               PROVE  \E n \in DOMAIN candidates :
                        candidates[n].asset = a /\ candidates[n].stride = c
    BY DEF StrideReachesReview
  <2>1. CandidatesCover(table)
    BY <1>2 DEF StrideInv
  <2>2. c \in Wanted(table, a)
    BY DEF Wanted
  <2>3. a \in ToSet(AssetOrder)
    BY <1>2, PipelineAssumption DEF DataInv, PipelineAssumption
  <2>4. DOMAIN candidates = 1..Len(candidates)
    BY <1>2, LenProperties DEF DataInv, CandidateInv
  <2>5. QED
    BY <2>1, <2>2, <2>3, <2>4 DEF CandidatesCover
<1>3. Init => DataInv /\ ConsultInv /\ StrideInv
  BY <1>1, DataInit, ConsultInit
<1>4. DataInv /\ ConsultInv /\ StrideInv /\ [Next]_vars => DataInv' /\ ConsultInv' /\ StrideInv'
  BY DataStep, ConsultStep, StrideStep
<1>5. QED
  BY <1>2, <1>3, <1>4, PTL DEF Spec
----------------------------------------------------------------------------
(* The chains: of the walks that begin with a link, a longest one ends as  *)
(* walk() does, and no other walk contains it.                             *)
LEMMA WalkShape ==
    ASSUME NEW threats, NEW surfaces, NEW w \in Walks(threats, surfaces)
    PROVE  /\ Len(w) \in 1..MaxSteps
           /\ w \in [1..Len(w) -> DOMAIN threats]
           /\ w \in Seq(DOMAIN threats)
<1>1. PICK n \in 1..MaxSteps : w \in [1..n -> DOMAIN threats]
  BY DEF Walks
<1>2. n \in Nat
  BY <1>1, ChainsAssumption DEF ChainsAssumption
<1>3. w \in Seq(DOMAIN threats) /\ Len(w) = n
  BY <1>1, <1>2
<1>4. QED
  BY <1>1, <1>3

LEMMA LongerWalk ==
    ASSUME NEW threats, NEW surfaces, NEW w \in Walks(threats, surfaces),
           Len(w) < MaxSteps, NEW k \in Following(threats, surfaces, Last(w)), k \notin ToSet(w)
    PROVE  Append(w, k) \in Walks(threats, surfaces)
<1> DEFINE n == Len(w)
           v == Append(w, k)
<1>1. n \in 1..MaxSteps /\ w \in [1..n -> DOMAIN threats] /\ w \in Seq(DOMAIN threats)
  BY WalkShape
<1>2. MaxSteps \in Nat
  BY ChainsAssumption DEF ChainsAssumption
<1>3. k \in DOMAIN threats
  BY DEF Following
<1>4. n + 1 \in 1..MaxSteps
  BY <1>1, <1>2
<1>5. /\ v \in [1..(n + 1) -> DOMAIN threats]
      /\ Len(v) = n + 1 /\ DOMAIN v = 1..(n + 1)
      /\ v[n + 1] = k /\ \A i \in 1..n : v[i] = w[i]
  <2>1. /\ v \in Seq(DOMAIN threats) /\ Len(v) = n + 1 /\ v[n + 1] = k
        /\ \A i \in 1..n : v[i] = w[i]
    BY <1>1, <1>3, AppendProperties
  <2>2. DOMAIN v = 1..Len(v) /\ v \in [1..Len(v) -> DOMAIN threats]
    BY <2>1, LenProperties
  <2>3. QED
    BY <2>1, <2>2
<1>6. DOMAIN w = 1..n /\ \A i \in 1..n : w[i] # k
  BY <1>1 DEF ToSet
<1>7. /\ \A i, j \in DOMAIN w : w[i] = w[j] => i = j
      /\ \A i \in 1..(n - 1) : w[i + 1] \in Following(threats, surfaces, w[i])
  BY DEF Walks
<1> HIDE DEF v, n
<1>8. \A i, j \in DOMAIN v : v[i] = v[j] => i = j
  <2>1. ASSUME NEW i \in 1..(n + 1), NEW j \in 1..(n + 1), v[i] = v[j] PROVE i = j
    <3>1. CASE i \in 1..n /\ j \in 1..n
      BY <2>1, <3>1, <1>5, <1>6, <1>7
    <3>2. CASE i = n + 1 /\ j \in 1..n
      BY <2>1, <3>2, <1>5, <1>6
    <3>3. CASE i \in 1..n /\ j = n + 1
      BY <2>1, <3>3, <1>5, <1>6
    <3>4. QED
      BY <1>1, <1>2, <2>1, <3>1, <3>2, <3>3
  <2>2. QED
    BY <2>1, <1>5
<1>9. \A i \in 1..(Len(v) - 1) : v[i + 1] \in Following(threats, surfaces, v[i])
  <2>1. ASSUME NEW i \in 1..n PROVE v[i + 1] \in Following(threats, surfaces, v[i])
    <3>1. CASE i = n
      BY <1>1, <1>5, <3>1 DEF Last, n
    <3>2. CASE i # n
      <4>1. i \in 1..(n - 1) /\ i + 1 \in 1..n
        BY <1>1, <1>2, <3>2
      <4>2. v[i + 1] = w[i + 1] /\ v[i] = w[i]
        BY <4>1, <1>5
      <4>3. QED
        BY <4>1, <4>2, <1>7
    <3>3. QED
      BY <3>1, <3>2
  <2>2. Len(v) - 1 = n
    BY <1>1, <1>2, <1>5
  <2>3. QED
    BY <2>1, <2>2
<1>10. v \in UNION {[1..m -> DOMAIN threats] : m \in 1..MaxSteps}
  BY <1>4, <1>5
<1>11. v \in Walks(threats, surfaces)
  BY <1>8, <1>9, <1>10 DEF Walks
<1>12. QED
  BY <1>11 DEF v

LEMMA LinkCovered ==
    ASSUME NEW threats, NEW surfaces, NEW i \in DOMAIN threats,
           NEW j \in Following(threats, surfaces, i)
    PROVE  \E c \in ProposeChains(threats, surfaces) :
                Len(c) >= 2 /\ c[1] = i /\ c[2] = j
<1> DEFINE W == Walks(threats, surfaces)
           FromLink(w) == Len(w) >= 2 /\ w[1] = i /\ w[2] = j
           L == {n \in 1..MaxSteps : \E w \in W : Len(w) = n /\ FromLink(w)}
           Reported == {w \in W : Len(w) >= 2 /\ Ends(threats, surfaces, w)}
<1>1. MaxSteps \in Nat /\ 2 \in 1..MaxSteps
  BY ChainsAssumption DEF ChainsAssumption
<1>2. j \in DOMAIN threats /\ j # i
  BY DEF Following
<1>3. <<i, j>> \in W
  <2>1. <<i, j>> \in [1..2 -> DOMAIN threats]
    BY <1>2
  <2>2. <<i, j>> \in UNION {[1..n -> DOMAIN threats] : n \in 1..MaxSteps}
    BY <1>1, <2>1
  <2>3. \A m, n \in DOMAIN <<i, j>> : <<i, j>>[m] = <<i, j>>[n] => m = n
    BY <1>2
  <2>4. \A m \in 1..(Len(<<i, j>>) - 1) :
            <<i, j>>[m + 1] \in Following(threats, surfaces, <<i, j>>[m])
    OBVIOUS
  <2>5. QED
    BY <2>2, <2>3, <2>4 DEF Walks
<1>4. Len(<<i, j>>) = 2 /\ <<i, j>>[1] = i /\ <<i, j>>[2] = j
  OBVIOUS
<1>5. 2 \in L
  BY <1>1, <1>3, <1>4
<1>6. PICK n \in L : \A m \in L : m <= n
  <2> HIDE DEF W, FromLink
  <2>1. L \in SUBSET (1..MaxSteps) /\ L # {}
    BY <1>5
  <2> HIDE DEF L
  <2>2. QED
    BY <1>1, <2>1, LargestIndex
<1>7. PICK w \in W : Len(w) = n /\ FromLink(w)
  BY <1>6
<1> HIDE DEF W
<1>8. \A v \in W : /\ Len(v) \in 1..MaxSteps
                   /\ v \in [1..Len(v) -> DOMAIN threats]
                   /\ v \in Seq(DOMAIN threats)
  BY WalkShape DEF W
<1>9. \A v \in W : FromLink(v) => Len(v) <= n
  BY <1>6, <1>8
<1>10. Ends(threats, surfaces, w)
  <2> SUFFICES ASSUME ~ Ends(threats, surfaces, w) PROVE FALSE
    OBVIOUS
  <2>1. Len(w) # MaxSteps /\ Len(w) < MaxSteps
    BY <1>1, <1>8 DEF Ends
  <2>2. PICK k \in Following(threats, surfaces, Last(w)) : k \notin ToSet(w)
    BY DEF Ends
  <2>3. Append(w, k) \in W
    BY <2>1, <2>2, LongerWalk DEF W
  <2>4. k \in DOMAIN threats
    BY DEF Following
  <2>5. Len(Append(w, k)) = n + 1 /\ FromLink(Append(w, k))
    <3>1. /\ Len(Append(w, k)) = Len(w) + 1
          /\ \A m \in 1..Len(w) : Append(w, k)[m] = w[m]
      BY <1>8, <2>4, AppendProperties
    <3>2. Len(w) \in Nat /\ Len(w) >= 2
      BY <1>1, <1>7, <1>8
    <3>3. 1 \in 1..Len(w) /\ 2 \in 1..Len(w)
      BY <3>2
    <3>4. QED
      BY <1>7, <3>1, <3>2, <3>3
  <2>6. n + 1 <= n
    BY <1>9, <2>3, <2>5
  <2>7. QED
    BY <1>1, <1>6, <2>6
<1>11. w \in Reported
  BY <1>7, <1>10
<1>12. ASSUME NEW d \in Reported, IsStrictPrefix(w, d) PROVE FALSE
  <2>1. d \in W /\ w # d /\ Len(w) <= Len(d) /\ SubSeq(w, 1, Len(w)) = SubSeq(d, 1, Len(w))
    BY <1>12 DEF IsStrictPrefix, IsPrefix
  <2>2. /\ Len(w) \in Nat /\ Len(d) \in Nat /\ Len(w) >= 2
        /\ w \in [1..Len(w) -> DOMAIN threats] /\ d \in [1..Len(d) -> DOMAIN threats]
        /\ w \in Seq(DOMAIN threats) /\ d \in Seq(DOMAIN threats)
    BY <1>7, <1>8, <2>1
  <2>3. \A m \in 1..Len(w) : SubSeq(w, 1, Len(w))[m] = w[m]
    BY <2>2, SubSeqFull
  <2>4. \A m \in 1..Len(w) : SubSeq(d, 1, Len(w))[m] = d[m]
    <3>1. \A m \in 1..Len(w) : d[m] \in DOMAIN threats
      BY <2>1, <2>2
    <3>2. \A m \in 1..(Len(w) - 1 + 1) : SubSeq(d, 1, Len(w))[m] = d[1 + m - 1]
      BY <2>2, <3>1, SubSeqProperties
    <3>3. QED
      BY <2>2, <3>2
  <2>5. \A m \in 1..Len(w) : d[m] = w[m]
    BY <2>1, <2>3, <2>4
  <2>6. FromLink(d)
    <3>1. 1 \in 1..Len(w) /\ 2 \in 1..Len(w)
      BY <2>2
    <3>2. d[1] = i /\ d[2] = j
      BY <1>7, <2>5, <3>1
    <3>3. QED
      BY <2>1, <2>2, <3>2
  <2>7. Len(d) = Len(w)
    <3>1. Len(d) <= n
      BY <1>9, <2>1, <2>6
    <3>2. Len(w) = n
      BY <1>7
    <3> HIDE DEF L, W, FromLink, Reported
    <3>3. QED
      BY <2>1, <2>2, <3>1, <3>2
  <2>8. w = d
    BY <2>2, <2>5, <2>7, SeqEqual
  <2>9. QED
    BY <2>1, <2>8
<1>13. w \in DropContained(Reported)
  BY <1>11, <1>12 DEF DropContained
<1>14. QED
  BY <1>7, <1>13 DEF ProposeChains, W

(* The chains of a finished analysis are those proposed for the approved   *)
(* scenarios: nothing that they are computed from changes after that.      *)
ChainsInv == phase = "done" => chains = ProposeChains(Threats, Surfaces)

LEMMA ChainsStep == ChainsInv /\ [Next]_vars => ChainsInv'
<1> SUFFICES ASSUME ChainsInv, [Next]_vars PROVE ChainsInv'
  OBVIOUS
<1> USE DEF ChainsInv
<1>1. ASSUME UNCHANGED <<scenarios, approved, input>>
      PROVE  Threats' = Threats /\ Surfaces' = Surfaces
  BY <1>1 DEF Threats, Surfaces, Ordered
<1>2. CASE Propose
  <2>1. UNCHANGED <<scenarios, approved, input>> /\ chains' = ProposeChains(Threats, Surfaces)
    BY <1>2 DEF Propose
  <2>2. QED
    BY <1>1, <2>1
<1>3. CASE Begin \/ OpenFetch \/ QueryPool \/ QueryStride \/ NextAsset \/ BuildPaths
           \/ FallBackToStubs \/ Generate \/ GenerateFails \/ Review
  <2>1. phase' # "done"
    BY <1>3 DEF Begin, OpenFetch, QueryPool, QueryStride, NextAsset, BuildPaths,
                FallBackToStubs, Generate, GenerateFails, Review
  <2>2. QED
    BY <2>1
<1>4. CASE Restart \/ LoseDatabase
  <2>1. phase' # "done"
    BY <1>4 DEF Restart, LoseDatabase
  <2>2. QED
    BY <2>1
<1>5. CASE Build \/ Probe \/ UNCHANGED vars
  <2>1. UNCHANGED <<scenarios, approved, input, chains, phase>>
    BY <1>5 DEF Build, Probe, vars, outvars
  <2>2. QED
    BY <1>1, <2>1
<1>6. QED
  BY <1>2, <1>3, <1>4, <1>5 DEF Next, Analysis, Terminated

(* Every pair of approved threats of which one can enable the other is a   *)
(* step of some proposed chain.                                            *)
THEOREM ChainsCoverLinks == Spec => []ChainsCoverEveryLink
<1>1. Init => ChainsInv
  BY DEF Init, ChainsInv
<1>2. ChainsInv => ChainsCoverEveryLink
  <2> SUFFICES ASSUME ChainsInv, phase = "done", NEW i \in DOMAIN Threats,
                      NEW j \in Following(Threats, Surfaces, i)
               PROVE  \E c \in chains : \E n \in 1..(Len(c) - 1) : c[n] = i /\ c[n + 1] = j
    BY DEF ChainsCoverEveryLink
  <2>1. PICK c \in ProposeChains(Threats, Surfaces) : Len(c) >= 2 /\ c[1] = i /\ c[2] = j
    BY LinkCovered
  <2>2. c \in Walks(Threats, Surfaces)
    BY DEF ProposeChains, DropContained
  <2>3. Len(c) \in Nat
    BY <2>2, WalkShape, ChainsAssumption DEF ChainsAssumption
  <2>4. 1 \in 1..(Len(c) - 1) /\ c[1] = i /\ c[1 + 1] = j
    BY <2>1, <2>3
  <2>5. c \in chains
    BY <2>1 DEF ChainsInv
  <2>6. QED
    BY <2>4, <2>5
<1>3. QED
  BY <1>1, <1>2, ChainsStep, PTL DEF Spec
=============================================================================
