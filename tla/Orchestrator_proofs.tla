------------------------- MODULE Orchestrator_proofs ------------------------
(***************************************************************************)
(* Theorems about Orchestrator: its types, that a scenario is flagged only *)
(* after all tries for its path, that the stamps are true as long as a     *)
(* retry brings no more scenarios for a path than it had, and that a retry *)
(* keeps the scenarios of the other paths and the order of the paths.      *)
(***************************************************************************)
EXTENDS Orchestrator, Selections_proofs
----------------------------------------------------------------------------
(* The operators: scenarios of an answer, of a path, of a merge.           *)
LEMMA OfPathProperties ==
    ASSUME NEW scenarios \in Seq(Scenario), NEW p
    PROVE  LET own == OfPath(scenarios, p)
           IN  /\ own \in Seq(Scenario)
               /\ \A k \in 1..Len(own) : Pid(own[k]) = p
               /\ \E order :
                    IsSelection(scenarios, {i \in 1..Len(scenarios) : Pid(scenarios[i]) = p},
                                own, order)
<1> DEFINE P == {i \in 1..Len(scenarios) : Pid(scenarios[i]) = p}
           own == OfPath(scenarios, p)
<1>1. DOMAIN scenarios = 1..Len(scenarios) /\ P \in SUBSET (1..Len(scenarios))
  BY LenProperties
<1>2. own = Picked(scenarios, P)
  BY <1>1 DEF OfPath
<1>3. \A i \in P : Pid(scenarios[i]) = p
  OBVIOUS
<1> HIDE DEF P, own
<1>4. own \in Seq(Scenario) /\ \E order : IsSelection(scenarios, P, own, order)
  BY <1>1, <1>2, PickedProperties
<1>5. \A k \in 1..Len(own) : Pid(own[k]) = p
  <2>1. PICK order : IsSelection(scenarios, P, own, order)
    BY <1>4
  <2>2. QED
    BY <1>3, <2>1 DEF IsSelection
<1>6. QED
  BY <1>4, <1>5 DEF P, own

LEMMA OwnPath ==
    ASSUME NEW s \in Scenario, NEW p \in PathIds, Pid(s) = p
    PROVE  s.tid.path = p /\ s.tid.path \in PathIds
<1>1. s.tid \in Tids /\ s.tid.path \in PathIds
  BY DEF Scenario, Tids
<1>2. p.round \in 1..MaxAttempts /\ NotTraceable.round = 0
  BY DEF PathIds, NotTraceable
<1>3. p # NotTraceable
  BY <1>2
<1>4. QED
  BY <1>1, <1>3 DEF Pid, PathIdFromTid

LEMMA PidType == \A s \in Scenario : Pid(s) \in PathIds \cup {NotTraceable}
BY DEF Pid, PathIdFromTid, Scenario, Tids

(* The scenarios of a path stand together.                                 *)
Grouped(scenarios) ==
    \A i, j, k \in 1..Len(scenarios) :
        i <= j /\ j <= k /\ scenarios[i].tid.path = scenarios[k].tid.path
        => scenarios[j].tid.path = scenarios[i].tid.path

(* The scenarios of one answer: numbered through, path by path, each of a  *)
(* path that was asked for, and of each path no more than the answer has   *)
(* for it.                                                                 *)
LEMMA GeneratedScenarios ==
    ASSUME NEW paths \in Seq(PathIds), NEW items \in [1..Len(paths) -> Seq(BOOLEAN)]
    PROVE  LET new == GenerateScenarios(paths, items)
           IN  /\ new \in Seq(Scenario)
               /\ \A n \in 1..Len(new) : new[n].tid.seq = n /\ new[n].tid.path \in ToSet(paths)
               /\ (\A i, j \in 1..Len(paths) : paths[i] = paths[j] => i = j) =>
                    /\ Grouped(new)
                    /\ \A i \in 1..Len(paths) :
                        Len(OfPath(new, paths[i])) <= Len(items[i])
<1> DEFINE Item == [path : PathIds, good : BOOLEAN]
           own(i) == [k \in DOMAIN items[i] |-> [path |-> paths[i], good |-> items[i][k]]]
           parts == [i \in DOMAIN paths |-> own(i)]
           flat == FlattenSeq(parts)
           new == GenerateScenarios(paths, items)
<1>1. /\ Len(paths) \in Nat /\ DOMAIN paths = 1..Len(paths)
      /\ \A i \in 1..Len(paths) : paths[i] \in PathIds /\ items[i] \in Seq(BOOLEAN)
  BY LenProperties, ElementOfSeq
<1>2. ASSUME NEW i \in 1..Len(paths)
      PROVE  /\ own(i) \in Seq(Item) /\ Len(own(i)) = Len(items[i])
             /\ \A k \in 1..Len(items[i]) : own(i)[k].path = paths[i]
  <2>1. /\ Len(items[i]) \in Nat /\ DOMAIN items[i] = 1..Len(items[i])
        /\ \A k \in 1..Len(items[i]) : items[i][k] \in BOOLEAN
    BY <1>1, LenProperties, ElementOfSeq
  <2>2. \A k \in 1..Len(items[i]) : [path |-> paths[i], good |-> items[i][k]] \in Item
    BY <1>1, <2>1
  <2>3. \A k \in 1..Len(items[i]) : own(i)[k] = [path |-> paths[i], good |-> items[i][k]]
    BY <2>1
  <2>4. own(i) = [k \in 1..Len(items[i]) |-> own(i)[k]]
    BY <2>1
  <2>5. \A k \in 1..Len(items[i]) : own(i)[k].path = paths[i]
    BY <2>3
  <2> HIDE DEF own, Item
  <2>6. own(i) \in Seq(Item) /\ Len(own(i)) = Len(items[i])
    BY <2>1, <2>2, <2>3, <2>4
  <2>7. QED
    BY <2>5, <2>6
<1>3. /\ parts \in Seq(Seq(Item)) /\ Len(parts) = Len(paths)
      /\ \A i \in 1..Len(paths) : parts[i] = own(i)
  <2> HIDE DEF own, Item
  <2>1. QED
    BY <1>1, <1>2
<1>4. new = [n \in DOMAIN flat |->
                [tid |-> [path |-> flat[n].path, seq |-> n], good |-> flat[n].good]]
  BY Zenon DEF GenerateScenarios
<1> HIDE DEF parts, own, Item
<1>5. /\ flat \in Seq(Item)
      /\ \E part, place : IsPlacing(parts, part, place) /\ InOrder(parts, part)
  BY <1>3, FlattenSeqInOrder
<1>6. PICK part, place : IsPlacing(parts, part, place) /\ InOrder(parts, part)
  BY <1>5
<1>0. \A m, n \in 1..Len(flat) : m < n => part[m] <= part[n]
  BY <1>6 DEF InOrder
<1>7. Len(flat) \in Nat /\ DOMAIN flat = 1..Len(flat)
      /\ \A n \in 1..Len(flat) : flat[n] \in Item
  BY <1>5, LenProperties, ElementOfSeq
<1>8. /\ \A n \in 1..Len(flat) : /\ part[n] \in 1..Len(paths)
                                 /\ place[n] \in 1..Len(items[part[n]])
                                 /\ flat[n].path = paths[part[n]]
      /\ \A m, n \in 1..Len(flat) : part[m] = part[n] /\ place[m] = place[n] => m = n
  <2>1. \A m, n \in 1..Len(flat) : part[m] = part[n] /\ place[m] = place[n] => m = n
    BY <1>6 DEF IsPlacing
  <2>2. ASSUME NEW n \in 1..Len(flat)
        PROVE  /\ part[n] \in 1..Len(paths) /\ place[n] \in 1..Len(items[part[n]])
               /\ flat[n].path = paths[part[n]]
    <3>1. /\ part[n] \in 1..Len(parts) /\ place[n] \in 1..Len(parts[part[n]])
          /\ flat[n] = parts[part[n]][place[n]]
      BY <1>6 DEF IsPlacing
    <3>2. part[n] \in 1..Len(paths) /\ parts[part[n]] = own(part[n])
      BY <1>3, <3>1
    <3>3. place[n] \in 1..Len(items[part[n]])
      BY <1>2, <3>1, <3>2
    <3>4. flat[n] = own(part[n])[place[n]] /\ own(part[n])[place[n]].path = paths[part[n]]
      BY <1>2, <3>1, <3>2, <3>3
    <3>5. QED
      BY <3>2, <3>3, <3>4
  <2>3. QED
    BY <2>1, <2>2
<1> HIDE DEF flat
<1>9. \A n \in 1..Len(flat) :
        /\ new[n] = [tid |-> [path |-> flat[n].path, seq |-> n], good |-> flat[n].good]
        /\ new[n] \in Scenario
  <2>1. \A n \in 1..Len(flat) :
            [tid |-> [path |-> flat[n].path, seq |-> n], good |-> flat[n].good] \in Scenario
    BY <1>7 DEF Item, Scenario, Tids
  <2>2. QED
    BY <1>4, <1>7, <2>1
<1>10. new = [n \in 1..Len(flat) |-> new[n]]
  BY <1>4, <1>7
<1> HIDE DEF new
<1>11. new \in Seq(Scenario) /\ Len(new) = Len(flat)
  BY <1>7, <1>9, <1>10
<1>12. \A n \in 1..Len(new) : new[n].tid.seq = n /\ new[n].tid.path = paths[part[n]]
  <2>1. ASSUME NEW n \in 1..Len(flat)
        PROVE  new[n].tid.seq = n /\ new[n].tid.path = flat[n].path
    <3> DEFINE t == [path |-> flat[n].path, seq |-> n]
    <3>1. new[n] = [tid |-> t, good |-> flat[n].good]
      BY <1>9
    <3>2. t.seq = n /\ t.path = flat[n].path
      OBVIOUS
    <3> HIDE DEF t
    <3>3. new[n].tid = t
      BY <3>1
    <3>4. QED
      BY <3>2, <3>3
  <2>2. QED
    BY <1>8, <1>11, <2>1
<1>13. \A n \in 1..Len(new) : new[n].tid.path \in ToSet(paths)
  <2>1. \A i \in 1..Len(paths) : paths[i] \in ToSet(paths)
    BY <1>1 DEF ToSet
  <2>2. QED
    BY <1>8, <1>11, <1>12, <2>1
<1>14. ASSUME \A i, j \in 1..Len(paths) : paths[i] = paths[j] => i = j,
              NEW i \in 1..Len(paths)
       PROVE  Len(OfPath(new, paths[i])) <= Len(items[i])
  <2> DEFINE of == OfPath(new, paths[i])
  <2>1. of \in Seq(Scenario) /\ Len(of) \in Nat
    BY <1>11, OfPathProperties, LenProperties
  <2>2. PICK order :
            IsSelection(new, {n \in 1..Len(new) : Pid(new[n]) = paths[i]}, of, order)
    BY <1>11, OfPathProperties
  <2>3. /\ \A k \in 1..Len(of) : order[k] \in 1..Len(new) /\ Pid(new[order[k]]) = paths[i]
        /\ \A k, l \in 1..Len(of) : order[k] = order[l] => k = l
    BY <2>2 DEF IsSelection
  <2> HIDE DEF of
  <2>4. ASSUME NEW k \in 1..Len(of) PROVE part[order[k]] = i
    <3>1. new[order[k]].tid.path = paths[i]
      BY <1>1, <1>11, <2>3, ElementOfSeq, OwnPath
    <3>2. paths[part[order[k]]] = paths[i] /\ part[order[k]] \in 1..Len(paths)
      BY <1>8, <1>11, <1>12, <2>3, <3>1
    <3>3. QED
      BY <1>14, <3>2
  <2> DEFINE f == [k \in 1..Len(of) |-> place[order[k]]]
  <2>5. \A k \in 1..Len(of) : place[order[k]] \in 1..Len(items[i])
    BY <1>8, <1>11, <2>3, <2>4
  <2>6. ASSUME NEW k \in 1..Len(of), NEW l \in 1..Len(of), place[order[k]] = place[order[l]]
        PROVE  k = l
    <3>1. part[order[k]] = part[order[l]]
      BY <2>4
    <3>2. order[k] = order[l]
      BY <1>8, <1>11, <2>3, <2>6, <3>1
    <3>3. QED
      BY <2>3, <3>2
  <2>7. Len(items[i]) \in Nat
    BY <1>1, LenProperties
  <2>8. f \in [1..Len(of) -> 1..Len(items[i])]
    BY <2>5
  <2>9. \A k, l \in 1..Len(of) : f[k] = f[l] => k = l
    BY <2>6
  <2> HIDE DEF f
  <2>10. QED
    BY <2>1, <2>7, <2>8, <2>9, NoMoreThan DEF of
<1>15. ASSUME \A i, j \in 1..Len(paths) : paths[i] = paths[j] => i = j
       PROVE  Grouped(new)
  <2> SUFFICES ASSUME NEW i \in 1..Len(new), NEW j \in 1..Len(new), NEW k \in 1..Len(new),
                      i <= j, j <= k, new[i].tid.path = new[k].tid.path
               PROVE  new[j].tid.path = new[i].tid.path
    BY DEF Grouped
  <2>1. part[i] = part[k] /\ \A n \in 1..Len(new) : part[n] \in Int
    <3>1. \A n \in 1..Len(new) : part[n] \in 1..Len(paths)
      BY <1>8, <1>11
    <3>2. paths[part[i]] = paths[part[k]]
      BY <1>12
    <3>3. QED
      BY <1>15, <3>1, <3>2
  <2>2. part[i] <= part[j] /\ part[j] <= part[k]
    <3>1. Len(new) \in Nat
      BY <1>7, <1>11
    <3>2. CASE i = j
      BY <1>0, <1>11, <2>1, <3>1, <3>2
    <3>3. CASE j = k
      BY <1>0, <1>11, <2>1, <3>1, <3>3
    <3>4. CASE i # j /\ j # k
      BY <1>0, <1>11, <3>1, <3>4
    <3>5. QED
      BY <3>2, <3>3, <3>4
  <2>3. part[j] = part[i]
    BY <2>1, <2>2
  <2>4. QED
    BY <1>12, <2>3
<1>16. QED
  BY <1>11, <1>12, <1>13, <1>14, <1>15 DEF new
----------------------------------------------------------------------------
LEMMA ReplacementProperties ==
    ASSUME NEW old \in Seq(Scenario), NEW fresh \in Seq(Scenario)
    PROVE  LET r == Replacement(old, fresh)
           IN  /\ r \in Seq(Scenario)
               /\ \A k \in 1..Len(r) :
                    \/ k \in 1..Len(old) /\ r[k].tid = old[k].tid
                    \/ k \in 1..Len(fresh) /\ k > Len(old) /\ r[k].tid = fresh[k].tid
<1> DEFINE entry(k) == IF k <= Len(old) THEN [fresh[k] EXCEPT !.tid = old[k].tid] ELSE fresh[k]
           r == Replacement(old, fresh)
<1>1. /\ Len(old) \in Nat /\ Len(fresh) \in Nat /\ DOMAIN fresh = 1..Len(fresh)
      /\ \A k \in 1..Len(old) : old[k] \in Scenario
      /\ \A k \in 1..Len(fresh) : fresh[k] \in Scenario
  BY LenProperties, ElementOfSeq
<1>2. CASE fresh = <<>>
  <2>1. r = old
    BY <1>2 DEF Replacement
  <2>2. QED
    BY <2>1
<1>3. CASE fresh # <<>>
  <2>1. r = [k \in 1..Len(fresh) |-> entry(k)]
    BY <1>1, <1>3 DEF Replacement
  <2>2. ASSUME NEW k \in 1..Len(fresh)
        PROVE  /\ entry(k) \in Scenario
               /\ \/ k \in 1..Len(old) /\ entry(k).tid = old[k].tid
                  \/ k > Len(old) /\ entry(k).tid = fresh[k].tid
    <3>1. CASE k <= Len(old)
      <4>1. k \in 1..Len(old)
        BY <1>1, <3>1
      <4>2. old[k].tid \in Tids /\ fresh[k] \in Scenario
        BY <1>1, <4>1 DEF Scenario
      <4>3. entry(k) = [fresh[k] EXCEPT !.tid = old[k].tid]
        BY <3>1
      <4> HIDE DEF entry
      <4>4. entry(k) \in Scenario /\ entry(k).tid = old[k].tid
        BY <4>2, <4>3 DEF Scenario
      <4>5. QED
        BY <4>1, <4>4
    <3>2. CASE ~(k <= Len(old))
      <4>1. entry(k) = fresh[k] /\ k > Len(old)
        BY <1>1, <3>2
      <4>2. QED
        BY <1>1, <4>1
    <3>3. QED
      BY <3>1, <3>2
  <2> HIDE DEF entry
  <2>3. /\ r \in Seq(Scenario) /\ Len(r) = Len(fresh)
        /\ \A k \in 1..Len(fresh) : r[k] = entry(k)
    BY <1>1, <2>1, <2>2
  <2> HIDE DEF r
  <2>4. QED
    BY <2>2, <2>3 DEF r
<1>4. QED
  BY <1>2, <1>3

(* Positions of the scenarios of a path, as OfPath lists them.             *)
Own(scenarios, p) == {i \in 1..Len(scenarios) : Pid(scenarios[i]) = p}
Places(scenarios, p) ==
    CHOOSE order : IsSelection(scenarios, Own(scenarios, p), OfPath(scenarios, p), order)

LEMMA PlacesProperties ==
    ASSUME NEW scenarios \in Seq(Scenario), NEW p
    PROVE  LET own == OfPath(scenarios, p)
               order == Places(scenarios, p)
           IN  /\ \A k \in 1..Len(own) : /\ order[k] \in 1..Len(scenarios)
                                         /\ Pid(scenarios[order[k]]) = p
                                         /\ own[k] = scenarios[order[k]]
               /\ \A k, l \in 1..Len(own) : order[k] = order[l] => k = l
<1>1. \E order : IsSelection(scenarios, Own(scenarios, p), OfPath(scenarios, p), order)
  BY OfPathProperties DEF Own
<1>2. IsSelection(scenarios, Own(scenarios, p), OfPath(scenarios, p), Places(scenarios, p))
  BY <1>1 DEF Places
<1>3. \A i \in Own(scenarios, p) : i \in 1..Len(scenarios) /\ Pid(scenarios[i]) = p
  BY DEF Own
<1>4. QED
  BY <1>2, <1>3 DEF IsSelection

(* The part of a merged list that stands for one scenario of the old one.  *)
Part(current, new, retried, i) ==
    LET p == Pid(current[i])
    IN  IF p \notin retried THEN <<current[i]>>
        ELSE IF \E j \in 1..(i - 1) : Pid(current[j]) = p THEN <<>>
        ELSE Replacement(OfPath(current, p), OfPath(new, p))

LEMMA PartProperties ==
    ASSUME NEW current \in Seq(Scenario), NEW new \in Seq(Scenario), NEW retried,
           NEW i \in 1..Len(current)
    PROVE  LET p == Pid(current[i])
               s == Part(current, new, retried, i)
           IN  /\ s \in Seq(Scenario)
               /\ \A k \in 1..Len(s) :
                    /\ Pid(s[k]) = p
                    /\ p \notin retried => k = 1 /\ s[k] = current[i]
                    /\ p \in retried =>
                        /\ \A j \in 1..(i - 1) : Pid(current[j]) # p
                        /\ k \in 1..Len(OfPath(new, p)) \/ k \in 1..Len(OfPath(current, p))
                        /\ \/ /\ k \in 1..Len(OfPath(current, p))
                              /\ s[k].tid = OfPath(current, p)[k].tid
                           \/ k \in 1..Len(OfPath(new, p)) /\ k > Len(OfPath(current, p))
<1> DEFINE p == Pid(current[i])
           old == OfPath(current, p)
           fresh == OfPath(new, p)
           s == Part(current, new, retried, i)
<1>1. /\ old \in Seq(Scenario) /\ fresh \in Seq(Scenario)
      /\ \A k \in 1..Len(old) : Pid(old[k]) = p
      /\ \A k \in 1..Len(fresh) : Pid(fresh[k]) = p
  BY OfPathProperties
<1>2. current[i] \in Scenario
  BY ElementOfSeq
<1>3. CASE p \notin retried
  <2>1. s = <<current[i]>>
    BY <1>3 DEF Part
  <2>2. s \in Seq(Scenario) /\ \A k \in 1..Len(s) : k = 1 /\ s[k] = current[i]
    BY <1>2, <2>1
  <2>3. QED
    BY <1>3, <2>2
<1>4. CASE p \in retried /\ \E j \in 1..(i - 1) : Pid(current[j]) = p
  <2>1. s = <<>>
    BY <1>4 DEF Part
  <2>2. s \in Seq(Scenario) /\ \A k \in 1..Len(s) : FALSE
    BY <2>1, EmptySeq
  <2>3. QED
    BY <2>2
<1>5. CASE p \in retried /\ ~\E j \in 1..(i - 1) : Pid(current[j]) = p
  <2>1. s = Replacement(old, fresh)
    BY <1>5 DEF Part
  <2> HIDE DEF old, fresh
  <2>2. /\ s \in Seq(Scenario)
        /\ \A k \in 1..Len(s) :
            \/ k \in 1..Len(old) /\ s[k].tid = old[k].tid
            \/ k \in 1..Len(fresh) /\ k > Len(old) /\ s[k].tid = fresh[k].tid
    BY <1>1, <2>1, ReplacementProperties
  <2>3. \A k \in 1..Len(s) : Pid(s[k]) = p
    BY <1>1, <2>2 DEF Pid
  <2> HIDE DEF s
  <2>4. QED
    BY <1>5, <2>2, <2>3 DEF s, old, fresh
<1>6. QED
  BY <1>3, <1>4, <1>5

(* Every scenario of a merged list comes from the part that stands for one *)
(* of the old list, and the parts follow each other as the old list did.   *)
IsMerge(m, current, new, retried, part, place) ==
    /\ \A n \in 1..Len(m) : /\ part[n] \in 1..Len(current)
                            /\ place[n] \in 1..Len(Part(current, new, retried, part[n]))
                            /\ m[n] = Part(current, new, retried, part[n])[place[n]]
    /\ \A x, y \in 1..Len(m) : part[x] = part[y] /\ place[x] = place[y] => x = y
    /\ \A i \in 1..Len(current) : \A k \in 1..Len(Part(current, new, retried, i)) :
            \E n \in 1..Len(m) : part[n] = i /\ place[n] = k
    /\ \A x, y \in 1..Len(m) : x < y => part[x] <= part[y]

LEMMA MergeParts ==
    ASSUME NEW current \in Seq(Scenario), NEW new \in Seq(Scenario), NEW retried
    PROVE  LET m == MergeRetried(current, new, retried)
           IN  /\ m \in Seq(Scenario)
               /\ \E part, place : IsMerge(m, current, new, retried, part, place)
<1> DEFINE of(i) == Part(current, new, retried, i)
           parts == [i \in DOMAIN current |-> of(i)]
           m == FlattenSeq(parts)
<1>1. Len(current) \in Nat /\ DOMAIN current = 1..Len(current)
  BY LenProperties
<1>2. MergeRetried(current, new, retried) = m
  BY Zenon DEF MergeRetried, Part
<1>3. \A i \in 1..Len(current) : of(i) \in Seq(Scenario)
  BY PartProperties
<1> HIDE DEF of
<1>4. /\ parts \in Seq(Seq(Scenario)) /\ Len(parts) = Len(current)
      /\ \A i \in 1..Len(current) : parts[i] = of(i)
  BY <1>1, <1>3
<1> HIDE DEF parts
<1>5. /\ m \in Seq(Scenario)
      /\ \E part, place : IsPlacing(parts, part, place) /\ InOrder(parts, part)
  BY <1>4, FlattenSeqInOrder
<1>6. PICK part, place : IsPlacing(parts, part, place) /\ InOrder(parts, part)
  BY <1>5
<1>7. /\ \A n \in 1..Len(m) : /\ part[n] \in 1..Len(parts)
                              /\ place[n] \in 1..Len(parts[part[n]])
                              /\ m[n] = parts[part[n]][place[n]]
      /\ \A x, y \in 1..Len(m) : part[x] = part[y] /\ place[x] = place[y] => x = y
      /\ \A i \in 1..Len(parts) : \A k \in 1..Len(parts[i]) :
                \E n \in 1..Len(m) : part[n] = i /\ place[n] = k
      /\ \A x, y \in 1..Len(m) : x < y => part[x] <= part[y]
  BY <1>6 DEF IsPlacing, InOrder, m
<1> HIDE DEF m
<1>8. \A n \in 1..Len(m) : /\ part[n] \in 1..Len(current)
                           /\ place[n] \in 1..Len(of(part[n]))
                           /\ m[n] = of(part[n])[place[n]]
  BY <1>4, <1>7
<1>9. \A i \in 1..Len(current) : \A k \in 1..Len(of(i)) :
            \E n \in 1..Len(m) : part[n] = i /\ place[n] = k
  <2>1. \A i \in 1..Len(current) : i \in 1..Len(parts) /\ parts[i] = of(i)
    BY <1>4
  <2>2. \A i \in 1..Len(parts) : \A k \in 1..Len(parts[i]) :
            \E n \in 1..Len(m) : part[n] = i /\ place[n] = k
    BY <1>7
  <2>3. QED
    BY <2>1, <2>2, Zenon
<1>10. IsMerge(m, current, new, retried, part, place)
  <2>1. /\ \A x, y \in 1..Len(m) : part[x] = part[y] /\ place[x] = place[y] => x = y
        /\ \A x, y \in 1..Len(m) : x < y => part[x] <= part[y]
    BY <1>7
  <2>2. QED
    BY <1>8, <1>9, <2>1, Zenon DEF IsMerge, of
<1>11. QED
  BY <1>2, <1>5, <1>10

LEMMA MergeProperties ==
    ASSUME NEW current \in Seq(Scenario), NEW new \in Seq(Scenario), NEW retried
    PROVE  LET m == MergeRetried(current, new, retried)
           IN  /\ m \in Seq(Scenario)
               /\ \A n \in 1..Len(m) :
                    \/ Pid(m[n]) \in retried
                    \/ Pid(m[n]) \notin retried /\ \E i \in 1..Len(current) : m[n] = current[i]
               /\ (/\ \A i, j \in 1..Len(current) : current[i].tid = current[j].tid => i = j
                   /\ \A p \in retried : Len(OfPath(new, p)) <= Len(OfPath(current, p)))
                  => \A x, y \in 1..Len(m) : m[x].tid = m[y].tid => x = y
<1> DEFINE of(i) == Part(current, new, retried, i)
           m == MergeRetried(current, new, retried)
<1>1. Len(current) \in Nat
  BY LenProperties
<1>2. m \in Seq(Scenario) /\ \E part, place : IsMerge(m, current, new, retried, part, place)
  BY MergeParts
<1> HIDE DEF m
<1>3. PICK part, place : IsMerge(m, current, new, retried, part, place)
  BY <1>2
<1>7. /\ \A n \in 1..Len(m) : /\ part[n] \in 1..Len(current)
                              /\ place[n] \in 1..Len(of(part[n]))
                              /\ m[n] = of(part[n])[place[n]]
      /\ \A x, y \in 1..Len(m) : part[x] = part[y] /\ place[x] = place[y] => x = y
  BY <1>3 DEF IsMerge
<1> HIDE DEF of
<1>8. ASSUME NEW n \in 1..Len(m)
      PROVE  \/ Pid(m[n]) \in retried
             \/ Pid(m[n]) \notin retried /\ \E i \in 1..Len(current) : m[n] = current[i]
  <2> DEFINE i == part[n]
             k == place[n]
  <2>1. i \in 1..Len(current) /\ k \in 1..Len(of(i)) /\ m[n] = of(i)[k]
    BY <1>7
  <2>2. /\ Pid(of(i)[k]) = Pid(current[i])
        /\ Pid(current[i]) \notin retried => of(i)[k] = current[i]
    BY <2>1, PartProperties DEF of
  <2> HIDE DEF i, k
  <2>3. QED
    BY <2>1, <2>2
<1>9. ASSUME NEW n \in 1..Len(m)
      PROVE  LET p == Pid(m[n])
             IN  /\ p = Pid(current[part[n]])
                 /\ p \notin retried => place[n] = 1 /\ m[n] = current[part[n]]
                 /\ p \in retried =>
                     /\ \A h \in 1..(part[n] - 1) : Pid(current[h]) # p
                     /\ \/ /\ place[n] \in 1..Len(OfPath(current, p))
                           /\ m[n].tid = OfPath(current, p)[place[n]].tid
                        \/ place[n] \in 1..Len(OfPath(new, p)) /\ place[n] > Len(OfPath(current, p))
  <2> DEFINE i == part[n]
             k == place[n]
             p == Pid(current[i])
  <2>1. i \in 1..Len(current) /\ k \in 1..Len(of(i)) /\ m[n] = of(i)[k]
    BY <1>7
  <2> HIDE DEF i, k
  <2>2. /\ Pid(of(i)[k]) = p
        /\ p \notin retried => k = 1 /\ of(i)[k] = current[i]
        /\ p \in retried =>
            /\ \A h \in 1..(i - 1) : Pid(current[h]) # p
            /\ \/ k \in 1..Len(OfPath(current, p)) /\ of(i)[k].tid = OfPath(current, p)[k].tid
               \/ k \in 1..Len(OfPath(new, p)) /\ k > Len(OfPath(current, p))
    BY <2>1, PartProperties DEF of
  <2>3. Pid(m[n]) = p
    BY <2>1, <2>2
  <2> HIDE DEF p
  <2>4. /\ p = Pid(current[i])
        /\ p \notin retried => k = 1 /\ m[n] = current[i]
        /\ p \in retried =>
            /\ \A h \in 1..(i - 1) : Pid(current[h]) # p
            /\ \/ k \in 1..Len(OfPath(current, p)) /\ m[n].tid = OfPath(current, p)[k].tid
               \/ k \in 1..Len(OfPath(new, p)) /\ k > Len(OfPath(current, p))
    BY <2>1, <2>2 DEF p
  <2>5. QED
    BY <2>3, <2>4 DEF i, k
<1>10. ASSUME \A i, j \in 1..Len(current) : current[i].tid = current[j].tid => i = j,
              \A p \in retried : Len(OfPath(new, p)) <= Len(OfPath(current, p)),
              NEW x \in 1..Len(m), NEW y \in 1..Len(m), m[x].tid = m[y].tid
       PROVE  x = y
  <2> DEFINE p == Pid(m[x])
             order == Places(current, p)
  <2>1. part[x] \in 1..Len(current) /\ part[y] \in 1..Len(current)
    BY <1>7
  <2>2. p = Pid(m[y])
    BY <1>10 DEF Pid
  <2>3. p = Pid(current[part[x]]) /\ p = Pid(current[part[y]])
    BY <1>9, <2>2
  <2>4. CASE p \notin retried
    <3>1. place[x] = 1 /\ m[x] = current[part[x]]
      BY <1>9, <2>4
    <3>2. place[y] = 1 /\ m[y] = current[part[y]]
      BY <1>9, <2>2, <2>4
    <3>3. part[x] = part[y]
      BY <1>10, <2>1, <3>1, <3>2
    <3>4. QED
      BY <1>7, <3>1, <3>2, <3>3
  <2>5. CASE p \in retried
    <3>1. /\ \A h \in 1..(part[x] - 1) : Pid(current[h]) # p
          /\ \/ /\ place[x] \in 1..Len(OfPath(current, p))
                /\ m[x].tid = OfPath(current, p)[place[x]].tid
             \/ place[x] \in 1..Len(OfPath(new, p)) /\ place[x] > Len(OfPath(current, p))
      BY <1>9, <2>5
    <3>2. /\ \A h \in 1..(part[y] - 1) : Pid(current[h]) # p
          /\ \/ /\ place[y] \in 1..Len(OfPath(current, p))
                /\ m[y].tid = OfPath(current, p)[place[y]].tid
             \/ place[y] \in 1..Len(OfPath(new, p)) /\ place[y] > Len(OfPath(current, p))
      BY <1>9, <2>2, <2>5
    <3>3. /\ Len(OfPath(new, p)) <= Len(OfPath(current, p))
          /\ Len(OfPath(new, p)) \in Nat /\ Len(OfPath(current, p)) \in Nat
      BY <1>10, <2>5, OfPathProperties, LenProperties
    <3> HIDE DEF p
    <3>4. part[x] = part[y]
      <4>1. ~(part[y] \in 1..(part[x] - 1)) /\ ~(part[x] \in 1..(part[y] - 1))
        BY <2>3, <3>1, <3>2
      <4>2. QED
        BY <1>1, <2>1, <4>1
    <3>5. place[x] \in 1..Len(OfPath(current, p)) /\ m[x].tid = OfPath(current, p)[place[x]].tid
      BY <3>1, <3>3
    <3>6. place[y] \in 1..Len(OfPath(current, p)) /\ m[y].tid = OfPath(current, p)[place[y]].tid
      BY <3>2, <3>3
    <3>7. /\ order[place[x]] \in 1..Len(current) /\ m[x].tid = current[order[place[x]]].tid
          /\ order[place[y]] \in 1..Len(current) /\ m[y].tid = current[order[place[y]]].tid
          /\ order[place[x]] = order[place[y]] => place[x] = place[y]
      BY <3>5, <3>6, PlacesProperties, ZenonT(60)
    <3>8. place[x] = place[y]
      BY <1>10, <3>7
    <3>9. QED
      BY <1>7, <3>4, <3>8
  <2>6. QED
    BY <2>4, <2>5
<1>11. QED
  BY <1>2, <1>8, <1>10 DEF m

(* What a merge leaves: each scenario of the new list comes from one of the*)
(* old list of the same path, in the same order; those of paths that are   *)
(* not retried are themselves, once each, and no path is left without.     *)
IsMergeOf(m, current, retried, part) ==
    /\ \A n \in 1..Len(m) :
        /\ part[n] \in 1..Len(current)
        /\ Pid(m[n]) = Pid(current[part[n]])
        /\ Pid(m[n]) \notin retried => m[n] = current[part[n]]
    /\ \A x, y \in 1..Len(m) : x < y =>
        /\ part[x] <= part[y]
        /\ Pid(m[x]) \notin retried /\ Pid(m[y]) \notin retried => part[x] < part[y]
    /\ \A i \in 1..Len(current) :
        \E n \in 1..Len(m) : /\ Pid(m[n]) = Pid(current[i])
                             /\ Pid(current[i]) \notin retried => part[n] = i

LEMMA ReplacementIsNotEmpty ==
    ASSUME NEW old \in Seq(Scenario), NEW fresh \in Seq(Scenario), old # <<>>
    PROVE  Len(Replacement(old, fresh)) \in Nat \ {0}
<1>1. CASE fresh = <<>>
  <2>1. Replacement(old, fresh) = old
    BY <1>1 DEF Replacement
  <2>2. QED
    BY <2>1, LenProperties, EmptySeq
<1>2. CASE fresh # <<>>
  <2> DEFINE entry(k) == IF k <= Len(old) THEN [fresh[k] EXCEPT !.tid = old[k].tid] ELSE fresh[k]
  <2>1. DOMAIN fresh = 1..Len(fresh) /\ Len(fresh) \in Nat /\ Len(fresh) # 0
    BY <1>2, LenProperties, EmptySeq
  <2>2. Replacement(old, fresh) = [k \in 1..Len(fresh) |-> entry(k)]
    BY <1>2, <2>1 DEF Replacement
  <2> HIDE DEF entry
  <2>3. QED
    BY <2>1, <2>2
<1>3. QED
  BY <1>1, <1>2

LEMMA MergeKeepsOrder ==
    ASSUME NEW current \in Seq(Scenario), NEW new \in Seq(Scenario), NEW retried
    PROVE  LET m == MergeRetried(current, new, retried)
           IN  m \in Seq(Scenario) /\ \E part : IsMergeOf(m, current, retried, part)
<1> DEFINE of(i) == Part(current, new, retried, i)
           m == MergeRetried(current, new, retried)
<1>1. Len(current) \in Nat /\ \A i \in 1..Len(current) : current[i] \in Scenario
  BY LenProperties, ElementOfSeq
<1>2. m \in Seq(Scenario) /\ \E part, place : IsMerge(m, current, new, retried, part, place)
  BY MergeParts
<1> HIDE DEF m
<1>3. PICK part, place : IsMerge(m, current, new, retried, part, place)
  BY <1>2
<1>4. Len(m) \in Nat
  BY <1>2, LenProperties
<1>5. /\ \A n \in 1..Len(m) : /\ part[n] \in 1..Len(current)
                              /\ place[n] \in 1..Len(of(part[n]))
                              /\ m[n] = of(part[n])[place[n]]
      /\ \A x, y \in 1..Len(m) : part[x] = part[y] /\ place[x] = place[y] => x = y
      /\ \A x, y \in 1..Len(m) : x < y => part[x] <= part[y]
  BY <1>3 DEF IsMerge
<1>6. \A i \in 1..Len(current) : \A k \in 1..Len(of(i)) :
            \E n \in 1..Len(m) : part[n] = i /\ place[n] = k
  BY <1>3 DEF IsMerge
<1>7. \A i \in 1..Len(current) : \A k \in 1..Len(of(i)) :
            /\ Pid(of(i)[k]) = Pid(current[i])
            /\ Pid(current[i]) \notin retried => k = 1 /\ of(i)[k] = current[i]
  BY PartProperties
<1>8. ASSUME NEW i \in 1..Len(current), Pid(current[i]) \notin retried
      PROVE  1 \in 1..Len(of(i))
  <2>1. of(i) = <<current[i]>>
    BY <1>8 DEF Part
  <2> HIDE DEF of
  <2>2. QED
    BY <2>1
<1>9. ASSUME NEW i \in 1..Len(current), Pid(current[i]) \in retried,
             \A j \in 1..(i - 1) : Pid(current[j]) # Pid(current[i])
      PROVE  1 \in 1..Len(of(i))
  <2> DEFINE p == Pid(current[i])
             old == OfPath(current, p)
             fresh == OfPath(new, p)
  <2>1. of(i) = Replacement(old, fresh)
    BY <1>9 DEF Part
  <2>2. old \in Seq(Scenario) /\ fresh \in Seq(Scenario)
    BY OfPathProperties
  <2>3. PICK order : IsSelection(current, {j \in 1..Len(current) : Pid(current[j]) = p}, old, order)
    BY OfPathProperties
  <2>4. \E k \in 1..Len(old) : order[k] = i
    BY <2>3 DEF IsSelection
  <2> HIDE DEF old, fresh, of
  <2>5. old # <<>>
    BY <2>2, <2>4, EmptySeq
  <2>6. Len(of(i)) \in Nat \ {0}
    BY <2>1, <2>2, <2>5, ReplacementIsNotEmpty
  <2>7. QED
    BY <2>6
<1> HIDE DEF of
<1>10. ASSUME NEW n \in 1..Len(m)
       PROVE  /\ part[n] \in 1..Len(current) /\ Pid(m[n]) = Pid(current[part[n]])
              /\ Pid(m[n]) \notin retried => place[n] = 1 /\ m[n] = current[part[n]]
  <2> DEFINE i == part[n]
             k == place[n]
  <2>1. i \in 1..Len(current) /\ k \in 1..Len(of(i)) /\ m[n] = of(i)[k]
    BY <1>5
  <2> HIDE DEF i, k
  <2>2. /\ Pid(m[n]) = Pid(current[i])
        /\ Pid(m[n]) \notin retried => k = 1 /\ m[n] = current[i]
    BY <1>7, <2>1
  <2>3. QED
    BY <2>1, <2>2 DEF i, k
<1>11. ASSUME NEW x \in 1..Len(m), NEW y \in 1..Len(m), x < y
       PROVE  /\ part[x] <= part[y]
              /\ Pid(m[x]) \notin retried /\ Pid(m[y]) \notin retried => part[x] < part[y]
  <2>1. part[x] <= part[y] /\ part[x] \in Int /\ part[y] \in Int /\ x # y
    BY <1>4, <1>5, <1>11
  <2>2. Pid(m[x]) \notin retried /\ Pid(m[y]) \notin retried => part[x] # part[y]
    <3>1. Pid(m[x]) \notin retried /\ Pid(m[y]) \notin retried => place[x] = place[y]
      BY <1>10
    <3>2. part[x] = part[y] => place[x] # place[y]
      BY <1>5, <2>1
    <3>3. QED
      BY <3>1, <3>2
  <2>3. QED
    BY <2>1, <2>2
<1>12. ASSUME NEW i \in 1..Len(current)
       PROVE  \E n \in 1..Len(m) : /\ Pid(m[n]) = Pid(current[i])
                                   /\ Pid(current[i]) \notin retried => part[n] = i
  <2>1. CASE Pid(current[i]) \notin retried
    <3>1. PICK n \in 1..Len(m) : part[n] = i
      BY <1>6, <1>8, <2>1
    <3>2. QED
      BY <1>10, <3>1
  <2>2. CASE Pid(current[i]) \in retried
    <3> DEFINE S == {j \in 1..Len(current) : Pid(current[j]) = Pid(current[i])}
    <3>1. S \in SUBSET (1..Len(current)) /\ S # {}
      OBVIOUS
    <3>2. PICK e \in S : \A j \in S : e <= j
      <4> HIDE DEF S
      <4>1. QED
        BY <1>1, <3>1, SmallestIndex
    <3>3. e \in 1..Len(current) /\ Pid(current[e]) = Pid(current[i])
      OBVIOUS
    <3>4. \A j \in 1..(e - 1) : Pid(current[j]) # Pid(current[e])
      BY <1>1, <3>2, <3>3
    <3>5. 1 \in 1..Len(of(e))
      BY <1>9, <2>2, <3>3, <3>4
    <3>6. PICK n \in 1..Len(m) : part[n] = e
      BY <1>6, <3>3, <3>5
    <3>7. QED
      BY <1>10, <2>2, <3>3, <3>6
  <2>3. QED
    BY <2>1, <2>2
<1>13. IsMergeOf(m, current, retried, part)
  BY <1>10, <1>11, <1>12 DEF IsMergeOf
<1>14. QED
  BY <1>2, <1>13 DEF m

(* m has the paths of current, in the same order.                          *)
FollowsPaths(m, current, part) ==
    /\ \A n \in 1..Len(m) : /\ part[n] \in 1..Len(current)
                            /\ m[n].tid.path = current[part[n]].tid.path
    /\ \A x, y \in 1..Len(m) : x < y => part[x] <= part[y]
    /\ \A i \in 1..Len(current) : \E n \in 1..Len(m) : m[n].tid.path = current[i].tid.path

LEMMA MergedPaths ==
    ASSUME NEW current \in Seq(Scenario), NEW m \in Seq(Scenario),
           NEW retried \in SUBSET PathIds, NEW part, IsMergeOf(m, current, retried, part)
    PROVE  FollowsPaths(m, current, part)
<1>1. /\ \A i \in 1..Len(current) : current[i] \in Scenario
      /\ \A n \in 1..Len(m) : m[n] \in Scenario
  BY ElementOfSeq
<1>2. ASSUME NEW n \in 1..Len(m), NEW i \in 1..Len(current), Pid(m[n]) = Pid(current[i]),
             Pid(m[n]) \in retried
      PROVE  m[n].tid.path = current[i].tid.path
  <2>1. Pid(m[n]) \in PathIds
    BY <1>2
  <2>2. m[n].tid.path = Pid(m[n]) /\ current[i].tid.path = Pid(m[n])
    BY <1>1, <1>2, <2>1, OwnPath
  <2>3. QED
    BY <2>2
<1>3. ASSUME NEW n \in 1..Len(m)
      PROVE  part[n] \in 1..Len(current) /\ m[n].tid.path = current[part[n]].tid.path
  <2> DEFINE i == part[n]
  <2>1. /\ i \in 1..Len(current) /\ Pid(m[n]) = Pid(current[i])
        /\ Pid(m[n]) \notin retried => m[n] = current[i]
    BY DEF IsMergeOf
  <2> HIDE DEF i
  <2>2. m[n].tid.path = current[i].tid.path
    BY <1>2, <2>1
  <2>3. QED
    BY <2>1, <2>2 DEF i
<1>4. ASSUME NEW i \in 1..Len(current)
      PROVE  \E n \in 1..Len(m) : m[n].tid.path = current[i].tid.path
  <2>1. PICK n \in 1..Len(m) : /\ Pid(m[n]) = Pid(current[i])
                               /\ Pid(current[i]) \notin retried => part[n] = i
    BY DEF IsMergeOf
  <2>2. CASE Pid(m[n]) \in retried
    BY <1>2, <2>1, <2>2
  <2>3. CASE Pid(m[n]) \notin retried
    BY <1>3, <2>1, <2>3
  <2>4. QED
    BY <2>2, <2>3
<1>5. \A x, y \in 1..Len(m) : x < y => part[x] <= part[y]
  BY DEF IsMergeOf
<1>6. QED
  BY <1>3, <1>4, <1>5 DEF FollowsPaths

LEMMA FollowerIsGrouped ==
    ASSUME NEW current \in Seq(Scenario), NEW m \in Seq(Scenario), Grouped(current),
           NEW part, FollowsPaths(m, current, part)
    PROVE  Grouped(m)
<1> SUFFICES ASSUME NEW i \in 1..Len(m), NEW j \in 1..Len(m), NEW k \in 1..Len(m),
                    i <= j, j <= k, m[i].tid.path = m[k].tid.path
             PROVE  m[j].tid.path = m[i].tid.path
  BY DEF Grouped
<1>1. Len(m) \in Nat /\ Len(current) \in Nat
  BY LenProperties
<1>2. \A n \in 1..Len(m) : /\ part[n] \in 1..Len(current)
                           /\ m[n].tid.path = current[part[n]].tid.path
  BY DEF FollowsPaths
<1>3. \A x, y \in 1..Len(m) : x <= y => part[x] <= part[y]
  <2>1. ASSUME NEW x \in 1..Len(m), NEW y \in 1..Len(m), x <= y PROVE part[x] <= part[y]
    <3>1. CASE x = y
      BY <1>1, <1>2, <3>1
    <3>2. CASE x # y
      <4>1. x < y
        BY <1>1, <2>1, <3>2
      <4>2. QED
        BY <4>1 DEF FollowsPaths
    <3>3. QED
      BY <3>1, <3>2
  <2>2. QED
    BY <2>1
<1> DEFINE a == part[i]
           b == part[j]
           c == part[k]
<1>4. a <= b /\ b <= c
  BY <1>3
<1>5. /\ a \in 1..Len(current) /\ b \in 1..Len(current) /\ c \in 1..Len(current)
      /\ m[i].tid.path = current[a].tid.path /\ m[j].tid.path = current[b].tid.path
      /\ m[k].tid.path = current[c].tid.path
  BY <1>2
<1> HIDE DEF a, b, c
<1>6. current[b].tid.path = current[a].tid.path
  BY <1>4, <1>5, ZenonT(60) DEF Grouped
<1>7. QED
  BY <1>5, <1>6

(* PathOrder lists the paths by the first scenario of each.                *)
IsPathOrder(r, scenarios, head) ==
    /\ \A k \in 1..Len(r) : /\ head[k] \in 1..Len(scenarios)
                            /\ r[k] = scenarios[head[k]].tid.path
    /\ \A k, l \in 1..Len(r) : k < l => head[k] < head[l] /\ r[k] # r[l]
    /\ \A i \in 1..Len(scenarios) : \E k \in 1..Len(r) : r[k] = scenarios[i].tid.path

LEMMA PathOrderProperties ==
    ASSUME NEW scenarios \in Seq(Scenario), Grouped(scenarios)
    PROVE  /\ PathOrder(scenarios) \in Seq(PathIds)
           /\ \E head : IsPathOrder(PathOrder(scenarios), scenarios, head)
<1> DEFINE path(i) == scenarios[i].tid.path
           one(i) == IF i > 1 /\ path(i - 1) = path(i) THEN <<>> ELSE <<path(i)>>
           parts == [i \in DOMAIN scenarios |-> one(i)]
           r == PathOrder(scenarios)
<1>1. /\ Len(scenarios) \in Nat /\ DOMAIN scenarios = 1..Len(scenarios)
      /\ \A i \in 1..Len(scenarios) : path(i) \in PathIds
  <2>1. \A i \in 1..Len(scenarios) : scenarios[i] \in Scenario
    BY ElementOfSeq
  <2>2. \A i \in 1..Len(scenarios) : path(i) \in PathIds
    BY <2>1 DEF Scenario, Tids
  <2> HIDE DEF path
  <2>3. QED
    BY <2>2, LenProperties
<1>2. r = FlattenSeq(parts)
  BY DEF PathOrder
<1>3. \A i, j, k \in 1..Len(scenarios) : i <= j /\ j <= k /\ path(i) = path(k) => path(j) = path(i)
  BY DEF Grouped
<1> HIDE DEF path, r
<1>4. ASSUME NEW i \in 1..Len(scenarios)
      PROVE  /\ one(i) \in Seq(PathIds)
             /\ \A k \in 1..Len(one(i)) : /\ k = 1 /\ one(i)[k] = path(i)
                                          /\ ~(i > 1 /\ path(i - 1) = path(i))
             /\ ~(i > 1 /\ path(i - 1) = path(i)) => Len(one(i)) = 1
  <2>1. CASE i > 1 /\ path(i - 1) = path(i)
    <3>1. one(i) = <<>>
      BY <2>1
    <3> HIDE DEF one
    <3>2. one(i) \in Seq(PathIds) /\ 1..Len(one(i)) = {}
      BY <3>1, EmptySeq
    <3>3. QED
      BY <2>1, <3>2
  <2>2. CASE ~(i > 1 /\ path(i - 1) = path(i))
    <3>1. one(i) = <<path(i)>> /\ path(i) \in PathIds
      BY <1>1, <2>2
    <3> HIDE DEF one
    <3>2. one(i) \in Seq(PathIds) /\ Len(one(i)) = 1 /\ one(i)[1] = path(i)
      BY <3>1
    <3>3. \A k \in 1..Len(one(i)) : k = 1
      BY <3>2
    <3>4. QED
      BY <2>2, <3>2, <3>3
  <2>3. QED
    BY <2>1, <2>2
<1> HIDE DEF one
<1>5. /\ parts \in Seq(Seq(PathIds)) /\ Len(parts) = Len(scenarios)
      /\ \A i \in 1..Len(scenarios) : parts[i] = one(i)
  BY <1>1, <1>4
<1> HIDE DEF parts
<1>6. /\ r \in Seq(PathIds)
      /\ \E part, place : IsPlacing(parts, part, place) /\ InOrder(parts, part)
  BY <1>2, <1>5, FlattenSeqInOrder
<1>7. PICK part, place : IsPlacing(parts, part, place) /\ InOrder(parts, part)
  BY <1>6
<1>8. /\ \A n \in 1..Len(r) : /\ part[n] \in 1..Len(parts)
                              /\ place[n] \in 1..Len(parts[part[n]])
                              /\ r[n] = parts[part[n]][place[n]]
      /\ \A x, y \in 1..Len(r) : part[x] = part[y] /\ place[x] = place[y] => x = y
      /\ \A i \in 1..Len(parts) : \A k \in 1..Len(parts[i]) :
            \E n \in 1..Len(r) : part[n] = i /\ place[n] = k
      /\ \A x, y \in 1..Len(r) : x < y => part[x] <= part[y]
  BY <1>2, <1>7 DEF IsPlacing, InOrder
<1>9. Len(r) \in Nat
  BY <1>6, LenProperties
<1>10. ASSUME NEW n \in 1..Len(r)
       PROVE  /\ part[n] \in 1..Len(scenarios) /\ place[n] = 1 /\ r[n] = path(part[n])
              /\ ~(part[n] > 1 /\ path(part[n] - 1) = path(part[n]))
  <2> DEFINE i == part[n]
  <2>1. /\ i \in 1..Len(parts) /\ place[n] \in 1..Len(parts[i]) /\ r[n] = parts[i][place[n]]
    BY <1>8
  <2> HIDE DEF i
  <2>2. i \in 1..Len(scenarios) /\ parts[i] = one(i)
    BY <1>5, <2>1
  <2>3. /\ i \in 1..Len(scenarios) /\ place[n] = 1 /\ r[n] = path(i)
        /\ ~(i > 1 /\ path(i - 1) = path(i))
    BY <1>4, <2>1, <2>2
  <2>4. QED
    BY <2>3 DEF i
<1>11. ASSUME NEW k \in 1..Len(r), NEW l \in 1..Len(r), k < l
       PROVE  part[k] < part[l] /\ r[k] # r[l]
  <2>1. part[k] <= part[l] /\ place[k] = place[l] /\ k # l
    BY <1>8, <1>9, <1>10, <1>11
  <2>2. part[k] \in 1..Len(scenarios) /\ part[l] \in 1..Len(scenarios) /\ part[k] # part[l]
    BY <1>8, <1>10, <2>1
  <2>3. part[k] < part[l]
    BY <1>1, <2>1, <2>2
  <2>4. /\ part[l] > 1 /\ part[l] - 1 \in 1..Len(scenarios)
        /\ part[k] <= part[l] - 1 /\ part[l] - 1 <= part[l]
    BY <1>1, <2>2, <2>3
  <2>5. path(part[l] - 1) # path(part[l])
    BY <1>10, <2>4
  <2>6. ASSUME path(part[k]) = path(part[l]) PROVE FALSE
    <3>1. path(part[l] - 1) = path(part[k])
      BY <1>3, <2>2, <2>4, <2>6
    <3>2. QED
      BY <2>5, <2>6, <3>1
  <2>7. QED
    BY <1>10, <2>3, <2>6
<1>12. ASSUME NEW i \in 1..Len(scenarios)
       PROVE  \E k \in 1..Len(r) : r[k] = path(i)
  <2> DEFINE S == {j \in 1..Len(scenarios) : path(j) = path(i)}
  <2>1. S \in SUBSET (1..Len(scenarios)) /\ S # {}
    OBVIOUS
  <2>2. PICK e \in S : \A j \in S : e <= j
    <3> HIDE DEF S
    <3>1. QED
      BY <1>1, <2>1, SmallestIndex
  <2>3. e \in 1..Len(scenarios) /\ path(e) = path(i)
    OBVIOUS
  <2>4. ~(e > 1 /\ path(e - 1) = path(e))
    <3>1. ASSUME e > 1, path(e - 1) = path(e) PROVE FALSE
      <4>1. e - 1 \in 1..Len(scenarios) /\ ~(e <= e - 1)
        BY <1>1, <2>3, <3>1
      <4>2. e - 1 \in S
        BY <2>3, <3>1, <4>1
      <4>3. QED
        BY <2>2, <4>1, <4>2
    <3>2. QED
      BY <3>1
  <2>5. 1 \in 1..Len(one(e))
    <3>1. Len(one(e)) = 1
      BY <1>4, <2>3, <2>4, Zenon
    <3>2. \A n : n = 1 => 1 \in 1..n
      OBVIOUS
    <3>3. QED
      BY <3>1, <3>2, Zenon
  <2>6. e \in 1..Len(parts) /\ 1 \in 1..Len(parts[e])
    BY <1>5, <2>3, <2>5
  <2>7. PICK n \in 1..Len(r) : part[n] = e /\ place[n] = 1
    <3>1. \A k \in 1..Len(parts[e]) : \E n \in 1..Len(r) : part[n] = e /\ place[n] = k
      BY <1>8, <2>6, Zenon
    <3>2. QED
      BY <2>6, <3>1
  <2>8. QED
    BY <1>10, <2>3, <2>7
<1>13. IsPathOrder(r, scenarios, part)
  BY <1>10, <1>11, <1>12 DEF IsPathOrder, path
<1>14. QED
  BY <1>6, <1>13 DEF r

(* The paths of a list whose paths stand together, in their order.         *)
PathsOf(scenarios) == {scenarios[i].tid.path : i \in 1..Len(scenarios)}

Earlier(scenarios) ==
    {pair \in PathsOf(scenarios) \X PathsOf(scenarios) :
        /\ pair[1] # pair[2]
        /\ \E i, j \in 1..Len(scenarios) :
              /\ i < j
              /\ scenarios[i].tid.path = pair[1]
              /\ scenarios[j].tid.path = pair[2]}

LEMMA EarlierIsAnOrder ==
    ASSUME NEW scenarios \in Seq(Scenario), Grouped(scenarios)
    PROVE  /\ IsFiniteSet(PathsOf(scenarios))
           /\ IsOrderOf(Earlier(scenarios), PathsOf(scenarios))
<1> DEFINE path(i) == scenarios[i].tid.path
           D == 1..Len(scenarios)
           S == PathsOf(scenarios)
           R == Earlier(scenarios)
<1>1. Len(scenarios) \in Nat
  BY LenProperties
<1>2. S = {path(i) : i \in D}
  BY DEF PathsOf
<1>3. \A i, j, k \in D : i <= j /\ j <= k /\ path(i) = path(k) => path(j) = path(i)
  BY DEF Grouped
<1>4. R = {pair \in S \X S : /\ pair[1] # pair[2]
                            /\ \E i, j \in D : i < j /\ path(i) = pair[1] /\ path(j) = pair[2]}
  BY DEF Earlier
<1>5. IsFiniteSet(S)
  <2> DEFINE f == [i \in D |-> path(i)]
  <2>1. f \in [D -> S] /\ \A x \in S : \E i \in D : f[i] = x
    BY <1>2
  <2> HIDE DEF f, D, S, path
  <2>2. f \in Surjection(D, S)
    BY <2>1 DEF Surjection
  <2>3. IsFiniteSet(D)
    BY <1>1, FS_Interval DEF D
  <2>4. QED
    BY <2>2, <2>3, FS_Surjection
<1>6. \A i \in D : i \in Int
  OBVIOUS
<1> HIDE DEF path, D, S, R
<1>7. \A x, y \in S : <<x, y>> \in R <=>
            x # y /\ \E i, j \in D : i < j /\ path(i) = x /\ path(j) = y
  BY <1>4
<1>8. ASSUME NEW x \in S, NEW y \in S, NEW z \in S, <<x, y>> \in R, <<y, z>> \in R
      PROVE  <<x, z>> \in R
  <2>1. x # y /\ y # z
    BY <1>7, <1>8
  <2>2. PICK i \in D, j \in D : i < j /\ path(i) = x /\ path(j) = y
    BY <1>7, <1>8
  <2>3. PICK k \in D, l \in D : k < l /\ path(k) = y /\ path(l) = z
    BY <1>7, <1>8
  <2>4. i \in Int /\ j \in Int /\ k \in Int /\ l \in Int
    BY <1>6
  <2>5. i < l
    <3>1. ASSUME ~(i < l) PROVE FALSE
      <4>1. k <= i /\ i <= j
        BY <2>2, <2>3, <2>4, <3>1
      <4>2. path(i) = path(k)
        BY <1>3, <2>2, <2>3, <4>1
      <4>3. QED
        BY <2>1, <2>2, <2>3, <4>2
    <3>2. QED
      BY <3>1
  <2>6. x # z
    <3>1. CASE j <= l
      <4>1. i <= j /\ j <= l
        BY <2>2, <2>4, <3>1
      <4>2. path(i) = path(l) => path(j) = path(i)
        BY <1>3, <4>1
      <4>3. QED
        BY <2>1, <2>2, <2>3, <4>2
    <3>2. CASE ~(j <= l)
      <4>1. k <= l /\ l <= j
        BY <2>3, <2>4, <3>2
      <4>2. path(l) = path(k)
        BY <1>3, <2>2, <2>3, <4>1
      <4>3. QED
        BY <2>1, <2>3, <4>2
    <3>3. QED
      BY <3>1, <3>2
  <2>7. QED
    BY <1>7, <2>2, <2>3, <2>5, <2>6
<1>9. ASSUME NEW x \in S, NEW y \in S, x # y
      PROVE  <<x, y>> \in R \/ <<y, x>> \in R
  <2>1. PICK i \in D : path(i) = x
    BY <1>2
  <2>2. PICK j \in D : path(j) = y
    BY <1>2
  <2>3. i # j /\ i \in Int /\ j \in Int
    BY <1>6, <1>9, <2>1, <2>2
  <2>4. i < j \/ j < i
    BY <2>3
  <2>5. QED
    BY <1>7, <1>9, <2>1, <2>2, <2>4
<1>10. IsOrderOf(R, S)
  <2>1. \A x \in S : <<x, x>> \notin R
    BY <1>7
  <2>2. QED
    BY <1>8, <1>9, <2>1 DEF IsOrderOf
<1>11. QED
  BY <1>5, <1>10 DEF S, R

(* A list that follows the paths of another has them in the same order.    *)
LEMMA SamePathOrder ==
    ASSUME NEW current \in Seq(Scenario), NEW m \in Seq(Scenario), Grouped(current),
           NEW part, FollowsPaths(m, current, part)
    PROVE  PathOrder(m) = PathOrder(current)
<1> DEFINE r == PathOrder(current)
           t == PathOrder(m)
           S == PathsOf(current)
           R == Earlier(current)
           D == 1..Len(current)
<1>1. Grouped(m)
  BY FollowerIsGrouped
<1>2. /\ Len(current) \in Nat /\ Len(m) \in Nat
      /\ r \in Seq(PathIds) /\ t \in Seq(PathIds)
      /\ \E head : IsPathOrder(r, current, head)
      /\ \E head : IsPathOrder(t, m, head)
  BY <1>1, PathOrderProperties, LenProperties
<1>3. IsFiniteSet(S) /\ IsOrderOf(R, S)
  BY EarlierIsAnOrder
<1>4. \A i \in D : current[i].tid.path \in S
  BY DEF PathsOf
<1>5. \A x \in S : \E i \in D : current[i].tid.path = x
  BY DEF PathsOf
<1>6. ASSUME NEW i \in D, NEW j \in D, i < j, current[i].tid.path # current[j].tid.path
      PROVE  <<current[i].tid.path, current[j].tid.path>> \in R
  BY <1>4, <1>6 DEF Earlier
<1> HIDE DEF r, t, S, R
<1>7. IsListing(r, R, S)
  <2>1. PICK head : IsPathOrder(r, current, head)
    BY <1>2
  <2>2. \A k \in 1..Len(r) : head[k] \in D /\ r[k] = current[head[k]].tid.path
    BY <2>1 DEF IsPathOrder
  <2>3. ASSUME NEW k \in 1..Len(r), NEW l \in 1..Len(r), k < l
        PROVE  <<r[k], r[l]>> \in R
    <3> DEFINE i == head[k]
               j == head[l]
    <3>1. /\ i \in D /\ r[k] = current[i].tid.path /\ j \in D /\ r[l] = current[j].tid.path
          /\ i < j /\ r[k] # r[l]
      BY <2>1, <2>2, <2>3 DEF IsPathOrder
    <3> HIDE DEF i, j
    <3>2. QED
      BY <1>6, <3>1
  <2>4. \A k \in 1..Len(r) : r[k] \in S
    BY <1>4, <2>2
  <2>5. \A x \in S : \E k \in 1..Len(r) : r[k] = x
    <3>1. ASSUME NEW x \in S PROVE \E k \in 1..Len(r) : r[k] = x
      <4>1. PICK i \in D : current[i].tid.path = x
        BY <1>5
      <4>2. \E k \in 1..Len(r) : r[k] = current[i].tid.path
        BY <2>1 DEF IsPathOrder
      <4>3. QED
        BY <4>1, <4>2
    <3>2. QED
      BY <3>1
  <2>6. QED
    BY <2>3, <2>4, <2>5 DEF IsListing
<1>8. IsListing(t, R, S)
  <2>1. PICK head : IsPathOrder(t, m, head)
    BY <1>2
  <2>2. ASSUME NEW n \in 1..Len(m)
        PROVE  part[n] \in D /\ m[n].tid.path = current[part[n]].tid.path
    BY DEF FollowsPaths
  <2>3. ASSUME NEW k \in 1..Len(t)
        PROVE  /\ head[k] \in 1..Len(m) /\ part[head[k]] \in D
               /\ t[k] = current[part[head[k]]].tid.path
    <3> DEFINE n == head[k]
    <3>1. n \in 1..Len(m) /\ t[k] = m[n].tid.path
      BY <2>1 DEF IsPathOrder
    <3> HIDE DEF n
    <3>2. part[n] \in D /\ t[k] = current[part[n]].tid.path
      BY <2>2, <3>1
    <3>3. QED
      BY <3>1, <3>2 DEF n
  <2>4. ASSUME NEW k \in 1..Len(t), NEW l \in 1..Len(t), k < l
        PROVE  <<t[k], t[l]>> \in R
    <3> DEFINE i == part[head[k]]
               j == part[head[l]]
    <3>1. i \in D /\ t[k] = current[i].tid.path /\ j \in D /\ t[l] = current[j].tid.path
      BY <2>3
    <3>2. head[k] < head[l] /\ t[k] # t[l]
      BY <2>1, <2>4 DEF IsPathOrder
    <3>3. i <= j
      BY <2>3, <3>2 DEF FollowsPaths
    <3> HIDE DEF i, j
    <3>4. i < j
      BY <1>2, <3>1, <3>2, <3>3
    <3>5. QED
      BY <1>6, <3>1, <3>2, <3>4
  <2>5. \A k \in 1..Len(t) : t[k] \in S
    <3>1. ASSUME NEW k \in 1..Len(t) PROVE t[k] \in S
      <4> DEFINE i == part[head[k]]
      <4>1. i \in D /\ t[k] = current[i].tid.path
        BY <2>3
      <4> HIDE DEF i
      <4>2. QED
        BY <1>4, <4>1
    <3>2. QED
      BY <3>1
  <2>6. \A x \in S : \E k \in 1..Len(t) : t[k] = x
    <3>1. ASSUME NEW x \in S PROVE \E k \in 1..Len(t) : t[k] = x
      <4>1. PICK i \in D : current[i].tid.path = x
        BY <1>5
      <4>2. PICK n \in 1..Len(m) : m[n].tid.path = x
        BY <4>1 DEF FollowsPaths
      <4>3. QED
        BY <2>1, <4>2 DEF IsPathOrder
    <3>2. QED
      BY <3>1
  <2>7. QED
    BY <2>4, <2>5, <2>6 DEF IsListing
<1>9. r = t
  BY <1>2, <1>3, <1>7, <1>8, OneListing
<1>10. QED
  BY <1>9 DEF r, t

(* What is not tried again is picked from both lists alike.                *)
LEMMA OthersAreKept ==
    ASSUME NEW current \in Seq(Scenario), NEW m \in Seq(Scenario), NEW retried,
           NEW part, IsMergeOf(m, current, retried, part)
    PROVE  Picked(m, {n \in 1..Len(m) : Pid(m[n]) \notin retried})
             = Picked(current, {i \in 1..Len(current) : Pid(current[i]) \notin retried})
<1> DEFINE P == {i \in 1..Len(current) : Pid(current[i]) \notin retried}
           Q == {n \in 1..Len(m) : Pid(m[n]) \notin retried}
<1>1. P \in SUBSET (1..Len(current)) /\ Q \in SUBSET (1..Len(m))
  OBVIOUS
<1>2. ASSUME NEW n \in Q PROVE part[n] \in P /\ m[n] = current[part[n]]
  <2> DEFINE i == part[n]
  <2>1. /\ i \in 1..Len(current) /\ Pid(m[n]) = Pid(current[i])
        /\ Pid(m[n]) \notin retried /\ m[n] = current[i]
    BY DEF IsMergeOf
  <2> HIDE DEF i
  <2>2. i \in P /\ m[n] = current[i]
    BY <2>1
  <2>3. QED
    BY <2>2 DEF i
<1>3. \A x, y \in Q : x < y => part[x] < part[y]
  BY DEF IsMergeOf
<1>4. ASSUME NEW i \in P PROVE \E n \in Q : part[n] = i
  <2>1. PICK n \in 1..Len(m) : Pid(m[n]) = Pid(current[i]) /\ part[n] = i
    BY DEF IsMergeOf
  <2>2. n \in Q
    BY <2>1
  <2>3. QED
    BY <2>1, <2>2
<1> HIDE DEF P, Q
<1>5. Picked(m, Q) = Picked(current, P)
  BY <1>1, <1>2, <1>3, <1>4, SamePicked
<1>6. QED
  BY <1>5 DEF P, Q
----------------------------------------------------------------------------
(* The verdicts after an attempt: of the scenario that has the tid, for    *)
(* those checked again, as before for the others.                          *)
AreVerdicts(c, known, scenarios, needs) ==
    /\ DOMAIN c = DOMAIN known \cup needs
    /\ \A t \in DOMAIN known : t \notin needs => c[t] = known[t]
    /\ \A t \in needs : \E i \in 1..Len(scenarios) :
            scenarios[i].tid = t /\ c[t] = scenarios[i].good

LEMMA CheckedProperties ==
    ASSUME NEW known, NEW scenarios \in Seq(Scenario), NEW needs, needs \subseteq TidsOf(scenarios)
    PROVE  AreVerdicts(Checked(known, scenarios, needs), known, scenarios, needs)
<1> DEFINE IsLast(t, i) == /\ scenarios[i].tid = t
                           /\ \A j \in DOMAIN scenarios : scenarios[j].tid = t => j <= i
           last(t) == CHOOSE i \in DOMAIN scenarios : IsLast(t, i)
           c == Checked(known, scenarios, needs)
<1>1. Len(scenarios) \in Nat /\ DOMAIN scenarios = 1..Len(scenarios)
  BY LenProperties
<1>2. ASSUME NEW t \in needs
      PROVE  \E i \in DOMAIN scenarios : IsLast(t, i)
  <2> DEFINE S == {i \in 1..Len(scenarios) : scenarios[i].tid = t}
  <2>1. t \in TidsOf(scenarios)
    OBVIOUS
  <2>2. S # {}
    BY <1>1, <2>1 DEF TidsOf, ToSet
  <2>3. S \in SUBSET (1..Len(scenarios))
    OBVIOUS
  <2>4. \E i \in S : \A j \in S : j <= i
    <3> HIDE DEF S
    <3>1. QED
      BY <1>1, <2>2, <2>3, LargestIndex
  <2>5. QED
    BY <1>1, <2>4
<1>3. \A t \in needs : last(t) \in DOMAIN scenarios /\ IsLast(t, last(t))
  <2> HIDE DEF IsLast
  <2>1. QED
    BY <1>2
<1>4. \A t \in needs : last(t) \in 1..Len(scenarios) /\ scenarios[last(t)].tid = t
  <2> HIDE DEF last
  <2>1. QED
    BY <1>1, <1>3
<1>5. c = [t \in DOMAIN known \cup needs |->
              IF t \in needs THEN scenarios[last(t)].good ELSE known[t]]
  BY DEF Checked
<1> HIDE DEF last, c
<1>6. /\ DOMAIN c = DOMAIN known \cup needs
      /\ \A t \in needs : c[t] = scenarios[last(t)].good
      /\ \A t \in DOMAIN known : t \notin needs => c[t] = known[t]
  BY <1>5
<1>7. QED
  BY <1>4, <1>6 DEF c, AreVerdicts

LEMMA TidsOfList ==
    ASSUME NEW scenarios \in Seq(Scenario)
    PROVE  /\ \A i \in 1..Len(scenarios) : scenarios[i].tid \in TidsOf(scenarios)
           /\ \A t \in TidsOf(scenarios) : \E i \in 1..Len(scenarios) : t = scenarios[i].tid
<1>1. DOMAIN scenarios = 1..Len(scenarios)
  BY LenProperties
<1>2. QED
  BY <1>1 DEF TidsOf, ToSet

(* Failed holds the scenarios of the list with a negative verdict.         *)
LEMMA FailedProperties ==
    ASSUME list \in Seq(Scenario)
    PROVE  /\ Failed \in Seq(Scenario)
           /\ \A n \in 1..Len(Failed) : \E i \in 1..Len(list) :
                    Failed[n] = list[i] /\ ~outcomes[list[i].tid]
           /\ \A i \in 1..Len(list) : ~outcomes[list[i].tid] =>
                    \E n \in 1..Len(Failed) : Failed[n] = list[i]
<1> DEFINE P == {i \in 1..Len(list) : ~outcomes[list[i].tid]}
<1>1. DOMAIN list = 1..Len(list) /\ P \in SUBSET (1..Len(list))
  BY LenProperties
<1>2. Failed = Picked(list, P)
  BY <1>1 DEF Failed
<1>3. \A i \in 1..Len(list) : i \in P <=> ~outcomes[list[i].tid]
  OBVIOUS
<1> HIDE DEF P
<1>4. Failed \in Seq(Scenario) /\ \E order : IsSelection(list, P, Failed, order)
  BY <1>1, <1>2, PickedProperties
<1>5. PICK order : IsSelection(list, P, Failed, order)
  BY <1>4
<1>6. /\ \A n \in 1..Len(Failed) : order[n] \in P /\ Failed[n] = list[order[n]]
      /\ \A i \in P : \E n \in 1..Len(Failed) : order[n] = i
  BY <1>5 DEF IsSelection
<1>7. \A n \in 1..Len(Failed) : order[n] \in 1..Len(list)
  BY <1>1, <1>6
<1>8. QED
  BY <1>3, <1>4, <1>6, <1>7

(* FailedPaths lists the path of every failed scenario, each path once.    *)
LEMMA FailedPathsProperties ==
    ASSUME list \in Seq(Scenario)
    PROVE  /\ FailedPaths \in Seq(PathIds \cup {NotTraceable})
           /\ \A i, j \in 1..Len(FailedPaths) : FailedPaths[i] = FailedPaths[j] => i = j
           /\ \A n \in 1..Len(FailedPaths) : \E i \in 1..Len(list) :
                    FailedPaths[n] = Pid(list[i]) /\ ~outcomes[list[i].tid]
           /\ \A i \in 1..Len(list) : ~outcomes[list[i].tid] =>
                    \E n \in 1..Len(FailedPaths) : FailedPaths[n] = Pid(list[i])
<1> DEFINE Id == PathIds \cup {NotTraceable}
           ids == [i \in DOMAIN Failed |-> Pid(Failed[i])]
           one(i) == IF \E j \in 1..(i - 1) : ids[j] = ids[i] THEN <<>> ELSE <<ids[i]>>
           parts == [i \in DOMAIN ids |-> one(i)]
<1>1. Failed \in Seq(Scenario)
  BY FailedProperties
<1>2. /\ Len(Failed) \in Nat /\ DOMAIN Failed = 1..Len(Failed)
      /\ \A i \in 1..Len(Failed) : Failed[i] \in Scenario
  BY <1>1, LenProperties, ElementOfSeq
<1>3. /\ DOMAIN ids = 1..Len(Failed)
      /\ \A i \in 1..Len(Failed) : ids[i] = Pid(Failed[i]) /\ ids[i] \in Id
  BY <1>2, PidType
<1>4. FailedPaths = FlattenSeq(parts)
  BY DEF FailedPaths
<1> HIDE DEF ids, Id
<1>5. ASSUME NEW i \in 1..Len(Failed)
      PROVE  /\ one(i) \in Seq(Id)
             /\ \A k \in 1..Len(one(i)) : /\ k = 1 /\ one(i)[k] = ids[i]
                                          /\ \A j \in 1..(i - 1) : ids[j] # ids[i]
             /\ (\A j \in 1..(i - 1) : ids[j] # ids[i]) => Len(one(i)) = 1
  <2>1. CASE \E j \in 1..(i - 1) : ids[j] = ids[i]
    <3>1. one(i) = <<>>
      BY <2>1
    <3> HIDE DEF one
    <3>2. one(i) \in Seq(Id) /\ 1..Len(one(i)) = {}
      BY <3>1, EmptySeq
    <3>3. QED
      BY <2>1, <3>2
  <2>2. CASE \A j \in 1..(i - 1) : ids[j] # ids[i]
    <3>1. one(i) = <<ids[i]>> /\ ids[i] \in Id
      BY <1>3, <2>2
    <3> HIDE DEF one
    <3>2. one(i) \in Seq(Id) /\ Len(one(i)) = 1 /\ one(i)[1] = ids[i]
      BY <3>1
    <3>3. \A k \in 1..Len(one(i)) : k = 1
      BY <3>2
    <3>4. QED
      BY <2>2, <3>2, <3>3
  <2>3. QED
    BY <2>1, <2>2
<1> HIDE DEF one
<1>6. /\ parts \in Seq(Seq(Id)) /\ Len(parts) = Len(Failed)
      /\ \A i \in 1..Len(Failed) : parts[i] = one(i)
  BY <1>2, <1>3, <1>5
<1> HIDE DEF parts
<1>7. FailedPaths \in Seq(Id) /\ \E part, place : IsPlacing(parts, part, place)
  BY <1>4, <1>6, FlattenSeqPlaces
<1>8. PICK part, place : IsPlacing(parts, part, place)
  BY <1>7
<1>9. /\ \A n \in 1..Len(FailedPaths) : /\ part[n] \in 1..Len(parts)
                                        /\ place[n] \in 1..Len(parts[part[n]])
                                        /\ FailedPaths[n] = parts[part[n]][place[n]]
      /\ \A x, y \in 1..Len(FailedPaths) : part[x] = part[y] /\ place[x] = place[y] => x = y
      /\ \A i \in 1..Len(parts) : \A k \in 1..Len(parts[i]) :
            \E n \in 1..Len(FailedPaths) : part[n] = i /\ place[n] = k
  BY <1>4, <1>8 DEF IsPlacing
<1>10. ASSUME NEW n \in 1..Len(FailedPaths)
       PROVE  /\ part[n] \in 1..Len(Failed) /\ place[n] = 1
              /\ FailedPaths[n] = ids[part[n]]
              /\ \A j \in 1..(part[n] - 1) : ids[j] # ids[part[n]]
  <2> DEFINE i == part[n]
  <2>1. /\ i \in 1..Len(Failed) /\ place[n] \in 1..Len(one(i))
        /\ FailedPaths[n] = one(i)[place[n]]
    BY <1>6, <1>9, ZenonT(60)
  <2> HIDE DEF i
  <2>2. /\ i \in 1..Len(Failed) /\ place[n] = 1 /\ FailedPaths[n] = ids[i]
        /\ \A j \in 1..(i - 1) : ids[j] # ids[i]
    BY <1>5, <2>1
  <2>3. QED
    BY <2>2 DEF i
<1>11. ASSUME NEW x \in 1..Len(FailedPaths), NEW y \in 1..Len(FailedPaths),
              FailedPaths[x] = FailedPaths[y]
       PROVE  x = y
  <2>1. /\ part[x] \in 1..Len(Failed) /\ part[y] \in 1..Len(Failed)
        /\ ids[part[x]] = ids[part[y]] /\ place[x] = place[y]
    BY <1>10, <1>11
  <2>2. ~(part[x] \in 1..(part[y] - 1)) /\ ~(part[y] \in 1..(part[x] - 1))
    BY <1>10, <2>1
  <2>3. part[x] = part[y]
    BY <1>2, <2>1, <2>2
  <2>4. QED
    BY <1>9, <2>1, <2>3
<1>12. ASSUME NEW n \in 1..Len(FailedPaths)
       PROVE  \E i \in 1..Len(list) : FailedPaths[n] = Pid(list[i]) /\ ~outcomes[list[i].tid]
  <2>1. FailedPaths[n] = Pid(Failed[part[n]]) /\ part[n] \in 1..Len(Failed)
    BY <1>3, <1>10
  <2>2. PICK i \in 1..Len(list) : Failed[part[n]] = list[i] /\ ~outcomes[list[i].tid]
    BY <2>1, FailedProperties
  <2>3. QED
    BY <2>1, <2>2
<1>13. ASSUME NEW i \in 1..Len(list), ~outcomes[list[i].tid]
       PROVE  \E n \in 1..Len(FailedPaths) : FailedPaths[n] = Pid(list[i])
  <2>1. PICK f \in 1..Len(Failed) : Failed[f] = list[i]
    BY <1>13, FailedProperties
  <2> DEFINE S == {j \in 1..Len(Failed) : ids[j] = ids[f]}
             T == {Len(Failed) + 1 - j : j \in S}
  <2>2. T \in SUBSET (1..Len(Failed)) /\ T # {}
    BY <1>2, <2>1
  <2>3. PICK u \in T : \A v \in T : v <= u
    <3> HIDE DEF T
    <3>1. QED
      BY <1>2, <2>2, LargestIndex
  <2>4. PICK e \in S : u = Len(Failed) + 1 - e
    OBVIOUS
  <2>5. \A j \in S : Len(Failed) + 1 - j <= Len(Failed) + 1 - e
    BY <2>3, <2>4
  <2>6. e \in 1..Len(Failed) /\ ids[e] = ids[f] /\ \A j \in 1..(e - 1) : ids[j] # ids[e]
    BY <1>2, <2>4, <2>5
  <2>7. e \in 1..Len(parts) /\ 1 \in 1..Len(parts[e])
    <3>1. e \in 1..Len(parts) /\ parts[e] = one(e)
      BY <1>6, <2>6
    <3>2. Len(one(e)) = 1
      BY <1>5, <2>6
    <3>3. QED
      BY <3>1, <3>2
  <2>8. PICK n \in 1..Len(FailedPaths) : part[n] = e /\ place[n] = 1
    BY <1>9, <2>7
  <2>9. FailedPaths[n] = ids[f] /\ ids[f] = Pid(list[i])
    BY <1>3, <1>10, <2>1, <2>6, <2>8
  <2>10. QED
    BY <2>9
<1>14. QED
  BY <1>7, <1>11, <1>12, <1>13 DEF Id
----------------------------------------------------------------------------
(* The types, where the counters stand, and that every scenario of the     *)
(* list has a verdict and a path that was asked for.                       *)
LoopInv ==
    /\ phase \in Phases
    /\ attempt \in 1..MaxAttempts
    /\ retries = IF phase = "escalated" THEN MaxAttempts ELSE attempt - 1
    /\ list \in Seq(Scenario)
    /\ retry_paths \in Seq(PathIds)
    /\ \A i \in 1..Len(list) : /\ list[i].tid \in DOMAIN outcomes
                               /\ list[i].tid.path \in DOMAIN asked
    /\ \A t \in DOMAIN outcomes : outcomes[t] \in BOOLEAN

(* A path that is tried again was asked for in every attempt since it was  *)
(* retrieved, and so was, after an attempt, the path of every scenario     *)
(* that failed: no scenario fails whose path is not tried again.           *)
TryInv ==
    /\ phase = "generate" /\ retry_paths # NoPaths =>
        /\ \A i \in 1..Len(retry_paths) :
            /\ retry_paths[i] \in DOMAIN asked
            /\ asked[retry_paths[i]] = attempt - retry_paths[i].round
        /\ \A i \in 1..Len(list) :
            outcomes[list[i].tid] \/ Pid(list[i]) \in ToSet(retry_paths)
    /\ phase \in {"checked", "escalated"} =>
        \A i \in 1..Len(list) :
            outcomes[list[i].tid] \/ asked[list[i].tid.path] = attempt - list[i].tid.path.round + 1
    /\ phase = "escalated" => attempt = MaxAttempts

(* Tids are unique, so a verdict is about one scenario, the one that is    *)
(* in the list now; this needs that a retried path gets no more scenarios  *)
(* than it had.                                                            *)
VerdictInv ==
    /\ \A i, j \in 1..Len(list) : list[i].tid = list[j].tid => i = j
    /\ \A i \in 1..Len(list) : outcomes[list[i].tid] = list[i].good
    /\ \A i, j \in 1..Len(retry_paths) : retry_paths[i] = retry_paths[j] => i = j
    /\ phase = "passed" => \A i \in 1..Len(list) : outcomes[list[i].tid]

LEMMA AnswersType ==
    ASSUME NEW n \in Nat, NEW items \in Answers(n)
    PROVE  items \in [1..n -> Seq(BOOLEAN)]
<1> DEFINE U == UNION {[1..m -> BOOLEAN] : m \in 0..MaxItems}
<1>1. \A i \in 1..n : \E m \in 0..MaxItems : items[i] \in [1..m -> BOOLEAN]
  <2>1. items \in [1..n -> U]
    BY Zenon DEF Answers
  <2>2. \A x \in U : \E m \in 0..MaxItems : x \in [1..m -> BOOLEAN]
    BY Zenon
  <2> HIDE DEF U
  <2>3. QED
    BY <2>1, <2>2
<1>2. \A i \in 1..n : items[i] \in Seq(BOOLEAN)
  <2>1. ASSUME NEW i \in 1..n PROVE items[i] \in Seq(BOOLEAN)
    <3>1. PICK m \in 0..MaxItems : items[i] \in [1..m -> BOOLEAN]
      BY <1>1
    <3>2. m \in Nat
      BY ConstantsAssumption
    <3> DEFINE s == items[i]
    <3>3. s \in [1..m -> BOOLEAN]
      BY <3>1
    <3> HIDE DEF s
    <3>4. s \in Seq(BOOLEAN)
      BY <3>2, <3>3
    <3>5. QED
      BY <3>4 DEF s
  <2>2. QED
    BY <2>1
<1>3. items = [i \in 1..n |-> items[i]]
  BY DEF Answers
<1>4. QED
  BY <1>2, <1>3

LEMMA ToSetIndices ==
    ASSUME NEW T, NEW s \in Seq(T)
    PROVE  /\ \A i \in 1..Len(s) : s[i] \in ToSet(s) /\ s[i] \in T
           /\ \A x \in ToSet(s) : \E i \in 1..Len(s) : x = s[i]
BY LenProperties, ElementOfSeq DEF ToSet

LEMMA GoodType == \A s \in Scenario : s.tid \in Tids /\ s.good \in BOOLEAN
BY DEF Scenario

(* The invariants hold initially.                                          *)
LEMMA LoopInit == Init => LoopInv /\ TryInv /\ VerdictInv
<1> SUFFICES ASSUME Init PROVE LoopInv /\ TryInv /\ VerdictInv
  OBVIOUS
<1>1. list = <<>> /\ list \in Seq(Scenario) /\ 1..Len(list) = {}
  BY EmptySeq DEF Init
<1>2. retry_paths = <<>> /\ retry_paths \in Seq(PathIds) /\ 1..Len(retry_paths) = {}
  BY EmptySeq DEF Init, NoPaths
<1>3. /\ phase = "generate" /\ attempt = 1 /\ retries = 0
      /\ \A t \in DOMAIN outcomes : FALSE
  BY DEF Init
<1>4. LoopInv
  BY <1>1, <1>2, <1>3, ConstantsAssumption DEF LoopInv, Phases
<1>5. TryInv
  BY <1>2, <1>3 DEF TryInv, NoPaths
<1>6. VerdictInv
  BY <1>1, <1>2, <1>3 DEF VerdictInv
<1>7. QED
  BY <1>4, <1>5, <1>6

(* A full attempt.                                                         *)
LEMMA FullAttemptKeepsInv ==
    ASSUME LoopInv, NEW count \in 1..MaxPaths, NEW items \in Answers(count),
           FullAttempt(count, items)
    PROVE  LoopInv' /\ TryInv' /\ (VerdictInv => VerdictInv')
<1> DEFINE paths == [i \in 1..count |-> [round |-> attempt, n |-> i]]
<1>1. count \in Nat /\ attempt \in 1..MaxAttempts
  BY ConstantsAssumption DEF LoopInv
<1>2. \A i \in 1..count : [round |-> attempt, n |-> i] \in PathIds
  BY <1>1, ConstantsAssumption DEF PathIds
<1>3. paths \in Seq(PathIds) /\ Len(paths) = count
  BY <1>1, <1>2
<1>4. \A i \in 1..count : paths[i].round = attempt
  OBVIOUS
<1>5. /\ phase = "generate" /\ phase' = "checked"
      /\ list' = GenerateScenarios(paths, items)
      /\ outcomes' = Checked([t \in {} |-> TRUE], list', TidsOf(list'))
      /\ asked' = [p \in ToSet(paths) |-> 1]
      /\ UNCHANGED <<attempt, retry_paths, retries>>
  BY DEF FullAttempt
<1> HIDE DEF paths
<1>6. items \in [1..Len(paths) -> Seq(BOOLEAN)]
  BY <1>1, <1>3, AnswersType
<1>7. /\ list' \in Seq(Scenario)
      /\ \A n \in 1..Len(list') : /\ list'[n].tid.seq = n
                                  /\ list'[n].tid.path \in ToSet(paths)
  BY <1>3, <1>5, <1>6, GeneratedScenarios, ZenonT(60)
<1>8. /\ \A i \in 1..Len(list') : list'[i].tid \in TidsOf(list')
      /\ \A t \in TidsOf(list') : \E i \in 1..Len(list') : t = list'[i].tid
  BY <1>7, TidsOfList
<1>9. /\ DOMAIN outcomes' = TidsOf(list')
      /\ \A t \in TidsOf(list') : \E i \in 1..Len(list') :
            list'[i].tid = t /\ outcomes'[t] = list'[i].good
  <2> DEFINE none == [t \in {} |-> TRUE]
  <2>1. DOMAIN none = {}
    OBVIOUS
  <2> HIDE DEF none
  <2>2. AreVerdicts(outcomes', none, list', TidsOf(list'))
    BY <1>5, <1>7, CheckedProperties DEF none
  <2>3. QED
    BY <2>1, <2>2 DEF AreVerdicts
<1>10. \A i \in 1..Len(list') : list'[i] \in Scenario /\ list'[i].good \in BOOLEAN
  BY <1>7, ElementOfSeq, GoodType
<1>11. DOMAIN asked' = ToSet(paths) /\ \A p \in ToSet(paths) : asked'[p] = 1 /\ p.round = attempt
  BY <1>3, <1>4, <1>5, ToSetIndices
<1>12. LoopInv'
  <2>1. /\ phase' \in Phases /\ attempt' \in 1..MaxAttempts
        /\ retries' = IF phase' = "escalated" THEN MaxAttempts ELSE attempt' - 1
        /\ retry_paths' \in Seq(PathIds)
    BY <1>5 DEF LoopInv, Phases
  <2>2. \A t \in DOMAIN outcomes' : outcomes'[t] \in BOOLEAN
    BY <1>9, <1>10
  <2>3. \A i \in 1..Len(list') : /\ list'[i].tid \in DOMAIN outcomes'
                                 /\ list'[i].tid.path \in DOMAIN asked'
    BY <1>7, <1>8, <1>9, <1>11
  <2>4. QED
    BY <1>7, <2>1, <2>2, <2>3 DEF LoopInv
<1>13. TryInv'
  <2>1. \A i \in 1..Len(list') :
            asked'[list'[i].tid.path] = attempt' - list'[i].tid.path.round + 1
    BY <1>1, <1>5, <1>7, <1>11
  <2>2. QED
    BY <1>5, <2>1 DEF TryInv
<1>14. ASSUME VerdictInv PROVE VerdictInv'
  <2>1. \A i, j \in 1..Len(list') : list'[i].tid = list'[j].tid => i = j
    BY <1>7
  <2>2. \A i \in 1..Len(list') : outcomes'[list'[i].tid] = list'[i].good
    BY <1>8, <1>9, <2>1
  <2>3. \A i, j \in 1..Len(retry_paths') : retry_paths'[i] = retry_paths'[j] => i = j
    BY <1>5, <1>14 DEF VerdictInv
  <2>4. QED
    BY <1>5, <2>1, <2>2, <2>3 DEF VerdictInv
<1>15. QED
  BY <1>12, <1>13, <1>14

(* An attempt for the failing paths alone.                                 *)
LEMMA SubsetAttemptKeepsInv ==
    ASSUME LoopInv, TryInv, NEW items \in Answers(Len(retry_paths)), SubsetAttempt(items)
    PROVE  LoopInv' /\ TryInv' /\ (MoreOnRetry = FALSE /\ VerdictInv => VerdictInv')
<1> DEFINE retried == ToSet(retry_paths)
           new == GenerateScenarios(retry_paths, items)
           needs == NeedsCheck(list', retried)
<1>1. /\ phase = "generate" /\ retry_paths # NoPaths /\ phase' = "checked"
      /\ MoreOnRetry \/ \A i \in DOMAIN items :
                           Len(items[i]) <= Len(OfPath(list, retry_paths[i]))
      /\ list' = MergeRetried(list, new, retried)
      /\ outcomes' = Checked(outcomes, list', needs)
      /\ asked' = [p \in DOMAIN asked |-> IF p \in retried THEN asked[p] + 1 ELSE asked[p]]
      /\ UNCHANGED <<attempt, retry_paths, retries>>
  BY DEF SubsetAttempt
<1>2. /\ list \in Seq(Scenario) /\ retry_paths \in Seq(PathIds) /\ Len(retry_paths) \in Nat
      /\ attempt \in 1..MaxAttempts
      /\ \A i \in 1..Len(list) : /\ list[i].tid \in DOMAIN outcomes
                                 /\ list[i].tid.path \in DOMAIN asked
      /\ \A t \in DOMAIN outcomes : outcomes[t] \in BOOLEAN
  BY LenProperties DEF LoopInv
<1>3. /\ \A i \in 1..Len(retry_paths) : /\ retry_paths[i] \in DOMAIN asked
                                        /\ asked[retry_paths[i]] = attempt - retry_paths[i].round
      /\ \A i \in 1..Len(list) : outcomes[list[i].tid] \/ Pid(list[i]) \in retried
  BY <1>1 DEF TryInv
<1>4. items \in [1..Len(retry_paths) -> Seq(BOOLEAN)]
  BY <1>2, AnswersType
<1>5. /\ \A i \in 1..Len(retry_paths) : retry_paths[i] \in retried /\ retry_paths[i] \in PathIds
      /\ \A p \in retried : \E i \in 1..Len(retry_paths) : p = retry_paths[i]
  BY <1>2, ToSetIndices
<1>6. \A p \in retried : p \in PathIds /\ p \in DOMAIN asked /\ asked[p] = attempt - p.round
  BY <1>3, <1>5
<1>7. /\ new \in Seq(Scenario)
      /\ (\A i, j \in 1..Len(retry_paths) : retry_paths[i] = retry_paths[j] => i = j) =>
            \A i \in 1..Len(retry_paths) : Len(OfPath(new, retry_paths[i])) <= Len(items[i])
  BY <1>2, <1>4, GeneratedScenarios
<1> HIDE DEF retried, new, needs
<1>8. /\ list' \in Seq(Scenario)
      /\ \A n \in 1..Len(list') :
            \/ Pid(list'[n]) \in retried
            \/ Pid(list'[n]) \notin retried /\ \E i \in 1..Len(list) : list'[n] = list[i]
  BY <1>1, <1>2, <1>7, MergeProperties
<1>9. \A i \in 1..Len(list') : list'[i] \in Scenario /\ list'[i].good \in BOOLEAN
  BY <1>8, ElementOfSeq, GoodType
<1>10. /\ \A i \in 1..Len(list') : list'[i].tid \in TidsOf(list')
       /\ needs \in SUBSET TidsOf(list')
       /\ \A i \in 1..Len(list') : list'[i].tid \in needs <=> Pid(list'[i]) \in retried
  <2>1. \A i \in 1..Len(list') : list'[i].tid \in TidsOf(list')
    BY <1>8, TidsOfList
  <2>2. QED
    BY <2>1 DEF needs, NeedsCheck, Pid
<1>11. /\ DOMAIN outcomes' = DOMAIN outcomes \cup needs
       /\ \A t \in DOMAIN outcomes : t \notin needs => outcomes'[t] = outcomes[t]
       /\ \A t \in needs : \E i \in 1..Len(list') :
                list'[i].tid = t /\ outcomes'[t] = list'[i].good
  <2>1. AreVerdicts(outcomes', outcomes, list', needs)
    BY <1>1, <1>8, <1>10, CheckedProperties
  <2>2. QED
    BY <2>1 DEF AreVerdicts
<1>12. /\ DOMAIN asked' = DOMAIN asked
       /\ \A p \in retried : asked'[p] = asked[p] + 1
  BY <1>1, <1>6
<1>13. ASSUME NEW n \in 1..Len(list'), Pid(list'[n]) \in retried
       PROVE  /\ list'[n].tid \in needs /\ list'[n].tid.path \in DOMAIN asked
              /\ asked'[list'[n].tid.path] = attempt - list'[n].tid.path.round + 1
  <2>1. list'[n].tid \in needs /\ list'[n].tid.path = Pid(list'[n])
    BY <1>6, <1>9, <1>10, <1>13, OwnPath
  <2> DEFINE p == Pid(list'[n])
  <2>2. /\ p \in DOMAIN asked /\ p \in PathIds
        /\ asked'[p] = asked[p] + 1 /\ asked[p] = attempt - p.round
    BY <1>6, <1>12, <1>13
  <2>3. p.round \in Int /\ attempt \in Int
    BY <1>2, <2>2 DEF PathIds
  <2> HIDE DEF p
  <2>4. asked'[p] = attempt - p.round + 1
    BY <2>2, <2>3
  <2>5. QED
    BY <2>1, <2>2, <2>4 DEF p
<1>14. ASSUME NEW n \in 1..Len(list'), Pid(list'[n]) \notin retried
       PROVE  \E i \in 1..Len(list) :
                 /\ list'[n] = list[i]
                 /\ list'[n].tid \in DOMAIN outcomes /\ list'[n].tid.path \in DOMAIN asked
                 /\ list'[n].tid \notin needs
                 /\ outcomes'[list'[n].tid] = outcomes[list[i].tid] /\ outcomes[list[i].tid]
  <2>1. PICK i \in 1..Len(list) : list'[n] = list[i]
    BY <1>8, <1>14
  <2>2. list'[n].tid \notin needs
    BY <1>10, <1>14
  <2>3. QED
    BY <1>2, <1>3, <1>11, <1>14, <2>1, <2>2
<1>15. LoopInv'
  <2>1. /\ phase' \in Phases /\ attempt' \in 1..MaxAttempts
        /\ retries' = IF phase' = "escalated" THEN MaxAttempts ELSE attempt' - 1
        /\ retry_paths' \in Seq(PathIds)
    BY <1>1 DEF LoopInv, Phases
  <2>2. \A t \in DOMAIN outcomes' : outcomes'[t] \in BOOLEAN
    BY <1>2, <1>9, <1>11
  <2>3. \A n \in 1..Len(list') : /\ list'[n].tid \in DOMAIN outcomes'
                                 /\ list'[n].tid.path \in DOMAIN asked'
    BY <1>11, <1>12, <1>13, <1>14
  <2>4. QED
    BY <1>8, <2>1, <2>2, <2>3 DEF LoopInv
<1>16. TryInv'
  <2>1. \A n \in 1..Len(list') :
            \/ outcomes'[list'[n].tid]
            \/ asked'[list'[n].tid.path] = attempt' - list'[n].tid.path.round + 1
    BY <1>1, <1>13, <1>14
  <2>2. QED
    BY <1>1, <2>1 DEF TryInv
<1>17. ASSUME MoreOnRetry = FALSE, VerdictInv PROVE VerdictInv'
  <2>1. /\ \A i, j \in 1..Len(list) : list[i].tid = list[j].tid => i = j
        /\ \A i \in 1..Len(list) : outcomes[list[i].tid] = list[i].good
        /\ \A i, j \in 1..Len(retry_paths) : retry_paths[i] = retry_paths[j] => i = j
    BY <1>17 DEF VerdictInv
  <2>2. ASSUME NEW p \in retried PROVE Len(OfPath(new, p)) <= Len(OfPath(list, p))
    <3>1. PICK i \in 1..Len(retry_paths) : p = retry_paths[i]
      BY <1>5
    <3>2. Len(items[i]) <= Len(OfPath(list, p))
      BY <1>1, <1>4, <1>17, <3>1
    <3>3. Len(OfPath(new, p)) <= Len(items[i])
      BY <1>7, <2>1, <3>1
    <3>4. items[i] \in Seq(BOOLEAN) /\ Len(items[i]) \in Nat
      BY <1>4, LenProperties
    <3>5. Len(OfPath(new, p)) \in Nat /\ Len(OfPath(list, p)) \in Nat
      BY <1>2, <1>7, OfPathProperties, LenProperties
    <3>6. QED
      BY <3>2, <3>3, <3>4, <3>5
  <2>3. \A x, y \in 1..Len(list') : list'[x].tid = list'[y].tid => x = y
    BY <1>1, <1>2, <1>7, <2>1, <2>2, MergeProperties, ZenonT(60)
  <2>4. ASSUME NEW n \in 1..Len(list') PROVE outcomes'[list'[n].tid] = list'[n].good
    <3>1. CASE Pid(list'[n]) \in retried
      <4>1. PICK i \in 1..Len(list') : /\ list'[i].tid = list'[n].tid
                                       /\ outcomes'[list'[n].tid] = list'[i].good
        BY <1>11, <1>13, <3>1
      <4>2. i = n
        BY <2>3, <4>1
      <4>3. QED
        BY <4>1, <4>2
    <3>2. CASE Pid(list'[n]) \notin retried
      BY <1>14, <2>1, <3>2
    <3>3. QED
      BY <3>1, <3>2
  <2>5. \A i, j \in 1..Len(retry_paths') : retry_paths'[i] = retry_paths'[j] => i = j
    BY <1>1, <2>1
  <2>6. QED
    BY <1>1, <2>3, <2>4, <2>5 DEF VerdictInv
<1>18. QED
  BY <1>15, <1>16, <1>17

(* The other steps.                                                        *)
LEMMA FailKeepsInv ==
    ASSUME LoopInv, TryInv, Fail
    PROVE  LoopInv' /\ TryInv' /\ (VerdictInv => VerdictInv')
<1>1. /\ phase = "generate" /\ phase' = "failed"
      /\ UNCHANGED <<attempt, retry_paths, list, outcomes, retries, asked>>
  BY DEF Fail
<1>2. LoopInv'
  BY <1>1 DEF LoopInv, Phases
<1>3. TryInv'
  BY <1>1 DEF TryInv
<1>4. VerdictInv => VerdictInv'
  BY <1>1 DEF VerdictInv
<1>5. QED
  BY <1>2, <1>3, <1>4

LEMMA PassKeepsInv ==
    ASSUME LoopInv, TryInv, Pass
    PROVE  LoopInv' /\ TryInv' /\ (VerdictInv => VerdictInv')
<1>1. /\ phase = "checked" /\ phase' = "passed" /\ Failed = <<>>
      /\ UNCHANGED <<attempt, retry_paths, list, outcomes, retries, asked>>
  BY DEF Pass
<1>2. LoopInv'
  BY <1>1 DEF LoopInv, Phases
<1>3. TryInv'
  BY <1>1 DEF TryInv
<1>4. \A i \in 1..Len(list) : outcomes[list[i].tid]
  <2>1. \A i \in 1..Len(list) : ~outcomes[list[i].tid] => \E n \in 1..Len(Failed) : TRUE
    BY FailedProperties DEF LoopInv
  <2>2. 1..Len(Failed) = {}
    BY <1>1, EmptySeq
  <2>3. QED
    BY <2>1, <2>2
<1>5. VerdictInv => VerdictInv'
  BY <1>1, <1>4 DEF VerdictInv
<1>6. QED
  BY <1>2, <1>3, <1>5

LEMMA ExhaustKeepsInv ==
    ASSUME LoopInv, TryInv, Exhaust
    PROVE  LoopInv' /\ TryInv' /\ (VerdictInv => VerdictInv')
<1>1. /\ phase = "checked" /\ phase' = "escalated" /\ ~(attempt < MaxAttempts)
      /\ retries' = MaxAttempts
      /\ UNCHANGED <<attempt, retry_paths, list, outcomes, asked>>
  BY DEF Exhaust, AttemptsLeft
<1>2. LoopInv'
  BY <1>1 DEF LoopInv, Phases
<1>3. attempt = MaxAttempts
  BY <1>1, ConstantsAssumption DEF LoopInv
<1>4. TryInv'
  BY <1>1, <1>3 DEF TryInv
<1>5. VerdictInv => VerdictInv'
  BY <1>1 DEF VerdictInv
<1>6. QED
  BY <1>2, <1>4, <1>5

(* The paths that are tried again are those of the failed scenarios.       *)
LEMMA RetryKeepsInv ==
    ASSUME LoopInv, TryInv, Retry
    PROVE  LoopInv' /\ TryInv' /\ (VerdictInv => VerdictInv')
<1>1. /\ phase = "checked" /\ phase' = "generate" /\ attempt < MaxAttempts
      /\ retry_paths' = IF NotTraceable \in ToSet(FailedPaths) THEN NoPaths ELSE FailedPaths
      /\ attempt' = attempt + 1 /\ retries' = retries + 1
      /\ UNCHANGED <<list, outcomes, asked>>
  BY DEF Retry, AttemptsLeft
<1>2. /\ list \in Seq(Scenario) /\ attempt \in 1..MaxAttempts /\ retries = attempt - 1
      /\ \A i \in 1..Len(list) : /\ list[i].tid \in DOMAIN outcomes
                                 /\ list[i].tid.path \in DOMAIN asked
      /\ \A t \in DOMAIN outcomes : outcomes[t] \in BOOLEAN
  BY <1>1 DEF LoopInv
<1>3. /\ FailedPaths \in Seq(PathIds \cup {NotTraceable})
      /\ \A i, j \in 1..Len(FailedPaths) : FailedPaths[i] = FailedPaths[j] => i = j
      /\ \A n \in 1..Len(FailedPaths) : \E i \in 1..Len(list) :
            FailedPaths[n] = Pid(list[i]) /\ ~outcomes[list[i].tid]
      /\ \A i \in 1..Len(list) : ~outcomes[list[i].tid] =>
            \E n \in 1..Len(FailedPaths) : FailedPaths[n] = Pid(list[i])
  BY <1>2, FailedPathsProperties
<1>4. CASE NotTraceable \in ToSet(FailedPaths)
  <2>1. retry_paths' = <<>> /\ retry_paths' = NoPaths
    BY <1>1, <1>4 DEF NoPaths
  <2>2. retry_paths' \in Seq(PathIds) /\ 1..Len(retry_paths') = {}
    BY <2>1, EmptySeq
  <2>3. LoopInv'
    BY <1>1, <1>2, <2>2, ConstantsAssumption DEF LoopInv, Phases
  <2>4. TryInv'
    BY <1>1, <2>1 DEF TryInv
  <2>5. VerdictInv => VerdictInv'
    BY <1>1, <2>2 DEF VerdictInv
  <2>6. QED
    BY <2>3, <2>4, <2>5
<1>5. CASE NotTraceable \notin ToSet(FailedPaths)
  <2>1. retry_paths' = FailedPaths
    BY <1>1, <1>5
  <2>2. \A n \in 1..Len(FailedPaths) : /\ FailedPaths[n] \in ToSet(FailedPaths)
                                       /\ FailedPaths[n] \in PathIds
    BY <1>3, <1>5, ToSetIndices
  <2>3. FailedPaths \in Seq(PathIds)
    <3>1. Len(FailedPaths) \in Nat /\ FailedPaths = [n \in 1..Len(FailedPaths) |-> FailedPaths[n]]
      BY <1>3
    <3>2. QED
      BY <2>2, <3>1
  <2>4. LoopInv'
    BY <1>1, <1>2, <2>1, <2>3, ConstantsAssumption DEF LoopInv, Phases
  <2>5. ASSUME NEW n \in 1..Len(FailedPaths)
        PROVE  /\ FailedPaths[n] \in DOMAIN asked
               /\ asked[FailedPaths[n]] = attempt + 1 - FailedPaths[n].round
    <3>1. PICK i \in 1..Len(list) : FailedPaths[n] = Pid(list[i]) /\ ~outcomes[list[i].tid]
      BY <1>3
    <3> DEFINE p == FailedPaths[n]
    <3>2. list[i] \in Scenario /\ p \in PathIds
      BY <1>2, <2>2, ElementOfSeq
    <3>3. list[i].tid.path = p
      BY <3>1, <3>2, OwnPath
    <3>4. p \in DOMAIN asked /\ asked[p] = attempt - p.round + 1
      BY <1>1, <1>2, <3>1, <3>3 DEF TryInv
    <3>5. attempt \in Int /\ p.round \in Int
      BY <1>2, <3>2 DEF PathIds
    <3> HIDE DEF p
    <3>6. p \in DOMAIN asked /\ asked[p] = attempt + 1 - p.round
      BY <3>4, <3>5
    <3>7. QED
      BY <3>6 DEF p
  <2>6. \A i \in 1..Len(list) : outcomes[list[i].tid] \/ Pid(list[i]) \in ToSet(FailedPaths)
    BY <1>3, <2>2
  <2>7. TryInv'
    <3>1. ASSUME NEW n \in 1..Len(retry_paths')
          PROVE  /\ retry_paths'[n] \in DOMAIN asked'
                 /\ asked'[retry_paths'[n]] = attempt' - retry_paths'[n].round
      <4> DEFINE p == FailedPaths[n]
      <4>1. n \in 1..Len(FailedPaths) /\ retry_paths'[n] = p
        BY <2>1
      <4>2. p \in DOMAIN asked /\ asked[p] = attempt + 1 - p.round
        BY <2>5, <4>1
      <4>3. asked' = asked /\ attempt' = attempt + 1
        BY <1>1
      <4>4. attempt \in Int /\ p.round \in Int
        BY <1>2, <2>2, <4>1 DEF PathIds
      <4> HIDE DEF p
      <4>5. QED
        BY <4>1, <4>2, <4>3, <4>4
    <3>2. \A i \in 1..Len(list') : outcomes'[list'[i].tid] \/ Pid(list'[i]) \in ToSet(retry_paths')
      BY <1>1, <2>1, <2>6
    <3>3. QED
      BY <1>1, <3>1, <3>2 DEF TryInv
  <2>8. VerdictInv => VerdictInv'
    BY <1>1, <1>3, <2>1 DEF VerdictInv
  <2>9. QED
    BY <2>4, <2>7, <2>8
<1>6. QED
  BY <1>4, <1>5

LEMMA StepKeepsInv ==
    ASSUME LoopInv, TryInv, [Next]_vars
    PROVE  LoopInv' /\ TryInv' /\ (MoreOnRetry = FALSE /\ VerdictInv => VerdictInv')
<1>1. ASSUME NEW count \in 1..MaxPaths, NEW items \in Answers(count), FullAttempt(count, items)
      PROVE  LoopInv' /\ TryInv' /\ (VerdictInv => VerdictInv')
  BY <1>1, FullAttemptKeepsInv
<1>2. ASSUME NEW items \in Answers(Len(retry_paths)), SubsetAttempt(items)
      PROVE  LoopInv' /\ TryInv' /\ (MoreOnRetry = FALSE /\ VerdictInv => VerdictInv')
  BY <1>2, SubsetAttemptKeepsInv
<1>3. CASE Fail
  BY <1>3, FailKeepsInv
<1>4. CASE Pass
  BY <1>4, PassKeepsInv
<1>5. CASE Retry
  BY <1>5, RetryKeepsInv
<1>6. CASE Exhaust
  BY <1>6, ExhaustKeepsInv
<1>7. CASE UNCHANGED vars
  <2>1. LoopInv'
    BY <1>7 DEF LoopInv, vars
  <2>2. TryInv'
    BY <1>7 DEF TryInv, vars
  <2>3. VerdictInv => VerdictInv'
    BY <1>7 DEF VerdictInv, vars
  <2>4. QED
    BY <2>1, <2>2, <2>3
<1>8. QED
  BY <1>1, <1>2, <1>3, <1>4, <1>5, <1>6, <1>7 DEF Next

LEMMA LoopInvariant == Spec => [](LoopInv /\ TryInv)
<1>1. Init => LoopInv /\ TryInv
  BY LoopInit
<1>2. LoopInv /\ TryInv /\ [Next]_vars => (LoopInv /\ TryInv)'
  BY StepKeepsInv
<1>3. QED
  BY <1>1, <1>2, PTL DEF Spec

LEMMA VerdictInvariant == ASSUME MoreOnRetry = FALSE PROVE Spec => []VerdictInv
<1>1. Init => VerdictInv
  BY LoopInit
<1>2. LoopInv /\ TryInv /\ VerdictInv /\ [Next]_vars => VerdictInv'
  BY StepKeepsInv, MoreOnRetry = FALSE
<1>3. QED
  BY <1>1, <1>2, LoopInvariant, PTL DEF Spec

(* What an attempt for the failing paths makes of the list.                *)
LEMMA SubsetAttemptMerges ==
    ASSUME LoopInv, NEW items \in Answers(Len(retry_paths)), SubsetAttempt(items)
    PROVE  /\ list' \in Seq(Scenario) /\ retry_paths' = retry_paths
           /\ \E part : /\ IsMergeOf(list', list, ToSet(retry_paths), part)
                        /\ FollowsPaths(list', list, part)
<1> DEFINE retried == ToSet(retry_paths)
           new == GenerateScenarios(retry_paths, items)
<1>1. /\ list \in Seq(Scenario) /\ retry_paths \in Seq(PathIds) /\ Len(retry_paths) \in Nat
  BY LenProperties DEF LoopInv
<1>2. list' = MergeRetried(list, new, retried) /\ retry_paths' = retry_paths
  BY DEF SubsetAttempt
<1>3. retried \in SUBSET PathIds
  BY <1>1, ToSetIndices
<1>4. items \in [1..Len(retry_paths) -> Seq(BOOLEAN)]
  BY <1>1, AnswersType
<1>5. new \in Seq(Scenario)
  BY <1>1, <1>4, GeneratedScenarios, ZenonT(60)
<1> HIDE DEF new, retried
<1>6. list' \in Seq(Scenario) /\ \E part : IsMergeOf(list', list, retried, part)
  BY <1>1, <1>2, <1>5, MergeKeepsOrder
<1>7. PICK part : IsMergeOf(list', list, retried, part)
  BY <1>6
<1>8. FollowsPaths(list', list, part)
  BY <1>1, <1>3, <1>6, <1>7, MergedPaths
<1>9. QED
  BY <1>2, <1>6, <1>7, <1>8 DEF retried

(* At any time the scenarios of a path stand together in the list.         *)
LEMMA PathsStandTogether == Spec => []Grouped(list)
<1>1. Init => Grouped(list)
  <2>1. Init => 1..Len(list) = {}
    BY EmptySeq DEF Init
  <2>2. QED
    BY <2>1 DEF Grouped
<1>2. LoopInv /\ Grouped(list) /\ [Next]_vars => Grouped(list)'
  <2> SUFFICES ASSUME LoopInv, Grouped(list), [Next]_vars PROVE Grouped(list)'
    OBVIOUS
  <2>1. ASSUME NEW count \in 1..MaxPaths, NEW items \in Answers(count), FullAttempt(count, items)
        PROVE  Grouped(list')
    <3> DEFINE paths == [i \in 1..count |-> [round |-> attempt, n |-> i]]
    <3>1. count \in Nat /\ attempt \in 1..MaxAttempts
      BY ConstantsAssumption DEF LoopInv
    <3>2. \A i \in 1..count : [round |-> attempt, n |-> i] \in PathIds
      BY <3>1, ConstantsAssumption DEF PathIds
    <3>3. paths \in Seq(PathIds) /\ Len(paths) = count
      BY <3>1, <3>2
    <3>4. \A i, j \in 1..Len(paths) : paths[i] = paths[j] => i = j
      <4>1. \A i \in 1..count : paths[i].n = i
        OBVIOUS
      <4>2. QED
        BY <3>3, <4>1
    <3>5. list' = GenerateScenarios(paths, items)
      BY <2>1 DEF FullAttempt
    <3> HIDE DEF paths
    <3>6. items \in [1..Len(paths) -> Seq(BOOLEAN)]
      BY <3>1, <3>3, AnswersType
    <3>7. QED
      BY <3>3, <3>4, <3>5, <3>6, GeneratedScenarios, ZenonT(60)
  <2>2. ASSUME NEW items \in Answers(Len(retry_paths)), SubsetAttempt(items)
        PROVE  Grouped(list')
    <3>1. PICK part : FollowsPaths(list', list, part) /\ list' \in Seq(Scenario)
      BY <2>2, SubsetAttemptMerges
    <3>2. QED
      BY <3>1, FollowerIsGrouped DEF LoopInv
  <2>3. Fail \/ Pass \/ Retry \/ Exhaust \/ UNCHANGED vars => list' = list
    BY DEF Fail, Pass, Retry, Exhaust, vars
  <2>4. list' = list => Grouped(list')
    OBVIOUS
  <2>5. Grouped(list')
    BY <2>1, <2>2, <2>3, <2>4 DEF Next
  <2>6. QED
    BY <2>5 DEF Grouped
<1>3. QED
  BY <1>1, <1>2, LoopInvariant, PTL DEF Spec
----------------------------------------------------------------------------
(* Type correctness of the loop: its counters stay within the attempts,    *)
(* and every scenario of the list has a verdict and a path that was asked  *)
(* for, so neither the verdicts nor the count of tries is read for a       *)
(* scenario the loop knows nothing of.                                     *)
THEOREM OrchestratorTypes == Spec => []TypeOK
<1>1. LoopInv => TypeOK
  <2> SUFFICES ASSUME LoopInv PROVE TypeOK
    OBVIOUS
  <2>1. /\ phase \in Phases /\ attempt \in 1..MaxAttempts
        /\ retries = IF phase = "escalated" THEN MaxAttempts ELSE attempt - 1
        /\ list \in Seq(Scenario) /\ retry_paths \in Seq(PathIds)
        /\ \A t \in DOMAIN outcomes : outcomes[t] \in BOOLEAN
    BY DEF LoopInv
  <2>2. retries \in 0..MaxAttempts
    BY <2>1, ConstantsAssumption
  <2>3. ToSet(list) \subseteq Scenario /\ ToSet(retry_paths) \subseteq PathIds
    BY <2>1, ToSetIndices
  <2>4. TidsOf(list) \subseteq DOMAIN outcomes
    BY <2>1, TidsOfList DEF LoopInv
  <2>5. \A s \in ToSet(list) : s.tid.path \in DOMAIN asked
    BY <2>1, ToSetIndices DEF LoopInv
  <2>6. QED
    BY <2>1, <2>2, <2>3, <2>4, <2>5 DEF TypeOK
<1>2. QED
  BY <1>1, LoopInvariant, PTL

(* generate_and_validate_with_retry flags a scenario as escalated only     *)
(* after every attempt since its path was retrieved was spent on that      *)
(* path: a retry of the failing paths alone forgets none of them.          *)
THEOREM FlagsAfterAllTries == Spec => []FlaggedAfterAllTries
<1>1. LoopInv /\ TryInv => FlaggedAfterAllTries
  <2> SUFFICES ASSUME LoopInv, TryInv, phase = "escalated", NEW s \in ToSet(Failed)
               PROVE  asked[s.tid.path] = MaxAttempts - s.tid.path.round + 1
    BY DEF FlaggedAfterAllTries
  <2>1. list \in Seq(Scenario)
    BY DEF LoopInv
  <2>2. PICK i \in 1..Len(list) : s = list[i] /\ ~outcomes[list[i].tid]
    BY <2>1, FailedProperties, ToSetIndices
  <2>3. asked[list[i].tid.path] = attempt - list[i].tid.path.round + 1 /\ attempt = MaxAttempts
    BY <2>2 DEF TryInv
  <2>4. QED
    BY <2>2, <2>3
<1>2. QED
  BY <1>1, LoopInvariant, PTL

(* As long as a retry brings no more scenarios for a path than it had,     *)
(* what the loop returns is told apart correctly: a scenario is stamped    *)
(* "passed" exactly if the checks accept what it says now, and a call that *)
(* reports "passed" returns no other.  The hypothesis is needed: with more *)
(* scenarios the new ones keep the numbers of their own answer, a tid      *)
(* occurs twice, and one verdict stands for two scenarios.                 *)
THEOREM VerdictsAreTheScenarios ==
    ASSUME MoreOnRetry = FALSE
    PROVE  Spec => []PassedOrFlagged
<1>1. LoopInv /\ VerdictInv => PassedOrFlagged
  <2> SUFFICES ASSUME LoopInv, VerdictInv, phase \in {"passed", "escalated"}
               PROVE  /\ \A s \in ToSet(list) : s.good <=> Stamp(s) = "passed"
                      /\ phase = "passed" => \A s \in ToSet(list) : s.good
    BY DEF PassedOrFlagged
  <2>1. list \in Seq(Scenario)
    BY DEF LoopInv
  <2>2. ASSUME NEW s \in ToSet(list)
        PROVE  /\ s.good \in BOOLEAN /\ outcomes[s.tid] = s.good
               /\ phase = "passed" => outcomes[s.tid]
    <3>1. PICK i \in 1..Len(list) : s = list[i]
      BY <2>1, ToSetIndices
    <3>2. QED
      BY <2>1, <3>1, ElementOfSeq, GoodType DEF VerdictInv
  <2>3. \A s \in ToSet(list) : s.good <=> Stamp(s) = "passed"
    BY <2>2 DEF Stamp
  <2>4. QED
    BY <2>2, <2>3
<1>2. QED
  BY <1>1, LoopInvariant, VerdictInvariant, MoreOnRetry = FALSE, PTL

(* An attempt for the failing paths alone (_merge_retried) loses nothing:  *)
(* the scenarios of the other paths are the same, in the same order, and   *)
(* the paths of the list are the same, in the same order, each with at     *)
(* least one scenario, whatever the model answers for the retried paths,   *)
(* which may be nothing or more scenarios than there were.                 *)
THEOREM RetryKeepsTheRestHolds == Spec => RetryKeepsTheRest
<1> DEFINE Keeps == /\ Others(list') = Others(list)
                    /\ PathOrder(list') = PathOrder(list)
           Again == phase = "generate" /\ phase' = "checked" /\ retry_paths # NoPaths
<1>1. LoopInv /\ Grouped(list) /\ [Next]_vars => [Again => Keeps]_vars
  <2> SUFFICES ASSUME LoopInv, Grouped(list), Next, Again PROVE Keeps
    OBVIOUS
  <2>1. PICK items \in Answers(Len(retry_paths)) : SubsetAttempt(items)
    BY DEF Next, FullAttempt, Fail, Pass, Retry, Exhaust
  <2>2. /\ list \in Seq(Scenario) /\ list' \in Seq(Scenario) /\ retry_paths' = retry_paths
        /\ \E part : /\ IsMergeOf(list', list, ToSet(retry_paths), part)
                     /\ FollowsPaths(list', list, part)
    BY <2>1, SubsetAttemptMerges DEF LoopInv
  <2>3. PICK part : /\ IsMergeOf(list', list, ToSet(retry_paths), part)
                    /\ FollowsPaths(list', list, part)
    BY <2>2
  <2>4. PathOrder(list') = PathOrder(list)
    BY <2>2, <2>3, SamePathOrder
  <2>5. DOMAIN list = 1..Len(list) /\ DOMAIN list' = 1..Len(list')
    BY <2>2, LenProperties
  <2>6. Others(list') = Others(list)
    BY <2>2, <2>3, <2>5, OthersAreKept DEF Others
  <2>7. QED
    BY <2>4, <2>6
<1>2. QED
  BY <1>1, LoopInvariant, PathsStandTogether, PTL DEF Spec, RetryKeepsTheRest
=============================================================================
