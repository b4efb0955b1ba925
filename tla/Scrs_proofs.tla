---------------------------- MODULE Scrs_proofs -----------------------------
(***************************************************************************)
(* Proofs about the shared state of the agents: its records (ScrsRecords)  *)
(* and the protocol that saves them (ScrsStore).  Each part is about one   *)
(* of the two specifications and does not use the other.                   *)
(***************************************************************************)
EXTENDS ScrsRecords, ScrsStore, Selections_proofs
-----------------------------------------------------------------------------
(***************************************************************************)
(* ScrsRecords, for any number of managers, threats and saves, any         *)
(* batches, with or without a threat named twice.  A request works on a    *)
(* copy, but its save takes effect only while the copy is the file         *)
(* (CopiesInv); so each step that changes the file is a request made of    *)
(* the file itself (Effect), and a property is proved once per such        *)
(* request.                                                                *)
(***************************************************************************)
USE RecordsAssumption DEF RecordsAssumption

StoreOK(kind, store) ==
    DOMAIN store \subseteq Tids /\ \A t \in DOMAIN store : BodyOK(kind, store[t])

IsBatch(b, kind) ==
    \E n \in Nat : /\ DOMAIN b = 1..n
                   /\ \A i \in 1..n : b[i].tid \in Tids /\ BodyOK(kind, b[i].body)

(* The body a batch leaves for a threat is that of one of its items.       *)
LEMMA LastOfIsItem ==
    ASSUME NEW b, NEW n \in Nat, DOMAIN b = 1..n, NEW t \in TidsOf(b)
    PROVE  \E i \in 1..n : b[i].tid = t /\ LastOf(b, t) = b[i].body
<1> DEFINE S == {i \in 1..n : b[i].tid = t}
           IsLast(i) == b[i].tid = t /\ \A j \in 1..n : b[j].tid = t => j <= i
<1>1. S # {}
  BY DEF TidsOf
<1>2. \E i \in S : \A j \in S : j <= i
  <2>1. S \in SUBSET (1..n)
    OBVIOUS
  <2> HIDE DEF S
  <2>2. QED
    BY <1>1, <2>1, LargestIndex
<1>3. \E i \in 1..n : IsLast(i)
  BY <1>2
<1>4. IsLast(CHOOSE i \in 1..n : IsLast(i)) /\ (CHOOSE i \in 1..n : IsLast(i)) \in 1..n
  BY <1>3
<1>5. LastOf(b, t) = b[CHOOSE i \in 1..n : IsLast(i)].body
  BY DEF LastOf
<1>6. QED
  BY <1>4, <1>5

(* Putting a batch into a store gives a store, with the bodies of the      *)
(* batch for its threats and the old bodies for the others.                *)
LEMMA PutAllOK ==
    ASSUME NEW kind \in Kinds, NEW store, StoreOK(kind, store), NEW b, IsBatch(b, kind)
    PROVE  StoreOK(kind, PutAll(store, b))
<1>1. PICK n \in Nat : DOMAIN b = 1..n /\ \A i \in 1..n : b[i].tid \in Tids /\ BodyOK(kind, b[i].body)
  BY DEF IsBatch
<1>2. \A t \in TidsOf(b) : t \in Tids /\ BodyOK(kind, LastOf(b, t))
  <2>1. ASSUME NEW t \in TidsOf(b) PROVE t \in Tids /\ BodyOK(kind, LastOf(b, t))
    <3>1. PICK i \in 1..n : b[i].tid = t /\ LastOf(b, t) = b[i].body
      BY <1>1, LastOfIsItem
    <3>2. QED
      BY <1>1, <3>1
  <2>2. QED
    BY <2>1
<1>3. QED
  BY <1>2 DEF PutAll, StoreOK

LEMMA WithoutOK ==
    ASSUME NEW kind \in Kinds, NEW store, StoreOK(kind, store), NEW S
    PROVE  StoreOK(kind, Without(store, S))
BY DEF StoreOK, Without

(* What DocOK says, field by field.                                        *)
Fields(d) == d = Document(d.version, d.active, d.latest, d.logged, d.history, d.rejections)
StoresOK(s) == DOMAIN s = Kinds /\ \A k \in Kinds : StoreOK(k, s[k])

LEMMA DocParts ==
    ASSUME NEW d
    PROVE  DocOK(d) <=>
             /\ Fields(d) /\ d.version \in Nat
             /\ StoresOK(d.active) /\ StoresOK(d.latest)
             /\ \A e \in d.logged \cup d.history : EntryOK(e)
             /\ d.rejections \in [Tids -> Nat]
BY DEF DocOK, Fields, StoresOK, StoreOK

LEMMA EntryIsOK ==
    ASSUME NEW kind \in Kinds, NEW t \in Tids, NEW body, BodyOK(kind, body)
    PROVE  EntryOK(Entry(kind, t, body))
BY DEF EntryOK, Entry
LEMMA CommitOK ==
    ASSUME NEW d, DocOK(d), NEW kind \in Kinds, NEW b, IsBatch(b, kind),
           NEW old, \A e \in old : EntryOK(e)
    PROVE  /\ DocOK(Commit(d, kind, b, old))
           /\ Commit(d, kind, b, old).version = d.version
<1> DEFINE e == Commit(d, kind, b, old)
<1>1. /\ Fields(d) /\ d.version \in Nat /\ StoresOK(d.active) /\ StoresOK(d.latest)
      /\ \A x \in d.logged \cup d.history : EntryOK(x)
      /\ d.rejections \in [Tids -> Nat]
  BY DocParts
<1>2. /\ Fields(e) /\ e.version = d.version /\ e.rejections = d.rejections
      /\ e.active = [d.active EXCEPT ![kind] = PutAll(d.active[kind], b)]
      /\ e.latest = [d.latest EXCEPT ![kind] = PutAll(d.latest[kind], b)]
      /\ e.logged = d.logged \cup {Entry(kind, b[i].tid, b[i].body) : i \in DOMAIN b}
      /\ e.history = d.history \cup old
  BY DEF Commit, Document, Fields
<1> HIDE DEF e
<1>3. StoresOK(e.active)
  <2>1. StoreOK(kind, PutAll(d.active[kind], b))
    BY <1>1, PutAllOK DEF StoresOK
  <2>2. QED
    BY <1>1, <1>2, <2>1 DEF StoresOK
<1>4. StoresOK(e.latest)
  <2>1. StoreOK(kind, PutAll(d.latest[kind], b))
    BY <1>1, PutAllOK DEF StoresOK
  <2>2. QED
    BY <1>1, <1>2, <2>1 DEF StoresOK
<1>5. \A x \in e.logged \cup e.history : EntryOK(x)
  <2>1. \A i \in DOMAIN b : EntryOK(Entry(kind, b[i].tid, b[i].body))
    BY EntryIsOK DEF IsBatch
  <2>2. QED
    BY <1>1, <1>2, <2>1
<1>6. DocOK(e)
  BY <1>1, <1>2, <1>3, <1>4, <1>5, DocParts
<1>7. QED
  BY <1>2, <1>6 DEF e

LEMMA RetireOK ==
    ASSUME NEW d, DocOK(d), NEW kind \in Kinds, NEW S
    PROVE  /\ DocOK(Retire(d, kind, S))
           /\ Retire(d, kind, S).version = d.version
<1> DEFINE e == Retire(d, kind, S)
<1>1. /\ Fields(d) /\ d.version \in Nat /\ StoresOK(d.active) /\ StoresOK(d.latest)
      /\ \A x \in d.logged \cup d.history : EntryOK(x)
      /\ d.rejections \in [Tids -> Nat]
  BY DocParts
<1>2. /\ Fields(e) /\ e.version = d.version /\ e.rejections = d.rejections
      /\ e.active = [d.active EXCEPT ![kind] = Without(d.active[kind], S)]
      /\ e.latest = d.latest /\ e.logged = d.logged
      /\ e.history = d.history \cup
            {Entry(kind, t, d.active[kind][t]) : t \in S \cap DOMAIN d.active[kind]}
  BY DEF Retire, Document, Fields
<1> HIDE DEF e
<1>3. StoresOK(e.active)
  <2>1. StoreOK(kind, Without(d.active[kind], S))
    BY <1>1, WithoutOK DEF StoresOK
  <2>2. QED
    BY <1>1, <1>2, <2>1 DEF StoresOK
<1>4. \A t \in S \cap DOMAIN d.active[kind] : EntryOK(Entry(kind, t, d.active[kind][t]))
  BY <1>1, EntryIsOK DEF StoresOK, StoreOK
<1>5. DocOK(e)
  BY <1>1, <1>2, <1>3, <1>4, DocParts
<1>6. QED
  BY <1>2, <1>5 DEF e

(* What a commit puts into the history are entries for stored records.     *)
LEMMA ReplacedOK ==
    ASSUME NEW d, DocOK(d), NEW kind \in Kinds, NEW b
    PROVE  \A e \in Replaced(d, kind, b) : EntryOK(e)
<1>1. \A t \in DOMAIN d.active[kind] : EntryOK(Entry(kind, t, d.active[kind][t]))
  BY DocParts, EntryIsOK DEF StoresOK, StoreOK
<1>2. QED
  BY <1>1 DEF Replaced, Differs

(* The store as the items before the j-th left it.                         *)
LEMMA EarlierItems ==
    ASSUME NEW b, NEW n \in Nat, NEW j \in 1..n, DOMAIN b = 1..n
    PROVE  LET c == SubSeq(b, 1, j - 1)
           IN  DOMAIN c = 1..(j - 1) /\ \A i \in 1..(j - 1) : c[i] = b[i] /\ i \in 1..n
BY SubSeqProperties

LEMMA SupersededOK ==
    ASSUME NEW d, DocOK(d), NEW b, IsBatch(b, "threat")
    PROVE  \A e \in Superseded(d, b) : EntryOK(e)
<1>1. PICK n \in Nat : DOMAIN b = 1..n /\ \A i \in 1..n : b[i].tid \in Tids /\ BodyOK("threat", b[i].body)
  BY DEF IsBatch
<1> DEFINE Before(j) == PutAll(d.active["threat"], SubSeq(b, 1, j - 1))
<1>2. "threat" \in Kinds /\ StoreOK("threat", d.active["threat"])
  BY DocParts DEF StoresOK, Kinds
<1>3. ASSUME NEW j \in 1..n PROVE StoreOK("threat", Before(j))
  <2>1. j - 1 \in Nat
    OBVIOUS
  <2>2. IsBatch(SubSeq(b, 1, j - 1), "threat")
    <3> DEFINE c == SubSeq(b, 1, j - 1)
    <3>1. DOMAIN c = 1..(j - 1) /\ \A i \in 1..(j - 1) : c[i] = b[i] /\ i \in 1..n
      BY <1>1, EarlierItems
    <3> HIDE DEF c
    <3>2. \A i \in 1..(j - 1) : c[i].tid \in Tids /\ BodyOK("threat", c[i].body)
      BY <1>1, <3>1
    <3>3. IsBatch(c, "threat")
      BY <2>1, <3>1, <3>2 DEF IsBatch
    <3>4. QED
      BY <3>3 DEF c
  <2>3. QED
    BY <1>2, <2>2, PutAllOK
<1>4. ASSUME NEW j \in 1..n, b[j].tid \in DOMAIN Before(j)
      PROVE  EntryOK(Entry("threat", b[j].tid, Before(j)[b[j].tid]))
  BY <1>2, <1>3, <1>4, EntryIsOK DEF StoreOK
<1> HIDE DEF Before
<1>5. QED
  BY <1>1, <1>4 DEF Superseded, Before
----------------------------------------------------------------------------
(***************************************************************************)
(* What one request makes of a document d, before the version is counted.  *)
(***************************************************************************)
Once(b) == RepeatTids \/ \A i, j \in DOMAIN b : b[i].tid = b[j].tid => i = j

CurrentRisks(d, b) ==
    /\ IsBatch(b, "risk") /\ Once(b)
    /\ \A i \in DOMAIN b :
          /\ b[i].tid \in DOMAIN d.active["threat"]
          /\ b[i].body.core.facts = d.active["threat"][b[i].tid].facts

CurrentMappings(d, b) ==
    /\ IsBatch(b, "compliance") /\ Once(b)
    /\ \A i \in DOMAIN b :
          /\ b[i].tid \in DOMAIN d.active["risk"]
          /\ b[i].body.level = d.active["risk"][b[i].tid].core.level

CommitsScenarios(d, e) ==
    \E b : IsBatch(b, "threat") /\ Once(b) /\ e = Commit(d, "threat", b, Superseded(d, b))
CommitsRisks(d, e) ==
    \E b : CurrentRisks(d, b) /\ e = Commit(d, "risk", b, Replaced(d, "risk", b))
CommitsMappings(d, e) ==
    \E b : CurrentMappings(d, b) /\ e = Commit(d, "compliance", b, Replaced(d, "compliance", b))
(* Threats are retired for facts the request brings; the other records     *)
(* only if the document itself says they are stale.                        *)
MayRetire(d, kind, S) ==
    /\ kind = "risk" => S = StaleRisks(d)
    /\ kind = "compliance" => S = StaleMappings(d)

Retires(d, e) ==
    \E kind \in Kinds, S \in SUBSET Tids : MayRetire(d, kind, S) /\ e = Retire(d, kind, S)
CountsRejection(d, e) ==
    \E t \in Tids : e = [d EXCEPT !.rejections[t] = @ + 1]

Effect(d, e) ==
    \/ CommitsScenarios(d, e) \/ CommitsRisks(d, e) \/ CommitsMappings(d, e)
    \/ Retires(d, e) \/ CountsRejection(d, e) \/ e = d

LEMMA EffectOK ==
    ASSUME NEW d, DocOK(d), NEW e, Effect(d, e)
    PROVE  DocOK(e) /\ e.version = d.version
<1>1. CASE CommitsScenarios(d, e)
  BY <1>1, CommitOK, SupersededOK DEF CommitsScenarios, Kinds
<1>2. CASE CommitsRisks(d, e)
  BY <1>2, CommitOK, ReplacedOK DEF CommitsRisks, CurrentRisks, Kinds
<1>3. CASE CommitsMappings(d, e)
  BY <1>3, CommitOK, ReplacedOK DEF CommitsMappings, CurrentMappings, Kinds
<1>4. CASE Retires(d, e)
  BY <1>4, RetireOK DEF Retires
<1>5. CASE CountsRejection(d, e)
  <2>1. PICK t \in Tids : e = [d EXCEPT !.rejections[t] = @ + 1]
    BY <1>5 DEF CountsRejection
  <2>2. Fields(d) /\ d.rejections \in [Tids -> Nat]
    BY DocParts
  <2>3. /\ Fields(e) /\ e.version = d.version /\ e.active = d.active /\ e.latest = d.latest
        /\ e.logged = d.logged /\ e.history = d.history
        /\ e.rejections = [d.rejections EXCEPT ![t] = @ + 1]
    BY <2>1, <2>2 DEF Fields, Document
  <2>4. e.rejections \in [Tids -> Nat]
    BY <2>2, <2>3
  <2>5. QED
    BY <2>3, <2>4, DocParts
<1>6. QED
  BY <1>1, <1>2, <1>3, <1>4, <1>5 DEF Effect

Requested(m) == \E e : Working(m) /\ Effect(copy[m], e) /\ Save(m, e)

LEMMA BatchIsBatch ==
    ASSUME NEW kind \in Kinds, NEW Items, NEW b \in Batches(kind, Items)
    PROVE  Once(b) /\ \E n \in Nat : DOMAIN b = 1..n /\ \A i \in 1..n : b[i] \in Items
BY DEF Batches, Once

(* Every step loads or drops a copy, or saves the effect of one request.   *)
LEMMA EveryStep ==
    ASSUME TypeOK, [Next]_vars
    PROVE  \/ \E m \in Managers : GetManager(m) \/ DropManager(m) \/ Requested(m)
           \/ UNCHANGED vars
<1>0. \A m \in Managers : DocOK(copy[m]) /\ StoresOK(copy[m].active)
  BY DocParts DEF TypeOK
<1>1. ASSUME NEW m \in Managers, LogOnly(m) PROVE Requested(m)
  BY <1>1 DEF LogOnly, Requested, Effect
<1>2. ASSUME NEW m \in Managers, RetireStaleRisks(m) PROVE Requested(m)
  <2>1. StaleRisks(copy[m]) \in SUBSET Tids
    BY <1>0 DEF StaleRisks, StoresOK, StoreOK, Kinds
  <2>2. Retires(copy[m], Retire(copy[m], "risk", StaleRisks(copy[m])))
    BY <2>1 DEF Retires, MayRetire, Kinds
  <2>3. QED
    BY <1>2, <2>2 DEF RetireStaleRisks, Requested, Effect
<1>3. ASSUME NEW m \in Managers, RetireStaleMappings(m) PROVE Requested(m)
  <2>1. StaleMappings(copy[m]) \in SUBSET Tids
    BY <1>0 DEF StaleMappings, StoresOK, StoreOK, Kinds
  <2>2. Retires(copy[m], Retire(copy[m], "compliance", StaleMappings(copy[m])))
    BY <2>1 DEF Retires, MayRetire, Kinds
  <2>3. QED
    BY <1>3, <2>2 DEF RetireStaleMappings, Requested, Effect
<1>4. ASSUME NEW m \in Managers, NEW b \in Batches("threat", ThreatItems), CommitRun(m, b)
      PROVE  Requested(m)
  <2>1. PICK n \in Nat : DOMAIN b = 1..n /\ \A i \in 1..n : b[i] \in ThreatItems
    BY BatchIsBatch DEF Kinds
  <2>2. IsBatch(b, "threat") /\ Once(b)
    BY <2>1, BatchIsBatch DEF IsBatch, ThreatItems, BodyOK, Kinds
  <2>3. QED
    BY <1>4, <2>2 DEF CommitRun, Requested, Effect, CommitsScenarios
<1>5. ASSUME NEW m \in Managers, NEW f \in Facts, NEW S \in SUBSET Tids, RetireScenarios(m, f, S)
      PROVE  Requested(m)
  BY <1>5 DEF RetireScenarios, Requested, Effect, Retires, MayRetire, Kinds
<1>6. ASSUME NEW m \in Managers, NEW t \in Tids, RejectRisk(m, t) PROVE Requested(m)
  BY <1>6 DEF RejectRisk, Requested, Effect, CountsRejection
<1>7. ASSUME NEW m \in Managers, NEW c \in Batches("risk", RiskChoices), NEW r \in BOOLEAN,
             ApproveRisks(m, c, r)
      PROVE  Requested(m)
  <2> DEFINE b == [i \in DOMAIN c |-> RiskItem(m, c[i].tid, c[i].level, c[i].note, i)]
  <2>1. PICK n \in Nat : DOMAIN c = 1..n /\ \A i \in 1..n : c[i] \in RiskChoices
    BY BatchIsBatch DEF Kinds
  <2>2. \A i \in 1..n : c[i].tid \in DOMAIN copy[m].active["threat"]
    BY <1>7, <2>1 DEF ApproveRisks, TidsOf, Active
  <2>3. ASSUME NEW i \in 1..n
        PROVE  /\ b[i].tid \in Tids /\ BodyOK("risk", b[i].body) /\ b[i].tid = c[i].tid
               /\ b[i].body.core.facts = copy[m].active["threat"][c[i].tid].facts
    <3>1. c[i].tid \in Tids /\ c[i].level \in Levels /\ c[i].note \in Notes /\ i \in Nat
      BY <2>1 DEF RiskChoices
    <3>2. copy[m].active["threat"][c[i].tid] \in ThreatBody
      BY <1>0, <2>2 DEF StoresOK, StoreOK, BodyOK, Kinds
    <3>3. copy[m].rejections[c[i].tid] \in Nat
      BY <1>0, <3>1, DocParts
    <3>4. b[i] = RiskItem(m, c[i].tid, c[i].level, c[i].note, i)
      BY <2>1
    <3> HIDE DEF b
    <3>5. /\ b[i].tid = c[i].tid /\ b[i].body.rank = i
          /\ b[i].body.core.facts = copy[m].active["threat"][c[i].tid].facts
          /\ b[i].body \in RiskBody
      BY <3>1, <3>2, <3>3, <3>4 DEF RiskItem, Active, RiskBody, RiskCore, ThreatBody
    <3>6. QED
      BY <3>1, <3>5 DEF BodyOK
  <2>4. DOMAIN b = 1..n
    BY <2>1
  <2>5. ApproveRisks(m, c, r) =>
          Working(m) /\ Save(m, Commit(copy[m], "risk", b, Replaced(copy[m], "risk", b)))
    BY DEF ApproveRisks
  <2> HIDE DEF b
  <2>6. CurrentRisks(copy[m], b)
    <3>1. Once(c)
      BY BatchIsBatch DEF Kinds
    <3>2. Once(b)
      BY <2>1, <2>3, <2>4, <3>1 DEF Once
    <3>3. QED
      BY <2>2, <2>3, <2>4, <3>2 DEF CurrentRisks, IsBatch
  <2>7. QED
    BY <1>7, <2>5, <2>6 DEF Requested, Effect, CommitsRisks
<1>8. ASSUME NEW m \in Managers, NEW c \in Batches("compliance", MappingChoices), NEW r \in BOOLEAN,
             ConfirmMappings(m, c, r)
      PROVE  Requested(m)
  <2> DEFINE b == [i \in DOMAIN c |->
                     [tid |-> c[i].tid,
                      body |-> [level |-> Active(m, "risk")[c[i].tid].core.level,
                                class |-> c[i].class]]]
  <2>1. PICK n \in Nat : DOMAIN c = 1..n /\ \A i \in 1..n : c[i] \in MappingChoices
    BY BatchIsBatch, SMTT(60) DEF Kinds
  <2>2. \A i \in 1..n : c[i].tid \in DOMAIN copy[m].active["risk"]
    BY <1>8, <2>1, ZenonT(60) DEF ConfirmMappings, TidsOf, Active
  <2>3. ASSUME NEW i \in 1..n
        PROVE  /\ b[i].tid \in Tids /\ BodyOK("compliance", b[i].body) /\ b[i].tid = c[i].tid
               /\ b[i].body.level = copy[m].active["risk"][c[i].tid].core.level
    <3>1. c[i].tid \in Tids /\ c[i].class \in Classes
      BY <2>1 DEF MappingChoices
    <3>2. copy[m].active["risk"][c[i].tid] \in RiskBody
      BY <1>0, <2>2 DEF StoresOK, StoreOK, BodyOK, Kinds
    <3>3. copy[m].active["risk"][c[i].tid].core.level \in Levels
      BY <3>2 DEF RiskBody, RiskCore
    <3>4. b[i].body \in ComplianceBody
      BY <2>1, <3>1, <3>3 DEF ComplianceBody, Active
    <3>5. QED
      BY <2>1, <3>1, <3>4 DEF BodyOK, Active
  <2>4. DOMAIN b = 1..n
    BY <2>1
  <2>5. ConfirmMappings(m, c, r) =>
          Working(m) /\ Save(m, Commit(copy[m], "compliance", b, Replaced(copy[m], "compliance", b)))
    BY DEF ConfirmMappings
  <2> HIDE DEF b
  <2>6. CurrentMappings(copy[m], b)
    <3>1. Once(c)
      BY BatchIsBatch DEF Kinds
    <3>2. Once(b)
      BY <2>1, <2>3, <2>4, <3>1 DEF Once
    <3>3. QED
      BY <2>2, <2>3, <2>4, <3>2 DEF CurrentMappings, IsBatch
  <2>7. QED
    BY <1>8, <2>5, <2>6 DEF Requested, Effect, CommitsMappings
<1>9. QED
  BY <1>1, <1>2, <1>3, <1>4, <1>5, <1>6, <1>7, <1>8 DEF Next
----------------------------------------------------------------------------
(* A copy is as old as its version says: with the version of the file it   *)
(* is the file.                                                            *)
CopiesInv ==
    \A m \in alive :
        /\ copy[m].version <= doc.version
        /\ copy[m].version = doc.version => copy[m] = doc

RecordsInv == TypeOK /\ CopiesInv

LEMMA EmptyOK == DocOK(EmptyDocument)
<1>1. /\ Fields(EmptyDocument) /\ EmptyDocument.version = 0
      /\ EmptyDocument.active = NoRecords /\ EmptyDocument.latest = NoRecords
      /\ EmptyDocument.logged = {} /\ EmptyDocument.history = {}
      /\ EmptyDocument.rejections = [t \in Tids |-> 0]
  BY DEF EmptyDocument, Document, Fields
<1>2. StoresOK(NoRecords)
  BY DEF NoRecords, StoresOK, StoreOK
<1>3. QED
  BY <1>1, <1>2, DocParts

(* A save takes effect only on the file the request was made from.         *)
LEMMA SaveIsSerial ==
    ASSUME RecordsInv, NEW m \in Managers, Requested(m)
    PROVE  /\ RecordsInv'
           /\ \/ UNCHANGED doc
              \/ \E e : Effect(doc, e) /\ doc' = [e EXCEPT !.version = e.version + 1]
<1> USE DEF RecordsInv, TypeOK
<1>1. PICK e : Working(m) /\ Effect(copy[m], e) /\ Save(m, e)
  BY DEF Requested
<1>2. m \in alive /\ DocOK(doc) /\ \A w \in Managers : DocOK(copy[w])
  BY <1>1 DEF Working
<1>3. DocOK(e) /\ e.version = copy[m].version
  BY <1>1, <1>2, EffectOK
<1>4. doc.version \in Nat /\ \A w \in Managers : copy[w].version \in Nat
  BY <1>2, DocParts
<1>5. CASE doc.version > copy[m].version
  <2>1. UNCHANGED doc /\ alive' = alive \ {m} /\ copy' = [copy EXCEPT ![m] = EmptyDocument]
    BY <1>1, <1>5 DEF Save
  <2>2. DocOK(EmptyDocument)
    BY EmptyOK
  <2>3. TypeOK'
    BY <1>2, <2>1, <2>2
  <2>4. CopiesInv'
    BY <2>1 DEF CopiesInv
  <2>5. QED
    BY <2>1, <2>3, <2>4
<1>6. CASE ~(doc.version > copy[m].version)
  <2>1. /\ doc' = [e EXCEPT !.version = e.version + 1]
        /\ copy' = [copy EXCEPT ![m] = doc'] /\ UNCHANGED alive
    BY <1>1, <1>6 DEF Save
  <2>2. copy[m] = doc
    BY <1>2, <1>4, <1>6 DEF CopiesInv
  <2>3. DocOK(doc') /\ doc'.version = doc.version + 1
    <3>1. /\ Fields(e) /\ e.version \in Nat /\ StoresOK(e.active) /\ StoresOK(e.latest)
          /\ \A x \in e.logged \cup e.history : EntryOK(x)
          /\ e.rejections \in [Tids -> Nat]
      BY <1>3, DocParts
    <3>2. /\ Fields(doc') /\ doc'.version = e.version + 1
          /\ doc'.active = e.active /\ doc'.latest = e.latest
          /\ doc'.logged = e.logged /\ doc'.history = e.history /\ doc'.rejections = e.rejections
      BY <2>1, <3>1 DEF Fields, Document
    <3>3. DocOK(doc')
      <4> HIDE DEF TypeOK, RecordsInv
      <4>1. doc'.version \in Nat
        BY <3>1, <3>2
      <4>2. \A x \in doc'.logged \cup doc'.history : EntryOK(x)
        BY <3>1, <3>2
      <4>3. QED
        BY <3>1, <3>2, <4>1, <4>2, DocParts
    <3>4. QED
      BY <1>3, <2>2, <3>2, <3>3
  <2>4. TypeOK'
    BY <1>2, <2>1, <2>3
  <2>5. CopiesInv'
    <3>1. ASSUME NEW w \in alive PROVE /\ copy'[w].version <= doc'.version
                                       /\ copy'[w].version = doc'.version => copy'[w] = doc'
      BY <1>4, <2>1, <2>3 DEF CopiesInv
    <3>2. QED
      BY <2>1, <3>1 DEF CopiesInv
  <2>6. QED
    BY <1>1, <2>1, <2>2, <2>4, <2>5
<1>7. QED
  BY <1>5, <1>6

(* RecordsInv is inductive, and a step leaves the file alone or saves the *)
(* effect of one request on it.                                            *)
LEMMA Serial ==
    ASSUME RecordsInv, [Next]_vars
    PROVE  /\ RecordsInv'
           /\ \/ UNCHANGED doc
              \/ \E e : Effect(doc, e) /\ doc' = [e EXCEPT !.version = e.version + 1]
<1>1. ASSUME NEW m \in Managers, GetManager(m) PROVE RecordsInv' /\ UNCHANGED doc
  <2>1. TypeOK'
    BY <1>1 DEF RecordsInv, TypeOK, GetManager
  <2>2. CopiesInv'
    <3>1. doc.version \in Nat
      BY DocParts DEF RecordsInv, TypeOK
    <3>2. QED
      BY <1>1, <3>1 DEF RecordsInv, TypeOK, CopiesInv, GetManager
  <2>3. QED
    BY <1>1, <2>1, <2>2 DEF RecordsInv, GetManager
<1>2. ASSUME NEW m \in Managers, DropManager(m) PROVE RecordsInv' /\ UNCHANGED doc
  <2>1. TypeOK'
    BY <1>2, EmptyOK DEF RecordsInv, TypeOK, DropManager
  <2>2. CopiesInv'
    BY <1>2 DEF RecordsInv, TypeOK, CopiesInv, DropManager
  <2>3. QED
    BY <1>2, <2>1, <2>2 DEF RecordsInv, DropManager
<1>3. CASE UNCHANGED vars
  BY <1>3 DEF RecordsInv, TypeOK, CopiesInv, vars
<1>4. QED
  BY <1>1, <1>2, <1>3, EveryStep, SaveIsSerial DEF RecordsInv

LEMMA RecordsInductive == Spec => []RecordsInv
<1>1. Init => RecordsInv
  BY EmptyOK DEF Init, RecordsInv, TypeOK, CopiesInv
<1>2. RecordsInv /\ [Next]_vars => RecordsInv'
  BY Serial
<1>3. QED
  BY <1>1, <1>2, PTL DEF Spec

(* Every reachable state is well typed.                                    *)
THEOREM RecordsTypeCorrect == Spec => []TypeOK
<1>1. RecordsInv => TypeOK
  BY DEF RecordsInv
<1>2. QED
  BY <1>1, RecordsInductive, PTL
----------------------------------------------------------------------------
(***************************************************************************)
(* What a request leaves of a document.  Puts(d, e, kind, b, old): e is d  *)
(* with the batch b put into one kind; Takes: e is d without some records  *)
(* of one kind, which the history keeps.                                   *)
(***************************************************************************)
Puts(d, e, kind, b, old) ==
    /\ IsBatch(b, kind)
    /\ e.active = [d.active EXCEPT ![kind] = PutAll(d.active[kind], b)]
    /\ e.latest = [d.latest EXCEPT ![kind] = PutAll(d.latest[kind], b)]
    /\ e.logged = d.logged \cup {Entry(kind, b[i].tid, b[i].body) : i \in DOMAIN b}
    /\ e.history = d.history \cup old
    /\ e.rejections = d.rejections

Takes(d, e, kind, S) ==
    /\ e.active = [d.active EXCEPT ![kind] = Without(d.active[kind], S)]
    /\ e.latest = d.latest /\ e.logged = d.logged
    /\ e.history = d.history \cup
          {Entry(kind, t, d.active[kind][t]) : t \in S \cap DOMAIN d.active[kind]}
    /\ e.rejections = d.rejections

Keeps(d, e) ==
    /\ e.active = d.active /\ e.latest = d.latest
    /\ e.logged = d.logged /\ e.history = d.history

(* The four ways the file can change.                                      *)
Changed(d, e) ==
    \/ \E b : Once(b) /\ Puts(d, e, "threat", b, Superseded(d, b))
    \/ \E b : CurrentRisks(d, b) /\ Puts(d, e, "risk", b, Replaced(d, "risk", b))
    \/ \E b : CurrentMappings(d, b) /\ Puts(d, e, "compliance", b, Replaced(d, "compliance", b))
    \/ \E kind \in Kinds, S \in SUBSET Tids : MayRetire(d, kind, S) /\ Takes(d, e, kind, S)
    \/ Keeps(d, e) /\ \E t \in Tids : e.rejections = [d.rejections EXCEPT ![t] = @ + 1]
    \/ Keeps(d, e) /\ e.rejections = d.rejections

LEMMA CommitPuts ==
    ASSUME NEW d, NEW f, NEW e, DocOK(d), DocOK(f), NEW kind \in Kinds, NEW b, IsBatch(b, kind), NEW old,
           f = Commit(d, kind, b, old), e = [f EXCEPT !.version = f.version + 1]
    PROVE  Puts(d, e, kind, b, old)
<1>1. Fields(f)
  BY DocParts
<1>2. /\ e.active = f.active /\ e.latest = f.latest /\ e.logged = f.logged
      /\ e.history = f.history /\ e.rejections = f.rejections
  BY <1>1 DEF Fields, Document
<1>3. QED
  BY <1>2 DEF Puts, Commit, Document

LEMMA EffectChanges ==
    ASSUME NEW d, NEW f, NEW e, DocOK(d), Effect(d, f), e = [f EXCEPT !.version = f.version + 1]
    PROVE  Changed(d, e)
<1>1. DocOK(f) /\ Fields(f)
  BY EffectOK, DocParts
<1>2. /\ e.active = f.active /\ e.latest = f.latest /\ e.logged = f.logged
      /\ e.history = f.history /\ e.rejections = f.rejections
  BY <1>1 DEF Fields, Document
<1>3. CASE CommitsScenarios(d, f)
  BY <1>1, <1>3, CommitPuts DEF CommitsScenarios, Changed, Kinds
<1>4. CASE CommitsRisks(d, f)
  BY <1>1, <1>4, CommitPuts DEF CommitsRisks, CurrentRisks, Changed, Kinds
<1>5. CASE CommitsMappings(d, f)
  BY <1>1, <1>5, CommitPuts DEF CommitsMappings, CurrentMappings, Changed, Kinds
<1>6. CASE Retires(d, f)
  <2>1. PICK kind \in Kinds, S \in SUBSET Tids : MayRetire(d, kind, S) /\ f = Retire(d, kind, S)
    BY <1>6 DEF Retires
  <2>2. Takes(d, e, kind, S)
    BY <1>2, <2>1 DEF Takes, Retire, Document
  <2>3. QED
    BY <2>1, <2>2 DEF Changed
<1>7. CASE CountsRejection(d, f)
  <2>1. PICK t \in Tids : f = [d EXCEPT !.rejections[t] = @ + 1]
    BY <1>7 DEF CountsRejection
  <2>2. Fields(d)
    BY DocParts
  <2>3. Keeps(d, f) /\ f.rejections = [d.rejections EXCEPT ![t] = @ + 1]
    BY <2>1, <2>2 DEF Fields, Document, Keeps
  <2>4. QED
    BY <1>2, <2>3 DEF Keeps, Changed
<1>8. CASE f = d
  BY <1>2, <1>8 DEF Keeps, Changed
<1>9. QED
  BY <1>3, <1>4, <1>5, <1>6, <1>7, <1>8 DEF Effect

LEMMA FileChanges ==
    ASSUME RecordsInv, [Next]_vars
    PROVE  DocOK(doc) /\ DocOK(doc') /\ (UNCHANGED doc \/ Changed(doc, doc'))
<1>1. DocOK(doc) /\ DocOK(doc')
  BY Serial DEF RecordsInv, TypeOK
<1>2. QED
  BY <1>1, Serial, EffectChanges

(* A batch put into a store, record by record.                             *)
LEMMA PutAllRecord ==
    ASSUME NEW kind \in Kinds, NEW store, NEW b, IsBatch(b, kind), NEW t \in DOMAIN PutAll(store, b)
    PROVE  \/ /\ t \in TidsOf(b) /\ PutAll(store, b)[t] = LastOf(b, t)
              /\ \E i \in DOMAIN b : b[i].tid = t /\ LastOf(b, t) = b[i].body
           \/ t \in DOMAIN store /\ t \notin TidsOf(b) /\ PutAll(store, b)[t] = store[t]
<1>1. PICK n \in Nat : DOMAIN b = 1..n
  BY DEF IsBatch
<1>2. t \in TidsOf(b) => \E i \in DOMAIN b : b[i].tid = t /\ LastOf(b, t) = b[i].body
  BY <1>1, LastOfIsItem
<1>3. QED
  BY <1>2 DEF PutAll

(* GET /scrs/audit/verify finds nothing wrong: every active record has the *)
(* content of the last approval logged for it, whatever was approved,      *)
(* superseded, retired and approved again before.                          *)
THEOREM IntegrityOkHolds == Spec => []IntegrityOk
<1>1. Init => IntegrityOk
  <2>1. EmptyDocument.active = NoRecords
    BY DEF EmptyDocument, Document
  <2>2. \A k \in Kinds : DOMAIN NoRecords[k] = {}
    BY DEF NoRecords
  <2>3. QED
    BY <2>1, <2>2 DEF Init, IntegrityOk
<1>2. RecordsInv /\ IntegrityOk /\ [Next]_vars => IntegrityOk'
  <2> SUFFICES ASSUME RecordsInv, IntegrityOk, [Next]_vars PROVE IntegrityOk'
    OBVIOUS
  <2>1. /\ DocOK(doc) /\ DOMAIN doc.active = Kinds /\ DOMAIN doc.latest = Kinds
        /\ UNCHANGED doc \/ Changed(doc, doc')
    BY FileChanges, DocParts DEF StoresOK
  <2>2. ASSUME NEW kind \in Kinds, NEW b, NEW old, Puts(doc, doc', kind, b, old) PROVE IntegrityOk'
    BY <2>1, <2>2 DEF Puts, IntegrityOk, PutAll
  <2>3. ASSUME NEW kind \in Kinds, NEW S, Takes(doc, doc', kind, S) PROVE IntegrityOk'
    BY <2>1, <2>3 DEF Takes, IntegrityOk, Without
  <2>4. CASE Keeps(doc, doc') \/ UNCHANGED doc
    BY <2>4 DEF Keeps, IntegrityOk
  <2>5. QED
    BY <2>1, <2>2, <2>3, <2>4 DEF Changed, Kinds
<1>3. QED
  BY <1>1, <1>2, RecordsInductive, PTL DEF Spec

(* Approvals, history and rejection counts are never taken back, although  *)
(* requests work on copies that other requests make out of date.           *)
THEOREM NothingForgottenHolds == Spec => NothingForgotten
<1> DEFINE Step == /\ doc.logged \subseteq doc'.logged
                   /\ doc.history \subseteq doc'.history
                   /\ \A t \in Tids : doc.rejections[t] <= doc'.rejections[t]
<1>1. RecordsInv /\ [Next]_vars => Step
  <2> SUFFICES ASSUME RecordsInv, [Next]_vars PROVE Step
    OBVIOUS
  <2>1. /\ doc.rejections \in [Tids -> Nat]
        /\ UNCHANGED doc \/ Changed(doc, doc')
    BY FileChanges, DocParts
  <2>2. ASSUME NEW kind, NEW b, NEW old, Puts(doc, doc', kind, b, old) PROVE Step
    BY <2>1, <2>2 DEF Puts
  <2>3. ASSUME NEW kind, NEW S, Takes(doc, doc', kind, S) PROVE Step
    BY <2>1, <2>3 DEF Takes
  <2>4. CASE Keeps(doc, doc') /\ \E t \in Tids : doc'.rejections = [doc.rejections EXCEPT ![t] = @ + 1]
    BY <2>1, <2>4 DEF Keeps
  <2>5. CASE Keeps(doc, doc') /\ doc'.rejections = doc.rejections
    BY <2>1, <2>5 DEF Keeps
  <2>6. CASE UNCHANGED doc
    BY <2>1, <2>6
  <2>7. QED
    BY <2>1, <2>2, <2>3, <2>4, <2>5, <2>6 DEF Changed
<1>2. QED
  BY <1>1, RecordsInductive, PTL DEF Spec, NothingForgotten

(* A decision is only stored while what it was made from is what the file  *)
(* holds: a risk for the approved threat, a mapping for the approved risk. *)
THEOREM DecisionsAreCurrentHolds == Spec => DecisionsAreCurrent
<1> DEFINE New(k) == {t \in DOMAIN doc'.active[k] :
                        \/ t \notin DOMAIN doc.active[k]
                        \/ doc.active[k][t] # doc'.active[k][t]}
           Step == /\ \A t \in New("risk") : t \notin StaleRisks(doc')
                   /\ \A t \in New("compliance") : t \notin StaleMappings(doc')
<1>1. RecordsInv /\ [Next]_vars => Step
  <2> SUFFICES ASSUME RecordsInv, [Next]_vars PROVE Step
    OBVIOUS
  <2>1. DOMAIN doc.active = Kinds /\ (UNCHANGED doc \/ Changed(doc, doc'))
    BY FileChanges, DocParts DEF StoresOK
  <2>2. ASSUME NEW b, Puts(doc, doc', "threat", b, Superseded(doc, b)) PROVE Step
    BY <2>1, <2>2 DEF Puts, Kinds
  <2>3. ASSUME NEW b, CurrentRisks(doc, b), Puts(doc, doc', "risk", b, Replaced(doc, "risk", b)) PROVE Step
    <3>1. /\ doc'.active["risk"] = PutAll(doc.active["risk"], b)
          /\ doc'.active["threat"] = doc.active["threat"]
          /\ doc'.active["compliance"] = doc.active["compliance"]
      BY <2>1, <2>3 DEF Puts, Kinds
    <3>2. ASSUME NEW t \in New("risk") PROVE t \notin StaleRisks(doc')
      <4>1. PICK i \in DOMAIN b : b[i].tid = t /\ doc'.active["risk"][t] = b[i].body
        BY <2>3, <3>1, PutAllRecord DEF Puts, Kinds
      <4>2. QED
        BY <2>3, <3>1, <4>1 DEF CurrentRisks, StaleRisks
    <3>3. New("compliance") = {}
      BY <3>1
    <3>4. QED
      BY <3>2, <3>3
  <2>4. ASSUME NEW b, CurrentMappings(doc, b),
               Puts(doc, doc', "compliance", b, Replaced(doc, "compliance", b))
        PROVE  Step
    <3>1. /\ doc'.active["compliance"] = PutAll(doc.active["compliance"], b)
          /\ doc'.active["risk"] = doc.active["risk"]
      BY <2>1, <2>4 DEF Puts, Kinds
    <3>2. ASSUME NEW t \in New("compliance") PROVE t \notin StaleMappings(doc')
      <4>1. PICK i \in DOMAIN b : b[i].tid = t /\ doc'.active["compliance"][t] = b[i].body
        BY <2>4, <3>1, PutAllRecord DEF Puts, Kinds
      <4>2. QED
        BY <2>4, <3>1, <4>1 DEF CurrentMappings, StaleMappings
    <3>3. New("risk") = {}
      BY <3>1
    <3>4. QED
      BY <3>2, <3>3
  <2>5. ASSUME NEW kind \in Kinds, NEW S, Takes(doc, doc', kind, S) PROVE Step
    <3>1. \A k \in Kinds : \A t \in DOMAIN doc'.active[k] :
              t \in DOMAIN doc.active[k] /\ doc.active[k][t] = doc'.active[k][t]
      BY <2>1, <2>5 DEF Takes, Without
    <3>2. QED
      BY <3>1 DEF Kinds
  <2>6. CASE Keeps(doc, doc') \/ UNCHANGED doc
    BY <2>6 DEF Keeps
  <2> HIDE DEF Step
  <2>7. QED
    BY <2>1, <2>2, <2>3, <2>4, <2>5, <2>6 DEF Changed
<1>2. QED
  BY <1>1, RecordsInductive, PTL DEF Spec, DecisionsAreCurrent

(* A gap in the trace only opens by an approval that a later one has to    *)
(* answer, or by taking out what the file itself, not the copy a request   *)
(* loaded earlier, says is stale; and the upstream record that is missed   *)
(* then is in the history.                                                 *)
THEOREM GapsHaveACauseHolds == Spec => GapsHaveACause
<1> DEFINE threat == doc.active["threat"]
           risk == doc.active["risk"]
           mapping == doc.active["compliance"]
           threatNext == doc'.active["threat"]
           riskNext == doc'.active["risk"]
           mappingNext == doc'.active["compliance"]
           Step == /\ \A t \in DOMAIN threatNext \ DOMAIN riskNext :
                         \/ t \in DOMAIN threat \ DOMAIN risk
                         \/ t \notin DOMAIN threat \/ t \in StaleRisks(doc)
                   /\ \A t \in DOMAIN riskNext \ DOMAIN threatNext :
                         \/ t \in DOMAIN risk \ DOMAIN threat
                         \/ t \in DOMAIN threat /\ Entry("threat", t, threat[t]) \in doc'.history
                   /\ \A t \in DOMAIN mappingNext \ DOMAIN riskNext :
                         \/ t \in DOMAIN mapping \ DOMAIN risk
                         \/ t \in StaleRisks(doc) /\ Entry("risk", t, risk[t]) \in doc'.history
                   /\ \A t \in DOMAIN riskNext \ DOMAIN mappingNext :
                         riskNext[t].core.level \in Reduced =>
                             \/ t \in DOMAIN risk \ DOMAIN mapping /\ risk[t].core.level \in Reduced
                             \/ t \notin DOMAIN risk \/ t \in StaleMappings(doc)
                             \/ risk[t].core.level # riskNext[t].core.level
<1>1. RecordsInv /\ [Next]_vars => Step
  <2> SUFFICES ASSUME RecordsInv, [Next]_vars PROVE Step
    OBVIOUS
  <2>1. DOMAIN doc.active = Kinds /\ (UNCHANGED doc \/ Changed(doc, doc'))
    BY FileChanges, DocParts DEF StoresOK
  <2>2. ASSUME NEW b, Puts(doc, doc', "threat", b, Superseded(doc, b)) PROVE Step
    <3>1. riskNext = risk /\ mappingNext = mapping /\ DOMAIN threat \subseteq DOMAIN threatNext
      BY <2>1, <2>2 DEF Puts, PutAll, Kinds
    <3> HIDE DEF threat, risk, mapping, threatNext, riskNext, mappingNext
    <3>2. QED
      BY <3>1
  <2>3. ASSUME NEW b, CurrentRisks(doc, b), Puts(doc, doc', "risk", b, Replaced(doc, "risk", b)) PROVE Step
    <3>1. threatNext = threat /\ mappingNext = mapping /\ riskNext = PutAll(risk, b)
      BY <2>1, <2>3 DEF Puts, Kinds
    <3>2. TidsOf(b) \subseteq DOMAIN threat
      BY <2>3 DEF CurrentRisks, TidsOf
    <3> HIDE DEF threat, risk, mapping, threatNext, riskNext, mappingNext
    <3>3. /\ DOMAIN riskNext = DOMAIN risk \cup TidsOf(b)
          /\ \A t \in DOMAIN risk : t \in TidsOf(b) \/ riskNext[t] = risk[t]
      BY <3>1 DEF PutAll
    <3>4. QED
      BY <3>1, <3>2, <3>3
  <2>4. ASSUME NEW b, CurrentMappings(doc, b),
               Puts(doc, doc', "compliance", b, Replaced(doc, "compliance", b))
        PROVE  Step
    <3>1. threatNext = threat /\ riskNext = risk /\ DOMAIN mappingNext = DOMAIN mapping \cup TidsOf(b)
      BY <2>1, <2>4 DEF Puts, PutAll, Kinds
    <3>2. TidsOf(b) \subseteq DOMAIN risk
      BY <2>4 DEF CurrentMappings, TidsOf
    <3> HIDE DEF threat, risk, mapping, threatNext, riskNext, mappingNext
    <3>3. QED
      BY <3>1, <3>2
  <2>5. ASSUME NEW kind \in Kinds, NEW S, MayRetire(doc, kind, S), Takes(doc, doc', kind, S) PROVE Step
    <3>1. CASE kind = "threat"
      <4>1. /\ riskNext = risk /\ mappingNext = mapping /\ DOMAIN threatNext \subseteq DOMAIN threat
            /\ \A t \in DOMAIN threat \ DOMAIN threatNext : Entry("threat", t, threat[t]) \in doc'.history
        BY <2>1, <2>5, <3>1 DEF Takes, Without, Kinds
      <4> HIDE DEF threat, risk, mapping, threatNext, riskNext, mappingNext
      <4>2. QED
        BY <4>1
    <3>2. CASE kind = "risk"
      <4>1. /\ threatNext = threat /\ mappingNext = mapping
            /\ DOMAIN riskNext \subseteq DOMAIN risk /\ \A t \in DOMAIN riskNext : riskNext[t] = risk[t]
            /\ \A t \in DOMAIN risk \ DOMAIN riskNext :
                  t \in StaleRisks(doc) /\ Entry("risk", t, risk[t]) \in doc'.history
        BY <2>1, <2>5, <3>2 DEF Takes, Without, MayRetire, Kinds
      <4> HIDE DEF threat, risk, mapping, threatNext, riskNext, mappingNext
      <4>2. QED
        BY <4>1
    <3>3. CASE kind = "compliance"
      <4>1. /\ threatNext = threat /\ riskNext = risk /\ DOMAIN mappingNext \subseteq DOMAIN mapping
            /\ \A t \in DOMAIN mapping \ DOMAIN mappingNext : t \in StaleMappings(doc)
        BY <2>1, <2>5, <3>3 DEF Takes, Without, MayRetire, Kinds
      <4> HIDE DEF threat, risk, mapping, threatNext, riskNext, mappingNext
      <4>2. QED
        BY <4>1
    <3>4. QED
      BY <3>1, <3>2, <3>3 DEF Kinds
  <2>6. CASE Keeps(doc, doc') \/ UNCHANGED doc
    <3>1. threatNext = threat /\ riskNext = risk /\ mappingNext = mapping
      BY <2>6 DEF Keeps
    <3> HIDE DEF threat, risk, mapping, threatNext, riskNext, mappingNext
    <3>2. QED
      BY <3>1
  <2> HIDE DEF Step
  <2>7. QED
    BY <2>1, <2>2, <2>3, <2>4, <2>5, <2>6 DEF Changed
<1>2. Step => GapsHaveACause!1
  BY DEF ThreatsWithoutRisk, RisksWithoutThreat, ResistanceWithoutRisk, ReduceWithoutResistance
<1>3. QED
  BY <1>1, <1>2, RecordsInductive, PTL DEF Spec, GapsHaveACause

(* A scenario that is put into the store in another version leaves an      *)
(* entry for the old one, also when the batch names it more than once: the *)
(* first item that differs finds the old one still there.                  *)
LEMMA SupersededHasOld ==
    ASSUME NEW d, DocOK(d), NEW b, IsBatch(b, "threat"), NEW t \in DOMAIN d.active["threat"],
           t \in TidsOf(b), LastOf(b, t) # d.active["threat"][t]
    PROVE  Entry("threat", t, d.active["threat"][t]) \in Superseded(d, b)
<1> DEFINE old == d.active["threat"][t]
           Before(j) == PutAll(d.active["threat"], SubSeq(b, 1, j - 1))
<1>1. PICK n \in Nat : DOMAIN b = 1..n /\ \A i \in 1..n : b[i].tid \in Tids /\ BodyOK("threat", b[i].body)
  BY DEF IsBatch
<1> DEFINE D == {i \in 1..n : b[i].tid = t /\ b[i].body # old}
<1>2. PICK j \in D : \A i \in D : j <= i
  <2>1. D # {}
    BY <1>1, LastOfIsItem
  <2>2. D \in SUBSET (1..n)
    OBVIOUS
  <2> HIDE DEF D
  <2>3. QED
    BY <2>1, <2>2, SmallestIndex
<1>3. j \in 1..n /\ b[j].tid = t /\ b[j].body # old
  BY <1>2
<1>4. t \in DOMAIN Before(j) /\ Before(j)[t] = old
  <2> DEFINE c == SubSeq(b, 1, j - 1)
  <2>1. DOMAIN c = 1..(j - 1) /\ \A i \in 1..(j - 1) : c[i] = b[i] /\ i \in 1..n /\ i < j
    BY <1>1, <1>3, EarlierItems
  <2>2. \A i \in 1..(j - 1) : i \in 1..n /\ b[i].tid = t => b[i].body = old
    BY <1>2, <2>1
  <2> HIDE DEF c, D, old
  <2>3. t \in TidsOf(c) => LastOf(c, t) = old
    <3>1. j - 1 \in Nat
      BY <1>3
    <3>2. QED
      BY <2>1, <2>2, <3>1, LastOfIsItem
  <2>4. QED
    BY <2>3 DEF PutAll, c, old
<1> HIDE DEF D, Before, old
<1>5. Entry("threat", b[j].tid, Before(j)[b[j].tid]) \in Superseded(d, b)
  BY <1>1, <1>3, <1>4 DEF Superseded, Before
<1>6. QED
  BY <1>3, <1>4, <1>5 DEF old

(* A record that the file has keeps its content or leaves it to the        *)
(* history.                                                                *)
Kept(k, t) ==
    \/ /\ t \in DOMAIN doc'.active[k]
       /\ Core(k, doc.active[k][t]) = Core(k, doc'.active[k][t])
    \/ Entry(k, t, doc.active[k][t]) \in doc'.history

LEMMA StepKeeps ==
    ASSUME RecordsInv, [Next]_vars, NEW k \in Kinds, NEW t \in DOMAIN doc.active[k]
    PROVE  Kept(k, t)
<1> USE DEF Kept
<1>1. DocOK(doc) /\ DOMAIN doc.active = Kinds /\ (UNCHANGED doc \/ Changed(doc, doc'))
  BY FileChanges, DocParts DEF StoresOK
<1>2. ASSUME NEW kind \in Kinds, NEW b, NEW old, Puts(doc, doc', kind, b, old), k # kind \/ t \notin TidsOf(b)
      PROVE  Kept(k, t)
  BY <1>1, <1>2 DEF Puts, PutAll
<1>3. ASSUME NEW b, NEW old, Puts(doc, doc', k, b, old), t \in TidsOf(b)
      PROVE  t \in DOMAIN doc'.active[k] /\ doc'.active[k][t] = LastOf(b, t) /\ old \subseteq doc'.history
  BY <1>1, <1>3 DEF Puts, PutAll
<1>4. ASSUME NEW b, Puts(doc, doc', "threat", b, Superseded(doc, b)), k = "threat", t \in TidsOf(b)
      PROVE  Kept(k, t)
  <2>1. t \in DOMAIN doc'.active[k] /\ doc'.active[k][t] = LastOf(b, t)
        /\ Superseded(doc, b) \subseteq doc'.history
    BY <1>3, <1>4
  <2>2. CASE LastOf(b, t) = doc.active[k][t]
    BY <2>1, <2>2
  <2>3. CASE LastOf(b, t) # doc.active[k][t]
    BY <1>1, <1>4, <2>1, <2>3, SupersededHasOld DEF Puts
  <2>4. QED
    BY <2>2, <2>3
<1>5. ASSUME NEW b, Puts(doc, doc', k, b, Replaced(doc, k, b)), t \in TidsOf(b)
      PROVE  Kept(k, t)
  <2>1. t \in DOMAIN doc'.active[k] /\ doc'.active[k][t] = LastOf(b, t)
        /\ Replaced(doc, k, b) \subseteq doc'.history
    BY <1>3, <1>5
  <2>2. Differs(doc, k, t, LastOf(b, t)) => Entry(k, t, doc.active[k][t]) \in Replaced(doc, k, b)
    BY <1>5 DEF Replaced
  <2>3. QED
    BY <2>1, <2>2 DEF Differs
<1>6. ASSUME NEW kind \in Kinds, NEW S, Takes(doc, doc', kind, S) PROVE Kept(k, t)
  <2>1. CASE k = kind /\ t \in S
    BY <1>6, <2>1 DEF Takes
  <2>2. CASE ~(k = kind /\ t \in S)
    BY <1>1, <1>6, <2>2 DEF Takes, Without
  <2>3. QED
    BY <2>1, <2>2
<1>7. CASE Keeps(doc, doc') \/ UNCHANGED doc
  BY <1>7 DEF Keeps
<1>8. ASSUME NEW b, Puts(doc, doc', "threat", b, Superseded(doc, b)) PROVE Kept(k, t)
  BY <1>2, <1>4, <1>8 DEF Kinds
<1>9. ASSUME NEW b, NEW kind \in Kinds, Puts(doc, doc', kind, b, Replaced(doc, kind, b)) PROVE Kept(k, t)
  BY <1>2, <1>5, <1>9
<1>10. QED
  BY <1>1, <1>6, <1>7, <1>8, <1>9 DEF Changed, Kinds

(* An approved record only gives way to another content together with an   *)
(* entry for the old content in the history.                               *)
THEOREM OverwritesAreKeptHolds == Spec => OverwritesAreKept
<1>1. RecordsInv /\ [Next]_vars => \A k \in Kinds : \A t \in DOMAIN doc.active[k] : Kept(k, t)
  BY StepKeeps
<1>2. QED
  BY <1>1, RecordsInductive, PTL DEF Spec, OverwritesAreKept, Kept

(* Every content a person ever approved can still be shown: it is active   *)
(* or in the revision history, if a request names a threat once.           *)
THEOREM ApprovedIsKeptHolds == ASSUME RepeatTids = FALSE PROVE Spec => []ApprovedIsKept
<1> DEFINE Shown(d, e) ==
              \/ /\ e.tid \in DOMAIN d.active[e.kind]
                 /\ Core(e.kind, d.active[e.kind][e.tid]) = Core(e.kind, e.body)
              \/ \E h \in d.history :
                    h.kind = e.kind /\ h.tid = e.tid /\ Core(e.kind, h.body) = Core(e.kind, e.body)
<1>1. Init => ApprovedIsKept
  BY DEF Init, ApprovedIsKept, EmptyDocument, Document
<1>2. ASSUME RepeatTids = FALSE PROVE RecordsInv /\ ApprovedIsKept /\ [Next]_vars => ApprovedIsKept'
  <2> SUFFICES ASSUME RecordsInv, ApprovedIsKept, [Next]_vars, NEW e \in doc'.logged PROVE Shown(doc', e)
    BY DEF ApprovedIsKept
  <2>1. /\ DocOK(doc) /\ DOMAIN doc.active = Kinds /\ (UNCHANGED doc \/ Changed(doc, doc'))
        /\ \A x \in doc.logged : x.kind \in Kinds
    BY FileChanges, DocParts DEF StoresOK, EntryOK
  <2>2. doc.history \subseteq doc'.history
    BY <2>1 DEF Changed, Puts, Takes, Keeps
  <2>3. ASSUME e \in doc.logged PROVE Shown(doc', e)
    <3>1. Shown(doc, e)
      BY <2>3 DEF ApprovedIsKept
    <3>2. CASE /\ e.tid \in DOMAIN doc.active[e.kind]
               /\ Core(e.kind, doc.active[e.kind][e.tid]) = Core(e.kind, e.body)
      <4>1. Kept(e.kind, e.tid)
        BY <2>1, <2>3, <3>2, StepKeeps
      <4>2. CASE Entry(e.kind, e.tid, doc.active[e.kind][e.tid]) \in doc'.history
        BY <3>2, <4>2 DEF Entry
      <4>3. QED
        BY <3>2, <4>1, <4>2 DEF Kept
    <3>3. QED
      BY <2>2, <3>1, <3>2
  <2>4. ASSUME NEW kind \in Kinds, NEW b, NEW old, Once(b), Puts(doc, doc', kind, b, old), e \notin doc.logged
        PROVE  Shown(doc', e)
    <3>1. PICK i \in DOMAIN b : e = Entry(kind, b[i].tid, b[i].body)
      BY <2>4 DEF Puts
    <3>2. e.kind = kind /\ e.tid = b[i].tid /\ e.body = b[i].body
      BY <3>1 DEF Entry
    <3>3. doc'.active[kind] = PutAll(doc.active[kind], b) /\ IsBatch(b, kind)
      BY <2>1, <2>4 DEF Puts
    <3>4. e.tid \in TidsOf(b) /\ e.tid \in DOMAIN PutAll(doc.active[kind], b)
      BY <3>2 DEF TidsOf, PutAll
    <3>5. PICK j \in DOMAIN b : b[j].tid = e.tid /\ PutAll(doc.active[kind], b)[e.tid] = b[j].body
      BY <3>3, <3>4, PutAllRecord
    <3>6. j = i
      BY <1>2, <2>4, <3>2, <3>5 DEF Once
    <3>7. QED
      BY <3>2, <3>3, <3>4, <3>5, <3>6
  <2>5. ASSUME NEW kind, NEW S, Takes(doc, doc', kind, S) PROVE e \in doc.logged
    BY <2>5 DEF Takes
  <2>6. CASE Keeps(doc, doc') \/ UNCHANGED doc
    BY <2>3, <2>6 DEF Keeps
  <2> HIDE DEF Shown
  <2>7. QED
    BY <2>1, <2>3, <2>4, <2>5, <2>6 DEF Changed, Kinds, CurrentRisks, CurrentMappings
<1>3. QED
  BY <1>1, <1>2, RecordsInductive, PTL DEF Spec

HIDE RecordsAssumption DEF RecordsAssumption
-----------------------------------------------------------------------------
(***************************************************************************)
(* ScrsStore, for every number of managers, changes, crashes and polls.    *)
(* StoreTypeOK holds whatever the timing; the rest holds when PromptLocks  *)
(* does, and ScrsStoreRace.cfg shows that it then must.                    *)
(*                                                                         *)
(* The safety theorems rest on one inductive invariant, IInv: who is past  *)
(* the lock holds it (LockInv), every change is staged once (FreshInv), a  *)
(* copy as new as the file differs from it by its own change only          *)
(* (CopyInv), and the backup trails the file by at most one save           *)
(* (BackupInv).  MutualExclusion or SavedIsKept alone are not inductive:   *)
(* a step that replaces the file preserves SavedIsKept only because the    *)
(* temp file it renames is the file plus one change.                       *)
(***************************************************************************)
USE StoreAssumption DEF StoreAssumption

(* Every reachable state is well typed, with or without prompt locks.      *)
THEOREM StoreTypeCorrect == StoreSpec => []StoreTypeOK
<1>1. StoreInit => StoreTypeOK
  <2>1. Empty \in Doc
    BY DEF Empty, Doc
  <2>2. StoreInit => mem \in [Writers -> Doc]
    BY <2>1 DEF StoreInit
  <2>3. StoreInit => pc \in [Writers -> Phases] /\ polls \in [Writers -> Nat]
    BY DEF StoreInit, Phases
  <2>4. StoreInit => /\ change \in [Writers -> Changes \cup {NoChange}]
                /\ \A w \in Writers :
                      change[w] = NoChange <=> pc[w] \in {"down", "ready"}
    BY DEF StoreInit
  <2>5. StoreInit => /\ file \in Doc \cup {Torn}
                /\ tmp \in Doc \cup {Torn, NoFile}
                /\ bak \in Doc \cup {Torn, NoFile}
                /\ lock \in Writers \cup {NoLock}
                /\ stale \in BOOLEAN
                /\ acked \subseteq Changes
                /\ started \subseteq Changes
    BY <2>1, Zenon DEF StoreInit
  <2>6. StoreInit => crashes \in Nat
    BY DEF StoreInit
  <2>7. QED
    BY <2>2, <2>3, <2>4, <2>5, <2>6, Zenon DEF StoreTypeOK
<1>2. StoreTypeOK /\ [StoreNext]_storevars => StoreTypeOK'
  <2> SUFFICES ASSUME StoreTypeOK, [StoreNext]_storevars PROVE StoreTypeOK'
    OBVIOUS
  <2> USE DEF StoreTypeOK, Goto, Phases, disk, locks, own, hist
  <2>1. ASSUME NEW w \in Writers, Load(w) PROVE StoreTypeOK'
    BY <2>1 DEF Load
  <2>2. ASSUME NEW w \in Writers, Discard(w) PROVE StoreTypeOK'
    BY <2>2 DEF Discard
  <2>3. ASSUME NEW w \in Writers, NEW c \in Changes, Stage(w, c) PROVE StoreTypeOK'
    <3>1. mem' \in [Writers -> Doc]
      BY <2>3 DEF Stage, Doc
    <3>2. QED
      BY <2>3, <3>1 DEF Stage
  <2>4. ASSUME NEW w \in Writers, Acquire(w) PROVE StoreTypeOK'
    BY <2>4 DEF Acquire
  <2>5. ASSUME NEW w \in Writers, Denied(w) PROVE StoreTypeOK'
    BY <2>5 DEF Denied
  <2>6. ASSUME NEW w \in Writers, SeeStale(w) PROVE StoreTypeOK'
    BY <2>6 DEF SeeStale
  <2>7. ASSUME NEW w \in Writers, Unlink(w) PROVE StoreTypeOK'
    BY <2>7 DEF Unlink
  <2>8. ASSUME NEW w \in Writers, Sleep(w) PROVE StoreTypeOK'
    BY <2>8 DEF Sleep
  <2>9. ASSUME NEW w \in Writers, GiveUp(w) PROVE StoreTypeOK'
    BY <2>9 DEF GiveUp
  <2>10. ASSUME NEW w \in Writers, CheckVersion(w) PROVE StoreTypeOK'
    BY <2>10 DEF CheckVersion
  <2>11. ASSUME NEW w \in Writers, WriteTmp(w) PROVE StoreTypeOK'
    <3>1. mem' \in [Writers -> Doc]
      BY <2>11 DEF WriteTmp, Doc
    <3>2. tmp' \in Doc \cup {Torn, NoFile}
      BY <2>11, <3>1 DEF WriteTmp
    <3>3. QED
      BY <2>11, <3>1, <3>2 DEF WriteTmp
  <2>12. ASSUME NEW w \in Writers, Backup(w) PROVE StoreTypeOK'
    BY <2>12 DEF Backup
  <2>13. ASSUME NEW w \in Writers, Rename(w) PROVE StoreTypeOK'
    BY <2>13 DEF Rename
  <2>14. ASSUME NEW w \in Writers, Release(w) PROVE StoreTypeOK'
    BY <2>14 DEF Release
  <2>15. ASSUME NEW w \in Writers, ReleaseFailed(w) PROVE StoreTypeOK'
    BY <2>15 DEF ReleaseFailed
  <2>16. ASSUME NEW w \in Writers, Crash(w) PROVE StoreTypeOK'
    BY <2>16 DEF Crash
  <2>17. CASE Age
    BY <2>17 DEF Age
  <2>18. CASE UNCHANGED storevars
    BY <2>18 DEF storevars
  <2>19. QED
    BY <2>1, <2>2, <2>3, <2>4, <2>5, <2>6, <2>7, <2>8, <2>9, <2>10, <2>11,
       <2>12, <2>13, <2>14, <2>15, <2>16, <2>17, <2>18 DEF StoreNext, SaveStep
<1>3. QED
  BY <1>1, <1>2, PTL DEF StoreSpec

(* Who is past the lock holds it, and the lock of such a manager is not    *)
(* stale: only it removes the lock file.                                   *)
LEMMA LockPreserved ==
    ASSUME PromptLocks, StoreTypeOK, StoreTypeOK', LockInv, [StoreNext]_storevars
    PROVE  LockInv'
<1> USE DEF StoreTypeOK, LockInv, PromptLocks, Goto, Phases, Critical, disk, locks, own, hist
<1>1. ASSUME NEW w \in Writers, Load(w) PROVE LockInv'
  BY <1>1 DEF Load
<1>2. ASSUME NEW w \in Writers, Discard(w) PROVE LockInv'
  BY <1>2 DEF Discard
<1>3. ASSUME NEW w \in Writers, NEW c \in Changes, Stage(w, c) PROVE LockInv'
  BY <1>3 DEF Stage
<1>4. ASSUME NEW w \in Writers, Acquire(w) PROVE LockInv'
  BY <1>4 DEF Acquire
<1>5. ASSUME NEW w \in Writers, Denied(w) PROVE LockInv'
  BY <1>5 DEF Denied
<1>6. ASSUME NEW w \in Writers, SeeStale(w) PROVE LockInv'
  BY <1>6 DEF SeeStale
<1>7. ASSUME NEW w \in Writers, Unlink(w) PROVE LockInv'
  BY <1>7 DEF Unlink
<1>8. ASSUME NEW w \in Writers, Sleep(w) PROVE LockInv'
  BY <1>8 DEF Sleep
<1>9. ASSUME NEW w \in Writers, GiveUp(w) PROVE LockInv'
  BY <1>9 DEF GiveUp
<1>10. ASSUME NEW w \in Writers, CheckVersion(w) PROVE LockInv'
  BY <1>10 DEF CheckVersion
<1>11. ASSUME NEW w \in Writers, WriteTmp(w) PROVE LockInv'
  BY <1>11 DEF WriteTmp
<1>12. ASSUME NEW w \in Writers, Backup(w) PROVE LockInv'
  BY <1>12 DEF Backup
<1>13. ASSUME NEW w \in Writers, Rename(w) PROVE LockInv'
  BY <1>13 DEF Rename
<1>14. ASSUME NEW w \in Writers, Release(w) PROVE LockInv'
  BY <1>14 DEF Release
<1>15. ASSUME NEW w \in Writers, ReleaseFailed(w) PROVE LockInv'
  BY <1>15 DEF ReleaseFailed
<1>16. ASSUME NEW w \in Writers, Crash(w) PROVE LockInv'
  BY <1>16 DEF Crash
<1>17. CASE Age
  BY <1>17 DEF Age
<1>18. CASE UNCHANGED storevars
  BY <1>18 DEF storevars
<1>19. QED
  BY <1>1, <1>2, <1>3, <1>4, <1>5, <1>6, <1>7, <1>8, <1>9, <1>10, <1>11,
     <1>12, <1>13, <1>14, <1>15, <1>16, <1>17, <1>18 DEF StoreNext, SaveStep

(* A change is staged by one manager, and is not in the file before that   *)
(* manager's rename.                                                       *)
LEMMA FreshPreserved ==
    ASSUME PromptLocks, StoreTypeOK, StoreTypeOK', LockInv, FreshInv, CopyInv, [StoreNext]_storevars
    PROVE  FreshInv'
<1> USE DEF StoreTypeOK, FreshInv, Saving, Goto, Phases, disk, locks, own, hist
<1>1. ASSUME NEW w \in Writers, Load(w) PROVE FreshInv'
  BY <1>1 DEF Load
<1>2. ASSUME NEW w \in Writers, Discard(w) PROVE FreshInv'
  BY <1>2 DEF Discard
<1>3. ASSUME NEW w \in Writers, NEW c \in Changes, Stage(w, c) PROVE FreshInv'
  BY <1>3 DEF Stage
<1>4. ASSUME NEW w \in Writers, Acquire(w) PROVE FreshInv'
  BY <1>4 DEF Acquire
<1>5. ASSUME NEW w \in Writers, Denied(w) PROVE FreshInv'
  BY <1>5 DEF Denied
<1>6. ASSUME NEW w \in Writers, SeeStale(w) PROVE FreshInv'
  BY <1>6 DEF SeeStale, PromptLocks
<1>7. ASSUME NEW w \in Writers, Unlink(w) PROVE FreshInv'
  BY <1>7 DEF Unlink, LockInv
<1>8. ASSUME NEW w \in Writers, Sleep(w) PROVE FreshInv'
  BY <1>8 DEF Sleep
<1>9. ASSUME NEW w \in Writers, GiveUp(w) PROVE FreshInv'
  BY <1>9 DEF GiveUp
<1>10. ASSUME NEW w \in Writers, CheckVersion(w) PROVE FreshInv'
  BY <1>10 DEF CheckVersion
<1>11. ASSUME NEW w \in Writers, WriteTmp(w) PROVE FreshInv'
  BY <1>11 DEF WriteTmp
<1>12. ASSUME NEW w \in Writers, Backup(w) PROVE FreshInv'
  BY <1>12 DEF Backup
<1>13. ASSUME NEW w \in Writers, Rename(w) PROVE FreshInv'
  BY <1>13 DEF Rename, CopyInv, Extends
<1>14. ASSUME NEW w \in Writers, Release(w) PROVE FreshInv'
  BY <1>14 DEF Release
<1>15. ASSUME NEW w \in Writers, ReleaseFailed(w) PROVE FreshInv'
  BY <1>15 DEF ReleaseFailed
<1>16. ASSUME NEW w \in Writers, Crash(w) PROVE FreshInv'
  BY <1>16 DEF Crash
<1>17. CASE Age
  BY <1>17 DEF Age
<1>18. CASE UNCHANGED storevars
  BY <1>18 DEF storevars
<1>19. QED
  BY <1>1, <1>2, <1>3, <1>4, <1>5, <1>6, <1>7, <1>8, <1>9, <1>10, <1>11,
     <1>12, <1>13, <1>14, <1>15, <1>16, <1>17, <1>18 DEF StoreNext, SaveStep

(* A copy as new as the file differs from it by its own change only; the   *)
(* rename makes every other copy older than the file.                      *)
LEMMA CopyPreserved ==
    ASSUME PromptLocks, StoreTypeOK, StoreTypeOK', LockInv, FreshInv, FreshInv', CopyInv,
           [StoreNext]_storevars
    PROVE  CopyInv'
<1> USE DEF StoreTypeOK, CopyInv, Extends, Doc, Goto, Phases, disk, locks, own, hist
<1>1. ASSUME NEW w \in Writers, Load(w) PROVE CopyInv'
  BY <1>1 DEF Load, FreshInv
<1>2. ASSUME NEW w \in Writers, Discard(w) PROVE CopyInv'
  BY <1>2 DEF Discard
<1>3. ASSUME NEW w \in Writers, NEW c \in Changes, Stage(w, c) PROVE CopyInv'
  BY <1>3 DEF Stage, FreshInv
<1>4. ASSUME NEW w \in Writers, Acquire(w) PROVE CopyInv'
  BY <1>4 DEF Acquire
<1>5. ASSUME NEW w \in Writers, Denied(w) PROVE CopyInv'
  BY <1>5 DEF Denied
<1>6. ASSUME NEW w \in Writers, SeeStale(w) PROVE CopyInv'
  BY <1>6 DEF SeeStale, PromptLocks
<1>7. ASSUME NEW w \in Writers, Unlink(w) PROVE CopyInv'
  BY <1>7 DEF Unlink, LockInv
<1>8. ASSUME NEW w \in Writers, Sleep(w) PROVE CopyInv'
  BY <1>8 DEF Sleep
<1>9. ASSUME NEW w \in Writers, GiveUp(w) PROVE CopyInv'
  BY <1>9 DEF GiveUp
<1>10. ASSUME NEW w \in Writers, CheckVersion(w) PROVE CopyInv'
  BY <1>10 DEF CheckVersion, NewerOnDisk, FreshInv
<1>11. ASSUME NEW w \in Writers, WriteTmp(w) PROVE CopyInv'
  <2>1. file' = file /\ change' = change /\ file \in Doc
    BY <1>11 DEF WriteTmp, FreshInv
  <2>2. mem[w] = [version |-> file.version, changes |-> file.changes \cup {change[w]}]
    BY <1>11 DEF WriteTmp, FreshInv
  <2>3. pc'[w] \in {"written", "failing"} /\ Extends(mem'[w], w)
    BY <1>11, <2>1, <2>2 DEF WriteTmp
  <2>4. pc'[w] = "written" => tmp' = mem'[w]
    BY <1>11 DEF WriteTmp
  <2>5. \A v \in Writers : v # w => /\ pc'[v] = pc[v] /\ mem'[v] = mem[v]
                                   /\ pc[v] \notin {"written", "backed"}
    BY <1>11 DEF WriteTmp, LockInv, Critical
  <2>6. SUFFICES ASSUME NEW v \in Writers PROVE CopyInv!(v)'
    BY DEF CopyInv
  <2>7. CASE v = w
    BY <2>1, <2>3, <2>4, <2>7
  <2>8. CASE v # w
    BY <2>1, <2>5, <2>8
  <2>9. QED
    BY <2>7, <2>8
<1>12. ASSUME NEW w \in Writers, Backup(w) PROVE CopyInv'
  BY <1>12 DEF Backup
<1>13. ASSUME NEW w \in Writers, Rename(w) PROVE CopyInv'
  <2>1. change' = change /\ mem' = mem /\ file \in Doc
    BY <1>13 DEF Rename, FreshInv
  <2>2. \A v \in Writers : v # w => /\ pc'[v] = pc[v]
                                   /\ pc[v] \notin Critical
    BY <1>13 DEF Rename, LockInv, Critical
  <2>3. CASE file' = file /\ pc'[w] = "failing"
    BY <1>13, <2>1, <2>2, <2>3 DEF Critical
  <2>4. CASE file' = mem[w] /\ pc'[w] = "renamed"
    <3>1. file'.version = file.version + 1 /\ change[w] \in file'.changes
      BY <1>13, <2>1, <2>4 DEF Rename
    <3>2. QED
      BY <2>1, <2>2, <2>4, <3>1 DEF Critical
  <2>5. QED
    BY <1>13, <2>3, <2>4 DEF Rename
<1>14. ASSUME NEW w \in Writers, Release(w) PROVE CopyInv'
  BY <1>14 DEF Release
<1>15. ASSUME NEW w \in Writers, ReleaseFailed(w) PROVE CopyInv'
  BY <1>15 DEF ReleaseFailed
<1>16. ASSUME NEW w \in Writers, Crash(w) PROVE CopyInv'
  BY <1>16 DEF Crash, LockInv, Critical
<1>17. CASE Age
  BY <1>17 DEF Age
<1>18. CASE UNCHANGED storevars
  BY <1>18 DEF storevars
<1>19. QED
  BY <1>1, <1>2, <1>3, <1>4, <1>5, <1>6, <1>7, <1>8, <1>9, <1>10, <1>11,
     <1>12, <1>13, <1>14, <1>15, <1>16, <1>17, <1>18 DEF StoreNext, SaveStep

(* The backup is taken of the file that the next rename replaces.          *)
LEMMA BackupPreserved ==
    ASSUME PromptLocks, StoreTypeOK, StoreTypeOK', LockInv, FreshInv, CopyInv, BackupInv,
           [StoreNext]_storevars
    PROVE  BackupInv'
<1> USE DEF StoreTypeOK, BackupInv, Doc, Empty, Goto, Phases, disk, locks, own, hist
<1>a. ASSUME UNCHANGED disk, \A v \in Writers : pc'[v] = "backed" => pc[v] = "backed"
      PROVE  BackupInv'
  BY <1>a
<1>1. ASSUME NEW w \in Writers, Load(w) PROVE BackupInv'
  BY <1>1 DEF Load
<1>2. ASSUME NEW w \in Writers, Discard(w) PROVE BackupInv'
  BY <1>2 DEF Discard
<1>3. ASSUME NEW w \in Writers, NEW c \in Changes, Stage(w, c) PROVE BackupInv'
  BY <1>3 DEF Stage
<1>4. ASSUME NEW w \in Writers, Acquire(w) PROVE BackupInv'
  BY <1>4 DEF Acquire
<1>5. ASSUME NEW w \in Writers, Denied(w) PROVE BackupInv'
  BY <1>5 DEF Denied
<1>6. ASSUME NEW w \in Writers, SeeStale(w) PROVE BackupInv'
  <2>1. UNCHANGED disk
    BY <1>6 DEF SeeStale
  <2>2. pc' \in {[pc EXCEPT ![w] = "waiting"], [pc EXCEPT ![w] = "breaking"]}
    BY <1>6 DEF SeeStale
  <2>3. \A v \in Writers : pc'[v] = "backed" => pc[v] = "backed"
    BY <2>2
  <2>4. QED
    BY <2>1, <2>3, <1>a
<1>7. ASSUME NEW w \in Writers, Unlink(w) PROVE BackupInv'
  BY <1>7 DEF Unlink
<1>8. ASSUME NEW w \in Writers, Sleep(w) PROVE BackupInv'
  BY <1>8 DEF Sleep
<1>9. ASSUME NEW w \in Writers, GiveUp(w) PROVE BackupInv'
  BY <1>9 DEF GiveUp
<1>10. ASSUME NEW w \in Writers, CheckVersion(w) PROVE BackupInv'
  BY <1>10 DEF CheckVersion, NewerOnDisk
<1>11. ASSUME NEW w \in Writers, WriteTmp(w) PROVE BackupInv'
  BY <1>11 DEF WriteTmp
<1>12. ASSUME NEW w \in Writers, Backup(w) PROVE BackupInv'
  BY <1>12 DEF Backup, LockInv, Critical, FreshInv
<1>13. ASSUME NEW w \in Writers, Rename(w) PROVE BackupInv'
  BY <1>13 DEF Rename, LockInv, Critical, CopyInv, Extends, FreshInv
<1>14. ASSUME NEW w \in Writers, Release(w) PROVE BackupInv'
  BY <1>14 DEF Release
<1>15. ASSUME NEW w \in Writers, ReleaseFailed(w) PROVE BackupInv'
  BY <1>15 DEF ReleaseFailed
<1>16. ASSUME NEW w \in Writers, Crash(w) PROVE BackupInv'
  BY <1>16 DEF Crash, FreshInv, LockInv, Critical
<1>17. CASE Age
  BY <1>17 DEF Age
<1>18. CASE UNCHANGED storevars
  BY <1>18 DEF storevars
<1>19. QED
  BY <1>1, <1>2, <1>3, <1>4, <1>5, <1>6, <1>7, <1>8, <1>9, <1>10, <1>11,
     <1>12, <1>13, <1>14, <1>15, <1>16, <1>17, <1>18 DEF StoreNext, SaveStep

(* A rename keeps every change that is in the file, and only a release     *)
(* after one acknowledges.                                                 *)
LEMMA AckedPreserved ==
    ASSUME StoreTypeOK, StoreTypeOK', CopyInv, acked \subseteq file.changes, [StoreNext]_storevars
    PROVE  acked' \subseteq file'.changes
<1> USE DEF disk, locks, own, hist
<1>1. CASE \E w \in Writers : Rename(w)
  <2>1. PICK w \in Writers : Rename(w)
    BY <1>1
  <2>2. CASE file' = tmp
    <3>1. file' = [version |-> file.version + 1,
                   changes |-> file.changes \cup {change[w]}]
      BY <2>1, <2>2 DEF Rename, CopyInv, Extends
    <3>2. QED
      BY <2>1, <3>1 DEF Rename
  <2>3. CASE file' = file
    BY <2>1, <2>3 DEF Rename
  <2>4. QED
    BY <2>1, <2>2, <2>3 DEF Rename
<1>2. CASE \E w \in Writers : Release(w)
  BY <1>2 DEF Release, CopyInv
<1>3. CASE UNCHANGED <<file, acked>>
  BY <1>3
<1>4. QED
  BY <1>1, <1>2, <1>3
     DEF StoreNext, SaveStep, storevars, Load, Discard, Crash, Stage, Age, Acquire, Denied,
         SeeStale, Unlink, Sleep, GiveUp, CheckVersion, WriteTmp, Backup, ReleaseFailed

(* The inductive invariant holds in every reachable state.                 *)
THEOREM Inductive ==
    ASSUME PromptLocks
    PROVE  StoreSpec => []IInv
<1>1. StoreInit => IInv
  <2> SUFFICES ASSUME StoreInit PROVE IInv
    OBVIOUS
  <2>1. \A w \in Writers : pc[w] = "down" /\ change[w] = NoChange
    BY DEF StoreInit
  <2>2. file = Empty /\ bak = NoFile /\ acked = {} /\ ~stale
    BY DEF StoreInit
  <2>3. Empty \in Doc /\ Empty.changes = {}
    BY DEF Empty, Doc
  <2>4. LockInv
    BY <2>1, <2>2 DEF LockInv, Critical
  <2>5. FreshInv
    BY <2>1, <2>2, <2>3 DEF FreshInv, Saving
  <2>6. CopyInv
    BY <2>1 DEF CopyInv
  <2>7. BackupInv
    BY <2>1, <2>2 DEF BackupInv
  <2>8. QED
    BY <2>2, <2>4, <2>5, <2>6, <2>7 DEF IInv
<1>2. StoreTypeOK /\ StoreTypeOK' /\ IInv /\ [StoreNext]_storevars => IInv'
  BY LockPreserved, FreshPreserved, CopyPreserved, BackupPreserved, AckedPreserved
     DEF IInv
<1>3. QED
  BY <1>1, <1>2, StoreTypeCorrect, PTL DEF StoreSpec

(* No two managers are between taking and releasing the lock.              *)
THEOREM MutualExclusionHolds ==
    ASSUME PromptLocks
    PROVE  StoreSpec => []MutualExclusion
<1>1. IInv => MutualExclusion
  BY DEF IInv, LockInv, MutualExclusion
<1>2. QED
  BY <1>1, Inductive, PTL

(* The file is never torn and holds every acknowledged change.             *)
THEOREM SavedIsKeptHolds ==
    ASSUME PromptLocks
    PROVE  StoreSpec => []SavedIsKept
<1>1. IInv => SavedIsKept
  BY DEF IInv, FreshInv, SavedIsKept
<1>2. QED
  BY <1>1, Inductive, PTL

(* The backup is the present or previous version of the file.              *)
THEOREM BackupIsLastGoodHolds ==
    ASSUME PromptLocks
    PROVE  StoreSpec => []BackupIsLastGood
<1>1. IInv => BackupIsLastGood
  BY DEF IInv, BackupInv, BackupIsLastGood
<1>2. QED
  BY <1>1, Inductive, PTL

(* Every step of the protocol is one commit, one acknowledgement or none   *)
(* of the decision log: the rename is the commit, the release the          *)
(* acknowledgement.                                                        *)
THEOREM Refinement ==
    ASSUME PromptLocks
    PROVE  StoreSpec => ImplementsDecisionLog
<1>1. StoreInit => Log!Init
  BY DEF StoreInit, Log!Init, Empty
<1>2. StoreTypeOK /\ IInv /\ [StoreNext]_storevars => [Log!Next]_(Log!vars)
  <2> SUFFICES ASSUME StoreTypeOK, IInv, [StoreNext]_storevars PROVE [Log!Next]_(Log!vars)
    OBVIOUS
  <2> USE DEF disk, locks, own, hist
  <2>1. CASE \E w \in Writers : Rename(w)
    <3>1. PICK w \in Writers : Rename(w)
      BY <2>1
    <3>2. CASE file' = tmp
      <4>1. change[w] \in Changes /\ change[w] \notin file.changes
        BY <3>1 DEF Rename, StoreTypeOK, IInv, FreshInv, Saving
      <4>2. file' = [version |-> file.version + 1,
                     changes |-> file.changes \cup {change[w]}]
        BY <3>1, <3>2 DEF Rename, IInv, CopyInv, Extends
      <4>3. acked' = acked
        BY <3>1 DEF Rename
      <4>4. Log!Commit(change[w])
        BY <4>1, <4>2, <4>3 DEF Log!Commit
      <4>5. QED
        BY <4>1, <4>4 DEF Log!Next
    <3>3. CASE file' = file
      BY <3>1, <3>3 DEF Rename, Log!vars
    <3>4. QED
      BY <3>1, <3>2, <3>3 DEF Rename
  <2>2. CASE \E w \in Writers : Release(w)
    <3>1. PICK w \in Writers : Release(w)
      BY <2>2
    <3>2. {change[w]} \in SUBSET Changes /\ {change[w]} \subseteq file.changes
      BY <3>1 DEF Release, StoreTypeOK, IInv, CopyInv
    <3>3. Log!Acknowledge({change[w]})
      BY <3>1, <3>2 DEF Release, Log!Acknowledge
    <3>4. QED
      BY <3>2, <3>3 DEF Log!Next
  <2>3. CASE UNCHANGED <<file, acked>>
    BY <2>3 DEF Log!vars
  <2>4. QED
    BY <2>1, <2>2, <2>3
       DEF StoreNext, SaveStep, storevars, Load, Discard, Crash, Stage, Age, Acquire, Denied,
           SeeStale, Unlink, Sleep, GiveUp, CheckVersion, WriteTmp, Backup, ReleaseFailed
<1>3. QED
  BY <1>1, <1>2, StoreTypeCorrect, Inductive, PTL DEF StoreSpec, ImplementsDecisionLog, Log!Spec
=============================================================================
