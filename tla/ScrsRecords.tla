---------------------------- MODULE ScrsRecords ----------------------------
(***************************************************************************)
(* What the shared state of scrp/state_manager.py contains and what the    *)
(* requests of the threat, risk and compliance agents do to it: approved   *)
(* threats, the risk scored for each, the attack-resistance record mapped  *)
(* from that risk, the revision history and the audit log.                 *)
(*                                                                         *)
(* Every request works on the copy its StateManager loaded.  A save is one *)
(* step here, refused when the copy is older than the file: ScrsStore      *)
(* shows that the lock, temp file and rename implement that step.          *)
(***************************************************************************)
EXTENDS Naturals, Sequences, FiniteSets

CONSTANTS
    Managers,      \* StateManager instances alive at some time
    Tids,          \* threat ids
    Facts,         \* fingerprints of an asset and its use-case context
    Texts,         \* what else a threat scenario says
    Levels,        \* risk, feasibility and treatment: what a mapping depends on
    Reduced,       \* those whose treatment is Reduce
    Notes,         \* what else a risk assessment says
    Classes,       \* attacker classes
    MaxVersion,    \* bound: saves
    MaxRejections, \* bound: audited rejections of one risk suggestion
    MaxBatch,      \* bound: items of one request, by kind
    RepeatTids     \* one request may name the same threat twice

VARIABLES
    doc,           \* SCRS_state.json
    alive,         \* the managers that exist now
    copy           \* what each of them loaded, StateManager._state

vars == <<doc, alive, copy>>

Kinds == {"threat", "risk", "compliance"}

(* A risk is stored with its rank among the assets of its request, which   *)
(* _VOLATILE leaves out of every comparison; core is all the rest.         *)
ThreatBody == [facts : Facts, text : Texts]
RiskCore == [facts : Facts, level : Levels, note : Notes, rejections : Nat]
RiskBody == [core : RiskCore, rank : Nat]
ComplianceBody == [level : Levels, class : Classes]
Core(kind, body) == IF kind = "risk" THEN body.core ELSE body

(* The audit log is kept as what is read out of it: per record the last    *)
(* content hash (a body stands for its hash), every hash ever logged, and  *)
(* the number of risk_reject entries.  active and latest are functions     *)
(* from a kind to a partial function on Tids.                              *)
Document(v, act, lat, log, his, rej) ==
    [version |-> v, active |-> act, latest |-> lat, logged |-> log,
     history |-> his, rejections |-> rej]

NoRecords == [k \in Kinds |-> [t \in {} |-> t]]
EmptyDocument == Document(0, NoRecords, NoRecords, {}, {}, [t \in Tids |-> 0])

Entry(kind, t, body) == [kind |-> kind, tid |-> t, body |-> body]

ASSUME RecordsAssumption ==
    /\ Reduced \subseteq Levels
    /\ MaxVersion \in Nat
    /\ MaxRejections \in Nat
    /\ MaxBatch \in [Kinds -> Nat]
    /\ RepeatTids \in BOOLEAN

Init ==
    /\ doc = EmptyDocument
    /\ alive = {}
    /\ copy = [m \in Managers |-> EmptyDocument]
----------------------------------------------------------------------------
(* A request carries a list of items [tid, body].                          *)
Batches(kind, Items) ==
    {b \in UNION {[1..n -> Items] : n \in 1..MaxBatch[kind]} :
        RepeatTids \/ \A i, j \in DOMAIN b : b[i].tid = b[j].tid => i = j}

TidsOf(b) == {b[i].tid : i \in DOMAIN b}
LastOf(b, t) == b[CHOOSE i \in DOMAIN b :
                    /\ b[i].tid = t
                    /\ \A j \in DOMAIN b : b[j].tid = t => j <= i].body
PutAll(store, b) ==
    [t \in DOMAIN store \cup TidsOf(b) |->
        IF t \in TidsOf(b) THEN LastOf(b, t) ELSE store[t]]
Without(store, S) == [t \in DOMAIN store \ S |-> store[t]]

(* Mutant: only the first approval of a record logs a content hash.        *)
MutantCommit(d, kind, b, old) ==
    Document(d.version,
             [d.active EXCEPT ![kind] = PutAll(d.active[kind], b)],
             [d.latest EXCEPT ![kind] =
                 [t \in DOMAIN d.latest[kind] \cup TidsOf(b) |->
                    IF t \in DOMAIN d.latest[kind] THEN d.latest[kind][t] ELSE LastOf(b, t)]],
             d.logged \cup {Entry(kind, b[i].tid, b[i].body) : i \in DOMAIN b},
             d.history \cup old, d.rejections)

(* The items of b become the active records of a kind, each with an audit  *)
(* entry that has its content hash; the records in old go to the history.  *)
Commit(d, kind, b, old) ==
    Document(d.version,
             [d.active EXCEPT ![kind] = PutAll(d.active[kind], b)],
             [d.latest EXCEPT ![kind] = PutAll(d.latest[kind], b)],
             d.logged \cup {Entry(kind, b[i].tid, b[i].body) : i \in DOMAIN b},
             d.history \cup old, d.rejections)

(* Mutant: the retired records are dropped, not kept.                      *)
MutantRetire(d, kind, S) ==
    Document(d.version,
             [d.active EXCEPT ![kind] = Without(d.active[kind], S)],
             d.latest, d.logged, d.history, d.rejections)

(* Take records out of the active set and into the history.                *)
Retire(d, kind, S) ==
    Document(d.version,
             [d.active EXCEPT ![kind] = Without(d.active[kind], S)],
             d.latest, d.logged,
             d.history \cup {Entry(kind, t, d.active[kind][t]) : t \in S \cap DOMAIN d.active[kind]},
             d.rejections)

(* _supersede: the stored record differs from the item that replaces it.   *)
Differs(d, kind, t, body) ==
    /\ t \in DOMAIN d.active[kind]
    /\ Core(kind, d.active[kind][t]) # Core(kind, body)

(* commit_risk_assessments and commit_compliance_records compare every     *)
(* item with the store as it was before the first is put in.               *)
Replaced(d, kind, b) ==
    {Entry(kind, t, d.active[kind][t]) : t \in
        {u \in TidsOf(b) : Differs(d, kind, u, LastOf(b, u))}}

(* WouldOverwriteError: a changed record needs a reason.                   *)
Refused(d, kind, b, reason) ==
    ~reason /\ \E i \in DOMAIN b : Differs(d, kind, b[i].tid, b[i].body)

(* _apply_write compares a scenario with the store as the items before it  *)
(* left it.                                                                *)
Superseded(d, b) ==
    LET Before(i) == PutAll(d.active["threat"], SubSeq(b, 1, i - 1))
    IN  {Entry("threat", b[i].tid, Before(i)[b[i].tid]) : i \in
            {j \in DOMAIN b : /\ b[j].tid \in DOMAIN Before(j)
                              /\ Before(j)[b[j].tid] # b[j].body}}
----------------------------------------------------------------------------
(* A request starts: get_state_manager loads the file.                     *)
GetManager(m) ==
    /\ m \notin alive
    /\ alive' = alive \cup {m}
    /\ copy' = [copy EXCEPT ![m] = doc]
    /\ UNCHANGED doc

(* The request ends, or is refused with 404, 409 or 422 before a save.     *)
DropManager(m) ==
    /\ m \in alive
    /\ alive' = alive \ {m}
    /\ copy' = [copy EXCEPT ![m] = EmptyDocument]
    /\ UNCHANGED doc

(* Mutant: the version on disk is not compared.                            *)
MutantSave(m, d) ==
    /\ doc' = [d EXCEPT !.version = d.version + 1]
    /\ copy' = [copy EXCEPT ![m] = doc']
    /\ UNCHANGED alive

(* Mutant: a copy that missed one save of another request still counts as  *)
(* current.                                                                *)
MutantSaveLate(m, d) ==
    IF doc.version > copy[m].version + 1
    THEN /\ alive' = alive \ {m}
         /\ copy' = [copy EXCEPT ![m] = EmptyDocument]
         /\ UNCHANGED doc
    ELSE /\ doc' = [d EXCEPT !.version = d.version + 1]
         /\ copy' = [copy EXCEPT ![m] = doc']
         /\ UNCHANGED alive

(* _persist of d, which manager m made from its copy.  It raises           *)
(* ConcurrentWriteError when the file is newer.                            *)
Save(m, d) ==
    IF doc.version > copy[m].version
    THEN /\ alive' = alive \ {m}
         /\ copy' = [copy EXCEPT ![m] = EmptyDocument]
         /\ UNCHANGED doc
    ELSE /\ doc' = [d EXCEPT !.version = d.version + 1]
         /\ copy' = [copy EXCEPT ![m] = doc']
         /\ UNCHANGED alive

Working(m) == m \in alive /\ copy[m].version < MaxVersion

Active(m, kind) == copy[m].active[kind]

(* commit_approved_run: the scenarios of a run, made from the facts of its *)
(* own input, whenever that was.                                           *)
CommitRun(m, b) ==
    /\ Working(m)
    /\ Save(m, Commit(copy[m], "threat", b, Superseded(copy[m], b)))

(* retire-stale of the threat agent: for one reason, the threats that were *)
(* made from other facts than the input in the request gives now.          *)
RetireScenarios(m, f, S) ==
    /\ Working(m)
    /\ S # {}
    /\ \A t \in S : t \in DOMAIN Active(m, "threat") /\ Active(m, "threat")[t].facts # f
    /\ Save(m, Retire(copy[m], "threat", S))

(* Mutant: a risk scored again keeps the fingerprint it had.               *)
MutantRiskItem(m, t, level, note, rank) ==
    [tid |-> t,
     body |-> [core |-> [facts |-> IF t \in DOMAIN Active(m, "risk")
                                   THEN Active(m, "risk")[t].core.facts
                                   ELSE Active(m, "threat")[t].facts,
                         level |-> level, note |-> note,
                         rejections |-> copy[m].rejections[t]],
               rank |-> rank]]

(* /risk-agent/approve: score approved threats, take the expert's decision *)
(* and store the result.  choice maps items to what the expert entered.    *)
RiskItem(m, t, level, note, rank) ==
    [tid |-> t,
     body |-> [core |-> [facts |-> Active(m, "threat")[t].facts, level |-> level,
                         note |-> note, rejections |-> copy[m].rejections[t]],
               rank |-> rank]]

ApproveRisks(m, choices, reason) ==
    LET b == [i \in DOMAIN choices |->
                RiskItem(m, choices[i].tid, choices[i].level, choices[i].note, i)]
    IN  /\ Working(m)
        /\ TidsOf(choices) \subseteq DOMAIN Active(m, "threat")
        /\ ~Refused(copy[m], "risk", b, reason)
        /\ Save(m, Commit(copy[m], "risk", b, Replaced(copy[m], "risk", b)))

(* /risk-agent/reject: log_risk_rejection.                                 *)
RejectRisk(m, t) ==
    /\ Working(m)
    /\ t \in DOMAIN Active(m, "threat")
    /\ copy[m].rejections[t] < MaxRejections
    /\ Save(m, [copy[m] EXCEPT !.rejections[t] = @ + 1])

(* check_risk_staleness, and retire-stale of the risk agent.               *)
StaleRisks(d) ==
    {t \in DOMAIN d.active["risk"] :
        \/ t \notin DOMAIN d.active["threat"]
        \/ d.active["risk"][t].core.facts # d.active["threat"][t].facts}

RetireStaleRisks(m) ==
    /\ Working(m)
    /\ StaleRisks(copy[m]) # {}
    /\ Save(m, Retire(copy[m], "risk", StaleRisks(copy[m])))

(* Mutant: the confirmed records are put into the risk store.              *)
MutantConfirmMappings(m, choices, reason) ==
    LET b == [i \in DOMAIN choices |->
                [tid |-> choices[i].tid,
                 body |-> [level |-> Active(m, "risk")[choices[i].tid].core.level,
                           class |-> choices[i].class]]]
    IN  /\ Working(m)
        /\ TidsOf(choices) \subseteq DOMAIN Active(m, "risk")
        /\ Save(m, Commit(copy[m], "risk", b, {}))

(* /compliance-agent/confirm: the class is the suggested one or the        *)
(* expert's; risk_fingerprint keeps what the mapping depends on.           *)
ConfirmMappings(m, choices, reason) ==
    LET b == [i \in DOMAIN choices |->
                [tid |-> choices[i].tid,
                 body |-> [level |-> Active(m, "risk")[choices[i].tid].core.level,
                           class |-> choices[i].class]]]
    IN  /\ Working(m)
        /\ TidsOf(choices) \subseteq DOMAIN Active(m, "risk")
        /\ ~Refused(copy[m], "compliance", b, reason)
        /\ Save(m, Commit(copy[m], "compliance", b, Replaced(copy[m], "compliance", b)))

(* log_compliance_rejection and log_edit, log_rejection of the threat      *)
(* agent: they add to the audit log only what this module leaves out.      *)
LogOnly(m) ==
    /\ Working(m)
    /\ Save(m, copy[m])

(* check_compliance_staleness, and retire-stale of the compliance agent.   *)
StaleMappings(d) ==
    {t \in DOMAIN d.active["compliance"] :
        \/ t \notin DOMAIN d.active["risk"]
        \/ d.active["compliance"][t].level # d.active["risk"][t].core.level}

RetireStaleMappings(m) ==
    /\ Working(m)
    /\ StaleMappings(copy[m]) # {}
    /\ Save(m, Retire(copy[m], "compliance", StaleMappings(copy[m])))

ThreatItems == [tid : Tids, body : ThreatBody]
RiskChoices == [tid : Tids, level : Levels, note : Notes]
MappingChoices == [tid : Tids, class : Classes]

Next ==
    \E m \in Managers :
        \/ GetManager(m) \/ DropManager(m) \/ LogOnly(m)
        \/ RetireStaleRisks(m) \/ RetireStaleMappings(m)
        \/ \E b \in Batches("threat", ThreatItems) : CommitRun(m, b)
        \/ \E f \in Facts, S \in SUBSET Tids : RetireScenarios(m, f, S)
        \/ \E t \in Tids : RejectRisk(m, t)
        \/ \E c \in Batches("risk", RiskChoices), r \in BOOLEAN : ApproveRisks(m, c, r)
        \/ \E c \in Batches("compliance", MappingChoices), r \in BOOLEAN : ConfirmMappings(m, c, r)

Spec == Init /\ [][Next]_vars
----------------------------------------------------------------------------
BodyOK(k, body) ==
    CASE k = "threat" -> body \in ThreatBody
      [] k = "risk" -> body \in RiskBody
      [] k = "compliance" -> body \in ComplianceBody

EntryOK(e) ==
    /\ DOMAIN e = {"kind", "tid", "body"}
    /\ e.kind \in Kinds /\ e.tid \in Tids /\ BodyOK(e.kind, e.body)

DocOK(d) ==
    /\ d = Document(d.version, d.active, d.latest, d.logged, d.history, d.rejections)
    /\ d.version \in Nat
    /\ \A s \in {d.active, d.latest} :
          /\ DOMAIN s = Kinds
          /\ \A k \in Kinds : /\ DOMAIN s[k] \subseteq Tids
                              /\ \A t \in DOMAIN s[k] : BodyOK(k, s[k][t])
    /\ \A e \in d.logged \cup d.history : EntryOK(e)
    /\ d.rejections \in [Tids -> Nat]

TypeOK ==
    /\ DocOK(doc)
    /\ alive \subseteq Managers
    /\ DOMAIN copy = Managers
    /\ \A m \in Managers : DocOK(copy[m])

(* GET /scrs/audit/verify finds nothing wrong: every active record has the *)
(* content of the last approval logged for it (verify_integrity), whatever *)
(* was approved, superseded, retired and approved again before.            *)
IntegrityOk ==
    \A k \in Kinds : \A t \in DOMAIN doc.active[k] :
        t \in DOMAIN doc.latest[k] /\ doc.latest[k][t] = doc.active[k][t]

(* Every content a person ever approved can still be shown: it is active   *)
(* or in the revision history ("old versions go to the history").  It      *)
(* needs that a request names a threat once.                               *)
ApprovedIsKept ==
    \A e \in doc.logged :
        \/ /\ e.tid \in DOMAIN doc.active[e.kind]
           /\ Core(e.kind, doc.active[e.kind][e.tid]) = Core(e.kind, e.body)
        \/ \E h \in doc.history :
              h.kind = e.kind /\ h.tid = e.tid /\ Core(e.kind, h.body) = Core(e.kind, e.body)

(* The four gaps GET /scrs/trace lists.                                    *)
ThreatsWithoutRisk(d) == DOMAIN d.active["threat"] \ DOMAIN d.active["risk"]
RisksWithoutThreat(d) == DOMAIN d.active["risk"] \ DOMAIN d.active["threat"]
ResistanceWithoutRisk(d) == DOMAIN d.active["compliance"] \ DOMAIN d.active["risk"]
ReduceWithoutResistance(d) ==
    {t \in DOMAIN d.active["risk"] : d.active["risk"][t].core.level \in Reduced}
        \ DOMAIN d.active["compliance"]

(* Approvals, history and rejection counts are never taken back, although  *)
(* requests work on copies that other requests make out of date.           *)
NothingForgotten ==
    [][/\ doc.logged \subseteq doc'.logged
       /\ doc.history \subseteq doc'.history
       /\ \A t \in Tids : doc.rejections[t] <= doc'.rejections[t]]_vars

(* A decision is only stored while what it was made from is what the file  *)
(* holds: a risk for the approved threat, a mapping for the approved risk. *)
DecisionsAreCurrent ==
    [][LET New(k) == {t \in DOMAIN doc'.active[k] :
                        \/ t \notin DOMAIN doc.active[k]
                        \/ doc.active[k][t] # doc'.active[k][t]}
       IN  /\ \A t \in New("risk") : t \notin StaleRisks(doc')
           /\ \A t \in New("compliance") : t \notin StaleMappings(doc')]_vars

(* A gap in the trace only opens by an approval that a later one has to    *)
(* answer, or by taking out what the file itself, not the copy a request   *)
(* loaded earlier, says is stale; and the upstream record that is missed   *)
(* then is in the history.                                                 *)
GapsHaveACause ==
    [][LET threat == doc.active["threat"]
           risk == doc.active["risk"]
       IN  /\ \A t \in ThreatsWithoutRisk(doc') \ ThreatsWithoutRisk(doc) :
                 t \notin DOMAIN threat \/ t \in StaleRisks(doc)
           /\ \A t \in RisksWithoutThreat(doc') \ RisksWithoutThreat(doc) :
                 t \in DOMAIN threat /\ Entry("threat", t, threat[t]) \in doc'.history
           /\ \A t \in ResistanceWithoutRisk(doc') \ ResistanceWithoutRisk(doc) :
                 t \in StaleRisks(doc) /\ Entry("risk", t, risk[t]) \in doc'.history
           /\ \A t \in ReduceWithoutResistance(doc') \ ReduceWithoutResistance(doc) :
                 \/ t \notin DOMAIN risk \/ t \in StaleMappings(doc)
                 \/ risk[t].core.level # doc'.active["risk"][t].core.level]_vars

(* An approved record only gives way to another content together with an   *)
(* entry for the old content in the history.                               *)
OverwritesAreKept ==
    [][\A k \in Kinds : \A t \in DOMAIN doc.active[k] :
        \/ /\ t \in DOMAIN doc'.active[k]
           /\ Core(k, doc.active[k][t]) = Core(k, doc'.active[k][t])
        \/ Entry(k, t, doc.active[k][t]) \in doc'.history]_vars
=============================================================================
