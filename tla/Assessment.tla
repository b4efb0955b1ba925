----------------------------- MODULE Assessment ----------------------------
(***************************************************************************)
(* From an asset to its protection target: threats made from the facts of  *)
(* an asset, risks scored and treated for the threats, attack-resistance   *)
(* mappings confirmed for the risks, and the three staleness reports that  *)
(* say what has to be done again.  ScrsRecords has the same requests in    *)
(* several processes; here each is one step, and what the records say is   *)
(* what the rules of RiskRules make of the experts' input.                 *)
(***************************************************************************)
EXTENDS RiskRules

CONSTANTS
    Assets,       \* asset ids
    Tids,         \* threat ids, ordered as the code orders them
    AssetOf,      \* the asset a threat is about
    Designs,      \* numbers of security properties an asset may require
    Inputs,       \* ratings the experts enter (RiskInput)
    Decisions,    \* treatment decisions they take (TreatmentDecision)
    Overrides,    \* attacker classes they name in a confirmation
    ReuseTids,    \* a run may bring a tid that is still on record
    MaxItems,     \* bound: items of one risk or mapping request
    MaxSaves      \* bound: requests that store something

VARIABLES
    design,       \* the assets as the caller describes them now
    threats,      \* approved threats: the asset facts they were made from
    risks,        \* approved risk assessments
    mappings,     \* confirmed compliance records
    saves

vars == <<design, threats, risks, mappings, saves>>

ASSUME ScopeAssumption ==
    /\ Tids \subseteq Nat /\ IsFiniteSet(Tids)
    /\ AssetOf \in [Tids -> Assets]
    /\ Designs \subseteq Nat
    /\ \A i \in Inputs :
          /\ i.impact \in [Axes -> ImpactLevels \cup {None}]
          /\ i.byFactors \in BOOLEAN
          /\ ~i.byFactors => i.feasibility \in Feasibilities
    /\ Decisions \subseteq [treatment : Treatments, residual : RiskLevels,
                            adjusted : RiskLevels \cup {None}]
    /\ Overrides \subseteq Classes
    /\ ReuseTids \in BOOLEAN
    /\ MaxItems \in Nat
    /\ MaxSaves \in Nat

Nothing == [t \in {} |-> t]
Without(store, S) == [t \in DOMAIN store \ S |-> store[t]]
PutAll(store, new) ==
    [t \in DOMAIN store \cup DOMAIN new |-> IF t \in DOMAIN new THEN new[t] ELSE store[t]]

Save == saves < MaxSaves /\ saves' = saves + 1

Init ==
    /\ design \in [Assets -> Designs]
    /\ threats = Nothing
    /\ risks = Nothing
    /\ mappings = Nothing
    /\ saves = 0
----------------------------------------------------------------------------
(* The asset table is changed upstream.                                    *)
EditAsset(a, n) ==
    /\ n # design[a]
    /\ Save
    /\ design' = [design EXCEPT ![a] = n]
    /\ UNCHANGED <<threats, risks, mappings>>

(* A run for some threats of an asset is approved: commit_approved_run,    *)
(* which takes a known tid with other facts too.  The service draws the    *)
(* path id in a tid at random, so a run never brings a tid again; one      *)
(* that nothing is stored for stands for a new one.                        *)
CommitRun(S) ==
    /\ S # {}
    /\ ReuseTids \/ S \cap (DOMAIN threats \cup DOMAIN risks \cup DOMAIN mappings) = {}
    /\ Save
    /\ threats' = PutAll(threats, [t \in S |-> design[AssetOf[t]]])
    /\ UNCHANGED <<design, risks, mappings>>

(* check_staleness: the asset facts changed.                               *)
StaleThreats == {t \in DOMAIN threats : threats[t] # design[AssetOf[t]]}

RetireStaleThreats ==
    /\ StaleThreats # {}
    /\ Save
    /\ threats' = Without(threats, StaleThreats)
    /\ UNCHANGED <<design, risks, mappings>>

(* /risk-agent/approve: inputs and decisions for some threats.  All are    *)
(* stored or, with an error in one, none.                                  *)
ApproveRisks(S, input, decision) ==
    LET scored == [t \in S |-> Score(input[t], threats[t])]
    IN  /\ Save
        /\ S # {} /\ S \subseteq DOMAIN threats
        /\ \A t \in S : Scorable(input[t]) /\ Treatable(scored[t], decision[t])
        /\ risks' = PutAll(risks, [t \in S |-> Treated(scored[t], decision[t])])
        /\ UNCHANGED <<design, threats, mappings>>

(* check_risk_staleness                                                    *)
StaleRisks ==
    {t \in DOMAIN risks : t \notin DOMAIN threats \/ risks[t].score.facts # threats[t]}

Unscored == DOMAIN threats \ DOMAIN risks

RetireStaleRisks ==
    /\ StaleRisks # {}
    /\ Save
    /\ risks' = Without(risks, StaleRisks)
    /\ UNCHANGED <<design, threats, mappings>>

(* /compliance-agent/confirm, with the assets in the request or without.   *)
ConfirmMappings(S, chosen, withAssets) ==
    LET Criticality(t) == IF withAssets THEN AssetCriticality(design[AssetOf[t]]) ELSE Unknown
    IN  /\ Save
        /\ S # {} /\ S \subseteq DOMAIN risks
        /\ mappings' = PutAll(mappings,
                              [t \in S |-> Confirmed(risks[t], chosen[t], Criticality(t))])
        /\ UNCHANGED <<design, threats, risks>>

(* check_compliance_staleness                                              *)
StaleMappings ==
    {t \in DOMAIN mappings :
        t \notin DOMAIN risks \/ mappings[t].fingerprint # RiskFingerprint(risks[t])}
Unmapped == {t \in DOMAIN risks \ DOMAIN mappings : Applies(risks[t])}

RetireStaleMappings ==
    /\ StaleMappings # {}
    /\ Save
    /\ mappings' = Without(mappings, StaleMappings)
    /\ UNCHANGED <<design, threats, risks>>

Next ==
    \/ \E a \in Assets, n \in Designs : EditAsset(a, n)
    \/ \E S \in SUBSET Tids : CommitRun(S)
    \/ RetireStaleThreats
    \/ \E S \in {U \in SUBSET DOMAIN threats : Cardinality(U) <= MaxItems} :
          \E input \in [S -> Inputs], decision \in [S -> Decisions] :
              ApproveRisks(S, input, decision)
    \/ RetireStaleRisks
    \/ \E S \in {U \in SUBSET DOMAIN risks : Cardinality(U) <= MaxItems} :
          \E chosen \in [S -> Overrides \cup {None}], withAssets \in BOOLEAN :
              ConfirmMappings(S, chosen, withAssets)
    \/ RetireStaleMappings

Spec == Init /\ [][Next]_vars
----------------------------------------------------------------------------
ScoreOK(s) ==
    /\ s.impact \in [Axes -> ImpactLevels \cup {None}]
    /\ s.overall \in ImpactLevels /\ s.feasibility \in Feasibilities
    /\ s.byFactors \in BOOLEAN /\ s.points \in Nat
    /\ s.risk \in RiskLevels /\ s.facts \in Designs

RiskOK(r) ==
    /\ ScoreOK(r.score)
    /\ r.adjusted \in RiskLevels \cup {None}
    /\ r.treatment \in Treatments /\ r.residual \in RiskLevels

MappingOK(m) ==
    /\ m.class \in Classes /\ m.suggested \in Classes /\ m.overridden \in BOOLEAN
    /\ m.criticality \in Criticalities
    /\ m.fingerprint \in [risk : RiskLevels, feasibility : Feasibilities, treatment : Treatments]

TypeOK ==
    /\ design \in [Assets -> Designs]
    /\ DOMAIN threats \subseteq Tids /\ \A t \in DOMAIN threats : threats[t] \in Designs
    /\ DOMAIN risks \subseteq Tids /\ \A t \in DOMAIN risks : RiskOK(risks[t])
    /\ DOMAIN mappings \subseteq Tids /\ \A t \in DOMAIN mappings : MappingOK(mappings[t])
    /\ saves \in 0..MaxSaves

(* A mapping the staleness report calls fresh says what the rules give for *)
(* the risk as it is now, at the criticality it was confirmed with, unless *)
(* it says that an expert chose another class.                             *)
FreshMappingFollowsRules ==
    \A t \in DOMAIN mappings \ StaleMappings :
        LET m == mappings[t]
        IN  /\ m.suggested = SuggestedClass(Effective(risks[t]), risks[t].score.feasibility, m.criticality)
            /\ m.class # m.suggested => m.overridden

(* A retained risk is accepted as it is: its residual risk is the risk     *)
(* everything downstream uses.                                             *)
RetainKeepsTheRisk ==
    \A t \in DOMAIN risks :
        risks[t].treatment = "Retain" => risks[t].residual = Effective(risks[t])

(* A threat with no higher impact on any axis and no easier attack never   *)
(* has the higher computed risk, whoever rated it and in whichever way.    *)
HarmlessIsNotRiskier ==
    \A t, u \in DOMAIN risks :
        LET r == risks[t].score
            s == risks[u].score
            harmless == \A x \in Axes : r.impact[x] <= s.impact[x]
            harder == IF r.byFactors /\ s.byFactors THEN r.points >= s.points
                                                    ELSE r.feasibility <= s.feasibility
        IN  harmless /\ harder => r.risk <= s.risk

(* The report numbers the risks of an asset 1 to n, and a threat with the  *)
(* higher effective risk comes first.                                      *)
RanksFollowRisk ==
    \A a \in Assets :
        LET group == {t \in DOMAIN risks : AssetOf[t] = a}
        IN  /\ {Rank(risks, group, t) : t \in group} = 1..Cardinality(group)
            /\ \A t, u \in group : Effective(risks[t]) > Effective(risks[u])
                                   => Rank(risks, group, t) < Rank(risks, group, u)

(* When the staleness reports of the three agents list nothing, every      *)
(* approved threat has a risk scored from the facts of its asset as they   *)
(* are, every risk to be reduced has a mapping by the rules or overridden  *)
(* by an expert, and nothing is left over.                                 *)
QuietMeansComplete ==
    StaleThreats \cup StaleRisks \cup Unscored \cup StaleMappings \cup Unmapped = {} =>
        /\ DOMAIN mappings \subseteq DOMAIN risks /\ DOMAIN risks = DOMAIN threats
        /\ \A t \in DOMAIN risks :
              LET r == risks[t]
                  m == mappings[t]
              IN  /\ r.score.facts = design[AssetOf[t]]
                  /\ r.treatment = "Reduce" =>
                        /\ t \in DOMAIN mappings
                        /\ \/ m.overridden
                           \/ m.class = SuggestedClass(Effective(r), r.score.feasibility,
                                                       m.criticality)

(* When nothing is reported stale, a mapping that was made with the asset  *)
(* facts and not overridden is no weaker than the rules ask for the asset  *)
(* as it is now ("what the mapping depends on; a change means the mapping  *)
(* must be redone").                                                       *)
MappingFollowsAsset ==
    StaleThreats = {} /\ StaleRisks = {} /\ StaleMappings = {} =>
        \A t \in DOMAIN mappings :
            LET m == mappings[t]
            IN  ~m.overridden /\ m.criticality # Unknown =>
                m.class >= SuggestedClass(Effective(risks[t]), risks[t].score.feasibility,
                                          AssetCriticality(design[AssetOf[t]]))
=============================================================================
