----------------------------- MODULE RiskRules -----------------------------
(***************************************************************************)
(* The rules of risk_agent/engine.py and compliance_agent/engine.py: how a *)
(* rated threat becomes a risk, how the risks of an asset are ranked, and  *)
(* which attacker class a risk asks an asset to resist.  The tables of     *)
(* ratings.json and rules.json are constants.  A level is its place on its *)
(* scale, the weakest being 1; 0 stands for None.                          *)
(***************************************************************************)
EXTENDS Naturals, Sequences, FiniteSets, SequencesExt

CONSTANTS
    Points,             \* feasibility_points: per factor, points per value
    Thresholds,         \* feasibility_thresholds, in the order of max_points
    Matrix,             \* risk_matrix[impact][feasibility]
    RiskToClass,        \* risk_to_class[risk]
    FeasibilityFloors,  \* feasibility_floor: [feasibility, atLeast]
    CriticalityFloors,  \* criticality_floor: [criticality, risk, atLeast]
    HighAtLeast,        \* asset_criticality: required properties for High
    MediumAtLeast       \* ... and for Medium

None == 0
Axes == {"safety", "financial", "operational", "privacy"}
Factors == {"elapsed_time", "expertise", "knowledge", "window", "equipment"}
ImpactLevels == 1..4       \* Negligible, Moderate, Major, Severe
Feasibilities == 1..3      \* Low, Medium, High
RiskLevels == 1..3         \* Low, Medium, High
Treatments == {"Reduce", "Share", "Retain", "Avoid"}
Classes == 1..4            \* Basic, Enhanced-Basic, Moderate, High
Criticalities == 0..3      \* Unknown, Low, Medium, High

(* Ratings._check_complete: every cell of the matrix has a risk.           *)
ASSUME RatingsComplete ==
    /\ DOMAIN Points = Factors
    /\ \A f \in Factors : \A v \in DOMAIN Points[f] : Points[f][v] \in Nat
    /\ Thresholds \in Seq([max : Nat, feasibility : Feasibilities])
    /\ Matrix \in [ImpactLevels -> [Feasibilities -> RiskLevels]]

(* Rules.load: every risk has a class, every floor names one.              *)
ASSUME RulesComplete ==
    /\ RiskToClass \in [RiskLevels -> Classes]
    /\ FeasibilityFloors \in Seq([feasibility : Feasibilities, atLeast : Classes])
    /\ CriticalityFloors \in Seq([criticality : Criticalities, risk : RiskLevels, atLeast : Classes])
    /\ HighAtLeast \in Nat /\ MediumAtLeast \in Nat

(* The scales agree in direction: more impact or an easier attack is never *)
(* less risk, and more points are never an easier attack.                  *)
TablesMonotone ==
    /\ \A i, j \in ImpactLevels : \A f, g \in Feasibilities :
          i <= j /\ f <= g => Matrix[i][f] <= Matrix[j][g]
    /\ \A i, j \in DOMAIN Thresholds :
          i <= j => Thresholds[j].feasibility <= Thresholds[i].feasibility

Highest(S) == CHOOSE x \in S : \A y \in S : y <= x
----------------------------------------------------------------------------
(* overall_impact: the highest of the axes that are rated; none is an      *)
(* error.                                                                  *)
Rated(impact) == {impact[x] : x \in Axes} \ {None}
OverallImpact(impact) == Highest(Rated(impact))

(* feasibility_from_factors: a higher total means a harder attack.  A      *)
(* total above the last threshold is an error.                             *)
InTables(factors) == \A f \in Factors : factors[f] \in DOMAIN Points[f]
Total(factors) ==
    Points["elapsed_time"][factors["elapsed_time"]] + Points["expertise"][factors["expertise"]]
      + Points["knowledge"][factors["knowledge"]] + Points["window"][factors["window"]]
      + Points["equipment"][factors["equipment"]]

FirstCovering(total, i) ==
    /\ i \in DOMAIN Thresholds
    /\ total <= Thresholds[i].max
    /\ \A j \in DOMAIN Thresholds : j < i => total > Thresholds[j].max
Covered(total) == \E i \in DOMAIN Thresholds : FirstCovering(total, i)

FeasibilityFromFactors(total) ==
    Thresholds[CHOOSE i \in DOMAIN Thresholds : FirstCovering(total, i)].feasibility

(* RiskInput: an impact per axis, and the five factors or the expert's own *)
(* feasibility.                                                            *)
Scorable(input) ==
    /\ Rated(input.impact) # {}
    /\ input.byFactors => InTables(input.factors) /\ Covered(Total(input.factors))

(* score: one approved threat, made from the facts of its asset.           *)
Score(input, facts) ==
    LET points == IF input.byFactors THEN Total(input.factors) ELSE 0
        feasibility == IF input.byFactors THEN FeasibilityFromFactors(points)
                                          ELSE input.feasibility
    IN  [impact |-> input.impact, overall |-> OverallImpact(input.impact),
         byFactors |-> input.byFactors, points |-> points, feasibility |-> feasibility,
         risk |-> Matrix[OverallImpact(input.impact)][feasibility], facts |-> facts]

(* RiskAssessment.effective_risk: the expert's adjustment, if there is one. *)
Effective(r) == IF r.adjusted # None THEN r.adjusted ELSE r.score.risk

(* An adjustment to the computed risk is no adjustment.                    *)
Adjustment(s, decision) == IF decision.adjusted = s.risk THEN None ELSE decision.adjusted

(* Mutant: a residual risk is only recorded for a retained risk.           *)
MutantTreated(s, decision) ==
    [score |-> s, adjusted |-> Adjustment(s, decision), treatment |-> decision.treatment,
     residual |-> IF decision.treatment = "Retain" THEN decision.residual ELSE None]

(* apply_treatment: the score and the human decision.                      *)
Treated(s, decision) ==
    [score |-> s, adjusted |-> Adjustment(s, decision), treatment |-> decision.treatment,
     residual |-> decision.residual]

(* apply_treatment raises when Retain changes the risk.                    *)
Treatable(s, decision) ==
    decision.treatment = "Retain" => decision.residual = Effective(Treated(s, decision))

(* Mutant: risks are ranked by the computed risk, adjusted or not.         *)
MutantRanksBefore(risks, t, u) ==
    LET a == risks[t].score
        b == risks[u].score
    IN  \/ a.risk > b.risk
        \/ a.risk = b.risk /\ a.overall > b.overall
        \/ a.risk = b.risk /\ a.overall = b.overall /\ t < u

(* The sort key of rank_per_asset: risk, impact, feasibility, tid.         *)
RanksBefore(risks, t, u) ==
    LET a == risks[t].score
        b == risks[u].score
    IN  \/ Effective(risks[t]) > Effective(risks[u])
        \/ /\ Effective(risks[t]) = Effective(risks[u])
           /\ \/ a.overall > b.overall
              \/ a.overall = b.overall /\ a.feasibility > b.feasibility
              \/ a.overall = b.overall /\ a.feasibility = b.feasibility /\ t < u

(* rank_per_asset: the place of a risk among those of one asset of a       *)
(* project and use case.                                                   *)
Rank(risks, group, t) == 1 + Cardinality({u \in group : RanksBefore(risks, u, t)})
----------------------------------------------------------------------------
(* asset_criticality of an asset that requires n security properties.      *)
AssetCriticality(n) ==
    IF n >= HighAtLeast THEN 3 ELSE IF n >= MediumAtLeast THEN 2 ELSE 1
Unknown == 0

Raise(class, floor) == IF floor.atLeast > class THEN floor.atLeast ELSE class

(* suggested_class: the class of the effective risk, raised by each floor  *)
(* that applies, those of the feasibility first.                           *)
SuggestedClass(risk, feasibility, criticality) ==
    LET ByFeasibility(class, floor) ==
            IF floor.feasibility = feasibility THEN Raise(class, floor) ELSE class
        ByCriticality(class, floor) ==
            IF floor.criticality = criticality /\ floor.risk = risk THEN Raise(class, floor) ELSE class
    IN  FoldLeft(ByCriticality,
                 FoldLeft(ByFeasibility, RiskToClass[risk], FeasibilityFloors),
                 CriticalityFloors)

(* A class is raised to the class of a floor only, so it stays a class.    *)
ASSUME SuggestedIsAClass ==
    \A risk \in RiskLevels, feasibility \in Feasibilities, criticality \in Criticalities :
        SuggestedClass(risk, feasibility, criticality) \in Classes

(* Mutant: the computed risk instead of the effective one.                 *)
MutantRiskFingerprint(r) ==
    [risk |-> r.score.risk, feasibility |-> r.score.feasibility, treatment |-> r.treatment]

(* risk_fingerprint: what tells a mapping that its risk has changed.       *)
RiskFingerprint(r) ==
    [risk |-> Effective(r), feasibility |-> r.score.feasibility, treatment |-> r.treatment]

(* Mutant: a risk that was adjusted is passed over.                        *)
MutantApplies(r) == r.treatment = "Reduce" /\ r.adjusted = None

(* applies: resistance is required where the risk is reduced.              *)
Applies(r) == r.treatment = "Reduce"

(* propose and confirm: the expert takes the suggested class, or another   *)
(* one as an override.                                                     *)
Confirmed(r, chosen, criticality) ==
    LET suggested == SuggestedClass(Effective(r), r.score.feasibility, criticality)
        class == IF chosen = None THEN suggested ELSE chosen
    IN  [class |-> class, suggested |-> suggested, overridden |-> class # suggested,
         criticality |-> criticality, fingerprint |-> RiskFingerprint(r)]
=============================================================================
