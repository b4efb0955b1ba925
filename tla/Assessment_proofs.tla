------------------------- MODULE Assessment_proofs --------------------------
(***************************************************************************)
(* Proofs about Assessment, for all assets, threats, inputs, decisions and *)
(* tables that pass the checks of Ratings.load and Rules.load.             *)
(***************************************************************************)
EXTENDS Assessment, FiniteSetTheorems, TLAPS

(* How a stored score came about.                                          *)
Derived(s) ==
    /\ Rated(s.impact) # {} /\ s.overall = OverallImpact(s.impact)
    /\ s.byFactors => Covered(s.points) /\ s.feasibility = FeasibilityFromFactors(s.points)
    /\ s.risk = Matrix[s.overall][s.feasibility]

Retained(r) == r.treatment = "Retain" => r.residual = Effective(r)

(* What a mapping says follows from what it keeps of its risk.             *)
FollowsRules(m) ==
    /\ m.suggested =
          SuggestedClass(m.fingerprint.risk, m.fingerprint.feasibility, m.criticality)
    /\ m.class # m.suggested => m.overridden

IInv ==
    /\ TypeOK
    /\ \A t \in DOMAIN risks : Derived(risks[t].score) /\ Retained(risks[t])
    /\ \A t \in DOMAIN mappings : FollowsRules(mappings[t])

----------------------------------------------------------------------------
(* The highest of some impact levels is one of them and above the others.  *)
LEMMA HighestOfLevels ==
    ASSUME NEW S \in SUBSET ImpactLevels, S # {}
    PROVE  Highest(S) \in S /\ \A y \in S : y <= Highest(S)
<1>1. \E x \in S : \A y \in S : y <= x
  <2>1. \A y \in S : y = 1 \/ y = 2 \/ y = 3 \/ y = 4
    BY DEF ImpactLevels
  <2>2. CASE 4 \in S
    BY <2>1, <2>2
  <2>3. CASE 4 \notin S /\ 3 \in S
    BY <2>1, <2>3
  <2>4. CASE 4 \notin S /\ 3 \notin S /\ 2 \in S
    BY <2>1, <2>4
  <2>5. CASE 4 \notin S /\ 3 \notin S /\ 2 \notin S
    BY <2>1, <2>5
  <2>6. QED
    BY <2>2, <2>3, <2>4, <2>5
<1>2. QED
  BY <1>1 DEF Highest

(* overall_impact of rated axes is a level, and at least that of each axis. *)
LEMMA OverallIsHighest ==
    ASSUME NEW impact \in [Axes -> ImpactLevels \cup {None}], Rated(impact) # {}
    PROVE  /\ OverallImpact(impact) \in Rated(impact)
           /\ OverallImpact(impact) \in ImpactLevels
           /\ \A x \in Axes : impact[x] <= OverallImpact(impact)
<1>1. Rated(impact) \in SUBSET ImpactLevels
  BY DEF Rated
<1>2. /\ OverallImpact(impact) \in Rated(impact)
      /\ \A y \in Rated(impact) : y <= OverallImpact(impact)
  BY <1>1, HighestOfLevels DEF OverallImpact
<1>3. OverallImpact(impact) \in ImpactLevels
  BY <1>1, <1>2
<1>4. ASSUME NEW x \in Axes PROVE impact[x] <= OverallImpact(impact)
  <2>1. CASE impact[x] = None
    BY <2>1, <1>3 DEF None, ImpactLevels
  <2>2. CASE impact[x] # None
    BY <2>2, <1>2 DEF Rated
  <2>3. QED
    BY <2>1, <2>2
<1>5. QED
  BY <1>2, <1>3, <1>4

(* A covered total has the feasibility of the first threshold above it.    *)
LEMMA FirstThreshold ==
    ASSUME NEW total \in Nat, Covered(total)
    PROVE  \E i \in DOMAIN Thresholds :
              /\ FirstCovering(total, i)
              /\ FeasibilityFromFactors(total) = Thresholds[i].feasibility
              /\ FeasibilityFromFactors(total) \in Feasibilities
<1>1. \E i \in DOMAIN Thresholds : FirstCovering(total, i)
  BY DEF Covered
<1>2. PICK i \in DOMAIN Thresholds :
          /\ FirstCovering(total, i)
          /\ i = CHOOSE j \in DOMAIN Thresholds : FirstCovering(total, j)
  BY <1>1
<1>3. Thresholds[i].feasibility \in Feasibilities
  <2> DEFINE Row == [max : Nat, feasibility : Feasibilities]
  <2>1. Thresholds \in Seq(Row)
    BY RatingsComplete DEF RatingsComplete
  <2>2. Thresholds[i] \in Row
    <3> HIDE DEF Row
    <3> QED BY <2>1
  <2>3. QED
    BY <2>2
<1>4. QED
  BY <1>2, <1>3 DEF FeasibilityFromFactors

LEMMA TotalIsNat ==
    ASSUME NEW factors, InTables(factors)
    PROVE  Total(factors) \in Nat
<1>1. \A f \in Factors : Points[f][factors[f]] \in Nat
  BY RatingsComplete DEF InTables, RatingsComplete
<1>2. QED
  BY <1>1 DEF Total, Factors

(* score of an input the tables cover.                                     *)
LEMMA ScoreDerived ==
    ASSUME NEW input \in Inputs, Scorable(input), NEW facts \in Designs
    PROVE  ScoreOK(Score(input, facts)) /\ Derived(Score(input, facts))
<1> DEFINE s == Score(input, facts)
           points == IF input.byFactors THEN Total(input.factors) ELSE 0
<1>1. /\ input.impact \in [Axes -> ImpactLevels \cup {None}]
      /\ input.byFactors \in BOOLEAN
      /\ ~input.byFactors => input.feasibility \in Feasibilities
  BY ScopeAssumption DEF ScopeAssumption
<1>2. /\ s.impact = input.impact /\ s.overall = OverallImpact(input.impact)
      /\ s.byFactors = input.byFactors /\ s.points = points /\ s.facts = facts
      /\ s.feasibility = IF input.byFactors THEN FeasibilityFromFactors(points)
                                            ELSE input.feasibility
      /\ s.risk = Matrix[OverallImpact(input.impact)][s.feasibility]
  BY DEF Score
<1>3. Rated(input.impact) # {} /\ OverallImpact(input.impact) \in ImpactLevels
  BY <1>1, OverallIsHighest DEF Scorable
<1>4. /\ points \in Nat /\ s.feasibility \in Feasibilities
      /\ input.byFactors => Covered(points)
  <2>1. CASE input.byFactors
    BY <2>1, <1>2, TotalIsNat, FirstThreshold DEF Scorable
  <2>2. CASE ~input.byFactors
    BY <2>2, <1>1, <1>2
  <2>3. QED
    BY <2>1, <2>2
<1>5. s.risk \in RiskLevels
  BY <1>2, <1>3, <1>4, RatingsComplete DEF RatingsComplete
<1>6. QED
  BY <1>1, <1>2, <1>3, <1>4, <1>5 DEF ScoreOK, Derived

(* apply_treatment of a score and a decision it accepts.                   *)
LEMMA TreatedRetains ==
    ASSUME NEW s, ScoreOK(s), NEW decision \in Decisions, Treatable(s, decision)
    PROVE  /\ RiskOK(Treated(s, decision))
           /\ Treated(s, decision).score = s
           /\ Retained(Treated(s, decision))
<1>1. /\ decision.treatment \in Treatments /\ decision.residual \in RiskLevels
      /\ decision.adjusted \in RiskLevels \cup {None}
  BY ScopeAssumption DEF ScopeAssumption
<1>2. /\ Treated(s, decision).score = s
      /\ Treated(s, decision).adjusted = Adjustment(s, decision)
      /\ Treated(s, decision).treatment = decision.treatment
      /\ Treated(s, decision).residual = decision.residual
  BY DEF Treated
<1>3. Adjustment(s, decision) \in RiskLevels \cup {None}
  BY <1>1 DEF Adjustment
<1>4. QED
  BY <1>1, <1>2, <1>3 DEF RiskOK, Retained, Treatable

(* The effective risk of a stored risk is a risk.                          *)
LEMMA EffectiveIsRisk ==
    ASSUME NEW r, RiskOK(r)
    PROVE  Effective(r) \in RiskLevels
BY DEF Effective, RiskOK, ScoreOK

(* confirm of an approved risk.                                            *)
LEMMA ConfirmedFollows ==
    ASSUME NEW r, RiskOK(r), NEW chosen \in Overrides \cup {None},
           NEW criticality \in Criticalities
    PROVE  /\ MappingOK(Confirmed(r, chosen, criticality))
           /\ FollowsRules(Confirmed(r, chosen, criticality))
<1> DEFINE m == Confirmed(r, chosen, criticality)
           suggested == SuggestedClass(Effective(r), r.score.feasibility, criticality)
           class == IF chosen = None THEN suggested ELSE chosen
<1>1. /\ m.class = class /\ m.suggested = suggested
      /\ m.overridden = (class # suggested) /\ m.criticality = criticality
      /\ m.fingerprint = RiskFingerprint(r)
  BY DEF Confirmed
<1>2. /\ Effective(r) \in RiskLevels /\ r.score.feasibility \in Feasibilities
      /\ r.treatment \in Treatments
  BY EffectiveIsRisk DEF RiskOK, ScoreOK
<1>3. suggested \in Classes
  BY <1>2, SuggestedIsAClass DEF SuggestedIsAClass
<1>4. class \in Classes
  BY <1>3, ScopeAssumption DEF ScopeAssumption
<1>5. /\ RiskFingerprint(r).risk = Effective(r)
      /\ RiskFingerprint(r).feasibility = r.score.feasibility
      /\ RiskFingerprint(r) \in
            [risk : RiskLevels, feasibility : Feasibilities, treatment : Treatments]
  BY <1>2 DEF RiskFingerprint
<1>6. m.overridden \in BOOLEAN /\ (m.class # m.suggested => m.overridden)
  BY <1>1
<1>7. QED
  BY <1>1, <1>3, <1>4, <1>5, <1>6 DEF MappingOK, FollowsRules

(* A value of a store after a request is new or was there before.          *)
LEMMA PutAllValue ==
    ASSUME NEW store, NEW new, NEW t \in DOMAIN PutAll(store, new)
    PROVE  \/ t \in DOMAIN new /\ PutAll(store, new)[t] = new[t]
           \/ t \in DOMAIN store /\ PutAll(store, new)[t] = store[t]
BY DEF PutAll

LEMMA WithoutValue ==
    ASSUME NEW store, NEW S, NEW t \in DOMAIN Without(store, S)
    PROVE  t \in DOMAIN store /\ Without(store, S)[t] = store[t]
BY DEF Without
----------------------------------------------------------------------------
LEMMA InitIInv ==
    ASSUME Init
    PROVE  IInv
BY ScopeAssumption DEF Init, IInv, TypeOK, Nothing, ScopeAssumption

(* The parts of the invariant that a request leaves alone.                 *)
ThreatsOK == DOMAIN threats \subseteq Tids /\ \A t \in DOMAIN threats : threats[t] \in Designs
RisksOK ==
    /\ DOMAIN risks \subseteq Tids
    /\ \A t \in DOMAIN risks :
          RiskOK(risks[t]) /\ Derived(risks[t].score) /\ Retained(risks[t])
MappingsOK ==
    /\ DOMAIN mappings \subseteq Tids
    /\ \A t \in DOMAIN mappings : MappingOK(mappings[t]) /\ FollowsRules(mappings[t])
RestOK == design \in [Assets -> Designs] /\ saves \in 0..MaxSaves

LEMMA IInvParts == IInv <=> ThreatsOK /\ RisksOK /\ MappingsOK /\ RestOK
BY DEF IInv, TypeOK, ThreatsOK, RisksOK, MappingsOK, RestOK

LEMMA SaveCounts ==
    ASSUME saves \in 0..MaxSaves, Save
    PROVE  saves' \in 0..MaxSaves
BY ScopeAssumption DEF Save, ScopeAssumption

(* Approved threats are made from facts an asset has.                      *)
LEMMA ThreatsPreserved ==
    ASSUME ThreatsOK, RestOK, [Next]_vars
    PROVE  ThreatsOK'
<1>1. CASE threats' = threats
  BY <1>1 DEF ThreatsOK
<1>2. ASSUME NEW S \in SUBSET Tids, CommitRun(S)
      PROVE  ThreatsOK'
  <2> DEFINE new == [t \in S |-> design[AssetOf[t]]]
  <2>1. threats' = PutAll(threats, new) /\ DOMAIN new = S
    BY <1>2 DEF CommitRun
  <2>2. DOMAIN threats' \subseteq Tids
    BY <2>1 DEF PutAll, ThreatsOK
  <2>3. \A t \in S : new[t] \in Designs
    BY ScopeAssumption DEF ScopeAssumption, RestOK
  <2>4. \A t \in DOMAIN threats' : threats'[t] \in Designs
    <3> HIDE DEF new
    <3> QED BY <2>1, <2>3, PutAllValue DEF ThreatsOK
  <2>5. QED
    BY <2>2, <2>4 DEF ThreatsOK
<1>3. CASE RetireStaleThreats
  <2>1. threats' = Without(threats, StaleThreats)
    BY <1>3 DEF RetireStaleThreats
  <2>2. \A t \in DOMAIN threats' : t \in DOMAIN threats /\ threats'[t] = threats[t]
    BY <2>1, WithoutValue
  <2>3. QED
    BY <2>2 DEF ThreatsOK
<1>4. QED
  BY <1>1, <1>2, <1>3
     DEF Next, vars, EditAsset, ApproveRisks, RetireStaleRisks, ConfirmMappings,
         RetireStaleMappings

(* A stored risk is a score of the rules with a decision that fits it.     *)
LEMMA RisksPreserved ==
    ASSUME ThreatsOK, RisksOK, [Next]_vars
    PROVE  RisksOK'
<1>1. CASE risks' = risks
  BY <1>1 DEF RisksOK
<1>2. ASSUME NEW S \in SUBSET DOMAIN threats, NEW input \in [S -> Inputs],
             NEW decision \in [S -> Decisions], ApproveRisks(S, input, decision)
      PROVE  RisksOK'
  <2> DEFINE scored == [t \in S |-> Score(input[t], threats[t])]
             new == [t \in S |-> Treated(scored[t], decision[t])]
  <2>1. /\ risks' = PutAll(risks, new) /\ DOMAIN new = S
        /\ \A t \in S : Scorable(input[t]) /\ Treatable(scored[t], decision[t])
    BY <1>2 DEF ApproveRisks
  <2>2. DOMAIN risks' \subseteq Tids
    BY <2>1 DEF PutAll, RisksOK, ThreatsOK
  <2>3. ASSUME NEW t \in S
        PROVE  RiskOK(new[t]) /\ Derived(new[t].score) /\ Retained(new[t])
    <3>1. input[t] \in Inputs /\ decision[t] \in Decisions /\ threats[t] \in Designs
      BY DEF ThreatsOK
    <3>2. scored[t] = Score(input[t], threats[t]) /\ new[t] = Treated(scored[t], decision[t])
      OBVIOUS
    <3>3. ScoreOK(scored[t]) /\ Derived(scored[t])
      BY <2>1, <3>1, <3>2, ScoreDerived
    <3>4. QED
      <4> HIDE DEF scored, new
      <4> QED BY <2>1, <3>1, <3>2, <3>3, TreatedRetains
  <2>4. \A t \in DOMAIN risks' :
           RiskOK(risks'[t]) /\ Derived(risks'[t].score) /\ Retained(risks'[t])
    <3> HIDE DEF new
    <3> QED BY <2>1, <2>3, PutAllValue DEF RisksOK
  <2>5. QED
    BY <2>2, <2>4 DEF RisksOK
<1>3. CASE RetireStaleRisks
  <2>1. risks' = Without(risks, StaleRisks)
    BY <1>3 DEF RetireStaleRisks
  <2>2. \A t \in DOMAIN risks' : t \in DOMAIN risks /\ risks'[t] = risks[t]
    BY <2>1, WithoutValue
  <2>3. QED
    BY <2>2 DEF RisksOK
<1>4. QED
  BY <1>1, <1>2, <1>3
     DEF Next, vars, EditAsset, CommitRun, RetireStaleThreats, ConfirmMappings,
         RetireStaleMappings

(* A stored mapping is what the rules make of the risk it was made from.   *)
LEMMA MappingsPreserved ==
    ASSUME RisksOK, MappingsOK, [Next]_vars
    PROVE  MappingsOK'
<1>1. CASE mappings' = mappings
  BY <1>1 DEF MappingsOK
<1>2. ASSUME NEW S \in SUBSET DOMAIN risks, NEW chosen \in [S -> Overrides \cup {None}],
             NEW withAssets \in BOOLEAN, ConfirmMappings(S, chosen, withAssets)
      PROVE  MappingsOK'
  <2> DEFINE Criticality(t) ==
                IF withAssets THEN AssetCriticality(design[AssetOf[t]]) ELSE Unknown
             new == [t \in S |-> Confirmed(risks[t], chosen[t], Criticality(t))]
  <2>1. mappings' = PutAll(mappings, new) /\ DOMAIN new = S
    BY <1>2 DEF ConfirmMappings
  <2>2. DOMAIN mappings' \subseteq Tids
    BY <2>1 DEF PutAll, RisksOK, MappingsOK
  <2>3. ASSUME NEW t \in S
        PROVE  MappingOK(new[t]) /\ FollowsRules(new[t])
    <3>1. RiskOK(risks[t]) /\ chosen[t] \in Overrides \cup {None}
      BY DEF RisksOK
    <3>2. Criticality(t) \in Criticalities
      BY DEF AssetCriticality, Unknown, Criticalities
    <3>3. new[t] = Confirmed(risks[t], chosen[t], Criticality(t))
      OBVIOUS
    <3>4. QED
      <4> HIDE DEF Criticality, new
      <4> QED BY <3>1, <3>2, <3>3, ConfirmedFollows
  <2>4. \A t \in DOMAIN mappings' : MappingOK(mappings'[t]) /\ FollowsRules(mappings'[t])
    <3> HIDE DEF new
    <3> QED BY <2>1, <2>3, PutAllValue DEF MappingsOK
  <2>5. QED
    BY <2>2, <2>4 DEF MappingsOK
<1>3. CASE RetireStaleMappings
  <2>1. mappings' = Without(mappings, StaleMappings)
    BY <1>3 DEF RetireStaleMappings
  <2>2. \A t \in DOMAIN mappings' : t \in DOMAIN mappings /\ mappings'[t] = mappings[t]
    BY <2>1, WithoutValue
  <2>3. QED
    BY <2>2 DEF MappingsOK
<1>4. QED
  BY <1>1, <1>2, <1>3
     DEF Next, vars, EditAsset, CommitRun, RetireStaleThreats, ApproveRisks, RetireStaleRisks

LEMMA RestPreserved ==
    ASSUME RestOK, [Next]_vars
    PROVE  RestOK'
<1>1. ASSUME NEW a \in Assets, NEW n \in Designs, EditAsset(a, n)
      PROVE  RestOK'
  BY <1>1, SaveCounts DEF EditAsset, RestOK
<1>2. CASE design' = design /\ Save
  BY <1>2, SaveCounts DEF RestOK
<1>3. CASE UNCHANGED vars
  BY <1>3 DEF RestOK, vars
<1>4. QED
  BY <1>1, <1>2, <1>3
     DEF Next, CommitRun, RetireStaleThreats, ApproveRisks, RetireStaleRisks,
         ConfirmMappings, RetireStaleMappings

LEMMA NextIInv ==
    ASSUME IInv, [Next]_vars
    PROVE  IInv'
<1>1. ThreatsOK /\ RisksOK /\ MappingsOK /\ RestOK
  BY IInvParts
<1>2. ThreatsOK' /\ RisksOK' /\ MappingsOK' /\ RestOK'
  BY <1>1, ThreatsPreserved, RisksPreserved, MappingsPreserved, RestPreserved
<1>3. QED
  BY <1>2 DEF IInv, TypeOK, ThreatsOK, RisksOK, MappingsOK, RestOK

(* Every reachable state satisfies the invariant.                          *)
THEOREM Invariance == Spec => []IInv
<1>1. QED
  BY InitIInv, NextIInv, PTL DEF Spec
----------------------------------------------------------------------------
(* The stores hold what the requests may put there.                        *)
THEOREM TypeCorrect == Spec => []TypeOK
<1>1. IInv => TypeOK
  BY DEF IInv
<1>2. QED
  BY <1>1, Invariance, PTL

(* risk_fingerprint keeps everything suggested_class reads of a risk, so a *)
(* mapping that is not stale follows the rules for the risk as it is now.  *)
THEOREM FreshMappingFollowsRulesHolds == Spec => []FreshMappingFollowsRules
<1>1. ASSUME IInv PROVE FreshMappingFollowsRules
  <2>1. SUFFICES ASSUME NEW t \in DOMAIN mappings \ StaleMappings
                 PROVE  /\ mappings[t].suggested =
                               SuggestedClass(Effective(risks[t]), risks[t].score.feasibility,
                                              mappings[t].criticality)
                        /\ mappings[t].class # mappings[t].suggested => mappings[t].overridden
    BY DEF FreshMappingFollowsRules
  <2>2. mappings[t].fingerprint = RiskFingerprint(risks[t])
    BY DEF StaleMappings
  <2>3. /\ mappings[t].fingerprint.risk = Effective(risks[t])
        /\ mappings[t].fingerprint.feasibility = risks[t].score.feasibility
    BY <2>2 DEF RiskFingerprint
  <2>4. FollowsRules(mappings[t])
    BY <1>1 DEF IInv
  <2>5. QED
    BY <2>3, <2>4 DEF FollowsRules
<1>2. QED
  BY <1>1, Invariance, PTL

(* With an empty report from each agent the chain from threats to mappings *)
(* is complete and current.                                                *)
THEOREM QuietMeansCompleteHolds == Spec => []QuietMeansComplete
<1>1. ASSUME IInv, StaleThreats \cup StaleRisks \cup Unscored \cup StaleMappings \cup Unmapped = {}
      PROVE  /\ DOMAIN mappings \subseteq DOMAIN risks /\ DOMAIN risks = DOMAIN threats
             /\ \A t \in DOMAIN risks :
                   /\ risks[t].score.facts = design[AssetOf[t]]
                   /\ risks[t].treatment = "Reduce" =>
                         /\ t \in DOMAIN mappings
                         /\ \/ mappings[t].overridden
                            \/ mappings[t].class =
                                  SuggestedClass(Effective(risks[t]), risks[t].score.feasibility,
                                                 mappings[t].criticality)
  <2>1. DOMAIN mappings \subseteq DOMAIN risks
    BY <1>1 DEF StaleMappings
  <2>2. DOMAIN risks = DOMAIN threats
    BY <1>1 DEF StaleRisks, Unscored
  <2>3. ASSUME NEW t \in DOMAIN risks
        PROVE  risks[t].score.facts = design[AssetOf[t]]
    BY <1>1, <2>2, <2>3 DEF StaleRisks, StaleThreats
  <2>4. ASSUME NEW t \in DOMAIN risks, risks[t].treatment = "Reduce"
        PROVE  /\ t \in DOMAIN mappings
               /\ \/ mappings[t].overridden
                  \/ mappings[t].class =
                        SuggestedClass(Effective(risks[t]), risks[t].score.feasibility,
                                       mappings[t].criticality)
    <3>1. t \in DOMAIN mappings
      BY <1>1, <2>4 DEF Unmapped, Applies
    <3>2. mappings[t].fingerprint = RiskFingerprint(risks[t])
      BY <1>1, <3>1 DEF StaleMappings
    <3>3. /\ mappings[t].fingerprint.risk = Effective(risks[t])
          /\ mappings[t].fingerprint.feasibility = risks[t].score.feasibility
      BY <3>2 DEF RiskFingerprint
    <3>4. FollowsRules(mappings[t])
      BY <1>1, <3>1 DEF IInv
    <3>5. QED
      BY <3>1, <3>3, <3>4 DEF FollowsRules
  <2>5. QED
    BY <2>1, <2>2, <2>3, <2>4
<1>2. IInv => QuietMeansComplete
  BY <1>1 DEF QuietMeansComplete
<1>3. QED
  BY <1>2, Invariance, PTL

(* apply_treatment accepts Retain only with the effective risk as residual *)
(* risk, after an adjustment to the computed risk has been dropped.        *)
THEOREM RetainKeepsTheRiskHolds == Spec => []RetainKeepsTheRisk
<1>1. ASSUME IInv PROVE RetainKeepsTheRisk
  BY <1>1 DEF IInv, Retained, RetainKeepsTheRisk
<1>2. QED
  BY <1>1, Invariance, PTL

(* More points are covered by the same threshold or a later one.           *)
LEMMA FeasibilityAntitone ==
    ASSUME TablesMonotone, NEW p \in Nat, NEW q \in Nat, p <= q, Covered(p), Covered(q)
    PROVE  FeasibilityFromFactors(q) <= FeasibilityFromFactors(p)
<1>1. PICK i \in DOMAIN Thresholds :
          FirstCovering(p, i) /\ FeasibilityFromFactors(p) = Thresholds[i].feasibility
  BY FirstThreshold
<1>2. PICK j \in DOMAIN Thresholds :
          FirstCovering(q, j) /\ FeasibilityFromFactors(q) = Thresholds[j].feasibility
  BY FirstThreshold
<1>3. i \in Nat /\ j \in Nat /\ Thresholds[j].max \in Nat
  <2> DEFINE Row == [max : Nat, feasibility : Feasibilities]
  <2>1. Thresholds \in Seq(Row)
    BY RatingsComplete DEF RatingsComplete
  <2>2. i \in Nat /\ j \in Nat /\ Thresholds[j] \in Row
    <3> HIDE DEF Row
    <3> QED BY <2>1
  <2>3. QED
    BY <2>2
<1>4. ~(j < i)
  BY <1>1, <1>2, <1>3 DEF FirstCovering
<1>5. i <= j
  BY <1>3, <1>4
<1>6. QED
  BY <1>1, <1>2, <1>5 DEF TablesMonotone

(* The highest axis is monotone in every axis.                             *)
LEMMA ImpactMonotone ==
    ASSUME NEW a \in [Axes -> ImpactLevels \cup {None}], Rated(a) # {},
           NEW b \in [Axes -> ImpactLevels \cup {None}], Rated(b) # {},
           \A x \in Axes : a[x] <= b[x]
    PROVE  OverallImpact(a) <= OverallImpact(b)
<1>1. PICK x \in Axes : OverallImpact(a) = a[x]
  BY OverallIsHighest DEF Rated
<1>2. a[x] <= b[x] /\ b[x] <= OverallImpact(b)
  BY OverallIsHighest
<1>3. a[x] \in Nat /\ b[x] \in Nat /\ OverallImpact(b) \in Nat
  <2>1. a[x] \in ImpactLevels \cup {None} /\ b[x] \in ImpactLevels \cup {None}
    OBVIOUS
  <2>2. OverallImpact(b) \in ImpactLevels
    BY OverallIsHighest
  <2>3. QED
    BY <2>1, <2>2 DEF ImpactLevels, None
<1>4. QED
  BY <1>1, <1>2, <1>3

(* With tables that agree in direction, as ratings.json does, a threat     *)
(* that is no worse on any axis never has the higher risk.                 *)
THEOREM HarmlessIsNotRiskierHolds ==
    ASSUME TablesMonotone
    PROVE  Spec => []HarmlessIsNotRiskier
<1>1. ASSUME IInv PROVE HarmlessIsNotRiskier
  <2>1. SUFFICES ASSUME NEW t \in DOMAIN risks, NEW u \in DOMAIN risks,
                        \A x \in Axes : risks[t].score.impact[x] <= risks[u].score.impact[x],
                        IF risks[t].score.byFactors /\ risks[u].score.byFactors
                        THEN risks[t].score.points >= risks[u].score.points
                        ELSE risks[t].score.feasibility <= risks[u].score.feasibility
                 PROVE  risks[t].score.risk <= risks[u].score.risk
    BY DEF HarmlessIsNotRiskier
  <2> DEFINE r == risks[t].score
             s == risks[u].score
  <2>2. ScoreOK(r) /\ Derived(r) /\ ScoreOK(s) /\ Derived(s)
    BY <1>1 DEF IInv, TypeOK, RiskOK
  <2>3. r.overall <= s.overall
    BY <2>1, <2>2, ImpactMonotone DEF ScoreOK, Derived
  <2>4. r.feasibility <= s.feasibility
    <3>1. CASE r.byFactors /\ s.byFactors
      BY <2>1, <2>2, <3>1, FeasibilityAntitone DEF ScoreOK, Derived
    <3>2. CASE ~(r.byFactors /\ s.byFactors)
      BY <2>1, <3>2
    <3>3. QED
      BY <3>1, <3>2
  <2>5. /\ r.overall \in ImpactLevels /\ s.overall \in ImpactLevels
        /\ r.feasibility \in Feasibilities /\ s.feasibility \in Feasibilities
        /\ r.risk = Matrix[r.overall][r.feasibility]
        /\ s.risk = Matrix[s.overall][s.feasibility]
    BY <2>2 DEF ScoreOK, Derived
  <2>6. QED
    <3> HIDE DEF r, s
    <3>1. r.risk <= s.risk
      BY <2>3, <2>4, <2>5, TablesMonotone DEF TablesMonotone
    <3> QED BY <3>1 DEF r, s
<1>2. QED
  BY <1>1, Invariance, PTL
----------------------------------------------------------------------------
(* The sort key of rank_per_asset orders the stored risks strictly and     *)
(* totally.                                                                *)
LEMMA RanksBeforeOrders ==
    ASSUME IInv, NEW t \in DOMAIN risks, NEW u \in DOMAIN risks, NEW w \in DOMAIN risks
    PROVE  /\ ~RanksBefore(risks, t, t)
           /\ RanksBefore(risks, t, u) /\ RanksBefore(risks, u, w) => RanksBefore(risks, t, w)
           /\ t # u => RanksBefore(risks, t, u) \/ RanksBefore(risks, u, t)
<1>1. ASSUME NEW x \in DOMAIN risks
      PROVE  /\ x \in Nat /\ Effective(risks[x]) \in Nat
             /\ risks[x].score.overall \in Nat /\ risks[x].score.feasibility \in Nat
  <2>1. RiskOK(risks[x]) /\ x \in Nat
    BY ScopeAssumption DEF ScopeAssumption, IInv, TypeOK
  <2>2. QED
    BY <2>1, EffectiveIsRisk DEF RiskOK, ScoreOK, RiskLevels, ImpactLevels, Feasibilities
<1>2. QED
  BY <1>1 DEF RanksBefore

(* What ranks before the earlier of two risks, and that risk itself, rank  *)
(* before the later one.                                                   *)
LEMMA RankIncreases ==
    ASSUME IInv, NEW group \in SUBSET DOMAIN risks, NEW t \in group, NEW u \in group,
           RanksBefore(risks, t, u)
    PROVE  Rank(risks, group, t) < Rank(risks, group, u)
<1> DEFINE A == {w \in group : RanksBefore(risks, w, t)}
           B == {w \in group : RanksBefore(risks, w, u)}
<1>1. IsFiniteSet(group)
  BY FS_Subset, ScopeAssumption DEF ScopeAssumption, IInv, TypeOK
<1>2. IsFiniteSet(A) /\ IsFiniteSet(B)
  BY <1>1, FS_Subset
<1>3. t \notin A /\ A \cup {t} \subseteq B
  BY RanksBeforeOrders
<1>4. Cardinality(A \cup {t}) = Cardinality(A) + 1
  BY <1>2, <1>3, FS_AddElement
<1>5. Cardinality(A \cup {t}) <= Cardinality(B)
  BY <1>2, <1>3, FS_Subset
<1>6. Cardinality(A) \in Nat /\ Cardinality(B) \in Nat
  BY <1>2, FS_CardinalityType
<1>7. Rank(risks, group, t) = 1 + Cardinality(A) /\ Rank(risks, group, u) = 1 + Cardinality(B)
  BY DEF Rank
<1>8. QED
  BY <1>4, <1>5, <1>6, <1>7

(* A risk does not rank before itself, so its rank is a place in its group. *)
LEMMA RankIsPlace ==
    ASSUME IInv, NEW group \in SUBSET DOMAIN risks, NEW t \in group
    PROVE  Rank(risks, group, t) \in 1..Cardinality(group)
<1> DEFINE A == {w \in group : RanksBefore(risks, w, t)}
<1>1. IsFiniteSet(group)
  BY FS_Subset, ScopeAssumption DEF ScopeAssumption, IInv, TypeOK
<1>2. t \notin A /\ A \cup {t} \subseteq group
  BY RanksBeforeOrders
<1>3. IsFiniteSet(A)
  BY <1>1, FS_Subset
<1>4. Cardinality(A \cup {t}) = Cardinality(A) + 1
  BY <1>2, <1>3, FS_AddElement
<1>5. Cardinality(A \cup {t}) <= Cardinality(group)
  BY <1>1, <1>2, FS_Subset
<1>6. Cardinality(A) \in Nat /\ Cardinality(group) \in Nat
  BY <1>1, <1>3, FS_CardinalityType
<1>7. Rank(risks, group, t) = 1 + Cardinality(A)
  BY DEF Rank
<1>8. QED
  BY <1>4, <1>5, <1>6, <1>7

(* rank_per_asset numbers the risks of an asset 1 to n without gaps or     *)
(* ties, the higher effective risk first, however many there are.          *)
THEOREM RanksFollowRiskHolds == Spec => []RanksFollowRisk
<1>1. ASSUME IInv PROVE RanksFollowRisk
  <2>1. SUFFICES ASSUME NEW group \in SUBSET DOMAIN risks
                 PROVE  /\ {Rank(risks, group, t) : t \in group} = 1..Cardinality(group)
                        /\ \A t, u \in group :
                              Effective(risks[t]) > Effective(risks[u]) =>
                                Rank(risks, group, t) < Rank(risks, group, u)
    BY DEF RanksFollowRisk
  <2> DEFINE n == Cardinality(group)
             f == [t \in group |-> Rank(risks, group, t)]
  <2>2. IsFiniteSet(group) /\ n \in Nat
    BY <1>1, FS_Subset, FS_CardinalityType, ScopeAssumption DEF ScopeAssumption, IInv, TypeOK
  <2>3. \A t \in group : Rank(risks, group, t) \in 1..n
    BY <1>1, RankIsPlace
  <2>4. ASSUME NEW t \in group, NEW u \in group, t # u
        PROVE  Rank(risks, group, t) # Rank(risks, group, u)
    <3>1. RanksBefore(risks, t, u) \/ RanksBefore(risks, u, t)
      BY <1>1, <2>4, RanksBeforeOrders
    <3>2. \/ Rank(risks, group, t) < Rank(risks, group, u)
          \/ Rank(risks, group, u) < Rank(risks, group, t)
      BY <1>1, <3>1, RankIncreases
    <3>3. QED
      BY <2>2, <2>3, <3>2
  <2>5. f \in Injection(group, 1..n)
    BY <2>3, <2>4 DEF Injection, IsInjective
  <2>6. IsFiniteSet(1..n) /\ Cardinality(1..n) = n
    BY <2>2, FS_Interval
  <2>7. f \in Surjection(group, 1..n)
    BY <2>5, <2>6, FS_Injection
  <2>8. {Rank(risks, group, t) : t \in group} = 1..n
    BY <2>3, <2>7 DEF Surjection
  <2>9. ASSUME NEW t \in group, NEW u \in group,
               Effective(risks[t]) > Effective(risks[u])
        PROVE  Rank(risks, group, t) < Rank(risks, group, u)
    <3>1. RanksBefore(risks, t, u)
      BY <2>9 DEF RanksBefore
    <3>2. QED
      BY <1>1, <3>1, RankIncreases
  <2>10. QED
    BY <2>8, <2>9
<1>2. QED
  BY <1>1, Invariance, PTL
=============================================================================
