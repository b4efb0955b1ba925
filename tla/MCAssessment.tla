---------------------------- MODULE MCAssessment ----------------------------
(* Instances of Assessment for TLC, with the tables of ratings.json and    *)
(* rules.json.                                                             *)
EXTENDS Assessment, TLC

CONSTANTS a1

MCPoints ==
    [f \in Factors |->
        CASE f = "elapsed_time" ->
                ("1_day" :> 0 @@ "1_week" :> 1 @@ "2_weeks" :> 2 @@ "1_month" :> 4
                 @@ "2_months" :> 7 @@ "3_months" :> 10 @@ "4_months" :> 13
                 @@ "5_months" :> 15 @@ "6_months" :> 17 @@ "more_than_6_months" :> 19)
          [] f = "expertise" ->
                ("layman" :> 0 @@ "proficient" :> 3 @@ "expert" :> 6 @@ "multiple_experts" :> 8)
          [] f = "knowledge" ->
                ("public" :> 0 @@ "restricted" :> 3 @@ "sensitive" :> 7 @@ "critical" :> 11)
          [] f = "window" ->
                ("unlimited" :> 0 @@ "easy" :> 1 @@ "moderate" :> 4 @@ "difficult" :> 10)
          [] f = "equipment" ->
                ("standard" :> 0 @@ "specialized" :> 4 @@ "bespoke" :> 7
                 @@ "multiple_bespoke" :> 9)]

MCThresholds == <<[max |-> 13, feasibility |-> 3], [max |-> 19, feasibility |-> 2],
                  [max |-> 1000, feasibility |-> 1]>>
MCMatrix == <<<<1, 1, 1>>, <<2, 2, 2>>, <<2, 3, 3>>, <<2, 3, 3>>>>
MCRiskToClass == <<1, 2, 3>>
MCFeasibilityFloors == <<[feasibility |-> 1, atLeast |-> 3]>>
MCCriticalityFloors == <<[criticality |-> 3, risk |-> 2, atLeast |-> 3]>>

ASSUME TablesMonotone

MCAssetOf == [t \in Tids |-> a1]

(* A Major safety impact with 13 and with 20 points, on either side of     *)
(* both thresholds, and an expert's own rating of a Moderate financial     *)
(* impact.                                                                 *)
Impact(safety, financial) ==
    [x \in Axes |-> CASE x = "safety" -> safety
                      [] x = "financial" -> financial
                      [] OTHER -> None]
Attack(time, window) ==
    [elapsed_time |-> time, expertise |-> "layman", knowledge |-> "restricted",
     window |-> window, equipment |-> "standard"]
ByFactors(impact, factors) == [impact |-> impact, byFactors |-> TRUE, factors |-> factors]
Direct(impact, f) == [impact |-> impact, byFactors |-> FALSE, feasibility |-> f]

MCInputs ==
    {ByFactors(Impact(3, 1), Attack("3_months", "unlimited")),
     ByFactors(Impact(3, None), Attack("4_months", "moderate")),
     Direct(Impact(None, 2), 3)}

(* The last of them is refused: it retains a risk as less than it is.      *)
MCDecisions ==
    {[treatment |-> "Reduce", residual |-> 1, adjusted |-> None],
     [treatment |-> "Reduce", residual |-> 1, adjusted |-> 3],
     [treatment |-> "Retain", residual |-> 2, adjusted |-> 2],
     [treatment |-> "Retain", residual |-> 2, adjusted |-> 3]}
=============================================================================
