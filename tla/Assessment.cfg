SPECIFICATION Spec
CONSTANTS
    a1 = a1
    Assets = {a1}
    Tids = {1, 2}
    AssetOf <- MCAssetOf
    Designs = {2, 3}
    Inputs <- MCInputs
    Decisions <- MCDecisions
    Overrides = {1}
    Points <- MCPoints
    Thresholds <- MCThresholds
    Matrix <- MCMatrix
    RiskToClass <- MCRiskToClass
    FeasibilityFloors <- MCFeasibilityFloors
    CriticalityFloors <- MCCriticalityFloors
    HighAtLeast = 3
    MediumAtLeast = 2
    ReuseTids = TRUE
    MaxItems = 1
    MaxSaves = 6
INVARIANTS
    TypeOK
    FreshMappingFollowsRules
    RanksFollowRisk
    QuietMeansComplete
\* Every request that stores something is counted, and the count is bounded.
CHECK_DEADLOCK FALSE
