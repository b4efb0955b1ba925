\* One analysis of two assets, with a build, an outage and a restart.
SPECIFICATION Spec
CONSTANTS
    TopK = 2
    PoolSize = 4
    StrideSlots = 2
    TagBoost = 2
    HardwarePenalty = 3
    AllSourcesWhenTagged = FALSE
    MaxSteps = 3
    SeedData <- MCSeedData
    FullData <- MCFullData
    Databases = {"other"}
    MaxBuilds = 2
    MaxOutages = 1
    MaxRestarts = 1
    Inputs <- MCInputs
    AssetOrder <- MCAssetOrder
    InitialKbs <- MCInitialKbs
    Answers = {"down", "part", "foreign", "vague", "none"}
    MaxOdd = 1
    Foreign <- Cwe6
INVARIANTS
    TypeOK
    StrideReachesReview
    FallbackPasses
    GroundedIsRetrieved
    CitedStaysKnown
    ChainsCoverEveryLink
