\* Two sessions over one edit of the project, and the demo's single gate.
SPECIFICATION Spec
CONSTANTS
    UseCases = {"uc1"}
    Retrieved <- MCRetrieved
    Recorded <- MCRecorded
    Expertise <- MCExpertise
    MaxPaths = 2
    MaxRejections = 2
    Outcomes = {"passed", "short", "flagged", "none"}
    MaxOdd = 1
    MaxMade = 4
    MaxSessions = 2
    MaxEdits = 1
    BatchSizes = {0, 1, 2}
    MaxHumanRejections = 3
    MaxAdded = 1
INVARIANTS
    TypeOK
    DecisionsStand
    ApprovedOnceLive
    LeftOutIsCovered
    OnlyTheShownIsWritten
PROPERTIES
    ApprovedIsNeverLost
CHECK_DEADLOCK FALSE
