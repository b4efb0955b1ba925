SPECIFICATION Spec
CONSTANTS
    MaxAttempts = 3
    MaxPaths = 3
    MaxItems = 2
    LastSeq = 3
    MoreOnRetry = FALSE
INVARIANTS
    TypeOK
    PassedOrFlagged
    FlaggedAfterAllTries
PROPERTY
    RetryKeepsTheRest
\* One call: it returns or raises.
CHECK_DEADLOCK FALSE
