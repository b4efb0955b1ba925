SPECIFICATION Spec
CONSTANTS
    MaxAttempts = 3
    MaxPaths = 2
    MaxItems = 2
    LastSeq = 3
    MoreOnRetry = TRUE
\* One call: it returns or raises.
CHECK_DEADLOCK FALSE
INVARIANT PassedOrFlagged
