SPECIFICATION Spec
CONSTANTS
    MaxAttempts = 3
    MaxRateLimitRetries = 8
    DefaultWait = 15
    MaxWait = 60
    NoHeader = NoHeader
    Backoff <- MCBackoff
    RetryAfter <- MCRetryAfter
INVARIANTS
    TypeOK
    GivesUpOnlyWhenSpent
    WaitBounded
PROPERTY
    CallReturns
\* One call: it returns or raises.
CHECK_DEADLOCK FALSE
