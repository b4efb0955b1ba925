\* Two managers, any stall and any race for the lock: every save still ends.
CONSTANTS
    w1 = w1
    w2 = w2
    w3 = w3
    c1 = c1
    c2 = c2
    c3 = c3
    Writers = {w1, w2}
    Changes = {c1, c2}
    NoLock = NoLock
    NoChange = NoChange
    NoFile = NoFile
    Torn = Torn
    MaxCrashes = 1
    MaxPolls = 1
    MayStall = TRUE
    AtomicBreak = FALSE
SPECIFICATION FairSpec
PROPERTIES SaveReturns OrphanedLockCleared
\* An unreadable file (a race can leave one) stops every manager for good.
CHECK_DEADLOCK FALSE
