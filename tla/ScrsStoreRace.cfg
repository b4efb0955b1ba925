\* A waiter may be suspended between finding the lock stale and unlinking it.
CONSTANTS
    w1 = w1
    w2 = w2
    w3 = w3
    c1 = c1
    c2 = c2
    c3 = c3
    Writers = {w1, w2, w3}
    Changes = {c1, c2, c3}
    NoLock = NoLock
    NoChange = NoChange
    NoFile = NoFile
    Torn = Torn
    MaxCrashes = 1
    MaxPolls = 1
    MayStall = FALSE
    AtomicBreak = FALSE
SPECIFICATION StoreSpec
SYMMETRY Symmetry
INVARIANT NoLostUpdate
