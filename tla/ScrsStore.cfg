\* Three managers, two crashes, three saves; no live holder outlives the 60 s limit.
CONSTANTS
    w1 = w1
    w2 = w2
    w3 = w3
    c1 = c1
    c2 = c2
    c3 = c3
    Writers = {w1, w2, w3}
    Changes = {c1, c2, c3}
    NoLock = NoLock
    NoChange = NoChange
    NoFile = NoFile
    Torn = Torn
    MaxCrashes = 2
    MaxPolls = 1
    MayStall = FALSE
    AtomicBreak = TRUE
SPECIFICATION StoreSpec
SYMMETRY Symmetry
INVARIANTS StoreTypeOK SavedIsKept BackupIsLastGood
PROPERTY ImplementsDecisionLog
