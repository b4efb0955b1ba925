SPECIFICATION Spec
CONSTANTS
    p1 = p1
    p2 = p2
    p3 = p3
    s1 = s1
    s2 = s2
    s3 = s3
    s4 = s4
    Requests = {p1, p2, p3}
    Scenarios = {s1, s2, s3}
    MaxRejections = 2
    MaxVersion = 2
    Resubmit = FALSE
    OneReviewer = TRUE
SYMMETRY Symmetry
INVARIANTS
    TypeOK
    PrunedStaysOut
    NothingDropped
PROPERTY
    ImplementsReviewCycle
