SPECIFICATION Spec
CONSTANTS
    m1 = m1
    m2 = m2
    t1 = t1
    t2 = t2
    f1 = f1
    f2 = f2
    x1 = x1
    l1 = l1
    l2 = l2
    n1 = n1
    c1 = c1
    c2 = c2
    Managers = {m1, m2}
    Tids = {t1, t2}
    Facts = {f1, f2}
    Texts = {x1}
    Levels = {l1, l2}
    Reduced = {l1}
    Notes = {n1}
    Classes = {c1, c2}
    MaxVersion = 5
    MaxRejections = 1
    MaxBatch <- MCMaxBatch
    RepeatTids = FALSE
SYMMETRY Symmetry
INVARIANTS
    TypeOK
    IntegrityOk
PROPERTIES
    NothingForgotten
    DecisionsAreCurrent
    GapsHaveACause
    OverwritesAreKept
