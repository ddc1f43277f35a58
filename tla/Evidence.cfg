SPECIFICATION Spec
CONSTANTS
    NotUsed = NotUsed
    g1 = g1
    g2 = g2
    w1 = w1
    w2 = w2
    a1 = a1
    a2 = a2
SYMMETRY Symmetry
INVARIANTS
    EvidenceTrue
    AlertsTrue
PROPERTIES
    NothingRepeated
    KeepsDestroyPromise
CHECK_DEADLOCK FALSE
