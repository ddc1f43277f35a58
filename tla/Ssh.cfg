SPECIFICATION Spec
CONSTANTS
    N = 2
    Content = {v1, v2}
    Callers = {c1, c2}
    MaxGen = 2
    MaxEdits = 1
    MaxAdversity = 1
SYMMETRY Symmetry
INVARIANTS
    TypeOK
    DiskMatchesRecord
    DaemonMatchesVerdict
    ListenerAfterReconcile
PROPERTIES
    VerdictFinal
    DriftNotHidden
    AppliesWhatWasChecked
