SPECIFICATION Spec
CONSTANTS
    Paths = {"unit", "marker"}
    Deferred = {"marker"}
    Bytes = {"b1", "b2"}
    Authorities = {"r1"}
    None = None
    MaxStaged = 2
    MaxAdverse = 2
INVARIANTS
    TypeOK
    NeverWedged
    RevocationStands
PROPERTIES
    OnlyAcceptedStarts
CHECK_DEADLOCK FALSE
