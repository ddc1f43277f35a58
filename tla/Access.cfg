SPECIFICATION Spec
CONSTANTS
    NotUsed = NotUsed
    NoValue = NoValue
    Base = Base
    NewRules = NewRules
    OtherRules = OtherRules
    Unloaded = Unloaded
    g1 = g1
    g2 = g2
    c1 = c1
    c2 = c2
    v1 = v1
    v2 = v2
INVARIANTS
    WayInKept
    TailnetGuarded
PROPERTIES
    OrderlySteps
    KeepsPromise
CHECK_DEADLOCK FALSE
