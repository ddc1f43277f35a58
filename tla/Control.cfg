SPECIFICATION Spec
CONSTANTS
    NotUsed = NotUsed
    NoValue = NoValue
    p1 = p1
    p2 = p2
    n1 = n1
    n2 = n2
    h1 = h1
    h2 = h2
INVARIANTS
    ClaimsTrue
PROPERTIES
    ApprovedSteps
CHECK_DEADLOCK FALSE
