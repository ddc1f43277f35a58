SPECIFICATION Spec
CONSTANTS
    NotUsed = NotUsed
    NoValue = NoValue
    NoSender = NoSender
    Empty = Empty
    x1 = x1
    x2 = x2
    y1 = y1
    y2 = y2
SYMMETRY Symmetry
INVARIANTS
    PublishedWhole
    BuildsAndQueueKept
PROPERTIES
    WholeSteps
CHECK_DEADLOCK FALSE
