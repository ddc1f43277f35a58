SPECIFICATION FairSpec
CONSTANTS
    NotUsed = NotUsed
    NoValue = NoValue
    NoSender = NoSender
    Empty = Empty
    Base = Base
    NewRules = NewRules
    OtherRules = OtherRules
    Unloaded = Unloaded
    v1 = v1
    v2 = v2
    c1 = c1
    e1 = e1
    b1 = b1
    x1 = x1
    x2 = x2
    xr = xr
    ng = ng
PROPERTIES
    EventuallyDecided
    Settles
CHECK_DEADLOCK FALSE
