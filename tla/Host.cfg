SPECIFICATION Spec
CONSTANTS
    Grants = {"b1", "b2"}
    Issued <- IssueTimes
    Expiry <- Deadlines
    Mirror = TRUE
    Horizon = 2
    Lifetimes = {1, 2}
    MaxMarkers = 1
    MaxTime = 4
    MaxPulls = 2
    MaxFaults = 1
INVARIANTS
    TypeOK
    WithinCapacity
    AtMostOnce
    ProofStands
CHECK_DEADLOCK FALSE
