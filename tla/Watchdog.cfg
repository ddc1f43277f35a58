SPECIFICATION Spec
CONSTANTS
    Runners = {x1, x2}
    Units = {y1, y2}
    FailThreshold = 2
    KicksMax = 2
    AlertsMax = 1
    Outcomes = {{}, {y1}, {y2}, {y1, y2}}
    MaxFails = 3
    MaxFaults = 1
INVARIANTS
    TypeOK
    KickBudget
    AlertBudget
PROPERTY ThresholdHonoured
