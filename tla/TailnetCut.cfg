SPECIFICATION Spec
CONSTANTS
    Controllers = {c1}
    Backlog = 2
    MaxGen = 1
    MaxSlips = 1
    MaxKills = 0
    MaxDeaths = 0
    MaxCuts = 1
INVARIANT ExecutedIsClosed
CHECK_DEADLOCK FALSE
