\* Two refreshes of one token.
SPECIFICATION Spec
CONSTANTS
    w1 = w1
    w2 = w2
    f1 = f1
    f2 = f2
    NoFamily = NoFamily
    Workers <- TwoWorkers
    Families <- OneFamily
    MaxPairs = 3
    MaxPasswords = 0
    Endpoints <- RefreshOnly
    Drift = FALSE
    Faults = FALSE
INVARIANTS
    SingleUse
CHECK_DEADLOCK FALSE
