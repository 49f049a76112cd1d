\* Two requests, faults: sign-in and refresh against the endpoints that revoke.
SPECIFICATION FairSpec
CONSTANTS
    w1 = w1
    w2 = w2
    f1 = f1
    f2 = f2
    NoFamily = NoFamily
    Workers <- TwoWorkers
    Families <- OneFamily
    MaxPairs = 2
    MaxPasswords = 1
    Endpoints <- RevocationRace
    Drift = FALSE
    Faults = TRUE
PROPERTIES
    ImplementsTokenLifecycle
    EveryRequestEnds
CHECK_DEADLOCK FALSE
