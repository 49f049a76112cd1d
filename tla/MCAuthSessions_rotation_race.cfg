\* Two requests, changing fingerprints: sign-in, refresh, logout and the purge.
SPECIFICATION Spec
CONSTANTS
    w1 = w1
    w2 = w2
    f1 = f1
    f2 = f2
    NoFamily = NoFamily
    Workers <- TwoWorkers
    Families <- TwoFamilies
    MaxPairs = 3
    MaxPasswords = 0
    Endpoints <- RotationRace
    Drift = TRUE
    Faults = FALSE
INVARIANTS
    IndInv
    RotationConsumes
    SessionKeyMatchesToken
PROPERTIES
    NeverRevived
SYMMETRY Symmetry
CHECK_DEADLOCK FALSE
