\* One request at a time, every endpoint and job, tokens expire, no fault, stable fingerprints.
SPECIFICATION Spec
CONSTANTS
    w1 = w1
    w2 = w2
    f1 = f1
    f2 = f2
    NoFamily = NoFamily
    Workers <- OneWorker
    Families <- TwoFamilies
    MaxPairs = 4
    MaxPasswords = 1
    Endpoints <- AllEndpoints
    Drift = FALSE
    Faults = FALSE
INVARIANTS
    TypeOK
    OneLiveTokenPerSession
    
    
    CurrentNotBlacklisted
    
PROPERTIES
    LogoutEndsSession
    ImplementsSessionRegistry
CONSTRAINT ShortWhenTimePasses
SYMMETRY FamilySymmetry
CHECK_DEADLOCK FALSE
