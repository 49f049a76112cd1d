\* Two requests interleaved at every await, with faults.
SPECIFICATION Spec
CONSTANTS
    w1 = w1
    w2 = w2
    p1 = p1
    p2 = p2
    p3 = p3
    NoPassword = NoPassword
    Workers <- TwoWorkers
    Passwords <- TwoPasswords
    MaxAttempts = 1
    LockFor = 1
    HistoryLimit = 1
    MaxTokens = 3
    MaxStores = 2
    MaxFailures = 0
    MaxNow = 0
    Endpoints <- TokenRace
INVARIANTS
    TokenIsSpent
    
SYMMETRY RaceSymmetry
CHECK_DEADLOCK FALSE
