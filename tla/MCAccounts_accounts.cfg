SPECIFICATION Spec
CONSTANTS
    w1 = w1
    w2 = w2
    p1 = p1
    p2 = p2
    p3 = p3
    NoPassword = NoPassword
    Workers <- OneWorker
    Passwords <- ThreePasswords
    MaxAttempts = 2
    LockFor = 1
    HistoryLimit = 2
    MaxTokens = 2
    MaxStores = 3
    MaxFailures = 3
    MaxNow = 1
    Endpoints <- AllEndpoints
INVARIANTS
    TypeOK
    GuessingLocks
    
SYMMETRY PasswordSymmetry
CHECK_DEADLOCK FALSE
