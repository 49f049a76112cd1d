\* A sign-in in flight while the password is changed.
SPECIFICATION Spec
CONSTANTS
    w1 = w1
    w2 = w2
    p1 = p1
    p2 = p2
    p3 = p3
    NoPassword = NoPassword
    Workers <- TwoWorkers
    Passwords <- TwoPasswords
    MaxAttempts = 2
    LockFor = 1
    HistoryLimit = 1
    MaxTokens = 1
    MaxStores = 2
    MaxFailures = 1
    MaxNow = 0
    Endpoints <- SigninAndChange
INVARIANTS
    LastPasswordHolds
CHECK_DEADLOCK FALSE
