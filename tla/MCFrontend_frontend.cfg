\* Requests of every kind, an administrator, and a process that may die once.
SPECIFICATION FairSpec
CONSTANTS
    r1 = r1
    r2 = r2
    a1 = a1
    ip = ip
    email = email
    Requests <- TwoRequests
    Admins = {a1}
    Counters = {ip, email}
    Identifiers <- Routes
    MaxAttempts = 1
    Window = 2
    RetryCount = 1
    Failures <- SomeFailures
    MaxCrashes = 1
INVARIANTS
    TypeOK
    LimitHolds
    AlertOncePerRow
    OnlyServerFaultsCounted
PROPERTIES
    WindowKept
    LockoutEnds
    EveryRequestAnswered
CHECK_DEADLOCK FALSE
