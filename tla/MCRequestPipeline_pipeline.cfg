\* Requests on both ways of logging; the process may die once.
SPECIFICATION FairSpec
CONSTANTS
    r1 = r1
    r2 = r2
    x = x
    y = y
    NoLog = NoLog
    Requests <- TwoRequests
    Ids <- TwoIds
    MaxEntries = 2
    Prefetch = 1
    MaxCrashes = 1
INVARIANTS
    TypeOK
    SystemLogsInOrder
PROPERTIES
    QueueDrains
CHECK_DEADLOCK FALSE
