\* Administrators and synchronisations interleaved at every await.
SPECIFICATION Spec
CONSTANTS
    w1 = w1
    w2 = w2
    NoKey = NoKey
    Workers <- TwoWorkers
    Names <- RoleNames
    Lower <- NameLower
    Like <- NameLike
    Keys <- MCKeys
    Controllers <- MCRoutes
    Protected <- SeededKeys
    Reserved <- ReservedKeys
    MaxRoles = 3
    MaxPerms = 4
    MaxChanges = 3
INVARIANTS
    TypeOK
    SyncGrantsDeclared
    SyncOpensRoutes
PROPERTIES
    ProtectedKept
SYMMETRY Symmetry
CHECK_DEADLOCK FALSE
