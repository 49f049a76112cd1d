\* One session for four seconds, two for two seconds; ticks of half a second.
SPECIFICATION Spec
CONSTANTS
    d1 = d1
    d2 = d2
    Devices <- TwoDevices
    Second = 2
    AccessTtl = 1
    RefreshTtl = 1
    RememberTtl = 3
    SessionCap = 2
    RememberCap = 3
    MaxSessions = 2
    MaxNow = 8
INVARIANTS
    BlacklistOutlivesToken
    SessionUsable
PROPERTIES
    CapHolds
CONSTRAINT ShortWithTwoSessions
SYMMETRY DeviceSymmetry
CHECK_DEADLOCK FALSE
