\* Two requests about one user, or new ones, beside a walk through the list.
SPECIFICATION Spec
CONSTANTS
    r1 = r1
    r2 = r2
    e1 = e1
    e2 = e2
    e3 = e3
    e4 = e4
    NoOne = NoOne
    Requests = {r1, r2}
    MaxUsers = 5
    Seeds <- ThreeSeeds
    Caller = 1
    Targets = {1, 2, 3}
    Emails = {e1, e2, e3, e4}
    Patches <- SomePatches
    Limit = 1
INVARIANTS
    TypeOK
    WalkSeesEveryRow
    AvatarStored
    MailsOpenAccounts
CHECK_DEADLOCK FALSE
