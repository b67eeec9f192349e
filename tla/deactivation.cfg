SPECIFICATION DeactivationSpec
CONSTANTS
    Requests = {r1, r2, r3, a1}
    AdminRequests = {a1}
    alice = alice
    alice_at = alice_at
    pw = pw
    Accounts = {alice}
    Emails = {alice_at}
    Passwords = {pw}
    Subjects = {google1}
    Seed <- MCSeed
    NULL = NULL
    PermissionNames = {}
    Wish <- MCWish
    RefreshTtl = 1
    AccessTtl = 1
    Leeway = 0
    MaxTime = 2
SYMMETRY RequestSymmetry
INVARIANTS DeactivationTypeOK DisabledSessionsExplained
PROPERTIES DisabledServedBriefly
CHECK_DEADLOCK FALSE
