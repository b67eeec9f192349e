SPECIFICATION AdministrationSpec
CONSTANTS
    Requests = {r1, r2, r3}
    alice = alice
    bob = bob
    carol = carol
    alice_at = alice_at
    bob_at = bob_at
    carol_at = carol_at
    pw = pw
    Accounts = {alice, bob, carol}
    Emails = {alice_at, bob_at, carol_at}
    Passwords = {pw}
    Seed <- MCSeed
    NULL = NULL
    RefreshTtl = 1
    MaxTime = 0
    PermissionNames = {"users.assign_roles", "users.manage", "files.upload"}
    Wish <- MCWish
SYMMETRY RequestSymmetry
INVARIANTS AdministrationTypeOK RightsTraceBack
PROPERTIES ActsAuthorisedOrLate RevokedUntilGranted LockedOutForGood
CHECK_DEADLOCK FALSE
