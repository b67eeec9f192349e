SPECIFICATION SessionSpec
CONSTANTS
    Requests = {r1, r2, r3, r4}
    alice = alice
    bob = bob
    carol = carol
    dave = dave
    alice_at = alice_at
    bob_at = bob_at
    carol_at = carol_at
    dave_at = dave_at
    pw = pw
    pw2 = pw2
    Accounts = {alice, bob, carol, dave}
    Emails = {alice_at, bob_at, carol_at, dave_at}
    Passwords = {pw, pw2}
    Seed <- MCSeed
    NULL = NULL
    RefreshTtl = 1
    MaxTime = 2
SYMMETRY RequestSymmetry
INVARIANTS SessionTypeOK RotationReplaces OneHeir
PROPERTY RotationRefined
CHECK_DEADLOCK FALSE
