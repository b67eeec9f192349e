SPECIFICATION RevocationSpec
CONSTANTS
    Requests = {r1, r2, r3, r4, r5}
    alice = alice
    alice_at = alice_at
    pw = pw
    Accounts = {alice}
    Emails = {alice_at}
    Passwords = {pw}
    Seed <- MCSeed
    NULL = NULL
    RefreshTtl = 1
    ResetTtl = 1
    MaxTime = 0
SYMMETRY RequestSymmetry
INVARIANTS RevocationTypeOK OneHeir StaleSessionsExplained
CHECK_DEADLOCK FALSE
