SPECIFICATION RevocationSpec
CONSTANTS
    Requests = {r1, r2, r3, r4}
    alice = alice
    alice_at = alice_at
    pw = pw
    Accounts = {alice}
    Emails = {alice_at}
    Passwords = {pw}
    Seed <- MCSeed
    NULL = NULL
    RefreshTtl = 1
    ResetTtl = 1
    MaxTime = 0
SYMMETRY RequestSymmetry
INVARIANT ResetRevokesAllSessions
CHECK_DEADLOCK FALSE
