SPECIFICATION SignUpSpec
CONSTANTS
    Requests = {r1, r2, r3}
    alice = alice
    alice_at = alice_at
    pw = pw
    Accounts = {alice}
    Emails = {alice_at, free_at}
    Passwords = {pw}
    Subjects = {google1}
    Seed <- MCSeed
    NULL = NULL
    RefreshTtl = 1
    VerifyTtl = 1
    MaxTime = 0
SYMMETRY RequestSymmetry
INVARIANT TakenEmailIsConflict
CHECK_DEADLOCK FALSE
