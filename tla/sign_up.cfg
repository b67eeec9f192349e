SPECIFICATION SignUpSpec
CONSTANTS
    Requests = {r1, r2, r3}
    alice = alice
    alice_at = alice_at
    pw = pw
    Accounts = {alice}
    Emails = {alice_at, free_at}
    Passwords = {pw}
    Subjects = {google1, google2}
    Seed <- MCSeed
    NULL = NULL
    RefreshTtl = 1
    VerifyTtl = 1
    MaxTime = 1
SYMMETRY RequestSymmetry
INVARIANTS SignUpTypeOK VerifiedMeansProved SpentTokenVerifies AccountsReachable
PROPERTIES DirectoryRefined NoTakeover
CHECK_DEADLOCK FALSE
