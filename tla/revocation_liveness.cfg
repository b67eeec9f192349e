SPECIFICATION FairRevocationSpec
CONSTANTS
    Requests = {r1, r2, r3}
    alice = alice
    alice_at = alice_at
    pw = pw
    Accounts = {alice}
    Emails = {alice_at}
    Passwords = {pw}
    Seed <- MCSeed
    NULL = NULL
    RefreshTtl = 1
    ResetTtl = 1
    MaxTime = 1
PROPERTIES RotationRefined StaleSessionsEnd
CHECK_DEADLOCK FALSE
