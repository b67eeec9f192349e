SPECIFICATION ResetSpec
CONSTANTS
    Requests = {r1, r2, r3, r4}
    alice = alice
    bob = bob
    carol = carol
    alice_at = alice_at
    bob_at = bob_at
    carol_at = carol_at
    pw = pw
    Accounts = {alice, bob, carol}
    Emails = {alice_at, bob_at, carol_at}
    Passwords = {pw}
    Seed <- MCSeed
    NULL = NULL
    RefreshTtl = 1
    ResetTtl = 1
    MaxTime = 1
SYMMETRY RequestSymmetry
INVARIANTS ResetTypeOK ResetTokenSingleUse SpentTokenResets PasswordProvenance OAuthOnlyStaysPasswordless
CHECK_DEADLOCK FALSE
