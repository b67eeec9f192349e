----------------------------- MODULE MCSessions -----------------------------
(* Sessions for TLC: two active accounts, a disabled one and one that only *)
(* signs in with Google.                                                   *)
EXTENDS Sessions, TLC

CONSTANTS alice, bob, carol, dave, alice_at, bob_at, carol_at, dave_at, pw, pw2

Account(e, h, active) ==
    [email |-> e, password_hash |-> h, role |-> "user", is_active |-> active,
     email_verified |-> TRUE]

MCSeed == (alice :> Account(alice_at, hash_password(pw, alice), TRUE))
       @@ (bob   :> Account(bob_at, hash_password(pw2, bob), TRUE))
       @@ (carol :> Account(carol_at, hash_password(pw, carol), FALSE))
       @@ (dave  :> Account(dave_at, NULL, TRUE))

RequestSymmetry == Permutations(Requests)

=============================================================================
