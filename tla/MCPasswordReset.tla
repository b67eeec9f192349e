-------------------------- MODULE MCPasswordReset --------------------------
(* PasswordReset for TLC: two accounts with a password and one that only   *)
(* signs in with Google.                                                   *)
EXTENDS PasswordReset, TLC

CONSTANTS alice, bob, carol, alice_at, bob_at, carol_at, pw

Account(e, h) ==
    [email |-> e, password_hash |-> h, role |-> "user", is_active |-> TRUE,
     email_verified |-> TRUE]

MCSeed == (alice :> Account(alice_at, hash_password(pw, alice)))
       @@ (bob   :> Account(bob_at, hash_password(pw, bob)))
       @@ (carol :> Account(carol_at, NULL))

RequestSymmetry == Permutations(Requests)

=============================================================================
