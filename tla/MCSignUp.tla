------------------------------ MODULE MCSignUp ------------------------------
(* SignUp for TLC: one account that has not verified its address, one free *)
(* address, one person who signs in with Google.                           *)
EXTENDS SignUp, TLC

CONSTANTS alice, alice_at, pw

MCSeed == alice :> [email |-> alice_at, password_hash |-> hash_password(pw, alice),
                    role |-> "user", is_active |-> TRUE, email_verified |-> FALSE]

RequestSymmetry == Permutations(Requests)

=============================================================================
