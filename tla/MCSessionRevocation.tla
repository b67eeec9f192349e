------------------------ MODULE MCSessionRevocation ------------------------
(* SessionRevocation for TLC: one account that logs in and recovers its    *)
(* password.                                                               *)
EXTENDS SessionRevocation, TLC

CONSTANTS alice, alice_at, pw

MCSeed == alice :> [email |-> alice_at, password_hash |-> hash_password(pw, alice),
                    role |-> "user", is_active |-> TRUE, email_verified |-> TRUE]

RequestSymmetry == Permutations(Requests)

=============================================================================
