--------------------------- MODULE MCDeactivation ---------------------------
(* Deactivation for TLC: an admin, and one request that disables it or an  *)
(* account that Google sign-in makes.                                       *)
EXTENDS Deactivation, TLC

CONSTANTS alice, alice_at, pw

MCSeed == alice :> [email |-> alice_at, password_hash |-> hash_password(pw, alice),
                    role |-> "admin", is_active |-> TRUE, email_verified |-> TRUE]

Switch(u, active) == [op |-> "set_active", target |-> u, active |-> active]

MCWish(r) == {Switch(u, FALSE) : u \in {alice} \cup (Requests \ AdminRequests)}

RequestSymmetry == Permutations(Requests \ AdminRequests) \cup Permutations(AdminRequests)

=============================================================================
