-------------------------- MODULE MCAdministration --------------------------
(* Administration for TLC: an admin, an admin whose address is not         *)
(* verified and a moderator.                                               *)
EXTENDS Administration, TLC

CONSTANTS alice, bob, carol, alice_at, bob_at, carol_at, pw

Account(u, e, role, verified) ==
    [email |-> e, password_hash |-> hash_password(pw, u), role |-> role, is_active |-> TRUE,
     email_verified |-> verified]

MCSeed == (alice :> Account(alice, alice_at, "admin", TRUE))
       @@ (bob   :> Account(bob, bob_at, "moderator", TRUE))
       @@ (carol :> Account(carol, carol_at, "admin", FALSE))

SetRole(u, role) == [op |-> "set_role", target |-> u, role |-> role]
SetActive(u, active) == [op |-> "set_active", target |-> u, active |-> active]
Grant(u, p, override) ==
    [op |-> "grant_permission", target |-> u, permission |-> p, granted |-> override]

\* Promotions and demotions of the admin and the moderator, by role and by
\* override; a permission the migration does not have; an id without an account.
MCWish(r) ==
    {[op |-> "list_users"], SetActive(alice, FALSE),
     SetRole(bob, "admin"), SetRole(alice, "user"), SetRole(alice, "admin"),
     Grant(bob, "users.assign_roles", "granted"), Grant(alice, "users.assign_roles", "revoked"),
     Grant(alice, "users.assign_roles", "granted"), Grant(bob, "files.upload", "granted"),
     SetRole(r, "user"), Grant(r, "users.manage", "revoked")}

RequestSymmetry == Permutations(Requests)

=============================================================================
