------------------------------- MODULE AuthDb -------------------------------
(***************************************************************************)
(* The two PostgreSQL tables every handler of the service shares, users    *)
(* and refresh_tokens, and the SQL statements of crates/db/src/users.rs on *)
(* them.  No handler opens a transaction: each statement commits on its    *)
(* own, so one statement is one atomic step and anything may happen        *)
(* between two statements of the same request.                             *)
(*                                                                         *)
(* Random values.  A user id (gen_random_uuid), a refresh, verification or *)
(* reset token (256 random bits) and the salt of a password hash never     *)
(* collide.  A request draws at most one of each, so the value is named    *)
(* after the request that drew it; a token and its SHA-256 hash, which is  *)
(* what the tables store, have the same name.                              *)
(***************************************************************************)
EXTENDS Naturals

CONSTANTS
    Requests,   \* the HTTP requests the service will ever receive
    Accounts,   \* ids of the accounts that exist before the first request
    Emails,     \* e-mail addresses, up to CITEXT equality
    Passwords,  \* passwords a client may type
    Seed,       \* the rows of users before the first request
    NULL        \* SQL NULL, an absent row, Option::None

UserId == Accounts \cup Requests
TokenId == Requests

Role == {"admin", "moderator", "user"}

\* An encoded Argon2 hash: which password it was made from and its salt.
Phc == [plain : Passwords, salt : UserId]

UserRow == [email : Emails \cup {NULL}, password_hash : Phc \cup {NULL},
            role : Role, is_active : BOOLEAN, email_verified : BOOLEAN]

\* revoked stands for "revoked_at IS NOT NULL": the code reads only that.
RefreshRow == [user_id : UserId, expires_at : Nat, revoked : BOOLEAN]

\* NULL is none of the values it may stand in for.
ASSUME NullAssumption ==
    /\ NULL \notin UserId /\ NULL \notin Emails
    /\ NULL \notin Phc /\ NULL \notin UserRow /\ NULL \notin RefreshRow

\* The tables start with some accounts (the create-admin command and earlier
\* registrations made them); users.email is UNIQUE.
ASSUME SeedAssumption ==
    /\ Seed \in [Accounts -> UserRow]
    /\ \A a, b \in Accounts : Seed[a].email = Seed[b].email => a = b \/ Seed[a].email = NULL

\* The names of random values are not the ids of the initial accounts.
ASSUME FreshAssumption == Accounts \cap Requests = {}

VARIABLES
    users,          \* auth.users: id -> row, NULL where there is no row
    refresh_tokens, \* auth.refresh_tokens: token_hash -> row, or NULL
    now             \* the clock the service and the database read

dbVars == <<users, refresh_tokens, now>>

DbTypeOK ==
    /\ users \in [UserId -> UserRow \cup {NULL}]
    /\ refresh_tokens \in [TokenId -> RefreshRow \cup {NULL}]
    /\ now \in Nat

DbInit ==
    /\ users = [u \in UserId |-> IF u \in Accounts THEN Seed[u] ELSE NULL]
    /\ refresh_tokens = [t \in TokenId |-> NULL]
    /\ now = 0

-----------------------------------------------------------------------------
(* Passwords (crates/auth/src/password.rs) *)

hash_password(plain, salt) == [plain |-> plain, salt |-> salt]

verify_password(plain, phc) == phc.plain = plain

-----------------------------------------------------------------------------
(* Users *)

\* SELECT ... FROM users WHERE email = e returns the row of u; NULL equals
\* nothing.
found_by_email(e, u) == users[u] # NULL /\ users[u].email = e /\ e # NULL

\* SELECT ... FROM users WHERE id = u returns a row.
found_by_id(u) == users[u] # NULL

\* users.email is UNIQUE; any number of rows may have none.
EmailTaken(e) == \E u \in UserId : found_by_email(e, u)

\* Mutant: ON CONFLICT (email) DO UPDATE SET password_hash.
create_or_update_user(u, e, phc, role, verified) ==
    users' = [v \in UserId |->
        IF found_by_email(e, v) THEN [users[v] EXCEPT !.password_hash = phc]
        ELSE IF v = u /\ ~ EmailTaken(e)
             THEN [email |-> e, password_hash |-> phc, role |-> role, is_active |-> TRUE,
                   email_verified |-> verified]
             ELSE users[v]]

\* INSERT INTO users of a row with id u, which gen_random_uuid() drew.  The
\* unique index refuses an address that is taken.  The statement before it,
\* which reads the role's id, is part of this step: no code changes roles.
create_user(u, e, phc, role, verified) ==
    /\ ~ EmailTaken(e)
    /\ users' = [users EXCEPT ![u] =
           [email |-> e, password_hash |-> phc, role |-> role, is_active |-> TRUE,
            email_verified |-> verified]]

\* UPDATE users SET email_verified = true WHERE id = u.
mark_email_verified(u) ==
    users' = [v \in UserId |-> IF v = u /\ users[v] # NULL
                               THEN [users[v] EXCEPT !.email_verified = TRUE]
                               ELSE users[v]]

\* UPDATE users SET role_id = ... WHERE id = u, after the role's id was read as
\* in create_user.
set_role(u, role) ==
    users' = [v \in UserId |-> IF v = u /\ users[v] # NULL
                               THEN [users[v] EXCEPT !.role = role] ELSE users[v]]

\* UPDATE users SET is_active = active WHERE id = u.
set_active(u, active) ==
    users' = [v \in UserId |-> IF v = u /\ users[v] # NULL
                               THEN [users[v] EXCEPT !.is_active = active] ELSE users[v]]

\* UPDATE users SET password_hash = phc WHERE id = u: no row, no effect.
update_password_hash(u, phc) ==
    users' = [v \in UserId |-> IF v = u /\ users[v] # NULL
                               THEN [users[v] EXCEPT !.password_hash = phc]
                               ELSE users[v]]

-----------------------------------------------------------------------------
(* Refresh tokens *)

\* INSERT INTO refresh_tokens: the hash is new, so UNIQUE cannot refuse it.
store_refresh_token(h, u, exp) ==
    refresh_tokens' = [refresh_tokens EXCEPT
        ![h] = [user_id |-> u, expires_at |-> exp, revoked |-> FALSE]]

\* UPDATE refresh_tokens SET revoked_at = now() on the rows of hashes in S.
Revoke(S) ==
    refresh_tokens' = [t \in TokenId |->
        IF t \in S /\ refresh_tokens[t] # NULL
        THEN [refresh_tokens[t] EXCEPT !.revoked = TRUE]
        ELSE refresh_tokens[t]]

TokensOf(u) == {t \in TokenId : refresh_tokens[t] # NULL /\ refresh_tokens[t].user_id = u}

\* Mutant: the statement reports success and updates nothing.
revoke_nothing(h) == UNCHANGED refresh_tokens

\* ... WHERE token_hash = h, whether or not the row was revoked already.
revoke_refresh_token(h) == Revoke({h})

\* Mutant: IS NULL becomes IS NOT NULL.
revoke_revoked_refresh_tokens(u) == Revoke({t \in TokensOf(u) : refresh_tokens[t].revoked})

\* ... WHERE user_id = u AND revoked_at IS NULL.
revoke_all_refresh_tokens(u) == Revoke(TokensOf(u))

=============================================================================
