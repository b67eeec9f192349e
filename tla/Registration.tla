---------------------------- MODULE Registration ----------------------------
(***************************************************************************)
(* Accounts with a password and the proof of their address: POST /register,*)
(* /resend-verification and GET /verify-email of                           *)
(* crates/api/src/routes/auth.rs, and the create-admin command.  The       *)
(* account, refresh token, hash salt and verification token that request r *)
(* creates are all named r.                                                *)
(***************************************************************************)
EXTENDS Handlers

CONSTANTS VerifyTtl   \* lifetime of a verification token: 24 hours

ASSUME VerifyTtlAssumption == VerifyTtl \in Nat \ {0}

VARIABLES
    email_verification_tokens, \* auth.email_verification_tokens: token_hash -> row, or NULL
    verification_mail          \* the mail task spawned for a token, or NULL

verificationVars == <<email_verification_tokens, verification_mail>>

\* used stands for "used_at IS NOT NULL".
VerificationRow == [user_id : UserId, expires_at : Nat, used : BOOLEAN]

VerificationMail == [to : Emails, state : {"queued", "delivered", "lost"}]

ASSUME VerificationAssumption == NULL \notin VerificationRow /\ NULL \notin VerificationMail

-----------------------------------------------------------------------------
(* POST /auth/register *)

\* A malformed address or short password is refused.  Nothing looks for the
\* address first: the INSERT fails when it is taken, which is a database error.
register_rejects(r) ==
    /\ \/ Reject(r, "register", into_response.ValidationFields)
       \/ \E e \in Emails : EmailTaken(e) /\ Reject(r, "register", db_error)
    /\ UNCHANGED <<dbVars, verificationVars>>

register(r) ==
    /\ \E e \in Emails, p \in Passwords :
         /\ create_user(r, e, hash_password(p, r), "user", FALSE)
         /\ Enter(r, "register", "store_refresh_token", r, NULL, NULL)
    /\ UNCHANGED <<refresh_tokens, now, verificationVars>>

register_store_token(r) ==
    /\ At(r, "register", "store_refresh_token")
    /\ store_refresh_token(r, req[r].user, now + RefreshTtl)
    /\ Proceed(r, "find_by_email")
    /\ UNCHANGED <<users, now, verificationVars>>

\* The address in the body of register, and the one resend_verification read:
\* no code changes an address, so the rows still hold them.
Address(r) == users[IF req[r].op = "register" THEN r ELSE req[r].user].email

\* Mutant: the lookup loses its WHERE clause.
register_find_any_user(r) ==
    /\ At(r, "register", "find_by_email")
    /\ \/ \E u \in UserId :
            /\ found_by_id(u)
            /\ req' = [req EXCEPT ![r].pc = "store_email_verification_token", ![r].user = u]
       \/ Finish(r, 201)
    /\ UNCHANGED <<dbVars, verificationVars>>

\* The handler looks for the account it has just made; an error is swallowed.
register_find_user(r) ==
    /\ At(r, "register", "find_by_email")
    /\ \/ \E u \in UserId :
            /\ found_by_email(Address(r), u)
            /\ req' = [req EXCEPT ![r].pc = "store_email_verification_token", ![r].user = u]
       \/ Finish(r, 201)
    /\ UNCHANGED <<dbVars, verificationVars>>

-----------------------------------------------------------------------------
(* POST /auth/resend-verification *)

\* The bearer of an access token of u: every account can get one, since it can
\* log in.  No code deletes a user, so the lookup finds the row.
resend_verification(r) ==
    /\ \/ Reject(r, "resend_verification", into_response.Unauthorized)
       \/ \E u \in UserId :
            /\ found_by_id(u)
            /\ users[u].email_verified \/ users[u].email = NULL
            /\ Reject(r, "resend_verification", 204)
       \/ \E u \in UserId :
            /\ found_by_id(u)
            /\ ~ users[u].email_verified /\ users[u].email # NULL
            /\ Enter(r, "resend_verification", "store_email_verification_token", u, NULL, NULL)
    /\ UNCHANGED <<dbVars, verificationVars>>

-----------------------------------------------------------------------------
(* The end of both: spawn_verification_email, whose result is ignored.  An *)
(* INSERT whose answer is lost spawns no mail; one that fails leaves       *)
(* nothing.                                                                *)

\* INSERT INTO email_verification_tokens: the hash is new, so ON CONFLICT DO
\* NOTHING has nothing to do.
store_email_verification_token(h, u, exp) ==
    email_verification_tokens' = [email_verification_tokens EXCEPT
        ![h] = [user_id |-> u, expires_at |-> exp, used |-> FALSE]]

spawn_verification_email(r) ==
    /\ req[r].pc = "store_email_verification_token"
    /\ \/ /\ store_email_verification_token(r, req[r].user, now + VerifyTtl)
          /\ \E m \in {NULL, [to |-> Address(r), state |-> "queued"]} :
               verification_mail' = [verification_mail EXCEPT ![r] = m]
       \/ UNCHANGED verificationVars
    /\ Finish(r, IF req[r].op = "register" THEN 201 ELSE 204)
    /\ UNCHANGED dbVars

\* The spawned task: an error is logged, and the exit of the process loses it.
send_verification_email(t) ==
    /\ verification_mail[t] # NULL /\ verification_mail[t].state = "queued"
    /\ \E s \in {"delivered", "lost"} :
         verification_mail' = [verification_mail EXCEPT ![t].state = s]
    /\ UNCHANGED <<dbVars, req, email_verification_tokens>>

-----------------------------------------------------------------------------
(* GET /auth/verify-email *)

\* Mutant: used_at is not looked at.
VerifiableThoughUsed(t) ==
    /\ email_verification_tokens[t] # NULL
    /\ email_verification_tokens[t].expires_at > now

\* The WHERE clause of consume_email_verification_token.
Verifiable(t) ==
    /\ email_verification_tokens[t] # NULL
    /\ ~ email_verification_tokens[t].used
    /\ email_verification_tokens[t].expires_at > now

Arrived(t) == verification_mail[t] # NULL /\ verification_mail[t].state = "delivered"

\* Clients know the tokens of the mails that arrived.  An unknown, used or
\* expired token is refused; otherwise one UPDATE ... RETURNING uses it up.
verify_email(r) ==
    /\ \/ Reject(r, "verify_email", into_response.BadRequest) /\ UNCHANGED email_verification_tokens
       \/ \E t \in TokenId :
            /\ Arrived(t) /\ Verifiable(t)
            /\ email_verification_tokens' = [email_verification_tokens EXCEPT ![t].used = TRUE]
            /\ Enter(r, "verify_email", "mark_email_verified",
                     email_verification_tokens[t].user_id, t, NULL)
    /\ UNCHANGED <<dbVars, verification_mail>>

verify_email_mark(r) ==
    /\ At(r, "verify_email", "mark_email_verified")
    /\ mark_email_verified(req[r].user)
    /\ Finish(r, 200)
    /\ UNCHANGED <<refresh_tokens, now, verificationVars>>

-----------------------------------------------------------------------------
(* generic-auth-api create-admin: a process of its own, one INSERT.  Its   *)
(* exit code stands as a status: 200 for success, an error for failure.  *)

create_admin(r) ==
    /\ \/ \E e \in Emails : EmailTaken(e) /\ Reject(r, "create_admin", db_error) /\ UNCHANGED users
       \/ Reject(r, "create_admin", into_response.ValidationFields) /\ UNCHANGED users
       \/ \E e \in Emails, p \in Passwords, s \in {200, 0} :
            /\ req[r].pc = "idle"
            /\ create_user(r, e, hash_password(p, r), "admin", TRUE)
            /\ req' = [req EXCEPT ![r] = Answered("create_admin", NULL, s)]
    /\ UNCHANGED <<refresh_tokens, now, verificationVars>>

-----------------------------------------------------------------------------

VerificationTablesInit ==
    /\ email_verification_tokens = [t \in TokenId |-> NULL]
    /\ verification_mail = [t \in TokenId |-> NULL]

RegistrationContinue(r) ==
    \/ register_store_token(r) \/ register_find_user(r)
    \/ spawn_verification_email(r) \/ verify_email_mark(r)

RegistrationStep(r) ==
    \/ register_rejects(r) \/ register(r)
    \/ resend_verification(r) \/ verify_email(r) \/ create_admin(r)
    \/ send_verification_email(r)
    \/ RegistrationContinue(r)

-----------------------------------------------------------------------------
(* Properties *)

\* The verification tokens and the mail tasks have their types.
VerificationTypeOK ==
    /\ email_verification_tokens \in [TokenId -> VerificationRow \cup {NULL}]
    /\ verification_mail \in [TokenId -> VerificationMail \cup {NULL}]

\* Verification request q had its token accepted.
Verifies(q) == req[q].op = "verify_email" /\ req[q].token # NULL

\* email_verified means that the owner of the address was heard of: an account
\* that was not made verified (by create-admin, or by Google with an address)
\* has used a token that was made for it and arrived at its own address.
VerifiedMeansProved ==
    \A u \in UserId : users[u] # NULL /\ users[u].email_verified =>
        \/ u \in Accounts /\ Seed[u].email_verified
        \/ u \in Requests /\ req[u].op \in {"create_admin", "google_callback"}
        \/ \E t \in TokenId :
             /\ Arrived(t) /\ verification_mail[t].to = users[u].email
             /\ email_verification_tokens[t].user_id = u
             /\ email_verification_tokens[t].used

\* verify_email uses the token up in one statement and marks the account in
\* another.  A token is used by one request only, and afterwards the account is
\* verified unless that request is still at it or failed in between: then only
\* a new mail helps.
SpentTokenVerifies ==
    \A t \in TokenId :
        email_verification_tokens[t] # NULL /\ email_verification_tokens[t].used =>
        \E q \in Requests :
          /\ \A p \in Requests : Verifies(p) /\ req[p].token = t => p = q
          /\ Verifies(q) /\ req[q].token = t
          /\ \/ users[email_verification_tokens[t].user_id].email_verified
             \/ InFlight(q) \/ req[q].status = db_error

\* "Email already taken": the description of register answers 409 for it.
TakenEmailIsConflict ==
    \A r \in Requests : req[r].op = "register" /\ req[r].pc = "done" /\ req[r].user = NULL =>
        req[r].status \in {into_response.Conflict, into_response.ValidationFields}

=============================================================================
