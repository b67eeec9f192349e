--------------------------- MODULE PasswordReset ---------------------------
(***************************************************************************)
(* Password recovery: POST /forgot-password and /reset-password of         *)
(* crates/api/src/routes/auth.rs (request_password_reset and               *)
(* perform_password_reset).  The reset token mailed for request r is named *)
(* r, and so is the salt of the hash that reset request r stores.          *)
(***************************************************************************)
EXTENDS Handlers

CONSTANTS ResetTtl   \* lifetime of a reset token: 1 hour

ASSUME ResetTtlAssumption == ResetTtl \in Nat \ {0}

VARIABLES
    password_reset_tokens,  \* auth.password_reset_tokens: token_hash -> row, or NULL
    mail                    \* the mail of a token, or NULL

resetVars == <<password_reset_tokens, mail>>
passwordResetVars == <<users, refresh_tokens, now, req, password_reset_tokens, mail>>

\* used stands for "used_at IS NOT NULL".
ResetRow == [user_id : UserId, expires_at : Nat, used : BOOLEAN]

\* A mail goes to the address in the body of its forgot-password request.  As a
\* draft it is no more than that address, which the handler holds.
ResetMail == [to : Emails, state : {"drafted", "queued", "delivered", "lost"}]

ASSUME ResetRowAssumption == NULL \notin ResetRow /\ NULL \notin ResetMail

\* The account a token resets.
ResetUser(t) == password_reset_tokens[t].user_id

-----------------------------------------------------------------------------
(* POST /auth/forgot-password *)

\* Mutant: the lookup loses its WHERE clause.
ResettableByAnyAddress(u, e) ==
    /\ users[u] # NULL
    /\ users[u].password_hash # NULL

\* Mutant: has_password is not looked at.
ResettableThoughPasswordless(u, e) == found_by_email(e, u)

\* find_by_email_for_reset(e) returns u and u has a password.
Resettable(u, e) ==
    /\ found_by_email(e, u)
    /\ users[u].password_hash # NULL

\* Whatever happens the answer is 204: for an unknown address, an account
\* without a password, a lookup that fails.
forgot_password(r) ==
    /\ \/ Reject(r, "forgot_password", 204) /\ UNCHANGED mail
       \/ \E u \in UserId, e \in Emails :
            /\ Resettable(u, e)
            /\ mail' = [mail EXCEPT ![r] = [to |-> e, state |-> "drafted"]]
            /\ Enter(r, "forgot_password", "store_password_reset_token", u, NULL, NULL)
    /\ UNCHANGED <<dbVars, password_reset_tokens>>

\* INSERT INTO password_reset_tokens: the hash is new, so ON CONFLICT DO
\* NOTHING has nothing to do.
store_password_reset_token(h, u, exp) ==
    password_reset_tokens' = [password_reset_tokens EXCEPT
        ![h] = [user_id |-> u, expires_at |-> exp, used |-> FALSE]]

\* The task that mails the token is spawned and takes the address along.
spawn_reset_email(r) ==
    \E e \in Emails :
        /\ mail[r] = [to |-> e, state |-> "drafted"]
        /\ mail' = [mail EXCEPT ![r] = [to |-> e, state |-> "queued"]]

\* The row is inserted and the mail spawned; an INSERT whose answer is lost
\* spawns none, one that fails leaves nothing.  The answer is 204 all the same.
store_reset_token(r) ==
    /\ At(r, "forgot_password", "store_password_reset_token")
    /\ \/ /\ store_password_reset_token(r, req[r].user, now + ResetTtl)
          /\ spawn_reset_email(r) \/ UNCHANGED mail
       \/ UNCHANGED resetVars
    /\ Finish(r, 204)
    /\ UNCHANGED dbVars

\* The spawned task hands the mail to the SMTP relay.  An error is logged, and
\* nothing waits for the task when the process exits: the mail is lost.
send_password_reset_email(r) ==
    /\ mail[r] # NULL /\ mail[r].state = "queued"
    /\ \E s \in {"delivered", "lost"} : mail' = [mail EXCEPT ![r].state = s]
    /\ UNCHANGED <<dbVars, req, password_reset_tokens>>

-----------------------------------------------------------------------------
(* POST /auth/reset-password *)

\* Mutant: used_at is not looked at.
ConsumableThoughUsed(t) ==
    /\ password_reset_tokens[t] # NULL
    /\ password_reset_tokens[t].expires_at > now

\* The WHERE clause of consume_password_reset_token.
Consumable(t) ==
    /\ password_reset_tokens[t] # NULL
    /\ ~ password_reset_tokens[t].used
    /\ password_reset_tokens[t].expires_at > now

\* Clients know the tokens of the mails that arrived.
Mailed == {t \in TokenId : mail[t] # NULL /\ mail[t].state = "delivered"}

\* A password that is too short never reaches the database.
reset_password_rejects(r) ==
    /\ \/ Reject(r, "reset_password", into_response.ValidationFields)
       \/ Reject(r, "reset_password", into_response.BadRequest)
    /\ UNCHANGED <<dbVars, resetVars>>

\* Mutant: the new password is validated after the token is used up.
reset_password_validates_late(r) ==
    /\ \E t \in Mailed, p \in Passwords :
         /\ Consumable(t)
         /\ password_reset_tokens' = [password_reset_tokens EXCEPT ![t].used = TRUE]
         /\ \/ Enter(r, "reset_password", "update_password_hash", ResetUser(t), t,
                     hash_password(p, r))
            \/ /\ req[r].pc = "idle"
               /\ req' = [req EXCEPT ![r] =
                     Answered("reset_password", t, into_response.ValidationFields)]
    /\ UNCHANGED <<dbVars, mail>>

\* consume_reset_token: one UPDATE ... RETURNING checks the token and uses it up.
reset_password(r) ==
    /\ \E t \in Mailed, p \in Passwords :
         /\ Consumable(t)
         /\ password_reset_tokens' = [password_reset_tokens EXCEPT ![t].used = TRUE]
         /\ Enter(r, "reset_password", "update_password_hash", ResetUser(t), t,
                  hash_password(p, r))
    /\ UNCHANGED <<dbVars, mail>>

\* Mutant: the token's hash is stored instead of the password's.
update_password_with_token(r) ==
    /\ At(r, "reset_password", "update_password_hash")
    /\ update_password_hash(req[r].user, req[r].token)
    /\ Proceed(r, "revoke_all_refresh_tokens")
    /\ UNCHANGED <<refresh_tokens, now, resetVars>>

\* Mutant: the handler returns before revoke_sessions.
update_password_and_finish(r) ==
    /\ At(r, "reset_password", "update_password_hash")
    /\ update_password_hash(req[r].user, req[r].phc)
    /\ Finish(r, 204)
    /\ UNCHANGED <<refresh_tokens, now, resetVars>>

update_password(r) ==
    /\ At(r, "reset_password", "update_password_hash")
    /\ update_password_hash(req[r].user, req[r].phc)
    /\ Proceed(r, "revoke_all_refresh_tokens")
    /\ UNCHANGED <<refresh_tokens, now, resetVars>>

revoke_sessions(r) ==
    /\ At(r, "reset_password", "revoke_all_refresh_tokens")
    /\ revoke_all_refresh_tokens(req[r].user)
    /\ Finish(r, 204)
    /\ UNCHANGED <<users, now, resetVars>>

-----------------------------------------------------------------------------

ResetTablesInit ==
    /\ password_reset_tokens = [t \in TokenId |-> NULL]
    /\ mail = [t \in TokenId |-> NULL]

ResetInit == DbInit /\ ReqInit /\ ResetTablesInit

ResetContinue(r) == store_reset_token(r) \/ update_password(r) \/ revoke_sessions(r)

ResetStep(r) ==
    \/ forgot_password(r) \/ send_password_reset_email(r)
    \/ reset_password_rejects(r) \/ reset_password(r)
    \/ ResetContinue(r)
    \/ Abort(r) /\ UNCHANGED resetVars

ResetNext ==
    \/ \E r \in Requests : ResetStep(r)
    \/ Tick /\ UNCHANGED resetVars

ResetSpec == ResetInit /\ [][ResetNext]_passwordResetVars

-----------------------------------------------------------------------------
(* Properties *)

\* The rows, the activation records and the mail tasks have their types.
ResetTypeOK ==
    /\ DbTypeOK /\ ReqTypeOK
    /\ password_reset_tokens \in [TokenId -> ResetRow \cup {NULL}]
    /\ mail \in [TokenId -> ResetMail \cup {NULL}]

\* Reset request q had its token accepted.
Redeemed(q) == req[q].op = "reset_password" /\ req[q].token # NULL

\* "Consume a reset token": however many requests present a token at once,
\* one at most gets to set a password with it.
ResetTokenSingleUse ==
    \A p, q \in Requests :
        Redeemed(p) /\ Redeemed(q) /\ req[p].token = req[q].token => p = q

\* The password of u is one that a reset for u has stored.
SetByReset(u) ==
    \E p \in Requests :
        Redeemed(p) /\ req[p].user = u /\ users[u].password_hash = req[p].phc

\* A token is used up for a password: consume and update are two statements, and
\* unless the reset that redeemed the token failed in between (it answered 500,
\* or its future was dropped) or is still about to store its hash, the account
\* has a password that a reset stored, this one or a later one.
SpentTokenResets ==
    \A t \in TokenId : password_reset_tokens[t] # NULL /\ password_reset_tokens[t].used =>
        \E q \in Requests :
            /\ Redeemed(q) /\ req[q].token = t
            /\ \/ req[q].pc = "update_password_hash"
               \/ req[q].status = db_error
               \/ SetByReset(ResetUser(t))

\* A password changes only by mail.  A hash that is not the account's first
\* was stored by a reset whose token was issued to that very account and
\* arrived in a mail to its address, and that token is used up.
PasswordProvenance ==
    \A u \in UserId : users[u] # NULL /\ u \in Accounts =>
        LET h == users[u].password_hash IN
        h # Seed[u].password_hash =>
          /\ h.salt \in Requests
          /\ Redeemed(h.salt) /\ req[h.salt].phc = h
          /\ LET t == req[h.salt].token IN
               /\ mail[t] = [to |-> users[u].email, state |-> "delivered"]
               /\ ResetUser(t) = u /\ password_reset_tokens[t].used
               /\ req[t].op = "forgot_password" /\ req[t].user = u

\* request_password_reset does nothing for an OAuth-only account, so recovery
\* never gives such an account a password to log in with.
OAuthOnlyStaysPasswordless ==
    \A u \in Accounts : Seed[u].password_hash = NULL => users[u].password_hash = NULL

=============================================================================
