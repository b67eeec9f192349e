------------------------------ MODULE Sessions ------------------------------
(***************************************************************************)
(* Sessions: POST /login, /refresh and /logout of                          *)
(* crates/api/src/routes/auth.rs.  A session is a chain of refresh tokens: *)
(* login mints the first, refresh spends one and mints the next.           *)
(* The refresh token minted by request r is named r.                       *)
(***************************************************************************)
EXTENDS Handlers

VARIABLES
    spender, \* history: token -> the request that revoked it first, or NULL
    raced    \* history: refresh requests that had accepted a token, and not
             \* yet revoked it, when another request revoked it

sessionHistory == <<spender, raced>>
sessionVars == <<users, refresh_tokens, now, req, spender, raced>>

\* Refresh tokens a client holds: those whose answer reached it.
Delivered == {t \in TokenId : refresh_tokens[t] # NULL /\ req[t].status \in {200, 201}}

\* Refresh request q has found t valid and is about to revoke it.
Accepted(q, t) == At(q, "refresh", "revoke_refresh_token") /\ req[q].token = t

Live(t) == refresh_tokens[t] # NULL /\ ~refresh_tokens[t].revoked

\* Request r revokes the tokens in S: the history of that.
Note(r, S) ==
    /\ spender' = [t \in TokenId |-> IF t \in S /\ Live(t) THEN r ELSE spender[t]]
    /\ raced' = raced \cup {q \in Requests \ {r} : \E t \in S : Accepted(q, t)}

-----------------------------------------------------------------------------
(* POST /auth/login *)

\* The row found for e is that of u, it has a password and p is that password.
Authenticates(u, e, p) ==
    /\ found_by_email(e, u)
    /\ users[u].password_hash # NULL
    /\ verify_password(p, users[u].password_hash)

\* Mutant: is_active is not looked at.
login_though_disabled(r) ==
    /\ \E e \in Emails, p \in Passwords, u \in UserId :
         /\ Authenticates(u, e, p)
         /\ Enter(r, "login", "store_refresh_token", u, NULL, users[u].password_hash)
    /\ UNCHANGED <<dbVars, sessionHistory>>

login(r) ==
    /\ \E e \in Emails, p \in Passwords :
         \/ /\ ~ \E u \in UserId : Authenticates(u, e, p)
            /\ Reject(r, "login", into_response.Auth)
         \/ \E u \in UserId :
              /\ Authenticates(u, e, p)
              /\ ~ users[u].is_active
              /\ Reject(r, "login", into_response.Forbidden)
         \/ \E u \in UserId :
              /\ Authenticates(u, e, p)
              /\ users[u].is_active
              /\ Enter(r, "login", "store_refresh_token", u, NULL, users[u].password_hash)
    /\ UNCHANGED <<dbVars, sessionHistory>>

-----------------------------------------------------------------------------
(* POST /auth/refresh *)

\* Mutant: revoked_at is not looked at.
RotatableThoughRevoked(t) ==
    /\ refresh_tokens[t] # NULL
    /\ refresh_tokens[t].expires_at > now

\* Mutant: the comparison with the clock is off by one.
RotatableWhileExpiring(t) ==
    /\ Live(t)
    /\ refresh_tokens[t].expires_at >= now

\* lookup_refresh_token(t) finds a row that is neither revoked nor expired.
Rotatable(t) ==
    /\ Live(t)
    /\ refresh_tokens[t].expires_at > now

\* A token that is no good, or that no row knows, is unauthorized.
refresh(r) ==
    /\ \/ Reject(r, "refresh", into_response.Unauthorized)
       \/ \E t \in Delivered :
            /\ Rotatable(t)
            /\ Enter(r, "refresh", "revoke_refresh_token",
                     refresh_tokens[t].user_id, t, req[t].phc)
    /\ UNCHANGED <<dbVars, sessionHistory>>

refresh_revoke(r) ==
    /\ At(r, "refresh", "revoke_refresh_token")
    /\ revoke_refresh_token(req[r].token)
    /\ Note(r, {req[r].token})
    /\ Proceed(r, "find_by_id")
    /\ UNCHANGED <<users, now>>

\* No code deletes a user: the error for a user that is gone cannot happen.
refresh_find_user(r) ==
    /\ At(r, "refresh", "find_by_id")
    /\ found_by_id(req[r].user)
    /\ Proceed(r, "store_refresh_token")
    /\ UNCHANGED <<dbVars, sessionHistory>>

-----------------------------------------------------------------------------
(* The end of login and refresh *)

issue_session(r) == issue_tokens(r) /\ UNCHANGED sessionHistory

-----------------------------------------------------------------------------
(* POST /auth/logout: no look at the row, no sign of who is asking.  The   *)
(* body may also hold a token no row knows, with no effect.                *)

logout(r) ==
    /\ req[r].pc = "idle"
    /\ \E t \in Delivered \cup {NULL}, s \in {204, 0} :
         /\ revoke_refresh_token(t)
         /\ Note(r, {t})
         /\ req' = [req EXCEPT ![r] = Answered("logout", t, s)]
    /\ UNCHANGED <<users, now>>

-----------------------------------------------------------------------------

SessionInit ==
    /\ DbInit /\ ReqInit
    /\ spender = [t \in TokenId |-> NULL] /\ raced = {}

\* What a login or refresh in flight does next.
SessionContinue(r) == refresh_revoke(r) \/ refresh_find_user(r) \/ issue_session(r)

SessionStep(r) ==
    \/ login(r) \/ refresh(r) \/ logout(r)
    \/ SessionContinue(r)
    \/ Abort(r) /\ UNCHANGED sessionHistory

SessionNext ==
    \/ \E r \in Requests : SessionStep(r)
    \/ Tick /\ UNCHANGED sessionHistory

SessionSpec == SessionInit /\ [][SessionNext]_sessionVars

-----------------------------------------------------------------------------
(* Properties *)

\* The rows, the activation records and the history have their types.
SessionTypeOK ==
    /\ DbTypeOK /\ ReqTypeOK
    /\ spender \in [TokenId -> Requests \cup {NULL}]
    /\ raced \subseteq Requests

\* Request r is a refresh whose new token is in the table.
Succeeded(r) == req[r].op = "refresh" /\ refresh_tokens[r] # NULL

\* "Rotate tokens (old token revoked)": a token that refresh mints belongs to
\* the owner of the token it was given, and that token is revoked by then and
\* stays so, whatever other requests do in between.
RotationReplaces ==
    \A r \in Requests : Succeeded(r) =>
        LET old == refresh_tokens[req[r].token] IN
          /\ old # NULL
          /\ old.revoked
          /\ old.user_id = refresh_tokens[r].user_id

\* A token has one heir.  lookup_refresh_token and revoke_refresh_token are two
\* statements, so two refreshes may spend the same token, but only if both had
\* read it as valid before either revoked it: apart from those that raced with
\* the spender, only the request that spent a token gets its successor, and a
\* token spent by a logout has none.
OneHeir ==
    \A r \in Requests : Succeeded(r) => spender[req[r].token] = r \/ r \in raced

\* The abstract state of TokenRotation.
Life == [t \in TokenId |->
    IF refresh_tokens[t] = NULL THEN "unborn"
    ELSE IF refresh_tokens[t].revoked \/ refresh_tokens[t].expires_at <= now
         THEN "dead" ELSE "alive"]

ClaimedToken == [t \in TokenId |-> IF req[t].op = "refresh" THEN req[t].token ELSE NULL]

Rotation == INSTANCE TokenRotation WITH Tokens <- TokenId, life <- Life, claim <- ClaimedToken

\* Refresh tokens as TokenRotation promises them: each is born by a login or
\* as the successor of one that was neither revoked nor expired when refresh
\* looked it up, and is dead for good once it is revoked or has expired.
RotationRefined == Rotation!Spec

=============================================================================
