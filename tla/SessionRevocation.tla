------------------------- MODULE SessionRevocation -------------------------
(***************************************************************************)
(* Sessions and password recovery together: requests of both interleave on *)
(* users and refresh_tokens.  The question is whether changing a password  *)
(* ends the sessions that the old one opened.                              *)
(***************************************************************************)
EXTENDS Sessions, PasswordReset

VARIABLES
    survivors   \* history: logins and refreshes that were past their check when
                \* a reset swept the account's tokens, and refreshes of theirs

revocationVars ==
    <<users, refresh_tokens, now, req, spender, raced, password_reset_tokens, mail, survivors>>

\* Logins and refreshes for user u that will insert a row unless they fail.
Minting(u) ==
    {r \in Requests : InFlight(r) /\ req[r].op \in {"login", "refresh"} /\ req[r].user = u}

-----------------------------------------------------------------------------
(* The actions of either part leave the other's tables alone.              *)

Session(A) == A /\ UNCHANGED <<resetVars, survivors>>

Recovery(A) == A /\ UNCHANGED <<sessionHistory, survivors>>

\* refresh, and whether the token it accepts is a survivor's.
refresh_survivor(r) ==
    /\ refresh(r)
    /\ survivors' = IF req'[r].token \in survivors THEN survivors \cup {r} ELSE survivors
    /\ UNCHANGED resetVars

\* revoke_sessions, and what it does to the requests in flight.
sweep(r) ==
    /\ revoke_sessions(r)
    /\ Note(r, TokensOf(req[r].user))
    /\ survivors' = survivors \cup Minting(req[r].user)

-----------------------------------------------------------------------------

RevocationInit == SessionInit /\ ResetTablesInit /\ survivors = {}

\* What a request in flight does next.
Continue(r) ==
    \/ Session(SessionContinue(r))
    \/ Recovery(store_reset_token(r)) \/ Recovery(update_password(r))
    \/ sweep(r)

RevocationStep(r) ==
    \/ Session(login(r)) \/ refresh_survivor(r) \/ Session(logout(r))
    \/ Recovery(forgot_password(r)) \/ Recovery(send_password_reset_email(r))
    \/ Recovery(reset_password_rejects(r)) \/ Recovery(reset_password(r))
    \/ Continue(r)
    \/ Abort(r) /\ UNCHANGED <<sessionHistory, resetVars, survivors>>

RevocationNext ==
    \/ \E r \in Requests : RevocationStep(r)
    \/ Tick /\ UNCHANGED <<sessionHistory, resetVars, survivors>>

RevocationSpec == RevocationInit /\ [][RevocationNext]_revocationVars

\* tokio polls every ready task: a handler whose statement was answered goes
\* on, unless it stops for good.  Clients, mails and the clock owe nothing.
FairRevocationSpec ==
    RevocationSpec /\ \A r \in Requests : WF_revocationVars(Continue(r))

-----------------------------------------------------------------------------
(* Properties *)

\* The tables, the activation records and the history have their types.
RevocationTypeOK == SessionTypeOK /\ ResetTypeOK /\ survivors \subseteq Requests

\* The account token t belongs to, and the hash it logs in with now.
Owner(t) == refresh_tokens[t].user_id
CurrentHash(t) == users[Owner(t)].password_hash

\* A session is stale when it goes back to a login that verified another hash
\* than the account has now.
Stale(t) == Live(t) /\ req[t].phc # CurrentHash(t)

\* Reset request q executed its last statement.
Swept(q) == req[q].op = "reset_password" /\ req[q].pc = "done" /\ req[q].status \in {204, 0}

\* perform_password_reset stores the hash first and sweeps the sessions then.
\* A session opened under an older password is alive only while the sweep of
\* the reset that stored the present hash is still to come (or never comes:
\* that reset failed in between), or because its login or one of its refreshes
\* straddled a sweep.
StaleSessionsExplained ==
    \A t \in TokenId : Stale(t) =>
        \/ t \in survivors
        \/ \E q \in Requests : q = CurrentHash(t).salt /\ ~Swept(q)

\* "Validates, consumes the token, updates the password hash, and revokes all
\* sessions": after a 204, none of an older password is alive.
ResetRevokesAllSessions ==
    \A t \in TokenId : Stale(t) =>
        ~ \E q \in Requests : q = CurrentHash(t).salt /\ req[q].status = 204

\* A stale session ends by itself, without a client doing anything, unless the
\* reset that made it stale failed or the session straddled its sweep.
StaleSessionsEnd ==
    \A t \in TokenId :
        Stale(t) ~> \/ ~Stale(t) \/ t \in survivors
                    \/ \E q \in Requests : q = CurrentHash(t).salt /\ req[q].status = db_error

=============================================================================
