----------------------- MODULE SessionRevocationProofs -----------------------
(***************************************************************************)
(* Proofs about SessionRevocation: sessions and password recovery          *)
(* interleaved, for every set of requests, accounts and passwords, every   *)
(* seed and every bound.  What Sessions keeps (RotationInv), recovery      *)
(* keeps, too.                                                             *)
(***************************************************************************)
EXTENDS SessionRevocation, SessionsProofs

USE DEF TokenId

-----------------------------------------------------------------------------
(* The inductive invariant                                                 *)

\* The tables of recovery have their types.
TablesOK ==
    /\ password_reset_tokens \in [TokenId -> ResetRow \cup {NULL}]
    /\ mail \in [TokenId -> ResetMail \cup {NULL}]

\* A reset past its first statement is about to store a hash of its own salt.
SaltInv(r) ==
    InFlight(r) /\ req[r].op = "reset_password" => req[r].phc \in Phc /\ req[r].phc.salt = r

\* Reset q redeemed a token for user u and has not swept the sessions of u.
Resetting(q, u) ==
    /\ req[q].op = "reset_password" /\ req[q].user = u
    /\ req[q].pc # "idle" /\ ~Swept(q)

\* A session of user u that request t opens, or opened: its hash is that of u,
\* or it straddled a sweep, or the reset that stored the hash has yet to sweep.
Explained(t, u) ==
    \/ req[t].phc = users[u].password_hash
    \/ t \in survivors
    \/ \E q \in Requests : q = users[u].password_hash.salt /\ Resetting(q, u)

\* The sessions that are on their way are explained, ...
MintInv(r) ==
    InFlight(r) /\ req[r].op \notin {"forgot_password", "reset_password"} =>
        req[r].op \in {"login", "refresh"} /\ Explained(r, req[r].user)

\* ... and so are those that are alive.
LiveInv(t) == Live(t) => Explained(t, Owner(t))

RevocationInv ==
    /\ RotationInv /\ TablesOK /\ survivors \subseteq Requests
    /\ \A r \in Requests : SaltInv(r) /\ MintInv(r) /\ LiveInv(r)

-----------------------------------------------------------------------------
(* What a step of request r leaves alone                                   *)

\* The parts of the types.
LEMMA Types ==
    ASSUME RevocationInv PROVE ReqTypeOK /\ DbTypeOK /\ InFlightKnowsUser /\ RotationInv
BY DEF RevocationInv, RotationInv, TypeInv, SessionTypeOK

\* A request that is not over has no refresh token.
LEMMA NotMinted ==
    ASSUME RevocationInv, NEW r \in Requests, req[r].pc # "done" PROVE refresh_tokens[r] = NULL
BY DEF RevocationInv, RotationInv, RowInv

\* What explains a session of u still does.
LEMMA ExplainedKeeps ==
    ASSUME NEW t, NEW u, Explained(t, u), req'[t].phc = req[t].phc, survivors \subseteq survivors',
           users'[u].password_hash = users[u].password_hash,
           \A q \in Requests : Resetting(q, u) => Resetting(q, u)'
    PROVE  Explained(t, u)'
BY DEF Explained

\* The step starts request r or leaves it its account.
Settled(r) ==
    /\ \A q \in Requests \ {r} : req'[q] = req[q]
    /\ req[r].pc = "idle" \/ (req'[r].op = req[r].op /\ req'[r].user = req[r].user)
    /\ req'[r].pc # "idle" /\ ~Swept(r)'

\* Then no reset sweeps.
LEMMA ResettingStays ==
    ASSUME NEW r \in Requests, Settled(r), NEW u, NEW q \in Requests, Resetting(q, u)
    PROVE  Resetting(q, u)'
BY DEF Settled, Resetting, Swept

\* What is left to show of such a step: the types, and the request itself.
LEMMA StepKeeps ==
    ASSUME RevocationInv, RotationInv', TablesOK', survivors' \subseteq Requests,
           NEW r \in Requests, Settled(r), users' = users, survivors \subseteq survivors',
           \A t \in Requests \ {r} :
             Live(t)' => Live(t) /\ refresh_tokens'[t].user_id = refresh_tokens[t].user_id,
           SaltInv(r)', MintInv(r)', LiveInv(r)'
    PROVE  RevocationInv'
<1>1. ASSUME NEW t \in Requests, t # r PROVE SaltInv(t)' /\ MintInv(t)' /\ LiveInv(t)'
  <2>1. req'[t] = req[t] /\ SaltInv(t) /\ MintInv(t) /\ LiveInv(t)
    BY <1>1 DEF Settled, RevocationInv
  <2>2. ASSUME NEW u, Explained(t, u) PROVE Explained(t, u)'
    BY <2>1, <2>2, ExplainedKeeps, ResettingStays
  <2>3. SaltInv(t)'
    BY <2>1 DEF SaltInv, InFlight
  <2>4. MintInv(t)'
    <3>1. PICK u : u = req[t].user
      OBVIOUS
    <3>2. req'[t].user = u
      BY <2>1, <3>1
    <3>3. InFlight(t)' <=> InFlight(t)
      BY <2>1 DEF InFlight
    <3> QED BY <2>1, <2>2, <3>1, <3>2, <3>3 DEF MintInv
  <2>5. LiveInv(t)'
    <3> SUFFICES ASSUME Live(t)' PROVE Explained(t, Owner(t))'
      BY DEF LiveInv
    <3>1. Live(t) /\ refresh_tokens'[t].user_id = refresh_tokens[t].user_id
      BY <1>1
    <3>2. PICK u : u = refresh_tokens[t].user_id
      OBVIOUS
    <3>3. Explained(t, u)'
      BY <2>1, <2>2, <3>1, <3>2 DEF LiveInv, Owner
    <3> QED BY <3>1, <3>2, <3>3 DEF Owner
  <2> QED BY <2>3, <2>4, <2>5
<1> QED BY <1>1 DEF RevocationInv

\* Tokens that a step does not touch are alive as they were.
LEMMA TokensKept ==
    ASSUME UNCHANGED refresh_tokens, NEW t
    PROVE  Live(t)' => Live(t) /\ refresh_tokens'[t].user_id = refresh_tokens[t].user_id
BY DEF Live

\* No token comes to life by a revocation, and the revoked are dead.
LEMMA RevokedDie ==
    ASSUME DbTypeOK, NEW S, Revoke(S), NEW t \in TokenId
    PROVE  Live(t)' => /\ Live(t) /\ t \notin S
                       /\ refresh_tokens'[t].user_id = refresh_tokens[t].user_id
<1>1. refresh_tokens[t] # NULL => refresh_tokens[t] \in RefreshRow
  BY DEF DbTypeOK
<1>2. refresh_tokens'[t] = IF t \in S /\ refresh_tokens[t] # NULL
                           THEN [refresh_tokens[t] EXCEPT !.revoked = TRUE]
                           ELSE refresh_tokens[t]
  BY DEF Revoke
<1>3. CASE t \in S /\ refresh_tokens[t] # NULL
  <2>1. refresh_tokens'[t].revoked = TRUE
    BY <1>1, <1>2, <1>3 DEF RefreshRow
  <2> QED BY <2>1 DEF Live
<1>4. CASE ~(t \in S /\ refresh_tokens[t] # NULL)
  BY <1>2, <1>4 DEF Live
<1> QED BY <1>3, <1>4

\* A request without a token has no session that is alive.
LEMMA NoSession == ASSUME NEW r, refresh_tokens'[r] = NULL PROVE LiveInv(r)'
BY DEF LiveInv, Live

\* A request that is over, or of recovery, is on its way to no session.
LEMMA NoMint ==
    ASSUME NEW r, req'[r].pc = "done" \/ req'[r].op \in {"forgot_password", "reset_password"}
    PROVE  MintInv(r)'
BY DEF MintInv, InFlight

\* A request that is over, or no reset, stores no hash.
LEMMA NoHash ==
    ASSUME NEW r, req'[r].pc = "done" \/ req'[r].op # "reset_password" PROVE SaltInv(r)'
BY DEF SaltInv, InFlight

\* A step of recovery that touches no token keeps what sessions keep.
LEMMA RecoveryRotation ==
    ASSUME RevocationInv, NEW r \in Requests, req[r].pc # "done",
           UNCHANGED <<refresh_tokens, spender, raced>>, ReqTypeOK', DbTypeOK',
           \A q \in Requests \ {r} : req'[q] = req[q],
           InFlight(r)' => req'[r].user # NULL, req'[r].op # "refresh"
    PROVE  RotationInv'
<1>1. ReqTypeOK /\ InFlightKnowsUser /\ RotationInv /\ refresh_tokens[r] = NULL
  BY Types, NotMinted
<1>2. PICK rec : rec = req'[r]
  OBVIOUS
<1>3. req' = [req EXCEPT ![r] = rec]
  BY <1>1, <1>2 DEF ReqTypeOK
<1>4. TypeInv'
  <2>1. SessionTypeOK'
    BY <1>1 DEF RotationInv, TypeInv, SessionTypeOK
  <2>2. InFlightKnowsUser'
    BY <1>1 DEF InFlightKnowsUser, InFlight
  <2> QED BY <2>1, <2>2 DEF TypeInv
<1> QED BY <1>1, <1>2, <1>3, <1>4, QuietEnd

-----------------------------------------------------------------------------
(* The initial state                                                       *)

\* There are neither sessions nor requests.
LEMMA InitRevocation == RevocationInit => RevocationInv
<1> SUFFICES ASSUME RevocationInit PROVE RevocationInv
  OBVIOUS
<1>1. RotationInv
  BY InitRotation DEF RevocationInit
<1>2. \A r \in Requests : req[r].pc = "idle" /\ refresh_tokens[r] = NULL
  BY DEF RevocationInit, SessionInit, DbInit, ReqInit, Idle
<1>3. TablesOK
  BY DEF RevocationInit, ResetTablesInit, TablesOK
<1> QED BY <1>1, <1>2, <1>3
        DEF RevocationInit, RevocationInv, SaltInv, MintInv, LiveInv, InFlight, Live

-----------------------------------------------------------------------------
(* The steps of sessions                                                   *)

\* login
LEMMA LoginStep ==
    ASSUME RevocationInv, RotationInv', NEW r \in Requests, Session(login(r)) PROVE RevocationInv'
<1>1. /\ UNCHANGED <<dbVars, resetVars, survivors>> /\ TablesOK' /\ survivors' \subseteq Requests
  BY DEF Session, login, RevocationInv, TablesOK, resetVars
<1>2. ReqTypeOK /\ DbTypeOK /\ "login" \in Op /\ "store_refresh_token" \in Pc
  BY Types DEF Op, Pc
<1>3. CASE \E code \in {into_response.Auth, into_response.Forbidden} : Reject(r, "login", code)
  <2>1. PICK code \in Status : Reject(r, "login", code)
    BY <1>3, ErrorStatus
  <2>2. /\ req[r].pc = "idle" /\ \A q \in Requests \ {r} : req'[q] = req[q]
        /\ req'[r].op = "login" /\ req'[r].pc = "done"
    BY <1>2, <2>1, RejectEffect
  <2>3. Settled(r) /\ refresh_tokens'[r] = NULL
    BY <1>1, <2>2, NotMinted DEF Settled, Swept, dbVars
  <2> QED BY <1>1, <2>2, <2>3, StepKeeps, TokensKept, NoSession, NoMint, NoHash DEF dbVars
<1>4. ASSUME NEW u \in UserId, users[u] # NULL,
             Enter(r, "login", "store_refresh_token", u, NULL, users[u].password_hash)
      PROVE  RevocationInv'
  <2>1. PICK h \in Phc \cup {NULL} : h = users[u].password_hash
    BY <1>2, <1>4 DEF DbTypeOK, UserRow
  <2>2. /\ req[r].pc = "idle" /\ \A q \in Requests \ {r} : req'[q] = req[q]
        /\ req'[r].op = "login" /\ req'[r].pc = "store_refresh_token"
        /\ req'[r].user = u /\ req'[r].phc = h
    BY <1>2, <1>4, <2>1, EnterEffect
  <2>3. Settled(r) /\ refresh_tokens'[r] = NULL
    BY <1>1, <2>2, NotMinted DEF Settled, Swept, dbVars
  <2>4. MintInv(r)'
    BY <1>1, <2>1, <2>2 DEF MintInv, Explained, dbVars
  <2> QED BY <1>1, <2>2, <2>3, <2>4, StepKeeps, TokensKept, NoSession, NoHash DEF dbVars
<1> QED BY <1>3, <1>4 DEF Session, login, Authenticates, found_by_email

\* refresh
LEMMA RefreshStep ==
    ASSUME RevocationInv, RotationInv', NEW r \in Requests, refresh_survivor(r)
    PROVE  RevocationInv'
<1>1. UNCHANGED <<dbVars, resetVars>> /\ TablesOK' /\ survivors' \subseteq Requests
  BY DEF refresh_survivor, refresh, RevocationInv, TablesOK, resetVars
<1>2. ReqTypeOK /\ DbTypeOK /\ "refresh" \in Op /\ "revoke_refresh_token" \in Pc
  BY Types DEF Op, Pc
<1>3. survivors \subseteq survivors'
  BY DEF refresh_survivor
<1>4. CASE Reject(r, "refresh", into_response.Unauthorized)
  <2>1. /\ req[r].pc = "idle" /\ \A q \in Requests \ {r} : req'[q] = req[q]
        /\ req'[r].op = "refresh" /\ req'[r].pc = "done"
    BY <1>2, <1>4, RejectEffect, ErrorStatus
  <2>2. Settled(r) /\ refresh_tokens'[r] = NULL
    BY <1>1, <2>1, NotMinted DEF Settled, Swept, dbVars
  <2> QED BY <1>1, <1>3, <2>1, <2>2, StepKeeps, TokensKept, NoSession, NoMint, NoHash DEF dbVars
<1>5. ASSUME NEW t \in TokenId, Live(t),
             Enter(r, "refresh", "revoke_refresh_token", refresh_tokens[t].user_id, t, req[t].phc)
      PROVE  RevocationInv'
  <2>1. PICK u \in UserId : u = refresh_tokens[t].user_id
    BY <1>2, <1>5 DEF DbTypeOK, Live, RefreshRow
  <2>2. PICK h \in Phc \cup {NULL} : h = req[t].phc
    BY <1>2, Fields
  <2>3. /\ req[r].pc = "idle" /\ \A q \in Requests \ {r} : req'[q] = req[q]
        /\ req'[r].op = "refresh" /\ req'[r].pc = "revoke_refresh_token"
        /\ req'[r].user = u /\ req'[r].token = t /\ req'[r].phc = h
    BY <1>2, <1>5, <2>1, <2>2, EnterEffect
  <2>4. Settled(r) /\ refresh_tokens'[r] = NULL
    BY <1>1, <2>3, NotMinted DEF Settled, Swept, dbVars
  <2>5. Explained(t, u)
    BY <1>5, <2>1 DEF RevocationInv, LiveInv, Owner
  <2>6. t \in survivors => r \in survivors'
    BY <2>3 DEF refresh_survivor
  <2>7. Explained(r, u)'
    BY <1>1, <2>2, <2>3, <2>4, <2>5, <2>6, ResettingStays DEF Explained, dbVars
  <2>8. MintInv(r)'
    BY <2>3, <2>7 DEF MintInv
  <2> QED BY <1>1, <1>3, <2>3, <2>4, <2>8, StepKeeps, TokensKept, NoSession, NoHash DEF dbVars
<1> QED BY <1>4, <1>5 DEF refresh_survivor, refresh, Delivered, Rotatable

\* logout
LEMMA LogoutStep ==
    ASSUME RevocationInv, RotationInv', NEW r \in Requests, Session(logout(r)) PROVE RevocationInv'
<1>1. /\ UNCHANGED <<users, now, resetVars, survivors>> /\ req[r].pc = "idle"
      /\ TablesOK' /\ survivors' \subseteq Requests
  BY DEF Session, logout, RevocationInv, TablesOK, resetVars
<1>2. PICK t \in TokenId \cup {NULL}, s \in {204, 0} :
        revoke_refresh_token(t) /\ req' = [req EXCEPT ![r] = Answered("logout", t, s)]
  BY DEF Session, logout, Delivered
<1>3. ReqTypeOK /\ DbTypeOK /\ "logout" \in Op /\ s \in Status
  BY Types, StatusCodes DEF Op
<1>4. /\ \A q \in Requests \ {r} : req'[q] = req[q]
      /\ req'[r].op = "logout" /\ req'[r].pc = "done"
  BY <1>2, <1>3, AnsweredEffect
<1>5. \A q \in TokenId : Live(q)' => Live(q) /\ refresh_tokens'[q].user_id = refresh_tokens[q].user_id
  BY <1>2, <1>3, RevokedDie DEF revoke_refresh_token
<1>6. Settled(r) /\ LiveInv(r)'
  BY <1>1, <1>4, <1>5, NotMinted DEF Settled, Swept, LiveInv, Live
<1> QED BY <1>1, <1>4, <1>5, <1>6, StepKeeps, NoMint, NoHash

\* The statements of login and refresh that follow.
LEMMA ContinueStep ==
    ASSUME RevocationInv, RotationInv', NEW r \in Requests, Session(SessionContinue(r))
    PROVE  RevocationInv'
<1>1. UNCHANGED <<resetVars, survivors>> /\ TablesOK' /\ survivors' \subseteq Requests
  BY DEF Session, RevocationInv, TablesOK, resetVars
<1>2. ReqTypeOK /\ DbTypeOK /\ InFlightKnowsUser
  BY Types
<1>3. \A u, q : Resetting(q, u) => req[q].op = "reset_password"
  BY DEF Resetting
<1>4. ASSUME At(r, "refresh", req[r].pc), InFlight(r), users' = users,
             NEW next \in Pc \ {"idle", "done"}, Proceed(r, next),
             \A t \in Requests :
               Live(t)' => Live(t) /\ refresh_tokens'[t].user_id = refresh_tokens[t].user_id
      PROVE  RevocationInv'
  <2>1. /\ \A q \in Requests \ {r} : req'[q] = req[q]
        /\ req'[r].op = req[r].op /\ req'[r].pc = next /\ req'[r].user = req[r].user
        /\ req'[r].phc = req[r].phc
    BY <1>2, <1>4, ProceedEffect
  <2>2. req[r].op = "refresh"
    BY <1>4 DEF At
  <2>3. Settled(r)
    BY <2>1, <2>2 DEF Settled, Swept
  <2>4. PICK u : u = req[r].user
    OBVIOUS
  <2>5. Explained(r, u)
    BY <1>4, <2>2, <2>4 DEF RevocationInv, MintInv
  <2>6. Explained(r, u)'
    BY <1>1, <1>4, <2>1, <2>3, <2>5, ExplainedKeeps, ResettingStays
  <2>7. MintInv(r)'
    BY <2>1, <2>2, <2>4, <2>6 DEF MintInv
  <2>8. LiveInv(r)'
    <3>1. refresh_tokens[r] = NULL
      BY <1>4, NotMinted DEF InFlight
    <3> QED BY <1>4, <3>1 DEF LiveInv, Live
  <2> QED BY <1>1, <1>4, <2>1, <2>2, <2>3, <2>7, <2>8, StepKeeps, NoHash
<1>5. CASE refresh_revoke(r)
  <2>1. /\ At(r, "refresh", req[r].pc) /\ InFlight(r) /\ users' = users
        /\ Proceed(r, "find_by_id") /\ revoke_refresh_token(req[r].token)
    BY <1>5 DEF refresh_revoke, At, InFlight
  <2>2. \A t \in Requests :
          Live(t)' => Live(t) /\ refresh_tokens'[t].user_id = refresh_tokens[t].user_id
    <3>1. PICK S : Revoke(S)
      BY <2>1 DEF revoke_refresh_token
    <3> QED BY <1>2, <3>1, RevokedDie
  <2>3. "find_by_id" \in Pc \ {"idle", "done"}
    BY DEF Pc
  <2> QED BY <1>4, <2>1, <2>2, <2>3
<1>6. CASE refresh_find_user(r)
  <2>1. /\ At(r, "refresh", req[r].pc) /\ InFlight(r) /\ UNCHANGED <<users, refresh_tokens>>
        /\ Proceed(r, "store_refresh_token")
    BY <1>6 DEF refresh_find_user, At, InFlight, dbVars
  <2>2. "store_refresh_token" \in Pc \ {"idle", "done"}
    BY DEF Pc
  <2> QED BY <1>4, <2>1, <2>2, TokensKept
<1>7. CASE issue_session(r)
  <2>1. issue_tokens(r) /\ req[r].user # NULL
    BY <1>2, <1>7 DEF issue_session, issue_tokens, InFlightKnowsUser, InFlight
  <2>2. /\ users' = users /\ InFlight(r)
        /\ req[r].op \in {"login", "refresh", "google_callback"}
        /\ \A q \in Requests \ {r} : req'[q] = req[q]
        /\ req'[r].op = req[r].op /\ req'[r].pc = "done" /\ req'[r].user = req[r].user
        /\ req'[r].phc = req[r].phc
        /\ \A t \in TokenId : t # r => refresh_tokens'[t] = refresh_tokens[t]
        /\ refresh_tokens'[r].user_id = req[r].user
    BY <1>2, <2>1, IssueTokensEffect
  <2>3. Settled(r)
    BY <2>2 DEF Settled, Swept
  <2>4. PICK u : u = req[r].user
    OBVIOUS
  <2>5. Explained(r, u)
    BY <2>2, <2>4 DEF RevocationInv, MintInv
  <2>6. Explained(r, u)'
    BY <1>1, <2>2, <2>3, <2>5, ExplainedKeeps, ResettingStays
  <2>7. LiveInv(r)'
    BY <2>2, <2>4, <2>6 DEF LiveInv, Owner
  <2>8. \A t \in Requests \ {r} :
          Live(t)' => Live(t) /\ refresh_tokens'[t].user_id = refresh_tokens[t].user_id
    BY <2>2 DEF Live
  <2> QED BY <1>1, <2>2, <2>3, <2>7, <2>8, StepKeeps, NoMint, NoHash
<1> QED BY <1>5, <1>6, <1>7 DEF Session, SessionContinue

\* A handler that stops.
LEMMA AbortStep ==
    ASSUME RevocationInv, RotationInv', NEW r \in Requests,
           Abort(r), UNCHANGED <<sessionHistory, resetVars, survivors>>
    PROVE  RevocationInv'
<1>1. TablesOK' /\ survivors' \subseteq Requests /\ ReqTypeOK
  BY Types DEF RevocationInv, TablesOK, resetVars
<1>2. /\ InFlight(r) /\ UNCHANGED dbVars /\ \A q \in Requests \ {r} : req'[q] = req[q]
      /\ req'[r].op = req[r].op /\ req'[r].pc = "done" /\ req'[r].user = req[r].user
      /\ req'[r].status = db_error
  BY <1>1, AbortEffect
<1>3. Settled(r) /\ refresh_tokens'[r] = NULL
  BY <1>2, NotMinted DEF Settled, Swept, db_error, into_response, InFlight, dbVars
<1> QED BY <1>1, <1>2, <1>3, StepKeeps, TokensKept, NoSession, NoMint, NoHash DEF dbVars

\* What no session and no handler sees: the clock and the mail.
LEMMA UnseenStep ==
    ASSUME RevocationInv, RotationInv', TablesOK',
           UNCHANGED <<users, refresh_tokens, req, survivors>>
    PROVE  RevocationInv'
BY DEF RevocationInv, SaltInv, MintInv, LiveInv, Live, Owner, Explained, Resetting, Swept, InFlight

-----------------------------------------------------------------------------
(* The steps of recovery                                                   *)

\* What is left to show of a step of recovery that writes neither users nor
\* refresh_tokens.
LEMMA RecoveryKeeps ==
    ASSUME RevocationInv, TablesOK', NEW r \in Requests, req[r].pc # "done",
           UNCHANGED <<dbVars, sessionHistory, survivors>>, ReqTypeOK', Settled(r),
           req'[r].op \in {"forgot_password", "reset_password"},
           InFlight(r)' => req'[r].user # NULL, SaltInv(r)'
    PROVE  RevocationInv'
<1>1. /\ DbTypeOK' /\ UNCHANGED <<users, refresh_tokens, spender, raced>>
      /\ survivors' \subseteq Requests /\ survivors \subseteq survivors'
  BY Types DEF DbTypeOK, dbVars, sessionHistory, RevocationInv
<1>2. RotationInv'
  BY <1>1, RecoveryRotation DEF Settled
<1>3. refresh_tokens'[r] = NULL
  BY <1>1, NotMinted
<1> QED BY <1>1, <1>2, <1>3, StepKeeps, TokensKept, NoSession, NoMint

\* forgot_password
LEMMA ForgotStep ==
    ASSUME RevocationInv, NEW r \in Requests, Recovery(forgot_password(r)) PROVE RevocationInv'
<1>1. UNCHANGED <<dbVars, sessionHistory, survivors>> /\ TablesOK'
  <2>1. TablesOK /\ UNCHANGED <<dbVars, sessionHistory, survivors, password_reset_tokens>>
    BY DEF Recovery, forgot_password, RevocationInv
  <2>2. mail' \in [TokenId -> ResetMail \cup {NULL}]
    <3>1. CASE UNCHANGED mail
      BY <2>1, <3>1 DEF TablesOK
    <3>2. ASSUME NEW e \in Emails, mail' = [mail EXCEPT ![r] = [to |-> e, state |-> "drafted"]]
          PROVE  mail' \in [TokenId -> ResetMail \cup {NULL}]
      <4>1. PICK m \in ResetMail : mail' = [mail EXCEPT ![r] = m]
        BY <3>2 DEF ResetMail
      <4> QED BY <2>1, <4>1 DEF TablesOK
    <3> QED BY <3>1, <3>2 DEF Recovery, forgot_password
  <2> QED BY <2>1, <2>2 DEF TablesOK
<1>2. /\ ReqTypeOK /\ "forgot_password" \in Op /\ "store_password_reset_token" \in Pc
      /\ 204 \in Status
  BY Types, StatusCodes DEF Op, Pc
<1>3. CASE Reject(r, "forgot_password", 204)
  <2>1. /\ ReqTypeOK' /\ req[r].pc = "idle" /\ \A q \in Requests \ {r} : req'[q] = req[q]
        /\ req'[r].op = "forgot_password" /\ req'[r].pc = "done"
    BY <1>2, <1>3, RejectEffect
  <2>2. Settled(r) /\ ~ InFlight(r)'
    BY <2>1 DEF Settled, Swept, InFlight
  <2> QED BY <1>1, <2>1, <2>2, RecoveryKeeps, NoHash
<1>4. ASSUME NEW u \in UserId,
             Enter(r, "forgot_password", "store_password_reset_token", u, NULL, NULL)
      PROVE  RevocationInv'
  <2>1. /\ ReqTypeOK' /\ req[r].pc = "idle" /\ \A q \in Requests \ {r} : req'[q] = req[q]
        /\ req'[r].op = "forgot_password" /\ req'[r].pc = "store_password_reset_token"
        /\ req'[r].user = u
    BY <1>2, <1>4, EnterEffect
  <2>2. Settled(r) /\ req'[r].user # NULL
    BY <2>1, RowsExist DEF Settled, Swept
  <2> QED BY <1>1, <2>1, <2>2, RecoveryKeeps, NoHash
<1> QED BY <1>3, <1>4 DEF Recovery, forgot_password

\* store_reset_token
LEMMA StoreResetTokenStep ==
    ASSUME RevocationInv, NEW r \in Requests, Recovery(store_reset_token(r)) PROVE RevocationInv'
<1>1. /\ UNCHANGED <<dbVars, sessionHistory, survivors>> /\ Finish(r, 204)
      /\ req[r].op = "forgot_password" /\ InFlight(r)
  BY DEF Recovery, store_reset_token, At, InFlight
<1>2. ReqTypeOK /\ DbTypeOK /\ InFlightKnowsUser /\ TablesOK
  BY Types DEF RevocationInv
<1>3. TablesOK'
  <2>1. CASE UNCHANGED resetVars
    BY <1>2, <2>1 DEF TablesOK, resetVars
  <2>2. CASE /\ store_password_reset_token(r, req[r].user, now + ResetTtl)
             /\ spawn_reset_email(r) \/ UNCHANGED mail
    <3>1. req[r].user \in UserId /\ now + ResetTtl \in Nat
      BY <1>1, <1>2, Fields, ResetTtlAssumption DEF InFlightKnowsUser, DbTypeOK
    <3>2. PICK row \in ResetRow : password_reset_tokens' = [password_reset_tokens EXCEPT ![r] = row]
      BY <2>2, <3>1 DEF store_password_reset_token, ResetRow
    <3>3. mail' \in [TokenId -> ResetMail \cup {NULL}]
      <4>1. CASE spawn_reset_email(r)
        <5>1. PICK m \in ResetMail : mail' = [mail EXCEPT ![r] = m]
          <6>1. \A e \in Emails : [to |-> e, state |-> "queued"] \in ResetMail
            BY DEF ResetMail
          <6> QED BY <4>1, <6>1 DEF spawn_reset_email
        <5> QED BY <1>2, <5>1 DEF TablesOK
      <4> QED BY <1>2, <2>2, <4>1 DEF TablesOK
    <3> QED BY <1>2, <3>2, <3>3 DEF TablesOK
  <2> QED BY <2>1, <2>2 DEF Recovery, store_reset_token
<1>4. /\ ReqTypeOK' /\ \A q \in Requests \ {r} : req'[q] = req[q]
      /\ req'[r].op = req[r].op /\ req'[r].pc = "done" /\ req'[r].user = req[r].user
  BY <1>1, <1>2, FinishEffect, StatusCodes
<1>5. Settled(r) /\ ~ InFlight(r)' /\ req[r].pc # "done"
  BY <1>1, <1>4 DEF Settled, Swept, InFlight
<1> QED BY <1>1, <1>3, <1>4, <1>5, RecoveryKeeps, NoHash

\* send_password_reset_email
LEMMA MailStep ==
    ASSUME RevocationInv, NEW r \in Requests, Recovery(send_password_reset_email(r))
    PROVE  RevocationInv'
<1>1. UNCHANGED <<dbVars, req, sessionHistory, survivors>> /\ TablesOK'
  <2>1. /\ TablesOK /\ UNCHANGED <<dbVars, req, sessionHistory, survivors, password_reset_tokens>>
        /\ mail[r] # NULL
    BY DEF Recovery, send_password_reset_email, RevocationInv
  <2>2. PICK m \in {"delivered", "lost"} : mail' = [mail EXCEPT ![r].state = m]
    BY DEF Recovery, send_password_reset_email
  <2>3. [mail[r] EXCEPT !.state = m] \in ResetMail
    BY <2>1 DEF TablesOK, ResetMail
  <2> QED BY <2>1, <2>2, <2>3 DEF TablesOK
<1>2. UNCHANGED sessionVars
  BY <1>1 DEF dbVars, sessionHistory, sessionVars
<1>3. RotationInv'
  BY <1>2, NextRotation DEF RevocationInv
<1> QED BY <1>1, <1>3, UnseenStep DEF dbVars

\* reset_password, when it fails and when it goes on
LEMMA ResetStepKeeps ==
    ASSUME RevocationInv, NEW r \in Requests,
           Recovery(reset_password_rejects(r)) \/ Recovery(reset_password(r))
    PROVE  RevocationInv'
<1>1. UNCHANGED <<dbVars, sessionHistory, survivors>>
  BY DEF Recovery, reset_password_rejects, reset_password
<1>2. /\ ReqTypeOK /\ TablesOK /\ "reset_password" \in Op /\ "update_password_hash" \in Pc
  BY Types DEF RevocationInv, Op, Pc
<1>3. CASE Recovery(reset_password_rejects(r))
  <2>1. PICK code \in Status \ {204, 0} : Reject(r, "reset_password", code)
    BY <1>3, ErrorStatus DEF Recovery, reset_password_rejects, into_response
  <2>2. /\ ReqTypeOK' /\ req[r].pc = "idle" /\ \A q \in Requests \ {r} : req'[q] = req[q]
        /\ req'[r].op = "reset_password" /\ req'[r].pc = "done" /\ req'[r].status = code
    BY <1>2, <2>1, RejectEffect
  <2>3. Settled(r) /\ ~ InFlight(r)'
    BY <2>1, <2>2 DEF Settled, Swept, InFlight
  <2>4. TablesOK'
    BY <1>2, <1>3 DEF Recovery, reset_password_rejects, TablesOK, resetVars
  <2> QED BY <1>1, <2>2, <2>3, <2>4, RecoveryKeeps, NoHash
<1>4. CASE Recovery(reset_password(r))
  <2>1. PICK t \in TokenId, p \in Passwords :
          /\ Consumable(t)
          /\ password_reset_tokens' = [password_reset_tokens EXCEPT ![t].used = TRUE]
          /\ Enter(r, "reset_password", "update_password_hash", ResetUser(t), t,
                   hash_password(p, r))
    BY <1>4 DEF Recovery, reset_password, Mailed
  <2>2. password_reset_tokens[t] \in ResetRow
    BY <1>2, <2>1 DEF TablesOK, Consumable
  <2>3. PICK u \in UserId : u = ResetUser(t)
    BY <2>2 DEF ResetUser, ResetRow
  <2>4. PICK h \in Phc : h = hash_password(p, r) /\ h.salt = r
    <3>1. hash_password(p, r) \in Phc /\ hash_password(p, r).salt = r
      BY DEF hash_password, Phc, UserId
    <3> QED BY <3>1
  <2>5. Enter(r, "reset_password", "update_password_hash", u, t, h)
    BY <2>1, <2>3, <2>4
  <2>6. /\ ReqTypeOK' /\ req[r].pc = "idle" /\ \A q \in Requests \ {r} : req'[q] = req[q]
        /\ req'[r].op = "reset_password" /\ req'[r].pc = "update_password_hash"
        /\ req'[r].user = u /\ req'[r].phc = h
    BY <1>2, <2>5, EnterEffect
  <2>7. Settled(r) /\ req'[r].user # NULL /\ SaltInv(r)'
    BY <2>4, <2>6, RowsExist DEF Settled, Swept, SaltInv
  <2>8. TablesOK'
    <3>1. password_reset_tokens' \in [TokenId -> ResetRow \cup {NULL}]
      BY <1>2, <2>1, <2>2 DEF TablesOK, ResetRow
    <3> QED BY <1>2, <1>4, <3>1 DEF Recovery, reset_password, TablesOK
  <2> QED BY <1>1, <2>6, <2>7, <2>8, RecoveryKeeps
<1> QED BY <1>3, <1>4

\* update_password: the hash of the account changes, and the reset has yet to
\* sweep the sessions that go back to the hash it had.
LEMMA UpdatePasswordStep ==
    ASSUME RevocationInv, NEW r \in Requests, Recovery(update_password(r)) PROVE RevocationInv'
<1>1. /\ UNCHANGED <<refresh_tokens, now, resetVars, sessionHistory, survivors>>
      /\ req[r].op = "reset_password" /\ InFlight(r) /\ req[r].pc # "done"
      /\ update_password_hash(req[r].user, req[r].phc)
      /\ Proceed(r, "revoke_all_refresh_tokens")
  BY DEF Recovery, update_password, At, InFlight
<1>2. ReqTypeOK /\ DbTypeOK /\ InFlightKnowsUser /\ "revoke_all_refresh_tokens" \in Pc
  BY Types DEF Pc
<1>3. PICK u \in UserId : u = req[r].user
  BY <1>1, <1>2, Fields DEF InFlightKnowsUser
<1>4. PICK h \in Phc : h = req[r].phc /\ h.salt = r
  BY <1>1 DEF RevocationInv, SaltInv
<1>5. /\ users' \in [UserId -> UserRow \cup {NULL}]
      /\ \A v \in UserId : v # u => users'[v] = users[v]
      /\ users[u] = NULL => users'[u] = NULL
      /\ users[u] # NULL => users'[u].password_hash = h
  <2>1. update_password_hash(u, h)
    BY <1>1, <1>3, <1>4
  <2> QED BY <1>2, <2>1, UpdatePasswordEffect DEF DbTypeOK
<1>6. /\ ReqTypeOK' /\ \A q \in Requests \ {r} : req'[q] = req[q]
      /\ req'[r].op = "reset_password" /\ req'[r].pc = "revoke_all_refresh_tokens"
      /\ req'[r].user = u /\ req'[r].phc = h
  BY <1>1, <1>2, <1>3, <1>4, ProceedEffect
<1>7. RotationInv'
  <2>1. DbTypeOK'
    BY <1>1, <1>2, <1>5 DEF DbTypeOK
  <2>2. UNCHANGED <<refresh_tokens, spender, raced>> /\ req'[r].user # NULL
    BY <1>1, <1>6, RowsExist DEF sessionHistory
  <2> QED BY <1>1, <1>6, <2>1, <2>2, RecoveryRotation
<1>8. Settled(r)
  BY <1>1, <1>3, <1>6 DEF Settled, Swept
<1>9. ASSUME NEW t \in Requests, NEW v \in UserId, Explained(t, v) PROVE Explained(t, v)'
  <2>1. req'[t].phc = req[t].phc
    BY <1>4, <1>6
  <2>2. CASE users'[v] = users[v]
    BY <1>1, <1>8, <1>9, <2>1, <2>2, ExplainedKeeps, ResettingStays
  <2>3. CASE users'[v] # users[v]
    <3>1. v = u /\ users'[v].password_hash = h
      BY <1>5, <2>3
    <3>2. Resetting(r, u)'
      BY <1>6 DEF Resetting, Swept
    <3> QED BY <1>4, <3>1, <3>2 DEF Explained
  <2> QED BY <2>2, <2>3
<1>10. ASSUME NEW t \in Requests PROVE SaltInv(t)' /\ MintInv(t)' /\ LiveInv(t)'
  <2>1. SaltInv(t) /\ MintInv(t) /\ LiveInv(t)
    BY DEF RevocationInv
  <2>2. /\ req'[t].op = req[t].op /\ req'[t].user = req[t].user /\ req'[t].phc = req[t].phc
        /\ InFlight(t)' <=> InFlight(t)
    BY <1>1, <1>3, <1>4, <1>6 DEF InFlight
  <2>3. SaltInv(t)'
    BY <2>1, <2>2 DEF SaltInv
  <2>4. MintInv(t)'
    <3> SUFFICES ASSUME InFlight(t), req[t].op \notin {"forgot_password", "reset_password"}
                 PROVE  req[t].op \in {"login", "refresh"} /\ Explained(t, req[t].user)'
      BY <2>2 DEF MintInv
    <3>1. PICK v \in UserId : v = req[t].user
      BY <1>2, Fields DEF InFlightKnowsUser
    <3>2. Explained(t, v)'
      BY <1>9, <2>1, <3>1 DEF MintInv
    <3> QED BY <2>1, <2>2, <3>1, <3>2 DEF MintInv
  <2>5. LiveInv(t)'
    <3> SUFFICES ASSUME Live(t) PROVE Explained(t, Owner(t))'
      BY <1>1 DEF LiveInv, Live
    <3>1. PICK v \in UserId : v = refresh_tokens[t].user_id
      BY <1>2 DEF DbTypeOK, Live, RefreshRow
    <3>2. Explained(t, v)'
      BY <1>9, <2>1, <3>1 DEF LiveInv, Owner
    <3> QED BY <1>1, <3>1, <3>2 DEF Owner
  <2> QED BY <2>3, <2>4, <2>5
<1>11. TablesOK' /\ survivors' \subseteq Requests
  BY <1>1 DEF RevocationInv, TablesOK, resetVars
<1> QED BY <1>7, <1>10, <1>11 DEF RevocationInv

\* sweep: of the sessions of the account, those that exist die and those on
\* their way survive; the others do not depend on this reset.
LEMMA SweepStep == ASSUME RevocationInv, NEW r \in Requests, sweep(r) PROVE RevocationInv'
<1>1. /\ UNCHANGED <<users, now, resetVars>> /\ req[r].op = "reset_password" /\ InFlight(r)
      /\ req[r].pc # "done" /\ Finish(r, 204)
  BY DEF sweep, revoke_sessions, At, InFlight
<1>2. ReqTypeOK /\ DbTypeOK /\ InFlightKnowsUser /\ RotationInv
  BY Types
<1>3. PICK u \in UserId : u = req[r].user
  BY <1>1, <1>2, Fields DEF InFlightKnowsUser
<1>4. /\ Revoke(TokensOf(u)) /\ Note(r, TokensOf(u))
      /\ survivors' = survivors \cup Minting(u)
  BY <1>3 DEF sweep, revoke_sessions, revoke_all_refresh_tokens
<1>5. /\ ReqTypeOK' /\ \A q \in Requests \ {r} : req'[q] = req[q]
      /\ req'[r].op = "reset_password" /\ req'[r].pc = "done" /\ req'[r].user = u
  BY <1>1, <1>2, <1>3, FinishEffect, StatusCodes
<1>6. RotationInv'
  <2>1. Frame(r) /\ \A t \in TokenId : SpenderInv(t)'
    <3>1. PICK S : S = TokensOf(u) /\ Revoke(S) /\ Note(r, S)
      BY <1>4
    <3> QED BY <1>2, <1>5, <3>1, RevokeFrame
  <2>2. refresh_tokens'[r] = NULL
    BY <1>1, <1>4, NotMinted DEF Revoke
  <2>3. RowInv(r)' /\ ClaimInv(r)' /\ HeirInv(r)'
    BY <1>5, <2>2, NothingClaimed
  <2>4. TypeInv'
    <3>1. refresh_tokens' \in [TokenId -> RefreshRow \cup {NULL}]
      BY <1>2, <1>4, RevokeType DEF DbTypeOK
    <3>2. DbTypeOK'
      BY <1>1, <1>2, <3>1 DEF DbTypeOK
    <3>3. spender' \in [TokenId -> Requests \cup {NULL}] /\ raced' \subseteq Requests
      BY <1>2, <1>4, NoteType DEF RotationInv, TypeInv, SessionTypeOK
    <3>4. InFlightKnowsUser'
      BY <1>2, <1>5 DEF InFlightKnowsUser, InFlight
    <3> QED BY <1>5, <3>2, <3>3, <3>4 DEF TypeInv, SessionTypeOK
  <2> QED BY <1>2, <2>1, <2>3, <2>4, OthersKeep DEF RotationInv
<1>7. ASSUME NEW t \in Requests, NEW v \in UserId, v # u, Explained(t, v), req'[t].phc = req[t].phc
      PROVE  Explained(t, v)'
  <2>1. \A q \in Requests : Resetting(q, v) => Resetting(q, v)'
    BY <1>3, <1>5, <1>7 DEF Resetting, Swept
  <2> QED BY <1>1, <1>4, <1>7, <2>1, ExplainedKeeps
<1>8. ASSUME NEW t \in Requests PROVE SaltInv(t)' /\ MintInv(t)' /\ LiveInv(t)'
  <2>1. SaltInv(t) /\ MintInv(t) /\ LiveInv(t)
    BY DEF RevocationInv
  <2>2. CASE t = r
    <3>1. refresh_tokens'[r] = NULL
      BY <1>1, <1>4, NotMinted DEF Revoke
    <3> QED BY <1>5, <2>2, <3>1, NoSession, NoMint, NoHash
  <2>3. CASE t # r
    <3>1. req'[t] = req[t] /\ (InFlight(t)' <=> InFlight(t))
      BY <1>5, <2>3 DEF InFlight
    <3>2. SaltInv(t)'
      BY <2>1, <3>1 DEF SaltInv
    <3>3. MintInv(t)'
      <4> SUFFICES ASSUME InFlight(t), req[t].op \notin {"forgot_password", "reset_password"}
                   PROVE  req[t].op \in {"login", "refresh"} /\ Explained(t, req[t].user)'
        BY <3>1 DEF MintInv
      <4>1. PICK v \in UserId : v = req[t].user
        BY <1>2, Fields DEF InFlightKnowsUser
      <4>2. req[t].op \in {"login", "refresh"} /\ Explained(t, v)
        BY <2>1, <4>1 DEF MintInv
      <4>3. CASE v = u
        <5>1. t \in survivors'
          BY <1>4, <4>1, <4>2, <4>3 DEF Minting
        <5> QED BY <4>2, <5>1 DEF Explained
      <4>4. CASE v # u
        <5>1. Explained(t, v)'
          BY <1>7, <3>1, <4>2, <4>4
        <5> QED BY <3>1, <4>1, <4>2, <5>1
      <4> QED BY <4>3, <4>4
    <3>4. LiveInv(t)'
      <4> SUFFICES ASSUME Live(t)' PROVE Explained(t, Owner(t))'
        BY DEF LiveInv
      <4>1. Live(t) /\ t \notin TokensOf(u) /\ refresh_tokens'[t].user_id = refresh_tokens[t].user_id
        BY <1>2, <1>4, RevokedDie
      <4>2. PICK v \in UserId : v = refresh_tokens[t].user_id
        BY <1>2, <4>1 DEF DbTypeOK, Live, RefreshRow
      <4>3. v # u /\ Explained(t, v)
        BY <2>1, <4>1, <4>2 DEF LiveInv, Owner, TokensOf, Live
      <4>4. Explained(t, v)'
        BY <1>7, <3>1, <4>3
      <4> QED BY <4>1, <4>2, <4>4 DEF Owner
    <3> QED BY <3>2, <3>3, <3>4
  <2> QED BY <2>2, <2>3
<1>9. TablesOK' /\ survivors' \subseteq Requests
  BY <1>1, <1>4 DEF RevocationInv, TablesOK, resetVars, Minting
<1> QED BY <1>6, <1>8, <1>9 DEF RevocationInv

-----------------------------------------------------------------------------
(* Theorems                                                                *)

\* Every step keeps the invariant.
LEMMA NextRevocation == RevocationInv /\ [RevocationNext]_revocationVars => RevocationInv'
<1> SUFFICES ASSUME RevocationInv, [RevocationNext]_revocationVars PROVE RevocationInv'
  OBVIOUS
<1>1. ASSUME [SessionNext]_sessionVars PROVE RotationInv'
  BY <1>1, NextRotation DEF RevocationInv
<1>2. CASE UNCHANGED revocationVars
  <2>1. RotationInv'
    BY <1>1, <1>2 DEF revocationVars, sessionVars
  <2>2. TablesOK'
    BY <1>2 DEF revocationVars, RevocationInv, TablesOK
  <2> QED BY <1>2, <2>1, <2>2, UnseenStep DEF revocationVars
<1>3. CASE Tick /\ UNCHANGED <<sessionHistory, resetVars, survivors>>
  <2>1. RotationInv'
    BY <1>1, <1>3 DEF SessionNext
  <2>2. TablesOK'
    BY <1>3 DEF RevocationInv, TablesOK, resetVars
  <2> QED BY <1>3, <2>1, <2>2, UnseenStep DEF Tick
<1>4. ASSUME NEW r \in Requests, RevocationStep(r) PROVE RevocationInv'
  <2>1. ASSUME SessionStep(r) PROVE RotationInv'
    BY <1>1, <2>1 DEF SessionNext
  <2>2. CASE Session(login(r))
    BY <2>1, <2>2, LoginStep DEF Session, SessionStep
  <2>3. CASE refresh_survivor(r)
    BY <2>1, <2>3, RefreshStep DEF refresh_survivor, SessionStep
  <2>4. CASE Session(logout(r))
    BY <2>1, <2>4, LogoutStep DEF Session, SessionStep
  <2>5. CASE Session(SessionContinue(r))
    BY <2>1, <2>5, ContinueStep DEF Session, SessionStep
  <2>6. CASE Abort(r) /\ UNCHANGED <<sessionHistory, resetVars, survivors>>
    BY <2>1, <2>6, AbortStep DEF SessionStep
  <2>7. CASE \/ Recovery(forgot_password(r)) \/ Recovery(store_reset_token(r))
             \/ Recovery(send_password_reset_email(r))
             \/ Recovery(reset_password_rejects(r)) \/ Recovery(reset_password(r))
             \/ Recovery(update_password(r)) \/ sweep(r)
    BY <2>7, ForgotStep, StoreResetTokenStep, MailStep, ResetStepKeeps, UpdatePasswordStep,
       SweepStep
  <2> QED BY <1>4, <2>2, <2>3, <2>4, <2>5, <2>6, <2>7 DEF RevocationStep, Continue
<1> QED BY <1>2, <1>3, <1>4 DEF RevocationNext

\* The invariant holds in every reachable state.
THEOREM RevocationInvariant == RevocationSpec => []RevocationInv
BY InitRevocation, NextRevocation, PTL DEF RevocationSpec

\* The tables, the activation records and the history have their types.
THEOREM RevocationTypeCorrect == RevocationSpec => []RevocationTypeOK
<1>1. RevocationInv => RevocationTypeOK
  BY DEF RevocationInv, RotationInv, TypeInv, SessionTypeOK, TablesOK, RevocationTypeOK, ResetTypeOK
<1> QED BY <1>1, RevocationInvariant, PTL

\* Resets that sweep sessions change nothing about who succeeds a token: the
\* request that spent it, or one that raced with that.
THEOREM OneHeirDespiteResets == RevocationSpec => []OneHeir
<1>1. RevocationInv => OneHeir
  BY DEF RevocationInv, RotationInv, OneHeir, Succeeded, HeirInv, PastRevoke, Claiming, RowInv
<1> QED BY <1>1, RevocationInvariant, PTL

\* A session of an older password is alive only before the sweep of the reset
\* that replaced it, or because a step of its own straddled a sweep.
THEOREM StaleSessionsAreExplained == RevocationSpec => []StaleSessionsExplained
<1>1. RevocationInv => StaleSessionsExplained
  BY DEF RevocationInv, StaleSessionsExplained, Stale, LiveInv, Explained, CurrentHash, Resetting
<1> QED BY <1>1, RevocationInvariant, PTL

-----------------------------------------------------------------------------
(* The composition implements TokenRotation                                *)

\* A request of recovery is no refresh, before its first statement or after.
LEMMA RecoveryRequest ==
    ASSUME ReqTypeOK, IdleInv, NEW r \in Requests,
           \/ forgot_password(r) \/ store_reset_token(r)
           \/ reset_password_rejects(r) \/ reset_password(r)
           \/ update_password(r) \/ revoke_sessions(r)
    PROVE  IdleInv' /\ ClaimedToken' = ClaimedToken
<1>1. ASSUME \A q \in Requests \ {r} : req'[q] = req[q],
             req[r].op # "refresh", req'[r].op # "refresh", req'[r].pc # "idle"
      PROVE  IdleInv' /\ ClaimedToken' = ClaimedToken
  BY <1>1, ClaimKept DEF IdleInv
<1>2. ASSUME NEW op \in {"forgot_password", "reset_password"}, NEW code, Reject(r, op, code)
      PROVE  IdleInv' /\ ClaimedToken' = ClaimedToken
  <2>1. /\ \A q \in Requests \ {r} : req'[q] = req[q]
        /\ req[r].op = "none" /\ req'[r].op = op /\ req'[r].pc = "done"
    BY <1>2 DEF Reject, Answered, ReqTypeOK, IdleInv
  <2> QED BY <1>1, <2>1
<1>3. ASSUME NEW op \in {"forgot_password", "reset_password"}, NEW next, next # "idle",
             NEW u, NEW t, NEW h, Enter(r, op, next, u, t, h)
      PROVE  IdleInv' /\ ClaimedToken' = ClaimedToken
  <2>1. /\ \A q \in Requests \ {r} : req'[q] = req[q]
        /\ req[r].op = "none" /\ req'[r].op = op /\ req'[r].pc = next
    BY <1>3 DEF Enter, ReqTypeOK, IdleInv
  <2> QED BY <1>1, <1>3, <2>1
<1>4. ASSUME req[r].op \in {"forgot_password", "reset_password"},
             \A q \in Requests \ {r} : req'[q] = req[q],
             req'[r].op = req[r].op, req'[r].pc # "idle"
      PROVE  IdleInv' /\ ClaimedToken' = ClaimedToken
  BY <1>1, <1>4
<1>5. ASSUME req[r].op \in {"forgot_password", "reset_password"}, Finish(r, 204)
      PROVE  IdleInv' /\ ClaimedToken' = ClaimedToken
  BY <1>4, <1>5, FinishEffect, StatusCodes
<1>6. CASE forgot_password(r)
  BY <1>2, <1>3, <1>6 DEF forgot_password
<1>7. CASE store_reset_token(r)
  BY <1>5, <1>7 DEF store_reset_token, At
<1>8. CASE reset_password_rejects(r)
  BY <1>2, <1>8 DEF reset_password_rejects
<1>9. CASE reset_password(r)
  BY <1>3, <1>9 DEF reset_password
<1>10. CASE update_password(r)
  <2>1. "revoke_all_refresh_tokens" \in Pc
    BY DEF Pc
  <2> QED BY <1>4, <1>10, <2>1, ProceedEffect DEF update_password, At
<1>11. CASE revoke_sessions(r)
  BY <1>5, <1>11 DEF revoke_sessions, At
<1> QED BY <1>6, <1>7, <1>8, <1>9, <1>10, <1>11

\* The sweep of a reset kills the tokens of its account that live.
LEMMA SweepKills ==
    ASSUME RevocationInv, IdleInv, NEW r \in Requests, sweep(r)
    PROVE  IdleInv' /\ Rotation!Next
<1> DEFINE S == TokensOf(req[r].user)
           T == {t \in TokenId : t \in S /\ Life[t] = "alive"}
<1>1. ReqTypeOK /\ DbTypeOK
  BY Types
<1>2. revoke_sessions(r) /\ Revoke(S) /\ now' = now
  BY DEF sweep, revoke_sessions, revoke_all_refresh_tokens
<1>3. IdleInv' /\ ClaimedToken' = ClaimedToken
  BY <1>1, <1>2, RecoveryRequest
<1>4. Life' = [t \in TokenId |-> IF t \in T THEN "dead" ELSE Life[t]]
  <2> HIDE DEF S
  <2> QED BY <1>1, <1>2, RevokeKills
<1>5. T \in SUBSET Rotation!Living
  BY DEF Rotation!Living
<1>6. Rotation!Kill(T)
  BY <1>3, <1>4 DEF Rotation!Kill
<1> QED BY <1>3, <1>5, <1>6 DEF Rotation!Next

\* Every step of sessions and recovery is a step of TokenRotation or none.
LEMMA RevocationRefines ==
    ASSUME RevocationInv, IdleInv, [RevocationNext]_revocationVars
    PROVE  IdleInv' /\ [Rotation!Next]_<<Life, ClaimedToken>>
<1>1. ReqTypeOK /\ DbTypeOK /\ RotationInv /\ TypeInv
  BY Types DEF RotationInv
<1>2. ASSUME [SessionNext]_sessionVars
      PROVE  IdleInv' /\ [Rotation!Next]_<<Life, ClaimedToken>>
  BY <1>1, <1>2, NextIdle, StepRefines
<1>3. CASE UNCHANGED revocationVars
  <2>1. UNCHANGED sessionVars
    BY <1>3 DEF revocationVars, sessionVars
  <2> QED BY <1>2, <2>1
<1>4. CASE Tick /\ UNCHANGED <<sessionHistory, resetVars, survivors>>
  BY <1>2, <1>4 DEF SessionNext
<1>5. ASSUME NEW r \in Requests, RevocationStep(r)
      PROVE  IdleInv' /\ [Rotation!Next]_<<Life, ClaimedToken>>
  <2>1. ASSUME SessionStep(r)
        PROVE  IdleInv' /\ [Rotation!Next]_<<Life, ClaimedToken>>
    BY <1>2, <2>1 DEF SessionNext
  <2>2. CASE \/ Session(login(r)) \/ refresh_survivor(r) \/ Session(logout(r))
             \/ Session(SessionContinue(r))
             \/ Abort(r) /\ UNCHANGED <<sessionHistory, resetVars, survivors>>
    BY <2>1, <2>2 DEF Session, refresh_survivor, SessionStep
  <2>3. CASE \/ Recovery(forgot_password(r)) \/ Recovery(store_reset_token(r))
             \/ Recovery(reset_password_rejects(r)) \/ Recovery(reset_password(r))
             \/ Recovery(update_password(r))
    <3>1. IdleInv' /\ ClaimedToken' = ClaimedToken
      BY <1>1, <2>3, RecoveryRequest DEF Recovery
    <3>2. UNCHANGED <<refresh_tokens, now>>
      BY <2>3 DEF Recovery, forgot_password, store_reset_token, reset_password_rejects,
                  reset_password, update_password, dbVars
    <3> QED BY <3>1, <3>2, LifeKept
  <2>4. CASE Recovery(send_password_reset_email(r))
    <3>1. UNCHANGED sessionVars
      BY <2>4 DEF Recovery, send_password_reset_email, dbVars, sessionHistory, sessionVars
    <3> QED BY <1>2, <3>1
  <2>5. CASE sweep(r)
    BY <2>5, SweepKills
  <2> QED BY <1>5, <2>2, <2>3, <2>4, <2>5 DEF RevocationStep, Continue
<1> QED BY <1>3, <1>4, <1>5 DEF RevocationNext

\* With recovery beside them refresh tokens still keep the promises of
\* TokenRotation: a reset's sweep is one more way to die.
THEOREM RevocationImplementsRotation == RevocationSpec => RotationRefined
<1>1. RevocationInit => IdleInv /\ Rotation!Init
  <2> SUFFICES ASSUME RevocationInit PROVE IdleInv /\ Rotation!Init
    OBVIOUS
  <2>1. \A r \in Requests : req[r].op = "none"
    BY DEF RevocationInit, SessionInit, ReqInit, Idle
  <2> QED BY <2>1 DEF RevocationInit, SessionInit, DbInit, IdleInv, Rotation!Init, Life,
                      ClaimedToken
<1>2. RevocationInv /\ IdleInv /\ [RevocationNext]_revocationVars
        => IdleInv' /\ [Rotation!Next]_<<Life, ClaimedToken>>
  BY RevocationRefines
<1> QED BY <1>1, <1>2, RevocationInvariant, PTL
        DEF RevocationSpec, RotationRefined, Rotation!Spec, Rotation!rotationVars

=============================================================================
