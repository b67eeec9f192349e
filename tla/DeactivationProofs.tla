------------------------- MODULE DeactivationProofs --------------------------
(***************************************************************************)
(* Proofs about Deactivation: sessions, access tokens, Google sign-in and  *)
(* set_active interleaved, for every set of requests, accounts, acts and   *)
(* subjects, every seed and every bound.                                   *)
(***************************************************************************)
EXTENDS Deactivation, HandlerProofs

USE DEF TokenId

-----------------------------------------------------------------------------
(* The inductive invariant                                                 *)

\* The handlers that end with a refresh token, and those of the admin routes.
MintOp == {"login", "refresh", "google_callback"}
AdminOp == {"list_users", "set_role", "set_active", "grant_permission"}

\* The tables, the activation records and the history have their types.
TypesOK ==
    /\ DbTypeOK /\ ReqTypeOK /\ DeactivationTypeOK
    /\ profile \in [Requests -> Profile \cup {NULL}]
    /\ act \in [Requests -> Act \cup {NULL}]

\* A request that has not arrived has no handler; one with a token is over.
ArrivalInv(r) ==
    /\ req[r].pc = "idle" => req[r].op = "none"
    /\ refresh_tokens[r] # NULL => req[r].pc = "done"

\* A handler that will mint knows for whom, but for a callback that is about to
\* create the account and knows the profile.
KnowsUserInv(r) ==
    InFlight(r) /\ req[r].op \in MintOp =>
        /\ req[r].pc # "create_user" => req[r].user # NULL
        /\ req[r].pc = "create_user" => profile[r] # NULL

\* A handler of an admin route knows what it was asked for.
AskedInv(r) ==
    /\ InFlight(r) /\ req[r].op \in AdminOp => act[r] # NULL /\ act[r].op = req[r].op
    /\ req[r].pc = "permissions_for" => req[r].op \in AdminOp

\* The accounts named after requests are those that callbacks have created.
CreatedInv(r) ==
    users[r] # NULL => req[r].op = "google_callback" /\ req[r].pc \notin {"idle", "create_user"}

\* A handler that will mint for a disabled account lingers.
MintInv(r) ==
    InFlight(r) /\ req[r].op \in MintOp /\ req[r].user # NULL /\ Disabled(req[r].user) =>
        r \in lingering

RequestInv(r) ==
    ArrivalInv(r) /\ KnowsUserInv(r) /\ AskedInv(r) /\ CreatedInv(r) /\ MintInv(r)

\* A session of a disabled account lingers.
LiveInv(t) == Rotatable(t) /\ Disabled(refresh_tokens[t].user_id) => t \in lingering

\* An access token was minted with a refresh token for the same account, and
\* that no more than a lifetime ago; if the account is disabled, it lingers or
\* was minted before that.
AccessInv(t) ==
    access[t] # NULL =>
        /\ refresh_tokens[t] # NULL /\ refresh_tokens[t].user_id = access[t].sub
        /\ access[t].exp <= now + AccessTtl
        /\ Disabled(access[t].sub) =>
             t \in lingering \/ access[t].exp <= disabled_at[access[t].sub] + AccessTtl

\* The history knows since when an account is disabled.
AccountInv(u) ==
    /\ Disabled(u) => disabled_at[u] \in Nat
    /\ ~ Disabled(u) => disabled_at[u] = NULL

DeactivationInv ==
    /\ TypesOK
    /\ \A r \in Requests : RequestInv(r) /\ LiveInv(r) /\ AccessInv(r)
    /\ \A u \in UserId : AccountInv(u)

-----------------------------------------------------------------------------
(* The initial state                                                       *)

\* There are neither sessions nor requests.
LEMMA InitDeactivation == DeactivationInit => DeactivationInv
<1> SUFFICES ASSUME DeactivationInit PROVE DeactivationInv
  OBVIOUS
<1> USE DEF DeactivationInit, SessionInit, DbInit, ReqInit, AccessInit, GoogleTablesInit
<1>1. DbTypeOK
  BY SeedAssumption DEF DbTypeOK, UserId
<1>2. ReqTypeOK
  BY DEF ReqTypeOK, Request, Idle, Op, Pc, Status
<1>3. \A u \in UserId : /\ disabled_at[u] = IF Disabled(u) THEN 0 ELSE NULL
                        /\ AccountInv(u)
  BY DEF AccountInv
<1>4. TypesOK
  BY <1>1, <1>2, <1>3 DEF TypesOK, DeactivationTypeOK, AccessTypeOK
<1>5. \A r \in Requests : /\ req[r].pc = "idle" /\ req[r].op = "none" /\ users[r] = NULL
                          /\ refresh_tokens[r] = NULL /\ access[r] = NULL
  BY FreshAssumption DEF Idle, UserId
<1>6. \A r \in Requests : RequestInv(r)
  BY <1>5 DEF RequestInv, ArrivalInv, KnowsUserInv, AskedInv, CreatedInv, MintInv, InFlight
<1>7. \A r \in Requests : LiveInv(r) /\ AccessInv(r)
  BY <1>5 DEF LiveInv, AccessInv, Rotatable, Live
<1> QED BY <1>3, <1>4, <1>6, <1>7 DEF DeactivationInv

-----------------------------------------------------------------------------
(* What a step of request r leaves alone                                   *)

\* It changes no other activation record, profile or wish; it disables and
\* enables no account; it makes no account and no token but r's and brings no
\* session back; what lingers does so still.
Frame(r) ==
    /\ \A q \in Requests \ {r} : req'[q] = req[q] /\ profile'[q] = profile[q] /\ act'[q] = act[q]
    /\ \A u \in UserId : Disabled(u)' <=> Disabled(u)
    /\ \A q \in Requests \ {r} : users'[q] # NULL => users[q] # NULL
    /\ \A t \in Requests \ {r} :
         /\ refresh_tokens'[t] # NULL <=> refresh_tokens[t] # NULL
         /\ refresh_tokens'[t].user_id = refresh_tokens[t].user_id
         /\ Rotatable(t)' => Rotatable(t)
         /\ access'[t] = access[t]
    /\ now' = now /\ disabled_at' = disabled_at /\ lingering \subseteq lingering'

\* The accounts that requests work for are ids, and so are the owners of tokens.
LEMMA Ids ==
    ASSUME TypesOK, NEW r \in Requests
    PROVE  /\ req[r].user # NULL => req[r].user \in UserId
           /\ refresh_tokens[r] # NULL => refresh_tokens[r] \in RefreshRow /\ refresh_tokens[r].user_id \in UserId
           /\ access[r] # NULL => access[r].sub \in UserId /\ access[r].exp \in Nat
<1>1. ReqTypeOK /\ DbTypeOK /\ AccessTypeOK
  BY DEF TypesOK, DeactivationTypeOK
<1>2. refresh_tokens[r] # NULL => refresh_tokens[r] \in RefreshRow
  BY <1>1 DEF DbTypeOK
<1>3. access[r] # NULL => access[r] \in Claims
  BY <1>1 DEF AccessTypeOK
<1> QED BY <1>1, <1>2, <1>3, Fields DEF RefreshRow, Claims

\* A token that is not brought back keeps its part of the invariant.
LEMMA TokenKeeps ==
    ASSUME DeactivationInv, NEW r \in Requests, Frame(r), NEW q \in Requests,
           refresh_tokens'[q] # NULL <=> refresh_tokens[q] # NULL,
           refresh_tokens'[q].user_id = refresh_tokens[q].user_id,
           Rotatable(q)' => Rotatable(q), access'[q] = access[q]
    PROVE  LiveInv(q)' /\ AccessInv(q)'
<1>1. LiveInv(q) /\ AccessInv(q) /\ TypesOK
  BY DEF DeactivationInv
<1>2. /\ now' = now /\ disabled_at' = disabled_at /\ lingering \subseteq lingering'
      /\ \A u \in UserId : Disabled(u)' <=> Disabled(u)
  BY DEF Frame
<1>3. LiveInv(q)'
  <2> SUFFICES ASSUME Rotatable(q)', Disabled(refresh_tokens[q].user_id)' PROVE q \in lingering'
    BY DEF LiveInv
  <2>1. PICK u \in UserId : u = refresh_tokens[q].user_id
    BY <1>1, Ids DEF Rotatable, Live
  <2>2. Disabled(u)'
    BY <2>1 DEF Disabled
  <2> QED BY <1>1, <1>2, <2>1, <2>2 DEF LiveInv
<1>4. AccessInv(q)'
  <2> SUFFICES ASSUME access[q] # NULL PROVE AccessInv(q)'
    BY DEF AccessInv
  <2>1. PICK u \in UserId : u = access[q].sub
    BY <1>1, Ids
  <2>2. Disabled(access[q].sub)' <=> Disabled(u)'
    BY <2>1 DEF Disabled
  <2> QED BY <1>1, <1>2, <2>1, <2>2 DEF AccessInv
<1> QED BY <1>3, <1>4

\* A step with this frame keeps the invariant of every other request and token.
LEMMA OthersKeep ==
    ASSUME DeactivationInv, NEW r \in Requests, Frame(r), NEW q \in Requests, q # r
    PROVE  RequestInv(q)' /\ LiveInv(q)' /\ AccessInv(q)'
<1>1. /\ req'[q] = req[q] /\ profile'[q] = profile[q] /\ act'[q] = act[q]
      /\ users'[q] # NULL => users[q] # NULL
      /\ refresh_tokens'[q] # NULL <=> refresh_tokens[q] # NULL
      /\ refresh_tokens'[q].user_id = refresh_tokens[q].user_id
      /\ Rotatable(q)' => Rotatable(q)
      /\ access'[q] = access[q]
      /\ lingering \subseteq lingering'
      /\ InFlight(q)' <=> InFlight(q)
  BY DEF Frame, InFlight
<1>2. RequestInv(q) /\ TypesOK
  BY DEF DeactivationInv
<1>3. ArrivalInv(q)' /\ KnowsUserInv(q)' /\ AskedInv(q)' /\ CreatedInv(q)'
  BY <1>1, <1>2 DEF RequestInv, ArrivalInv, KnowsUserInv, AskedInv, CreatedInv
<1>4. MintInv(q)'
  <2> SUFFICES ASSUME InFlight(q), req[q].op \in MintOp, req[q].user # NULL, Disabled(req[q].user)'
               PROVE  q \in lingering'
    BY <1>1 DEF MintInv
  <2>1. PICK u \in UserId : u = req[q].user
    BY <1>2, Ids
  <2>2. Disabled(u)' /\ (Disabled(u)' <=> Disabled(u))
    BY <1>1, <2>1 DEF Disabled, Frame
  <2> QED BY <1>1, <1>2, <2>1, <2>2 DEF RequestInv, MintInv
<1>5. LiveInv(q)' /\ AccessInv(q)'
  BY <1>1, TokenKeeps
<1> QED BY <1>3, <1>4, <1>5 DEF RequestInv

\* Request r is served as the bearer of an access token.
Served(r) == req[r].pc = "idle" /\ req'[r].op = "me" /\ req'[r].token # NULL

\* Only the bearers of tokens that are verified are.
ServesVerified ==
    \A r \in Requests : Served(r) => req'[r].token \in TokenId /\ verified(req'[r].token)

\* What is left to show of such a step: its types, its request and its token.
LEMMA StepKeeps ==
    ASSUME DeactivationInv, NEW r \in Requests, Frame(r), TypesOK',
           RequestInv(r)', LiveInv(r)', AccessInv(r)',
           Served(r) => req'[r].token \in TokenId /\ verified(req'[r].token)
    PROVE  DeactivationInv' /\ ServesVerified
<1>1. ASSUME NEW q \in Requests PROVE RequestInv(q)' /\ LiveInv(q)' /\ AccessInv(q)'
  BY OthersKeep
<1>2. ASSUME NEW u \in UserId PROVE AccountInv(u)'
  <2>1. /\ AccountInv(u) /\ (Disabled(u)' <=> Disabled(u))
        /\ disabled_at' = disabled_at
    BY DEF DeactivationInv, Frame
  <2> QED BY <2>1 DEF AccountInv
<1>3. ServesVerified
  <2>1. ASSUME NEW q \in Requests, q # r PROVE ~ Served(q)
    <3>1. req'[q] = req[q] /\ ArrivalInv(q)
      BY <2>1 DEF Frame, DeactivationInv, RequestInv
    <3> QED BY <3>1 DEF Served, ArrivalInv
  <2> QED BY <2>1 DEF ServesVerified
<1> QED BY <1>1, <1>2, <1>3 DEF DeactivationInv

\* A step that mints nothing and touches no account.
Aside(r) ==
    /\ UNCHANGED <<users, now, access, disabled_at>>
    /\ lingering \subseteq lingering' /\ lingering' \subseteq Requests
    /\ refresh_tokens' \in [TokenId -> RefreshRow \cup {NULL}]
    /\ \A t \in Requests : /\ refresh_tokens'[t] # NULL <=> refresh_tokens[t] # NULL
                           /\ refresh_tokens'[t].user_id = refresh_tokens[t].user_id
                           /\ Rotatable(t)' => Rotatable(t)
    /\ \A q \in Requests \ {r} : req'[q] = req[q] /\ profile'[q] = profile[q] /\ act'[q] = act[q]
    /\ ReqTypeOK'
    /\ profile' \in [Requests -> Profile \cup {NULL}] /\ act' \in [Requests -> Act \cup {NULL}]

\* What is left to show of such a step: its request.
LEMMA AsideKeeps ==
    ASSUME DeactivationInv, NEW r \in Requests, Aside(r), RequestInv(r)',
           Served(r) => req'[r].token \in TokenId /\ verified(req'[r].token)
    PROVE  DeactivationInv' /\ ServesVerified
<1>1. Frame(r)
  BY DEF Frame, Aside, Disabled
<1>2. TypesOK'
  <2>1. TypesOK
    BY DEF DeactivationInv
  <2>2. DbTypeOK'
    BY <2>1 DEF TypesOK, DbTypeOK, Aside
  <2> QED BY <2>1, <2>2 DEF Aside, TypesOK, DeactivationTypeOK, AccessTypeOK
<1>3. LiveInv(r)' /\ AccessInv(r)'
  BY <1>1, TokenKeeps DEF Aside
<1> QED BY <1>1, <1>2, <1>3, StepKeeps

\* A step that touches no table at all.
LEMMA QuietAside ==
    ASSUME DeactivationInv, NEW r \in Requests, UNCHANGED <<dbVars, access, disabled_at>>,
           lingering \subseteq lingering', lingering' \subseteq Requests, ReqTypeOK',
           \A q \in Requests \ {r} : req'[q] = req[q] /\ profile'[q] = profile[q] /\ act'[q] = act[q],
           profile' \in [Requests -> Profile \cup {NULL}], act' \in [Requests -> Act \cup {NULL}]
    PROVE  Aside(r)
<1>1. UNCHANGED <<users, refresh_tokens, now>>
  BY DEF dbVars
<1> QED BY <1>1 DEF Aside, Rotatable, Live, DeactivationInv, TypesOK, DbTypeOK

\* So does one that touches nothing but activation records.
LEMMA RecordAside ==
    ASSUME DeactivationInv, NEW r \in Requests,
           UNCHANGED <<dbVars, access, profile, act, deactivationHistory>>, ReqTypeOK',
           \A q \in Requests \ {r} : req'[q] = req[q]
    PROVE  Aside(r)
BY QuietAside DEF DeactivationInv, TypesOK, DeactivationTypeOK, deactivationHistory

\* And one that revokes tokens besides.
LEMMA RevokingAside ==
    ASSUME DeactivationInv, NEW r \in Requests, NEW S, Revoke(S),
           UNCHANGED <<users, now, access, profile, act, deactivationHistory>>, ReqTypeOK',
           \A q \in Requests \ {r} : req'[q] = req[q]
    PROVE  Aside(r)
<1>1. /\ refresh_tokens \in [TokenId -> RefreshRow \cup {NULL}] /\ lingering \subseteq Requests
      /\ profile \in [Requests -> Profile \cup {NULL}] /\ act \in [Requests -> Act \cup {NULL}]
  BY DEF DeactivationInv, TypesOK, DbTypeOK, DeactivationTypeOK
<1>2. refresh_tokens' \in [TokenId -> RefreshRow \cup {NULL}]
  BY <1>1, RevokeType
<1>3. ASSUME NEW t \in Requests
      PROVE  /\ refresh_tokens'[t] # NULL <=> refresh_tokens[t] # NULL
             /\ refresh_tokens'[t].user_id = refresh_tokens[t].user_id
             /\ Rotatable(t)' => Rotatable(t)
  <2>1. refresh_tokens'[t] = IF t \in S /\ refresh_tokens[t] # NULL
                             THEN [refresh_tokens[t] EXCEPT !.revoked = TRUE]
                             ELSE refresh_tokens[t]
    BY DEF Revoke
  <2>2. CASE t \in S /\ refresh_tokens[t] # NULL
    <3>1. refresh_tokens[t] \in RefreshRow
      BY <1>1, <2>2
    <3>2. /\ refresh_tokens'[t].revoked = TRUE /\ refresh_tokens'[t] \in RefreshRow
          /\ refresh_tokens'[t].user_id = refresh_tokens[t].user_id
      BY <2>1, <2>2, <3>1 DEF RefreshRow
    <3> QED BY <2>2, <3>2, RowsExist DEF Rotatable, Live
  <2>3. CASE ~(t \in S /\ refresh_tokens[t] # NULL)
    <3>1. refresh_tokens'[t] = refresh_tokens[t]
      BY <2>1, <2>3
    <3> QED BY <3>1 DEF Rotatable, Live
  <2> QED BY <2>2, <2>3
<1> QED BY <1>1, <1>2, <1>3 DEF Aside, deactivationHistory

\* A request that arrives has neither account nor token.
LEMMA Arriving ==
    ASSUME DeactivationInv, NEW r \in Requests, req[r].pc = "idle"
    PROVE  users[r] = NULL /\ refresh_tokens[r] = NULL /\ req[r].op = "none"
BY DEF DeactivationInv, RequestInv, ArrivalInv, CreatedInv

\* A request that arrives.
LEMMA StartKeeps ==
    ASSUME DeactivationInv, NEW r \in Requests, req[r].pc = "idle", Aside(r),
           req'[r].pc # "idle", KnowsUserInv(r)', AskedInv(r)', MintInv(r)',
           Served(r) => req'[r].token \in TokenId /\ verified(req'[r].token)
    PROVE  DeactivationInv' /\ ServesVerified
<1>1. users'[r] = NULL /\ refresh_tokens'[r] = NULL
  BY Arriving DEF Aside
<1>2. RequestInv(r)'
  BY <1>1 DEF RequestInv, ArrivalInv, CreatedInv
<1> QED BY <1>2, AsideKeeps

\* A request that arrives and is answered at once.
LEMMA AnswerKeeps ==
    ASSUME DeactivationInv, NEW r \in Requests, req[r].pc = "idle", Aside(r), req'[r].pc = "done",
           Served(r) => req'[r].token \in TokenId /\ verified(req'[r].token)
    PROVE  DeactivationInv' /\ ServesVerified
<1>1. KnowsUserInv(r)' /\ AskedInv(r)' /\ MintInv(r)'
  BY DEF KnowsUserInv, AskedInv, MintInv, InFlight
<1> QED BY <1>1, StartKeeps

\* A handler that goes on for the account it had, or stops.
LEMMA ContinueKeeps ==
    ASSUME DeactivationInv, NEW r \in Requests, InFlight(r), Aside(r), act'[r] = act[r],
           req'[r].op = req[r].op, req'[r].user = req[r].user,
           req'[r].pc \notin {"idle", "create_user", "permissions_for"},
           req'[r].pc = "done" \/ req[r].pc # "create_user"
    PROVE  DeactivationInv' /\ ServesVerified
<1>1. RequestInv(r) /\ users' = users /\ lingering \subseteq lingering' /\ TypesOK
  BY DEF DeactivationInv, Aside
<1>2. refresh_tokens'[r] = NULL
  BY <1>1 DEF RequestInv, ArrivalInv, InFlight, Aside
<1>3. ArrivalInv(r)' /\ CreatedInv(r)'
  BY <1>1, <1>2 DEF RequestInv, ArrivalInv, CreatedInv
<1>4. KnowsUserInv(r)' /\ AskedInv(r)'
  BY <1>1 DEF RequestInv, KnowsUserInv, AskedInv, InFlight
<1>5. MintInv(r)'
  BY <1>1 DEF RequestInv, MintInv, InFlight, Disabled
<1>6. ~ Served(r)
  BY DEF Served, InFlight
<1> QED BY <1>3, <1>4, <1>5, <1>6, AsideKeeps DEF RequestInv

-----------------------------------------------------------------------------
(* The steps of sessions                                                   *)

\* The types, one by one.
LEMMA Types ==
    ASSUME DeactivationInv
    PROVE  /\ ReqTypeOK /\ DbTypeOK /\ lingering \subseteq Requests
           /\ users \in [UserId -> UserRow \cup {NULL}]
           /\ profile \in [Requests -> Profile \cup {NULL}]
           /\ act \in [Requests -> Act \cup {NULL}]
BY DEF DeactivationInv, TypesOK, DeactivationTypeOK, DbTypeOK

\* login
LEMMA LoginStep ==
    ASSUME DeactivationInv, NEW r \in Requests, Session(login(r)), UNCHANGED deactivationHistory
    PROVE  DeactivationInv' /\ ServesVerified
<1>1. /\ UNCHANGED <<dbVars, access, profile, act, deactivationHistory>>
      /\ users' = users
  BY DEF Session, login, adminVars, googleVars, dbVars
<1>2. ReqTypeOK /\ DbTypeOK /\ "login" \in Op /\ "store_refresh_token" \in Pc
  BY Types DEF Op, Pc
<1>3. CASE \E code \in {into_response.Auth, into_response.Forbidden} : Reject(r, "login", code)
  <2>1. PICK code \in Status : Reject(r, "login", code)
    BY <1>3, ErrorStatus
  <2>2. /\ ReqTypeOK' /\ req[r].pc = "idle" /\ \A q \in Requests \ {r} : req'[q] = req[q]
        /\ req'[r].op = "login" /\ req'[r].pc = "done"
    BY <1>2, <2>1, RejectEffect
  <2>3. Aside(r) /\ ~ Served(r)
    BY <1>1, <2>2, RecordAside DEF Served
  <2> QED BY <2>2, <2>3, AnswerKeeps
<1>4. ASSUME NEW u \in UserId, users[u] # NULL, users[u].is_active,
             Enter(r, "login", "store_refresh_token", u, NULL, users[u].password_hash)
      PROVE  DeactivationInv' /\ ServesVerified
  <2>1. PICK h \in Phc \cup {NULL} : h = users[u].password_hash
    BY <1>2, <1>4 DEF DbTypeOK, UserRow
  <2>2. /\ ReqTypeOK' /\ req[r].pc = "idle" /\ \A q \in Requests \ {r} : req'[q] = req[q]
        /\ req'[r].op = "login" /\ req'[r].pc = "store_refresh_token" /\ req'[r].user = u
    <3>1. /\ ReqTypeOK /\ "login" \in Op /\ "store_refresh_token" \in Pc
          /\ Enter(r, "login", "store_refresh_token", u, NULL, h)
      BY <1>2, <1>4, <2>1
    <3> QED BY <3>1, EnterEffect
  <2>3. Aside(r) /\ ~ Served(r)
    BY <1>1, <2>2, RecordAside DEF Served
  <2>4. KnowsUserInv(r)' /\ AskedInv(r)'
    BY <2>2, RowsExist DEF KnowsUserInv, AskedInv, AdminOp
  <2>5. MintInv(r)'
    BY <1>1, <1>4, <2>2 DEF MintInv, Disabled
  <2> QED BY <2>2, <2>3, <2>4, <2>5, StartKeeps
<1>5. PICK e \in Emails, p \in Passwords :
        \/ \E code \in {into_response.Auth, into_response.Forbidden} : Reject(r, "login", code)
        \/ \E u \in UserId :
             /\ Authenticates(u, e, p) /\ users[u].is_active
             /\ Enter(r, "login", "store_refresh_token", u, NULL, users[u].password_hash)
  BY DEF Session, login
<1> QED BY <1>3, <1>4, <1>5 DEF Authenticates, found_by_email

\* logout
LEMMA LogoutStep ==
    ASSUME DeactivationInv, NEW r \in Requests, Session(logout(r)), UNCHANGED deactivationHistory
    PROVE  DeactivationInv' /\ ServesVerified
<1>1. /\ UNCHANGED <<users, now, access, profile, act, deactivationHistory>>
      /\ req[r].pc = "idle"
  BY DEF Session, logout, adminVars, googleVars
<1>2. PICK t \in TokenId \cup {NULL}, s \in {204, 0} :
        revoke_refresh_token(t) /\ req' = [req EXCEPT ![r] = Answered("logout", t, s)]
  BY DEF Session, logout, Delivered
<1>3. ReqTypeOK /\ "logout" \in Op /\ s \in Status
  BY Types, StatusCodes DEF Op
<1>4. /\ ReqTypeOK' /\ \A q \in Requests \ {r} : req'[q] = req[q]
      /\ req'[r].op = "logout" /\ req'[r].pc = "done"
  BY <1>2, <1>3, AnsweredEffect
<1>5. Aside(r) /\ ~ Served(r)
  <2>1. PICK S : Revoke(S)
    BY <1>2 DEF revoke_refresh_token
  <2> QED BY <1>1, <1>4, <2>1, RevokingAside DEF Served
<1> QED BY <1>1, <1>4, <1>5, AnswerKeeps

\* refresh
LEMMA RefreshStep ==
    ASSUME DeactivationInv, NEW r \in Requests, refresh_lingering(r)
    PROVE  DeactivationInv' /\ ServesVerified
<1>1. /\ UNCHANGED <<dbVars, access, profile, act, disabled_at>>
      /\ UNCHANGED <<users, refresh_tokens, now>>
  BY DEF refresh_lingering, Session, refresh, adminVars, googleVars, dbVars
<1>2. /\ ReqTypeOK /\ DbTypeOK /\ lingering \subseteq Requests
      /\ "refresh" \in Op /\ "revoke_refresh_token" \in Pc
      /\ profile' \in [Requests -> Profile \cup {NULL}] /\ act' \in [Requests -> Act \cup {NULL}]
  BY <1>1, Types DEF Op, Pc
<1>3. lingering \subseteq lingering' /\ lingering' \subseteq Requests
  BY <1>2 DEF refresh_lingering
<1>4. CASE Reject(r, "refresh", into_response.Unauthorized)
  <2>1. /\ ReqTypeOK' /\ req[r].pc = "idle" /\ \A q \in Requests \ {r} : req'[q] = req[q]
        /\ req'[r].op = "refresh" /\ req'[r].pc = "done"
    BY <1>2, <1>4, RejectEffect, ErrorStatus
  <2>2. Aside(r) /\ ~ Served(r)
    BY <1>1, <1>2, <1>3, <2>1, QuietAside DEF Served
  <2> QED BY <2>1, <2>2, AnswerKeeps
<1>5. ASSUME NEW t \in TokenId, Rotatable(t),
             Enter(r, "refresh", "revoke_refresh_token", refresh_tokens[t].user_id, t, req[t].phc)
      PROVE  DeactivationInv' /\ ServesVerified
  <2>1. PICK u \in UserId : u = refresh_tokens[t].user_id
    BY <1>2, <1>5 DEF DbTypeOK, Rotatable, Live, RefreshRow
  <2>2. PICK h \in Phc \cup {NULL} : h = req[t].phc
    BY <1>2, Fields
  <2>3. /\ ReqTypeOK' /\ req[r].pc = "idle" /\ \A q \in Requests \ {r} : req'[q] = req[q]
        /\ req'[r].op = "refresh" /\ req'[r].pc = "revoke_refresh_token"
        /\ req'[r].user = u /\ req'[r].token = t
    BY <1>2, <1>5, <2>1, <2>2, EnterEffect
  <2>4. Aside(r) /\ ~ Served(r)
    BY <1>1, <1>2, <1>3, <2>3, QuietAside DEF Served
  <2>5. KnowsUserInv(r)' /\ AskedInv(r)'
    BY <2>3, RowsExist DEF KnowsUserInv, AskedInv, AdminOp
  <2>6. MintInv(r)'
    <3> SUFFICES ASSUME Disabled(u) PROVE r \in lingering'
      BY <1>1, <2>3 DEF MintInv, Disabled
    <3>1. t \in lingering
      BY <1>5, <2>1 DEF DeactivationInv, LiveInv
    <3> QED BY <2>3, <3>1 DEF refresh_lingering
  <2> QED BY <2>3, <2>4, <2>5, <2>6, StartKeeps
<1> QED BY <1>4, <1>5 DEF refresh_lingering, Session, refresh, Delivered

\* refresh_revoke and refresh_find_user
LEMMA RefreshContinues ==
    ASSUME DeactivationInv, NEW r \in Requests,
           Session(refresh_revoke(r)) \/ Session(refresh_find_user(r)),
           UNCHANGED deactivationHistory
    PROVE  DeactivationInv' /\ ServesVerified
<1>1. /\ UNCHANGED <<users, now, access, profile, act, deactivationHistory>>
      /\ InFlight(r) /\ req[r].op = "refresh" /\ req[r].pc # "create_user"
  BY DEF Session, refresh_revoke, refresh_find_user, adminVars, googleVars, dbVars, At, InFlight
<1>2. PICK next \in {"find_by_id", "store_refresh_token"} : Proceed(r, next)
  BY DEF Session, refresh_revoke, refresh_find_user
<1>3. ReqTypeOK /\ next \in Pc
  BY Types DEF Pc
<1>4. /\ ReqTypeOK' /\ \A q \in Requests \ {r} : req'[q] = req[q]
      /\ req'[r].op = req[r].op /\ req'[r].user = req[r].user /\ req'[r].pc = next
  BY <1>2, <1>3, ProceedEffect
<1>5. Aside(r)
  <2>1. CASE refresh_revoke(r)
    <3>1. PICK S : Revoke(S)
      BY <2>1 DEF refresh_revoke, revoke_refresh_token
    <3> QED BY <1>1, <1>4, <3>1, RevokingAside
  <2>2. CASE refresh_find_user(r)
    BY <1>1, <1>4, <2>2, RecordAside DEF refresh_find_user
  <2> QED BY <2>1, <2>2 DEF Session
<1> QED BY <1>1, <1>2, <1>4, <1>5, ContinueKeeps

\* me: its bearer holds a token that is verified.
LEMMA MeStep ==
    ASSUME DeactivationInv, NEW r \in Requests, me(r),
           UNCHANGED <<adminVars, googleVars, deactivationHistory>>
    PROVE  DeactivationInv' /\ ServesVerified
<1>1. /\ UNCHANGED <<dbVars, access, profile, act, deactivationHistory>>
      /\ req[r].pc = "idle"
  BY DEF me, adminVars, googleVars
<1>2. ReqTypeOK /\ "me" \in Op /\ 200 \in Status /\ into_response.Unauthorized \in Status
  BY Types, StatusCodes, ErrorStatus DEF Op
<1>3. PICK t \in TokenId \cup {NULL}, s \in {into_response.Unauthorized, 200} :
        /\ req' = [req EXCEPT ![r] = Answered("me", t, s)]
        /\ t # NULL => t \in TokenId /\ verified(t)
  BY DEF me, Delivered, Reject
<1>4. /\ ReqTypeOK' /\ \A q \in Requests \ {r} : req'[q] = req[q]
      /\ req'[r].op = "me" /\ req'[r].pc = "done" /\ req'[r].token = t
  <2>1. s \in Status /\ ReqTypeOK /\ "me" \in Op
    BY <1>2
  <2>2. ReqTypeOK' /\ \A q \in Requests \ {r} : req'[q] = req[q]
    BY <1>3, <2>1, AnsweredEffect
  <2>3. req'[r] = Answered("me", t, s)
    BY <1>3, <2>1 DEF ReqTypeOK
  <2> QED BY <2>2, <2>3 DEF Answered
<1>5. Served(r) => req'[r].token \in TokenId /\ verified(req'[r].token)
  BY <1>3, <1>4 DEF Served
<1>6. Aside(r)
  BY <1>1, <1>4, RecordAside
<1> QED BY <1>1, <1>4, <1>5, <1>6, AnswerKeeps

\* issue_pair: the tokens of a disabled account that are minted now linger.
LEMMA IssueStep ==
    ASSUME DeactivationInv, NEW r \in Requests, issue_pair(r)
    PROVE  DeactivationInv' /\ ServesVerified
<1>1. /\ issue_tokens(r) /\ issue_access(r)
      /\ UNCHANGED <<profile, act, lingering, disabled_at>>
  BY DEF issue_pair, adminVars, googleVars, deactivationHistory
<1>2. /\ TypesOK /\ ReqTypeOK /\ DbTypeOK /\ AccessTypeOK /\ RequestInv(r)
      /\ InFlight(r) /\ req[r].op \in MintOp
  BY <1>1 DEF DeactivationInv, TypesOK, DeactivationTypeOK, issue_tokens, InFlight, MintOp
<1>3. req[r].user # NULL
  BY <1>1, <1>2 DEF RequestInv, KnowsUserInv, issue_tokens
<1>4. PICK u \in UserId : u = req[r].user
  BY <1>2, <1>3, Fields
<1>5. /\ ReqTypeOK' /\ DbTypeOK' /\ UNCHANGED <<users, now>>
      /\ \A q \in Requests \ {r} : req'[q] = req[q]
      /\ req'[r].op = req[r].op /\ req'[r].pc = "done" /\ req'[r].user = u
      /\ \A t \in TokenId : t # r => refresh_tokens'[t] = refresh_tokens[t]
      /\ refresh_tokens'[r] # NULL /\ refresh_tokens'[r].user_id = u
  BY <1>1, <1>2, <1>3, <1>4, IssueTokensEffect
<1>6. /\ access' \in [TokenId -> Claims \cup {NULL}]
      /\ \A t \in TokenId : t # r => access'[t] = access[t]
      /\ access'[r].sub = u /\ access'[r].exp = now + AccessTtl
  <2>1. now + AccessTtl \in Nat
    BY <1>2, AccessAssumption DEF DbTypeOK
  <2> DEFINE claims == [sub |-> u, exp |-> now + AccessTtl]
  <2>2. claims \in Claims /\ claims.sub = u /\ claims.exp = now + AccessTtl
    BY <2>1 DEF Claims
  <2>3. access' = [access EXCEPT ![r] = claims]
    BY <1>1, <1>4 DEF issue_access
  <2> HIDE DEF claims
  <2> QED BY <1>2, <2>2, <2>3 DEF AccessTypeOK
<1>7. Frame(r)
  BY <1>1, <1>5, <1>6 DEF Frame, Disabled, Rotatable, Live
<1>8. TypesOK'
  BY <1>1, <1>2, <1>5, <1>6 DEF TypesOK, DeactivationTypeOK, AccessTypeOK
<1>9. RequestInv(r)'
  <2>1. /\ ArrivalInv(r)' /\ KnowsUserInv(r)' /\ AskedInv(r)' /\ MintInv(r)'
    BY <1>5 DEF ArrivalInv, KnowsUserInv, AskedInv, MintInv, InFlight
  <2>2. CreatedInv(r)'
    BY <1>2, <1>5 DEF RequestInv, CreatedInv
  <2> QED BY <2>1, <2>2 DEF RequestInv
<1>10. Disabled(u)' => r \in lingering'
  BY <1>1, <1>2, <1>4, <1>5, RowsExist DEF RequestInv, MintInv, Disabled
<1>11. LiveInv(r)'
  BY <1>5, <1>10 DEF LiveInv
<1>12. AccessInv(r)'
  <2>1. now + AccessTtl <= now + AccessTtl
    BY <1>2, AccessAssumption DEF DbTypeOK
  <2> QED BY <1>5, <1>6, <1>10, <2>1 DEF AccessInv
<1>13. ~ Served(r)
  BY <1>2 DEF Served, InFlight
<1> QED BY <1>7, <1>8, <1>9, <1>11, <1>12, <1>13, StepKeeps

-----------------------------------------------------------------------------
(* The steps of Google sign-in                                             *)

\* google_callback
LEMMA CallbackStep ==
    ASSUME DeactivationInv, NEW r \in Requests, google_callback_lingering(r)
    PROVE  DeactivationInv' /\ ServesVerified
<1>1. /\ UNCHANGED <<dbVars, access, act, disabled_at>> /\ users' = users
      /\ google_callback(r)
  BY DEF google_callback_lingering, Google, google_callback, adminVars, dbVars
<1>2. /\ ReqTypeOK /\ lingering \subseteq Requests /\ "google_callback" \in Op
      /\ "upsert_oauth_identity" \in Pc /\ "create_user" \in Pc
      /\ profile \in [Requests -> Profile \cup {NULL}] /\ act' \in [Requests -> Act \cup {NULL}]
  BY <1>1, Types DEF Op, Pc
<1>3. lingering \subseteq lingering' /\ lingering' \subseteq Requests
  BY <1>2 DEF google_callback_lingering
<1>4. CASE Reject(r, "google_callback", into_response.Auth) /\ UNCHANGED profile
  <2>1. /\ ReqTypeOK' /\ req[r].pc = "idle" /\ \A q \in Requests \ {r} : req'[q] = req[q]
        /\ req'[r].op = "google_callback" /\ req'[r].pc = "done"
    BY <1>2, <1>4, RejectEffect, ErrorStatus
  <2>2. Aside(r) /\ ~ Served(r)
    BY <1>1, <1>2, <1>3, <1>4, <2>1, QuietAside DEF Served
  <2> QED BY <2>1, <2>2, AnswerKeeps
<1>5. ASSUME NEW p \in Profile, profile' = [profile EXCEPT ![r] = p],
             NEW next \in {"upsert_oauth_identity", "create_user"}, NEW v \in UserId \cup {NULL},
             Enter(r, "google_callback", next, v, NULL, NULL),
             next = "upsert_oauth_identity" => v # NULL
      PROVE  DeactivationInv' /\ ServesVerified
  <2>1. /\ ReqTypeOK' /\ req[r].pc = "idle" /\ \A q \in Requests \ {r} : req'[q] = req[q]
        /\ req'[r].op = "google_callback" /\ req'[r].pc = next /\ req'[r].user = v
    <3>1. next \in Pc /\ ReqTypeOK /\ "google_callback" \in Op
      BY <1>2
    <3> QED BY <1>5, <3>1, EnterEffect
  <2>2. /\ profile' \in [Requests -> Profile \cup {NULL}] /\ profile'[r] # NULL
        /\ \A q \in Requests \ {r} : profile'[q] = profile[q]
    BY <1>2, <1>5, ProfileAssumption
  <2>3. Aside(r) /\ ~ Served(r)
    BY <1>1, <1>2, <1>3, <2>1, <2>2, QuietAside DEF Served
  <2>4. KnowsUserInv(r)' /\ AskedInv(r)'
    BY <1>5, <2>1, <2>2 DEF KnowsUserInv, AskedInv, AdminOp
  <2>5. MintInv(r)'
    BY <1>1, <2>1 DEF MintInv, Disabled, google_callback_lingering
  <2> QED BY <1>5, <2>1, <2>3, <2>4, <2>5, StartKeeps
<1>6. CASE \E p \in Profile :
             /\ profile' = [profile EXCEPT ![r] = p]
             /\ \E next \in {"upsert_oauth_identity", "create_user"}, v \in UserId \cup {NULL} :
                  /\ Enter(r, "google_callback", next, v, NULL, NULL)
                  /\ next = "upsert_oauth_identity" => v # NULL
  BY <1>5, <1>6
<1> QED BY <1>1, <1>4, <1>6, RowsExist DEF google_callback

\* google_create_user: an account that was not there is not disabled.
LEMMA CreateUserStep ==
    ASSUME DeactivationInv, NEW r \in Requests, Google(google_create_user(r)),
           UNCHANGED deactivationHistory
    PROVE  DeactivationInv' /\ ServesVerified
<1>1. /\ UNCHANGED <<refresh_tokens, now, access, profile, act, deactivationHistory>>
      /\ InFlight(r) /\ req[r].op = "google_callback" /\ req[r].pc = "create_user"
  BY DEF Google, google_create_user, adminVars, googleVars, At, InFlight
<1>2. ReqTypeOK /\ DbTypeOK /\ RequestInv(r) /\ TypesOK
  BY Types DEF DeactivationInv
<1>3. ASSUME req' = [req EXCEPT ![r].pc = "upsert_oauth_identity", ![r].user = r]
      PROVE  /\ ReqTypeOK' /\ \A q \in Requests \ {r} : req'[q] = req[q]
             /\ req'[r].op = req[r].op /\ req'[r].pc = "upsert_oauth_identity"
             /\ req'[r].user = r
  <2>1. PICK u \in UserId \cup {NULL} : u = r
    BY DEF UserId
  <2>2. req' = [req EXCEPT ![r].pc = "upsert_oauth_identity", ![r].user = u]
    BY <1>3, <2>1
  <2>3. ReqTypeOK /\ "upsert_oauth_identity" \in Pc
    BY <1>2 DEF Pc
  <2>4. /\ ReqTypeOK' /\ \A q \in Requests \ {r} : req'[q] = req[q]
        /\ req'[r].op = req[r].op /\ req'[r].pc = "upsert_oauth_identity" /\ req'[r].user = u
    BY <2>2, <2>3, ProceedForEffect
  <2> QED BY <2>1, <2>4
<1>4. CASE /\ req' = [req EXCEPT ![r].pc = "done", ![r].status = db_error]
           /\ UNCHANGED users
  <2>1. /\ ReqTypeOK' /\ \A q \in Requests \ {r} : req'[q] = req[q]
        /\ req'[r].op = req[r].op /\ req'[r].user = req[r].user /\ req'[r].pc = "done"
    BY <1>2, <1>4, EndEffect, ErrorStatus
  <2>2. Aside(r)
    BY <1>1, <1>4, <2>1, RecordAside DEF dbVars
  <2> QED BY <1>1, <2>1, <2>2, ContinueKeeps
<1>5. CASE /\ create_user(r, profile[r].email, NULL, "user", profile[r].email # NULL)
           /\ req' = [req EXCEPT ![r].pc = "upsert_oauth_identity", ![r].user = r]
  <2>1. /\ profile[r] \in Profile /\ users[r] = NULL /\ refresh_tokens[r] = NULL
        /\ r \in UserId /\ "user" \in Role
    BY <1>1, <1>2 DEF RequestInv, KnowsUserInv, ArrivalInv, CreatedInv, MintOp, TypesOK, UserId,
                      Role
  <2>2. PICK e \in Emails \cup {NULL} : e = profile[r].email
    BY <2>1 DEF Profile
  <2>3. PICK b \in BOOLEAN : b = (e # NULL)
    OBVIOUS
  <2>4. create_user(r, e, NULL, "user", b)
    BY <1>5, <2>2, <2>3
  <2>5. /\ users' \in [UserId -> UserRow \cup {NULL}] /\ users'[r] # NULL /\ users'[r].is_active
        /\ \A v \in UserId : v # r => users'[v] = users[v]
    BY <1>2, <2>1, <2>4, CreateUserEffect DEF DbTypeOK
  <2>6. /\ ReqTypeOK' /\ \A q \in Requests \ {r} : req'[q] = req[q]
        /\ req'[r].op = req[r].op /\ req'[r].pc = "upsert_oauth_identity" /\ req'[r].user = r
    BY <1>3, <1>5
  <2>7. \A u \in UserId : Disabled(u)' <=> Disabled(u)
    BY <2>1, <2>5 DEF Disabled
  <2>8. Frame(r)
    <3>1. \A q \in Requests \ {r} : users'[q] # NULL => users[q] # NULL
      BY <2>5 DEF UserId
    <3> QED BY <1>1, <2>6, <2>7, <3>1 DEF Frame, Rotatable, Live, deactivationHistory
  <2>9. TypesOK'
    BY <1>1, <1>2, <2>5, <2>6
       DEF TypesOK, DbTypeOK, DeactivationTypeOK, AccessTypeOK, deactivationHistory
  <2>10. RequestInv(r)'
    <3>1. ArrivalInv(r)' /\ KnowsUserInv(r)' /\ AskedInv(r)' /\ CreatedInv(r)'
      BY <1>1, <2>1, <2>6, RowsExist
         DEF ArrivalInv, KnowsUserInv, AskedInv, CreatedInv, AdminOp
    <3>2. MintInv(r)'
      BY <2>5, <2>6 DEF MintInv, Disabled
    <3> QED BY <3>1, <3>2 DEF RequestInv
  <2>11. LiveInv(r)' /\ AccessInv(r)'
    BY <1>1, <2>8, TokenKeeps DEF Rotatable, Live
  <2>12. ~ Served(r)
    BY <1>1 DEF Served
  <2> QED BY <2>8, <2>9, <2>10, <2>11, <2>12, StepKeeps
<1> QED BY <1>4, <1>5 DEF Google, google_create_user

\* google_link
LEMMA LinkStep ==
    ASSUME DeactivationInv, NEW r \in Requests, Google(google_link(r)),
           UNCHANGED deactivationHistory
    PROVE  DeactivationInv' /\ ServesVerified
<1>1. /\ UNCHANGED <<dbVars, access, profile, act, deactivationHistory>>
      /\ InFlight(r) /\ req[r].pc = "upsert_oauth_identity" /\ Proceed(r, "store_refresh_token")
  BY DEF Google, google_link, adminVars, At, InFlight
<1>2. ReqTypeOK /\ "store_refresh_token" \in Pc
  BY Types DEF Pc
<1>3. /\ ReqTypeOK' /\ \A q \in Requests \ {r} : req'[q] = req[q]
      /\ req'[r].op = req[r].op /\ req'[r].user = req[r].user
      /\ req'[r].pc = "store_refresh_token"
  BY <1>1, <1>2, ProceedEffect
<1>4. Aside(r)
  BY <1>1, <1>3, RecordAside
<1> QED BY <1>1, <1>3, <1>4, ContinueKeeps

-----------------------------------------------------------------------------
(* The steps of the admin routes                                           *)

\* An act names the handler of an admin route; that of set_active has a target.
LEMMA ActFacts ==
    ASSUME NEW a \in Act
    PROVE  /\ a # NULL /\ a.op \in AdminOp
           /\ a.op = "set_active" => a.target \in UserId /\ a.active \in BOOLEAN
BY ActAssumption DEF Act, AdminOp

\* The handlers of the admin routes and the statements they are named after.
LEMMA AdminOps ==
    /\ AdminOp \subseteq Op \cap Pc /\ AdminOp \cap MintOp = {} /\ "me" \notin AdminOp
    /\ AdminOp \cap {"idle", "done", "create_user", "permissions_for"} = {}
BY DEF AdminOp, MintOp, Op, Pc

\* authenticate
LEMMA AuthenticateStep ==
    ASSUME DeactivationInv, NEW r \in Requests, Admin(authenticate(r)),
           UNCHANGED deactivationHistory
    PROVE  DeactivationInv' /\ ServesVerified
<1>1. UNCHANGED <<dbVars, access, profile, lingering, disabled_at>>
  BY DEF Admin, authenticate, googleVars, deactivationHistory
<1>2. PICK a \in Act :
        \/ \E code \in {into_response.Unauthorized, into_response.EmailNotVerified} :
             Reject(r, a.op, code) /\ UNCHANGED act
        \/ \E u \in UserId : /\ Enter(r, a.op, "permissions_for", u, NULL, NULL)
                             /\ act' = [act EXCEPT ![r] = a]
  BY WishAssumption DEF Admin, authenticate
<1>3. a # NULL /\ a.op \in AdminOp
  BY ActFacts
<1>4. PICK op \in Op : op = a.op
  BY <1>3, AdminOps
<1>5. /\ ReqTypeOK /\ lingering \subseteq Requests /\ "permissions_for" \in Pc
      /\ profile \in [Requests -> Profile \cup {NULL}] /\ act \in [Requests -> Act \cup {NULL}]
  BY Types DEF Pc
<1>6. op \notin MintOp /\ op # "me" /\ op \in AdminOp
  BY <1>3, <1>4, AdminOps
<1>7. ASSUME NEW code \in Status, Reject(r, op, code), UNCHANGED act
      PROVE  DeactivationInv' /\ ServesVerified
  <2>1. /\ ReqTypeOK' /\ req[r].pc = "idle" /\ \A q \in Requests \ {r} : req'[q] = req[q]
        /\ req'[r].op = op /\ req'[r].pc = "done"
    BY <1>5, <1>7, RejectEffect
  <2>2. Aside(r) /\ ~ Served(r)
    BY <1>1, <1>5, <1>6, <1>7, <2>1, QuietAside DEF Served
  <2> QED BY <2>1, <2>2, AnswerKeeps
<1>8. ASSUME NEW u \in UserId, Enter(r, op, "permissions_for", u, NULL, NULL),
             act' = [act EXCEPT ![r] = a]
      PROVE  DeactivationInv' /\ ServesVerified
  <2>1. /\ ReqTypeOK' /\ req[r].pc = "idle" /\ \A q \in Requests \ {r} : req'[q] = req[q]
        /\ req'[r].op = op /\ req'[r].pc = "permissions_for"
    BY <1>5, <1>8, EnterEffect
  <2>2. /\ act'[r] = a /\ act' \in [Requests -> Act \cup {NULL}]
        /\ \A q \in Requests \ {r} : act'[q] = act[q]
    BY <1>5, <1>8
  <2>3. Aside(r) /\ ~ Served(r)
    BY <1>1, <1>5, <1>6, <2>1, <2>2, QuietAside DEF Served
  <2>4. KnowsUserInv(r)' /\ AskedInv(r)' /\ MintInv(r)'
    BY <1>3, <1>4, <1>6, <2>1, <2>2 DEF KnowsUserInv, AskedInv, MintInv
  <2> QED BY <2>1, <2>3, <2>4, StartKeeps
<1> QED BY <1>2, <1>4, <1>7, <1>8, ErrorStatus

\* load_permissions
LEMMA LoadStep ==
    ASSUME DeactivationInv, NEW r \in Requests, Admin(load_permissions(r)),
           UNCHANGED deactivationHistory
    PROVE  DeactivationInv' /\ ServesVerified
<1>1. /\ UNCHANGED <<dbVars, access, profile, act, deactivationHistory>>
      /\ InFlight(r) /\ req[r].pc = "permissions_for"
  BY DEF Admin, load_permissions, adminVars, googleVars, InFlight
<1>2. ReqTypeOK /\ RequestInv(r)
  BY Types DEF DeactivationInv
<1>3. act[r].op = req[r].op /\ req[r].op \in AdminOp
  BY <1>1, <1>2 DEF RequestInv, AskedInv
<1>4. PICK next \in AdminOp : next = act[r].op
  BY <1>3
<1>5. next \in Pc /\ next \notin {"idle", "create_user", "permissions_for"}
  BY AdminOps
<1>6. /\ ReqTypeOK' /\ \A q \in Requests \ {r} : req'[q] = req[q]
      /\ req'[r].op = req[r].op /\ req'[r].user = req[r].user /\ req'[r].pc \in {next, "done"}
  <2>1. CASE Proceed(r, next)
    BY <1>2, <1>5, <2>1, ProceedEffect
  <2>2. CASE req' = [req EXCEPT ![r].pc = "done", ![r].status = into_response.Forbidden]
    BY <1>2, <2>2, EndEffect, ErrorStatus
  <2> QED BY <1>4, <2>1, <2>2 DEF Admin, load_permissions
<1>7. Aside(r)
  BY <1>1, <1>6, RecordAside
<1> QED BY <1>1, <1>5, <1>6, <1>7, ContinueKeeps

-----------------------------------------------------------------------------
(* Everything else                                                         *)

\* Abort
LEMMA AbortStep ==
    ASSUME DeactivationInv, NEW r \in Requests, Abort(r),
           UNCHANGED <<access, adminVars, googleVars, deactivationHistory>>
    PROVE  DeactivationInv' /\ ServesVerified
<1>1. ReqTypeOK
  BY Types
<1>2. /\ ReqTypeOK' /\ InFlight(r) /\ \A q \in Requests \ {r} : req'[q] = req[q]
      /\ UNCHANGED <<dbVars, access, profile, act, deactivationHistory>>
      /\ req'[r].op = req[r].op /\ req'[r].user = req[r].user /\ req'[r].pc = "done"
  BY <1>1, AbortEffect DEF adminVars, googleVars
<1>3. Aside(r)
  BY <1>2, RecordAside
<1> QED BY <1>2, <1>3, ContinueKeeps

\* Tick, and a step that changes nothing.
LEMMA QuietStep ==
    ASSUME DeactivationInv, now' \in Nat, now <= now',
           UNCHANGED <<users, refresh_tokens, req, access, profile, act, lingering, disabled_at>>
    PROVE  DeactivationInv' /\ ServesVerified
<1>1. TypesOK /\ DbTypeOK
  BY DEF DeactivationInv, TypesOK
<1>2. TypesOK'
  BY <1>1 DEF TypesOK, DbTypeOK, ReqTypeOK, DeactivationTypeOK, AccessTypeOK
<1>3. ASSUME NEW r \in Requests PROVE RequestInv(r)' /\ LiveInv(r)' /\ AccessInv(r)'
  <2>1. RequestInv(r) /\ LiveInv(r) /\ AccessInv(r)
    BY DEF DeactivationInv
  <2>2. RequestInv(r)'
    BY <2>1 DEF RequestInv, ArrivalInv, KnowsUserInv, AskedInv, CreatedInv, MintInv, InFlight,
                Disabled
  <2>3. Rotatable(r)' => Rotatable(r)
    BY <1>1 DEF Rotatable, Live, DbTypeOK, RefreshRow
  <2>4. LiveInv(r)'
    BY <2>1, <2>3 DEF LiveInv, Disabled
  <2>5. AccessInv(r)'
    <3>1. access[r] # NULL => access[r].exp \in Nat
      BY <1>1, Ids
    <3>2. access[r] # NULL => access[r].exp <= now' + AccessTtl
      BY <1>1, <2>1, <3>1, AccessAssumption DEF AccessInv, DbTypeOK
    <3> QED BY <2>1, <3>2 DEF AccessInv, Disabled
  <2> QED BY <2>2, <2>4, <2>5
<1>4. \A u \in UserId : AccountInv(u)'
  BY DEF DeactivationInv, AccountInv, Disabled
<1>5. ServesVerified
  BY DEF ServesVerified, Served, DeactivationInv, RequestInv, ArrivalInv
<1> QED BY <1>2, <1>3, <1>4, <1>5 DEF DeactivationInv

-----------------------------------------------------------------------------
(* set_active                                                              *)

\* What it changes: one account, and for that one what lingers and since when.
Switches(r, u, active) ==
    /\ At(r, "set_active", "set_active")
    /\ UNCHANGED <<refresh_tokens, now, access, profile, act>>
    /\ users' \in [UserId -> UserRow \cup {NULL}]
    /\ \A v \in UserId : (v # u => users'[v] = users[v]) /\ (users[v] = NULL => users'[v] = NULL)
    /\ Disabled(u)' <=> users[u] # NULL /\ ~ active
    /\ ReqTypeOK' /\ \A q \in Requests \ {r} : req'[q] = req[q]
    /\ req'[r].op = req[r].op /\ req'[r].pc = "done"
    /\ lingering' = IF active THEN lingering \ (LiveOf(u) \cup MintingFor(u))
                    ELSE lingering \cup (LiveOf(u) \cup MintingFor(u))
    /\ disabled_at' = [disabled_at EXCEPT ![u] =
                          IF active THEN NULL
                          ELSE IF users[u] # NULL /\ @ = NULL THEN now ELSE @]

\* Whatever the request asked for.
LEMMA SwitchEffect ==
    ASSUME DeactivationInv, NEW r \in Requests, switch(r)
    PROVE  \E u \in UserId, active \in BOOLEAN : Switches(r, u, active)
<1>1. /\ At(r, "set_active", "set_active") /\ Finish(r, 204)
      /\ UNCHANGED <<refresh_tokens, now, access, profile, act>>
  BY DEF switch, Admin, admin_set_active, NoteLate, googleVars
<1>2. ReqTypeOK /\ users \in [UserId -> UserRow \cup {NULL}]
  BY Types
<1>3. act[r] \in Act /\ act[r].op = "set_active"
  <2>1. InFlight(r) /\ req[r].op \in AdminOp /\ req[r].op = "set_active"
    BY <1>1 DEF At, InFlight, AdminOp
  <2> QED BY <2>1, Types DEF DeactivationInv, RequestInv, AskedInv
<1>4. PICK u \in UserId : u = act[r].target
  BY <1>3, ActFacts
<1>5. PICK active \in BOOLEAN : active = act[r].active
  BY <1>3, ActFacts
<1>6. set_active(u, active)
  BY <1>4, <1>5 DEF switch, Admin, admin_set_active
<1>7. /\ users' \in [UserId -> UserRow \cup {NULL}]
      /\ \A v \in UserId : v # u => users'[v] = users[v]
      /\ users[u] = NULL => users'[u] = NULL
      /\ users[u] # NULL => users'[u] # NULL /\ users'[u].is_active = active
  BY <1>2, <1>6, SetActiveEffect
<1>8. /\ ReqTypeOK' /\ \A q \in Requests \ {r} : req'[q] = req[q]
      /\ req'[r].op = req[r].op /\ req'[r].pc = "done"
  BY <1>1, <1>2, FinishEffect, StatusCodes
<1>9. /\ lingering' = IF active THEN lingering \ (LiveOf(u) \cup MintingFor(u))
                      ELSE lingering \cup (LiveOf(u) \cup MintingFor(u))
      /\ disabled_at' = [disabled_at EXCEPT ![u] =
                            IF active THEN NULL
                            ELSE IF users[u] # NULL /\ @ = NULL THEN now ELSE @]
  BY <1>4, <1>5 DEF switch, found_by_id
<1>10. \A v \in UserId : (v # u => users'[v] = users[v]) /\ (users[v] = NULL => users'[v] = NULL)
  BY <1>7
<1>11. Disabled(u)' <=> users[u] # NULL /\ ~ active
  BY <1>7 DEF Disabled
<1>12. Switches(r, u, active)
  BY <1>1, <1>7, <1>8, <1>9, <1>10, <1>11 DEF Switches
<1> QED BY <1>12

\* Whoever lingers for another account still does.
LEMMA LingersStill ==
    ASSUME DeactivationInv, NEW r \in Requests, NEW u \in UserId, NEW active \in BOOLEAN,
           Switches(r, u, active), NEW q \in lingering,
           q \notin LiveOf(u) \/ ~ active, q \notin MintingFor(u) \/ ~ active
    PROVE  q \in lingering'
BY DEF Switches

\* What set_active means for a request: in flight, it has no token yet.
LEMMA SwitchRequest ==
    ASSUME DeactivationInv, NEW r \in Requests, NEW u \in UserId, NEW active \in BOOLEAN,
           Switches(r, u, active), NEW q \in Requests
    PROVE  RequestInv(q)'
<1>1. RequestInv(q) /\ TypesOK
  BY DEF DeactivationInv
<1>2. /\ UNCHANGED <<refresh_tokens, profile, act>>
      /\ users'[q] # NULL => users[q] # NULL
      /\ q # r => req'[q] = req[q]
      /\ q = r => req'[q].op = req[q].op /\ req'[q].pc = "done" /\ req[q].pc = "set_active"
  BY DEF Switches, At, UserId
<1>3. ArrivalInv(q)' /\ KnowsUserInv(q)' /\ AskedInv(q)' /\ CreatedInv(q)'
  BY <1>1, <1>2
     DEF RequestInv, ArrivalInv, KnowsUserInv, AskedInv, CreatedInv, InFlight
<1>4. MintInv(q)'
  <2> SUFFICES ASSUME q # r, InFlight(q), req[q].op \in MintOp, req[q].user # NULL,
                      Disabled(req[q].user)'
               PROVE  q \in lingering'
    BY <1>2 DEF MintInv, InFlight
  <2>1. PICK v \in UserId : v = req[q].user
    BY <1>1, Ids
  <2>2. Disabled(v)'
    BY <1>2, <2>1 DEF Disabled
  <2>3. CASE v = u
    <3>1. ~ active /\ q \in MintingFor(u)
      BY <2>1, <2>2, <2>3 DEF Switches, MintingFor, MintOp
    <3> QED BY <3>1 DEF Switches
  <2>4. CASE v # u
    <3>1. Disabled(v)
      BY <2>2, <2>4 DEF Disabled, Switches
    <3>2. q \in lingering
      BY <1>1, <2>1, <3>1 DEF RequestInv, MintInv
    <3>3. q \notin LiveOf(u) /\ q \notin MintingFor(u)
      BY <1>1, <2>1, <2>4 DEF RequestInv, ArrivalInv, InFlight, LiveOf, TokensOf, MintingFor
    <3> QED BY <3>2, <3>3, LingersStill
  <2> QED BY <2>3, <2>4
<1> QED BY <1>3, <1>4 DEF RequestInv

\* What it means for a token: its owner is the account, or another.
LEMMA SwitchToken ==
    ASSUME DeactivationInv, NEW r \in Requests, NEW u \in UserId, NEW active \in BOOLEAN,
           Switches(r, u, active), NEW t \in Requests
    PROVE  LiveInv(t)' /\ AccessInv(t)'
<1>1. /\ RequestInv(t) /\ LiveInv(t) /\ AccessInv(t) /\ TypesOK /\ AccountInv(u)
      /\ disabled_at \in [UserId -> Nat \cup {NULL}] /\ now \in Nat
  BY DEF DeactivationInv, TypesOK, DeactivationTypeOK, DbTypeOK
<1>2. /\ UNCHANGED <<refresh_tokens, now, access>>
      /\ Rotatable(t)' <=> Rotatable(t)
  BY DEF Switches, Rotatable, Live
<1>3. \A v \in UserId : v # u => (Disabled(v)' => Disabled(v)) /\ disabled_at'[v] = disabled_at[v]
  BY <1>1 DEF Switches, Disabled
<1>4. ASSUME NEW v \in UserId, v # u, refresh_tokens[t] # NULL, refresh_tokens[t].user_id = v,
             t \in lingering
      PROVE  t \in lingering'
  <2>1. t \notin LiveOf(u) /\ t \notin MintingFor(u)
    BY <1>1, <1>4 DEF RequestInv, ArrivalInv, InFlight, LiveOf, TokensOf, MintingFor
  <2> QED BY <1>4, <2>1, LingersStill
<1>5. LiveInv(t)'
  <2> SUFFICES ASSUME Rotatable(t), Disabled(refresh_tokens[t].user_id)'
               PROVE  t \in lingering'
    BY <1>2 DEF LiveInv
  <2>1. PICK v \in UserId : v = refresh_tokens[t].user_id
    BY <1>1, Ids DEF Rotatable, Live
  <2>2. Disabled(v)' /\ refresh_tokens[t] # NULL
    BY <1>2, <2>1 DEF Disabled, Rotatable, Live
  <2>3. CASE v = u
    <3>1. ~ active /\ t \in LiveOf(u)
      BY <2>1, <2>2, <2>3 DEF Switches, LiveOf, TokensOf
    <3> QED BY <3>1 DEF Switches
  <2>4. CASE v # u
    <3>1. t \in lingering
      BY <1>1, <1>3, <2>1, <2>2, <2>4 DEF LiveInv
    <3> QED BY <1>4, <2>1, <2>2, <2>4, <3>1
  <2> QED BY <2>3, <2>4
<1>6. AccessInv(t)'
  <2> SUFFICES ASSUME access[t] # NULL, Disabled(access[t].sub)'
               PROVE  t \in lingering' \/ access[t].exp <= disabled_at'[access[t].sub] + AccessTtl
    BY <1>1, <1>2 DEF AccessInv
  <2>1. PICK v \in UserId : v = access[t].sub
    BY <1>1, Ids
  <2>2. /\ Disabled(v)' /\ refresh_tokens[t] # NULL /\ refresh_tokens[t].user_id = v
        /\ access[t].exp <= now + AccessTtl
        /\ Disabled(v) => t \in lingering \/ access[t].exp <= disabled_at[v] + AccessTtl
    BY <1>1, <1>2, <2>1 DEF AccessInv, Disabled
  <2>3. CASE v = u
    <3>1. ~ active /\ users[u] # NULL
      BY <2>2, <2>3 DEF Switches
    <3>2. lingering \subseteq lingering'
      BY <3>1 DEF Switches
    <3>3. disabled_at'[u] = IF disabled_at[u] = NULL THEN now ELSE disabled_at[u]
      BY <1>1, <3>1 DEF Switches
    <3>4. disabled_at[u] # NULL => Disabled(u)
      BY <1>1 DEF AccountInv
    <3> QED BY <2>1, <2>2, <2>3, <3>2, <3>3, <3>4
  <2>4. CASE v # u
    BY <1>3, <1>4, <2>1, <2>2, <2>4
  <2> QED BY <2>3, <2>4
<1> QED BY <1>5, <1>6

\* set_active
LEMMA SwitchStep ==
    ASSUME DeactivationInv, NEW r \in Requests, switch(r)
    PROVE  DeactivationInv' /\ ServesVerified
<1>1. PICK u \in UserId, active \in BOOLEAN : Switches(r, u, active)
  BY SwitchEffect
<1>2. TypesOK /\ disabled_at \in [UserId -> Nat \cup {NULL}] /\ now \in Nat
  BY DEF DeactivationInv, TypesOK, DeactivationTypeOK, DbTypeOK
<1>3. TypesOK'
  <2>1. DbTypeOK'
    BY <1>1, <1>2 DEF Switches, TypesOK, DbTypeOK
  <2>2. lingering' \subseteq Requests
    BY <1>1, <1>2
       DEF Switches, LiveOf, TokensOf, MintingFor, TypesOK, DeactivationTypeOK
  <2>3. disabled_at' \in [UserId -> Nat \cup {NULL}]
    BY <1>1, <1>2 DEF Switches
  <2> QED BY <1>1, <1>2, <2>1, <2>2, <2>3
          DEF Switches, TypesOK, DeactivationTypeOK, AccessTypeOK
<1>4. ASSUME NEW v \in UserId PROVE AccountInv(v)'
  <2>1. AccountInv(v)
    BY DEF DeactivationInv
  <2>2. CASE v # u
    BY <1>1, <1>2, <2>1, <2>2 DEF Switches, AccountInv, Disabled
  <2>3. CASE v = u
    <3>1. disabled_at'[u] = IF active THEN NULL
                            ELSE IF users[u] # NULL /\ disabled_at[u] = NULL THEN now
                                 ELSE disabled_at[u]
      BY <1>1, <1>2 DEF Switches
    <3>2. Disabled(u)' <=> users[u] # NULL /\ ~ active
      BY <1>1 DEF Switches
    <3>3. users[u] = NULL => disabled_at[u] = NULL
      BY <2>1, <2>3 DEF AccountInv, Disabled
    <3> QED BY <1>2, <2>3, <3>1, <3>2, <3>3 DEF AccountInv
  <2> QED BY <2>2, <2>3
<1>5. ServesVerified
  BY <1>1 DEF ServesVerified, Served, Switches, At, DeactivationInv, RequestInv, ArrivalInv
<1> QED BY <1>1, <1>3, <1>4, <1>5, SwitchRequest, SwitchToken DEF DeactivationInv

-----------------------------------------------------------------------------
(* The theorems                                                            *)

\* Every step keeps the invariant and serves verified tokens only.
LEMMA NextDeactivation ==
    DeactivationInv /\ [DeactivationNext]_deactivationVars => DeactivationInv' /\ ServesVerified
<1> SUFFICES ASSUME DeactivationInv, [DeactivationNext]_deactivationVars
             PROVE  DeactivationInv' /\ ServesVerified
  OBVIOUS
<1>1. now \in Nat
  BY Types DEF DbTypeOK
<1>2. CASE UNCHANGED deactivationVars
  BY <1>1, <1>2, QuietStep DEF deactivationVars
<1>3. ASSUME NEW r \in Requests, ClientStep(r) PROVE DeactivationInv' /\ ServesVerified
  BY <1>3, LoginStep, LogoutStep, RefreshContinues, CreateUserStep, LinkStep, MeStep, RefreshStep,
     CallbackStep, IssueStep DEF ClientStep
<1>4. ASSUME NEW r \in Requests, AdminStep(r) PROVE DeactivationInv' /\ ServesVerified
  BY <1>4, AuthenticateStep, LoadStep, SwitchStep DEF AdminStep
<1>5. CASE Tick /\ UNCHANGED <<sessionHistory, access, adminVars, googleVars, deactivationHistory>>
  BY <1>1, <1>5, QuietStep DEF Tick, adminVars, googleVars, deactivationHistory
<1>6. ASSUME NEW r \in Requests, Abort(r),
             UNCHANGED <<sessionHistory, access, adminVars, googleVars, deactivationHistory>>
      PROVE  DeactivationInv' /\ ServesVerified
  BY <1>6, AbortStep
<1> QED BY <1>2, <1>3, <1>4, <1>5, <1>6, AdminRequestsAssumption DEF DeactivationNext

\* The inductive invariant holds of every behaviour: what is still to be minted
\* for a disabled account, and what was minted and is still good, is accounted for.
THEOREM DeactivationInvariant == DeactivationSpec => []DeactivationInv
<1> QED BY InitDeactivation, NextDeactivation, PTL DEF DeactivationSpec

\* The access tokens and the history have their types.
THEOREM DeactivationTypeCorrect == DeactivationSpec => []DeactivationTypeOK
<1>1. DeactivationInv => DeactivationTypeOK
  BY DEF DeactivationInv, TypesOK
<1> QED BY <1>1, DeactivationInvariant, PTL

\* "Disable account" ends no session, but the live sessions of a disabled
\* account are those that the history names: no later login opened one.
THEOREM DisabledSessionsAreExplained == DeactivationSpec => []DisabledSessionsExplained
<1>1. DeactivationInv => DisabledSessionsExplained
  BY DEF DeactivationInv, LiveInv, DisabledSessionsExplained
<1> QED BY <1>1, DeactivationInvariant, PTL

\* The bearer of a disabled account is served with a token of a lingering
\* session, or within an access lifetime and the leeway of its being disabled.
THEOREM DisabledAreServedBriefly == DeactivationSpec => DisabledServedBriefly
<1>1. ASSUME DeactivationInv, [DeactivationNext]_deactivationVars,
             NEW r \in Requests, Served(r)
      PROVE  LET t == req'[r].token  u == access[t].sub IN
               Disabled(u) => t \in lingering \/ now <= disabled_at[u] + AccessTtl + Leeway
  <2>1. PICK t \in Requests : t = req'[r].token /\ verified(t)
    BY <1>1, NextDeactivation DEF ServesVerified
  <2>2. TypesOK /\ AccessInv(t) /\ access[t] # NULL /\ now \in Nat
    BY <1>1, <2>1, Types DEF DeactivationInv, verified, DbTypeOK
  <2>3. PICK u \in UserId : u = access[t].sub
    BY <2>2, Ids
  <2>4. PICK exp \in Nat : exp = access[t].exp
    BY <2>2, Ids
  <2>5. now <= exp + Leeway
    BY <2>1, <2>4 DEF verified
  <2>6. ASSUME Disabled(u), t \notin lingering
        PROVE  now <= disabled_at[u] + AccessTtl + Leeway
    <3>1. exp <= disabled_at[u] + AccessTtl
      BY <2>2, <2>3, <2>4, <2>6 DEF AccessInv
    <3>2. disabled_at[u] \in Nat
      BY <1>1, <2>6 DEF DeactivationInv, AccountInv
    <3> QED BY <2>2, <2>5, <3>1, <3>2, AccessAssumption
  <2> QED BY <2>1, <2>3, <2>6
<1>2. DeactivationInv /\ [DeactivationNext]_deactivationVars =>
        [\A r \in Requests :
           req[r].pc = "idle" /\ req'[r].op = "me" /\ req'[r].token # NULL =>
             LET t == req'[r].token  u == access[t].sub IN
               Disabled(u) => t \in lingering \/ now <= disabled_at[u] + AccessTtl + Leeway
        ]_deactivationVars
  BY <1>1 DEF Served
<1> QED BY <1>2, DeactivationInvariant, PTL DEF DeactivationSpec, DisabledServedBriefly

=============================================================================
