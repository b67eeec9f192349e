---------------------------- MODULE Deactivation ----------------------------
(***************************************************************************)
(* What disabling an account ends.  Sessions, access tokens, Google        *)
(* sign-in and the admin routes together: set_active changes one flag,     *)
(* which only login reads, and it reads it before it stores its token.     *)
(***************************************************************************)
EXTENDS AccessTokens, Administration, GoogleSignIn

CONSTANTS
    AdminRequests  \* the requests that call an admin route; all others are clients'

ASSUME AdminRequestsAssumption == AdminRequests \subseteq Requests

VARIABLES
    lingering,  \* history: the sessions of disabled accounts that no check stopped
    disabled_at \* history: when an account was disabled, NULL while it is active

deactivationHistory == <<lingering, disabled_at>>

deactivationVars ==
    <<users, refresh_tokens, now, req, spender, raced, access, user_permissions, act, late,
      oauth_identities, profile, overtaken, lingering, disabled_at>>

\* Requests that will insert a refresh token for u unless they fail.
MintingFor(u) ==
    {r \in Requests : /\ InFlight(r) /\ req[r].user = u
                      /\ req[r].op \in {"login", "refresh", "google_callback"}}

LiveOf(u) == {t \in TokensOf(u) : Rotatable(t)}

Disabled(u) == users[u] # NULL /\ ~ users[u].is_active

-----------------------------------------------------------------------------
(* The actions of a part leave the tables of the others alone.             *)

Session(A) == A /\ UNCHANGED <<access, adminVars, googleVars>>

Google(A) == A /\ UNCHANGED <<sessionHistory, access, adminVars>>

Admin(A) == A /\ UNCHANGED <<sessionHistory, access, googleVars>>

\* refresh: what descends from a lingering session lingers.
refresh_lingering(r) ==
    /\ Session(refresh(r))
    /\ lingering' = IF req'[r].token \in lingering THEN lingering \cup {r} ELSE lingering
    /\ UNCHANGED disabled_at

\* google_callback: nothing stops one that signs in to a disabled account.
google_callback_lingering(r) ==
    /\ Google(google_callback(r))
    /\ lingering' = IF \E u \in UserId : Disabled(u) /\ req'[r].user = u
                    THEN lingering \cup {r} ELSE lingering
    /\ UNCHANGED disabled_at

\* The whole of issue_tokens.
issue_pair(r) ==
    /\ issue_tokens(r)
    /\ issue_access(r)
    /\ UNCHANGED <<sessionHistory, adminVars, googleVars, deactivationHistory>>

\* set_active, and what it leaves behind.
switch(r) ==
    /\ Admin(admin_set_active(r))
    /\ LET u == act[r].target
           sessions == LiveOf(u) \cup MintingFor(u)
       IN IF act[r].active
          THEN /\ lingering' = lingering \ sessions
               /\ disabled_at' = [disabled_at EXCEPT ![u] = NULL]
          ELSE /\ lingering' = lingering \cup sessions
               /\ disabled_at' = [disabled_at EXCEPT ![u] =
                                     IF found_by_id(u) /\ @ = NULL THEN now ELSE @]

-----------------------------------------------------------------------------

DeactivationInit ==
    /\ SessionInit /\ AccessInit /\ GoogleTablesInit
    /\ user_permissions = [u \in UserId |-> [p \in permissions |-> "none"]]
    /\ act = [r \in Requests |-> NULL] /\ late = {}
    /\ lingering = {}
    /\ disabled_at = [u \in UserId |-> IF Disabled(u) THEN 0 ELSE NULL]

ClientStep(r) ==
    \/ /\ \/ Session(login(r)) \/ Session(logout(r))
          \/ Session(refresh_revoke(r)) \/ Session(refresh_find_user(r))
          \/ Google(google_create_user(r)) \/ Google(google_link(r))
          \/ me(r) /\ UNCHANGED <<adminVars, googleVars>>
       /\ UNCHANGED deactivationHistory
    \/ refresh_lingering(r) \/ google_callback_lingering(r)
    \/ issue_pair(r)

AdminStep(r) ==
    \/ (Admin(authenticate(r)) \/ Admin(load_permissions(r))) /\ UNCHANGED deactivationHistory
    \/ switch(r)

\* A request that is turned away at once changes nothing: it might as well not
\* have come, and the runs of the parts have it.
TurnedAway(r) == req[r].pc = "idle" /\ req'[r].status >= 400

DeactivationNext ==
    \/ \E r \in Requests \ AdminRequests : ClientStep(r) /\ ~ TurnedAway(r)
    \/ \E r \in AdminRequests : AdminStep(r) /\ ~ TurnedAway(r)
    \/ /\ Tick \/ \E r \in Requests : Abort(r)
       /\ UNCHANGED <<sessionHistory, access, adminVars, googleVars, deactivationHistory>>

DeactivationSpec == DeactivationInit /\ [][DeactivationNext]_deactivationVars

-----------------------------------------------------------------------------
(* Properties *)

\* The claims and the history have their types.
DeactivationTypeOK ==
    /\ AccessTypeOK
    /\ lingering \subseteq Requests
    /\ disabled_at \in [UserId -> Nat \cup {NULL}]

\* "Disable account": the live sessions of a disabled account are those that
\* were live when it was disabled, those whose login, refresh or callback had
\* passed its check by then, those that Google opened since, and what they
\* were refreshed to.  In particular no login that starts afterwards opens one.
DisabledSessionsExplained ==
    \A t \in TokenId : Rotatable(t) /\ Disabled(refresh_tokens[t].user_id) => t \in lingering

\* Only time ends an access token.  The bearer of a disabled account is served
\* with a token of a lingering session, or for one access lifetime and the
\* leeway, counted from the moment the account was disabled, even though the
\* session of that token had been logged out long before.
DisabledServedBriefly ==
    [][\A r \in Requests :
         req[r].pc = "idle" /\ req'[r].op = "me" /\ req'[r].token # NULL =>
           LET t == req'[r].token  u == access[t].sub IN
             Disabled(u) => t \in lingering \/ now <= disabled_at[u] + AccessTtl + Leeway
      ]_deactivationVars

=============================================================================
