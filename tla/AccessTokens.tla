---------------------------- MODULE AccessTokens ----------------------------
(***************************************************************************)
(* Access tokens: crates/auth/src/jwt.rs, the extractor AuthUser of        *)
(* crates/api/src/middleware/auth.rs and the routes of                     *)
(* crates/api/src/routes/users.rs, which ask for nothing more.  An access  *)
(* token is minted together with a refresh token and has its name.  Its    *)
(* signature makes it valid until it expires: no table knows it, so        *)
(* nothing can revoke it.                                                  *)
(***************************************************************************)
EXTENDS Sessions

CONSTANTS
    AccessTtl, \* settings.auth.jwt_access_ttl_min, in clock units
    Leeway     \* how long after exp the library still accepts a token

ASSUME AccessAssumption == AccessTtl \in Nat \ {0} /\ Leeway \in Nat

VARIABLES access   \* the access tokens that were signed: name -> claims, or NULL

\* The claims that differ: iss is the same in all, role and jti are never looked at.
Claims == [sub : UserId, exp : Nat]

\* Mutant: the lifetime is subtracted.
issue_access_expired(r) ==
    access' = [access EXCEPT ![r] = [sub |-> req[r].user, exp |-> now - AccessTtl]]

\* JwtCodec::issue, which issue_tokens calls before it stores the refresh token.
issue_access(r) ==
    access' = [access EXCEPT ![r] = [sub |-> req[r].user, exp |-> now + AccessTtl]]

\* Mutant: the expiry is not validated.
verified_unexpiring(t) == access[t] # NULL

\* JwtCodec::verify: signed by this service, and exp >= now - leeway.
verified(t) == access[t] # NULL /\ now <= access[t].exp + Leeway

\* GET /users/me and /users/me/permissions, behind AuthUser: one SELECT each, of
\* rows that no code deletes.  A token that is absent, forged or expired is an error,
\* and an answer that is lost might as well be one.
me(r) ==
    /\ req[r].pc = "idle"
    /\ \/ Reject(r, "me", into_response.Unauthorized)
       \/ \E t \in Delivered :
            /\ verified(t) /\ found_by_id(access[t].sub)
            /\ req' = [req EXCEPT ![r] = Answered("me", t, 200)]
    /\ UNCHANGED <<dbVars, sessionHistory, access>>

AccessInit == access = [t \in TokenId |-> NULL]

AccessTypeOK == access \in [TokenId -> Claims \cup {NULL}]

=============================================================================
