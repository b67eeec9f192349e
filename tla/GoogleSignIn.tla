---------------------------- MODULE GoogleSignIn ----------------------------
(***************************************************************************)
(* GET /oauth/google/callback of crates/api/src/routes/auth.rs             *)
(* (google_callback and upsert_oauth_user).  Google is external: for the   *)
(* code in the query it returns a profile, with a stable subject and an    *)
(* address or none.  The account and refresh token that callback r creates *)
(* are named r.                                                            *)
(***************************************************************************)
EXTENDS Handlers

CONSTANTS Subjects   \* Google's ids of the people who sign in

VARIABLES
    oauth_identities, \* auth.oauth_identities: subject -> user_id, or NULL
    profile,          \* what Google told the handler of a request, or NULL
    overtaken         \* history: callbacks that had found no identity for their
                      \* subject when another callback made the first one

googleVars == <<oauth_identities, profile, overtaken>>
googleSignInVars == <<users, refresh_tokens, now, req, oauth_identities, profile, overtaken>>

\* GoogleProfile without name and picture, which no handler decides on, and
\* without email_verified, which none reads.
Profile == [sub : Subjects, email : Emails \cup {NULL}]

ASSUME ProfileAssumption == NULL \notin Profile

-----------------------------------------------------------------------------

\* Mutant: the lookup always misses.
finds_no_user_by_oauth(s, u) == FALSE

\* SELECT ... FROM oauth_identities JOIN users WHERE subject = s returns u.
find_user_by_oauth(s, u) == oauth_identities[s] = u /\ u # NULL

\* google_exchange_code fails, or yields a profile, which is looked up.
google_callback(r) ==
    /\ \/ Reject(r, "google_callback", into_response.Auth) /\ UNCHANGED profile
       \/ \E p \in Profile :
            /\ profile' = [profile EXCEPT ![r] = p]
            /\ \/ \E u \in UserId :
                    /\ find_user_by_oauth(p.sub, u)
                    /\ Enter(r, "google_callback", "upsert_oauth_identity", u, NULL, NULL)
               \/ /\ ~ \E u \in UserId : find_user_by_oauth(p.sub, u)
                  /\ Enter(r, "google_callback", "create_user", NULL, NULL, NULL)
    /\ UNCHANGED <<dbVars, oauth_identities, overtaken>>

\* An account without a password, verified if it has an address.  An address
\* that is taken is an error.
google_create_user(r) ==
    /\ At(r, "google_callback", "create_user")
    /\ LET e == profile[r].email IN
         \/ /\ create_user(r, e, NULL, "user", e # NULL)
            /\ req' = [req EXCEPT ![r].pc = "upsert_oauth_identity", ![r].user = r]
         \/ /\ EmailTaken(e)
            /\ req' = [req EXCEPT ![r].pc = "done", ![r].status = db_error]
            /\ UNCHANGED users
    /\ UNCHANGED <<refresh_tokens, now, googleVars>>

\* Mutant: ON CONFLICT also sets user_id.
upsert_moves_identity(s, u) == oauth_identities' = [oauth_identities EXCEPT ![s] = u]

\* INSERT ... ON CONFLICT (provider, subject) DO UPDATE leaves user_id alone.
upsert_oauth_identity(s, u) ==
    oauth_identities' = [oauth_identities EXCEPT ![s] = IF @ = NULL THEN u ELSE @]

\* Callbacks for subject s that go on without an identity.
Unlinked(s) == {q \in Requests : /\ req[q].op = "google_callback"
                                 /\ \/ req[q].pc = "create_user"
                                    \/ req[q].pc = "upsert_oauth_identity" /\ req[q].user = q
                                 /\ profile[q].sub = s}

google_link(r) ==
    /\ At(r, "google_callback", "upsert_oauth_identity")
    /\ LET s == profile[r].sub IN
         /\ upsert_oauth_identity(s, req[r].user)
         /\ overtaken' = IF oauth_identities[s] = NULL
                         THEN overtaken \cup (Unlinked(s) \ {r}) ELSE overtaken
    /\ Proceed(r, "store_refresh_token")
    /\ UNCHANGED <<dbVars, profile>>

\* No look at is_active: login refuses a disabled account, this does not.
google_issue_tokens(r) ==
    /\ req[r].op = "google_callback"
    /\ issue_tokens(r)
    /\ UNCHANGED googleVars

-----------------------------------------------------------------------------

GoogleTablesInit ==
    /\ oauth_identities = [s \in Subjects |-> NULL]
    /\ profile = [r \in Requests |-> NULL]
    /\ overtaken = {}

GoogleContinue(r) == google_create_user(r) \/ google_link(r) \/ google_issue_tokens(r)

GoogleStep(r) == google_callback(r) \/ GoogleContinue(r)

-----------------------------------------------------------------------------
(* Properties *)

\* The identities, the profiles and the history have their types.
GoogleTypeOK ==
    /\ oauth_identities \in [Subjects -> UserId \cup {NULL}]
    /\ profile \in [Requests -> Profile \cup {NULL}]
    /\ overtaken \subseteq Requests

=============================================================================
