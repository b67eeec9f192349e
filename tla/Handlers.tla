------------------------------ MODULE Handlers ------------------------------
(***************************************************************************)
(* How a request runs.  An axum handler is an async function: between two  *)
(* awaited statements any other request may run, and the handler may stop  *)
(* for good after any of them (a statement fails, the client disconnects   *)
(* and the future is dropped, the process exits).  req[r] is the           *)
(* activation record of the handler serving request r: pc names the next   *)
(* function of crates/db/src/users.rs it will call.  It is kept after the  *)
(* answer, so that properties can speak of finished requests.              *)
(***************************************************************************)
EXTENDS AuthDb

CONSTANTS
    RefreshTtl, \* settings.auth.jwt_refresh_ttl_days, in clock units
    MaxTime     \* bound of the model: the clock stops here

ASSUME TimeAssumption == RefreshTtl \in Nat \ {0} /\ MaxTime \in Nat

VARIABLES req

Op == {"none", "login", "refresh", "logout", "forgot_password", "reset_password",
       "register", "create_admin", "resend_verification", "verify_email", "google_callback",
       "list_users", "set_role", "set_active", "grant_permission", "me"}

Pc == {"idle", "done", "store_refresh_token", "revoke_refresh_token", "find_by_id",
       "store_password_reset_token", "update_password_hash", "revoke_all_refresh_tokens",
       "find_by_email", "store_email_verification_token", "mark_email_verified",
       "create_user", "upsert_oauth_identity",
       "permissions_for", "list_users", "set_role", "set_active", "grant_permission"}

\* ApiError::into_response: the status of each AppError.
into_response ==
    [NotFound |-> 404, Forbidden |-> 403, Unauthorized |-> 401, Validation |-> 422,
     ValidationFields |-> 422, Conflict |-> 409, BadRequest |-> 400, Storage |-> 500,
     FileProcessing |-> 500, Database |-> 500, Auth |-> 401, EmailNotVerified |-> 403,
     Internal |-> 500]

AppError == DOMAIN into_response

\* From<DbError>: no fetch_one of the handlers can miss its row, so RowNotFound,
\* which is NotFound, does not occur.
db_error == into_response.Database

\* 0: no answer, yet or ever.  A handler that was dropped, whose client hears
\* nothing, has the status of one that failed.
Status == {0, 200, 201, 204} \cup {into_response[e] : e \in AppError}

Request ==
    [op     : Op,
     pc     : Pc,
     user   : UserId \cup {NULL},   \* user id the handler works for, once it knows it
     token  : TokenId \cup {NULL},  \* one-time or refresh token it accepted or revokes
     phc    : Phc \cup {NULL},      \* login: the hash it verified; reset: the hash it sets;
                                    \* refresh: that of the login its session began with
                                    \* (history only, no code reads it)
     status : Status]

Idle == [op |-> "none", pc |-> "idle", user |-> NULL, token |-> NULL, phc |-> NULL,
         status |-> 0]

ReqTypeOK == req \in [Requests -> Request]

ReqInit == req = [r \in Requests |-> Idle]

InFlight(r) == req[r].pc \notin {"idle", "done"}

\* Request r, served by handler op, is about to make the call named next.
At(r, op, next) == req[r].op = op /\ req[r].pc = next

-----------------------------------------------------------------------------
(* The first statement of a handler decides whether it goes on.            *)

\* The handler goes on with call next, for user u, with token t and hash h.
Enter(r, op, next, u, t, h) ==
    /\ req[r].pc = "idle"
    /\ req' = [req EXCEPT ![r] = [op |-> op, pc |-> next, user |-> u, token |-> t,
                                  phc |-> h, status |-> 0]]

\* The record of a request answered by its first statement.
Answered(op, t, code) ==
    [op |-> op, pc |-> "done", user |-> NULL, token |-> t, phc |-> NULL, status |-> code]

\* The handler answers at once.  (A first statement that fails changes
\* nothing: the request might as well not have arrived.)
Reject(r, op, code) ==
    /\ req[r].pc = "idle"
    /\ req' = [req EXCEPT ![r] = Answered(op, NULL, code)]

\* A later statement was executed and the handler awaits the next one.
Proceed(r, next) == req' = [req EXCEPT ![r].pc = next]

\* The last statement was executed.  Its answer, or the whole response, may
\* still be lost on the way to the client: status 0 for ever.
Finish(r, code) ==
    \E s \in {code, 0} : req' = [req EXCEPT ![r].pc = "done", ![r].status = s]

\* The handler stops before its last statement has an effect: a statement
\* failed, the connection pool timed out, the future was dropped, or the
\* process exited.
Abort(r) ==
    /\ InFlight(r)
    /\ req' = [req EXCEPT ![r].pc = "done", ![r].status = db_error]
    /\ UNCHANGED dbVars

\* Mutant: the lifetime is subtracted.
issue_expired_tokens(r) ==
    /\ req[r].op \in {"login", "refresh", "google_callback"}
    /\ req[r].pc = "store_refresh_token"
    /\ store_refresh_token(r, req[r].user, now - RefreshTtl)
    /\ Finish(r, 200)
    /\ UNCHANGED <<users, now>>

\* The end of login, refresh and the Google callback.  The role in the access
\* token is left out: no handler reads it.
issue_tokens(r) ==
    /\ req[r].op \in {"login", "refresh", "google_callback"}
    /\ req[r].pc = "store_refresh_token"
    /\ store_refresh_token(r, req[r].user, now + RefreshTtl)
    /\ Finish(r, 200)
    /\ UNCHANGED <<users, now>>

\* Time passes; every expiry in the code compares with this clock.
Tick ==
    /\ now < MaxTime
    /\ now' = now + 1
    /\ UNCHANGED <<users, refresh_tokens, req>>

=============================================================================
