---------------------------- MODULE HandlerProofs ----------------------------
(***************************************************************************)
(* What the steps of Handlers and the statements of AuthDb do, field by    *)
(* field: the lemmas that the proofs about every component rest on.        *)
(***************************************************************************)
EXTENDS Handlers, TLAPS

USE DEF TokenId

-----------------------------------------------------------------------------
(* Activation records                                                      *)

\* Every answer of the handlers is a status.
LEMMA StatusCodes ==
    /\ {0, 200, 201, 204, db_error} \subseteq Status
    /\ \A e \in AppError : into_response[e] \in Status
BY DEF into_response, AppError, db_error, Status

\* The errors by name.
LEMMA ErrorStatus ==
    {into_response.Auth, into_response.Forbidden, into_response.Unauthorized,
     into_response.ValidationFields, into_response.BadRequest, into_response.EmailNotVerified,
     db_error} \subseteq Status
BY DEF into_response, AppError, db_error, Status

\* The fields of a record have their types.
LEMMA Fields ==
    ASSUME ReqTypeOK, NEW r \in Requests
    PROVE  /\ req[r].user \in UserId \cup {NULL}
           /\ req[r].token \in TokenId \cup {NULL}
           /\ req[r].phc \in Phc \cup {NULL}
BY DEF ReqTypeOK, Request

\* Enter fills in the whole record of a request that was idle.
LEMMA EnterEffect ==
    ASSUME ReqTypeOK, NEW r \in Requests, NEW op \in Op, NEW next \in Pc,
           NEW u \in UserId \cup {NULL}, NEW t \in TokenId \cup {NULL}, NEW h \in Phc \cup {NULL},
           Enter(r, op, next, u, t, h)
    PROVE  /\ ReqTypeOK'
           /\ req[r].pc = "idle"
           /\ \A q \in Requests \ {r} : req'[q] = req[q]
           /\ req'[r].op = op /\ req'[r].pc = next /\ req'[r].user = u
           /\ req'[r].token = t /\ req'[r].phc = h /\ req'[r].status = 0
<1> DEFINE rec == [op |-> op, pc |-> next, user |-> u, token |-> t, phc |-> h, status |-> 0]
<1>1. req' = [req EXCEPT ![r] = rec] /\ req[r].pc = "idle"
  BY DEF Enter
<1>2. rec \in Request
  BY StatusCodes DEF Request
<1>3. /\ rec.op = op /\ rec.pc = next /\ rec.user = u
      /\ rec.token = t /\ rec.phc = h /\ rec.status = 0
  OBVIOUS
<1> HIDE DEF rec
<1> QED BY <1>1, <1>2, <1>3 DEF ReqTypeOK

\* A record that ends at once.
LEMMA AnsweredEffect ==
    ASSUME ReqTypeOK, NEW r \in Requests, NEW op \in Op, NEW t \in TokenId \cup {NULL},
           NEW code \in Status, req' = [req EXCEPT ![r] = Answered(op, t, code)]
    PROVE  /\ ReqTypeOK'
           /\ \A q \in Requests \ {r} : req'[q] = req[q]
           /\ req'[r].op = op /\ req'[r].pc = "done" /\ req'[r].user = NULL
           /\ req'[r].token = t /\ req'[r].phc = NULL /\ req'[r].status = code
<1> DEFINE rec == Answered(op, t, code)
<1>1. "done" \in Pc
  BY DEF Pc
<1>2. rec \in Request
  BY <1>1 DEF Request, Answered
<1>3. /\ rec.op = op /\ rec.pc = "done" /\ rec.user = NULL
      /\ rec.token = t /\ rec.phc = NULL /\ rec.status = code
  BY DEF Answered
<1>4. req' = [req EXCEPT ![r] = rec]
  OBVIOUS
<1> HIDE DEF rec
<1> QED BY <1>2, <1>3, <1>4 DEF ReqTypeOK

\* Reject answers a request that was idle.
LEMMA RejectEffect ==
    ASSUME ReqTypeOK, NEW r \in Requests, NEW op \in Op, NEW code \in Status,
           Reject(r, op, code)
    PROVE  /\ ReqTypeOK'
           /\ req[r].pc = "idle"
           /\ \A q \in Requests \ {r} : req'[q] = req[q]
           /\ req'[r].op = op /\ req'[r].pc = "done" /\ req'[r].user = NULL
           /\ req'[r].token = NULL /\ req'[r].phc = NULL /\ req'[r].status = code
BY AnsweredEffect DEF Reject

\* Proceed changes the program counter alone.
LEMMA ProceedEffect ==
    ASSUME ReqTypeOK, NEW r \in Requests, NEW next \in Pc, Proceed(r, next)
    PROVE  /\ ReqTypeOK'
           /\ \A q \in Requests \ {r} : req'[q] = req[q]
           /\ req'[r].op = req[r].op /\ req'[r].pc = next /\ req'[r].user = req[r].user
           /\ req'[r].token = req[r].token /\ req'[r].phc = req[r].phc
           /\ req'[r].status = req[r].status
BY DEF Proceed, ReqTypeOK, Request

\* Proceed, for a handler that has learnt whom it works for.
LEMMA ProceedForEffect ==
    ASSUME ReqTypeOK, NEW r \in Requests, NEW next \in Pc, NEW u \in UserId \cup {NULL},
           req' = [req EXCEPT ![r].pc = next, ![r].user = u]
    PROVE  /\ ReqTypeOK'
           /\ \A q \in Requests \ {r} : req'[q] = req[q]
           /\ req'[r].op = req[r].op /\ req'[r].pc = next /\ req'[r].user = u
           /\ req'[r].token = req[r].token /\ req'[r].phc = req[r].phc
           /\ req'[r].status = req[r].status
<1>1. ReqTypeOK'
  BY DEF ReqTypeOK, Request
<1>2. /\ \A q \in Requests \ {r} : req'[q] = req[q]
      /\ req'[r].op = req[r].op /\ req'[r].pc = next /\ req'[r].user = u
      /\ req'[r].token = req[r].token /\ req'[r].phc = req[r].phc
      /\ req'[r].status = req[r].status
  BY DEF ReqTypeOK, Request
<1> QED BY <1>1, <1>2

\* A record with another program counter and status is still a record.
LEMMA PcAndStatusType ==
    ASSUME ReqTypeOK, NEW r \in Requests, NEW next \in Pc, NEW code \in Status,
           req' = [req EXCEPT ![r].pc = next, ![r].status = code]
    PROVE  ReqTypeOK'
BY DEF ReqTypeOK, Request

\* A record ends and keeps the rest.
LEMMA EndEffect ==
    ASSUME ReqTypeOK, NEW r \in Requests, NEW code \in Status,
           req' = [req EXCEPT ![r].pc = "done", ![r].status = code]
    PROVE  /\ ReqTypeOK'
           /\ \A q \in Requests \ {r} : req'[q] = req[q]
           /\ req'[r].op = req[r].op /\ req'[r].pc = "done" /\ req'[r].user = req[r].user
           /\ req'[r].token = req[r].token /\ req'[r].phc = req[r].phc
           /\ req'[r].status = code
<1>1. ReqTypeOK'
  <2>1. "done" \in Pc
    BY DEF Pc
  <2> QED BY <2>1, PcAndStatusType
<1>2. /\ \A q \in Requests \ {r} : req'[q] = req[q]
      /\ req'[r].op = req[r].op /\ req'[r].pc = "done" /\ req'[r].user = req[r].user
      /\ req'[r].token = req[r].token /\ req'[r].phc = req[r].phc
      /\ req'[r].status = code
  BY DEF ReqTypeOK, Request
<1> QED BY <1>1, <1>2

\* Finish ends the record with its code or, when the answer is lost, with none.
LEMMA FinishEffect ==
    ASSUME ReqTypeOK, NEW r \in Requests, NEW code \in Status, Finish(r, code)
    PROVE  /\ ReqTypeOK'
           /\ \A q \in Requests \ {r} : req'[q] = req[q]
           /\ req'[r].op = req[r].op /\ req'[r].pc = "done" /\ req'[r].user = req[r].user
           /\ req'[r].token = req[r].token /\ req'[r].phc = req[r].phc
           /\ req'[r].status \in {code, 0}
<1>1. PICK s \in {code, 0} : req' = [req EXCEPT ![r].pc = "done", ![r].status = s]
  BY DEF Finish
<1>2. s \in Status
  BY StatusCodes
<1> QED BY <1>1, <1>2, EndEffect

\* Abort ends the record of a request in flight and touches no table.
LEMMA AbortEffect ==
    ASSUME ReqTypeOK, NEW r \in Requests, Abort(r)
    PROVE  /\ ReqTypeOK' /\ InFlight(r) /\ UNCHANGED dbVars
           /\ \A q \in Requests \ {r} : req'[q] = req[q]
           /\ req'[r].op = req[r].op /\ req'[r].pc = "done" /\ req'[r].user = req[r].user
           /\ req'[r].token = req[r].token /\ req'[r].phc = req[r].phc
           /\ req'[r].status = db_error
BY EndEffect, ErrorStatus DEF Abort

-----------------------------------------------------------------------------
(* Statements on users                                                     *)

\* A row of users is not NULL, and neither is a hash, an id or a refresh row.
LEMMA RowsExist ==
    /\ \A row \in UserRow : row # NULL
    /\ \A h \in Phc : h # NULL
    /\ \A u \in UserId : u # NULL
    /\ \A row \in RefreshRow : row # NULL
BY NullAssumption

\* update_password_hash changes the hash of one row, if it is there.
LEMMA UpdatePasswordEffect ==
    ASSUME users \in [UserId -> UserRow \cup {NULL}], NEW u \in UserId, NEW h \in Phc,
           update_password_hash(u, h)
    PROVE  /\ users' \in [UserId -> UserRow \cup {NULL}]
           /\ \A v \in UserId : v # u => users'[v] = users[v]
           /\ users[u] = NULL => users'[u] = NULL
           /\ users[u] # NULL => /\ users'[u] # NULL /\ users'[u].password_hash = h
                                 /\ users'[u].email = users[u].email
<1>1. ASSUME NEW row \in UserRow
      PROVE  /\ [row EXCEPT !.password_hash = h] \in UserRow
             /\ [row EXCEPT !.password_hash = h].password_hash = h
             /\ [row EXCEPT !.password_hash = h].email = row.email
  BY DEF UserRow
<1> QED BY <1>1, RowsExist DEF update_password_hash

\* set_role changes the role of one row, if it is there.
LEMMA SetRoleEffect ==
    ASSUME users \in [UserId -> UserRow \cup {NULL}], NEW u \in UserId, NEW role \in Role,
           set_role(u, role)
    PROVE  /\ users' \in [UserId -> UserRow \cup {NULL}]
           /\ \A v \in UserId : v # u => users'[v] = users[v]
           /\ users[u] = NULL => users'[u] = NULL
           /\ users[u] # NULL => users'[u] # NULL /\ users'[u].role = role
           /\ \A v \in UserId : users[v] # NULL =>
                /\ users'[v].email = users[v].email
                /\ users'[v].password_hash = users[v].password_hash
                /\ users'[v].is_active = users[v].is_active
                /\ users'[v].email_verified = users[v].email_verified
<1>1. ASSUME NEW row \in UserRow
      PROVE  /\ [row EXCEPT !.role = role] \in UserRow
             /\ [row EXCEPT !.role = role].role = role
             /\ [row EXCEPT !.role = role].email = row.email
             /\ [row EXCEPT !.role = role].password_hash = row.password_hash
             /\ [row EXCEPT !.role = role].is_active = row.is_active
             /\ [row EXCEPT !.role = role].email_verified = row.email_verified
  BY DEF UserRow
<1> QED BY <1>1, RowsExist DEF set_role

\* set_active changes the flag of one row, if it is there.
LEMMA SetActiveEffect ==
    ASSUME users \in [UserId -> UserRow \cup {NULL}], NEW u \in UserId, NEW active \in BOOLEAN,
           set_active(u, active)
    PROVE  /\ users' \in [UserId -> UserRow \cup {NULL}]
           /\ \A v \in UserId : v # u => users'[v] = users[v]
           /\ users[u] = NULL => users'[u] = NULL
           /\ users[u] # NULL => users'[u] # NULL /\ users'[u].is_active = active
           /\ \A v \in UserId : users[v] # NULL =>
                /\ users'[v].email = users[v].email
                /\ users'[v].password_hash = users[v].password_hash
                /\ users'[v].role = users[v].role
                /\ users'[v].email_verified = users[v].email_verified
<1>1. ASSUME NEW row \in UserRow
      PROVE  /\ [row EXCEPT !.is_active = active] \in UserRow
             /\ [row EXCEPT !.is_active = active].is_active = active
             /\ [row EXCEPT !.is_active = active].email = row.email
             /\ [row EXCEPT !.is_active = active].password_hash = row.password_hash
             /\ [row EXCEPT !.is_active = active].role = row.role
             /\ [row EXCEPT !.is_active = active].email_verified = row.email_verified
  BY DEF UserRow
<1> QED BY <1>1, RowsExist DEF set_active

\* mark_email_verified changes the flag of one row, if it is there.
LEMMA MarkVerifiedEffect ==
    ASSUME users \in [UserId -> UserRow \cup {NULL}], NEW u \in UserId, mark_email_verified(u)
    PROVE  /\ users' \in [UserId -> UserRow \cup {NULL}]
           /\ \A v \in UserId : v # u => users'[v] = users[v]
           /\ users[u] = NULL => users'[u] = NULL
           /\ users[u] # NULL => users'[u] # NULL /\ users'[u].email_verified = TRUE
           /\ \A v \in UserId : users[v] # NULL =>
                /\ users'[v].email = users[v].email
                /\ users'[v].password_hash = users[v].password_hash
                /\ users'[v].role = users[v].role
                /\ users'[v].is_active = users[v].is_active
<1>1. ASSUME NEW row \in UserRow
      PROVE  /\ [row EXCEPT !.email_verified = TRUE] \in UserRow
             /\ [row EXCEPT !.email_verified = TRUE].email_verified = TRUE
             /\ [row EXCEPT !.email_verified = TRUE].email = row.email
             /\ [row EXCEPT !.email_verified = TRUE].password_hash = row.password_hash
             /\ [row EXCEPT !.email_verified = TRUE].role = row.role
             /\ [row EXCEPT !.email_verified = TRUE].is_active = row.is_active
  BY DEF UserRow
<1> QED BY <1>1, RowsExist DEF mark_email_verified

\* create_user inserts one row, whose address no other row has.
LEMMA CreateUserEffect ==
    ASSUME users \in [UserId -> UserRow \cup {NULL}],
           NEW u \in UserId, NEW e \in Emails \cup {NULL}, NEW phc \in Phc \cup {NULL},
           NEW role \in Role, NEW verified, verified \in BOOLEAN,
           create_user(u, e, phc, role, verified)
    PROVE  /\ users' \in [UserId -> UserRow \cup {NULL}]
           /\ \A v \in UserId : v # u => users'[v] = users[v]
           /\ users'[u] # NULL
           /\ users'[u].email = e /\ users'[u].password_hash = phc /\ users'[u].role = role
           /\ users'[u].is_active /\ users'[u].email_verified = verified
           /\ e # NULL => \A v \in UserId : users[v] # NULL => users[v].email # e
<1> DEFINE row == [email |-> e, password_hash |-> phc, role |-> role, is_active |-> TRUE,
                   email_verified |-> verified]
<1>1. row \in UserRow
  BY DEF UserRow
<1>2. /\ row.email = e /\ row.password_hash = phc /\ row.role = role
      /\ row.is_active = TRUE /\ row.email_verified = verified
  OBVIOUS
<1>3. users' = [users EXCEPT ![u] = row] /\ ~ EmailTaken(e)
  BY DEF create_user
<1> HIDE DEF row
<1>4. e # NULL => \A v \in UserId : users[v] # NULL => users[v].email # e
  BY <1>3 DEF EmailTaken, found_by_email
<1> QED BY <1>1, <1>2, <1>3, <1>4, RowsExist

-----------------------------------------------------------------------------
(* Statements on refresh_tokens                                            *)

\* Revoking keeps the table well typed.
LEMMA RevokeType ==
    ASSUME refresh_tokens \in [TokenId -> RefreshRow \cup {NULL}], NEW S, Revoke(S)
    PROVE  refresh_tokens' \in [TokenId -> RefreshRow \cup {NULL}]
BY DEF Revoke, RefreshRow

\* store_refresh_token inserts one row.
LEMMA StoreTokenEffect ==
    ASSUME refresh_tokens \in [TokenId -> RefreshRow \cup {NULL}],
           NEW h \in TokenId, NEW u \in UserId, NEW exp \in Nat, store_refresh_token(h, u, exp)
    PROVE  /\ refresh_tokens' \in [TokenId -> RefreshRow \cup {NULL}]
           /\ \A t \in TokenId : t # h => refresh_tokens'[t] = refresh_tokens[t]
           /\ refresh_tokens'[h] # NULL
           /\ refresh_tokens'[h].user_id = u /\ refresh_tokens'[h].expires_at = exp
           /\ refresh_tokens'[h].revoked = FALSE
<1> DEFINE row == [user_id |-> u, expires_at |-> exp, revoked |-> FALSE]
<1>1. row \in RefreshRow /\ row.user_id = u /\ row.expires_at = exp /\ row.revoked = FALSE
  BY DEF RefreshRow
<1>2. refresh_tokens' = [refresh_tokens EXCEPT ![h] = row]
  BY DEF store_refresh_token
<1> HIDE DEF row
<1> QED BY <1>1, <1>2, RowsExist

\* issue_tokens inserts the token of a request that knows its account, and ends it.
LEMMA IssueTokensEffect ==
    ASSUME ReqTypeOK, DbTypeOK, NEW r \in Requests, req[r].user # NULL, issue_tokens(r)
    PROVE  /\ ReqTypeOK' /\ DbTypeOK' /\ UNCHANGED <<users, now>>
           /\ InFlight(r) /\ req[r].pc = "store_refresh_token"
           /\ req[r].op \in {"login", "refresh", "google_callback"}
           /\ \A q \in Requests \ {r} : req'[q] = req[q]
           /\ req'[r].op = req[r].op /\ req'[r].pc = "done" /\ req'[r].user = req[r].user
           /\ req'[r].token = req[r].token /\ req'[r].phc = req[r].phc
           /\ req'[r].status \in {200, 0}
           /\ \A t \in TokenId : t # r => refresh_tokens'[t] = refresh_tokens[t]
           /\ refresh_tokens'[r] # NULL /\ refresh_tokens'[r].user_id = req[r].user
           /\ refresh_tokens'[r].expires_at = now + RefreshTtl
           /\ refresh_tokens'[r].revoked = FALSE
<1>1. req[r].user \in UserId /\ now + RefreshTtl \in Nat
  BY Fields, TimeAssumption DEF DbTypeOK
<1>2. /\ store_refresh_token(r, req[r].user, now + RefreshTtl) /\ Finish(r, 200)
      /\ UNCHANGED <<users, now>> /\ req[r].pc = "store_refresh_token"
      /\ req[r].op \in {"login", "refresh", "google_callback"}
  BY DEF issue_tokens
<1>3. /\ refresh_tokens' \in [TokenId -> RefreshRow \cup {NULL}]
      /\ \A t \in TokenId : t # r => refresh_tokens'[t] = refresh_tokens[t]
      /\ refresh_tokens'[r] # NULL /\ refresh_tokens'[r].user_id = req[r].user
      /\ refresh_tokens'[r].expires_at = now + RefreshTtl
      /\ refresh_tokens'[r].revoked = FALSE
  BY <1>1, <1>2, StoreTokenEffect DEF DbTypeOK
<1>4. /\ ReqTypeOK' /\ \A q \in Requests \ {r} : req'[q] = req[q]
      /\ req'[r].op = req[r].op /\ req'[r].pc = "done" /\ req'[r].user = req[r].user
      /\ req'[r].token = req[r].token /\ req'[r].phc = req[r].phc
      /\ req'[r].status \in {200, 0}
  BY <1>2, FinishEffect, StatusCodes
<1> QED BY <1>2, <1>3, <1>4 DEF DbTypeOK, InFlight

=============================================================================
