--------------------------- MODULE SessionsProofs ---------------------------
(***************************************************************************)
(* Proofs about Sessions, for every set of requests and accounts, every    *)
(* seed and every bound.                                                   *)
(***************************************************************************)
EXTENDS Sessions, HandlerProofs

\* A handler that is past its check knows whom it works for.
InFlightKnowsUser == \A r \in Requests : InFlight(r) => req[r].user # NULL

TypeInv == SessionTypeOK /\ InFlightKnowsUser

USE DEF TokenId

-----------------------------------------------------------------------------
(* What the helpers do to types                                            *)

\* Enter puts a well-typed activation record in place.
LEMMA EnterType ==
    ASSUME ReqTypeOK, InFlightKnowsUser,
           NEW r \in Requests, NEW op \in Op, NEW next \in Pc,
           NEW u \in UserId, NEW t \in TokenId \cup {NULL}, NEW h \in Phc \cup {NULL},
           Enter(r, op, next, u, t, h)
    PROVE  ReqTypeOK' /\ InFlightKnowsUser'
BY NullAssumption DEF Enter, ReqTypeOK, Request, InFlightKnowsUser, InFlight, Status

\* Reject puts a well-typed record in place.
LEMMA RejectType ==
    ASSUME ReqTypeOK, InFlightKnowsUser,
           NEW r \in Requests, NEW op \in Op, NEW code \in Status, Reject(r, op, code)
    PROVE  ReqTypeOK' /\ InFlightKnowsUser'
BY DEF Reject, Answered, ReqTypeOK, Request, InFlightKnowsUser, InFlight, Pc

\* A record in flight moves on.
LEMMA ProceedType ==
    ASSUME ReqTypeOK, InFlightKnowsUser,
           NEW r \in Requests, InFlight(r), NEW next \in Pc, Proceed(r, next)
    PROVE  ReqTypeOK' /\ InFlightKnowsUser'
BY DEF Proceed, ReqTypeOK, Request, InFlightKnowsUser, InFlight

\* A record ends.
LEMMA EndType ==
    ASSUME ReqTypeOK, InFlightKnowsUser, NEW r \in Requests, NEW code \in Status,
           req' = [req EXCEPT ![r].pc = "done", ![r].status = code]
    PROVE  ReqTypeOK' /\ InFlightKnowsUser'
<1>1. ReqTypeOK'
  <2>1. "done" \in Pc
    BY DEF Pc
  <2> QED BY <2>1, PcAndStatusType
<1>2. \A q \in Requests : /\ req'[q].user = req[q].user
                          /\ req'[q].pc = IF q = r THEN "done" ELSE req[q].pc
  BY DEF ReqTypeOK, Request
<1>3. InFlightKnowsUser'
  BY <1>2 DEF InFlightKnowsUser, InFlight
<1> QED BY <1>1, <1>3

\* The history keeps its types.
LEMMA NoteType ==
    ASSUME spender \in [TokenId -> Requests \cup {NULL}], raced \subseteq Requests,
           NEW r \in Requests, NEW S, Note(r, S)
    PROVE  /\ spender' \in [TokenId -> Requests \cup {NULL}]
           /\ raced' \subseteq Requests
BY DEF Note

-----------------------------------------------------------------------------

\* The initial state is well typed.
LEMMA InitType == SessionInit => TypeInv
BY SeedAssumption, NullAssumption
   DEF SessionInit, DbInit, ReqInit, Idle, TypeInv, SessionTypeOK, DbTypeOK, ReqTypeOK,
       Request, Op, Pc, Status, InFlightKnowsUser, InFlight, UserId

\* Every step keeps the types.
LEMMA NextType == TypeInv /\ [SessionNext]_sessionVars => TypeInv'
<1> SUFFICES ASSUME TypeInv, [SessionNext]_sessionVars PROVE TypeInv'
  OBVIOUS
<1> USE DEF TypeInv, SessionTypeOK, DbTypeOK
<1>1. CASE UNCHANGED sessionVars
  BY <1>1 DEF sessionVars, ReqTypeOK, InFlightKnowsUser, InFlight
<1>2. CASE Tick /\ UNCHANGED sessionHistory
  BY <1>2 DEF Tick, sessionHistory, ReqTypeOK, InFlightKnowsUser, InFlight
<1>3. ASSUME NEW r \in Requests, SessionStep(r) PROVE TypeInv'
  <2>1. CASE login(r)
    <3>1. UNCHANGED <<dbVars, sessionHistory>>
      BY <2>1 DEF login
    <3>2. CASE \E code \in {into_response.Auth, into_response.Forbidden} : Reject(r, "login", code)
      <4>1. "login" \in Op
        BY DEF Op
      <4> QED BY <3>1, <3>2, <4>1, RejectType, ErrorStatus DEF dbVars, sessionHistory
    <3>3. CASE \E u \in UserId : /\ users[u] # NULL
               /\ Enter(r, "login", "store_refresh_token", u, NULL, users[u].password_hash)
      <4>1. PICK u \in UserId : /\ users[u] # NULL
               /\ Enter(r, "login", "store_refresh_token", u, NULL, users[u].password_hash)
        BY <3>3
      <4>2. users[u].password_hash \in Phc \cup {NULL}
        BY <4>1 DEF UserRow
      <4>3. "login" \in Op /\ "store_refresh_token" \in Pc
        BY DEF Op, Pc
      <4> QED BY <3>1, <4>1, <4>2, <4>3, EnterType DEF dbVars, sessionHistory
    <3> QED BY <2>1, <3>2, <3>3 DEF login, Authenticates, found_by_email
  <2>2. CASE refresh(r)
    <3>1. UNCHANGED <<dbVars, sessionHistory>>
      BY <2>2 DEF refresh
    <3>2. CASE Reject(r, "refresh", into_response.Unauthorized)
      <4>1. "refresh" \in Op
        BY DEF Op
      <4> QED BY <3>1, <3>2, <4>1, RejectType, ErrorStatus DEF dbVars, sessionHistory
    <3>3. ASSUME NEW t \in Delivered, Rotatable(t),
                 Enter(r, "refresh", "revoke_refresh_token",
                       refresh_tokens[t].user_id, t, req[t].phc)
          PROVE  TypeInv'
      <4>1. t \in TokenId /\ refresh_tokens[t].user_id \in UserId
        BY <3>3 DEF Delivered, RefreshRow
      <4>2. req[t].phc \in Phc \cup {NULL}
        BY <4>1 DEF ReqTypeOK, Request
      <4>3. "refresh" \in Op /\ "revoke_refresh_token" \in Pc
        BY DEF Op, Pc
      <4> QED BY <3>1, <3>3, <4>1, <4>2, <4>3, EnterType DEF dbVars, sessionHistory
    <3> QED BY <2>2, <3>2, <3>3 DEF refresh
  <2>3. CASE logout(r)
    <3>1. PICK t \in Delivered \cup {NULL}, s \in {204, 0} :
             /\ revoke_refresh_token(t)
             /\ Note(r, {t})
             /\ req' = [req EXCEPT ![r] = Answered("logout", t, s)]
      BY <2>3 DEF logout
    <3>2. t \in TokenId \cup {NULL}
      BY DEF Delivered
    <3>3. ReqTypeOK' /\ InFlightKnowsUser'
      BY <3>1, <3>2
         DEF Answered, ReqTypeOK, Request, Op, Pc, Status, InFlightKnowsUser, InFlight
    <3> QED BY <2>3, <3>1, <3>3, RevokeType, NoteType DEF logout, revoke_refresh_token
  <2>4. CASE refresh_revoke(r)
    <3>1. ReqTypeOK' /\ InFlightKnowsUser'
      <4>1. InFlight(r) /\ Proceed(r, "find_by_id") /\ "find_by_id" \in Pc
        BY <2>4 DEF refresh_revoke, At, InFlight, Pc
      <4> QED BY <4>1, ProceedType
    <3> QED BY <2>4, <3>1, RevokeType, NoteType DEF refresh_revoke, revoke_refresh_token
  <2>5. CASE refresh_find_user(r)
    <3>1. ReqTypeOK' /\ InFlightKnowsUser'
      <4>1. InFlight(r) /\ Proceed(r, "store_refresh_token") /\ "store_refresh_token" \in Pc
        BY <2>5 DEF refresh_find_user, At, InFlight, Pc
      <4> QED BY <4>1, ProceedType
    <3> QED BY <2>5, <3>1 DEF refresh_find_user, dbVars, sessionHistory
  <2>6. CASE issue_session(r)
    <3>1. InFlight(r) /\ req[r].user \in UserId
      BY <2>6 DEF issue_session, issue_tokens, InFlight, InFlightKnowsUser, ReqTypeOK, Request
    <3>2. ReqTypeOK' /\ InFlightKnowsUser'
      <4>1. PICK s \in {200, 0} : req' = [req EXCEPT ![r].pc = "done", ![r].status = s]
        BY <2>6 DEF issue_session, issue_tokens, Finish
      <4>2. s \in Status
        BY DEF Status
      <4> QED BY <4>1, <4>2, EndType
    <3>3. refresh_tokens' \in [TokenId -> RefreshRow \cup {NULL}]
      BY <2>6, <3>1, TimeAssumption DEF issue_session, issue_tokens, store_refresh_token, RefreshRow
    <3> QED BY <2>6, <3>2, <3>3 DEF issue_session, issue_tokens, sessionHistory
  <2>7. CASE Abort(r) /\ UNCHANGED sessionHistory
    <3>1. ReqTypeOK' /\ InFlightKnowsUser'
      <4>1. req' = [req EXCEPT ![r].pc = "done", ![r].status = db_error]
        BY <2>7 DEF Abort
      <4> QED BY <4>1, ErrorStatus, EndType
    <3> QED BY <2>7, <3>1 DEF Abort, dbVars, sessionHistory
  <2> QED BY <1>3, <2>1, <2>2, <2>3, <2>4, <2>5, <2>6, <2>7 DEF SessionStep, SessionContinue
<1> QED BY <1>1, <1>2, <1>3 DEF SessionNext

\* The tables, the activation records and the history always have their types.
THEOREM TypeCorrect == SessionSpec => []SessionTypeOK
<1>1. TypeInv => SessionTypeOK
  BY DEF TypeInv
<1> QED BY <1>1, InitType, NextType, PTL DEF SessionSpec

-----------------------------------------------------------------------------
(* The inductive invariant of rotation                                     *)

\* A refresh of which the lookup succeeded and that did not give up before
\* its last statement: it is on its way to a new token, or has it.
Claiming(r) == req[r].op = "refresh" /\ (InFlight(r) \/ refresh_tokens[r] # NULL)

\* ... and the token it was given is revoked already.
PastRevoke(r) == Claiming(r) /\ req[r].pc # "revoke_refresh_token"

\* A row belongs to the request that minted it, and that request is over.
RowInv(r) ==
    refresh_tokens[r] # NULL =>
        req[r].pc = "done" /\ req[r].user = refresh_tokens[r].user_id

\* A token is revoked exactly when someone spent it.
SpenderInv(t) == spender[t] # NULL <=> (refresh_tokens[t] # NULL /\ refresh_tokens[t].revoked)

\* The token a refresh was given is its user's.
ClaimInv(r) ==
    Claiming(r) =>
        /\ req[r].token \in TokenId
        /\ refresh_tokens[req[r].token] # NULL
        /\ refresh_tokens[req[r].token].user_id = req[r].user

\* Before its revoke, a refresh that finds its token revoked has been raced;
\* after it, it is the spender or has been raced.
HeirInv(r) ==
    /\ \A t \in TokenId : Accepted(r, t) /\ refresh_tokens[t].revoked => r \in raced
    /\ PastRevoke(r) =>
         /\ refresh_tokens[req[r].token].revoked
         /\ spender[req[r].token] = r \/ r \in raced

RotationInv ==
    /\ TypeInv
    /\ \A r \in Requests : RowInv(r) /\ SpenderInv(r) /\ ClaimInv(r) /\ HeirInv(r)

-----------------------------------------------------------------------------
(* What a step of request r does to everybody else                         *)

\* It changes no other activation record; a row stays, keeps its owner and
\* stays revoked; it inserts no row but r's; the first spender is remembered;
\* and whoever had accepted a token that it revokes is noted as raced.
Frame(r) ==
    /\ \A q \in Requests \ {r} : req'[q] = req[q]
    /\ \A t \in TokenId : refresh_tokens[t] # NULL =>
         /\ refresh_tokens'[t] # NULL
         /\ refresh_tokens'[t].user_id = refresh_tokens[t].user_id
         /\ refresh_tokens[t].revoked => refresh_tokens'[t].revoked
    /\ \A t \in TokenId \ {r} : refresh_tokens[t] = NULL => refresh_tokens'[t] = NULL
    /\ \A t \in TokenId : spender[t] # NULL => spender'[t] = spender[t]
    /\ raced \subseteq raced'
    /\ \A q \in Requests \ {r}, t \in TokenId :
         Accepted(q, t) /\ ~refresh_tokens[t].revoked /\ refresh_tokens'[t].revoked
            => q \in raced'

\* A step with this frame keeps the invariant of every other request.
LEMMA OthersKeep ==
    ASSUME RotationInv, NEW r \in Requests, Frame(r),
           NEW q \in Requests, q # r
    PROVE  RowInv(q)' /\ ClaimInv(q)' /\ HeirInv(q)'
<1>1. req'[q] = req[q]
  BY DEF Frame
<1>2. refresh_tokens[q] # NULL <=> refresh_tokens'[q] # NULL
  BY DEF Frame
<1>3. Claiming(q)' <=> Claiming(q)
  BY <1>1, <1>2 DEF Claiming, InFlight
<1>4. RowInv(q)'
  BY <1>1, <1>2 DEF RotationInv, RowInv, Frame
<1>5. ClaimInv(q)'
  BY <1>1, <1>3 DEF RotationInv, ClaimInv, Frame
<1>6. ASSUME NEW t \in TokenId, Accepted(q, t)', refresh_tokens'[t].revoked
      PROVE  q \in raced'
  <2>1. Accepted(q, t)
    BY <1>1, <1>6 DEF Accepted, At
  <2>2. CASE refresh_tokens[t].revoked
    BY <2>1, <2>2 DEF RotationInv, HeirInv, Frame
  <2>3. CASE ~refresh_tokens[t].revoked
    BY <1>6, <2>1, <2>3 DEF Frame
  <2> QED BY <2>2, <2>3
<1>7. ASSUME PastRevoke(q)'
      PROVE  /\ refresh_tokens'[req'[q].token].revoked
             /\ spender'[req'[q].token] = q \/ q \in raced'
  <2>1. PastRevoke(q) /\ Claiming(q)
    BY <1>1, <1>3, <1>7 DEF PastRevoke
  <2> DEFINE old == req[q].token
  <2>2. old \in TokenId /\ refresh_tokens[old] # NULL
    BY <2>1 DEF RotationInv, ClaimInv
  <2>3. refresh_tokens[old].revoked /\ (spender[old] = q \/ q \in raced)
    BY <2>1 DEF RotationInv, HeirInv
  <2>4. spender[old] # NULL
    BY <2>2, <2>3 DEF RotationInv, SpenderInv
  <2> QED BY <1>1, <2>2, <2>3, <2>4 DEF Frame
<1> QED BY <1>4, <1>5, <1>6, <1>7 DEF HeirInv

\* A step that leaves tokens and history alone and changes only r's record.
LEMMA QuietFrame ==
    ASSUME UNCHANGED <<refresh_tokens, spender, raced>>, NEW r \in Requests,
           NEW rec, req' = [req EXCEPT ![r] = rec], ReqTypeOK
    PROVE  /\ Frame(r) /\ req'[r] = rec
           /\ (\A t \in TokenId : SpenderInv(t)) => (\A t \in TokenId : SpenderInv(t)')
BY DEF Frame, ReqTypeOK, SpenderInv

\* Revoking a set of tokens with a note of it has the frame.
LEMMA RevokeFrame ==
    ASSUME RotationInv, NEW r \in Requests, NEW S, Revoke(S), Note(r, S),
           \A q \in Requests \ {r} : req'[q] = req[q]
    PROVE  Frame(r) /\ \A t \in TokenId : SpenderInv(t)'
<1>1. \A t \in TokenId : refresh_tokens[t] # NULL =>
         /\ refresh_tokens'[t] # NULL
         /\ refresh_tokens'[t].user_id = refresh_tokens[t].user_id
         /\ refresh_tokens'[t].revoked = (t \in S \/ refresh_tokens[t].revoked)
  BY NullAssumption DEF Revoke, RotationInv, TypeInv, SessionTypeOK, DbTypeOK, RefreshRow
<1>2. \A t \in TokenId : refresh_tokens[t] = NULL => refresh_tokens'[t] = NULL
  BY DEF Revoke
<1>3. \A t \in TokenId : spender'[t] = IF t \in S /\ Live(t) THEN r ELSE spender[t]
  BY DEF Note
<1>4. \A t \in TokenId : spender[t] # NULL => spender'[t] = spender[t]
  BY <1>3 DEF RotationInv, SpenderInv, Live
<1>5. raced \subseteq raced'
  BY DEF Note
<1>6. \A q \in Requests \ {r}, t \in TokenId :
         Accepted(q, t) /\ ~refresh_tokens[t].revoked /\ refresh_tokens'[t].revoked
            => q \in raced'
  <2> SUFFICES ASSUME NEW q \in Requests \ {r}, NEW t \in TokenId, Accepted(q, t),
                      ~refresh_tokens[t].revoked, refresh_tokens'[t].revoked
               PROVE  q \in raced'
    OBVIOUS
  <2>1. refresh_tokens[t] # NULL
    BY DEF Accepted, At, RotationInv, ClaimInv, Claiming, InFlight
  <2> QED BY <1>1, <2>1 DEF Note
<1>7. ASSUME NEW t \in TokenId PROVE SpenderInv(t)'
  <2>1. r # NULL
    BY NullAssumption DEF UserId
  <2> QED BY <1>1, <1>2, <1>3, <2>1 DEF RotationInv, SpenderInv, Live
<1> QED BY <1>1, <1>2, <1>4, <1>5, <1>6, <1>7 DEF Frame

-----------------------------------------------------------------------------

\* A request that has not minted and is not a refresh in flight has nothing
\* to keep.
LEMMA NothingClaimed ==
    ASSUME NEW r \in Requests, refresh_tokens'[r] = NULL,
           req'[r].op # "refresh" \/ req'[r].pc = "done"
    PROVE  RowInv(r)' /\ ClaimInv(r)' /\ HeirInv(r)'
BY DEF RowInv, ClaimInv, HeirInv, PastRevoke, Claiming, InFlight, Accepted, At

\* The record that Enter puts in place.
LEMMA EnterRecord ==
    ASSUME NEW r, NEW op, NEW next, NEW u, NEW t, NEW h, Enter(r, op, next, u, t, h)
    PROVE  \E rec : /\ req' = [req EXCEPT ![r] = rec]
                    /\ rec.op = op /\ rec.pc = next /\ rec.user = u /\ rec.token = t
<1> DEFINE rec == [op |-> op, pc |-> next, user |-> u, token |-> t, phc |-> h, status |-> 0]
<1>1. req' = [req EXCEPT ![r] = rec]
  BY DEF Enter
<1>2. rec.op = op /\ rec.pc = next /\ rec.user = u /\ rec.token = t
  OBVIOUS
<1> HIDE DEF rec
<1> QED BY <1>1, <1>2

\* The record that Reject puts in place.
LEMMA RejectRecord ==
    ASSUME NEW r, NEW op, NEW code, Reject(r, op, code)
    PROVE  \E rec : req' = [req EXCEPT ![r] = rec] /\ rec.op = op /\ rec.pc = "done"
<1> DEFINE rec == Answered(op, NULL, code)
<1>1. req' = [req EXCEPT ![r] = rec]
  BY DEF Reject
<1>2. rec.op = op /\ rec.pc = "done"
  BY DEF Answered
<1> HIDE DEF rec
<1> QED BY <1>1, <1>2

\* An idle or aborting request that answers at once, or a login that starts.
LEMMA QuietEnd ==
    ASSUME RotationInv, TypeInv', NEW r \in Requests, refresh_tokens[r] = NULL,
           UNCHANGED <<refresh_tokens, spender, raced>>,
           NEW rec, req' = [req EXCEPT ![r] = rec],
           rec.op # "refresh" \/ rec.pc = "done"
    PROVE  RotationInv'
<1>1. ReqTypeOK
  BY DEF RotationInv, TypeInv, SessionTypeOK
<1>2. Frame(r) /\ req'[r] = rec /\ \A t \in TokenId : SpenderInv(t)'
  BY <1>1, QuietFrame DEF RotationInv
<1>3. RowInv(r)' /\ ClaimInv(r)' /\ HeirInv(r)'
  BY <1>2, NothingClaimed
<1> QED BY <1>2, <1>3, OthersKeep DEF RotationInv

\* Every step keeps the invariant.
LEMMA NextRotation == RotationInv /\ [SessionNext]_sessionVars => RotationInv'
<1> SUFFICES ASSUME RotationInv, [SessionNext]_sessionVars PROVE RotationInv'
  OBVIOUS
<1>1. TypeInv' /\ TypeInv
  BY NextType DEF RotationInv
<1>2. ReqTypeOK /\ DbTypeOK
  BY <1>1 DEF TypeInv, SessionTypeOK
<1>3. ASSUME UNCHANGED <<req, refresh_tokens, spender, raced>> PROVE RotationInv'
  BY <1>1, <1>3 DEF RotationInv, RowInv, SpenderInv, ClaimInv, HeirInv, PastRevoke, Claiming,
                    InFlight, Accepted, At
<1>4. CASE UNCHANGED sessionVars
  BY <1>3, <1>4 DEF sessionVars
<1>5. CASE Tick /\ UNCHANGED sessionHistory
  BY <1>3, <1>5 DEF Tick, sessionHistory
<1>6. ASSUME NEW r \in Requests, SessionStep(r) PROVE RotationInv'
  <2>1. CASE login(r)
    <3>1. UNCHANGED <<refresh_tokens, spender, raced>> /\ refresh_tokens[r] = NULL
      BY <2>1 DEF login, dbVars, sessionHistory, Reject, Enter, RotationInv, RowInv
    <3>2. \E rec : req' = [req EXCEPT ![r] = rec] /\ rec.op # "refresh"
      <4>1. CASE \E code : Reject(r, "login", code)
        BY <4>1, RejectRecord
      <4>2. CASE \E u, h : Enter(r, "login", "store_refresh_token", u, NULL, h)
        BY <4>2, EnterRecord
      <4> QED BY <2>1, <4>1, <4>2 DEF login
    <3> QED BY <1>1, <3>1, <3>2, QuietEnd
  <2>2. CASE refresh(r)
    <3>1. UNCHANGED <<refresh_tokens, spender, raced>> /\ refresh_tokens[r] = NULL
      BY <2>2 DEF refresh, dbVars, sessionHistory, Reject, Enter, RotationInv, RowInv
    <3>2. CASE Reject(r, "refresh", into_response.Unauthorized)
      <4>1. \E rec : req' = [req EXCEPT ![r] = rec] /\ rec.pc = "done"
        BY <3>2, RejectRecord
      <4> QED BY <1>1, <3>1, <4>1, QuietEnd
    <3>3. ASSUME NEW old \in Delivered, Rotatable(old),
                 Enter(r, "refresh", "revoke_refresh_token",
                       refresh_tokens[old].user_id, old, req[old].phc)
          PROVE  RotationInv'
      <4>1. PICK rec : /\ req' = [req EXCEPT ![r] = rec]
                       /\ rec.op = "refresh" /\ rec.pc = "revoke_refresh_token"
                       /\ rec.token = old /\ rec.user = refresh_tokens[old].user_id
        BY <3>3, EnterRecord
      <4>2. Frame(r) /\ req'[r] = rec /\ \A t \in TokenId : SpenderInv(t)'
        BY <1>2, <3>1, <4>1, QuietFrame DEF RotationInv
      <4>3. old \in TokenId /\ Live(old)
        BY <3>3 DEF Delivered, Rotatable
      <4>4. RowInv(r)' /\ ClaimInv(r)' /\ HeirInv(r)'
        BY <3>1, <4>1, <4>2, <4>3
           DEF RowInv, ClaimInv, HeirInv, PastRevoke, Accepted, At, Live
      <4> QED BY <1>1, <4>2, <4>4, OthersKeep DEF RotationInv
    <3> QED BY <2>2, <3>2, <3>3 DEF refresh
  <2>3. CASE logout(r)
    <3>1. PICK t \in Delivered \cup {NULL}, s \in {204, 0} :
             /\ Revoke({t})
             /\ Note(r, {t})
             /\ req' = [req EXCEPT ![r] = Answered("logout", t, s)]
      BY <2>3 DEF logout, revoke_refresh_token
    <3>2. Frame(r) /\ \A u \in TokenId : SpenderInv(u)'
      BY <1>2, <3>1, RevokeFrame DEF ReqTypeOK
    <3>3. refresh_tokens'[r] = NULL
      BY <2>3, <3>1 DEF logout, RotationInv, RowInv, Revoke
    <3>4. req'[r].op # "refresh"
      BY <1>2, <3>1 DEF ReqTypeOK, Answered
    <3> QED BY <1>1, <3>2, <3>3, <3>4, NothingClaimed, OthersKeep DEF RotationInv
  <2>4. CASE refresh_revoke(r)
    <3> DEFINE old == req[r].token
    <3>1. /\ req[r].op = "refresh" /\ req[r].pc = "revoke_refresh_token"
          /\ Revoke({old}) /\ Note(r, {old})
          /\ req' = [req EXCEPT ![r].pc = "find_by_id"]
      BY <2>4 DEF refresh_revoke, revoke_refresh_token, At, Proceed
    <3>2. Frame(r) /\ \A u \in TokenId : SpenderInv(u)'
      BY <1>2, <3>1, RevokeFrame DEF ReqTypeOK
    <3>3. /\ Claiming(r) /\ old \in TokenId /\ refresh_tokens[old] # NULL
          /\ refresh_tokens[old].user_id = req[r].user
      BY <3>1 DEF Claiming, InFlight, RotationInv, ClaimInv
    <3>4. refresh_tokens[r] = NULL /\ refresh_tokens'[r] = NULL
      BY <3>1 DEF RotationInv, RowInv, Revoke
    <3>5. /\ req'[r].op = "refresh" /\ req'[r].pc = "find_by_id"
          /\ req'[r].token = old /\ req'[r].user = req[r].user
      BY <1>2, <3>1 DEF ReqTypeOK, Request
    <3>6. refresh_tokens'[old].revoked
      BY <1>2, <3>1, <3>3 DEF Revoke, DbTypeOK, RefreshRow
    <3>7. spender'[old] = r \/ r \in raced'
      <4>1. CASE refresh_tokens[old].revoked
        BY <3>1, <3>2, <3>3, <4>1 DEF RotationInv, HeirInv, Accepted, At, Frame
      <4>2. CASE ~refresh_tokens[old].revoked
        BY <3>1, <3>3, <4>2 DEF Note, Live
      <4> QED BY <4>1, <4>2
    <3>8. RowInv(r)' /\ ClaimInv(r)' /\ HeirInv(r)'
      BY <3>2, <3>3, <3>4, <3>5, <3>6, <3>7
         DEF RowInv, ClaimInv, HeirInv, PastRevoke, Accepted, At, Frame
    <3> QED BY <1>1, <3>2, <3>8, OthersKeep DEF RotationInv
  <2>5. CASE refresh_find_user(r)
    <3>1. /\ req[r].op = "refresh" /\ req[r].pc = "find_by_id"
          /\ UNCHANGED <<refresh_tokens, spender, raced>>
          /\ req' = [req EXCEPT ![r].pc = "store_refresh_token"]
      BY <2>5 DEF refresh_find_user, At, Proceed, dbVars, sessionHistory
    <3>2. \A q \in Requests \ {r} : req'[q] = req[q]
      BY <1>2, <3>1 DEF ReqTypeOK
    <3>3. Frame(r) /\ \A t \in TokenId : SpenderInv(t)'
      BY <3>1, <3>2 DEF Frame, SpenderInv, RotationInv
    <3>4. /\ req'[r].op = "refresh" /\ req'[r].pc = "store_refresh_token"
          /\ req'[r].token = req[r].token /\ req'[r].user = req[r].user
      BY <1>2, <3>1 DEF ReqTypeOK, Request
    <3>5. PastRevoke(r) /\ Claiming(r) /\ refresh_tokens[r] = NULL
      BY <3>1 DEF PastRevoke, Claiming, InFlight, RotationInv, RowInv
    <3>6. RowInv(r)' /\ ClaimInv(r)' /\ HeirInv(r)'
      BY <3>1, <3>4, <3>5 DEF RotationInv, RowInv, ClaimInv, HeirInv, Accepted, At
    <3> QED BY <1>1, <3>3, <3>6, OthersKeep DEF RotationInv
  <2>6. CASE issue_session(r)
    <3>1. PICK s \in {200, 0} : req' = [req EXCEPT ![r].pc = "done", ![r].status = s]
      BY <2>6 DEF issue_session, issue_tokens, Finish
    <3>2. /\ req[r].pc = "store_refresh_token"
          /\ refresh_tokens' = [refresh_tokens EXCEPT ![r] =
                [user_id |-> req[r].user, expires_at |-> now + RefreshTtl, revoked |-> FALSE]]
          /\ UNCHANGED <<spender, raced>>
      BY <2>6 DEF issue_session, issue_tokens, store_refresh_token, sessionHistory
    <3>3. refresh_tokens[r] = NULL
      BY <3>2 DEF RotationInv, RowInv
    <3>4. \A q \in Requests \ {r} : req'[q] = req[q]
      BY <1>2, <3>1 DEF ReqTypeOK
    <3>5. \A t \in TokenId : t # r => refresh_tokens'[t] = refresh_tokens[t]
      BY <1>2, <3>2 DEF DbTypeOK
    <3>6. /\ refresh_tokens'[r] # NULL /\ refresh_tokens'[r].user_id = req[r].user
          /\ refresh_tokens'[r].revoked = FALSE
      <4>1. refresh_tokens'[r] =
              [user_id |-> req[r].user, expires_at |-> now + RefreshTtl, revoked |-> FALSE]
        BY <1>2, <3>2 DEF DbTypeOK
      <4>2. refresh_tokens'[r] \in RefreshRow
        <5>1. req[r].user \in UserId
          BY <1>1, <1>2, <3>2 DEF TypeInv, InFlightKnowsUser, InFlight, ReqTypeOK, Request
        <5>2. now + RefreshTtl \in Nat
          BY <1>2, TimeAssumption DEF DbTypeOK
        <5>3. [user_id |-> req[r].user, expires_at |-> now + RefreshTtl, revoked |-> FALSE]
                \in RefreshRow
          BY <5>1, <5>2 DEF RefreshRow
        <5> QED BY <4>1, <5>3
      <4>3. refresh_tokens'[r] # NULL
        BY <4>2, NullAssumption
      <4> QED BY <4>1, <4>3
    <3>7. /\ req'[r].op = req[r].op /\ req'[r].pc = "done"
          /\ req'[r].token = req[r].token /\ req'[r].user = req[r].user
      BY <1>2, <3>1 DEF ReqTypeOK, Request
    <3>8. Frame(r)
      <4>1. \A q \in Requests \ {r}, t \in TokenId : Accepted(q, t) => t # r
        BY <3>3 DEF RotationInv, ClaimInv, Claiming, InFlight, Accepted, At
      <4> QED BY <3>2, <3>3, <3>4, <3>5, <4>1 DEF Frame
    <3>9. \A t \in TokenId : SpenderInv(t)'
      BY <3>2, <3>3, <3>5, <3>6 DEF RotationInv, SpenderInv
    <3>10. RowInv(r)' /\ ~(\E t \in TokenId : Accepted(r, t)')
      BY <3>6, <3>7 DEF RowInv, Accepted, At
    <3>11. ASSUME Claiming(r)' PROVE ClaimInv(r)' /\ HeirInv(r)'
      <4>1. PastRevoke(r) /\ Claiming(r)
        BY <3>2, <3>7, <3>11 DEF PastRevoke, Claiming, InFlight
      <4>2. /\ req[r].token \in TokenId /\ req[r].token # r
            /\ refresh_tokens[req[r].token] # NULL
            /\ refresh_tokens[req[r].token].user_id = req[r].user
        BY <3>3, <4>1 DEF RotationInv, ClaimInv
      <4>3. /\ refresh_tokens[req[r].token].revoked
            /\ spender[req[r].token] = r \/ r \in raced
        BY <4>1 DEF RotationInv, HeirInv
      <4> QED BY <3>2, <3>5, <3>7, <3>10, <4>2, <4>3 DEF ClaimInv, HeirInv
    <3>12. ClaimInv(r)' /\ HeirInv(r)'
      BY <3>10, <3>11 DEF ClaimInv, HeirInv, PastRevoke
    <3> QED BY <1>1, <3>8, <3>9, <3>10, <3>12, OthersKeep DEF RotationInv
  <2>7. CASE Abort(r) /\ UNCHANGED sessionHistory
    <3>1. /\ req' = [req EXCEPT ![r].pc = "done", ![r].status = db_error]
          /\ UNCHANGED <<refresh_tokens, spender, raced>>
          /\ refresh_tokens[r] = NULL
      BY <2>7 DEF Abort, dbVars, sessionHistory, InFlight, RotationInv, RowInv
    <3>2. /\ \A q \in Requests \ {r} : req'[q] = req[q]
          /\ req'[r].pc = "done"
      BY <1>2, <3>1 DEF ReqTypeOK, Request
    <3>3. Frame(r) /\ \A t \in TokenId : SpenderInv(t)'
      BY <3>1, <3>2 DEF Frame, SpenderInv, RotationInv
    <3> QED BY <1>1, <3>1, <3>2, <3>3, NothingClaimed, OthersKeep DEF RotationInv
  <2> QED BY <1>6, <2>1, <2>2, <2>3, <2>4, <2>5, <2>6, <2>7 DEF SessionStep, SessionContinue
<1> QED BY <1>4, <1>5, <1>6 DEF SessionNext

\* No table holds anything at first, so nothing is claimed.
LEMMA InitRotation == SessionInit => RotationInv
BY InitType
   DEF SessionInit, DbInit, ReqInit, Idle, RotationInv, RowInv, SpenderInv, ClaimInv, HeirInv,
       PastRevoke, Claiming, InFlight, Accepted, At

\* The invariant holds in every reachable state.
THEOREM RotationInvariant == SessionSpec => []RotationInv
BY InitRotation, NextRotation, PTL DEF SessionSpec

\* The token a refresh was given is revoked once its successor exists, and
\* belongs to the same account.
THEOREM RefreshReplaces == SessionSpec => []RotationReplaces
<1>1. RotationInv => RotationReplaces
  BY DEF RotationInv, RotationReplaces, Succeeded, ClaimInv, HeirInv, PastRevoke, Claiming,
         RowInv
<1> QED BY <1>1, RotationInvariant, PTL

\* Of all requests that present a token, only the one that spends it and those
\* that raced with that one get a successor.
THEOREM TokenHasOneHeir == SessionSpec => []OneHeir
<1>1. RotationInv => OneHeir
  BY DEF RotationInv, OneHeir, Succeeded, HeirInv, PastRevoke, Claiming, RowInv
<1> QED BY <1>1, RotationInvariant, PTL

-----------------------------------------------------------------------------
(* Sessions implements TokenRotation                                       *)

\* A request that has not arrived is no refresh.
IdleInv == \A r \in Requests : req[r].pc = "idle" => req[r].op = "none"

\* Requests leave the idle state once and do not come back.
LEMMA NextIdle ==
    ASSUME TypeInv, IdleInv, [SessionNext]_sessionVars PROVE IdleInv'
<1>1. ReqTypeOK
  BY DEF TypeInv, SessionTypeOK
<1>2. CASE UNCHANGED req
  BY <1>2 DEF IdleInv
<1>3. ASSUME NEW r \in Requests, NEW rec, req' = [req EXCEPT ![r] = rec], rec.pc # "idle"
      PROVE  IdleInv'
  BY <1>1, <1>3 DEF IdleInv, ReqTypeOK
<1>4. ASSUME NEW r \in Requests, NEW next, Proceed(r, next), next # "idle" PROVE IdleInv'
  BY <1>1, <1>4 DEF IdleInv, ReqTypeOK, Request, Proceed
<1>5. ASSUME NEW r \in Requests, NEW code,
             req' = [req EXCEPT ![r].pc = "done", ![r].status = code]
      PROVE  IdleInv'
  <2>1. \A q \in Requests : /\ req'[q].op = req[q].op
                            /\ req'[q].pc = IF q = r THEN "done" ELSE req[q].pc
    BY <1>1, <1>5 DEF ReqTypeOK, Request
  <2> QED BY <2>1 DEF IdleInv
<1>6. ASSUME NEW r \in Requests, SessionStep(r) PROVE IdleInv'
  <2>1. CASE \E op, code : Reject(r, op, code)
    BY <1>3, <2>1, RejectRecord
  <2>2. CASE \E op, next, u, t, h : next # "idle" /\ Enter(r, op, next, u, t, h)
    BY <1>3, <2>2, EnterRecord
  <2>3. CASE logout(r)
    <3>1. PICK t, s : req' = [req EXCEPT ![r] = Answered("logout", t, s)]
      BY <2>3 DEF logout
    <3>2. Answered("logout", t, s).pc # "idle"
      BY DEF Answered
    <3> QED BY <1>3, <3>1, <3>2
  <2>4. CASE SessionContinue(r) \/ Abort(r)
    BY <1>4, <1>5, <2>4
       DEF SessionContinue, refresh_revoke, refresh_find_user, issue_session, issue_tokens, Finish, Abort
  <2> QED BY <1>6, <2>1, <2>2, <2>3, <2>4 DEF SessionStep, login, refresh
<1> QED BY <1>2, <1>6 DEF SessionNext, sessionVars, Tick

\* A step that changes neither a row nor the clock keeps every token's life.
LEMMA LifeKept == ASSUME UNCHANGED <<refresh_tokens, now>> PROVE Life' = Life
BY DEF Life

\* Revoking tokens kills those that live.
LEMMA RevokeKills ==
    ASSUME DbTypeOK, NEW S, Revoke(S), now' = now
    PROVE  Life' = [t \in TokenId |-> IF t \in S /\ Life[t] = "alive" THEN "dead" ELSE Life[t]]
<1>1. ASSUME NEW t \in TokenId
      PROVE  Life'[t] = IF t \in S /\ Life[t] = "alive" THEN "dead" ELSE Life[t]
  <2>1. CASE refresh_tokens[t] = NULL
    BY <2>1 DEF Life, Revoke
  <2>2. CASE refresh_tokens[t] # NULL
    <3>1. /\ refresh_tokens'[t] # NULL
          /\ refresh_tokens'[t].expires_at = refresh_tokens[t].expires_at
          /\ refresh_tokens'[t].revoked = (t \in S \/ refresh_tokens[t].revoked)
      BY <2>2, NullAssumption DEF Revoke, DbTypeOK, RefreshRow
    <3> QED BY <2>2, <3>1 DEF Life
  <2> QED BY <2>1, <2>2
<1> QED BY <1>1 DEF Life

\* As time passes living tokens die, and no other changes its life.
LEMMA TickKills ==
    ASSUME DbTypeOK, now' = now + 1, refresh_tokens' = refresh_tokens
    PROVE  \E S \in SUBSET {t \in TokenId : Life[t] = "alive"} :
             Life' = [t \in TokenId |-> IF t \in S THEN "dead" ELSE Life[t]]
<1> DEFINE S == {t \in TokenId : Life[t] = "alive" /\ Life'[t] = "dead"}
<1>1. ASSUME NEW t \in TokenId
      PROVE  Life'[t] = IF t \in S THEN "dead" ELSE Life[t]
  <2>1. CASE refresh_tokens[t] = NULL
    BY <2>1 DEF Life
  <2>2. CASE refresh_tokens[t] # NULL
    <3>1. refresh_tokens[t].expires_at \in Nat /\ now \in Nat
      BY <2>2 DEF DbTypeOK, RefreshRow
    <3> QED BY <2>2, <3>1 DEF Life
  <2> QED BY <2>1, <2>2
<1>2. Life' = [t \in TokenId |-> IF t \in S THEN "dead" ELSE Life[t]]
  BY <1>1 DEF Life
<1>3. S \in SUBSET {t \in TokenId : Life[t] = "alive"}
  OBVIOUS
<1> HIDE DEF S
<1> QED BY <1>2, <1>3

\* Claims stay when every record keeps its op and token, r's excepted if it
\* neither was nor becomes a claim.
LEMMA ClaimKept ==
    ASSUME NEW r \in Requests, \A q \in Requests \ {r} : req'[q] = req[q],
           \/ req'[r].op = req[r].op /\ req'[r].token = req[r].token
           \/ /\ req[r].op # "refresh"
              /\ req'[r].op = "refresh" => req'[r].token = NULL
    PROVE  ClaimedToken' = ClaimedToken
BY DEF ClaimedToken

\* Every step of Sessions is a step of TokenRotation or none.
LEMMA StepRefines ==
    ASSUME RotationInv, IdleInv, [SessionNext]_sessionVars
    PROVE  [Rotation!Next]_<<Life, ClaimedToken>>
<1> USE DEF Rotation!Next
<1>1. /\ ReqTypeOK /\ DbTypeOK
      /\ \A q \in Requests : req[q].pc = "idle" => req[q].op # "refresh"
  BY DEF RotationInv, TypeInv, SessionTypeOK, IdleInv
<1>2. CASE UNCHANGED sessionVars
  <2>1. Life' = Life /\ ClaimedToken' = ClaimedToken
    BY <1>2, LifeKept DEF sessionVars, ClaimedToken
  <2> QED BY <2>1
<1>3. CASE Tick /\ UNCHANGED sessionHistory
  <2>1. ClaimedToken' = ClaimedToken
    BY <1>3 DEF Tick, ClaimedToken
  <2>2. PICK S \in SUBSET {t \in TokenId : Life[t] = "alive"} :
          Life' = [t \in TokenId |-> IF t \in S THEN "dead" ELSE Life[t]]
    BY <1>1, <1>3, TickKills DEF Tick
  <2>3. Rotation!Kill(S)
    BY <2>1, <2>2 DEF Rotation!Kill
  <2> QED BY <2>2, <2>3 DEF Rotation!Living
<1>4. ASSUME NEW r \in Requests, SessionStep(r)
      PROVE  [Rotation!Next]_<<Life, ClaimedToken>>
  <2>1. ASSUME NEW op, NEW code, Reject(r, op, code), UNCHANGED dbVars
        PROVE  Life' = Life /\ ClaimedToken' = ClaimedToken
    <3>1. Life' = Life
      BY <2>1, LifeKept DEF dbVars
    <3>2. /\ \A q \in Requests \ {r} : req'[q] = req[q]
          /\ req'[r].token = NULL
          /\ req[r].op # "refresh"
      BY <1>1, <2>1 DEF Reject, Answered, ReqTypeOK
    <3> QED BY <3>1, <3>2, ClaimKept
  <2>2. CASE login(r)
    <3>1. UNCHANGED dbVars
      BY <2>2 DEF login
    <3>2. ASSUME NEW u, NEW h, Enter(r, "login", "store_refresh_token", u, NULL, h)
          PROVE  Life' = Life /\ ClaimedToken' = ClaimedToken
      <4>1. Life' = Life
        BY <3>1, LifeKept DEF dbVars
      <4>2. /\ \A q \in Requests \ {r} : req'[q] = req[q]
            /\ req'[r].op = "login" /\ req[r].op # "refresh"
        BY <1>1, <3>2 DEF Enter, ReqTypeOK
      <4> QED BY <4>1, <4>2, ClaimKept
    <3> QED BY <2>1, <2>2, <3>1, <3>2 DEF login
  <2>3. CASE refresh(r)
    <3>1. UNCHANGED dbVars
      BY <2>3 DEF refresh
    <3>2. ASSUME NEW old \in Delivered, NEW u, NEW h, Rotatable(old),
                 Enter(r, "refresh", "revoke_refresh_token", u, old, h)
          PROVE  Rotation!Next
      <4>1. Life' = Life
        BY <3>1, LifeKept DEF dbVars
      <4>2. /\ \A q \in Requests \ {r} : req'[q] = req[q]
            /\ req'[r].op = "refresh" /\ req'[r].token = old
            /\ req[r].pc = "idle" /\ req[r].op # "refresh"
        BY <1>1, <3>2 DEF Enter, ReqTypeOK
      <4>3. ClaimedToken' = [ClaimedToken EXCEPT ![r] = old]
        BY <4>2 DEF ClaimedToken
      <4>4. old \in TokenId /\ refresh_tokens[old].expires_at \in Nat /\ now \in Nat
        BY <1>1, <3>2 DEF Delivered, DbTypeOK, RefreshRow
      <4>5. Life[old] = "alive"
        BY <3>2, <4>4 DEF Rotatable, Live, Life
      <4>6. Life[r] = "unborn" /\ ClaimedToken[r] = NULL
        BY <4>2 DEF Life, ClaimedToken, RotationInv, RowInv
      <4>7. Rotation!Claim(r, old)
        BY <4>1, <4>3, <4>5, <4>6 DEF Rotation!Claim
      <4> QED BY <4>4, <4>7
    <3> QED BY <2>1, <2>3, <3>1, <3>2 DEF refresh
  <2>4. ASSUME NEW S, Revoke(S), now' = now, ClaimedToken' = ClaimedToken
        PROVE  Rotation!Next
    <3> DEFINE T == {t \in TokenId : t \in S /\ Life[t] = "alive"}
    <3>1. Life' = [t \in TokenId |-> IF t \in T THEN "dead" ELSE Life[t]]
      BY <1>1, <2>4, RevokeKills
    <3>2. Rotation!Kill(T)
      BY <2>4, <3>1 DEF Rotation!Kill
    <3>3. T \in SUBSET Rotation!Living
      BY DEF Rotation!Living
    <3> QED BY <3>2, <3>3
  <2>5. CASE logout(r)
    <3>1. PICK t \in Delivered \cup {NULL}, s \in {204, 0} :
             Revoke({t}) /\ req' = [req EXCEPT ![r] = Answered("logout", t, s)]
      BY <2>5 DEF logout, revoke_refresh_token
    <3>2. /\ \A q \in Requests \ {r} : req'[q] = req[q]
          /\ req'[r].op = "logout" /\ req[r].op # "refresh"
      BY <1>1, <2>5, <3>1 DEF logout, ReqTypeOK, Answered
    <3>3. ClaimedToken' = ClaimedToken
      BY <3>2, ClaimKept
    <3> QED BY <2>4, <2>5, <3>1, <3>3 DEF logout
  <2>6. ASSUME NEW next, Proceed(r, next) PROVE ClaimedToken' = ClaimedToken
    <3>1. /\ \A q \in Requests \ {r} : req'[q] = req[q]
          /\ req'[r].op = req[r].op /\ req'[r].token = req[r].token
      BY <1>1, <2>6 DEF Proceed, ReqTypeOK, Request
    <3> QED BY <3>1, ClaimKept
  <2>7. ASSUME NEW code, req' = [req EXCEPT ![r].pc = "done", ![r].status = code]
        PROVE  ClaimedToken' = ClaimedToken
    <3>1. /\ \A q \in Requests \ {r} : req'[q] = req[q]
          /\ req'[r].op = req[r].op /\ req'[r].token = req[r].token
      BY <1>1, <2>7 DEF ReqTypeOK, Request
    <3> QED BY <3>1, ClaimKept
  <2>8. CASE refresh_revoke(r)
    BY <2>4, <2>6, <2>8 DEF refresh_revoke, revoke_refresh_token
  <2>9. CASE refresh_find_user(r)
    <3>1. Life' = Life /\ ClaimedToken' = ClaimedToken
      BY <2>6, <2>9, LifeKept DEF refresh_find_user, dbVars
    <3> QED BY <3>1
  <2>10. CASE Abort(r) /\ UNCHANGED sessionHistory
    <3>1. Life' = Life /\ ClaimedToken' = ClaimedToken
      BY <2>7, <2>10, LifeKept DEF Abort, dbVars
    <3> QED BY <3>1
  <2>11. CASE issue_session(r)
    <3>1. ClaimedToken' = ClaimedToken
      BY <2>7, <2>11 DEF issue_session, issue_tokens, Finish
    <3>2. /\ req[r].pc = "store_refresh_token" /\ now' = now
          /\ refresh_tokens' = [refresh_tokens EXCEPT ![r] =
                [user_id |-> req[r].user, expires_at |-> now + RefreshTtl, revoked |-> FALSE]]
      BY <2>11 DEF issue_session, issue_tokens, store_refresh_token
    <3>3. Life[r] = "unborn"
      BY <3>2 DEF RotationInv, RowInv, Life
    <3>4. Life' = [Life EXCEPT ![r] = "alive"]
      <4>1. \A t \in TokenId : t # r => refresh_tokens'[t] = refresh_tokens[t]
        BY <1>1, <3>2 DEF DbTypeOK
      <4>2. refresh_tokens'[r] =
              [user_id |-> req[r].user, expires_at |-> now + RefreshTtl, revoked |-> FALSE]
        BY <1>1, <3>2 DEF DbTypeOK
      <4>3. refresh_tokens'[r].expires_at = now + RefreshTtl /\ ~refresh_tokens'[r].revoked
        BY <4>2
      <4>4. refresh_tokens'[r] # NULL
        <5>1. req[r].user \in UserId /\ now + RefreshTtl \in Nat
          BY <1>1, <3>2, TimeAssumption
             DEF RotationInv, TypeInv, InFlightKnowsUser, InFlight, ReqTypeOK, Request, DbTypeOK
        <5>2. [user_id |-> req[r].user, expires_at |-> now + RefreshTtl, revoked |-> FALSE]
                \in RefreshRow
          BY <5>1 DEF RefreshRow
        <5>3. refresh_tokens'[r] \in RefreshRow
          BY <4>2, <5>2
        <5> QED BY <5>3, NullAssumption
      <4>5. ~(now + RefreshTtl <= now)
        BY <1>1, TimeAssumption DEF DbTypeOK
      <4>6. Life'[r] = "alive"
        BY <3>2, <4>3, <4>4, <4>5 DEF Life
      <4>7. \A t \in TokenId : t # r => Life'[t] = Life[t]
        BY <3>2, <4>1 DEF Life
      <4> QED BY <4>6, <4>7 DEF Life
    <3>5. CASE ClaimedToken[r] = NULL
      <4>1. Rotation!Grant(r)
        BY <3>1, <3>3, <3>4, <3>5 DEF Rotation!Grant
      <4> QED BY <4>1
    <3>6. CASE ClaimedToken[r] # NULL
      <4>1. PastRevoke(r) /\ ClaimedToken[r] = req[r].token
        BY <3>2, <3>6 DEF ClaimedToken, PastRevoke, Claiming, InFlight
      <4>2. /\ req[r].token \in TokenId /\ refresh_tokens[req[r].token] # NULL
            /\ refresh_tokens[req[r].token].revoked
        BY <4>1 DEF RotationInv, ClaimInv, HeirInv, PastRevoke
      <4>3. Life[ClaimedToken[r]] = "dead"
        BY <4>1, <4>2 DEF Life
      <4>4. Rotation!Succeed(r)
        BY <3>1, <3>3, <3>4, <3>6, <4>3 DEF Rotation!Succeed
      <4> QED BY <4>4
    <3> QED BY <3>5, <3>6
  <2> QED BY <1>4, <2>2, <2>3, <2>5, <2>8, <2>9, <2>10, <2>11 DEF SessionStep, SessionContinue
<1> QED BY <1>2, <1>3, <1>4 DEF SessionNext

\* Refresh tokens keep the promises of TokenRotation, whatever the interleaving.
THEOREM SessionsImplementRotation == SessionSpec => RotationRefined
<1>1. SessionInit => IdleInv /\ Rotation!Init
  <2> SUFFICES ASSUME SessionInit PROVE IdleInv /\ Rotation!Init
    OBVIOUS
  <2>1. \A r \in Requests : req[r].op = "none"
    BY DEF SessionInit, ReqInit, Idle
  <2> QED BY <2>1 DEF SessionInit, DbInit, IdleInv, Rotation!Init, Life, ClaimedToken
<1>2. RotationInv => TypeInv
  BY DEF RotationInv
<1>3. RotationInv /\ IdleInv /\ [SessionNext]_sessionVars
        => IdleInv' /\ [Rotation!Next]_<<Life, ClaimedToken>>
  BY <1>2, NextIdle, StepRefines
<1> QED BY <1>1, <1>3, RotationInvariant, PTL
        DEF SessionSpec, RotationRefined, Rotation!Spec, Rotation!rotationVars

=============================================================================
