------------------------- MODULE PasswordResetProofs -------------------------
(***************************************************************************)
(* Proofs about PasswordReset, for every set of requests, accounts and     *)
(* passwords, every seed and every bound.                                  *)
(***************************************************************************)
EXTENDS PasswordReset, HandlerProofs

USE DEF TokenId

-----------------------------------------------------------------------------
(* The inductive invariant                                                 *)

\* The row of a token belongs to the forgot-password request that drew it,
\* which is over and was for the account of the row.
IssuedInv(t) ==
    password_reset_tokens[t] # NULL =>
        req[t].op = "forgot_password" /\ req[t].pc = "done" /\ req[t].user = ResetUser(t)

\* A mail is that of a forgot-password request for the account at the address it
\* goes to; once it is more than a draft its token has a row.
MailInv(t) ==
    mail[t] # NULL =>
        /\ req[t].op = "forgot_password" /\ req[t].pc # "idle" /\ req[t].user # NULL
        /\ mail[t].to = users[req[t].user].email
        /\ mail[t].state # "drafted" => password_reset_tokens[t] # NULL

\* A forgot-password request that goes on does so for an account with a password.
ForgotInv(r) ==
    /\ req[r].op = "forgot_password" /\ req[r].user # NULL =>
         users[req[r].user] # NULL /\ users[req[r].user].password_hash # NULL
    /\ At(r, "forgot_password", "store_password_reset_token") =>
         req[r].user # NULL /\ mail[r] # NULL

\* A token that was redeemed is used up and came by mail; who redeemed it works
\* for its account and sets a hash of its own salt.
RedeemInv(q) ==
    Redeemed(q) =>
        /\ req[q].pc # "idle"
        /\ req[q].token \in TokenId /\ req[q].token \in Mailed
        /\ password_reset_tokens[req[q].token] # NULL
        /\ password_reset_tokens[req[q].token].used
        /\ req[q].user = ResetUser(req[q].token)
        /\ req[q].phc \in Phc /\ req[q].phc.salt = q

\* A reset past its first statement has redeemed a token.
ResettingInv(q) ==
    InFlight(q) /\ req[q].op = "reset_password" => req[q].token # NULL

\* A token that is used up was redeemed, and a reset that is past the update and
\* did not fail has left a password that a reset stored.
UsedInv(t) ==
    password_reset_tokens[t] # NULL /\ password_reset_tokens[t].used =>
        \E q \in Requests : Redeemed(q) /\ req[q].token = t

StoredInv(q) ==
    Redeemed(q) /\ req[q].pc # "update_password_hash"
        /\ (req[q].pc = "done" => req[q].status # db_error) => SetByReset(req[q].user)

\* The hash of an account is its first, or was set by a reset for that account.
HashInv(u) ==
    /\ users[u] # NULL
    /\ LET h == users[u].password_hash IN
         h # Seed[u].password_hash =>
            h.salt \in Requests /\ Redeemed(h.salt) /\ req[h.salt].phc = h /\ req[h.salt].user = u

ResetInv ==
    /\ ResetTypeOK
    /\ \A t \in TokenId : IssuedInv(t) /\ MailInv(t) /\ UsedInv(t)
    /\ \A r \in Requests : ForgotInv(r) /\ RedeemInv(r) /\ ResettingInv(r) /\ StoredInv(r)
    /\ \A u \in Accounts : HashInv(u)
    /\ ResetTokenSingleUse
    /\ OAuthOnlyStaysPasswordless

-----------------------------------------------------------------------------
(* The initial state                                                       *)

\* No token, no mail, no request, and every account as it was seeded.
LEMMA InitReset == ResetInit => ResetInv
<1> SUFFICES ASSUME ResetInit PROVE ResetInv
  OBVIOUS
<1> USE DEF ResetInit, DbInit, ReqInit, ResetTablesInit
<1>1. DbTypeOK
  BY SeedAssumption DEF DbTypeOK, UserId
<1>2. ReqTypeOK
  BY DEF ReqTypeOK, Request, Idle, Op, Pc, Status
<1>3. \A r \in Requests : /\ req[r].op = "none" /\ req[r].pc = "idle"
                          /\ password_reset_tokens[r] = NULL /\ mail[r] = NULL
  BY DEF Idle
<1>4. ASSUME NEW u \in Accounts
      PROVE  HashInv(u) /\ (Seed[u].password_hash = NULL => users[u].password_hash = NULL)
  <2>1. users[u] = Seed[u] /\ Seed[u] \in UserRow
    BY SeedAssumption DEF UserId
  <2> QED BY <2>1, RowsExist DEF HashInv
<1>5. ResetTypeOK
  BY <1>1, <1>2 DEF ResetTypeOK
<1>6. \A t \in TokenId : IssuedInv(t) /\ MailInv(t) /\ UsedInv(t)
  BY <1>3 DEF IssuedInv, MailInv, UsedInv
<1>7. \A r \in Requests :
         ForgotInv(r) /\ RedeemInv(r) /\ ResettingInv(r) /\ StoredInv(r) /\ ~Redeemed(r)
  BY <1>3 DEF ForgotInv, RedeemInv, ResettingInv, StoredInv, Redeemed, At
<1> QED BY <1>4, <1>5, <1>6, <1>7 DEF ResetInv, ResetTokenSingleUse, OAuthOnlyStaysPasswordless

-----------------------------------------------------------------------------
(* What a step of request r leaves alone                                   *)

\* It changes no other activation record; a token keeps its row, its account
\* and its use; no row appears but r's; the other mails stay as they are, and of
\* r's the address and the delivery; an account, its address and its having a
\* password stay.
Frame(r) ==
    /\ \A q \in Requests \ {r} : req'[q] = req[q]
    /\ \A t \in TokenId : password_reset_tokens[t] # NULL =>
         /\ password_reset_tokens'[t] # NULL
         /\ password_reset_tokens'[t].user_id = password_reset_tokens[t].user_id
         /\ password_reset_tokens[t].used => password_reset_tokens'[t].used
    /\ \A t \in TokenId \ {r} : password_reset_tokens[t] = NULL => password_reset_tokens'[t] = NULL
    /\ \A t \in TokenId \ {r} : mail'[t] = mail[t]
    /\ mail[r] # NULL =>
         /\ mail'[r] # NULL /\ mail'[r].to = mail[r].to
         /\ mail[r].state = "delivered" => mail'[r].state = "delivered"
    /\ \A u \in UserId : users[u] # NULL =>
         /\ users'[u] # NULL /\ users'[u].email = users[u].email
         /\ users[u].password_hash # NULL => users'[u].password_hash # NULL

\* Request r still works with the token, account and hash it had.
SameClaim(r) ==
    /\ req'[r].op = req[r].op /\ req'[r].user = req[r].user
    /\ req'[r].token = req[r].token /\ req'[r].phc = req[r].phc

\* A reset token's row is not NULL.
LEMMA ResetRowExists == \A row \in ResetRow : row # NULL
BY ResetRowAssumption

\* A mail is not NULL.
LEMMA ResetMailExists == \A m \in ResetMail : m # NULL
BY ResetRowAssumption

\* A mail that was delivered stays so.
LEMMA MailedStays ==
    ASSUME NEW r \in Requests, Frame(r), NEW t \in Mailed PROVE t \in Mailed'
BY DEF Frame, Mailed

\* The accounts that requests work for are ids.
LEMMA UserIsId ==
    ASSUME ReqTypeOK, NEW r \in Requests, req[r].user # NULL PROVE req[r].user \in UserId
BY Fields

\* A step with this frame keeps what the invariant says of every other request.
LEMMA OthersKeep ==
    ASSUME ResetInv, NEW r \in Requests, Frame(r), NEW q \in Requests, q # r
    PROVE  IssuedInv(q)' /\ MailInv(q)' /\ ForgotInv(q)' /\ RedeemInv(q)' /\ ResettingInv(q)'
<1>1. req'[q] = req[q] /\ mail'[q] = mail[q]
  BY DEF Frame
<1>2. IssuedInv(q) /\ MailInv(q) /\ ForgotInv(q) /\ RedeemInv(q) /\ ResettingInv(q) /\ ReqTypeOK
  BY DEF ResetInv, ResetTypeOK
<1>3. IssuedInv(q)'
  BY <1>1, <1>2 DEF Frame, IssuedInv, ResetUser
<1>4. MailInv(q)'
  <2> SUFFICES ASSUME mail[q] # NULL PROVE MailInv(q)'
    BY <1>1 DEF MailInv
  <2>1. req[q].user \in UserId /\ users[req[q].user] # NULL
    BY <1>2, UserIsId DEF MailInv, ForgotInv
  <2> QED BY <1>1, <1>2, <2>1 DEF Frame, MailInv
<1>5. ForgotInv(q)'
  BY <1>1, <1>2, UserIsId DEF Frame, ForgotInv, At
<1>6. RedeemInv(q)'
  BY <1>1, <1>2, MailedStays DEF Frame, RedeemInv, Redeemed, ResetUser
<1>7. ResettingInv(q)'
  BY <1>1, <1>2 DEF ResettingInv, InFlight
<1> QED BY <1>3, <1>4, <1>5, <1>6, <1>7

\* A request in flight that goes on or ends keeps it, too.
LEMMA SelfKeeps ==
    ASSUME ResetInv, NEW r \in Requests, Frame(r), SameClaim(r), InFlight(r),
           req'[r].pc \notin {"idle", "store_password_reset_token"}
    PROVE  /\ ForgotInv(r)' /\ RedeemInv(r)' /\ ResettingInv(r)'
           /\ mail'[r] = mail[r] => MailInv(r)'
<1>1. ForgotInv(r) /\ RedeemInv(r) /\ ResettingInv(r) /\ MailInv(r) /\ ReqTypeOK
  BY DEF ResetInv, ResetTypeOK
<1>2. ForgotInv(r)'
  BY <1>1, UserIsId DEF Frame, SameClaim, ForgotInv, At
<1>3. RedeemInv(r)'
  BY <1>1, MailedStays DEF Frame, SameClaim, RedeemInv, Redeemed, ResetUser
<1>4. ResettingInv(r)'
  BY <1>1 DEF SameClaim, ResettingInv, InFlight
<1>5. ASSUME mail'[r] = mail[r], mail[r] # NULL PROVE MailInv(r)'
  <2>1. req[r].user \in UserId /\ users[req[r].user] # NULL
    BY <1>1, <1>5, UserIsId DEF MailInv, ForgotInv
  <2> QED BY <1>1, <1>5, <2>1 DEF Frame, SameClaim, MailInv
<1>6. mail'[r] = mail[r] => MailInv(r)'
  BY <1>5 DEF MailInv
<1> QED BY <1>2, <1>3, <1>4, <1>6

\* A request that is not over has no row and nobody has redeemed its token; one
\* that has not begun has no mail.
LEMMA NothingIssued ==
    ASSUME ResetInv, NEW r \in Requests, req[r].pc # "done"
    PROVE  /\ password_reset_tokens[r] = NULL
           /\ ~(\E q \in Requests : Redeemed(q) /\ req[q].token = r)
           /\ req[r].pc = "idle" => mail[r] = NULL
BY DEF ResetInv, ResetTypeOK, IssuedInv, MailInv, RedeemInv

\* A password that a reset stored is replaced only by another such.
LEMMA StoredStays ==
    ASSUME ResetInv, NEW r \in Requests, \A q \in Requests \ {r} : req'[q] = req[q],
           req[r].pc = "idle" \/ SameClaim(r),
           NEW u, users'[u].password_hash = users[u].password_hash, SetByReset(u)
    PROVE  SetByReset(u)'
<1>1. PICK p \in Requests :
        Redeemed(p) /\ req[p].user = u /\ users[u].password_hash = req[p].phc
  BY DEF SetByReset
<1>2. p = r => req[r].pc # "idle"
  BY <1>1 DEF ResetInv, RedeemInv
<1>3. Redeemed(p)' /\ req'[p].user = u /\ req'[p].phc = req[p].phc
  BY <1>1, <1>2 DEF SameClaim, Redeemed
<1> QED BY <1>1, <1>3 DEF SetByReset

\* What a step that uses up no token and stores no password leaves of the two.
LEMMA SpendKeeps ==
    ASSUME ResetInv, NEW r \in Requests, \A q \in Requests \ {r} : req'[q] = req[q],
           users' = users,
           \/ req[r].pc = "idle" /\ ~Redeemed(r)'
           \/ SameClaim(r) /\ req'[r].pc = req[r].pc /\ req'[r].status = req[r].status
           \/ /\ SameClaim(r) /\ InFlight(r) /\ req'[r].pc = "done"
              /\ req[r].pc # "update_password_hash" \/ req'[r].status = db_error,
           \A t \in TokenId : password_reset_tokens'[t] # NULL /\ password_reset_tokens'[t].used =>
                password_reset_tokens[t] # NULL /\ password_reset_tokens[t].used
    PROVE  (\A t \in TokenId : UsedInv(t)') /\ (\A q \in Requests : StoredInv(q)')
<1>1. \A q \in Requests : Redeemed(q) =>
        Redeemed(q)' /\ req'[q].token = req[q].token /\ req'[q].user = req[q].user
  BY DEF ResetInv, RedeemInv, SameClaim, Redeemed
<1>2. \A t \in TokenId : UsedInv(t)'
  BY <1>1 DEF ResetInv, UsedInv
<1>3. ASSUME NEW q \in Requests PROVE StoredInv(q)'
  <2> SUFFICES ASSUME Redeemed(q)', req'[q].pc # "update_password_hash",
                      req'[q].pc = "done" => req'[q].status # db_error
               PROVE  SetByReset(req[q].user)' /\ req'[q].user = req[q].user
    BY DEF StoredInv, SetByReset
  <2>1. /\ Redeemed(q) /\ req'[q].user = req[q].user /\ req[q].pc # "update_password_hash"
        /\ req[q].pc = "done" => req[q].status # db_error
    BY DEF SameClaim, Redeemed, InFlight
  <2>2. SetByReset(req[q].user)
    BY <2>1 DEF ResetInv, StoredInv
  <2>3. PICK u : u = req[q].user
    OBVIOUS
  <2>4. SetByReset(u)'
    BY <2>2, <2>3, StoredStays
  <2> QED BY <2>1, <2>3, <2>4
<1> QED BY <1>2, <1>3

\* The hash of an account that the step leaves alone keeps its explanation.
LEMMA HashKeeps ==
    ASSUME ResetInv, NEW r \in Requests, \A q \in Requests \ {r} : req'[q] = req[q],
           req[r].pc = "idle" \/ SameClaim(r),
           NEW u \in Accounts, users'[u] = users[u]
    PROVE  HashInv(u)'
<1>1. HashInv(u) /\ RedeemInv(r)
  BY DEF ResetInv
<1>2. \A q \in Requests : Redeemed(q) =>
         Redeemed(q)' /\ req'[q].phc = req[q].phc /\ req'[q].user = req[q].user
  BY <1>1 DEF SameClaim, Redeemed, RedeemInv
<1> QED BY <1>1, <1>2 DEF HashInv

\* Tokens stay single-use if nobody redeems one.
LEMMA SingleUseKeeps ==
    ASSUME ResetInv, NEW r \in Requests, \A q \in Requests \ {r} : req'[q] = req[q],
           SameClaim(r) \/ ~Redeemed(r)'
    PROVE  ResetTokenSingleUse'
<1>1. \A q \in Requests : Redeemed(q)' => Redeemed(q) /\ req'[q].token = req[q].token
  BY DEF SameClaim, Redeemed
<1> QED BY <1>1 DEF ResetInv, ResetTokenSingleUse

\* A step that leaves users alone keeps what depends on the hashes.
LEMMA UsersKept ==
    ASSUME ResetInv, users' = users, NEW r \in Requests,
           \A q \in Requests \ {r} : req'[q] = req[q], req[r].pc = "idle" \/ SameClaim(r)
    PROVE  (\A u \in Accounts : HashInv(u)') /\ OAuthOnlyStaysPasswordless'
BY HashKeeps DEF ResetInv, OAuthOnlyStaysPasswordless

-----------------------------------------------------------------------------
(* The steps                                                               *)

\* What forgot_password makes of an activation record.
LEMMA ForgotEnters ==
    ASSUME ReqTypeOK, NEW r \in Requests, NEW u \in UserId,
           Enter(r, "forgot_password", "store_password_reset_token", u, NULL, NULL)
    PROVE  /\ ReqTypeOK' /\ req[r].pc = "idle" /\ \A q \in Requests \ {r} : req'[q] = req[q]
           /\ req'[r].op = "forgot_password" /\ req'[r].user = u /\ req'[r].pc # "idle"
<1>1. "forgot_password" \in Op /\ "store_password_reset_token" \in Pc \ {"idle"}
  BY DEF Op, Pc
<1> QED BY <1>1, EnterEffect

\* Every step keeps the invariant.
LEMMA NextReset == ResetInv /\ [ResetNext]_passwordResetVars => ResetInv'
<1> SUFFICES ASSUME ResetInv, [ResetNext]_passwordResetVars PROVE ResetInv'
  OBVIOUS
<1>1. /\ DbTypeOK /\ ReqTypeOK
      /\ users \in [UserId -> UserRow \cup {NULL}]
      /\ password_reset_tokens \in [TokenId -> ResetRow \cup {NULL}]
      /\ mail \in [TokenId -> ResetMail \cup {NULL}]
  BY DEF ResetInv, ResetTypeOK, DbTypeOK
<1>2. ASSUME UNCHANGED <<users, req, password_reset_tokens, mail>>, DbTypeOK' PROVE ResetInv'
  BY <1>2
     DEF ResetInv, ResetTypeOK, ReqTypeOK, IssuedInv, ResetUser, MailInv, ForgotInv, At,
         RedeemInv, Redeemed, Mailed, ResettingInv, InFlight, HashInv, ResetTokenSingleUse,
         OAuthOnlyStaysPasswordless, UsedInv, StoredInv, SetByReset
<1>3. CASE UNCHANGED passwordResetVars
  BY <1>1, <1>2, <1>3 DEF passwordResetVars, DbTypeOK
<1>4. CASE Tick /\ UNCHANGED resetVars
  BY <1>1, <1>2, <1>4 DEF Tick, resetVars, DbTypeOK
<1>5. ASSUME NEW r \in Requests, UNCHANGED <<dbVars, password_reset_tokens>>, req[r].pc = "idle",
             ReqTypeOK', \A q \in Requests \ {r} : req'[q] = req[q],
             mail' \in [TokenId -> ResetMail \cup {NULL}],
             \A t \in TokenId \ {r} : mail'[t] = mail[t],
             MailInv(r)', ForgotInv(r)', ~Redeemed(r)', ResettingInv(r)'
      PROVE  ResetInv'
  <2>1. mail[r] = NULL /\ password_reset_tokens[r] = NULL
    BY <1>5, NothingIssued
  <2>2. Frame(r) /\ ResetTypeOK'
    BY <1>1, <1>5, <2>1 DEF Frame, ResetTypeOK, DbTypeOK, dbVars
  <2>3. IssuedInv(r)'
    BY <1>5, <2>1 DEF IssuedInv
  <2>4. RedeemInv(r)'
    BY <1>5 DEF RedeemInv
  <2>5. (\A u \in Accounts : HashInv(u)') /\ OAuthOnlyStaysPasswordless'
    BY <1>5, UsersKept DEF dbVars
  <2>6. (\A t \in TokenId : UsedInv(t)') /\ (\A q \in Requests : StoredInv(q)')
    BY <1>5, SpendKeeps DEF dbVars
  <2> QED BY <1>5, <2>2, <2>3, <2>4, <2>5, <2>6, OthersKeep, SingleUseKeeps DEF ResetInv
<1>6. ASSUME NEW r \in Requests, NEW op \in Op, NEW code \in Status, Reject(r, op, code),
             UNCHANGED <<dbVars, resetVars>>
      PROVE  ResetInv'
  <2>1. /\ ReqTypeOK' /\ req[r].pc = "idle" /\ \A q \in Requests \ {r} : req'[q] = req[q]
        /\ req'[r].pc = "done" /\ req'[r].token = NULL /\ req'[r].user = NULL
    BY <1>1, <1>6, RejectEffect
  <2>2. mail'[r] = NULL /\ mail' = mail /\ UNCHANGED password_reset_tokens
    BY <1>6, <2>1, NothingIssued DEF resetVars
  <2> QED BY <1>1, <1>5, <1>6, <2>1, <2>2
          DEF MailInv, ForgotInv, At, Redeemed, ResettingInv, InFlight
<1>7. ASSUME NEW r \in Requests, ResetStep(r) PROVE ResetInv'
  <2>1. CASE forgot_password(r)
    <3>1. UNCHANGED <<dbVars, password_reset_tokens>>
      BY <2>1 DEF forgot_password
    <3>2. CASE Reject(r, "forgot_password", 204) /\ UNCHANGED mail
      <4>1. "forgot_password" \in Op /\ 204 \in Status
        BY DEF Op, Status
      <4>2. UNCHANGED <<dbVars, resetVars>>
        BY <3>1, <3>2 DEF resetVars
      <4> QED BY <1>6, <3>2, <4>1, <4>2
    <3>3. ASSUME NEW u \in UserId, NEW e \in Emails, Resettable(u, e),
                 mail' = [mail EXCEPT ![r] = [to |-> e, state |-> "drafted"]],
                 Enter(r, "forgot_password", "store_password_reset_token", u, NULL, NULL)
          PROVE  ResetInv'
      <4>1. /\ ReqTypeOK' /\ req[r].pc = "idle" /\ \A q \in Requests \ {r} : req'[q] = req[q]
            /\ req'[r].op = "forgot_password" /\ req'[r].user = u /\ req'[r].pc # "idle"
        BY <1>1, <3>3, ForgotEnters
      <4>2. users'[u] # NULL /\ users'[u].password_hash # NULL /\ users'[u].email = e /\ u # NULL
        BY <3>1, <3>3, RowsExist DEF Resettable, found_by_email, dbVars
      <4> DEFINE m == [to |-> e, state |-> "drafted"]
      <4>3. m \in ResetMail /\ m.to = e /\ m.state = "drafted"
        BY DEF ResetMail
      <4>4. mail' = [mail EXCEPT ![r] = m]
        BY <3>3
      <4> HIDE DEF m
      <4>5. /\ mail' \in [TokenId -> ResetMail \cup {NULL}] /\ mail'[r] = m /\ m # NULL
            /\ \A t \in TokenId \ {r} : mail'[t] = mail[t]
        BY <1>1, <4>3, <4>4, ResetMailExists
      <4>6. MailInv(r)' /\ ForgotInv(r)' /\ ~Redeemed(r)' /\ ResettingInv(r)'
        BY <4>1, <4>2, <4>3, <4>5 DEF MailInv, ForgotInv, At, Redeemed, ResettingInv
      <4> QED BY <1>5, <3>1, <4>1, <4>5, <4>6
    <3> QED BY <2>1, <3>2, <3>3 DEF forgot_password
  <2>2. CASE store_reset_token(r)
    <3>1. req[r].pc = "store_password_reset_token" /\ req[r].op = "forgot_password"
      BY <2>2 DEF store_reset_token, At
    <3>2. 204 \in Status
      BY DEF Status
    <3>3. /\ ReqTypeOK' /\ \A q \in Requests \ {r} : req'[q] = req[q]
          /\ SameClaim(r) /\ req'[r].pc = "done"
      BY <1>1, <2>2, <3>2, FinishEffect DEF store_reset_token, SameClaim
    <3>4. /\ InFlight(r) /\ req[r].pc # "done"
          /\ req'[r].pc \notin {"idle", "store_password_reset_token"}
      BY <3>1, <3>3 DEF InFlight
    <3>5. users' = users /\ DbTypeOK'
      BY <1>1, <2>2 DEF store_reset_token, dbVars, DbTypeOK
    <3>6. password_reset_tokens[r] = NULL
      BY <3>4, NothingIssued
    <3>7. req[r].user # NULL /\ mail[r] # NULL
      BY <3>1 DEF ResetInv, ForgotInv, At
    <3>8. req[r].user \in UserId
      BY <1>1, <3>7, UserIsId
    <3> DEFINE Kept == /\ Frame(r) /\ IssuedInv(r)' /\ MailInv(r)'
                       /\ password_reset_tokens' \in [TokenId -> ResetRow \cup {NULL}]
                       /\ mail' \in [TokenId -> ResetMail \cup {NULL}]
                       /\ \A t \in TokenId :
                            password_reset_tokens'[t] # NULL /\ password_reset_tokens'[t].used =>
                              password_reset_tokens[t] # NULL /\ password_reset_tokens[t].used
    <3>9. Kept
      <4>1. CASE UNCHANGED resetVars
        <5>1. Frame(r) /\ IssuedInv(r)'
          BY <1>1, <3>3, <3>5, <3>6, <4>1 DEF Frame, resetVars, IssuedInv
        <5>2. MailInv(r)'
          BY <3>3, <3>4, <4>1, <5>1, SelfKeeps DEF resetVars
        <5> QED BY <1>1, <4>1, <5>1, <5>2 DEF resetVars
      <4>2. ASSUME store_password_reset_token(r, req[r].user, now + ResetTtl),
                   spawn_reset_email(r) \/ UNCHANGED mail
            PROVE  Kept
        <5> DEFINE row == [user_id |-> req[r].user, expires_at |-> now + ResetTtl, used |-> FALSE]
        <5>1. row \in ResetRow /\ row.user_id = req[r].user /\ row.used = FALSE
          BY <1>1, <3>8, ResetTtlAssumption DEF ResetRow, DbTypeOK
        <5>2. password_reset_tokens' = [password_reset_tokens EXCEPT ![r] = row]
          BY <4>2 DEF store_password_reset_token
        <5> HIDE DEF row
        <5>3. row # NULL
          BY <5>1, ResetRowExists
        <5>4. /\ mail' \in [TokenId -> ResetMail \cup {NULL}]
              /\ \A t \in TokenId \ {r} : mail'[t] = mail[t]
              /\ mail'[r] # NULL /\ mail'[r].to = mail[r].to
              /\ mail[r].state = "delivered" => mail'[r].state = "delivered"
          <6>1. mail[r] \in ResetMail /\ mail[r].state # "delivered"
            BY <1>1, <3>6, <3>7 DEF ResetInv, MailInv
          <6>2. CASE UNCHANGED mail
            BY <1>1, <3>7, <6>2
          <6>3. CASE spawn_reset_email(r)
            <7>1. PICK e \in Emails :
                    /\ mail[r] = [to |-> e, state |-> "drafted"]
                    /\ mail' = [mail EXCEPT ![r] = [to |-> e, state |-> "queued"]]
              BY <6>3 DEF spawn_reset_email
            <7> DEFINE m == [to |-> e, state |-> "queued"]
            <7>2. m \in ResetMail /\ m.to = mail[r].to
              BY <7>1 DEF ResetMail
            <7>3. mail' = [mail EXCEPT ![r] = m]
              BY <7>1
            <7> HIDE DEF m
            <7> QED BY <1>1, <6>1, <7>2, <7>3, ResetMailExists
          <6> QED BY <4>2, <6>2, <6>3
        <5>5. /\ password_reset_tokens' \in [TokenId -> ResetRow \cup {NULL}]
              /\ password_reset_tokens'[r] = row
              /\ \A t \in TokenId \ {r} : password_reset_tokens'[t] = password_reset_tokens[t]
          BY <1>1, <5>1, <5>2
        <5>6. IssuedInv(r)'
          BY <3>1, <3>3, <5>1, <5>3, <5>5 DEF IssuedInv, ResetUser, SameClaim
        <5>7. MailInv(r)'
          BY <3>1, <3>3, <3>5, <3>7, <5>3, <5>4, <5>5 DEF ResetInv, MailInv, SameClaim
        <5>8. Frame(r)
          BY <1>1, <3>3, <3>5, <3>6, <5>4, <5>5 DEF Frame
        <5>9. \A t \in TokenId :
                password_reset_tokens'[t] # NULL /\ password_reset_tokens'[t].used =>
                  password_reset_tokens[t] # NULL /\ password_reset_tokens[t].used
          BY <5>1, <5>5
        <5> QED BY <5>4, <5>5, <5>6, <5>7, <5>8, <5>9
      <4> HIDE DEF Kept
      <4> QED BY <2>2, <4>1, <4>2 DEF store_reset_token
    <3>10. ForgotInv(r)' /\ RedeemInv(r)' /\ ResettingInv(r)'
      BY <3>3, <3>4, <3>9, SelfKeeps
    <3>11. (\A t \in TokenId : UsedInv(t)') /\ (\A q \in Requests : StoredInv(q)')
      <4>1. req[r].pc # "update_password_hash"
        BY <3>1
      <4> QED BY <3>3, <3>4, <3>5, <3>9, <4>1, SpendKeeps
    <3> QED BY <3>3, <3>5, <3>9, <3>10, <3>11, OthersKeep, SingleUseKeeps, UsersKept
            DEF ResetInv, ResetTypeOK
  <2>3. CASE send_password_reset_email(r)
    <3>1. /\ mail[r] # NULL /\ mail[r].state = "queued"
          /\ UNCHANGED <<users, req, password_reset_tokens>>
      BY <2>3 DEF send_password_reset_email, dbVars
    <3>2. PICK m \in {"delivered", "lost"} : mail' = [mail EXCEPT ![r].state = m]
      BY <2>3 DEF send_password_reset_email
    <3>3. /\ mail' \in [TokenId -> ResetMail \cup {NULL}]
          /\ \A t \in TokenId \ {r} : mail'[t] = mail[t]
          /\ mail'[r] # NULL /\ mail'[r].to = mail[r].to
      <4>1. mail[r] \in ResetMail
        BY <1>1, <3>1
      <4>2. [mail[r] EXCEPT !.state = m] \in ResetMail /\ [mail[r] EXCEPT !.state = m].to = mail[r].to
        BY <4>1 DEF ResetMail
      <4>3. mail' = [mail EXCEPT ![r] = [mail[r] EXCEPT !.state = m]]
        BY <3>2
      <4> QED BY <1>1, <4>2, <4>3, ResetMailExists
    <3>4. DbTypeOK'
      BY <1>1, <2>3 DEF send_password_reset_email, dbVars, DbTypeOK
    <3>5. Frame(r) /\ SameClaim(r)
      BY <3>1, <3>3 DEF Frame, SameClaim
    <3>6. IssuedInv(r)' /\ MailInv(r)'
      BY <3>1, <3>3 DEF ResetInv, IssuedInv, MailInv, ResetUser
    <3>7. ForgotInv(r)' /\ RedeemInv(r)' /\ ResettingInv(r)'
      <4>1. ForgotInv(r) /\ RedeemInv(r) /\ ResettingInv(r)
        BY DEF ResetInv
      <4>2. ForgotInv(r)' /\ ResettingInv(r)'
        BY <3>1, <3>3, <4>1 DEF ForgotInv, At, ResettingInv, InFlight
      <4>3. RedeemInv(r)'
        BY <3>1, <3>5, <4>1, MailedStays DEF RedeemInv, Redeemed, ResetUser
      <4> QED BY <4>2, <4>3
    <3>8. (\A t \in TokenId : UsedInv(t)') /\ (\A q \in Requests : StoredInv(q)')
      BY <3>1, <3>5, SpendKeeps
    <3> QED BY <1>1, <3>1, <3>3, <3>4, <3>5, <3>6, <3>7, <3>8, OthersKeep, SingleUseKeeps, UsersKept
            DEF ResetInv, ResetTypeOK, ReqTypeOK
  <2>4. CASE reset_password_rejects(r)
    <3>1. "reset_password" \in Op
      BY DEF Op
    <3> QED BY <1>6, <2>4, <3>1, ErrorStatus DEF reset_password_rejects
  <2>5. CASE reset_password(r)
    <3>1. PICK t \in Mailed, p \in Passwords :
             /\ Consumable(t)
             /\ password_reset_tokens' = [password_reset_tokens EXCEPT ![t].used = TRUE]
             /\ Enter(r, "reset_password", "update_password_hash", ResetUser(t), t,
                      hash_password(p, r))
      BY <2>5 DEF reset_password
    <3>2. t \in TokenId
      BY DEF Mailed
    <3>3. /\ UNCHANGED <<dbVars, mail>> /\ users' = users /\ DbTypeOK'
      BY <1>1, <2>5 DEF reset_password, dbVars, DbTypeOK
    <3>4. /\ password_reset_tokens[t] \in ResetRow /\ password_reset_tokens[t] # NULL
          /\ ~ password_reset_tokens[t].used /\ ResetUser(t) \in UserId
      BY <1>1, <3>1, <3>2 DEF Consumable, ResetRow, ResetUser
    <3> DEFINE h == hash_password(p, r)
    <3>5. h \in Phc /\ h.salt = r
      BY DEF hash_password, Phc, UserId
    <3> HIDE DEF h
    <3>6. "reset_password" \in Op /\ "update_password_hash" \in Pc
      BY DEF Op, Pc
    <3>7. /\ ReqTypeOK' /\ req[r].pc = "idle" /\ \A q \in Requests \ {r} : req'[q] = req[q]
          /\ req'[r].op = "reset_password" /\ req'[r].pc = "update_password_hash"
          /\ req'[r].user = ResetUser(t) /\ req'[r].token = t /\ req'[r].phc = h
      <4>1. Enter(r, "reset_password", "update_password_hash", ResetUser(t), t, h)
        BY <3>1 DEF h
      <4> QED BY <1>1, <3>2, <3>4, <3>5, <3>6, <4>1, EnterEffect
    <3>8. \A v \in TokenId : v # t => password_reset_tokens'[v] = password_reset_tokens[v]
      BY <1>1, <3>1, <3>2
    <3>9. /\ password_reset_tokens'[t] \in ResetRow
          /\ password_reset_tokens'[t].user_id = password_reset_tokens[t].user_id
          /\ password_reset_tokens'[t].used = TRUE
      BY <1>1, <3>1, <3>2, <3>4 DEF ResetRow
    <3>10. password_reset_tokens'[t] # NULL
      BY <3>9, ResetRowExists
    <3>11. password_reset_tokens' \in [TokenId -> ResetRow \cup {NULL}]
      BY <1>1, <3>1, <3>2, <3>4 DEF ResetRow
    <3>12. Frame(r)
      BY <3>3, <3>4, <3>7, <3>8, <3>9, <3>10 DEF Frame
    <3>13. password_reset_tokens[r] = NULL /\ mail[r] = NULL /\ t # r
      BY <3>4, <3>7, NothingIssued
    <3>14. IssuedInv(r)' /\ MailInv(r)'
      BY <3>3, <3>8, <3>13 DEF IssuedInv, MailInv
    <3>15. ForgotInv(r)' /\ RedeemInv(r)' /\ ResettingInv(r)'
      <4>1. t # NULL
        BY <3>2, RowsExist DEF UserId
      <4>2. ForgotInv(r)' /\ ResettingInv(r)'
        BY <3>7, <4>1 DEF ForgotInv, At, ResettingInv
      <4>3. RedeemInv(r)'
        BY <3>2, <3>3, <3>5, <3>7, <3>9, <3>10, <4>1 DEF RedeemInv, ResetUser, Mailed
      <4> QED BY <4>2, <4>3
    <3>16. ResetTokenSingleUse'
      <4>1. \A q \in Requests \ {r} : Redeemed(q) => req[q].token # t
        BY <3>4 DEF ResetInv, RedeemInv
      <4>2. \A q \in Requests \ {r} : Redeemed(q)' => Redeemed(q) /\ req'[q].token = req[q].token
        BY <3>7 DEF Redeemed
      <4> QED BY <3>7, <4>1, <4>2 DEF ResetInv, ResetTokenSingleUse
    <3>17. \A v \in TokenId : UsedInv(v)'
      <4>1. Redeemed(r)' /\ req'[r].token = t
        BY <3>2, <3>7, RowsExist DEF Redeemed, UserId
      <4>2. \A q \in Requests : Redeemed(q) => Redeemed(q)' /\ req'[q].token = req[q].token
        BY <3>7 DEF Redeemed, ResetInv, RedeemInv
      <4>3. ASSUME NEW v \in TokenId PROVE UsedInv(v)'
        <5>1. CASE v = t
          BY <4>1, <5>1 DEF UsedInv
        <5>2. CASE v # t
          BY <3>8, <4>2, <5>2 DEF UsedInv, ResetInv
        <5> QED BY <5>1, <5>2
      <4> QED BY <4>3
    <3>18. \A q \in Requests : StoredInv(q)'
      <4>1. StoredInv(r)'
        BY <3>7 DEF StoredInv
      <4>2. ASSUME NEW q \in Requests, q # r PROVE StoredInv(q)'
        <5>1. StoredInv(q) /\ req'[q] = req[q]
          BY <3>7, <4>2 DEF ResetInv
        <5>2. ASSUME NEW u, SetByReset(u) PROVE SetByReset(u)'
          BY <3>3, <3>7, <5>2, StoredStays
        <5>3. PICK u : u = req[q].user
          OBVIOUS
        <5>4. req'[q].user = u
          BY <5>1, <5>3
        <5>5. StoredInv(q)' <=>
                (Redeemed(q)' /\ req'[q].pc # "update_password_hash"
                  /\ (req'[q].pc = "done" => req'[q].status # db_error) => SetByReset(u)')
          BY <5>4 DEF StoredInv, SetByReset
        <5> QED BY <5>1, <5>2, <5>3, <5>5 DEF StoredInv, Redeemed
      <4> QED BY <4>1, <4>2
    <3> QED BY <3>2, <3>3, <3>7, <3>11, <3>12, <3>14, <3>15, <3>16, <3>17, <3>18, <1>1,
               OthersKeep, UsersKept
            DEF ResetInv, ResetTypeOK
  <2>6. CASE update_password(r)
    <3>1. req[r].op = "reset_password" /\ req[r].pc = "update_password_hash" /\ InFlight(r)
      BY <2>6 DEF update_password, At, InFlight
    <3>2. Redeemed(r) /\ RedeemInv(r)
      BY <3>1 DEF ResetInv, ResettingInv, Redeemed
    <3> DEFINE u == req[r].user  h == req[r].phc  t == req[r].token
    <3>3. /\ t \in TokenId /\ password_reset_tokens[t] # NULL /\ u = ResetUser(t)
          /\ h \in Phc /\ h.salt = r
      BY <3>2 DEF RedeemInv
    <3>4. u \in UserId
      BY <1>1, <3>3 DEF ResetUser, ResetRow
    <3>5. req[t].op = "forgot_password" /\ req[t].user = u
      BY <3>3 DEF ResetInv, IssuedInv
    <3>6. users[u] # NULL /\ users[u].password_hash # NULL
      BY <3>3, <3>4, <3>5, RowsExist DEF ResetInv, ForgotInv
    <3>7. update_password_hash(u, h) /\ UNCHANGED <<refresh_tokens, now, password_reset_tokens, mail>>
      BY <2>6 DEF update_password, resetVars
    <3>8. /\ users' \in [UserId -> UserRow \cup {NULL}]
          /\ \A v \in UserId : v # u => users'[v] = users[v]
          /\ users'[u] # NULL /\ users'[u].password_hash = h /\ users'[u].email = users[u].email
      BY <1>1, <3>3, <3>4, <3>6, <3>7, UpdatePasswordEffect
    <3>9. "revoke_all_refresh_tokens" \in Pc
      BY DEF Pc
    <3>10. /\ ReqTypeOK' /\ \A q \in Requests \ {r} : req'[q] = req[q]
           /\ SameClaim(r) /\ req'[r].pc = "revoke_all_refresh_tokens"
      BY <1>1, <2>6, <3>9, ProceedEffect DEF update_password, SameClaim
    <3>11. h # NULL
      BY <3>3, RowsExist
    <3>12. Frame(r)
      BY <3>7, <3>8, <3>10, <3>11 DEF Frame
    <3>13. ForgotInv(r)' /\ RedeemInv(r)' /\ ResettingInv(r)'
      BY <3>1, <3>10, <3>12, SelfKeeps
    <3>14. IssuedInv(r)' /\ MailInv(r)'
      <4>1. MailInv(r)'
        BY <3>1, <3>7, <3>10, <3>12, SelfKeeps
      <4> QED BY <3>1, <3>7, <4>1, NothingIssued DEF IssuedInv
    <3>15. ASSUME NEW v \in Accounts
           PROVE  HashInv(v)' /\ (Seed[v].password_hash = NULL => users'[v].password_hash = NULL)
      <4>1. CASE v # u
        <5>1. users'[v] = users[v]
          BY <3>8, <4>1 DEF UserId
        <5> QED BY <3>10, <5>1, HashKeeps DEF ResetInv, OAuthOnlyStaysPasswordless
      <4>2. CASE v = u
        <5>1. Seed[v].password_hash # NULL
          BY <3>6, <4>2 DEF ResetInv, OAuthOnlyStaysPasswordless
        <5>2. Redeemed(r)'
          BY <3>2, <3>10 DEF Redeemed, SameClaim
        <5> QED BY <3>3, <3>8, <3>10, <4>2, <5>1, <5>2 DEF HashInv, SameClaim
      <4> QED BY <4>1, <4>2
    <3>16. ResetTypeOK'
      BY <1>1, <3>7, <3>8, <3>10 DEF ResetTypeOK, DbTypeOK
    <3>17. \A q \in Requests : Redeemed(q)' <=> Redeemed(q)
      BY <3>10 DEF Redeemed, SameClaim
    <3>18. \A v \in TokenId : UsedInv(v)'
      <4>1. \A q \in Requests : req'[q].token = req[q].token
        BY <3>10 DEF SameClaim
      <4> QED BY <3>7, <3>17, <4>1 DEF UsedInv, ResetInv
    <3>19. ASSUME NEW q \in Requests PROVE StoredInv(q)'
      <4> SUFFICES ASSUME Redeemed(q), q # r => StoredInv(q) /\ req'[q] = req[q],
                          req'[q].pc # "update_password_hash",
                          req'[q].pc = "done" => req'[q].status # db_error
                   PROVE  SetByReset(req[q].user)' /\ req'[q].user = req[q].user
        BY <3>10, <3>17 DEF StoredInv, SetByReset, ResetInv
      <4>1. req'[q].user = req[q].user
        BY <3>10 DEF SameClaim
      <4>2. PICK v : v = req[q].user
        OBVIOUS
      <4>3. CASE v = u
        <5>1. Redeemed(r)' /\ req'[r].user = u /\ users'[u].password_hash = req'[r].phc
          BY <3>2, <3>8, <3>10, <3>17 DEF SameClaim
        <5>2. SetByReset(v)'
          BY <4>3, <5>1 DEF SetByReset
        <5> QED BY <4>1, <4>2, <5>2
      <4>4. CASE v # u
        <5>1. q # r /\ SetByReset(v)
          BY <4>2, <4>4 DEF StoredInv
        <5>2. v \in UserId
          BY <1>1, <4>2 DEF ResetInv, RedeemInv, ResetUser, ResetRow
        <5>3. users'[v].password_hash = users[v].password_hash
          BY <3>8, <4>4, <5>2
        <5>4. SetByReset(v)'
          BY <3>10, <5>1, <5>3, StoredStays
        <5> QED BY <4>1, <4>2, <5>4
      <4> QED BY <4>3, <4>4
    <3> QED BY <3>10, <3>12, <3>13, <3>14, <3>15, <3>16, <3>18, <3>19, OthersKeep, SingleUseKeeps
            DEF ResetInv, OAuthOnlyStaysPasswordless
  <2>7. CASE revoke_sessions(r)
    <3>1. req[r].pc = "revoke_all_refresh_tokens" /\ InFlight(r)
      BY <2>7 DEF revoke_sessions, At, InFlight
    <3>2. UNCHANGED <<users, now, password_reset_tokens, mail>>
      BY <2>7 DEF revoke_sessions, resetVars
    <3>3. 204 \in Status
      BY DEF Status
    <3>4. /\ ReqTypeOK' /\ \A q \in Requests \ {r} : req'[q] = req[q]
          /\ SameClaim(r) /\ req'[r].pc = "done"
      BY <1>1, <2>7, <3>3, FinishEffect DEF revoke_sessions, SameClaim
    <3>5. DbTypeOK'
      BY <1>1, <2>7, <3>2, RevokeType DEF revoke_sessions, revoke_all_refresh_tokens, DbTypeOK
    <3>6. Frame(r)
      BY <3>2, <3>4 DEF Frame
    <3>7. ForgotInv(r)' /\ RedeemInv(r)' /\ ResettingInv(r)'
      BY <3>1, <3>4, <3>6, SelfKeeps
    <3>8. IssuedInv(r)' /\ MailInv(r)'
      <4>1. MailInv(r)'
        BY <3>1, <3>2, <3>4, <3>6, SelfKeeps
      <4> QED BY <3>1, <3>2, <4>1, NothingIssued DEF IssuedInv
    <3>9. (\A t \in TokenId : UsedInv(t)') /\ (\A q \in Requests : StoredInv(q)')
      <4>1. req[r].pc # "update_password_hash"
        BY <3>1
      <4> QED BY <3>1, <3>2, <3>4, <4>1, SpendKeeps
    <3> QED BY <1>1, <3>2, <3>4, <3>5, <3>6, <3>7, <3>8, <3>9, OthersKeep, SingleUseKeeps, UsersKept
            DEF ResetInv, ResetTypeOK
  <2>8. CASE Abort(r) /\ UNCHANGED resetVars
    <3>1. /\ ReqTypeOK' /\ InFlight(r) /\ UNCHANGED dbVars
          /\ \A q \in Requests \ {r} : req'[q] = req[q]
          /\ SameClaim(r) /\ req'[r].pc = "done" /\ req'[r].status = db_error
      BY <1>1, <2>8, AbortEffect DEF SameClaim
    <3>2. DbTypeOK' /\ users' = users
      BY <1>1, <3>1 DEF dbVars, DbTypeOK
    <3>3. Frame(r)
      BY <2>8, <3>1, <3>2 DEF Frame, resetVars
    <3>4. ForgotInv(r)' /\ RedeemInv(r)' /\ ResettingInv(r)'
      BY <3>1, <3>3, SelfKeeps
    <3>5. IssuedInv(r)' /\ MailInv(r)'
      <4>1. MailInv(r)'
        BY <2>8, <3>1, <3>3, SelfKeeps DEF resetVars
      <4> QED BY <2>8, <3>1, <4>1, NothingIssued DEF IssuedInv, InFlight, resetVars
    <3>6. (\A t \in TokenId : UsedInv(t)') /\ (\A q \in Requests : StoredInv(q)')
      <4>1. UNCHANGED password_reset_tokens
        BY <2>8 DEF resetVars
      <4> QED BY <3>1, <3>2, <4>1, SpendKeeps
    <3> QED BY <1>1, <2>8, <3>1, <3>2, <3>3, <3>4, <3>5, <3>6, OthersKeep, SingleUseKeeps, UsersKept
            DEF ResetInv, ResetTypeOK, resetVars
  <2> QED BY <1>7, <2>1, <2>2, <2>3, <2>4, <2>5, <2>6, <2>7, <2>8 DEF ResetStep, ResetContinue
<1> QED BY <1>3, <1>4, <1>7 DEF ResetNext

\* The invariant holds in every reachable state.
THEOREM ResetInvariant == ResetSpec => []ResetInv
BY InitReset, NextReset, PTL DEF ResetSpec

\* The tables, the activation records and the mail tasks always have their types.
THEOREM ResetTypeCorrect == ResetSpec => []ResetTypeOK
<1>1. ResetInv => ResetTypeOK
  BY DEF ResetInv
<1> QED BY <1>1, ResetInvariant, PTL

\* However many requests present a reset token, one at most redeems it.
THEOREM ResetTokenRedeemedOnce == ResetSpec => []ResetTokenSingleUse
<1>1. ResetInv => ResetTokenSingleUse
  BY DEF ResetInv
<1> QED BY <1>1, ResetInvariant, PTL

\* A reset token that is used up has given its account a new password, unless
\* its reset failed or has still to do it.
THEOREM SpentTokensReset == ResetSpec => []SpentTokenResets
<1>1. ResetInv => SpentTokenResets
  <2> SUFFICES ASSUME ResetInv, NEW t \in TokenId, password_reset_tokens[t] # NULL,
                      password_reset_tokens[t].used
               PROVE  \E q \in Requests :
                        /\ Redeemed(q) /\ req[q].token = t
                        /\ \/ req[q].pc = "update_password_hash" \/ req[q].status = db_error
                           \/ SetByReset(ResetUser(t))
    BY DEF SpentTokenResets
  <2>1. PICK q \in Requests : Redeemed(q) /\ req[q].token = t
    BY DEF ResetInv, UsedInv
  <2>2. req[q].user = ResetUser(t)
    BY <2>1 DEF ResetInv, RedeemInv
  <2>3. StoredInv(q)
    BY DEF ResetInv
  <2> QED BY <2>1, <2>2, <2>3 DEF StoredInv
<1> QED BY <1>1, ResetInvariant, PTL

\* An account's password comes from its seed or through a mail to the address of
\* that account.
THEOREM PasswordsComeByMail == ResetSpec => []PasswordProvenance
<1>1. ResetInv => PasswordProvenance
  <2> SUFFICES ASSUME ResetInv, NEW u \in Accounts, users[u].password_hash # Seed[u].password_hash
               PROVE  LET h == users[u].password_hash
                          t == req[h.salt].token IN
                        /\ h.salt \in Requests
                        /\ Redeemed(h.salt) /\ req[h.salt].phc = h
                        /\ mail[t] = [to |-> users[u].email, state |-> "delivered"]
                        /\ ResetUser(t) = u /\ password_reset_tokens[t].used
                        /\ req[t].op = "forgot_password" /\ req[t].user = u
    BY DEF PasswordProvenance
  <2> DEFINE h == users[u].password_hash  q == h.salt  t == req[q].token
  <2>1. q \in Requests /\ Redeemed(q) /\ req[q].phc = h /\ req[q].user = u
    BY DEF ResetInv, HashInv
  <2>2. /\ t \in TokenId /\ t \in Mailed /\ password_reset_tokens[t] # NULL
        /\ password_reset_tokens[t].used /\ ResetUser(t) = u
    BY <2>1 DEF ResetInv, RedeemInv
  <2>3. req[t].op = "forgot_password" /\ req[t].user = u
    BY <2>2 DEF ResetInv, IssuedInv
  <2>4. /\ mail[t] \in ResetMail /\ mail[t].state = "delivered"
        /\ mail[t].to = users[u].email
    BY <2>2, <2>3 DEF ResetInv, ResetTypeOK, MailInv, Mailed
  <2>5. mail[t] = [to |-> users[u].email, state |-> "delivered"]
    BY <2>4 DEF ResetMail
  <2> QED BY <2>1, <2>2, <2>3, <2>5
<1> QED BY <1>1, ResetInvariant, PTL

\* Recovery gives no password to an account that has none.
THEOREM OAuthOnlyKept == ResetSpec => []OAuthOnlyStaysPasswordless
<1>1. ResetInv => OAuthOnlyStaysPasswordless
  BY DEF ResetInv
<1> QED BY <1>1, ResetInvariant, PTL

=============================================================================
