----------------------------- MODULE SignUpProofs -----------------------------
(***************************************************************************)
(* Proofs about SignUp, for every set of requests, accounts, addresses and *)
(* people, every seed and every bound.                                     *)
(***************************************************************************)
EXTENDS SignUp, HandlerProofs

USE DEF TokenId

-----------------------------------------------------------------------------
(* The inductive invariant                                                 *)

\* An account that request r created: r goes on, and how it came to be.
AccountInv(r) ==
    users[r] # NULL =>
        \/ req[r].op \in {"register", "create_admin"} /\ req[r].pc # "idle"
           /\ users[r].password_hash # NULL
        \/ /\ req[r].op = "google_callback" /\ req[r].pc \notin {"idle", "create_user"}
           /\ req[r].user = r /\ profile[r] # NULL

\* The verification mail of request r is for an account with an address, for a
\* registration its own; only callbacks create accounts later.
WriterInv(r) ==
    /\ req[r].op \in {"register", "resend_verification"} /\ InFlight(r) =>
         /\ req[r].user \in UserId /\ users[req[r].user] # NULL
         /\ users[req[r].user].email # NULL
         /\ req[r].op = "register" => req[r].user = r
    /\ req[r].pc = "store_email_verification_token" =>
         req[r].op \in {"register", "resend_verification"}
    /\ req[r].pc = "create_user" => req[r].op = "google_callback"

\* A token belongs to the request that drew it, which is over, and to an account
\* with an address; its mail goes to that address.
IssuedInv(t) ==
    /\ email_verification_tokens[t] # NULL =>
         LET u == email_verification_tokens[t].user_id IN
           /\ req[t].pc = "done" /\ users[u] # NULL /\ users[u].email # NULL
           /\ verification_mail[t] # NULL => verification_mail[t].to = users[u].email
    /\ verification_mail[t] # NULL => email_verification_tokens[t] # NULL

\* A verification has used up a token that arrived, works for its account and,
\* when it is over, has marked that account or failed.
VerifyInv(q) ==
    req[q].op = "verify_email" /\ (req[q].token # NULL \/ InFlight(q)) =>
        LET t == req[q].token IN
          /\ req[q].pc # "idle" /\ t \in TokenId /\ Arrived(t)
          /\ email_verification_tokens[t] # NULL /\ email_verification_tokens[t].used
          /\ req[q].user = email_verification_tokens[t].user_id
          /\ \/ users[req[q].user].email_verified
             \/ InFlight(q) \/ req[q].status = db_error

\* A callback knows the person; its account is its own or that person's.
CallbackInv(r) ==
    req[r].op = "google_callback" /\ InFlight(r) =>
        /\ profile[r] # NULL
        /\ req[r].pc = "create_user" => req[r].user = NULL
        /\ req[r].pc # "create_user" =>
             /\ req[r].user \in UserId /\ users[req[r].user] # NULL
             /\ req[r].user = r \/ oauth_identities[profile[r].sub] = req[r].user

\* A callback that goes on without an identity while there is one was overtaken.
UnlinkedInv(q) ==
    \A s \in Subjects : q \in Unlinked(s) /\ oauth_identities[s] # NULL => q \in overtaken

\* An account without a password is being linked, is linked, or will not be.
ReachInv(r) ==
    users[r] # NULL /\ users[r].password_hash = NULL =>
        \/ req[r].pc = "upsert_oauth_identity"
        \/ req[r].pc = "done" /\ req[r].status = db_error
        \/ r \in overtaken \/ oauth_identities[profile[r].sub] = r

\* An identity leads to the account that was created for it.
IdentityInv(s) ==
    LET u == oauth_identities[s] IN
    u # NULL => /\ u \in Requests /\ users[u] # NULL
                /\ req[u].op = "google_callback" /\ profile[u] # NULL /\ profile[u].sub = s

\* A verified account was made so, or used a token that arrived at its address.
VerifiedInv(u) ==
    users[u] # NULL /\ users[u].email_verified =>
        \/ u \in Accounts /\ Seed[u].email_verified
        \/ u \in Requests /\ req[u].op \in {"create_admin", "google_callback"}
        \/ \E t \in TokenId : /\ Arrived(t) /\ email_verification_tokens[t] # NULL
                              /\ email_verification_tokens[t].user_id = u
                              /\ email_verification_tokens[t].used

\* A used token was used by a verification.
UsedInv(t) ==
    email_verification_tokens[t] # NULL /\ email_verification_tokens[t].used =>
        \E q \in Requests : Verifies(q) /\ req[q].token = t

SingleUse ==
    \A p, q \in Requests : Verifies(p) /\ Verifies(q) /\ req[p].token = req[q].token => p = q

UniqueEmails ==
    \A u, v \in UserId :
        users[u] # NULL /\ users[v] # NULL /\ users[u].email # NULL /\ users[u].email = users[v].email
            => u = v

\* The accounts that were there at first are there, with their password.
SeededInv(a) == users[a] # NULL /\ users[a].password_hash # NULL

RequestInv(r) ==
    /\ AccountInv(r) /\ WriterInv(r) /\ IssuedInv(r) /\ VerifyInv(r)
    /\ CallbackInv(r) /\ UnlinkedInv(r) /\ ReachInv(r)

SignUpInv ==
    /\ SignUpTypeOK
    /\ \A r \in Requests : RequestInv(r) /\ UsedInv(r)
    /\ \A u \in UserId : VerifiedInv(u)
    /\ \A s \in Subjects : IdentityInv(s)
    /\ \A a \in Accounts : SeededInv(a)
    /\ SingleUse /\ UniqueEmails

-----------------------------------------------------------------------------
(* The initial states                                                      *)

\* The invariant holds at first.
LEMMA InitSignUp == SignUpInit => SignUpInv
<1> SUFFICES ASSUME SignUpInit PROVE SignUpInv
  OBVIOUS
<1>1. /\ users = [u \in UserId |-> IF u \in Accounts THEN Seed[u] ELSE NULL]
      /\ req = [r \in Requests |-> Idle]
      /\ email_verification_tokens = [t \in TokenId |-> NULL]
      /\ verification_mail = [t \in TokenId |-> NULL]
      /\ oauth_identities = [s \in Subjects |-> NULL]
      /\ profile = [r \in Requests |-> NULL] /\ overtaken = {}
  BY DEF SignUpInit, DbInit, ReqInit, VerificationTablesInit, GoogleTablesInit
<1>2. Idle.op = "none" /\ Idle.pc = "idle"
  BY DEF Idle
<1>3. SignUpTypeOK
  <2>1. DbTypeOK
    BY SeedAssumption DEF SignUpInit, DbInit, DbTypeOK
  <2>2. ReqTypeOK
    <3>1. Idle \in Request
      <4>1. "none" \in Op /\ "idle" \in Pc /\ 0 \in Status
        BY DEF Op, Pc, Status
      <4> QED BY <4>1 DEF Idle, Request
    <3> HIDE DEF Idle
    <3> QED BY <1>1, <3>1 DEF ReqTypeOK
  <2>3. VerificationTypeOK /\ GoogleTypeOK
    BY <1>1 DEF VerificationTypeOK, GoogleTypeOK
  <2> QED BY <2>1, <2>2, <2>3 DEF SignUpTypeOK
<1> HIDE DEF Idle
<1>4. ASSUME NEW r \in Requests PROVE users[r] = NULL /\ req[r].op = "none" /\ req[r].pc = "idle"
  BY <1>1, <1>2, FreshAssumption DEF UserId
<1>5. ASSUME NEW a \in Accounts PROVE users[a] = Seed[a] /\ Seed[a] \in UserRow
  BY <1>1, SeedAssumption DEF UserId
<1>6. \A r \in Requests : RequestInv(r) /\ UsedInv(r)
  BY <1>1, <1>4
     DEF RequestInv, AccountInv, WriterInv, InFlight, IssuedInv, VerifyInv, CallbackInv,
         UnlinkedInv, ReachInv, UsedInv
<1>7. \A u \in UserId : VerifiedInv(u)
  BY <1>4, <1>5 DEF VerifiedInv, UserId
<1>8. \A s \in Subjects : IdentityInv(s)
  BY <1>1 DEF IdentityInv
<1>9. \A a \in Accounts : SeededInv(a)
  BY <1>5, FirstAccountsAssumption, RowsExist DEF SeededInv
<1>10. SingleUse
  BY <1>4 DEF SingleUse, Verifies
<1>11. UniqueEmails
  BY <1>4, <1>5, SeedAssumption DEF UniqueEmails, UserId
<1> QED BY <1>3, <1>6, <1>7, <1>8, <1>9, <1>10, <1>11 DEF SignUpInv

-----------------------------------------------------------------------------
(* What a step of one request keeps of the rest                            *)

\* The step of request r leaves the other requests alone, creates rows under
\* its own name only, takes nothing back, and marks those it overtakes.
Frame(r) ==
    /\ \A q \in Requests \ {r} : req'[q] = req[q] /\ profile'[q] = profile[q]
    /\ \A u \in UserId :
         /\ users[u] = NULL /\ u # r => users'[u] = NULL
         /\ users[u] # NULL => /\ users'[u] # NULL /\ users'[u].email = users[u].email
                               /\ users'[u].password_hash = users[u].password_hash
                               /\ users[u].email_verified => users'[u].email_verified
    /\ \A t \in TokenId :
         /\ email_verification_tokens[t] = NULL /\ t # r => email_verification_tokens'[t] = NULL
         /\ email_verification_tokens[t] # NULL =>
              /\ email_verification_tokens'[t] # NULL
              /\ email_verification_tokens'[t].user_id = email_verification_tokens[t].user_id
              /\ email_verification_tokens[t].used => email_verification_tokens'[t].used
         /\ verification_mail[t] = NULL /\ t # r => verification_mail'[t] = NULL
         /\ verification_mail[t] # NULL =>
              verification_mail'[t] # NULL /\ verification_mail'[t].to = verification_mail[t].to
         /\ Arrived(t) => Arrived(t)'
    /\ \A s \in Subjects :
         /\ oauth_identities[s] # NULL => oauth_identities'[s] = oauth_identities[s]
         /\ oauth_identities[s] = NULL /\ oauth_identities'[s] # NULL =>
              Unlinked(s) \ {r} \subseteq overtaken'
    /\ overtaken \subseteq overtaken'

\* Request r keeps the handler, token and profile it had.
SameClaim(r) ==
    req'[r].op = req[r].op /\ req'[r].token = req[r].token /\ profile'[r] = profile[r]

\* The requests that made an account keep their handler and their profile.
OwnersKept ==
    \A q \in Requests : users[q] # NULL => req'[q].op = req[q].op /\ profile'[q] = profile[q]

\* The invariant's types, one by one.
LEMMA Types ==
    ASSUME SignUpTypeOK
    PROVE  /\ DbTypeOK /\ ReqTypeOK
           /\ users \in [UserId -> UserRow \cup {NULL}]
           /\ email_verification_tokens \in [TokenId -> VerificationRow \cup {NULL}]
           /\ verification_mail \in [TokenId -> VerificationMail \cup {NULL}]
           /\ oauth_identities \in [Subjects -> UserId \cup {NULL}]
           /\ profile \in [Requests -> Profile \cup {NULL}]
           /\ overtaken \subseteq Requests
BY DEF SignUpTypeOK, DbTypeOK, VerificationTypeOK, GoogleTypeOK

\* The fields of rows that are there.
LEMMA RowFields ==
    ASSUME SignUpTypeOK
    PROVE  /\ \A t \in TokenId : email_verification_tokens[t] # NULL =>
                email_verification_tokens[t].user_id \in UserId
           /\ \A r \in Requests : profile[r] # NULL =>
                profile[r].sub \in Subjects /\ profile[r].email \in Emails \cup {NULL}
BY Types DEF VerificationRow, Profile

\* A request that is not over has issued nothing, and one that has not started
\* has made no account and verified nothing.
LEMMA NotYet ==
    ASSUME SignUpInv, NEW r \in Requests
    PROVE  /\ req[r].pc # "done" => email_verification_tokens[r] = NULL /\ verification_mail[r] = NULL
           /\ req[r].pc = "idle" => users[r] = NULL /\ ~ Verifies(r)
<1>1. AccountInv(r) /\ IssuedInv(r) /\ VerifyInv(r)
  BY DEF SignUpInv, RequestInv
<1> QED BY <1>1 DEF AccountInv, IssuedInv, VerifyInv, Verifies

\* A step with this frame keeps what the invariant says of every other request.
LEMMA OthersKeep ==
    ASSUME SignUpInv, NEW r \in Requests, Frame(r), NEW q \in Requests, q # r
    PROVE  RequestInv(q)'
<1>1. req'[q] = req[q] /\ profile'[q] = profile[q]
  BY DEF Frame
<1>2. /\ AccountInv(q) /\ WriterInv(q) /\ IssuedInv(q) /\ VerifyInv(q) /\ CallbackInv(q)
      /\ UnlinkedInv(q) /\ ReachInv(q) /\ SignUpTypeOK
  BY DEF SignUpInv, RequestInv
<1>3. q \in UserId /\ q # NULL
  BY RowsExist DEF UserId
<1>4. AccountInv(q)'
  BY <1>1, <1>2, <1>3 DEF Frame, AccountInv
<1>5. WriterInv(q)'
  BY <1>1, <1>2 DEF Frame, WriterInv, InFlight
<1>6. IssuedInv(q)'
  BY <1>1, <1>2, RowFields DEF Frame, IssuedInv
<1>7. VerifyInv(q)'
  <2> SUFFICES ASSUME req[q].op = "verify_email", req[q].token # NULL \/ InFlight(q)
               PROVE  LET t == req[q].token IN
                        /\ req[q].pc # "idle" /\ t \in TokenId /\ Arrived(t)'
                        /\ email_verification_tokens'[t] # NULL /\ email_verification_tokens'[t].used
                        /\ req[q].user = email_verification_tokens'[t].user_id
                        /\ \/ users'[req[q].user].email_verified
                           \/ InFlight(q) \/ req[q].status = db_error
    BY <1>1 DEF VerifyInv, InFlight
  <2> DEFINE t == req[q].token  u == req[q].user
  <2>1. /\ req[q].pc # "idle" /\ t \in TokenId /\ Arrived(t)
        /\ email_verification_tokens[t] # NULL /\ email_verification_tokens[t].used
        /\ u = email_verification_tokens[t].user_id
        /\ users[u].email_verified \/ InFlight(q) \/ req[q].status = db_error
    BY <1>2 DEF VerifyInv
  <2>2. u \in UserId /\ users[u] # NULL
    BY <1>2, <2>1, RowFields DEF SignUpInv, RequestInv, IssuedInv
  <2>3. users[u].email_verified => users'[u].email_verified
    BY <2>2 DEF Frame
  <2> QED BY <2>1, <2>3 DEF Frame
<1>8. CallbackInv(q)'
  BY <1>1, <1>2, RowFields, RowsExist DEF Frame, CallbackInv, InFlight
<1>9. UnlinkedInv(q)'
  BY <1>1, <1>2 DEF Frame, UnlinkedInv, Unlinked
<1>10. ReachInv(q)'
  BY <1>1, <1>2, <1>3, RowFields DEF Frame, ReachInv, AccountInv
<1> QED BY <1>4, <1>5, <1>6, <1>7, <1>8, <1>9, <1>10 DEF RequestInv

\* A request in flight that creates nothing and goes on or ends keeps it, too.
LEMMA SelfKeeps ==
    ASSUME SignUpInv, NEW r \in Requests, Frame(r), SameClaim(r), InFlight(r),
           req'[r].user = req[r].user, users[r] = NULL => users'[r] = NULL,
           req'[r].pc \notin {"idle", "create_user", "upsert_oauth_identity"},
           req[r].pc = "create_user" => req'[r].pc = "done",
           req'[r].pc = "store_email_verification_token" => req[r].op = "register",
           req[r].op = "verify_email" =>
             \/ InFlight(r)' \/ req'[r].status = db_error \/ users'[req[r].user].email_verified
    PROVE  AccountInv(r)' /\ WriterInv(r)' /\ VerifyInv(r)' /\ CallbackInv(r)' /\ UnlinkedInv(r)'
<1>1. AccountInv(r) /\ WriterInv(r) /\ VerifyInv(r) /\ CallbackInv(r) /\ SignUpTypeOK
  BY DEF SignUpInv, RequestInv
<1>2. r \in UserId
  BY DEF UserId
<1>3. AccountInv(r)'
  BY <1>1, <1>2 DEF Frame, SameClaim, AccountInv
<1>4. WriterInv(r)'
  BY <1>1 DEF Frame, SameClaim, WriterInv, InFlight
<1>5. VerifyInv(r)'
  BY <1>1 DEF Frame, SameClaim, VerifyInv, InFlight
<1>6. CallbackInv(r)'
  BY <1>1, RowFields, RowsExist DEF Frame, SameClaim, CallbackInv, InFlight
<1>7. UnlinkedInv(r)'
  BY DEF UnlinkedInv, Unlinked
<1> QED BY <1>3, <1>4, <1>5, <1>6, <1>7

\* Without a new row of its own it has still issued nothing.
LEMMA NothingIssued ==
    ASSUME SignUpInv, NEW r \in Requests, req[r].pc # "done",
           UNCHANGED verificationVars
    PROVE  IssuedInv(r)'
BY NotYet DEF IssuedInv, verificationVars

\* An account without a password stays linked, or unlinked for the same reason.
LEMMA ReachKeeps ==
    ASSUME SignUpInv, NEW r \in Requests, Frame(r), SameClaim(r),
           users[r] = NULL => users'[r] = NULL, req[r].pc # "done",
           req[r].pc = "upsert_oauth_identity" =>
             \/ req'[r].pc = "done" /\ req'[r].status = db_error
             \/ r \in overtaken' \/ oauth_identities'[profile[r].sub] = r
    PROVE  ReachInv(r)'
<1>1. ReachInv(r) /\ AccountInv(r) /\ SignUpTypeOK
  BY DEF SignUpInv, RequestInv
<1>2. r \in UserId /\ r # NULL
  BY RowsExist DEF UserId
<1> QED BY <1>1, <1>2, RowFields DEF Frame, SameClaim, ReachInv, AccountInv

\* Identities lead where they led.
LEMMA IdentityKeeps ==
    ASSUME SignUpInv, NEW r \in Requests, Frame(r), req[r].pc = "idle" \/ SameClaim(r),
           NEW s \in Subjects, oauth_identities'[s] = oauth_identities[s]
    PROVE  IdentityInv(s)'
<1> DEFINE u == oauth_identities[s]
<1>1. CASE u = NULL
  BY <1>1 DEF IdentityInv
<1>2. CASE u # NULL
  <2>1. /\ u \in Requests /\ u \in UserId /\ users[u] # NULL
        /\ req[u].op = "google_callback" /\ profile[u] # NULL /\ profile[u].sub = s
    BY <1>2 DEF SignUpInv, IdentityInv, UserId
  <2>2. req'[u].op = req[u].op /\ profile'[u] = profile[u]
    BY <2>1, NotYet DEF Frame, SameClaim
  <2> QED BY <2>1, <2>2 DEF Frame, IdentityInv
<1> QED BY <1>1, <1>2

\* A verified account keeps its reason.
LEMMA VerifiedKeeps ==
    ASSUME SignUpInv, NEW r \in Requests, Frame(r), req[r].pc = "idle" \/ SameClaim(r),
           NEW u \in UserId, users[u] # NULL, users[u].email_verified
    PROVE  VerifiedInv(u)'
<1>1. CASE u \in Accounts /\ Seed[u].email_verified
  BY <1>1 DEF VerifiedInv
<1>2. CASE u \in Requests /\ req[u].op \in {"create_admin", "google_callback"}
  <2>1. req'[u].op = req[u].op
    BY <1>2, NotYet DEF Frame, SameClaim
  <2> QED BY <1>2, <2>1 DEF VerifiedInv
<1>3. CASE \E t \in TokenId : /\ Arrived(t) /\ email_verification_tokens[t] # NULL
                              /\ email_verification_tokens[t].user_id = u
                              /\ email_verification_tokens[t].used
  BY <1>3 DEF Frame, VerifiedInv
<1> QED BY <1>1, <1>2, <1>3 DEF SignUpInv, VerifiedInv

\* A used token keeps the verification that used it.
LEMMA UsedKeeps ==
    ASSUME SignUpInv, NEW r \in Requests, Frame(r), req[r].pc = "idle" \/ SameClaim(r),
           NEW t \in TokenId, email_verification_tokens[t] # NULL, email_verification_tokens[t].used
    PROVE  UsedInv(t)'
<1>1. PICK q \in Requests : Verifies(q) /\ req[q].token = t
  BY DEF SignUpInv, UsedInv
<1>2. req'[q].op = req[q].op /\ req'[q].token = req[q].token
  BY <1>1, NotYet DEF Frame, SameClaim
<1> QED BY <1>1, <1>2 DEF UsedInv, Verifies

\* What is left to show of a step with this frame: the invariant of the request
\* itself, and what the rows it changes add.
LEMMA StepKeeps ==
    ASSUME SignUpInv, NEW r \in Requests, Frame(r), req[r].pc = "idle" \/ SameClaim(r),
           SignUpTypeOK', RequestInv(r)',
           \A t \in TokenId :
             email_verification_tokens'[t] # NULL /\ email_verification_tokens'[t].used =>
               \/ email_verification_tokens[t] # NULL /\ email_verification_tokens[t].used
               \/ Verifies(r)' /\ req'[r].token = t,
           \A u \in UserId :
             users'[u] # NULL /\ users'[u].email_verified =>
               (users[u] # NULL /\ users[u].email_verified) \/ VerifiedInv(u)',
           \A s \in Subjects : oauth_identities'[s] = oauth_identities[s] \/ IdentityInv(s)',
           Verifies(r)' =>
             Verifies(r) \/ \A q \in Requests \ {r} : Verifies(q) => req[q].token # req'[r].token,
           users[r] = NULL /\ users'[r] # NULL /\ users'[r].email # NULL =>
             \A v \in UserId : users[v] # NULL => users[v].email # users'[r].email
    PROVE  SignUpInv' /\ OwnersKept
<1>1. \A q \in Requests : RequestInv(q)'
  BY OthersKeep
<1>2. \A q \in Requests : UsedInv(q)'
  BY UsedKeeps DEF UsedInv
<1>3. \A u \in UserId : VerifiedInv(u)'
  BY VerifiedKeeps DEF VerifiedInv
<1>4. \A s \in Subjects : IdentityInv(s)'
  BY IdentityKeeps
<1>5. \A a \in Accounts : SeededInv(a)'
  BY DEF SignUpInv, SeededInv, Frame, UserId
<1>6. SingleUse'
  <2>1. \A q \in Requests \ {r} : (Verifies(q)' <=> Verifies(q)) /\ req'[q].token = req[q].token
    BY DEF Frame, Verifies
  <2>2. Verifies(r) => req'[r].token = req[r].token
    BY NotYet DEF SameClaim
  <2> QED BY <2>1, <2>2 DEF SignUpInv, SingleUse
<1>7. UniqueEmails'
  <2>1. r \in UserId
    BY DEF UserId
  <2> QED BY <2>1 DEF SignUpInv, UniqueEmails, Frame
<1>8. OwnersKept
  BY NotYet DEF Frame, SameClaim, OwnersKept
<1> QED BY <1>1, <1>2, <1>3, <1>4, <1>5, <1>6, <1>7, <1>8 DEF SignUpInv

-----------------------------------------------------------------------------
(* Steps that write no table but req and profile                           *)

\* A step that leaves the tables alone has the frame.
LEMMA TablesAlone ==
    ASSUME SignUpInv, NEW r \in Requests,
           UNCHANGED <<users, verificationVars, oauth_identities, overtaken>>,
           \A q \in Requests \ {r} : req'[q] = req[q] /\ profile'[q] = profile[q]
    PROVE  Frame(r)
BY DEF Frame, verificationVars, Arrived

\* A request that starts without writing.
LEMMA StartKeeps ==
    ASSUME SignUpInv, NEW r \in Requests, req[r].pc = "idle",
           UNCHANGED <<users, verificationVars, oauth_identities, overtaken>>,
           \A q \in Requests \ {r} : req'[q] = req[q] /\ profile'[q] = profile[q],
           SignUpTypeOK', WriterInv(r)', CallbackInv(r)', UnlinkedInv(r)',
           req'[r].op = "verify_email" => req'[r].pc = "done" /\ req'[r].token = NULL
    PROVE  SignUpInv' /\ OwnersKept
<1>1. Frame(r)
  BY TablesAlone
<1>2. users[r] = NULL /\ users' = users
  BY NotYet
<1>3. AccountInv(r)' /\ ReachInv(r)'
  BY <1>2 DEF AccountInv, ReachInv
<1>4. IssuedInv(r)'
  BY NothingIssued
<1>5. VerifyInv(r)' /\ ~ Verifies(r)'
  BY DEF VerifyInv, Verifies, InFlight
<1>6. RequestInv(r)'
  BY <1>3, <1>4, <1>5 DEF RequestInv
<1>7. email_verification_tokens' = email_verification_tokens /\ oauth_identities' = oauth_identities
  BY DEF verificationVars
<1> QED BY <1>1, <1>2, <1>5, <1>6, <1>7, StepKeeps

\* A request that is refused at once.
LEMMA RejectKeeps ==
    ASSUME SignUpInv, NEW r \in Requests, NEW op \in Op, NEW code \in Status,
           Reject(r, op, code), UNCHANGED <<dbVars, verificationVars, googleVars>>
    PROVE  SignUpInv' /\ OwnersKept
<1>1. /\ ReqTypeOK' /\ req[r].pc = "idle" /\ \A q \in Requests \ {r} : req'[q] = req[q]
      /\ req'[r].pc = "done" /\ req'[r].token = NULL
  BY RejectEffect, Types DEF SignUpInv
<1>2. SignUpTypeOK'
  BY <1>1, Types
     DEF SignUpInv, SignUpTypeOK, DbTypeOK, VerificationTypeOK, GoogleTypeOK, dbVars,
         verificationVars, googleVars
<1>3. WriterInv(r)' /\ CallbackInv(r)' /\ UnlinkedInv(r)'
  BY <1>1 DEF WriterInv, CallbackInv, UnlinkedInv, Unlinked, InFlight
<1> QED BY <1>1, <1>2, <1>3, StartKeeps DEF dbVars, googleVars

\* POST /resend-verification for an account that is to be verified.
LEMMA ResendKeeps ==
    ASSUME SignUpInv, NEW r \in Requests, resend_verification(r), UNCHANGED googleVars
    PROVE  SignUpInv' /\ OwnersKept
<1>1. UNCHANGED <<dbVars, verificationVars>> /\ "resend_verification" \in Op
  BY DEF resend_verification, Op
<1>2. ASSUME NEW code \in {into_response.Unauthorized, 204}, Reject(r, "resend_verification", code)
      PROVE  SignUpInv' /\ OwnersKept
  BY <1>1, <1>2, RejectKeeps, ErrorStatus, StatusCodes
<1>3. ASSUME NEW u \in UserId, found_by_id(u), users[u].email # NULL,
             Enter(r, "resend_verification", "store_email_verification_token", u, NULL, NULL)
      PROVE  SignUpInv' /\ OwnersKept
  <2>1. "store_email_verification_token" \in Pc
    BY DEF Pc
  <2>2. ReqTypeOK /\ SignUpTypeOK
    BY Types DEF SignUpInv
  <2>3. /\ ReqTypeOK' /\ req[r].pc = "idle" /\ \A q \in Requests \ {r} : req'[q] = req[q]
        /\ req'[r].op = "resend_verification" /\ req'[r].pc = "store_email_verification_token"
        /\ req'[r].user = u
    BY <1>1, <1>3, <2>1, <2>2, EnterEffect
  <2>4. SignUpTypeOK'
    BY <1>1, <2>2, <2>3, Types
       DEF SignUpTypeOK, DbTypeOK, VerificationTypeOK, GoogleTypeOK, dbVars, verificationVars,
           googleVars
  <2>5. WriterInv(r)' /\ CallbackInv(r)' /\ UnlinkedInv(r)'
    BY <1>1, <1>3, <2>3
       DEF WriterInv, CallbackInv, UnlinkedInv, Unlinked, InFlight, found_by_id, dbVars
  <2> QED BY <1>1, <2>3, <2>4, <2>5, StartKeeps DEF dbVars, googleVars
<1> QED BY <1>2, <1>3 DEF resend_verification

\* The callback learns who signs in and looks the identity up.
LEMMA CallbackKeeps ==
    ASSUME SignUpInv, NEW r \in Requests, google_callback(r), UNCHANGED verificationVars
    PROVE  SignUpInv' /\ OwnersKept
<1>1. UNCHANGED <<dbVars, oauth_identities, overtaken>> /\ "google_callback" \in Op
  BY DEF google_callback, Op
<1>2. CASE Reject(r, "google_callback", into_response.Auth) /\ UNCHANGED profile
  BY <1>1, <1>2, RejectKeeps, ErrorStatus DEF googleVars
<1>3. ASSUME NEW p \in Profile, profile' = [profile EXCEPT ![r] = p],
             NEW u \in UserId \cup {NULL}, NEW next \in {"create_user", "upsert_oauth_identity"},
             oauth_identities[p.sub] = u, u = NULL <=> next = "create_user",
             Enter(r, "google_callback", next, u, NULL, NULL)
      PROVE  SignUpInv' /\ OwnersKept
  <2>1. next \in Pc
    BY DEF Pc
  <2>2. ReqTypeOK /\ SignUpTypeOK /\ "google_callback" \in Op
    BY <1>1, Types DEF SignUpInv
  <2>3. /\ ReqTypeOK' /\ req[r].pc = "idle" /\ \A q \in Requests \ {r} : req'[q] = req[q]
        /\ req'[r].op = "google_callback" /\ req'[r].pc = next /\ req'[r].user = u
    <3>1. Enter(r, "google_callback", next, u, NULL, NULL)
      BY <1>3
    <3> QED BY <2>1, <2>2, <3>1, EnterEffect
  <2>4. p # NULL /\ p.sub \in Subjects
    BY ProfileAssumption DEF Profile
  <2>5. /\ profile'[r] = p /\ profile' \in [Requests -> Profile \cup {NULL}]
        /\ \A q \in Requests \ {r} : profile'[q] = profile[q]
    BY <1>3, <2>2, Types
  <2>6. SignUpTypeOK'
    BY <1>1, <2>2, <2>3, <2>5, Types
       DEF SignUpTypeOK, DbTypeOK, VerificationTypeOK, GoogleTypeOK, dbVars, verificationVars
  <2>7. users[r] = NULL /\ users' = users
    BY <1>1, <2>3, NotYet DEF dbVars
  <2>8. u # NULL => u \in UserId /\ users[u] # NULL /\ u # r
    BY <1>3, <2>4, <2>7 DEF SignUpInv, IdentityInv
  <2>9. WriterInv(r)' /\ CallbackInv(r)'
    BY <1>1, <1>3, <2>3, <2>4, <2>5, <2>7, <2>8 DEF WriterInv, CallbackInv, InFlight
  <2>10. UnlinkedInv(r)'
    <3>1. CASE next = "create_user"
      <4>1. profile'[r].sub = p.sub /\ oauth_identities'[p.sub] = NULL
        BY <1>1, <1>3, <2>5, <3>1
      <4> QED BY <4>1 DEF UnlinkedInv, Unlinked
    <3>2. CASE next = "upsert_oauth_identity"
      <4>1. req'[r].user # r /\ req'[r].pc = "upsert_oauth_identity"
        BY <1>3, <2>3, <2>8, <3>2
      <4> QED BY <4>1 DEF UnlinkedInv, Unlinked
    <3> QED BY <3>1, <3>2
  <2> QED BY <1>1, <2>3, <2>5, <2>6, <2>9, <2>10, StartKeeps DEF dbVars
<1>4. ASSUME NEW p \in Profile PROVE p.sub \in Subjects
  BY <1>4 DEF Profile
<1>5. \A u \in UserId : u # NULL
  BY RowsExist
<1>6. oauth_identities \in [Subjects -> UserId \cup {NULL}]
  BY Types DEF SignUpInv
<1> QED BY <1>2, <1>3, <1>4, <1>5, <1>6 DEF google_callback, find_user_by_oauth

-----------------------------------------------------------------------------
(* Steps that create an account                                            *)

\* Whoever creates an account adds one row, at a new address, and nothing else.
LEMMA CreateFrame ==
    ASSUME SignUpInv, NEW r \in Requests, users[r] = NULL,
           NEW e \in Emails \cup {NULL}, NEW phc \in Phc \cup {NULL}, NEW role \in Role,
           NEW verified, verified \in BOOLEAN, create_user(r, e, phc, role, verified),
           ReqTypeOK', \A q \in Requests \ {r} : req'[q] = req[q],
           UNCHANGED <<refresh_tokens, now, verificationVars, googleVars>>
    PROVE  /\ Frame(r) /\ SignUpTypeOK'
           /\ users'[r] # NULL /\ users'[r].email = e /\ users'[r].password_hash = phc
           /\ users'[r].email_verified = verified
           /\ \A v \in UserId : v # r => users'[v] = users[v]
           /\ e # NULL => \A v \in UserId : users[v] # NULL => users[v].email # e
<1>1. r \in UserId /\ users \in [UserId -> UserRow \cup {NULL}]
  BY Types DEF SignUpInv, UserId
<1>2. users' \in [UserId -> UserRow \cup {NULL}]
  <2>1. PICK u \in UserId : u = r
    BY <1>1
  <2>2. create_user(u, e, phc, role, verified)
    BY <2>1
  <2> QED BY ONLY <1>1, <2>2, verified \in BOOLEAN, CreateUserEffect
<1>3. /\ users'[r] # NULL /\ users'[r].email = e /\ users'[r].password_hash = phc
      /\ users'[r].email_verified = verified
      /\ \A v \in UserId : v # r => users'[v] = users[v]
      /\ e # NULL => \A v \in UserId : users[v] # NULL => users[v].email # e
  BY <1>1, CreateUserEffect
<1>4. Frame(r)
  BY <1>3 DEF Frame, Arrived, verificationVars, googleVars
<1>5. SignUpTypeOK'
  BY <1>2, Types
     DEF SignUpInv, SignUpTypeOK, DbTypeOK, VerificationTypeOK, GoogleTypeOK, verificationVars,
         googleVars
<1> QED BY <1>3, <1>4, <1>5

\* A request that makes its account starts or was signing in with Google.
LEMMA CreationKeeps ==
    ASSUME SignUpInv, NEW r \in Requests, users[r] = NULL, req[r].pc # "done",
           req[r].pc = "idle" \/ SameClaim(r),
           NEW e \in Emails \cup {NULL}, NEW phc \in Phc \cup {NULL}, NEW role \in Role,
           NEW verified, verified \in BOOLEAN, create_user(r, e, phc, role, verified),
           ReqTypeOK', \A q \in Requests \ {r} : req'[q] = req[q],
           UNCHANGED <<refresh_tokens, now, verificationVars, googleVars>>,
           req'[r].op \in {"register", "create_admin", "google_callback"},
           verified => req'[r].op # "register",
           req'[r].op = "google_callback" =>
             /\ req[r].op = "google_callback" /\ req[r].pc = "create_user"
             /\ req'[r].pc = "upsert_oauth_identity" /\ req'[r].user = r,
           req'[r].op # "google_callback" => req'[r].pc # "idle" /\ phc # NULL,
           req'[r].op = "register" =>
             req'[r].pc = "store_refresh_token" /\ req'[r].user = r /\ e # NULL,
           req'[r].op = "create_admin" => req'[r].pc = "done"
    PROVE  SignUpInv' /\ OwnersKept
<1>1. /\ Frame(r) /\ SignUpTypeOK'
      /\ users'[r] # NULL /\ users'[r].email = e /\ users'[r].password_hash = phc
      /\ users'[r].email_verified = verified
      /\ \A v \in UserId : v # r => users'[v] = users[v]
      /\ e # NULL => \A v \in UserId : users[v] # NULL => users[v].email # e
  BY CreateFrame
<1>2. /\ r \in UserId /\ SignUpTypeOK
      /\ email_verification_tokens' = email_verification_tokens
      /\ oauth_identities' = oauth_identities /\ profile' = profile
  BY DEF SignUpInv, UserId, verificationVars, googleVars
<1>3. req[r].pc = "create_user" => CallbackInv(r) /\ InFlight(r)
  BY DEF SignUpInv, RequestInv, InFlight
<1>4. AccountInv(r)'
  <2>1. CASE req'[r].op = "google_callback"
    BY <1>2, <1>3, <2>1 DEF AccountInv, CallbackInv
  <2>2. CASE req'[r].op \in {"register", "create_admin"}
    BY <1>1, <2>2 DEF AccountInv
  <2> QED BY <2>1, <2>2
<1>5. WriterInv(r)'
  BY <1>1, <1>2 DEF WriterInv, InFlight
<1>6. IssuedInv(r)'
  BY NothingIssued
<1>7. VerifyInv(r)' /\ ~ Verifies(r)'
  BY DEF VerifyInv, Verifies
<1>8. CallbackInv(r)'
  <2>1. CASE req'[r].op = "google_callback"
    BY <1>1, <1>2, <1>3, <2>1 DEF CallbackInv
  <2> QED BY <2>1 DEF CallbackInv
<1>9. UnlinkedInv(r)'
  <2>1. CASE req'[r].op = "google_callback"
    <3>1. UnlinkedInv(r) /\ \A s \in Subjects : r \in Unlinked(s)' => r \in Unlinked(s)
      BY <1>2, <2>1 DEF SignUpInv, RequestInv, Unlinked
    <3> QED BY <3>1 DEF UnlinkedInv, googleVars
  <2> QED BY <2>1 DEF UnlinkedInv, Unlinked
<1>10. ReachInv(r)'
  BY <1>1 DEF ReachInv
<1>11. ASSUME NEW u \in UserId, users'[u] # NULL, users'[u].email_verified
       PROVE  (users[u] # NULL /\ users[u].email_verified) \/ VerifiedInv(u)'
  <2>1. CASE u = r
    BY <1>1, <1>11, <2>1 DEF VerifiedInv
  <2> QED BY <1>1, <1>11, <2>1
<1>12. RequestInv(r)'
  BY <1>4, <1>5, <1>6, <1>7, <1>8, <1>9, <1>10 DEF RequestInv
<1> QED BY <1>1, <1>2, <1>7, <1>11, <1>12, StepKeeps

\* POST /register inserts its account first.
LEMMA RegisterKeeps ==
    ASSUME SignUpInv, NEW r \in Requests, register(r), UNCHANGED googleVars PROVE SignUpInv' /\ OwnersKept
<1>1. PICK e \in Emails, p \in Passwords :
         /\ create_user(r, e, hash_password(p, r), "user", FALSE)
         /\ Enter(r, "register", "store_refresh_token", r, NULL, NULL)
  BY DEF register
<1>2. "register" \in Op /\ "store_refresh_token" \in Pc /\ r \in UserId /\ "user" \in Role
  BY DEF Op, Pc, UserId, Role
<1>3. ReqTypeOK
  BY Types DEF SignUpInv
<1>4. /\ ReqTypeOK' /\ req[r].pc = "idle" /\ \A q \in Requests \ {r} : req'[q] = req[q]
      /\ req'[r].op = "register" /\ req'[r].pc = "store_refresh_token" /\ req'[r].user = r
  BY <1>1, <1>2, <1>3, EnterEffect
<1> DEFINE h == hash_password(p, r)
<1>5. h \in Phc
  BY <1>2 DEF hash_password, Phc
<1>6. create_user(r, e, h, "user", FALSE)
  BY <1>1
<1>7. h # NULL /\ e # NULL /\ users[r] = NULL
  BY <1>4, <1>5, RowsExist, NullAssumption, NotYet
<1>8. UNCHANGED <<refresh_tokens, now, verificationVars, googleVars>>
  BY DEF register
<1> HIDE DEF h
<1> QED BY <1>2, <1>4, <1>5, <1>6, <1>7, <1>8, CreationKeeps

\* So does the create-admin command, which is over with that.
LEMMA CreateAdminKeeps ==
    ASSUME SignUpInv, NEW r \in Requests, create_admin(r), UNCHANGED googleVars PROVE SignUpInv' /\ OwnersKept
<1>1. "create_admin" \in Op /\ "admin" \in Role /\ r \in UserId
  BY DEF Op, Role, UserId
<1>2. ASSUME NEW code \in {db_error, into_response.ValidationFields},
             Reject(r, "create_admin", code), UNCHANGED users
      PROVE  SignUpInv' /\ OwnersKept
  BY <1>1, <1>2, RejectKeeps, ErrorStatus DEF create_admin, dbVars
<1>3. ASSUME NEW e \in Emails, NEW p \in Passwords, NEW s \in {200, 0}, req[r].pc = "idle",
             create_user(r, e, hash_password(p, r), "admin", TRUE),
             req' = [req EXCEPT ![r] = Answered("create_admin", NULL, s)]
      PROVE  SignUpInv' /\ OwnersKept
  <2>1. s \in Status /\ ReqTypeOK
    BY StatusCodes, Types DEF SignUpInv
  <2>2. /\ ReqTypeOK' /\ \A q \in Requests \ {r} : req'[q] = req[q]
        /\ req'[r].op = "create_admin" /\ req'[r].pc = "done"
    BY <1>1, <1>3, <2>1, AnsweredEffect
  <2> DEFINE h == hash_password(p, r)
  <2>3. h \in Phc
    BY <1>1 DEF hash_password, Phc
  <2>4. create_user(r, e, h, "admin", TRUE)
    BY <1>3
  <2>5. h # NULL /\ users[r] = NULL
    BY <1>3, <2>3, RowsExist, NotYet
  <2>6. UNCHANGED <<refresh_tokens, now, verificationVars, googleVars>>
    BY DEF create_admin
  <2> HIDE DEF h
  <2> QED BY <1>1, <1>3, <2>2, <2>3, <2>4, <2>5, <2>6, CreationKeeps
<1> QED BY <1>2, <1>3 DEF create_admin

-----------------------------------------------------------------------------
(* Steps of requests in flight                                             *)

\* A request that goes on or ends without writing users, the verification
\* tables or the identities.
LEMMA GoOnKeeps ==
    ASSUME SignUpInv, NEW r \in Requests, InFlight(r),
           UNCHANGED <<users, verificationVars, googleVars>>, DbTypeOK', ReqTypeOK',
           \A q \in Requests \ {r} : req'[q] = req[q],
           req'[r].op = req[r].op, req'[r].token = req[r].token, req'[r].user = req[r].user,
           \/ req'[r].pc = "done"
           \/ /\ req'[r].pc \in {"find_by_email", "store_email_verification_token"}
              /\ req[r].op = "register",
           req[r].op = "verify_email" \/ req[r].pc = "upsert_oauth_identity" =>
             req'[r].pc = "done" /\ req'[r].status = db_error
    PROVE  SignUpInv' /\ OwnersKept
<1>1. profile' = profile /\ oauth_identities' = oauth_identities /\ overtaken' = overtaken
      /\ email_verification_tokens' = email_verification_tokens
  BY DEF googleVars, verificationVars
<1>2. Frame(r) /\ SameClaim(r)
  BY <1>1, TablesAlone DEF SameClaim
<1>3. SignUpTypeOK'
  BY DEF SignUpInv, SignUpTypeOK, VerificationTypeOK, GoogleTypeOK, verificationVars, googleVars
<1>4. req[r].pc # "done" /\ (req[r].pc = "create_user" => req'[r].pc = "done")
  <2>1. WriterInv(r)
    BY DEF SignUpInv, RequestInv
  <2> QED BY <2>1 DEF InFlight, WriterInv
<1>5. AccountInv(r)' /\ WriterInv(r)' /\ VerifyInv(r)' /\ CallbackInv(r)' /\ UnlinkedInv(r)'
  BY <1>2, <1>4, SelfKeeps
<1>6. IssuedInv(r)' /\ ReachInv(r)'
  BY <1>2, <1>4, NothingIssued, ReachKeeps
<1>7. Verifies(r)' => Verifies(r)
  BY DEF Verifies
<1>8. RequestInv(r)'
  BY <1>5, <1>6 DEF RequestInv
<1> QED BY <1>1, <1>2, <1>3, <1>7, <1>8, StepKeeps

\* The handler is dropped or fails.
LEMMA AbortKeeps ==
    ASSUME SignUpInv, NEW r \in Requests, Abort(r), UNCHANGED <<verificationVars, googleVars>>
    PROVE  SignUpInv' /\ OwnersKept
<1>1. DbTypeOK /\ ReqTypeOK
  BY Types DEF SignUpInv
<1>2. /\ ReqTypeOK' /\ InFlight(r) /\ UNCHANGED dbVars
      /\ \A q \in Requests \ {r} : req'[q] = req[q]
      /\ req'[r].op = req[r].op /\ req'[r].pc = "done" /\ req'[r].user = req[r].user
      /\ req'[r].token = req[r].token /\ req'[r].status = db_error
  BY <1>1, AbortEffect
<1>3. DbTypeOK' /\ users' = users
  BY <1>1, <1>2 DEF DbTypeOK, dbVars
<1> QED BY <1>2, <1>3, GoOnKeeps

\* A registration stores its refresh token.
LEMMA RegisterStoreKeeps ==
    ASSUME SignUpInv, NEW r \in Requests, register_store_token(r), UNCHANGED googleVars
    PROVE  SignUpInv' /\ OwnersKept
<1>1. DbTypeOK /\ ReqTypeOK /\ "find_by_email" \in Pc /\ WriterInv(r)
  BY Types DEF SignUpInv, RequestInv, Pc
<1>2. req[r].op = "register" /\ req[r].pc = "store_refresh_token" /\ InFlight(r)
  BY DEF register_store_token, At, InFlight
<1>3. /\ ReqTypeOK' /\ \A q \in Requests \ {r} : req'[q] = req[q]
      /\ req'[r].op = req[r].op /\ req'[r].pc = "find_by_email" /\ req'[r].user = req[r].user
      /\ req'[r].token = req[r].token
  BY <1>1, ProceedEffect DEF register_store_token
<1>4. UNCHANGED <<users, now, verificationVars>> /\ store_refresh_token(r, req[r].user, now + RefreshTtl)
  BY DEF register_store_token
<1>5. req[r].user \in UserId
  BY <1>1, <1>2 DEF WriterInv
<1>6. refresh_tokens' \in [TokenId -> RefreshRow \cup {NULL}]
  <2>1. now + RefreshTtl \in Nat
    BY <1>1, TimeAssumption DEF DbTypeOK
  <2> DEFINE exp == now + RefreshTtl
  <2>2. exp \in Nat /\ store_refresh_token(r, req[r].user, exp)
    BY <1>4, <2>1
  <2> HIDE DEF exp
  <2> QED BY <1>1, <1>5, <2>2, StoreTokenEffect DEF DbTypeOK
<1>7. DbTypeOK'
  BY <1>1, <1>4, <1>6 DEF DbTypeOK
<1> QED BY <1>2, <1>3, <1>4, <1>7, GoOnKeeps

\* The account it finds by its address is its own.
LEMMA RegisterFindKeeps ==
    ASSUME SignUpInv, NEW r \in Requests, register_find_user(r), UNCHANGED googleVars
    PROVE  SignUpInv' /\ OwnersKept
<1>1. DbTypeOK /\ ReqTypeOK /\ WriterInv(r) /\ UniqueEmails
  BY Types DEF SignUpInv, RequestInv
<1>2. req[r].op = "register" /\ req[r].pc = "find_by_email" /\ InFlight(r)
  BY DEF register_find_user, At, InFlight
<1>3. UNCHANGED <<dbVars, verificationVars>> /\ DbTypeOK' /\ users' = users
  BY <1>1 DEF register_find_user, dbVars, DbTypeOK
<1>4. r \in UserId /\ req[r].user = r /\ users[r] # NULL /\ users[r].email # NULL
  BY <1>1, <1>2 DEF WriterInv
<1>5. ASSUME NEW u \in UserId, found_by_email(Address(r), u),
             req' = [req EXCEPT ![r].pc = "store_email_verification_token", ![r].user = u]
      PROVE  SignUpInv' /\ OwnersKept
  <2>1. u = r
    BY <1>1, <1>2, <1>4, <1>5 DEF found_by_email, Address, UniqueEmails
  <2>2. "store_email_verification_token" \in Pc /\ u \in UserId \cup {NULL}
    BY DEF Pc
  <2>3. /\ ReqTypeOK' /\ \A q \in Requests \ {r} : req'[q] = req[q]
        /\ req'[r].op = req[r].op /\ req'[r].pc = "store_email_verification_token"
        /\ req'[r].user = u /\ req'[r].token = req[r].token
    BY <1>1, <1>5, <2>2, ProceedForEffect
  <2> QED BY <1>2, <1>3, <1>4, <2>1, <2>3, GoOnKeeps
<1>6. CASE Finish(r, 201)
  <2>1. /\ ReqTypeOK' /\ \A q \in Requests \ {r} : req'[q] = req[q]
        /\ req'[r].op = req[r].op /\ req'[r].pc = "done" /\ req'[r].user = req[r].user
        /\ req'[r].token = req[r].token
    BY <1>1, <1>6, StatusCodes, FinishEffect
  <2> QED BY <1>2, <1>3, <2>1, GoOnKeeps
<1> QED BY <1>5, <1>6 DEF register_find_user

\* The last step of a callback.
LEMMA GoogleIssueKeeps ==
    ASSUME SignUpInv, NEW r \in Requests, google_issue_tokens(r), UNCHANGED verificationVars
    PROVE  SignUpInv' /\ OwnersKept
<1>1. DbTypeOK /\ ReqTypeOK /\ CallbackInv(r)
  BY Types DEF SignUpInv, RequestInv
<1>2. req[r].op = "google_callback" /\ req[r].pc = "store_refresh_token" /\ InFlight(r)
  BY DEF google_issue_tokens, issue_tokens, InFlight
<1>3. req[r].user # NULL /\ issue_tokens(r) /\ UNCHANGED googleVars
  BY <1>1, <1>2, RowsExist DEF CallbackInv, google_issue_tokens
<1>4. /\ ReqTypeOK' /\ DbTypeOK' /\ users' = users
      /\ \A q \in Requests \ {r} : req'[q] = req[q]
      /\ req'[r].op = req[r].op /\ req'[r].pc = "done" /\ req'[r].user = req[r].user
      /\ req'[r].token = req[r].token
  BY <1>1, <1>3, IssueTokensEffect
<1> QED BY <1>2, <1>3, <1>4, GoOnKeeps

\* A callback without an identity makes an account, or finds its address taken.
LEMMA GoogleCreateKeeps ==
    ASSUME SignUpInv, NEW r \in Requests, google_create_user(r), UNCHANGED verificationVars
    PROVE  SignUpInv' /\ OwnersKept
<1>1. DbTypeOK /\ ReqTypeOK /\ CallbackInv(r) /\ AccountInv(r) /\ SignUpTypeOK
  BY Types DEF SignUpInv, RequestInv
<1>2. req[r].op = "google_callback" /\ req[r].pc = "create_user" /\ InFlight(r)
  BY DEF google_create_user, At, InFlight
<1>3. UNCHANGED <<refresh_tokens, now, googleVars>> /\ profile' = profile
  BY DEF google_create_user, googleVars
<1> DEFINE e == profile[r].email  verified == e # NULL
<1>4. e \in Emails \cup {NULL} /\ verified \in BOOLEAN /\ users[r] = NULL
  BY <1>1, <1>2, RowFields DEF CallbackInv, AccountInv
<1>5. CASE create_user(r, e, NULL, "user", verified)
           /\ req' = [req EXCEPT ![r].pc = "upsert_oauth_identity", ![r].user = r]
  <2>1. "upsert_oauth_identity" \in Pc /\ r \in UserId \cup {NULL} /\ "user" \in Role
    BY DEF Pc, UserId, Role
  <2>2. /\ ReqTypeOK' /\ \A q \in Requests \ {r} : req'[q] = req[q]
        /\ req'[r].op = "google_callback" /\ req'[r].pc = "upsert_oauth_identity"
        /\ req'[r].user = r /\ req'[r].token = req[r].token
    <3>1. PICK u \in UserId \cup {NULL} : u = r
      BY <2>1
    <3>2. req' = [req EXCEPT ![r].pc = "upsert_oauth_identity", ![r].user = u]
      BY <1>5, <3>1
    <3> HIDE DEF e, verified
    <3>3. ReqTypeOK /\ "upsert_oauth_identity" \in Pc
      BY <1>1, <2>1
    <3>4. /\ ReqTypeOK' /\ \A q \in Requests \ {r} : req'[q] = req[q]
          /\ req'[r].op = req[r].op /\ req'[r].pc = "upsert_oauth_identity"
          /\ req'[r].user = u /\ req'[r].token = req[r].token
      BY <3>2, <3>3, ProceedForEffect
    <3> QED BY <1>2, <3>1, <3>4
  <2>3. SameClaim(r)
    BY <1>2, <1>3, <2>2 DEF SameClaim
  <2>4. create_user(r, e, NULL, "user", verified) /\ NULL \in Phc \cup {NULL}
    BY <1>5
  <2> HIDE DEF e, verified
  <2> QED BY <1>2, <1>3, <1>4, <2>1, <2>2, <2>3, <2>4, CreationKeeps
<1>6. CASE req' = [req EXCEPT ![r].pc = "done", ![r].status = db_error] /\ UNCHANGED users
  <2>1. /\ ReqTypeOK' /\ \A q \in Requests \ {r} : req'[q] = req[q]
        /\ req'[r].op = req[r].op /\ req'[r].pc = "done" /\ req'[r].user = req[r].user
        /\ req'[r].token = req[r].token
    BY <1>1, <1>6, ErrorStatus, EndEffect
  <2>2. DbTypeOK'
    BY <1>1, <1>3, <1>6 DEF DbTypeOK
  <2> QED BY <1>2, <1>3, <1>6, <2>1, <2>2, GoOnKeeps
<1> QED BY <1>5, <1>6 DEF google_create_user

-----------------------------------------------------------------------------
(* Steps that write the verification tables or the identities              *)

\* The mail of a registration or a resend goes to the account's address.
LEMMA SpawnKeeps ==
    ASSUME SignUpInv, NEW r \in Requests, spawn_verification_email(r), UNCHANGED googleVars
    PROVE  SignUpInv' /\ OwnersKept
<1>1. DbTypeOK /\ ReqTypeOK /\ WriterInv(r) /\ SignUpTypeOK
  BY Types DEF SignUpInv, RequestInv
<1>2. /\ req[r].pc = "store_email_verification_token" /\ InFlight(r) /\ req[r].pc # "done"
      /\ req[r].op \in {"register", "resend_verification"}
  BY <1>1 DEF spawn_verification_email, InFlight, WriterInv
<1> DEFINE u == req[r].user
<1>3. /\ u \in UserId /\ users[u] # NULL /\ users[u].email # NULL /\ users[u] \in UserRow
      /\ Address(r) = users[u].email
  BY <1>1, <1>2, Types DEF WriterInv, Address
<1>4. /\ ReqTypeOK' /\ \A q \in Requests \ {r} : req'[q] = req[q]
      /\ req'[r].op = req[r].op /\ req'[r].pc = "done" /\ req'[r].user = u
      /\ req'[r].token = req[r].token
  <2>1. \E code \in {201, 204} : Finish(r, code)
    BY DEF spawn_verification_email
  <2>2. PICK code \in Status : Finish(r, code)
    BY <2>1, StatusCodes
  <2> QED BY <1>1, <2>2, FinishEffect
<1>5. UNCHANGED dbVars /\ users' = users /\ DbTypeOK'
  BY <1>1 DEF spawn_verification_email, dbVars, DbTypeOK
<1>6. CASE UNCHANGED verificationVars
  BY <1>2, <1>4, <1>5, <1>6, GoOnKeeps
<1>7. ASSUME store_email_verification_token(r, u, now + VerifyTtl),
             NEW m \in {NULL, [to |-> Address(r), state |-> "queued"]},
             verification_mail' = [verification_mail EXCEPT ![r] = m]
      PROVE  SignUpInv' /\ OwnersKept
  <2> DEFINE row == [user_id |-> u, expires_at |-> now + VerifyTtl, used |-> FALSE]
             card == [to |-> Address(r), state |-> "queued"]
  <2>1. row \in VerificationRow /\ row.user_id = u /\ row.used = FALSE
    BY <1>1, <1>3, VerifyTtlAssumption DEF VerificationRow, DbTypeOK
  <2>2. email_verification_tokens' = [email_verification_tokens EXCEPT ![r] = row]
    BY <1>7 DEF store_email_verification_token
  <2>3. m # NULL => m \in VerificationMail /\ m.to = users[u].email
    <3>1. users[u].email \in Emails
      BY <1>3 DEF UserRow
    <3> QED BY <1>3, <3>1 DEF VerificationMail
  <2> HIDE DEF row
  <2>4. row # NULL
    BY <2>1, VerificationAssumption
  <2>5. /\ email_verification_tokens' \in [TokenId -> VerificationRow \cup {NULL}]
        /\ verification_mail' \in [TokenId -> VerificationMail \cup {NULL}]
    BY <1>1, <1>7, <2>1, <2>2, <2>3, Types
  <2>6. /\ email_verification_tokens'[r] = row /\ verification_mail'[r] = m
        /\ \A t \in TokenId : t # r => /\ email_verification_tokens'[t] = email_verification_tokens[t]
                                      /\ verification_mail'[t] = verification_mail[t]
    BY <1>1, <1>7, <2>2, Types
  <2>7. SignUpTypeOK'
    BY <1>1, <1>4, <1>5, <2>5 DEF SignUpTypeOK, VerificationTypeOK, GoogleTypeOK, googleVars
  <2>8. email_verification_tokens[r] = NULL /\ verification_mail[r] = NULL
    BY <1>2, NotYet
  <2>9. /\ profile' = profile /\ oauth_identities' = oauth_identities /\ overtaken' = overtaken
    BY DEF googleVars
  <2>10. Frame(r) /\ SameClaim(r)
    BY <1>4, <1>5, <2>6, <2>8, <2>9 DEF Frame, SameClaim, Arrived
  <2>11. AccountInv(r)' /\ WriterInv(r)' /\ VerifyInv(r)' /\ CallbackInv(r)' /\ UnlinkedInv(r)'
    BY <1>2, <1>4, <1>5, <2>10, SelfKeeps
  <2>12. ReachInv(r)'
    BY <1>2, <1>5, <2>10, ReachKeeps
  <2>13. IssuedInv(r)'
    BY <1>3, <1>4, <1>5, <2>1, <2>3, <2>4, <2>6 DEF IssuedInv
  <2>14. RequestInv(r)'
    BY <2>11, <2>12, <2>13 DEF RequestInv
  <2>15. ASSUME NEW t \in TokenId, email_verification_tokens'[t] # NULL,
                email_verification_tokens'[t].used
         PROVE  email_verification_tokens[t] # NULL /\ email_verification_tokens[t].used
    BY <2>1, <2>6, <2>15
  <2>16. Verifies(r)' => Verifies(r)
    BY <1>4 DEF Verifies
  <2> QED BY <1>5, <2>7, <2>9, <2>10, <2>14, <2>15, <2>16, StepKeeps
<1> QED BY <1>6, <1>7 DEF spawn_verification_email

\* A mail arrives or is lost.
LEMMA SendKeeps ==
    ASSUME SignUpInv, NEW t \in Requests, send_verification_email(t), UNCHANGED googleVars
    PROVE  SignUpInv' /\ OwnersKept
<1>1. /\ UNCHANGED <<dbVars, req, email_verification_tokens>> /\ users' = users
      /\ profile' = profile /\ oauth_identities' = oauth_identities /\ overtaken' = overtaken
  BY DEF send_verification_email, dbVars, googleVars
<1>2. PICK s \in {"delivered", "lost"} : verification_mail' = [verification_mail EXCEPT ![t].state = s]
  BY DEF send_verification_email
<1>3. /\ verification_mail[t] # NULL /\ verification_mail[t].state = "queued"
      /\ verification_mail[t] \in VerificationMail
  BY Types DEF send_verification_email, SignUpInv
<1>4. /\ verification_mail'[t] \in VerificationMail
      /\ verification_mail'[t].to = verification_mail[t].to
      /\ \A v \in TokenId : v # t => verification_mail'[v] = verification_mail[v]
  BY <1>2, <1>3, Types DEF SignUpInv, VerificationMail
<1>5. verification_mail'[t] # NULL
  BY <1>4, VerificationAssumption
<1>6. verification_mail' \in [TokenId -> VerificationMail \cup {NULL}]
  BY <1>2, <1>4, Types DEF SignUpInv
<1>7. SignUpTypeOK'
  BY <1>1, <1>6
     DEF SignUpInv, SignUpTypeOK, DbTypeOK, ReqTypeOK, VerificationTypeOK, GoogleTypeOK, dbVars
<1>8. \A v \in TokenId : Arrived(v) => Arrived(v)'
  BY <1>3, <1>4 DEF Arrived
<1>9. Frame(t) /\ SameClaim(t)
  BY <1>1, <1>4, <1>5, <1>8 DEF Frame, SameClaim
<1>10. RequestInv(t)'
  <2>1. /\ AccountInv(t) /\ WriterInv(t) /\ IssuedInv(t) /\ VerifyInv(t) /\ CallbackInv(t)
        /\ UnlinkedInv(t) /\ ReachInv(t)
    BY DEF SignUpInv, RequestInv
  <2>2. AccountInv(t)' /\ WriterInv(t)' /\ CallbackInv(t)' /\ UnlinkedInv(t)' /\ ReachInv(t)'
    BY <1>1, <2>1
       DEF AccountInv, WriterInv, CallbackInv, UnlinkedInv, Unlinked, ReachInv, InFlight
  <2>3. IssuedInv(t)'
    BY <1>1, <1>3, <1>4, <2>1 DEF IssuedInv
  <2>4. VerifyInv(t)'
    BY <1>1, <1>8, <2>1 DEF VerifyInv, InFlight
  <2> QED BY <2>2, <2>3, <2>4 DEF RequestInv
<1>11. Verifies(t)' => Verifies(t)
  BY <1>1 DEF Verifies
<1> QED BY <1>1, <1>7, <1>9, <1>10, <1>11, StepKeeps

\* A token that arrived is used up, once.
LEMMA VerifyKeeps ==
    ASSUME SignUpInv, NEW r \in Requests, verify_email(r), UNCHANGED googleVars PROVE SignUpInv' /\ OwnersKept
<1>1. /\ UNCHANGED <<dbVars, verification_mail>> /\ users' = users /\ profile' = profile
      /\ oauth_identities' = oauth_identities /\ overtaken' = overtaken
      /\ "verify_email" \in Op /\ "mark_email_verified" \in Pc
  BY DEF verify_email, dbVars, googleVars, Op, Pc
<1>2. CASE Reject(r, "verify_email", into_response.BadRequest) /\ UNCHANGED email_verification_tokens
  BY <1>1, <1>2, RejectKeeps, ErrorStatus DEF verificationVars
<1>3. ASSUME NEW t \in TokenId, Arrived(t), Verifiable(t),
             email_verification_tokens' = [email_verification_tokens EXCEPT ![t].used = TRUE],
             Enter(r, "verify_email", "mark_email_verified",
                   email_verification_tokens[t].user_id, t, NULL)
      PROVE  SignUpInv' /\ OwnersKept
  <2> DEFINE u == email_verification_tokens[t].user_id
  <2>1. /\ SignUpTypeOK /\ email_verification_tokens[t] \in VerificationRow
        /\ email_verification_tokens[t] # NULL /\ ~ email_verification_tokens[t].used
        /\ u \in UserId
    BY <1>3, Types, RowFields DEF SignUpInv, Verifiable
  <2>2. /\ ReqTypeOK' /\ req[r].pc = "idle" /\ \A q \in Requests \ {r} : req'[q] = req[q]
        /\ req'[r].op = "verify_email" /\ req'[r].pc = "mark_email_verified"
        /\ req'[r].user = u /\ req'[r].token = t
    <3>1. ReqTypeOK
      BY Types DEF SignUpInv
    <3>2. Enter(r, "verify_email", "mark_email_verified", u, t, NULL) /\ u \in UserId
      BY <1>3, <2>1
    <3> HIDE DEF u
    <3> QED BY <1>1, <3>1, <3>2, EnterEffect
  <2>3. /\ email_verification_tokens'[t] \in VerificationRow
        /\ email_verification_tokens'[t].user_id = u /\ email_verification_tokens'[t].used = TRUE
        /\ \A v \in TokenId : v # t => email_verification_tokens'[v] = email_verification_tokens[v]
    BY <1>3, <2>1, Types DEF VerificationRow
  <2>4. email_verification_tokens'[t] # NULL
    BY <2>3, VerificationAssumption
  <2>5. email_verification_tokens' \in [TokenId -> VerificationRow \cup {NULL}]
    BY <1>3, <2>1, <2>3, Types
  <2>6. SignUpTypeOK'
    BY <1>1, <2>1, <2>2, <2>5, Types
       DEF SignUpTypeOK, DbTypeOK, VerificationTypeOK, GoogleTypeOK, dbVars
  <2>7. \A v \in TokenId : Arrived(v)' <=> Arrived(v)
    BY <1>1 DEF Arrived
  <2>8. Frame(r)
    BY <1>1, <2>1, <2>2, <2>3, <2>4, <2>7 DEF Frame
  <2>9. users[r] = NULL /\ email_verification_tokens[r] = NULL /\ verification_mail[r] = NULL
    BY <2>2, NotYet
  <2>10. AccountInv(r)' /\ ReachInv(r)'
    BY <1>1, <2>9 DEF AccountInv, ReachInv
  <2>11. WriterInv(r)' /\ CallbackInv(r)' /\ UnlinkedInv(r)'
    BY <2>2 DEF WriterInv, CallbackInv, UnlinkedInv, Unlinked
  <2>12. IssuedInv(r)'
    BY <1>1, <2>1, <2>3, <2>9 DEF IssuedInv
  <2>13. VerifyInv(r)'
    BY <1>3, <2>2, <2>3, <2>4, <2>7 DEF VerifyInv, InFlight
  <2>14. RequestInv(r)'
    BY <2>10, <2>11, <2>12, <2>13 DEF RequestInv
  <2>15. t # NULL /\ Verifies(r)' /\ req'[r].token = t
    BY <2>2, RowsExist DEF Verifies, UserId
  <2>16. ASSUME NEW q \in Requests \ {r}, Verifies(q) PROVE req[q].token # t
    <3>1. VerifyInv(q)
      BY DEF SignUpInv, RequestInv
    <3> QED BY <2>1, <2>16, <3>1 DEF VerifyInv, Verifies
  <2>17. \A v \in TokenId : v # t => email_verification_tokens'[v] = email_verification_tokens[v]
    BY <2>3
  <2> QED BY <1>1, <2>2, <2>6, <2>8, <2>14, <2>15, <2>16, <2>17, StepKeeps
<1> QED BY <1>2, <1>3 DEF verify_email

\* The account of the token is marked.
LEMMA MarkKeeps ==
    ASSUME SignUpInv, NEW r \in Requests, verify_email_mark(r), UNCHANGED googleVars PROVE SignUpInv' /\ OwnersKept
<1>1. DbTypeOK /\ ReqTypeOK /\ VerifyInv(r) /\ SignUpTypeOK
  BY Types DEF SignUpInv, RequestInv
<1>2. /\ req[r].op = "verify_email" /\ req[r].pc = "mark_email_verified" /\ InFlight(r)
      /\ req[r].pc # "done"
  BY DEF verify_email_mark, At, InFlight
<1> DEFINE t == req[r].token  u == req[r].user
<1>3. /\ t \in TokenId /\ Arrived(t) /\ email_verification_tokens[t] # NULL
      /\ email_verification_tokens[t].used /\ u = email_verification_tokens[t].user_id
  BY <1>1, <1>2 DEF VerifyInv
<1>4. u \in UserId /\ users[u] # NULL
  BY <1>1, <1>3, RowFields DEF SignUpInv, RequestInv, IssuedInv
<1>5. mark_email_verified(u) /\ UNCHANGED <<refresh_tokens, now, verificationVars>> /\ Finish(r, 200)
  BY DEF verify_email_mark
<1>6. /\ users' \in [UserId -> UserRow \cup {NULL}]
      /\ \A v \in UserId : v # u => users'[v] = users[v]
      /\ users'[u] # NULL /\ users'[u].email_verified
      /\ \A v \in UserId : users[v] # NULL => /\ users'[v].email = users[v].email
                                             /\ users'[v].password_hash = users[v].password_hash
  BY <1>1, <1>4, <1>5, MarkVerifiedEffect DEF DbTypeOK
<1>7. /\ ReqTypeOK' /\ \A q \in Requests \ {r} : req'[q] = req[q]
      /\ req'[r].op = req[r].op /\ req'[r].pc = "done" /\ req'[r].user = u
      /\ req'[r].token = req[r].token
  BY <1>1, <1>5, StatusCodes, FinishEffect
<1>8. /\ email_verification_tokens' = email_verification_tokens
      /\ verification_mail' = verification_mail /\ profile' = profile
      /\ oauth_identities' = oauth_identities /\ overtaken' = overtaken
  BY <1>5 DEF verificationVars, googleVars
<1>9. SignUpTypeOK'
  BY <1>1, <1>5, <1>6, <1>7, <1>8
     DEF SignUpTypeOK, DbTypeOK, VerificationTypeOK, GoogleTypeOK
<1>10. \A v \in UserId : users[v] = NULL => users'[v] = NULL
  BY <1>4, <1>6
<1>11. Frame(r) /\ SameClaim(r)
  BY <1>6, <1>7, <1>8, <1>10 DEF Frame, SameClaim, Arrived
<1>12. users[r] = NULL => users'[r] = NULL
  BY <1>10 DEF UserId
<1>13. AccountInv(r)' /\ WriterInv(r)' /\ VerifyInv(r)' /\ CallbackInv(r)' /\ UnlinkedInv(r)'
  BY <1>2, <1>6, <1>7, <1>11, <1>12, SelfKeeps
<1>14. IssuedInv(r)' /\ ReachInv(r)'
  BY <1>2, <1>5, <1>11, <1>12, NothingIssued, ReachKeeps
<1>15. RequestInv(r)'
  BY <1>13, <1>14 DEF RequestInv
<1>16. \A v \in UserId : v = u => VerifiedInv(v)'
  BY <1>3, <1>8 DEF VerifiedInv, Arrived
<1>17. \A v \in UserId : users'[v] # NULL /\ users'[v].email_verified =>
         (users[v] # NULL /\ users[v].email_verified) \/ VerifiedInv(v)'
  BY <1>6, <1>16
<1>18. Verifies(r)' => Verifies(r)
  BY <1>7 DEF Verifies
<1> QED BY <1>8, <1>9, <1>11, <1>12, <1>15, <1>17, <1>18, StepKeeps

\* The first callback to come this far links the person to its account; the
\* others that found no identity are overtaken.
LEMMA LinkKeeps ==
    ASSUME SignUpInv, NEW r \in Requests, google_link(r), UNCHANGED verificationVars PROVE SignUpInv' /\ OwnersKept
<1>1. DbTypeOK /\ ReqTypeOK /\ CallbackInv(r) /\ SignUpTypeOK /\ UnlinkedInv(r)
  BY Types DEF SignUpInv, RequestInv
<1>2. /\ req[r].op = "google_callback" /\ req[r].pc = "upsert_oauth_identity" /\ InFlight(r)
      /\ req[r].pc # "done"
  BY DEF google_link, At, InFlight
<1> DEFINE s == profile[r].sub  u == req[r].user
<1>3. /\ profile[r] # NULL /\ s \in Subjects /\ u \in UserId /\ users[u] # NULL
      /\ u = r \/ oauth_identities[s] = u
  BY <1>1, <1>2, RowFields DEF CallbackInv
<1>4. /\ oauth_identities' = [oauth_identities EXCEPT ![s] = IF @ = NULL THEN u ELSE @]
      /\ overtaken' = IF oauth_identities[s] = NULL
                      THEN overtaken \cup (Unlinked(s) \ {r}) ELSE overtaken
      /\ Proceed(r, "store_refresh_token") /\ UNCHANGED <<dbVars, profile>>
  BY DEF google_link, upsert_oauth_identity
<1>5. "store_refresh_token" \in Pc /\ u # NULL
  BY <1>3, RowsExist DEF Pc
<1>6. /\ ReqTypeOK' /\ \A q \in Requests \ {r} : req'[q] = req[q]
      /\ req'[r].op = req[r].op /\ req'[r].pc = "store_refresh_token" /\ req'[r].user = u
      /\ req'[r].token = req[r].token
  BY <1>1, <1>4, <1>5, ProceedEffect
<1>7. /\ users' = users /\ profile' = profile /\ DbTypeOK'
      /\ email_verification_tokens' = email_verification_tokens
      /\ verification_mail' = verification_mail
  BY <1>1, <1>4 DEF dbVars, DbTypeOK, verificationVars
<1>8. /\ oauth_identities' \in [Subjects -> UserId \cup {NULL}]
      /\ \A x \in Subjects : x # s => oauth_identities'[x] = oauth_identities[x]
      /\ oauth_identities[s] = NULL => oauth_identities'[s] = u
      /\ oauth_identities[s] # NULL => oauth_identities'[s] = oauth_identities[s]
  BY <1>1, <1>3, <1>4, Types
<1>9. overtaken' \subseteq Requests /\ overtaken \subseteq overtaken'
  BY <1>1, <1>4, Types DEF Unlinked
<1>10. SignUpTypeOK'
  BY <1>1, <1>6, <1>7, <1>8, <1>9 DEF SignUpTypeOK, VerificationTypeOK, GoogleTypeOK
<1>11. Frame(r) /\ SameClaim(r)
  BY <1>4, <1>6, <1>7, <1>8, <1>9 DEF Frame, SameClaim, Arrived
<1>12. AccountInv(r)' /\ WriterInv(r)' /\ VerifyInv(r)' /\ CallbackInv(r)' /\ UnlinkedInv(r)'
  BY <1>2, <1>6, <1>7, <1>11, SelfKeeps
<1>13. IssuedInv(r)'
  BY <1>2, NothingIssued
<1>14. ReachInv(r)'
  <2>1. u = r => oauth_identities[s] = NULL \/ r \in overtaken
    BY <1>1, <1>2, <1>3 DEF UnlinkedInv, Unlinked
  <2>2. oauth_identities'[s] = r \/ r \in overtaken' \/ u # r
    BY <1>8, <1>9, <2>1
  <2>3. users[r] # NULL => u = r
    BY <1>2 DEF SignUpInv, RequestInv, AccountInv
  <2> QED BY <1>2, <1>7, <1>11, <2>2, <2>3, ReachKeeps DEF ReachInv
<1>15. RequestInv(r)'
  BY <1>12, <1>13, <1>14 DEF RequestInv
<1>16. ASSUME NEW x \in Subjects, x = s, oauth_identities[x] = NULL PROVE IdentityInv(x)'
  <2>1. u = r
    BY <1>3, <1>5, <1>16
  <2> QED BY <1>2, <1>3, <1>6, <1>7, <1>8, <1>16, <2>1 DEF IdentityInv
<1>17. \A x \in Subjects : oauth_identities'[x] = oauth_identities[x] \/ IdentityInv(x)'
  BY <1>8, <1>16
<1>18. Verifies(r)' => Verifies(r)
  BY <1>6 DEF Verifies
<1> QED BY <1>7, <1>10, <1>11, <1>15, <1>17, <1>18, StepKeeps

-----------------------------------------------------------------------------
(* The invariant and what it implies                                       *)

\* Every step of a request keeps the invariant.
LEMMA StepOfRequest ==
    ASSUME SignUpInv, NEW r \in Requests, SignUpStep(r) PROVE SignUpInv' /\ OwnersKept
<1>1. ASSUME RegistrationStep(r), UNCHANGED googleVars PROVE SignUpInv' /\ OwnersKept
  <2>1. CASE register_rejects(r)
    <3>1. UNCHANGED <<dbVars, verificationVars, googleVars>> /\ "register" \in Op
      BY <1>1, <2>1 DEF register_rejects, Op
    <3>2. PICK code \in Status : Reject(r, "register", code)
      BY <2>1, ErrorStatus DEF register_rejects
    <3> QED BY <3>1, <3>2, RejectKeeps
  <2> QED BY <1>1, <2>1, RegisterKeeps, ResendKeeps, VerifyKeeps, CreateAdminKeeps, SendKeeps,
            RegisterStoreKeeps, RegisterFindKeeps, SpawnKeeps, MarkKeeps
         DEF RegistrationStep, RegistrationContinue
<1>2. ASSUME GoogleStep(r), UNCHANGED verificationVars PROVE SignUpInv' /\ OwnersKept
  BY <1>2, CallbackKeeps, GoogleCreateKeeps, LinkKeeps, GoogleIssueKeeps
     DEF GoogleStep, GoogleContinue
<1> QED BY <1>1, <1>2, AbortKeeps DEF SignUpStep

\* So does a step that changes nothing but the clock.
LEMMA RestKeeps ==
    ASSUME SignUpInv, UNCHANGED <<users, req, verificationVars, googleVars>>, DbTypeOK'
    PROVE  SignUpInv' /\ OwnersKept
<1>1. SignUpTypeOK'
  BY DEF SignUpInv, SignUpTypeOK, ReqTypeOK, VerificationTypeOK, GoogleTypeOK, verificationVars,
         googleVars
<1>2. \A r \in Requests : RequestInv(r)' /\ UsedInv(r)'
  BY DEF SignUpInv, RequestInv, AccountInv, WriterInv, IssuedInv, VerifyInv, CallbackInv,
         UnlinkedInv, Unlinked, ReachInv, UsedInv, Verifies, Arrived, InFlight, verificationVars,
         googleVars
<1>3. \A u \in UserId : VerifiedInv(u)'
  BY DEF SignUpInv, VerifiedInv, Arrived, verificationVars
<1>4. (\A s \in Subjects : IdentityInv(s)') /\ (\A a \in Accounts : SeededInv(a)')
  BY DEF SignUpInv, IdentityInv, SeededInv, googleVars
<1>5. SingleUse' /\ UniqueEmails'
  BY DEF SignUpInv, SingleUse, Verifies, UniqueEmails
<1>6. OwnersKept
  BY DEF OwnersKept, googleVars
<1> QED BY <1>1, <1>2, <1>3, <1>4, <1>5, <1>6 DEF SignUpInv

\* Every step keeps the invariant.
LEMMA NextSignUp == SignUpInv /\ [SignUpNext]_signUpVars => SignUpInv' /\ OwnersKept
<1> SUFFICES ASSUME SignUpInv, [SignUpNext]_signUpVars PROVE SignUpInv' /\ OwnersKept
  OBVIOUS
<1>1. DbTypeOK
  BY Types DEF SignUpInv
<1>2. CASE UNCHANGED signUpVars
  BY <1>1, <1>2, RestKeeps DEF signUpVars, verificationVars, googleVars, DbTypeOK
<1>3. CASE Tick /\ UNCHANGED <<verificationVars, googleVars>>
  BY <1>1, <1>3, RestKeeps DEF Tick, DbTypeOK
<1> QED BY <1>2, <1>3, StepOfRequest DEF SignUpNext

\* The invariant holds of every run.
THEOREM SignUpInvariant == SignUpSpec => []SignUpInv
BY InitSignUp, NextSignUp, PTL DEF SignUpSpec

\* The tables, the activation records and the history keep their types.
THEOREM SignUpTypeCorrect == SignUpSpec => []SignUpTypeOK
<1>1. SignUpInv => SignUpTypeOK
  BY DEF SignUpInv
<1> QED BY <1>1, SignUpInvariant, PTL

\* Behind every verified address is its owner: an account that was not made
\* verified has used a token that arrived at its own address.
THEOREM VerifiedAddressesAreProved == SignUpSpec => []VerifiedMeansProved
<1>1. SignUpInv => VerifiedMeansProved
  <2> SUFFICES ASSUME SignUpInv, NEW u \in UserId, users[u] # NULL, users[u].email_verified
               PROVE  \/ u \in Accounts /\ Seed[u].email_verified
                      \/ u \in Requests /\ req[u].op \in {"create_admin", "google_callback"}
                      \/ \E t \in TokenId :
                           /\ Arrived(t) /\ verification_mail[t].to = users[u].email
                           /\ email_verification_tokens[t].user_id = u
                           /\ email_verification_tokens[t].used
    BY DEF VerifiedMeansProved
  <2>1. ASSUME NEW t \in TokenId, Arrived(t), email_verification_tokens[t] # NULL,
               email_verification_tokens[t].user_id = u
        PROVE  verification_mail[t].to = users[u].email
    BY <2>1 DEF SignUpInv, RequestInv, IssuedInv, Arrived
  <2> QED BY <2>1 DEF SignUpInv, VerifiedInv
<1> QED BY <1>1, SignUpInvariant, PTL

\* A used token was used by one verification, whose account is verified unless
\* that verification is still at it or failed in between.
THEOREM SpentTokensVerify == SignUpSpec => []SpentTokenVerifies
<1>1. SignUpInv => SpentTokenVerifies
  <2> SUFFICES ASSUME SignUpInv, NEW t \in TokenId, email_verification_tokens[t] # NULL,
                      email_verification_tokens[t].used
               PROVE  \E q \in Requests :
                        /\ \A p \in Requests : Verifies(p) /\ req[p].token = t => p = q
                        /\ Verifies(q) /\ req[q].token = t
                        /\ \/ users[email_verification_tokens[t].user_id].email_verified
                           \/ InFlight(q) \/ req[q].status = db_error
    BY DEF SpentTokenVerifies
  <2>1. PICK q \in Requests : Verifies(q) /\ req[q].token = t
    BY DEF SignUpInv, UsedInv
  <2>2. \A p \in Requests : Verifies(p) /\ req[p].token = t => p = q
    BY <2>1 DEF SignUpInv, SingleUse
  <2>3. \/ users[email_verification_tokens[t].user_id].email_verified
        \/ InFlight(q) \/ req[q].status = db_error
    BY <2>1 DEF SignUpInv, RequestInv, VerifyInv, Verifies
  <2> QED BY <2>1, <2>2, <2>3
<1> QED BY <1>1, SignUpInvariant, PTL

\* An account has a password or an identity that leads to it, or its callback
\* is still at work, failed, or was overtaken by another for the same person.
THEOREM AccountsStayReachable == SignUpSpec => []AccountsReachable
<1>1. SignUpInv => AccountsReachable
  <2> SUFFICES ASSUME SignUpInv, NEW u \in UserId, users[u] # NULL, users[u].password_hash = NULL
               PROVE  \/ \E s \in Subjects : oauth_identities[s] = u
                      \/ u \in Requests /\ (Creating(u) \/ req[u].status = db_error \/ u \in overtaken)
    BY DEF AccountsReachable
  <2>1. u \in Requests
    BY DEF SignUpInv, SeededInv, UserId
  <2>2. req[u].op = "google_callback" /\ req[u].user = u /\ profile[u] # NULL
    BY <2>1 DEF SignUpInv, RequestInv, AccountInv
  <2>3. profile[u].sub \in Subjects
    BY <2>1, <2>2, RowFields DEF SignUpInv
  <2>4. req[u].pc = "upsert_oauth_identity" => Creating(u)
    BY <2>2 DEF Creating, InFlight
  <2> QED BY <2>1, <2>3, <2>4 DEF SignUpInv, RequestInv, ReachInv
<1> QED BY <1>1, SignUpInvariant, PTL

-----------------------------------------------------------------------------
(* What a step does to the accounts                                        *)

\* Request r adds its account, whose address nobody has.
Creation(r) ==
    /\ users[r] = NULL /\ oauth_identities' = oauth_identities
    /\ \E row \in UserRow :
         /\ users' = [users EXCEPT ![r] = row]
         /\ row.email_verified => row.email # NULL
         /\ row.email # NULL => \A v \in UserId : users[v] # NULL => users[v].email # row.email

\* Request r marks an account that is there and has an address.
Marking(r) ==
    /\ req[r].user \in UserId /\ users[req[r].user] # NULL /\ users[req[r].user].email # NULL
    /\ mark_email_verified(req[r].user) /\ oauth_identities' = oauth_identities

\* Request r links its account to its person.
Linking(r) ==
    /\ users' = users /\ users[r] # NULL /\ req[r].op = "google_callback" /\ profile[r] # NULL
    /\ oauth_identities[profile[r].sub] = NULL
    /\ oauth_identities' = [oauth_identities EXCEPT ![profile[r].sub] = r]

\* create_user of a row that is verified only if it has an address.
LEMMA CreationRow ==
    ASSUME NEW r \in Requests, users[r] = NULL, oauth_identities' = oauth_identities,
           NEW e \in Emails \cup {NULL}, NEW phc \in Phc \cup {NULL}, NEW role \in Role,
           NEW verified, verified \in BOOLEAN, verified => e # NULL,
           create_user(r, e, phc, role, verified)
    PROVE  Creation(r)
<1> DEFINE row == [email |-> e, password_hash |-> phc, role |-> role, is_active |-> TRUE,
                   email_verified |-> verified]
<1>1. row \in UserRow /\ row.email = e /\ (row.email_verified => e # NULL)
  BY DEF UserRow
<1>2. users' = [users EXCEPT ![r] = row] /\ ~ EmailTaken(e)
  BY DEF create_user
<1> HIDE DEF row
<1>3. e # NULL => \A v \in UserId : users[v] # NULL => users[v].email # e
  BY <1>2 DEF EmailTaken, found_by_email
<1> QED BY <1>1, <1>2, <1>3 DEF Creation

\* A step adds one account, marks one, links one, or leaves the accounts alone.
LEMMA AccountSteps ==
    ASSUME SignUpInv, NEW r \in Requests, SignUpStep(r)
    PROVE  \/ users' = users /\ oauth_identities' = oauth_identities
           \/ Creation(r) \/ Marking(r) \/ Linking(r)
<1>1. CASE register(r) /\ UNCHANGED googleVars
  <2>1. PICK e \in Emails, p \in Passwords :
           create_user(r, e, hash_password(p, r), "user", FALSE)
    BY <1>1 DEF register
  <2> DEFINE h == hash_password(p, r)
  <2>2. h \in Phc /\ "user" \in Role /\ FALSE \in BOOLEAN
    BY DEF hash_password, Phc, UserId, Role
  <2>3. users[r] = NULL /\ oauth_identities' = oauth_identities
    BY <1>1, NotYet DEF register, Enter, googleVars
  <2>4. create_user(r, e, h, "user", FALSE)
    BY <2>1
  <2> HIDE DEF h
  <2> QED BY <2>2, <2>3, <2>4, CreationRow
<1>2. CASE create_admin(r) /\ UNCHANGED googleVars
  <2>1. CASE UNCHANGED users
    BY <1>2, <2>1 DEF googleVars
  <2>2. ASSUME NEW e \in Emails, NEW p \in Passwords, req[r].pc = "idle",
               create_user(r, e, hash_password(p, r), "admin", TRUE)
        PROVE  Creation(r)
    <3> DEFINE h == hash_password(p, r)
    <3>1. h \in Phc /\ "admin" \in Role /\ TRUE \in BOOLEAN
      BY DEF hash_password, Phc, UserId, Role
    <3>2. users[r] = NULL /\ e # NULL /\ oauth_identities' = oauth_identities
      BY <1>2, <2>2, NotYet, NullAssumption DEF googleVars
    <3>3. create_user(r, e, h, "admin", TRUE)
      BY <2>2
    <3> HIDE DEF h
    <3> QED BY <3>1, <3>2, <3>3, CreationRow
  <2> QED BY <1>2, <2>1, <2>2 DEF create_admin
<1>3. CASE google_create_user(r) /\ UNCHANGED verificationVars
  <2> DEFINE e == profile[r].email  verified == e # NULL
  <2>1. oauth_identities' = oauth_identities
    BY <1>3 DEF google_create_user, googleVars
  <2>2. UNCHANGED users \/ create_user(r, e, NULL, "user", verified)
    BY <1>3 DEF google_create_user
  <2>3. e \in Emails \cup {NULL} /\ users[r] = NULL
    <3>1. CallbackInv(r) /\ AccountInv(r) /\ req[r].op = "google_callback" /\ req[r].pc = "create_user"
      BY <1>3 DEF google_create_user, At, SignUpInv, RequestInv
    <3> QED BY <3>1, RowFields DEF SignUpInv, CallbackInv, AccountInv, InFlight
  <2>4. verified \in BOOLEAN /\ (verified => e # NULL) /\ "user" \in Role
    BY DEF Role
  <2> HIDE DEF verified, e
  <2>5. ASSUME create_user(r, e, NULL, "user", verified) PROVE Creation(r)
    BY <2>1, <2>3, <2>4, <2>5, CreationRow
  <2> QED BY <2>1, <2>2, <2>5
<1>4. CASE verify_email_mark(r) /\ UNCHANGED googleVars
  <2>1. req[r].op = "verify_email" /\ InFlight(r) /\ VerifyInv(r)
    BY <1>4 DEF verify_email_mark, At, InFlight, SignUpInv, RequestInv
  <2>2. PICK t \in TokenId : /\ email_verification_tokens[t] # NULL
                             /\ req[r].user = email_verification_tokens[t].user_id
    BY <2>1 DEF VerifyInv
  <2>3. /\ req[r].user \in UserId /\ users[req[r].user] # NULL
        /\ users[req[r].user].email # NULL
    BY <2>2, RowFields DEF SignUpInv, RequestInv, IssuedInv
  <2> QED BY <1>4, <2>3 DEF Marking, verify_email_mark, googleVars
<1>5. CASE google_link(r) /\ UNCHANGED verificationVars
  <2>1. /\ CallbackInv(r) /\ req[r].op = "google_callback" /\ InFlight(r)
        /\ req[r].pc = "upsert_oauth_identity"
    BY <1>5 DEF google_link, At, InFlight, SignUpInv, RequestInv
  <2>2. /\ users' = users
        /\ oauth_identities' = [oauth_identities EXCEPT ![profile[r].sub] =
                                  IF @ = NULL THEN req[r].user ELSE @]
    BY <1>5 DEF google_link, upsert_oauth_identity, dbVars
  <2>3. /\ profile[r] # NULL /\ profile[r].sub \in Subjects
        /\ oauth_identities \in [Subjects -> UserId \cup {NULL}]
        /\ users[req[r].user] # NULL /\ req[r].user # NULL
        /\ req[r].user = r \/ oauth_identities[profile[r].sub] = req[r].user
    BY <2>1, RowFields, RowsExist, Types DEF CallbackInv, SignUpInv
  <2>4. CASE oauth_identities[profile[r].sub] = NULL
    BY <2>1, <2>2, <2>3, <2>4 DEF Linking
  <2>5. CASE oauth_identities[profile[r].sub] # NULL
    BY <2>2, <2>3, <2>5
  <2> QED BY <2>4, <2>5
<1>6. CASE \/ /\ \/ register_rejects(r) \/ resend_verification(r) \/ verify_email(r)
                 \/ send_verification_email(r) \/ register_store_token(r)
                 \/ register_find_user(r) \/ spawn_verification_email(r)
              /\ UNCHANGED googleVars
           \/ google_callback(r) \/ google_issue_tokens(r)
           \/ Abort(r) /\ UNCHANGED googleVars
  BY <1>6
     DEF register_rejects, resend_verification, verify_email, send_verification_email,
         register_store_token, register_find_user, spawn_verification_email, google_callback,
         google_issue_tokens, issue_tokens, Abort, dbVars, googleVars
<1> QED BY <1>1, <1>2, <1>3, <1>4, <1>5, <1>6
        DEF SignUpStep, RegistrationStep, RegistrationContinue, GoogleStep, GoogleContinue

\* No account is taken over: all that a step changes in a row that exists is
\* email_verified, from false to true.
THEOREM NobodyTakesOver == SignUpSpec => NoTakeover
<1>1. SignUpInv /\ [SignUpNext]_signUpVars =>
        [\A u \in UserId : users[u] # NULL =>
           users'[u] \in {users[u], [users[u] EXCEPT !.email_verified = TRUE]}]_users
  <2> SUFFICES ASSUME SignUpInv, [SignUpNext]_signUpVars, NEW u \in UserId, users[u] # NULL
               PROVE  \/ users' = users
                      \/ users'[u] \in {users[u], [users[u] EXCEPT !.email_verified = TRUE]}
    OBVIOUS
  <2>1. CASE UNCHANGED signUpVars \/ Tick
    BY <2>1 DEF signUpVars, Tick
  <2>2. ASSUME NEW r \in Requests, Creation(r) PROVE users'[u] = users[u]
    <3>1. users \in [UserId -> UserRow \cup {NULL}]
      BY Types DEF SignUpInv
    <3> QED BY <2>2, <3>1 DEF Creation
  <2>3. ASSUME NEW r \in Requests, Marking(r)
        PROVE  users'[u] \in {users[u], [users[u] EXCEPT !.email_verified = TRUE]}
    BY <2>3 DEF Marking, mark_email_verified
  <2> QED BY <2>1, <2>2, <2>3, AccountSteps DEF SignUpNext, Linking
<1> QED BY <1>1, SignUpInvariant, PTL DEF SignUpSpec, NoTakeover

-----------------------------------------------------------------------------
(* The refinement of Directory                                             *)

VerifiedOf == {u \in Members : users[u].email_verified}

DirectoryState == <<Members, AddressOf, OpenedFor, oauth_identities, VerifiedOf>>

\* The accounts that a step leaves alone are opened for whom they were.
LEMMA OpenedKept ==
    ASSUME OwnersKept, NEW u \in UserId, users[u] # NULL <=> users'[u] # NULL
    PROVE  OpenedFor'[u] = OpenedFor[u]
BY DEF OwnersKept, OpenedFor

\* A new account is one that Directory opens.
LEMMA CreationOpens ==
    ASSUME SignUpInv, SignUpInv', OwnersKept, NEW r \in Requests, Creation(r)
    PROVE  SignUpDirectory!Next
<1>1. PICK row \in UserRow :
         /\ users' = [users EXCEPT ![r] = row]
         /\ row.email_verified => row.email # NULL
         /\ row.email # NULL => \A v \in UserId : users[v] # NULL => users[v].email # row.email
  BY DEF Creation
<1>2. /\ r \in UserId /\ users[r] = NULL /\ oauth_identities' = oauth_identities
      /\ users \in [UserId -> UserRow \cup {NULL}] /\ row # NULL
      /\ row.email \in Emails \cup {NULL} /\ row.email_verified \in BOOLEAN
  BY Types, RowsExist DEF Creation, SignUpInv, UserId, UserRow
<1>3. users'[r] = row /\ \A v \in UserId : v # r => users'[v] = users[v]
  BY <1>1, <1>2
<1>4. PICK e \in Emails \cup {NULL} : e = row.email
  BY <1>2
<1>5. PICK p \in Subjects \cup {NULL} : p = OpenedFor'[r]
  <2>1. req'[r].op = "google_callback" => profile'[r].sub \in Subjects
    <3>1. AccountInv(r)' /\ GoogleTypeOK'
      BY DEF SignUpInv, RequestInv, SignUpTypeOK
    <3>2. req'[r].op = "google_callback" => profile'[r] # NULL
      BY <1>2, <1>3, <3>1 DEF AccountInv
    <3> QED BY <3>1, <3>2 DEF GoogleTypeOK, Profile
  <2> QED BY <1>2, <2>1 DEF OpenedFor
<1>6. r \notin Members /\ Members' = Members \cup {r}
  BY <1>2, <1>3 DEF Members
<1>7. AddressOf' = [AddressOf EXCEPT ![r] = e]
  <2>1. AddressOf'[r] = e /\ \A u \in UserId : u # r => AddressOf'[u] = AddressOf[u]
    BY <1>2, <1>3, <1>4 DEF AddressOf
  <2>2. AddressOf' = [u \in UserId |-> AddressOf'[u]] /\ AddressOf = [u \in UserId |-> AddressOf[u]]
    BY DEF AddressOf
  <2> QED BY <1>2, <2>1, <2>2
<1>8. OpenedFor' = [OpenedFor EXCEPT ![r] = p]
  <2>1. \A u \in UserId : u # r => OpenedFor'[u] = OpenedFor[u]
    BY <1>3, OpenedKept
  <2>2. OpenedFor' = [u \in UserId |-> OpenedFor'[u]] /\ OpenedFor = [u \in UserId |-> OpenedFor[u]]
    BY DEF OpenedFor
  <2> QED BY <1>2, <1>5, <2>1, <2>2
<1>9. SignUpDirectory!Free(e)
  BY <1>1, <1>4 DEF SignUpDirectory!Free, Members, AddressOf
<1>10. VerifiedOf' = IF row.email_verified THEN VerifiedOf \cup {r} ELSE VerifiedOf
  BY <1>2, <1>3, <1>6 DEF VerifiedOf, Members
<1>11. SignUpDirectory!Open(r, e, p)
  BY <1>1, <1>4, <1>2, <1>6, <1>7, <1>8, <1>9, <1>10 DEF SignUpDirectory!Open, VerifiedOf
<1> QED BY <1>2, <1>11 DEF SignUpDirectory!Next

\* A mark proves the address.
LEMMA MarkingProves ==
    ASSUME SignUpInv, OwnersKept, NEW r \in Requests, Marking(r) PROVE SignUpDirectory!Next
<1>1. PICK u \in UserId :
         /\ users[u] # NULL /\ users[u].email # NULL
         /\ mark_email_verified(u) /\ oauth_identities' = oauth_identities
  BY DEF Marking
<1>2. /\ \A v \in UserId : v # u => users'[v] = users[v]
      /\ users'[u] # NULL /\ users'[u].email_verified = TRUE
      /\ \A v \in UserId : users[v] # NULL => users'[v].email = users[v].email
  <2>1. users \in [UserId -> UserRow \cup {NULL}]
    BY Types DEF SignUpInv
  <2> QED BY <1>1, <2>1, MarkVerifiedEffect
<1>3. Members' = Members /\ u \in Members
  BY <1>1, <1>2 DEF Members
<1>4. AddressOf' = AddressOf /\ AddressOf[u] # NULL
  BY <1>1, <1>2 DEF AddressOf
<1>5. OpenedFor' = OpenedFor
  <2>1. \A v \in UserId : OpenedFor'[v] = OpenedFor[v]
    BY <1>1, <1>2, OpenedKept
  <2>2. OpenedFor' = [v \in UserId |-> OpenedFor'[v]] /\ OpenedFor = [v \in UserId |-> OpenedFor[v]]
    BY DEF OpenedFor
  <2> QED BY <2>1, <2>2
<1>6. VerifiedOf' = VerifiedOf \cup {u}
  BY <1>1, <1>2, <1>3 DEF VerifiedOf, Members
<1>7. SignUpDirectory!Prove(u)
  BY <1>1, <1>3, <1>4, <1>5, <1>6 DEF SignUpDirectory!Prove, VerifiedOf
<1> QED BY <1>1, <1>7 DEF SignUpDirectory!Next

\* An identity links a person to the account that was opened for that person.
LEMMA LinkingLinks ==
    ASSUME SignUpInv, OwnersKept, NEW r \in Requests, Linking(r) PROVE SignUpDirectory!Next
<1> DEFINE s == profile[r].sub
<1>1. /\ users' = users /\ users[r] # NULL /\ req[r].op = "google_callback"
      /\ oauth_identities[s] = NULL /\ r \in UserId /\ s \in Subjects
      /\ oauth_identities' = [oauth_identities EXCEPT ![s] = r]
  BY RowFields DEF Linking, SignUpInv, UserId
<1>2. Members' = Members /\ AddressOf' = AddressOf /\ VerifiedOf' = VerifiedOf /\ r \in Members
  BY <1>1 DEF Members, AddressOf, VerifiedOf
<1>3. OpenedFor' = OpenedFor
  <2>1. \A v \in UserId : OpenedFor'[v] = OpenedFor[v]
    BY <1>1, OpenedKept
  <2>2. OpenedFor' = [v \in UserId |-> OpenedFor'[v]] /\ OpenedFor = [v \in UserId |-> OpenedFor[v]]
    BY DEF OpenedFor
  <2> QED BY <2>1, <2>2
<1>4. OpenedFor[r] = s
  BY <1>1 DEF OpenedFor
<1> HIDE DEF s
<1>5. SignUpDirectory!Link(s, r)
  BY <1>1, <1>2, <1>3, <1>4 DEF SignUpDirectory!Link, VerifiedOf
<1> QED BY <1>1, <1>5 DEF SignUpDirectory!Next

\* A step that leaves users and the identities alone changes nothing there.
LEMMA RestStutters ==
    ASSUME OwnersKept, users' = users, oauth_identities' = oauth_identities
    PROVE  DirectoryState' = DirectoryState
<1>1. Members' = Members /\ AddressOf' = AddressOf /\ VerifiedOf' = VerifiedOf
  BY DEF Members, AddressOf, VerifiedOf
<1>2. OpenedFor' = OpenedFor
  <2>1. \A v \in UserId : OpenedFor'[v] = OpenedFor[v]
    BY OpenedKept
  <2>2. OpenedFor' = [v \in UserId |-> OpenedFor'[v]] /\ OpenedFor = [v \in UserId |-> OpenedFor[v]]
    BY DEF OpenedFor
  <2> QED BY <2>1, <2>2
<1> QED BY <1>1, <1>2 DEF DirectoryState

\* Whatever races for an address or an identity, sign-up is a Directory: no
\* address has two accounts, no identity moves, and nobody signs in to an
\* account that was made for another.
THEOREM SignUpImplementsDirectory == SignUpSpec => DirectoryRefined
<1>1. SignUpInit => SignUpDirectory!Init
  <2> SUFFICES ASSUME SignUpInit PROVE SignUpDirectory!Init
    OBVIOUS
  <2>1. SignUpInv
    BY InitSignUp
  <2>2. /\ users = [u \in UserId |-> IF u \in Accounts THEN Seed[u] ELSE NULL]
        /\ req = [r \in Requests |-> Idle] /\ oauth_identities = [s \in Subjects |-> NULL]
    BY DEF SignUpInit, DbInit, ReqInit, GoogleTablesInit
  <2>3. Members \subseteq UserId /\ VerifiedOf \subseteq Members
    BY DEF Members, VerifiedOf
  <2>4. AddressOf \in [UserId -> Emails \cup {NULL}]
    <3>1. \A u \in UserId : users[u] # NULL => users[u].email \in Emails \cup {NULL}
      BY <2>1, Types DEF SignUpInv, UserRow
    <3> QED BY <3>1 DEF AddressOf
  <2>5. \A u, v \in Members : AddressOf[u] = AddressOf[v] /\ AddressOf[u] # NULL => u = v
    BY <2>1 DEF SignUpInv, UniqueEmails, Members, AddressOf
  <2>6. OpenedFor = [u \in UserId |-> NULL]
    <3>1. \A r \in Requests : req[r].op # "google_callback"
      BY <2>2 DEF Idle
    <3> QED BY <3>1 DEF OpenedFor
  <2> QED BY <2>2, <2>3, <2>4, <2>5, <2>6 DEF SignUpDirectory!Init, VerifiedOf
<1>2. SignUpInv /\ [SignUpNext]_signUpVars => [SignUpDirectory!Next]_DirectoryState
  <2> SUFFICES ASSUME SignUpInv, [SignUpNext]_signUpVars
               PROVE  SignUpDirectory!Next \/ DirectoryState' = DirectoryState
    OBVIOUS
  <2>1. SignUpInv' /\ OwnersKept
    BY NextSignUp
  <2>2. CASE UNCHANGED signUpVars
    BY <2>1, <2>2, RestStutters DEF signUpVars
  <2>3. CASE Tick /\ UNCHANGED <<verificationVars, googleVars>>
    BY <2>1, <2>3, RestStutters DEF Tick, googleVars
  <2>4. ASSUME NEW r \in Requests, SignUpStep(r)
        PROVE  SignUpDirectory!Next \/ DirectoryState' = DirectoryState
    BY <2>1, <2>4, AccountSteps, CreationOpens, MarkingProves, LinkingLinks, RestStutters
  <2> QED BY <2>2, <2>3, <2>4 DEF SignUpNext
<1> QED BY <1>1, <1>2, SignUpInvariant, PTL
        DEF SignUpSpec, DirectoryRefined, SignUpDirectory!Spec, SignUpDirectory!directoryVars,
            DirectoryState, VerifiedOf

=============================================================================
