------------------------ MODULE AdministrationProofs ------------------------
(***************************************************************************)
(* Proofs about Administration, for every set of requests and accounts,    *)
(* every seed and whatever clients may ask for.                            *)
(***************************************************************************)
EXTENDS Administration, HandlerProofs

USE DEF TokenId

-----------------------------------------------------------------------------
(* The inductive invariant                                                 *)

\* The accounts are those that were there at first, with the address verified
\* or not as it was then.
AccountInv(u) ==
    /\ users[u] # NULL <=> u \in Accounts
    /\ u \in Accounts => users[u].email_verified = Seed[u].email_verified

\* A handler that knows its caller knows what it is asked for, works for an
\* account with a verified address, and is at the check, at the act or over.
ActInv(r) ==
    /\ req[r].pc = "idle" => act[r] = NULL
    /\ InFlight(r) => act[r] # NULL
    /\ act[r] # NULL =>
         /\ req[r].op = act[r].op
         /\ req[r].pc \in {"permissions_for", act[r].op, "done"}
         /\ req[r].user \in Accounts /\ Seed[req[r].user].email_verified

\* Whose rights changed was the target of an assignment.
ChangedInv(u) ==
    permissions_for(u) # SeedPermissions(u) => \E r \in Requests : Assigned(r) /\ act[r].target = u

\* The caller of r could assign from the start or was given the right.
Entitled(r) ==
    \/ "users.assign_roles" \in SeedPermissions(req[r].user)
    \/ \E q \in Requests \ {r} : Assigned(q) /\ act[q].target = req[r].user

\* Whoever assigned, or has passed the check to assign, is entitled.
EntitledInv(r) ==
    Assigned(r) \/ (Checked(r) /\ Required(act[r].op) = "users.assign_roles") => Entitled(r)

\* Between its check and its act a handler has its permission or has lost it.
LateInv(r) == Checked(r) => Authorised(r) \/ r \in late

AdministrationInv ==
    /\ AdministrationTypeOK
    /\ \A u \in UserId : AccountInv(u)
    /\ \A u \in Accounts : ChangedInv(u)
    /\ \A r \in Requests : ActInv(r) /\ EntitledInv(r) /\ LateInv(r)

-----------------------------------------------------------------------------
(* What a client may ask for                                               *)

\* An act names a handler and has the values that handler needs.
LEMMA ActFacts ==
    ASSUME NEW a \in Act
    PROVE  /\ a # NULL
           /\ a.op \in {"list_users", "set_role", "set_active", "grant_permission"}
           /\ a.op = "set_role" => a.target \in UserId /\ a.role \in Role
           /\ a.op = "set_active" => a.target \in UserId /\ a.active \in BOOLEAN
           /\ a.op = "grant_permission" =>
                a.target \in UserId /\ a.granted \in {"granted", "revoked"}
BY ActAssumption DEF Act

\* The handlers of the admin routes and the statements they are named after.
LEMMA ActOps ==
    {"list_users", "set_role", "set_active", "grant_permission"} \subseteq Op \cap Pc
BY DEF Op, Pc

\* What the handlers that assign require.
LEMMA AssigningRequires ==
    /\ Required("set_role") = "users.assign_roles"
    /\ Required("grant_permission") = "users.assign_roles"
BY DEF Required

\* Permissions depend on the role and the overrides alone.
LEMMA PermissionsKept ==
    ASSUME NEW u, users'[u] = NULL <=> users[u] = NULL,
           users[u] # NULL => users'[u].role = users[u].role,
           user_permissions'[u] = user_permissions[u]
    PROVE  permissions_for(u)' = permissions_for(u)
BY DEF permissions_for, Granted, Revoked

\* The initial state.
LEMMA InitAdministration == AdministrationInit => AdministrationInv
<1> SUFFICES ASSUME AdministrationInit PROVE AdministrationInv
  OBVIOUS
<1> USE DEF AdministrationInit, DbInit, ReqInit
<1>1. DbTypeOK
  BY SeedAssumption DEF DbTypeOK, UserId
<1>2. ReqTypeOK
  BY DEF ReqTypeOK, Request, Idle, Op, Pc, Status
<1>3. AdministrationTypeOK
  BY <1>1, <1>2 DEF AdministrationTypeOK, UserId
<1>4. \A u \in UserId : AccountInv(u)
  BY SeedAssumption, RowsExist DEF AccountInv, UserId
<1>5. ASSUME NEW u \in Accounts PROVE permissions_for(u) = SeedPermissions(u)
  <2>1. users[u] = Seed[u] /\ users[u] # NULL
    BY SeedAssumption, RowsExist DEF UserId
  <2>2. \A p \in permissions : user_permissions[u][p] = "none"
    BY DEF UserId
  <2>3. Granted(u) = {} /\ Revoked(u) = {}
    BY <2>2 DEF Granted, Revoked
  <2> QED BY <2>1, <2>3 DEF permissions_for, SeedPermissions
<1>6. \A r \in Requests : req[r].pc = "idle" /\ act[r] = NULL
  BY DEF Idle
<1>7. \A r \in Requests : ActInv(r) /\ EntitledInv(r) /\ LateInv(r)
  BY <1>6 DEF ActInv, EntitledInv, LateInv, InFlight, Assigned, Checked
<1> QED BY <1>3, <1>4, <1>5, <1>7 DEF AdministrationInv, ChangedInv

-----------------------------------------------------------------------------
(* What a step of request r leaves alone                                   *)

\* Every override belongs to an account.
OverridesBelong ==
    \A u \in UserId, p \in permissions : user_permissions[u][p] # "none" => found_by_id(u)

\* It is not over, and the step changes no other request and no account's
\* being there and verified.
Frame(r) ==
    /\ req[r].pc # "done"
    /\ \A q \in Requests \ {r} : req'[q] = req[q] /\ act'[q] = act[q]
    /\ \A u \in UserId : /\ users'[u] = NULL <=> users[u] = NULL
                         /\ users[u] # NULL => users'[u].email_verified = users[u].email_verified

\* Overrides that nobody touches belong to whom they did.
LEMMA OverridesKept ==
    ASSUME AdministrationInv, NEW r \in Requests, Frame(r), UNCHANGED user_permissions
    PROVE  OverridesBelong'
BY DEF AdministrationInv, AdministrationTypeOK, Frame, OverridesBelong, found_by_id

\* Assignments that were made stay made.
LEMMA AssignedStays ==
    ASSUME NEW r \in Requests, Frame(r), NEW q \in Requests, Assigned(q)
    PROVE  q # r /\ Assigned(q)' /\ act'[q] = act[q] /\ req'[q] = req[q]
BY DEF Frame, Assigned

\* So do entitlements.
LEMMA EntitledStays ==
    ASSUME NEW r \in Requests, Frame(r), NEW q \in Requests, Entitled(q),
           req'[q].user = req[q].user
    PROVE  Entitled(q)'
BY AssignedStays DEF Entitled, SeedPermissions

\* What the invariant says of the accounts and of the other requests' acts.
LEMMA OthersKeep ==
    ASSUME AdministrationInv, NEW r \in Requests, Frame(r)
    PROVE  /\ \A u \in UserId : AccountInv(u)'
           /\ \A q \in Requests \ {r} : ActInv(q)' /\ EntitledInv(q)'
           /\ \A q \in Requests \ {r} : Checked(q)' = Checked(q)
<1>1. \A u \in UserId : AccountInv(u)'
  BY DEF AdministrationInv, AccountInv, Frame
<1>2. ASSUME NEW q \in Requests \ {r}
      PROVE  ActInv(q)' /\ EntitledInv(q)' /\ Checked(q)' = Checked(q)
  <2>1. req'[q] = req[q] /\ act'[q] = act[q]
    BY DEF Frame
  <2>2. ActInv(q) /\ EntitledInv(q)
    BY DEF AdministrationInv
  <2>3. ActInv(q)' /\ Checked(q)' = Checked(q)
    BY <2>1, <2>2 DEF ActInv, InFlight, Checked
  <2>4. EntitledInv(q)'
    BY <2>1, <2>2, EntitledStays DEF EntitledInv, Assigned, Checked
  <2> QED BY <2>3, <2>4
<1> QED BY <1>1, <1>2

\* A step that changes nobody's rights keeps what depends on them.
LEMMA RightsKept ==
    ASSUME AdministrationInv, NEW r \in Requests, Frame(r),
           \A u \in UserId : permissions_for(u)' = permissions_for(u), late \subseteq late'
    PROVE  /\ \A u \in Accounts : ChangedInv(u)'
           /\ \A q \in Requests \ {r} : LateInv(q)'
<1>1. ASSUME NEW u \in Accounts PROVE ChangedInv(u)'
  <2>1. permissions_for(u)' = permissions_for(u) /\ ChangedInv(u)
    BY DEF UserId, AdministrationInv
  <2> QED BY <2>1, AssignedStays DEF ChangedInv, SeedPermissions
<1>2. ASSUME NEW q \in Requests \ {r} PROVE LateInv(q)'
  <2>1. req'[q] = req[q] /\ act'[q] = act[q] /\ LateInv(q) /\ ActInv(q)
    BY DEF Frame, AdministrationInv
  <2>2. Checked(q)' => Checked(q) /\ req[q].user \in UserId
    BY <2>1 DEF Checked, ActInv, UserId
  <2> QED BY <2>1, <2>2 DEF LateInv, Authorised
<1> QED BY <1>1, <1>2

-----------------------------------------------------------------------------
(* The steps                                                               *)

\* What a request that ends without having acted must show: it answers an
\* error, or did not assign.
LEMMA EndKeeps ==
    ASSUME AdministrationInv, NEW r \in Requests, Frame(r), ReqTypeOK',
           UNCHANGED <<dbVars, adminVars>>, InFlight(r),
           req'[r].op = req[r].op, req'[r].user = req[r].user, req'[r].pc = "done",
           req'[r].status \notin {204, 0} \/ req[r].op = "list_users"
    PROVE  AdministrationInv'
<1>1. AdministrationTypeOK'
  BY OverridesKept
     DEF AdministrationInv, AdministrationTypeOK, DbTypeOK, dbVars, adminVars, OverridesBelong
<1>2. \A u \in UserId : permissions_for(u)' = permissions_for(u)
  BY PermissionsKept DEF dbVars, adminVars
<1>3. ActInv(r) /\ act'[r] = act[r] /\ act[r] # NULL
  BY DEF AdministrationInv, ActInv, adminVars
<1>4. act[r] \in Act
  BY <1>3 DEF AdministrationInv, AdministrationTypeOK
<1>5. act[r].op # "done" /\ (req[r].op = "list_users" => act[r].op \notin {"set_role", "grant_permission"})
  BY <1>3, <1>4, ActFacts DEF ActInv
<1>6. ActInv(r)' /\ ~Checked(r)' /\ ~Assigned(r)'
  BY <1>3, <1>5 DEF ActInv, InFlight, Checked, Assigned
<1>7. EntitledInv(r)' /\ LateInv(r)'
  BY <1>6 DEF EntitledInv, LateInv
<1> QED BY <1>1, <1>2, <1>6, <1>7, OthersKeep, RightsKept DEF AdministrationInv, adminVars

\* An act of r that may change somebody's rights and that r is entitled to.
LEMMA ActKeeps ==
    ASSUME AdministrationInv, NEW r \in Requests, Frame(r), AdministrationTypeOK',
           Checked(r), NoteLate(r),
           req'[r].op = req[r].op, req'[r].user = req[r].user, req'[r].pc = "done",
           \A u \in UserId : permissions_for(u)' # permissions_for(u) =>
              Assigned(r)' /\ act[r].target = u,
           Assigned(r)' => Required(act[r].op) = "users.assign_roles"
    PROVE  AdministrationInv'
<1>1. /\ ActInv(r) /\ EntitledInv(r) /\ act' = act /\ act[r] # NULL
      /\ act[r] \in Act
  BY DEF AdministrationInv, AdministrationTypeOK, NoteLate, Checked
<1>2. act[r].op # "done"
  BY <1>1, ActFacts
<1>3. ActInv(r)' /\ ~Checked(r)'
  BY <1>1, <1>2 DEF ActInv, InFlight, Checked
<1>4. EntitledInv(r)'
  BY <1>1, <1>3, EntitledStays DEF EntitledInv
<1>5. LateInv(r)'
  BY <1>3 DEF LateInv
<1>6. ASSUME NEW u \in Accounts PROVE ChangedInv(u)'
  <2>1. CASE permissions_for(u)' = permissions_for(u)
    BY <2>1, AssignedStays DEF AdministrationInv, ChangedInv, SeedPermissions
  <2>2. CASE permissions_for(u)' # permissions_for(u)
    BY <1>1, <2>2 DEF ChangedInv, UserId
  <2> QED BY <2>1, <2>2
<1>7. ASSUME NEW q \in Requests \ {r} PROVE LateInv(q)'
  <2>1. Checked(q)' => Checked(q)
    BY OthersKeep
  <2> QED BY <2>1 DEF LateInv, NoteLate
<1> QED BY <1>3, <1>4, <1>5, <1>6, <1>7, OthersKeep DEF AdministrationInv

\* Only permissions the account of the check has are acted upon.
LEMMA CheckedFacts ==
    ASSUME AdministrationInv, NEW r \in Requests, NEW op, At(r, op, op),
           op \in {"list_users", "set_role", "set_active", "grant_permission"}
    PROVE  Checked(r) /\ InFlight(r) /\ act[r] \in Act /\ act[r].op = op
<1>1. ActInv(r) /\ InFlight(r)
  BY DEF AdministrationInv, At, InFlight
<1>2. act[r] # NULL /\ act[r].op = op
  BY <1>1 DEF ActInv, At
<1>3. act[r] \in Act
  BY <1>2 DEF AdministrationInv, AdministrationTypeOK
<1> QED BY <1>1, <1>2, <1>3 DEF Checked, At

\* Every step keeps the invariant.
LEMMA NextAdministration ==
    AdministrationInv /\ [AdministrationNext]_administrationVars => AdministrationInv'
<1> SUFFICES ASSUME AdministrationInv, [AdministrationNext]_administrationVars
             PROVE  AdministrationInv'
  OBVIOUS
<1>1. /\ ReqTypeOK /\ DbTypeOK
      /\ users \in [UserId -> UserRow \cup {NULL}]
      /\ user_permissions \in [UserId -> [permissions -> {"none", "granted", "revoked"}]]
      /\ act \in [Requests -> Act \cup {NULL}] /\ late \subseteq Requests
  BY DEF AdministrationInv, AdministrationTypeOK, DbTypeOK
<1>2. CASE UNCHANGED administrationVars
  BY <1>2
     DEF administrationVars, AdministrationInv, AdministrationTypeOK, DbTypeOK, ReqTypeOK,
         AccountInv, ChangedInv, permissions_for, Granted, Revoked, SeedPermissions, Assigned,
         ActInv, InFlight, EntitledInv, Entitled, Checked, LateInv, Authorised, found_by_id
<1>3. ASSUME NEW r \in Requests, AdministrationStep(r) PROVE AdministrationInv'
  <2>1. CASE authenticate(r)
    <3>1. UNCHANGED <<dbVars, user_permissions, late>> /\ users' = users
      BY <2>1 DEF authenticate, dbVars
    <3>2. PICK a \in Wish(r) :
            \/ Reject(r, a.op, into_response.Unauthorized) /\ UNCHANGED act
            \/ Reject(r, a.op, into_response.EmailNotVerified) /\ UNCHANGED act
            \/ \E u \in UserId :
                 /\ found_by_id(u) /\ users[u].email_verified
                 /\ Enter(r, a.op, "permissions_for", u, NULL, NULL)
                 /\ act' = [act EXCEPT ![r] = a]
      BY <2>1 DEF authenticate
    <3>3. a \in Act
      BY WishAssumption
    <3>4. a # NULL /\ a.op \in Op /\ a.op # "done"
      BY <3>3, ActFacts, ActOps
    <3>5. \A u \in UserId : permissions_for(u)' = permissions_for(u)
      BY <3>1, PermissionsKept
    <3>6. CASE \E code \in {into_response.Unauthorized, into_response.EmailNotVerified} :
                  Reject(r, a.op, code) /\ UNCHANGED act
      <4>1. PICK code \in Status : Reject(r, a.op, code) /\ UNCHANGED act
        BY <3>6, ErrorStatus
      <4>2. /\ ReqTypeOK' /\ req[r].pc = "idle" /\ req'[r].pc = "done"
            /\ \A q \in Requests \ {r} : req'[q] = req[q]
        BY <1>1, <3>4, <4>1, RejectEffect
      <4>3. Frame(r)
        BY <3>1, <4>1, <4>2 DEF Frame
      <4>4. act'[r] = NULL
        BY <4>1, <4>2 DEF AdministrationInv, ActInv
      <4>5. ActInv(r)' /\ EntitledInv(r)' /\ LateInv(r)'
        BY <4>2, <4>4 DEF ActInv, InFlight, EntitledInv, LateInv, Assigned, Checked
      <4>6. AdministrationTypeOK'
        BY <1>1, <3>1, <4>1, <4>2, <4>3, OverridesKept
           DEF AdministrationTypeOK, DbTypeOK, dbVars, OverridesBelong
      <4> QED BY <3>1, <3>5, <4>3, <4>5, <4>6, OthersKeep, RightsKept DEF AdministrationInv
    <3>7. ASSUME NEW u \in UserId, found_by_id(u), users[u].email_verified,
                 Enter(r, a.op, "permissions_for", u, NULL, NULL),
                 act' = [act EXCEPT ![r] = a]
          PROVE  AdministrationInv'
      <4>1. "permissions_for" \in Pc
        BY DEF Pc
      <4>2. /\ ReqTypeOK' /\ req[r].pc = "idle" /\ req'[r].pc = "permissions_for"
            /\ \A q \in Requests \ {r} : req'[q] = req[q]
            /\ req'[r].op = a.op /\ req'[r].user = u
        <5> DEFINE op == a.op
        <5>1. op \in Op /\ Enter(r, op, "permissions_for", u, NULL, NULL)
          BY <3>4, <3>7
        <5> HIDE DEF op
        <5>2. /\ ReqTypeOK' /\ req[r].pc = "idle" /\ req'[r].pc = "permissions_for"
              /\ \A q \in Requests \ {r} : req'[q] = req[q]
              /\ req'[r].op = op /\ req'[r].user = u
          <6>1. ReqTypeOK /\ u \in UserId \cup {NULL}
            BY <1>1
          <6> QED BY <4>1, <5>1, <6>1, EnterEffect
        <5> QED BY <5>2 DEF op
      <4>3. act'[r] = a /\ act' \in [Requests -> Act \cup {NULL}]
            /\ \A q \in Requests \ {r} : act'[q] = act[q]
        BY <1>1, <3>3, <3>7
      <4>4. Frame(r)
        BY <3>1, <4>2, <4>3 DEF Frame
      <4>5. u \in Accounts /\ Seed[u].email_verified
        BY <3>7 DEF AdministrationInv, AccountInv, found_by_id
      <4>6. ActInv(r)'
        BY <3>4, <4>2, <4>3, <4>5 DEF ActInv, InFlight
      <4>7. a.op # "permissions_for"
        BY <3>3, ActFacts
      <4>8. EntitledInv(r)' /\ LateInv(r)'
        BY <4>2, <4>3, <4>7 DEF EntitledInv, LateInv, Assigned, Checked
      <4>9. AdministrationTypeOK'
        BY <1>1, <3>1, <4>2, <4>3, <4>4, OverridesKept
           DEF AdministrationTypeOK, DbTypeOK, dbVars, OverridesBelong
      <4> QED BY <3>1, <3>5, <4>4, <4>6, <4>8, <4>9, OthersKeep, RightsKept DEF AdministrationInv
    <3> QED BY <3>2, <3>6, <3>7
  <2>2. CASE load_permissions(r)
    <3>1. req[r].pc = "permissions_for" /\ UNCHANGED <<dbVars, adminVars>>
      BY <2>2 DEF load_permissions
    <3>2. InFlight(r) /\ ActInv(r) /\ act[r] # NULL
      BY <3>1 DEF InFlight, AdministrationInv, ActInv
    <3>3. act[r] \in Act
      BY <1>1, <3>2
    <3>4. act[r].op \in Pc /\ act[r].op \notin {"idle", "done"}
      BY <3>3, ActFacts, ActOps
    <3>5. CASE req' = [req EXCEPT ![r].pc = "done", ![r].status = into_response.Forbidden]
      <4>1. /\ ReqTypeOK' /\ \A q \in Requests \ {r} : req'[q] = req[q]
            /\ req'[r].op = req[r].op /\ req'[r].user = req[r].user
            /\ req'[r].pc = "done" /\ req'[r].status = into_response.Forbidden
        BY <1>1, <3>5, EndEffect, ErrorStatus
      <4>2. Frame(r)
        BY <3>1, <4>1 DEF Frame, dbVars, adminVars
      <4>3. into_response.Forbidden \notin {204, 0}
        BY DEF into_response
      <4> QED BY <3>1, <3>2, <4>1, <4>2, <4>3, EndKeeps
    <3>6. CASE Authorised(r) /\ Proceed(r, act[r].op)
      <4>1. /\ ReqTypeOK' /\ \A q \in Requests \ {r} : req'[q] = req[q]
            /\ req'[r].op = req[r].op /\ req'[r].user = req[r].user
            /\ req'[r].pc = act[r].op
        BY <1>1, <3>4, <3>6, ProceedEffect
      <4>2. Frame(r)
        BY <3>1, <4>1 DEF Frame, dbVars, adminVars
      <4>3. \A u \in UserId : permissions_for(u)' = permissions_for(u)
        BY <3>1, PermissionsKept DEF dbVars, adminVars
      <4>4. ActInv(r)' /\ act' = act /\ late' = late
        BY <3>1, <3>2, <3>4, <4>1 DEF ActInv, InFlight, adminVars
      <4>5. Authorised(r)'
        <5>1. req[r].user \in UserId
          BY <3>2 DEF ActInv, UserId
        <5> QED BY <3>6, <4>1, <4>3, <4>4, <5>1 DEF Authorised
      <4>6. LateInv(r)'
        BY <4>5 DEF LateInv
      <4>7. EntitledInv(r)'
        <5>1. ASSUME Required(act[r].op) = "users.assign_roles" PROVE Entitled(r)
          <6> DEFINE u == req[r].user
          <6>1. u \in Accounts /\ ChangedInv(u)
            BY <3>2 DEF ActInv, AdministrationInv
          <6>2. "users.assign_roles" \in permissions_for(u)
            BY <3>6, <5>1 DEF Authorised
          <6>3. CASE permissions_for(u) = SeedPermissions(u)
            BY <6>2, <6>3 DEF Entitled
          <6>4. CASE permissions_for(u) # SeedPermissions(u)
            BY <3>1, <6>1, <6>4 DEF ChangedInv, Entitled, Assigned
          <6> QED BY <6>3, <6>4
        <5>2. ~Assigned(r)'
          BY <3>4, <4>1 DEF Assigned
        <5> QED BY <4>1, <4>2, <4>4, <5>1, <5>2, EntitledStays DEF EntitledInv
      <4>8. AdministrationTypeOK'
        BY <1>1, <3>1, <4>1, <4>2, OverridesKept
           DEF AdministrationTypeOK, DbTypeOK, dbVars, adminVars, OverridesBelong
      <4> QED BY <4>2, <4>3, <4>4, <4>6, <4>7, <4>8, OthersKeep, RightsKept DEF AdministrationInv
    <3> QED BY <2>2, <3>5, <3>6 DEF load_permissions
  <2>3. CASE admin_list_users(r)
    <3>1. At(r, "list_users", "list_users") /\ UNCHANGED <<dbVars, adminVars>>
      BY <2>3 DEF admin_list_users
    <3>2. /\ ReqTypeOK' /\ \A q \in Requests \ {r} : req'[q] = req[q]
          /\ req'[r].op = req[r].op /\ req'[r].user = req[r].user /\ req'[r].pc = "done"
      BY <1>1, <2>3, FinishEffect, StatusCodes DEF admin_list_users
    <3>3. Frame(r) /\ InFlight(r) /\ req[r].op = "list_users"
      BY <3>1, <3>2 DEF Frame, At, InFlight, dbVars, adminVars
    <3> QED BY <3>1, <3>2, <3>3, EndKeeps
  <2>4. CASE admin_set_role(r)
    <3>1. /\ At(r, "set_role", "set_role") /\ NoteLate(r)
          /\ set_role(act[r].target, act[r].role) /\ UNCHANGED user_permissions
          /\ UNCHANGED <<refresh_tokens, now, act>>
      BY <2>4 DEF admin_set_role, NoteLate
    <3>2. Checked(r) /\ InFlight(r) /\ act[r] \in Act /\ act[r].op = "set_role"
      BY <3>1, CheckedFacts
    <3>3. act[r].target \in UserId /\ act[r].role \in Role /\ act[r] # NULL
      BY <3>2, ActFacts
    <3>4. /\ ReqTypeOK' /\ \A q \in Requests \ {r} : req'[q] = req[q]
          /\ req'[r].op = req[r].op /\ req'[r].user = req[r].user /\ req'[r].pc = "done"
          /\ req'[r].status \in {204, 0}
      BY <1>1, <2>4, FinishEffect, StatusCodes DEF admin_set_role
    <3>5. /\ users' \in [UserId -> UserRow \cup {NULL}]
          /\ \A v \in UserId : v # act[r].target => users'[v] = users[v]
          /\ \A v \in UserId : users'[v] = NULL <=> users[v] = NULL
          /\ \A v \in UserId : users[v] # NULL => users'[v].email_verified = users[v].email_verified
      BY <1>1, <3>1, <3>3, SetRoleEffect
    <3>6. Frame(r)
      BY <3>1, <3>4, <3>5 DEF Frame, At
    <3>7. Assigned(r)'
      BY <3>1, <3>2, <3>3, <3>4 DEF Assigned
    <3>8. ASSUME NEW u \in UserId, u # act[r].target
          PROVE  permissions_for(u)' = permissions_for(u)
      BY <3>1, <3>5, <3>8, PermissionsKept
    <3>9. AdministrationTypeOK'
      BY <1>1, <3>1, <3>4, <3>5, <3>6, OverridesKept
         DEF AdministrationTypeOK, DbTypeOK, NoteLate, OverridesBelong
    <3> QED BY <3>1, <3>2, <3>4, <3>6, <3>7, <3>8, <3>9, ActKeeps, AssigningRequires
  <2>5. CASE admin_set_active(r)
    <3>1. /\ At(r, "set_active", "set_active") /\ NoteLate(r)
          /\ set_active(act[r].target, act[r].active) /\ UNCHANGED user_permissions
          /\ UNCHANGED <<refresh_tokens, now, act>>
      BY <2>5 DEF admin_set_active, NoteLate
    <3>2. Checked(r) /\ InFlight(r) /\ act[r] \in Act /\ act[r].op = "set_active"
      BY <3>1, CheckedFacts
    <3>3. act[r].target \in UserId /\ act[r].active \in BOOLEAN
      BY <3>2, ActFacts
    <3>4. /\ ReqTypeOK' /\ \A q \in Requests \ {r} : req'[q] = req[q]
          /\ req'[r].op = req[r].op /\ req'[r].user = req[r].user /\ req'[r].pc = "done"
      BY <1>1, <2>5, FinishEffect, StatusCodes DEF admin_set_active
    <3>5. /\ users' \in [UserId -> UserRow \cup {NULL}]
          /\ \A v \in UserId : users'[v] = NULL <=> users[v] = NULL
          /\ \A v \in UserId : users[v] # NULL =>
                users'[v].email_verified = users[v].email_verified /\ users'[v].role = users[v].role
      BY <1>1, <3>1, <3>3, SetActiveEffect
    <3>6. Frame(r)
      BY <3>1, <3>4, <3>5 DEF Frame, At
    <3>7. ~Assigned(r)'
      BY <3>1, <3>2 DEF Assigned
    <3>8. \A u \in UserId : permissions_for(u)' = permissions_for(u)
      BY <3>1, <3>5, PermissionsKept
    <3>9. AdministrationTypeOK'
      BY <1>1, <3>1, <3>4, <3>5, <3>6, OverridesKept
         DEF AdministrationTypeOK, DbTypeOK, NoteLate, OverridesBelong
    <3> QED BY <3>1, <3>2, <3>4, <3>6, <3>7, <3>8, <3>9, ActKeeps
  <2>6. CASE admin_grant_permission(r)
    <3>1. /\ At(r, "grant_permission", "grant_permission") /\ NoteLate(r)
          /\ users' = users /\ UNCHANGED <<refresh_tokens, now, act>>
      BY <2>6 DEF admin_grant_permission, NoteLate
    <3>2. Checked(r) /\ InFlight(r) /\ act[r] \in Act /\ act[r].op = "grant_permission"
      BY <3>1, CheckedFacts
    <3>3. /\ act[r].target \in UserId /\ act[r].granted \in {"granted", "revoked"}
          /\ act[r] # NULL
      BY <3>2, ActFacts
    <3>4. CASE /\ req' = [req EXCEPT ![r].pc = "done", ![r].status = db_error]
               /\ UNCHANGED user_permissions
      <4>1. /\ ReqTypeOK' /\ \A q \in Requests \ {r} : req'[q] = req[q]
            /\ req'[r].op = req[r].op /\ req'[r].user = req[r].user /\ req'[r].pc = "done"
        BY <1>1, <3>4, EndEffect, ErrorStatus
      <4>2. Frame(r)
        BY <3>1, <4>1 DEF Frame, At
      <4>3. \A u \in UserId : permissions_for(u)' = permissions_for(u)
        BY <3>1, <3>4, PermissionsKept
      <4>4. AdministrationTypeOK'
        BY <1>1, <3>1, <3>4, <4>1, <4>2, OverridesKept
           DEF AdministrationTypeOK, DbTypeOK, NoteLate, OverridesBelong
      <4> QED BY <3>1, <3>2, <4>1, <4>2, <4>3, <4>4, ActKeeps, AssigningRequires
    <3>5. CASE /\ act[r].permission \in permissions => found_by_id(act[r].target)
               /\ upsert_user_permission(act[r].target, act[r].permission, act[r].granted)
               /\ Finish(r, 204)
      <4>1. /\ ReqTypeOK' /\ \A q \in Requests \ {r} : req'[q] = req[q]
            /\ req'[r].op = req[r].op /\ req'[r].user = req[r].user /\ req'[r].pc = "done"
            /\ req'[r].status \in {204, 0}
        BY <1>1, <3>5, FinishEffect, StatusCodes
      <4>2. Frame(r)
        BY <3>1, <4>1 DEF Frame, At
      <4>3. Assigned(r)'
        BY <3>1, <3>2, <3>3, <4>1 DEF Assigned
      <4>4. /\ user_permissions' \in [UserId -> [permissions -> {"none", "granted", "revoked"}]]
            /\ \A u \in UserId : u # act[r].target => user_permissions'[u] = user_permissions[u]
        BY <1>1, <3>3, <3>5 DEF upsert_user_permission
      <4>5. \A u \in UserId : u # act[r].target => permissions_for(u)' = permissions_for(u)
        BY <3>1, <4>4, PermissionsKept
      <4>6. OverridesBelong'
        <5>1. CASE act[r].permission \in permissions
          <6>1. found_by_id(act[r].target)'
            BY <3>1, <3>5, <5>1 DEF found_by_id
          <6> QED BY <3>1, <4>4, <6>1
                  DEF AdministrationInv, AdministrationTypeOK, OverridesBelong, found_by_id
        <5>2. CASE act[r].permission \notin permissions
          BY <3>5, <4>2, <5>2, OverridesKept DEF upsert_user_permission
        <5> QED BY <5>1, <5>2
      <4>7. AdministrationTypeOK'
        BY <1>1, <3>1, <4>1, <4>4, <4>6
           DEF AdministrationTypeOK, DbTypeOK, NoteLate, OverridesBelong
      <4> QED BY <3>1, <3>2, <4>1, <4>2, <4>3, <4>5, <4>7, ActKeeps, AssigningRequires
    <3> QED BY <2>6, <3>4, <3>5 DEF admin_grant_permission
  <2>7. CASE Abort(r) /\ UNCHANGED adminVars
    <3>1. /\ ReqTypeOK' /\ InFlight(r) /\ UNCHANGED dbVars
          /\ \A q \in Requests \ {r} : req'[q] = req[q]
          /\ req'[r].op = req[r].op /\ req'[r].user = req[r].user
          /\ req'[r].pc = "done" /\ req'[r].status = db_error
      BY <1>1, <2>7, AbortEffect
    <3>2. Frame(r)
      BY <2>7, <3>1 DEF Frame, InFlight, dbVars, adminVars
    <3>3. db_error \notin {204, 0}
      BY DEF db_error, into_response
    <3> QED BY <2>7, <3>1, <3>2, <3>3, EndKeeps
  <2> QED BY <1>3, <2>1, <2>2, <2>3, <2>4, <2>5, <2>6, <2>7 DEF AdministrationStep
<1> QED BY <1>2, <1>3 DEF AdministrationNext

\* The invariant holds in every reachable state.
THEOREM AdministrationInvariant == AdministrationSpec => []AdministrationInv
BY InitAdministration, NextAdministration, PTL DEF AdministrationSpec

-----------------------------------------------------------------------------
(* What follows from the invariant                                         *)

\* The tables, the activation records and the history always have their types.
THEOREM AdministrationTypeCorrect == AdministrationSpec => []AdministrationTypeOK
<1>1. AdministrationInv => AdministrationTypeOK
  BY DEF AdministrationInv
<1> QED BY <1>1, AdministrationInvariant, PTL

\* Rights come only from those who had them or were given them.
THEOREM RightsAlwaysTraceBack == AdministrationSpec => []RightsTraceBack
<1>1. AdministrationInv => RightsTraceBack
  <2> SUFFICES ASSUME AdministrationInv PROVE RightsTraceBack
    OBVIOUS
  <2>1. ASSUME NEW r \in Requests, Assigned(r)
        PROVE  users[req[r].user].email_verified /\ Entitled(r)
    <3>1. req[r].user \in Accounts /\ Seed[req[r].user].email_verified
      BY <2>1 DEF AdministrationInv, ActInv, Assigned
    <3>2. req[r].user \in UserId
      BY <3>1 DEF UserId
    <3> QED BY <2>1, <3>1, <3>2 DEF AdministrationInv, AccountInv, EntitledInv
  <2> QED BY <2>1 DEF AdministrationInv, ChangedInv, Entitled, RightsTraceBack
<1> QED BY <1>1, AdministrationInvariant, PTL

\* A handler acts with its permission, or lost it after the check.
THEOREM ActsAreAuthorised == AdministrationSpec => ActsAuthorisedOrLate
<1>1. AdministrationInv =>
        [\A r \in Requests :
           Checked(r) /\ req'[r].pc = "done" /\ req'[r].status # db_error =>
             Authorised(r) \/ r \in late]_administrationVars
  BY DEF AdministrationInv, LateInv
<1> QED BY <1>1, AdministrationInvariant, PTL DEF ActsAuthorisedOrLate

-----------------------------------------------------------------------------
(* Action properties                                                       *)

\* A revoked permission comes back by a grant of that very permission.
LEMMA StepRevoked ==
    ASSUME AdministrationInv, [AdministrationNext]_administrationVars,
           NEW u \in UserId, NEW p \in permissions,
           user_permissions[u][p] = "revoked", p \in permissions_for(u)'
    PROVE  \E r \in Requests :
             /\ At(r, "grant_permission", "grant_permission")
             /\ req'[r].pc = "done"
             /\ act[r].target = u /\ act[r].permission = p /\ act[r].granted = "granted"
<1>1. user_permissions'[u][p] # "revoked"
  BY DEF permissions_for, Revoked
<1>2. user_permissions' # user_permissions
  BY <1>1
<1>3. PICK r \in Requests : admin_grant_permission(r)
  BY <1>2
     DEF AdministrationNext, AdministrationStep, authenticate, load_permissions,
         admin_list_users, admin_set_role, admin_set_active, adminVars, administrationVars
<1>4. At(r, "grant_permission", "grant_permission")
  BY <1>3 DEF admin_grant_permission
<1>5. act[r] \in Act /\ act[r].op = "grant_permission"
  BY <1>4, CheckedFacts
<1>6. act[r].target \in UserId /\ act[r].granted \in {"granted", "revoked"}
  BY <1>5, ActFacts
<1>7. /\ Finish(r, 204) /\ act[r].permission \in permissions
      /\ user_permissions' =
           [user_permissions EXCEPT ![act[r].target][act[r].permission] = act[r].granted]
  BY <1>2, <1>3 DEF admin_grant_permission, upsert_user_permission
<1>8. /\ ReqTypeOK
      /\ user_permissions \in [UserId -> [permissions -> {"none", "granted", "revoked"}]]
  BY DEF AdministrationInv, AdministrationTypeOK
<1>9. act[r].target = u /\ act[r].permission = p /\ act[r].granted = "granted"
  BY <1>1, <1>6, <1>7, <1>8
<1>10. req'[r].pc = "done"
  BY <1>7, <1>8, FinishEffect, StatusCodes
<1> QED BY <1>4, <1>9, <1>10

\* Only an explicit grant undoes a revocation, whatever happens to roles.
THEOREM RevocationsLast == AdministrationSpec => RevokedUntilGranted
<1>1. AdministrationInv /\ [AdministrationNext]_administrationVars =>
        [\A u \in UserId, p \in permissions :
           user_permissions[u][p] = "revoked" /\ p \in permissions_for(u)' =>
             \E r \in Requests :
               /\ At(r, "grant_permission", "grant_permission")
               /\ req'[r].pc = "done"
               /\ act[r].target = u /\ act[r].permission = p /\ act[r].granted = "granted"
        ]_administrationVars
  BY StepRevoked
<1> QED BY <1>1, AdministrationInvariant, PTL DEF AdministrationSpec, RevokedUntilGranted

\* Where nobody may assign, a step leaves nobody who may.
LEMMA StepLockedOut ==
    ASSUME AdministrationInv, NobodyAssigns, [AdministrationNext]_administrationVars
    PROVE  NobodyAssigns'
<1>1. ReqTypeOK /\ users \in [UserId -> UserRow \cup {NULL}]
  BY DEF AdministrationInv, AdministrationTypeOK, DbTypeOK
<1>2. ASSUME NEW r \in Requests, Frame(r),
             \A u \in UserId : permissions_for(u)' = permissions_for(u),
             Checked(r)' => Required(act'[r].op) # "users.assign_roles"
      PROVE  NobodyAssigns'
  <2>1. ASSUME NEW u \in UserId, users'[u] # NULL, users'[u].email_verified
        PROVE  "users.assign_roles" \notin permissions_for(u)'
    BY <1>2, <2>1 DEF Frame, NobodyAssigns
  <2>2. ASSUME NEW q \in Requests, Checked(q)'
        PROVE  Required(act'[q].op) # "users.assign_roles"
    BY <1>2, <2>2 DEF Frame, NobodyAssigns, Checked
  <2> QED BY <2>1, <2>2 DEF NobodyAssigns
<1>3. CASE UNCHANGED administrationVars
  BY <1>3 DEF administrationVars, NobodyAssigns, permissions_for, Granted, Revoked, Checked
<1>4. ASSUME NEW r \in Requests, NEW op \in {"set_role", "grant_permission"}, At(r, op, op)
      PROVE  FALSE
  <2>1. Checked(r) /\ act[r].op = op
    BY <1>4, CheckedFacts
  <2> QED BY <2>1, AssigningRequires DEF NobodyAssigns
<1>5. ASSUME NEW r \in Requests, AdministrationStep(r) PROVE NobodyAssigns'
  <2>1. CASE authenticate(r)
    <3>1. users' = users /\ user_permissions' = user_permissions
      BY <2>1 DEF authenticate, dbVars
    <3>2. PICK a \in Wish(r) :
            \/ \E code \in {into_response.Unauthorized, into_response.EmailNotVerified} :
                 Reject(r, a.op, code) /\ UNCHANGED act
            \/ \E u \in UserId : /\ Enter(r, a.op, "permissions_for", u, NULL, NULL)
                                  /\ act' = [act EXCEPT ![r] = a]
      BY <2>1 DEF authenticate
    <3>3. a \in Act
      BY WishAssumption
    <3>4. a.op \notin {"permissions_for", "done"}
      BY <3>3, ActFacts
    <3>5. act \in [Requests -> Act \cup {NULL}]
      BY DEF AdministrationInv, AdministrationTypeOK
    <3>6. /\ req[r].pc = "idle" /\ req'[r].pc \in {"permissions_for", "done"}
          /\ \A q \in Requests \ {r} : req'[q] = req[q]
      BY <1>1, <3>2 DEF Reject, Enter, Answered, ReqTypeOK
    <3>7. act[r] = NULL
      BY <3>6 DEF AdministrationInv, ActInv
    <3>8. /\ act'[r] = NULL \/ act'[r] = a
          /\ \A q \in Requests \ {r} : act'[q] = act[q]
      BY <3>2, <3>5, <3>7
    <3>9. Frame(r) /\ ~Checked(r)'
      BY <3>1, <3>4, <3>6, <3>8 DEF Frame, Checked
    <3> QED BY <1>2, <3>1, <3>9, PermissionsKept
  <2>2. CASE load_permissions(r)
    <3>1. req[r].pc = "permissions_for" /\ UNCHANGED <<dbVars, adminVars>>
      BY <2>2 DEF load_permissions
    <3>2. ActInv(r) /\ act[r] # NULL
      BY <3>1 DEF AdministrationInv, ActInv, InFlight
    <3>3. \A q \in Requests \ {r} : req'[q] = req[q]
      BY <1>1, <2>2 DEF load_permissions, Proceed, ReqTypeOK
    <3>4. Frame(r)
      BY <3>1, <3>3 DEF Frame, dbVars, adminVars
    <3>5. act[r] \in Act
      BY <3>2 DEF AdministrationInv, AdministrationTypeOK
    <3>6. act[r].op # "done"
      BY <3>5, ActFacts
    <3>7. CASE Authorised(r)
      <4>1. req[r].user \in UserId /\ users[req[r].user] # NULL /\ users[req[r].user].email_verified
        BY <3>2 DEF ActInv, AdministrationInv, AccountInv, UserId
      <4>2. Required(act[r].op) # "users.assign_roles"
        BY <3>7, <4>1 DEF Authorised, NobodyAssigns
      <4> QED BY <1>2, <3>1, <3>4, <4>2, PermissionsKept DEF dbVars, adminVars
    <3>8. CASE ~Authorised(r)
      <4>1. req'[r].pc = "done"
        BY <1>1, <2>2, <3>8, EndEffect, ErrorStatus DEF load_permissions
      <4>2. ~Checked(r)'
        BY <3>1, <3>6, <4>1 DEF Checked, adminVars
      <4> QED BY <1>2, <3>1, <3>4, <4>2, PermissionsKept DEF dbVars, adminVars
    <3> QED BY <3>7, <3>8
  <2>3. ASSUME UNCHANGED <<users, adminVars>> \/ admin_set_active(r), InFlight(r),
               \A q \in Requests \ {r} : req'[q] = req[q], req'[r].pc = "done"
        PROVE  NobodyAssigns'
    <3>1. /\ user_permissions' = user_permissions /\ act' = act
      BY <2>3 DEF adminVars, admin_set_active, NoteLate
    <3>2. /\ \A v \in UserId : users'[v] = NULL <=> users[v] = NULL
          /\ \A v \in UserId : users[v] # NULL =>
                users'[v].email_verified = users[v].email_verified /\ users'[v].role = users[v].role
      <4>1. CASE UNCHANGED <<users, adminVars>>
        BY <4>1
      <4>2. CASE admin_set_active(r)
        <5>1. At(r, "set_active", "set_active") /\ set_active(act[r].target, act[r].active)
          BY <4>2 DEF admin_set_active
        <5>2. act[r].target \in UserId /\ act[r].active \in BOOLEAN
          BY <5>1, CheckedFacts, ActFacts
        <5> QED BY <1>1, <5>1, <5>2, SetActiveEffect
      <4> QED BY <2>3, <4>1, <4>2
    <3>3. Frame(r)
      BY <2>3, <3>1, <3>2 DEF Frame, InFlight
    <3>4. ~Checked(r)'
      <4>1. act[r] # NULL
        BY <2>3 DEF AdministrationInv, ActInv
      <4>2. act[r] \in Act
        BY <4>1 DEF AdministrationInv, AdministrationTypeOK
      <4> QED BY <2>3, <3>1, <4>2, ActFacts DEF Checked
    <3> QED BY <1>2, <3>1, <3>2, <3>3, <3>4, PermissionsKept
  <2>4. CASE admin_list_users(r) \/ admin_set_active(r)
    <3>1. /\ \A q \in Requests \ {r} : req'[q] = req[q]
          /\ req'[r].pc = "done" /\ InFlight(r)
      <4>1. Finish(r, 200) \/ Finish(r, 204)
        BY <2>4 DEF admin_list_users, admin_set_active
      <4>2. InFlight(r)
        BY <2>4 DEF admin_list_users, admin_set_active, At, InFlight
      <4> QED BY <1>1, <4>1, <4>2, FinishEffect, StatusCodes
    <3> QED BY <2>3, <2>4, <3>1 DEF admin_list_users, dbVars
  <2>5. CASE admin_set_role(r) \/ admin_grant_permission(r)
    BY <1>4, <2>5 DEF admin_set_role, admin_grant_permission
  <2>6. CASE Abort(r) /\ UNCHANGED adminVars
    BY <1>1, <2>3, <2>6, AbortEffect DEF dbVars
  <2> QED BY <1>5, <2>1, <2>2, <2>4, <2>5, <2>6 DEF AdministrationStep
<1> QED BY <1>3, <1>5 DEF AdministrationNext

\* Once nobody may give rights, no sequence of admin requests changes that.
THEOREM LockoutIsFinal == AdministrationSpec => LockedOutForGood
<1>1. AdministrationInv /\ [AdministrationNext]_administrationVars =>
        [NobodyAssigns => NobodyAssigns']_administrationVars
  BY StepLockedOut
<1> QED BY <1>1, AdministrationInvariant, PTL DEF AdministrationSpec, LockedOutForGood

=============================================================================
