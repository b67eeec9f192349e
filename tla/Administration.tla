--------------------------- MODULE Administration ---------------------------
(***************************************************************************)
(* The admin routes of crates/api/src/routes/admin.rs.  Each runs three    *)
(* statements: the VerifiedUser extractor reads the caller's row,          *)
(* load_permissions its permissions, and then the handler acts.            *)
(***************************************************************************)
EXTENDS Handlers

CONSTANTS
    PermissionNames, \* what clients write in the body of grant_permission
    Wish(_)          \* the acts that the client of a request may ask for

VARIABLES
    user_permissions, \* auth.user_permissions: id -> permission -> override, or "none"
    act,              \* what the request of a handler asks for, or NULL
    late              \* history: requests that lost their permission between the
                      \* check and the act

adminVars == <<user_permissions, act, late>>
administrationVars == <<users, refresh_tokens, now, req, user_permissions, act, late>>

\* The rows the migration puts in auth.permissions and auth.role_permissions.
permissions == {"users.read", "users.manage", "users.assign_roles"}

role_permissions ==
    [role \in Role |-> CASE role = "admin" -> permissions
                         [] role = "moderator" -> {"users.read"}
                         [] role = "user" -> {}]

\* Mutant: set_role is open to moderators.
RequiredOfModerators(op) ==
    CASE op \in {"list_users", "set_role"} -> "users.read"
      [] op = "set_active" -> "users.manage"
      [] op = "grant_permission" -> "users.assign_roles"

\* The permission a handler requires.
Required(op) ==
    CASE op = "list_users" -> "users.read"
      [] op = "set_active" -> "users.manage"
      [] op \in {"set_role", "grant_permission"} -> "users.assign_roles"

Granted(u) == {p \in permissions : user_permissions[u][p] = "granted"}
Revoked(u) == {p \in permissions : user_permissions[u][p] = "revoked"}

\* Mutant: the revoked ones are taken from the granted ones only.
permissions_granted_to(u) ==
    IF users[u] = NULL THEN {} ELSE role_permissions[users[u].role] \cup (Granted(u) \ Revoked(u))

permissions_for(u) ==
    ((IF users[u] = NULL THEN {} ELSE role_permissions[users[u].role]) \cup Granted(u))
        \ Revoked(u)

-----------------------------------------------------------------------------
(* What a request may ask for.  A target may be an id that no account has. *)

Act ==
    [op : {"list_users"}]
    \cup [op : {"set_role"}, target : UserId, role : Role]
    \cup [op : {"set_active"}, target : UserId, active : BOOLEAN]
    \cup [op : {"grant_permission"}, target : UserId, permission : PermissionNames,
          granted : {"granted", "revoked"}]

ASSUME ActAssumption == NULL \notin Act

ASSUME WishAssumption == \A r \in Requests : Wish(r) \subseteq Act

\* Request r has passed the check and is about to act.
Checked(r) == act[r] # NULL /\ req[r].pc = act[r].op

Authorised(r) == Required(act[r].op) \in permissions_for(req[r].user)

-----------------------------------------------------------------------------

\* VerifiedUser.  A token that is missing or expired is refused.  A disabled
\* account is let in: neither the extractor nor refresh looks at is_active, so
\* every account may hold a token that is good.
authenticate(r) ==
    /\ \E a \in Wish(r) :
         \/ Reject(r, a.op, into_response.Unauthorized) /\ UNCHANGED act
         \/ \E u \in UserId :
              /\ found_by_id(u) /\ ~ users[u].email_verified
              /\ Reject(r, a.op, into_response.EmailNotVerified) /\ UNCHANGED act
         \/ \E u \in UserId :
              /\ found_by_id(u) /\ users[u].email_verified
              /\ Enter(r, a.op, "permissions_for", u, NULL, NULL)
              /\ act' = [act EXCEPT ![r] = a]
    /\ UNCHANGED <<dbVars, user_permissions, late>>

\* Mutant: the result of require is dropped.
load_permissions_only(r) ==
    /\ req[r].pc = "permissions_for"
    /\ Proceed(r, act[r].op)
    /\ UNCHANGED <<dbVars, adminVars>>

\* load_permissions and require.
load_permissions(r) ==
    /\ req[r].pc = "permissions_for"
    /\ \/ Authorised(r) /\ Proceed(r, act[r].op)
       \/ /\ ~ Authorised(r)
          /\ req' = [req EXCEPT ![r].pc = "done", ![r].status = into_response.Forbidden]
    /\ UNCHANGED <<dbVars, adminVars>>

admin_list_users(r) ==
    /\ At(r, "list_users", "list_users")
    /\ Finish(r, 200)
    /\ UNCHANGED <<dbVars, adminVars>>

\* An act was executed: who lost a permission it was about to use.
NoteLate(r) ==
    /\ UNCHANGED <<refresh_tokens, now, act>>
    /\ late' = late \cup {q \in Requests \ {r} : Checked(q) /\ ~ Authorised(q)'}

\* A target without a row is no error.
admin_set_role(r) ==
    /\ At(r, "set_role", "set_role")
    /\ set_role(act[r].target, act[r].role)
    /\ UNCHANGED user_permissions
    /\ Finish(r, 204)
    /\ NoteLate(r)

admin_set_active(r) ==
    /\ At(r, "set_active", "set_active")
    /\ set_active(act[r].target, act[r].active)
    /\ UNCHANGED user_permissions
    /\ Finish(r, 204)
    /\ NoteLate(r)

\* INSERT ... SELECT ... FROM permissions WHERE name = ... ON CONFLICT DO UPDATE:
\* a name without a row selects nothing and inserts nothing.
upsert_user_permission(u, p, override) ==
    user_permissions' =
        IF p \in permissions THEN [user_permissions EXCEPT ![u][p] = override]
        ELSE user_permissions

\* Mutant: user_permissions.user_id does not REFERENCE users.
grant_permission_to_nobody(r) ==
    /\ At(r, "grant_permission", "grant_permission")
    /\ upsert_user_permission(act[r].target, act[r].permission, act[r].granted)
    /\ Finish(r, 204)
    /\ UNCHANGED users
    /\ NoteLate(r)

\* The foreign key refuses a user that does not exist.
admin_grant_permission(r) ==
    /\ At(r, "grant_permission", "grant_permission")
    /\ IF act[r].permission \in permissions /\ ~ found_by_id(act[r].target)
       THEN /\ req' = [req EXCEPT ![r].pc = "done", ![r].status = db_error]
            /\ UNCHANGED user_permissions
       ELSE /\ upsert_user_permission(act[r].target, act[r].permission, act[r].granted)
            /\ Finish(r, 204)
    /\ UNCHANGED users
    /\ NoteLate(r)

-----------------------------------------------------------------------------

AdministrationInit ==
    /\ DbInit /\ ReqInit
    /\ user_permissions = [u \in UserId |-> [p \in permissions |-> "none"]]
    /\ act = [r \in Requests |-> NULL]
    /\ late = {}

AdministrationStep(r) ==
    \/ authenticate(r) \/ load_permissions(r)
    \/ admin_list_users(r) \/ admin_set_role(r) \/ admin_set_active(r)
    \/ admin_grant_permission(r)
    \/ Abort(r) /\ UNCHANGED adminVars

AdministrationNext == \E r \in Requests : AdministrationStep(r)

AdministrationSpec == AdministrationInit /\ [][AdministrationNext]_administrationVars

-----------------------------------------------------------------------------
(* Properties *)

\* The tables, the activation records and the history have their types, and
\* user_permissions.user_id refers to users.
AdministrationTypeOK ==
    /\ DbTypeOK /\ ReqTypeOK
    /\ user_permissions \in [UserId -> [permissions -> {"none", "granted", "revoked"}]]
    /\ \A u \in UserId, p \in permissions :
         user_permissions[u][p] # "none" => found_by_id(u)
    /\ act \in [Requests -> Act \cup {NULL}]
    /\ late \subseteq Requests

\* Request r changed what its target may do, and whether it was told so.
Assigned(r) ==
    /\ act[r] # NULL /\ act[r].op \in {"set_role", "grant_permission"}
    /\ req[r].pc = "done" /\ req[r].status \in {204, 0}

SeedPermissions(u) == role_permissions[Seed[u].role]

\* Rights come from those who have the right to give them.  An account that may
\* do other things than at first was the target of an assignment, and whoever
\* assigns has a verified address and either could assign from the start or was
\* itself the target of another's assignment.
RightsTraceBack ==
    /\ \A u \in Accounts : permissions_for(u) # SeedPermissions(u) =>
         \E r \in Requests : Assigned(r) /\ act[r].target = u
    /\ \A r \in Requests : Assigned(r) =>
         /\ users[req[r].user].email_verified
         /\ \/ "users.assign_roles" \in SeedPermissions(req[r].user)
            \/ \E q \in Requests \ {r} : Assigned(q) /\ act[q].target = req[r].user

\* The check and the act are two statements.  A handler acts without the
\* permission it requires only if the permission was taken away in between.
ActsAuthorisedOrLate ==
    [][\A r \in Requests :
         Checked(r) /\ req'[r].pc = "done" /\ req'[r].status # db_error =>
           Authorised(r) \/ r \in late
      ]_administrationVars

\* "minus user_permissions(revoked)": an explicit revocation outlives every
\* change of role; only a grant of that very permission gives it back.
RevokedUntilGranted ==
    [][\A u \in UserId, p \in permissions :
         user_permissions[u][p] = "revoked" /\ p \in permissions_for(u)' =>
           \E r \in Requests :
             /\ At(r, "grant_permission", "grant_permission")
             /\ req'[r].pc = "done"
             /\ act[r].target = u /\ act[r].permission = p /\ act[r].granted = "granted"
      ]_administrationVars

\* Nobody may give rights, and no request that was found to may is still to act.
NobodyAssigns ==
    /\ \A u \in UserId : users[u] # NULL /\ users[u].email_verified =>
                         "users.assign_roles" \notin permissions_for(u)
    /\ \A r \in Requests : Checked(r) => Required(act[r].op) # "users.assign_roles"

\* Admins may demote each other and themselves until nobody may give rights.  No
\* sequence of admin requests leads out of that, whoever else may still do what:
\* only create-admin, or an admin who verifies an address, does.
LockedOutForGood == [][NobodyAssigns => NobodyAssigns']_administrationVars

\* "Permission updated": the description of the 204 of grant_permission.
GrantIsStored ==
    \A r \in Requests :
        /\ act[r] # NULL /\ act[r].op = "grant_permission"
        /\ req[r].pc = "done" /\ req[r].status = 204
        => /\ act[r].permission \in permissions
           /\ user_permissions[act[r].target][act[r].permission] # "none"

=============================================================================
