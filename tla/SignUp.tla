------------------------------- MODULE SignUp -------------------------------
(***************************************************************************)
(* Every way an account comes to be, together: registration, create-admin  *)
(* and the first sign-in with Google compete for the addresses.            *)
(***************************************************************************)
EXTENDS Registration, GoogleSignIn

\* The tables start without identities: none of the first accounts came by
\* Google, and register and create-admin store a password.
ASSUME FirstAccountsAssumption == \A a \in Accounts : Seed[a].password_hash # NULL

signUpVars ==
    <<users, refresh_tokens, now, req, email_verification_tokens, verification_mail,
      oauth_identities, profile, overtaken>>

SignUpInit == DbInit /\ ReqInit /\ VerificationTablesInit /\ GoogleTablesInit

SignUpStep(r) ==
    \/ RegistrationStep(r) /\ UNCHANGED googleVars
    \/ GoogleStep(r) /\ UNCHANGED verificationVars
    \/ Abort(r) /\ UNCHANGED <<verificationVars, googleVars>>

SignUpNext ==
    \/ \E r \in Requests : SignUpStep(r)
    \/ Tick /\ UNCHANGED <<verificationVars, googleVars>>

SignUpSpec == SignUpInit /\ [][SignUpNext]_signUpVars

-----------------------------------------------------------------------------
(* Properties *)

\* The tables, the activation records and the history have their types.
SignUpTypeOK == DbTypeOK /\ ReqTypeOK /\ VerificationTypeOK /\ GoogleTypeOK

\* Creating an account touches no other account.  Whatever races for an
\* address, all that sign-up changes in a row that exists is email_verified,
\* from false to true: the hash, role and active flag stay its owner's.
NoTakeover ==
    [][\A u \in UserId : users[u] # NULL =>
         users'[u] \in {users[u], [users[u] EXCEPT !.email_verified = TRUE]}]_users

\* The abstract state of Directory.
Members == {u \in UserId : users[u] # NULL}

AddressOf == [u \in UserId |-> IF users[u] = NULL THEN NULL ELSE users[u].email]

OpenedFor ==
    [u \in UserId |-> IF u \in Requests /\ users[u] # NULL /\ req[u].op = "google_callback"
                      THEN profile[u].sub ELSE NULL]

SignUpDirectory == INSTANCE Directory WITH
    Ids <- UserId, Addresses <- Emails, People <- Subjects,
    members <- Members, address <- AddressOf, opened <- OpenedFor,
    account <- oauth_identities, verified <- {u \in Members : users[u].email_verified}

\* Sign-up as Directory promises it: registrations, create-admin runs and
\* callbacks that race give no address to two accounts, move no identity from
\* one account to another, and sign nobody in to an account that was not made
\* for that person.
DirectoryRefined == SignUpDirectory!Spec

\* Callback q created an account and has not finished with it.
Creating(q) == req[q].op = "google_callback" /\ req[q].user = q /\ InFlight(q)

\* Its owner can enter an account again: with a password, or because an
\* identity leads to it.  Three kinds of account have neither: one whose
\* callback is still at work, one whose callback failed between create_user
\* and upsert_oauth_identity, and one whose callback had found no identity
\* when another for the same person made it.
AccountsReachable ==
    \A u \in UserId : users[u] # NULL =>
        \/ users[u].password_hash # NULL
        \/ \E s \in Subjects : oauth_identities[s] = u
        \/ u \in Requests /\ (Creating(u) \/ req[u].status = db_error \/ u \in overtaken)

=============================================================================
