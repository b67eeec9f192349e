# TLA+ model of the user-authentication backend

This directory holds a TLA+ model of the service in this repository (a Rust
workspace: `crates/core`, `crates/db`, `crates/auth`, `crates/api`), the TLC
configurations that check it and proofs of its main theorems.

## 1. Inventory

The service is an axum HTTP API over one PostgreSQL database. It keeps no state
between requests: everything is in the tables of schema `auth`, in the signed
access tokens that clients hold, and in mail tasks that handlers spawn and
forget. No handler opens a transaction.

| Component | State | Operations | Hard behaviour | What makes it correct |
|---|---|---|---|---|
| Sessions (`routes/auth.rs`: login, refresh, logout, `issue_tokens`) | `refresh_tokens` | mint, rotate, revoke | lookup, revoke and insert are three statements; two requests with one token; failure between revoke and insert | a token has one heir, dead tokens stay dead, a session stays with its account |
| Password recovery (`request_password_reset`, `perform_password_reset`) | `password_reset_tokens`, `users.password_hash`, spawned mails | request, redeem, update, sweep | consume, update and sweep are three statements; several tokens at once; lost mails | single use, the right account, old sessions end |
| Email verification (`verify_email`, `resend_verification`, tail of `register`) | `email_verification_tokens`, `users.email_verified` | issue, consume, mark | consume and mark are two statements; mail loss | a marked address was proved; a burned token can be replaced |
| Accounts (`register_user`, `create_admin`) | `users` | insert | unique e-mail under concurrency; account without a session when the second statement fails | one account per address |
| Google sign-in (`upsert_oauth_user`) | `users`, `oauth_identities` | lookup, create, link | two callbacks for one profile; create without link | one account per identity |
| Administration and authorisation (`routes/admin.rs`, `permissions.rs`, `permissions_for`) | `users.role_id`, `users.is_active`, `role_permissions`, `user_permissions` | list, set role, set active, grant | permission check and act are different statements; claims outlive changes | no act without the permission at some moment of the request |
| Access tokens (`jwt.rs`, `middleware/auth.rs`) | claims held by clients | issue, verify | expiry with leeway; nothing revokes one | a disabled account is served for one lifetime at most, but for the sessions that linger |
| Configuration (`config.rs`, `.env`) | settings | load | five sources, one of which fills in what others leave out | the last source that has a key wins |
| Lifecycle (`main.rs`, `lib.rs`, `state.rs`, `db/src/lib.rs`) | pool, listener, requests in flight, spawned tasks | start, migrate, serve, drain, exit | crash and restart between steps; the pool at its limit; shutdown waits for requests and not for spawned mails | no unmigrated schema is served if told to migrate; no connection leaks; draining ends |
| SMTP (`email.rs`) | none | send | failure is only logged | none promised |
| Error mapping (`core/src/error.rs`, `api/src/error.rs`) | none | status of an error | none | documented statuses |
| OpenAPI, CORS, health, deployment files | none | none | none | none |

Handlers interact only through the tables: sessions and recovery share
`users.password_hash` and `refresh_tokens`; administration changes the
`is_active` and role that login and the middleware read; verification and
Google sign-in change `email_verified`.

## 2. Modules

```
AuthDb            users and refresh_tokens, one operator per SQL statement, the clock
  Handlers        activation records: program counter, failure, status
    HandlerProofs   lemmas: the effect of each step of a record, of each statement
    Sessions        login, refresh, logout      --implements-->  TokenRotation
      SessionsProofs
      MCSessions      instance for TLC
    PasswordReset   forgot-password, reset-password, the mail task
      PasswordResetProofs
      MCPasswordReset
    SessionRevocation = Sessions + PasswordReset  --implements-->  TokenRotation
      SessionRevocationProofs, which extends SessionsProofs
      MCSessionRevocation
    Registration    register, create-admin, resend-verification, verify-email, the mail task
    GoogleSignIn    the OAuth callback, oauth_identities
    SignUp = Registration + GoogleSignIn          --implements-->  Directory
      SignUpProofs
      MCSignUp
    Administration  VerifiedUser, permissions, the admin routes
      AdministrationProofs
      MCAdministration
    AccessTokens    Sessions with the access tokens it signs, AuthUser, /users/me
    Deactivation = AccessTokens + Administration + GoogleSignIn
      DeactivationProofs
      MCDeactivation
Settings          Settings::load, a pure function of what a process finds
  Service         the process, the pool and the requests that share it
    ServiceProofs
    MCService
```

How the model corresponds to the code:

* **Statements.** The functions of `crates/db/src/users.rs` execute one SQL
  statement each, which autocommits. Such a function is an operator of `AuthDb` (or of
  the module that owns its table), and one atomic step. `UPDATE ... RETURNING` is one
  step, a `SELECT` followed by an `UPDATE` is two. `create_user` and `set_role` are the
  exceptions: they read the id of the role first (`role_id_for`). Nothing ever changes
  `auth.roles`, so each of them is one step here, that of its `INSERT` or `UPDATE`.
* **Handlers.** `req[r]` is the activation record of the handler serving
  request `r`; `pc` is the name of the function of `users.rs` it calls next. The
  first statement of a handler and its checks are one action named after the
  handler; each later statement is an action of its own. `register`-like
  validation that happens before the first statement is a rejection in the
  first action. `into_response` gives each `AppError` its status.
* **Outside the service.** Google is whatever profile, or failure, the callback
  gets (`Profile`; its `email_verified`, which no code looks at, is left out: an address
  that Google sends is marked as verified); the mail relay delivers or loses, and a
  mail goes to the address its record has (`ResetMail`, `VerificationMail`); `create-admin` is a process of
  its own that runs one INSERT, and its exit code stands as a status.
* **Bearers.** `resend_verification` and the admin routes accept any account that
  exists, disabled or not: it can log in, or holds a refresh token, which `refresh`
  renews without a look at `is_active`; the extractors do not look at it either.
  A token that is missing or expired is a 401. `AccessTokens` and `Deactivation`
  have the tokens themselves: what they say, when they expire and who holds one.
* **Failure.** `Abort` may stop a handler in flight at any point: a statement
  failed, the pool timed out, the client went away and the future was dropped,
  the process exited. What its earlier statements did stays. The last statement
  may also commit and its answer be lost: status 0. The tokens of such an
  answer are in the table, and no client holds them. Where the code swallows an
  error (the verification mail, forgot-password) the action goes on to the usual
  answer; status 500 stands there for a future that was dropped. A request whose first
  statement fails changes nothing, and is not modelled.
* **Random values.** User ids, tokens and salts are 122 to 256 random bits and
  taken to be fresh. A request draws at most one of each, so the value is named
  after the request: refresh token `r` is the one request `r` minted. A token
  and its SHA-256 are one name. Argon2 hashes are pairs of password and salt.
* **Time.** `now` is one clock for the service and the database; `MaxTime` is
  where it stops. The moment at which a handler computes an expiry and the
  moment its INSERT runs are one step: seconds against lifetimes of days (refresh
  tokens) or an hour (reset tokens).
* **History variables.** `spender`, `raced`, `survivors`, `overtaken`, `late`,
  `lingering` and `disabled_at` record what
  happened and are read by no guard. So is the field `phc` of a refresh request:
  the hash that the login at the root of its session verified.
* **Mutants.** Definitions marked "Mutant:" are wrong variants of the definition
  that follows. Nothing uses them; they show that a property can fail.

`TokenRotation` is the abstract promise: a token is unborn, alive or dead; it is
born by a grant or as the successor of a token its request claimed alive, which
must be dead by then; it dies once. `Sessions` maps its tables to it with `Life`
and `ClaimedToken`.

`Directory` is what sign-up promises: accounts are opened with an address nobody
else has, for a person or for nobody in particular; a person is linked once, to an
account opened for that very person; addresses are proved; nothing is undone.
`SignUp` maps `users` and `oauth_identities` to it with `Members`, `AddressOf` and
`OpenedFor`.

`Service` looks at the whole process and forgets what statements do. A request has
a number of statements to go (`left`) and a place: its head is arriving, it waits for
the client to send the body or take the answer (`client`), for Google (`exchange`), is
ready to ask the pool, waits in its queue, or executes a statement on a connection.
Most handlers await the body (`Json`) before their first statement, the admin routes
after the one of `VerifiedUser` (`unread`), and the Google callback takes none. Each
database (`db.url`) has a schema of its own. A process goes down the list of `main`, `run` and `AppState::build`, may die at any
step, and another is started, perhaps in another directory or with another
environment (`Sources`). The handlers' modules have these deaths as `Abort`, and
the mails a dying process forgets as lost mails. The pool is sqlx's, modelled from
how the code configures it: `max_connections`, a fair queue, `acquire_timeout`.

## 3. Runs

| Run | Instance | Shows |
|---|---|---|
| `sessions` | 4 requests; 2 active accounts, 1 disabled, 1 without a password; clock 0..2, lifetime 1 | types; `RotationReplaces`; `OneHeir`; `Sessions` implements `TokenRotation` |
| `password_reset` | 4 requests; 2 accounts with a password, 1 without; clock 0..1, lifetime 1 | types; `ResetTokenSingleUse`; `SpentTokenResets`; `PasswordProvenance`; `OAuthOnlyStaysPasswordless` |
| `revocation` | 5 requests on one account, no expiry | types; `StaleSessionsExplained` when two resets overlap, and for refreshes after a sweep; `OneHeir` |
| `revocation_liveness` | 3 requests, clock 0..1, no symmetry | `StaleSessionsEnd` under fairness; `RotationRefined` with the sweep as one more way to die |
| `reset_revokes_all` | 4 requests, no expiry | finding: `ResetRevokesAllSessions` is violated |
| `sign_up` | 3 requests; an unverified account, a free address, two people at Google; clock 0..1, lifetimes 1 | types; `VerifiedMeansProved`; `SpentTokenVerifies`; `AccountsReachable`; `NoTakeover`; `SignUp` implements `Directory` |
| `register_conflict` | as `sign_up`, one person, clock stopped | finding: `TakenEmailIsConflict` is violated |
| `administration` | 3 requests; an admin, an unverified admin, a moderator; 11 acts a client may ask for | types, with the foreign key of the overrides; `RightsTraceBack`; `ActsAuthorisedOrLate`; `RevokedUntilGranted`; `LockedOutForGood` |
| `grants_stored` | as `administration` | finding: `GrantIsStored` is violated |
| `deactivation` | 3 client requests, 1 request of an admin that disables any account; clock 0..2, lifetimes 1, no leeway | types; `DisabledSessionsExplained`; `DisabledServedBriefly` |
| `service` | 3 requests of up to 2 statements, 2 processes, pools of 1 and 2, 5 surroundings to start in | types; `SettingsPrecedence`; `MigratedBeforeServing`; `PoolSound`; under fairness `OnlyOutsidersHoldUp` and `ShutdownCompletes` |
| `request_timeout` | 2 requests, 1 process | finding: `RequestsTimeOut` is violated |

Why these bounds are enough to be interesting. Four requests hold a login, two
refreshes racing on its token and a logout or a refresh of a successor. For
recovery, two accounts can each be mailed a token and redeem it, or two
tokens of one account be redeemed side by side. For revocation, five hold a login, two
mails and two overlapping resets, or a login, a refresh of its token, a
mail, a reset and a later refresh of a survivor. Three, with the clock, hold a login
that a reset makes stale and that expires. For sign-up, three requests hold a registration whose mail is resent
and verified, two verifications of one link, two callbacks for one person and a
third that finds what they left, or a registration, a create-admin and a callback
for one address. For administration, three hold a check, the demotion of
its caller in between and a third admin's doing; `MCWish` lists the acts: promotion
and demotion of the admin and the moderator by role and by override, a
permission without a row and an id without an account. For deactivation, three clients
hold a login, a refresh of its token and a bearer of the result, or two callbacks and
a refresh, with the account disabled anywhere in between; the admin is alice herself
or disables the account a callback made. Three units of time are needed for a token
that is signed before, and expires after, the session of its login. `Leeway` is 0:
adding it to the lifetime is all the library does. A leeway of 1 needs a clock 0..3,
and then three minutes, too near what a run may take: it was checked so, outside
the runs, with the same result, and the theorem `DisabledAreServedBriefly` holds for
every leeway. No request enables an account
here; with two clients and two admin requests that switch accounts both ways (2 minutes, not
among the runs) the same properties hold, and the proofs of section 4 cover it. Requests that are turned away change nothing
and are left out there (`TurnedAway`); the runs of the parts have them. For the service, a
pool of one makes two of three requests queue, so that the first of them can time out,
disconnect or be handed the connection; two statements let a request wait for its body
between them, while others use the pool; two processes let one die half way and the next
be told not to migrate. `MCSources` holds the deployments the repository describes
(`docker-compose.yml` over `production.toml`, everything in `.env`, `APP_ENV=test`) and a
start outside the directory of `config/`. Clock 0..1 with lifetime 1 reaches the instant of expiry, 0..2 also a
successor that outlives its ancestor. Requests are
symmetric: no definition distinguishes them and the seed does not mention them.
The liveness runs drop the symmetry. `CHECK_DEADLOCK FALSE`: requests are
finite in number and the clock is bounded, so every behaviour of the model stops.

**Fairness.** `FairRevocationSpec` assumes weak fairness of `Continue(r)` for
each request in flight: tokio polls a ready task, and a statement that was sent is
answered or its connection fails, so a handler goes on or is aborted. The code sets
no timeout of its own on statements (only on getting a connection); `Service`
therefore does not assume this: `FairServiceSpec` is fair only to what the process
does by itself (a ready handler asks for its connection, the pool hands one over,
the timer of `acquire_timeout` fires, `axum::serve` returns) and its properties
name the clients, the database and Google as the only ones who may hold something up.
`PromptSpec` adds that clients send what they have begun to send and that the
database answers, so that the counterexample to `RequestsTimeOut` is about Google
alone. Otherwise nothing is assumed of clients, operators, mails or the clock.

### What the runs say

* **Refresh rotation is not atomic, and that is bounded.** Two refreshes that
  both read a token before either revokes it both succeed; the code has no
  `WHERE revoked_at IS NULL` and does not look at the number of rows. `OneHeir`
  states exactly how far this goes: everyone who is given a successor either
  spent the token or had already read it as valid when it was spent.
  The same holds for a logout in place of the other refresh.
* **Finding: a reset does not revoke all sessions** (`reset_revokes_all`). The
  comment on `perform_password_reset` (`routes/auth.rs:453`) says it "updates the
  password hash, and revokes all sessions". A login that verified the old hash
  and inserts its row after the sweep leaves a live session behind an answer
  of 204, and refresh renews it. `StaleSessionsExplained` says
  there are no other ways: a session of an older password is alive only if it
  straddled a sweep, or descends by refresh from one that did, or the reset that
  stored the present hash has not swept.
* **A reset token is not used up for nothing.** Consume and update are two statements, so
  a failure between them burns the token. `SpentTokenResets` says that this is
  the only way: otherwise the account has a password that a reset stored, this or a
  later one. In particular the new password is validated before the token is touched.
* **Sign-up cannot take an account over, and can leave one out of reach.** Nothing
  looks for an address before the INSERT; the unique index decides, and a row that
  exists changes only its `email_verified` (`NoTakeover`). What the tables go through
  is what `Directory` allows (`DirectoryRefined`). `AccountsReachable`
  lists the accounts that have no password and no identity: a callback that fails
  between `create_user` and `upsert_oauth_identity` leaves one (and later callbacks
  of that person fail on the address it holds), and so does a callback without
  an address that another for the same person overtook.
* **Finding: 500 where 409 is documented** (`register_conflict`). The OpenAPI
  description of register (`routes/auth.rs:137`) says 409 "Email already taken"; no code
  makes a `Conflict` of the unique violation, and `error.rs` answers 500.
* **Finding: permissions that are granted and not stored** (`grants_stored`). The 204
  of grant_permission says "Permission updated" (`routes/admin.rs:131`). A name without
  a row in `permissions` inserts nothing, and ten of the thirteen names of
  `Permission` ("Keep in sync with the migration", `permissions.rs:8`) have none.
* **Disabling an account does not end its sessions.** The flag is read by login
  alone. `DisabledSessionsExplained` says which sessions go on: those that were live,
  those whose login, refresh or callback had passed its check, those that Google opens
  afterwards (the callback does not look at the flag), and their descendants.
  `DisabledServedBriefly` bounds the rest: an access token that does not belong to such a
  session, as after a logout, serves for one lifetime and the leeway after the
  account was disabled. Nothing in the repository promises more, so this is no finding.
* **Administrators can lock themselves out**, and then no call of the API helps
  (`LockedOutForGood`); create-admin does.
* **The pool and the shutdown.** No handler holds a connection while it waits for
  another, and dropped futures give theirs back, so the pool cannot deadlock or leak
  (`PoolSound`) and nobody but clients, Google and the database can keep a request, or
  the draining of the process, from ending (`OnlyOutsidersHoldUp`, `ShutdownCompletes`).
  A client that stalls in its head or its body can: nothing limits how long it may
  take. It holds no connection of the pool meanwhile.
* **Finding: the request timeout does not exist** (`request_timeout`).
  `request_timeout_secs` is set in `config/default.toml:8` and required by
  `Settings` (`config.rs:19`), and nothing reads it. The HTTP clients that talk to Google
  have no timeout either: an exchange that is never answered keeps its request in
  flight, and a draining process alive until it is killed. A stalled client does the
  same; the run assumes prompt clients (`PromptSpec`) to show that none is needed.
* **Divergences without a run.** The OpenAPI description of reset-password
  (`routes/auth.rs:517`) lists 400 for a password that is too short; the validation
  error is answered 422 (`reset_password_rejects`). `auth.password_min_length` is required by
  `Settings` and never read: the minimum of 8 is written into the request types. The
  header of `routes/admin.rs` says that all routes
  require users.manage or users.assign_roles; `list_users` requires users.read, as
  the README's table of endpoints says.

## 4. Proofs

Every invariant and every action property that a passing run checks, and all the
refinements, are theorems of the specification they are checked on: they hold for
every set of requests, accounts, addresses, passwords, subjects, acts or sources,
every seed, every positive lifetime and every bound on the clock. Each proof module states one
inductive invariant, proves that the initial states satisfy it and that every
step keeps it (`Init...`, `Next...`), and derives the properties from it. TLC found no
violation of any of these invariants before it was proved.

**How the proofs are laid out.** `HandlerProofs` says once what each step of an
activation record (`Enter`, `Reject`, `Proceed`, `Finish`, `Abort`, `issue_tokens`)
and each SQL statement leaves behind (`EnterEffect`, `SetRoleEffect`,
`CreateUserEffect`, ...). A proof module splits its invariant into parts of one
request, token or account. A *frame* (`Frame`, `Settled` or the assumptions of a lemma `StepKeeps`)
says what a step of request `r` leaves to everybody else; a lemma shows that the
frame keeps the parts of the others (`OthersKeep`, `StepKeeps`), and there is one
lemma per action that establishes the frame and `r`'s own part.

**Sessions** (`SessionsProofs`). `RotationInv` is behind `RefreshReplaces`
(`RotationReplaces`) and `TokenHasOneHeir` (`OneHeir`). Neither is inductive: both
speak of refreshes that succeeded, and the facts are decided earlier. `RotationInv` says
for each refresh from its lookup on that the token it was given exists and is
its user's (`ClaimInv`), that before its revoke it has been noted as raced if the
token is revoked already, and after it is the spender or raced (`HeirInv`), that a
token is revoked exactly when it has a spender (`SpenderInv`), and that a row
exists only for a request that is over (`RowInv`). `SessionsImplementRotation` maps
each action to a step of `TokenRotation` or to a stutter (`StepRefines`), using
`RotationInv` for the successor's dead ancestor and `IdleInv` for fresh claims.

**Password recovery** (`PasswordResetProofs`). `ResetTokenSingleUse` is inductive only
with `RedeemInv`: whoever redeemed a token finds it used, and `Consumable` then fails for
everyone else. `PasswordProvenance` (theorem `PasswordsComeByMail`) needs to know where each value comes
from on its way through mails and handlers: a row exists only for the forgot-password that
drew it and belongs to that request's user (`IssuedInv`), a mail goes to the address of
that request's account and is more than a draft only with such a row (`MailInv`), a forgot-password that goes on works for an account with a password
(`ForgotInv`, and so do the resets its token leads to), and a reset carries a hash of its own
salt (`RedeemInv`, `ResettingInv`), by which the hash that an account has names the reset
that stored it (`HashInv`). For `SpentTokensReset` each used token has a request that redeemed
it (`UsedInv`), and a reset that is past its update and did not fail has left a password
that a reset stored, which later resets only replace by theirs (`StoredInv`).

**Sessions with recovery** (`SessionRevocationProofs`). The sweep is a revocation by a
request that is no refresh, and `RotationInv` survives it (`OneHeirDespiteResets`).
`StaleSessionsExplained` speaks of live tokens only; inductive is that
for every session, live (`LiveInv`) or about to be minted by a handler that has passed its
check (`MintInv`), its hash is its account's, or it straddled a sweep, or the
reset whose salt the account's hash has is before its sweep (`Explained`). For that
`SaltInv` identifies the reset with the salt of the hash it carries. The step that
matters is `SweepStep`: of the account swept it leaves no session alive and puts every
mint under way among the survivors. `RevocationImplementsRotation` adds that recovery
claims no token and that a sweep kills only the living (`RecoveryRequest`, `SweepKills`).

**Sign-up** (`SignUpProofs`). The invariant records for each account which request
created it and for whom (`AccountInv`, `IdentityInv`), what handlers in flight know of
theirs (`WriterInv`, `CallbackInv`), what a token says about its account and mail
(`IssuedInv`) and about the verification that used it (`VerifyInv`, `UsedInv`,
`SingleUse`), why a verified account is one (`VerifiedInv`), and that of the callbacks for
one person who go on without an identity while there is one all were overtaken (`UnlinkedInv`),
which is what makes `AccountsReachable` hold (`ReachInv`). `NobodyTakesOver` is an action
property. `SignUpImplementsDirectory` maps each statement to a step of `Directory` or a
stutter, with `UniqueEmails` for the address nobody else has.

**Administration** (`AdministrationProofs`). `RightsTraceBack` and `ActsAuthorisedOrLate` become
inductive with what holds between a check and its act: the handler remembers an act of
its own kind and a caller with a verified address (`ActInv`); a caller that passed the check
to assign could do so from the start or was given the right by another's assignment
(`EntitledInv`); whoever passed a check has the permission still, or the request is among the
late ones (`LateInv`). An account's rights differ from its seed only by an assignment
(`ChangedInv`). The type says that overrides belong to accounts there are, which each grant
has to keep (`OverridesBelong`). `RevocationsLast` and
`LockoutIsFinal` are action properties; for the latter a lockout counts the handlers that
have passed their check as well.

**Sessions with administration** (`DeactivationProofs`). As for stale sessions, the
invariant speaks of tokens to come (`MintInv`), live refresh tokens (`LiveInv`) and
signed access tokens (`AccessInv`: minted with a refresh token of the same account, no
more than a lifetime ago, and if the account is disabled then before that or by one
that lingers). `KnowsUserInv`, `AskedInv`, `CreatedInv` and `AccountInv` say what a handler
has to know at each program counter and that `disabled_at` is the time since when. `set_active` alone
changes who is disabled (`Switches`), so it has a lemma to itself, in both
directions; the other steps share a frame that fixes who is disabled.

**The process** (`ServiceProofs`). `SettingsInv` is that the settings in force are what
`load` makes of the source the process found; `OverFour` is the algebra of five
sources, from which the order of precedence follows. `MigratedInv` extends
`MigratedBeforeServing` to the phases before it serves, for the database of its settings;
`WorkInv` says that work exists only while the process is up, and that a request has
statements to go unless it waits for its client. `PoolInv` counts the connections in use against the settings and
makes the queue a list without repetitions of exactly those who wait; neither the
bound nor the queue is preserved by itself, since handing a connection over reads the head of the queue.

**Assumptions.** The constants are as the ASSUMEs say, all of which TLC evaluates on
the instances. `NULL` is no other value (`NullAssumption`, `ResetRowAssumption`,
`VerificationAssumption`, `ProfileAssumption`, `ActAssumption`). Ids the database draws
are none of those there were (`FreshAssumption`), and the accounts there were have
distinct addresses, as the unique index says (`SeedAssumption`). Lifetimes are positive
(`TimeAssumption`, `ResetTtlAssumption`, `VerifyTtlAssumption`, `AccessAssumption`): with
a configured lifetime of zero or less every token would be born expired. Clients wish for
acts that exist (`WishAssumption`, `AdminRequestsAssumption`). Settings that load have a
`max_connections` that is a number (`SourcesAssumption`: serde yields a `u32` or fails);
`ServiceAssumption` types the bounds. `FirstAccountsAssumption`: when sign-up begins there
are no identities (`GoogleTablesInit`), hence no accounts that only Google opens; the model has
every callback that makes one.

**What stays with TLC.** The liveness properties `StaleSessionsEnd`,
`OnlyOutsidersHoldUp` and `ShutdownCompletes`: temporal reasoning under fairness and
`ENABLED` are out of the prover's reach. That the counterexamples of the four findings
exist is shown by their runs.

## 5. Not modelled

`google_start`, which redirects and keeps no state, the pages of `list_users`, the OpenAPI
document, CORS and the deployment files. The composition `Deactivation` leaves out
`register`, whose session is like one that a login opened, and password recovery,
which does not look at `is_active`; enabling an account is in the model and not in
the instance. `Settings` names only the keys that change what the process does, and
does not parse: a value that is malformed is one more way for `load` to fail. In
`Service` a statement that fails ends its request; the few handlers that swallow an
error are in their own modules. An answer counts as taken when it is written, but for
that of a request without statements, such as the pages of the API documentation. The one
migration runs in a transaction, so a half-done one is no state of the model. Mail tasks hold no connection and are not waited for at
exit: what that does to them is the loss of a mail.
Message texts, display names, user agents, timestamps nobody reads, the
wording of errors; JWT signatures and Argon2 as computations; the SQL planner;
isolation inside one statement (PostgreSQL executes each atomically). Users
are never deleted by any code, so the branches for a user that is gone have no
action. With no SMTP host configured `send_email` logs the mail instead;
whoever reads the log holds the token then, which the model calls delivered.

## 6. Plan

Modelled and checked: every component but those of section 5. Proved: all the safety
properties and refinements of the passing runs (section 4). What is left:

1. **Properties of the abstractions**: what `TokenRotation` and `Directory` imply, as
   theorems about the tables (dead tokens stay dead, a link is never undone).
2. **One composition more**: recovery and administration on the same accounts, with
   `update_password_hash` and `set_active` interleaved.
