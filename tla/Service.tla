------------------------------ MODULE Service -------------------------------
(***************************************************************************)
(* The life of the process: crates/api/src/main.rs, lib.rs, state.rs and   *)
(* crates/db/src/lib.rs.  It loads its settings, opens the pool, migrates, *)
(* binds and serves until a signal; then it drains.  Requests share the    *)
(* pool: each statement takes a connection for as long as it runs.  What   *)
(* statements do is the matter of the other modules; here a request has a  *)
(* number of them to go, and may have to ask Google first or to wait for   *)
(* its client: nothing limits how long a head or a body may take to come.  *)
(***************************************************************************)
EXTENDS Settings, FiniteSets

CONSTANTS
    Requests,      \* the HTTP requests the service will ever receive
    Sources,       \* what a process may find when it starts (see Settings)
    MaxStatements, \* bound of the model: statements of one request
    MaxStarts,     \* bound of the model: processes, one after the other
    NULL

ASSUME ServiceAssumption == MaxStatements \in Nat /\ MaxStarts \in Nat

\* try_deserialize yields a u32, or the settings do not load.
ASSUME SourcesAssumption == \A w \in Sources : loads(w) => load(w)["db.max_connections"] \in Nat

\* The databases that a process may be told to use.
Databases == {load(w)["db.url"] : w \in {w \in Sources : loads(w)}}

VARIABLES
    phase,    \* how far the process is; "down" when there is none
    starts,   \* processes so far
    source,   \* what the last process found, or NULL
    settings, \* what it made of that, or NULL
    schema,   \* database -> its auth schema, "none" or "current"
    stage,    \* request -> how far it is
    left,     \* request -> statements it still has to execute
    unread,   \* the requests whose handler reads the body after a statement
    held,     \* the requests that hold a connection of the pool
    queue     \* the requests that wait for one, in order of arrival

processVars == <<phase, starts, source, settings>>
workVars == <<left, unread>>
poolVars == <<held, queue>>
serviceVars == <<phase, starts, source, settings, schema, stage, left, unread, held, queue>>

Ended == {"answered", "failed", "dropped"}

Stage == {"none", "arriving", "client", "exchange", "ready", "waiting", "executing"} \cup Ended

InFlight(r) == stage[r] \notin Ended \cup {"none"}

Up == {"serving", "draining"}

\* The process ends; what it had in hand ends with it.
Vanish ==
    /\ phase' = "down"
    /\ stage' = [r \in Requests |-> IF InFlight(r) THEN "dropped" ELSE stage[r]]
    /\ held' = {} /\ queue' = <<>> /\ unread' = {}
    /\ UNCHANGED <<starts, source, settings, left>>

-----------------------------------------------------------------------------
(* The process *)

\* main: a process whose settings do not load exits at once.
start ==
    /\ phase = "down" /\ starts < MaxStarts
    /\ starts' = starts + 1
    /\ \E w \in Sources :
         /\ source' = w
         /\ IF loads(w) THEN phase' = "connecting" /\ settings' = load(w)
                        ELSE phase' = "down" /\ settings' = NULL
    /\ UNCHANGED <<schema, stage, workVars, poolVars>>

\* connect, the first half of AppState::build.
connect ==
    /\ phase = "connecting"
    /\ phase' = IF settings["db.run_migrations_on_start"] THEN "migrating" ELSE "binding"
    /\ UNCHANGED <<starts, source, settings, schema, stage, workVars, poolVars>>

\* Mutant: an error of the migrator is dropped.
run_migrations_or_not ==
    /\ phase = "migrating"
    /\ phase' = "binding"
    /\ \E version \in {schema[settings["db.url"]], "current"} :
         schema' = [schema EXCEPT ![settings["db.url"]] = version]
    /\ UNCHANGED <<starts, source, settings, stage, workVars, poolVars>>

\* run_migrations: there is one migration, which the migrator runs in a
\* transaction with its own record of it.  If it fails it is undone, and the
\* process ends (crash); a schema that is current has none pending.
run_migrations ==
    /\ phase = "migrating"
    /\ phase' = "binding"
    /\ schema' = [schema EXCEPT ![settings["db.url"]] = "current"]
    /\ UNCHANGED <<starts, source, settings, stage, workVars, poolVars>>

\* TcpListener::bind and axum::serve.
bind ==
    /\ phase = "binding"
    /\ phase' = "serving"
    /\ UNCHANGED <<starts, source, settings, schema, stage, workVars, poolVars>>

\* shutdown_signal: no further request is accepted.
shutdown_signal ==
    /\ phase = "serving"
    /\ phase' = "draining"
    /\ UNCHANGED <<starts, source, settings, schema, stage, workVars, poolVars>>

\* axum::serve returns when the last request has ended; then main does.
exit ==
    /\ phase = "draining" /\ \A r \in Requests : ~ InFlight(r)
    /\ Vanish
    /\ UNCHANGED schema

\* Before it serves, any `?` of run ends the process, and so does a signal.
\* Later only a kill does: docker sends one when draining takes too long.
crash ==
    /\ phase # "down"
    /\ Vanish
    /\ UNCHANGED schema

-----------------------------------------------------------------------------
(* The requests *)

\* The head of a request begins to arrive.
accept(r) ==
    /\ phase = "serving" /\ stage[r] = "none"
    /\ stage' = [stage EXCEPT ![r] = "arriving"]
    /\ UNCHANGED <<processVars, schema, workVars, poolVars>>

\* Mutant: /health asks for a connection, too.
begin_as_ready(r) ==
    /\ stage[r] = "arriving"
    /\ \E n \in 0..MaxStatements, s \in {"client", "exchange", "ready"} :
         /\ left' = [left EXCEPT ![r] = n]
         /\ stage' = [stage EXCEPT ![r] = s]
         /\ \/ UNCHANGED unread
            \/ s = "ready" /\ n > 1 /\ unread' = unread \cup {r}
    /\ UNCHANGED <<processVars, schema, poolVars>>

\* The head is there, be it late, and the handler begins.  /health executes no
\* statement, the Google callback starts with the exchange of its code; who
\* takes a body awaits it, the admin routes after the statement of VerifiedUser.
begin(r) ==
    /\ stage[r] = "arriving"
    /\ \E n \in 0..MaxStatements, s \in {"client", "exchange", "ready", "answered"} :
         /\ (s = "answered" => n = 0) /\ (s \in {"exchange", "ready"} => n > 0)
         /\ left' = [left EXCEPT ![r] = n]
         /\ stage' = [stage EXCEPT ![r] = s]
         /\ \/ UNCHANGED unread
            \/ s = "ready" /\ n > 1 /\ unread' = unread \cup {r}
    /\ UNCHANGED <<processVars, schema, poolVars>>

\* The rest of the body is there and the handler goes on, or finds it invalid.
\* A request without statements has sent what the API documentation consists
\* of, the one answer that a client can be slow to take.
receive(r) ==
    /\ stage[r] = "client"
    /\ \E s \in IF left[r] = 0 THEN {"answered"} ELSE {"ready", "failed"} :
         stage' = [stage EXCEPT ![r] = s]
    /\ UNCHANGED <<processVars, schema, workVars, poolVars>>

\* google_exchange_code: two requests to Google, by clients without a timeout.
google_exchange_code(r) ==
    /\ stage[r] = "exchange"
    /\ \E s \in {"ready", "failed"} : stage' = [stage EXCEPT ![r] = s]
    /\ UNCHANGED <<processVars, schema, workVars, poolVars>>

\* The queue without request r, wherever it stands.
Without(r) ==
    IF \E i \in DOMAIN queue : queue[i] = r
    THEN LET n == CHOOSE i \in DOMAIN queue : queue[i] = r IN
           [i \in 1..Len(queue) - 1 |-> IF i < n THEN queue[i] ELSE queue[i + 1]]
    ELSE queue

Full == Cardinality(held) >= settings["db.max_connections"]

\* The next statement asks the pool for a connection; whoever waits is first.
acquire(r) ==
    /\ stage[r] = "ready"
    /\ IF Full \/ queue # <<>>
       THEN /\ stage' = [stage EXCEPT ![r] = "waiting"]
            /\ queue' = Append(queue, r)
            /\ UNCHANGED held
       ELSE /\ stage' = [stage EXCEPT ![r] = "executing"]
            /\ held' = held \cup {r}
            /\ UNCHANGED queue
    /\ UNCHANGED <<processVars, schema, workVars>>

\* A connection is free: the first to wait gets it.
hand_over ==
    /\ queue # <<>> /\ ~ Full
    /\ stage' = [stage EXCEPT ![Head(queue)] = "executing"]
    /\ held' = held \cup {Head(queue)}
    /\ queue' = Tail(queue)
    /\ UNCHANGED <<processVars, schema, workVars>>

\* Mutant: the error is dropped and the handler waits on.
acquire_timeout_ignored(r) ==
    /\ stage[r] = "waiting"
    /\ queue' = Without(r)
    /\ UNCHANGED <<processVars, schema, stage, workVars, held>>

\* PoolTimedOut after acquire_timeout_secs, which the handler answers with an error.
acquire_timeout(r) ==
    /\ stage[r] = "waiting"
    /\ stage' = [stage EXCEPT ![r] = "failed"]
    /\ queue' = Without(r) /\ unread' = unread \ {r}
    /\ UNCHANGED <<processVars, schema, left, held>>

\* The database answers, with an error if there are no tables, and the
\* connection goes back before the handler awaits anything else.  An error is
\* the answer of the request.
statement(r) ==
    /\ stage[r] = "executing"
    /\ \/ /\ schema[settings["db.url"]] = "current"
          /\ left' = [left EXCEPT ![r] = @ - 1]
          /\ stage' = [stage EXCEPT ![r] = IF left[r] = 1 THEN "answered"
                                           ELSE IF r \in unread THEN "client" ELSE "ready"]
       \/ /\ stage' = [stage EXCEPT ![r] = "failed"]
          /\ UNCHANGED left
    /\ held' = held \ {r} /\ unread' = unread \ {r}
    /\ UNCHANGED <<processVars, schema, queue>>

\* Mutant: the connection of a dropped future does not go back.
disconnect_leaks(r) ==
    /\ InFlight(r)
    /\ stage' = [stage EXCEPT ![r] = "dropped"]
    /\ queue' = Without(r) /\ unread' = unread \ {r}
    /\ UNCHANGED <<processVars, schema, left, held>>

\* The client disconnects: the future is dropped, and with it its place in the
\* queue or its connection.
disconnect(r) ==
    /\ InFlight(r)
    /\ stage' = [stage EXCEPT ![r] = "dropped"]
    /\ held' = held \ {r}
    /\ queue' = Without(r) /\ unread' = unread \ {r}
    /\ UNCHANGED <<processVars, schema, left>>

-----------------------------------------------------------------------------

ServiceInit ==
    /\ phase = "down" /\ starts = 0 /\ source = NULL /\ settings = NULL
    /\ schema \in [Databases -> {"none", "current"}]
    /\ stage = [r \in Requests |-> "none"] /\ left = [r \in Requests |-> 0]
    /\ unread = {} /\ held = {} /\ queue = <<>>

Process == start \/ connect \/ run_migrations \/ bind \/ shutdown_signal \/ exit \/ crash

Serve(r) ==
    \/ accept(r) \/ begin(r) \/ receive(r) \/ google_exchange_code(r) \/ disconnect(r)
    \/ acquire(r) \/ acquire_timeout(r) \/ statement(r)

ServiceNext == Process \/ hand_over \/ \E r \in Requests : Serve(r)

ServiceSpec == ServiceInit /\ [][ServiceNext]_serviceVars

\* What the process does by itself: tokio polls whatever is ready, the timer of
\* acquire fires, and axum returns.  Neither Google nor the database nor a
\* client nor an operator owes anything.
FairServiceSpec ==
    /\ ServiceSpec
    /\ WF_serviceVars(exit) /\ WF_serviceVars(hand_over)
    /\ \A r \in Requests : WF_serviceVars(acquire(r)) /\ WF_serviceVars(acquire_timeout(r))

\* Moreover clients send what they have begun to send, and the database answers
\* each statement.  Only Google may be slow.
PromptSpec ==
    /\ FairServiceSpec
    /\ \A r \in Requests :
         WF_serviceVars(begin(r)) /\ WF_serviceVars(receive(r)) /\ WF_serviceVars(statement(r))

-----------------------------------------------------------------------------
(* Properties *)

\* The state has its type.
ServiceTypeOK ==
    /\ phase \in {"down", "connecting", "migrating", "binding"} \cup Up
    /\ starts \in 0..MaxStarts
    /\ source \in Sources \cup {NULL}
    /\ schema \in [Databases -> {"none", "current"}]
    /\ stage \in [Requests -> Stage] /\ left \in [Requests -> 0..MaxStatements]
    /\ unread \subseteq Requests /\ held \subseteq Requests

\* "Config hierarchy (later overrides earlier)": whatever the files, .env and
\* the environment say, each setting in force comes from the last that has it.
SettingsPrecedence ==
    settings # NULL => \A k \in Keys : settings[k] = InForce(source, k)

\* "API starts -> connects to Postgres -> applies migrations -> listens": told
\* to migrate, no process serves from a database whose schema is not current,
\* whatever processes died before it half way or migrated another database.
MigratedBeforeServing ==
    phase \in Up /\ InForce(source, "db.run_migrations_on_start") =>
        schema[InForce(source, "db.url")] = "current"

\* No connection leaks and nobody waits in vain: the connections in use are
\* those of statements being executed, no more than the pool has, and the
\* queue holds exactly the requests that wait.  So a request never waits
\* while it holds what another waits for.
PoolSound ==
    /\ held = {r \in Requests : stage[r] = "executing"}
    /\ settings # NULL => Cardinality(held) <= settings["db.max_connections"]
    /\ {queue[i] : i \in DOMAIN queue} = {r \in Requests : stage[r] = "waiting"}
    /\ \A i, j \in DOMAIN queue : queue[i] = queue[j] => i = j

\* Request r is waiting for somebody outside the process: for its client (to
\* send a head or a body, or to take an answer), for Google or for the database.
Outside(r) == stage[r] \in {"arriving", "client", "exchange", "executing"}

\* The service itself never holds a request up: one that never ends is, from
\* some moment on, waiting for its client, for Google or for the database.
OnlyOutsidersHoldUp == \A r \in Requests : <>[]InFlight(r) => <>[]Outside(r)

\* Draining ends unless a client, Google or the database keeps a request for
\* ever: requests that wait for each other's connections do not.
ShutdownCompletes == <>[](phase = "draining") => \E r \in Requests : <>[]Outside(r)

\* request_timeout_secs: a request ends.
RequestsTimeOut == \A r \in Requests : InFlight(r) ~> ~ InFlight(r)

=============================================================================
