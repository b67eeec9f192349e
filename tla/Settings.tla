------------------------------ MODULE Settings ------------------------------
(***************************************************************************)
(* Settings::load of crates/api/src/config.rs, with the .env file that     *)
(* main reads before it.  A source of settings is a function from some     *)
(* keys to values; only the keys whose value changes what the service does *)
(* are named.  A variable APP__SECTION__KEY is named after its key.        *)
(***************************************************************************)
EXTENDS Naturals, Sequences

\* Keys that Settings has no default for, and the default of the other.
Required == {"db.url", "db.max_connections", "auth.jwt_secret"}
Optional == [k \in {"db.run_migrations_on_start"} |-> FALSE]

Keys == Required \cup DOMAIN Optional

\* A later source, and what it lacks from the earlier ones.
Over(later, earlier) ==
    [k \in DOMAIN later \cup DOMAIN earlier |-> IF k \in DOMAIN later THEN later[k] ELSE earlier[k]]

Restricted(f, S) == [k \in S \cap DOMAIN f |-> f[k]]

\* What a process finds when it starts is a record w: the files of config/ by
\* name (one that is missing is empty), the file .env and the environment.

\* dotenvy::dotenv sets only the variables that are not set.
variables(w) == Over(w.env, w.dotenv)

app_env(w) == IF "APP_ENV" \in DOMAIN variables(w) THEN variables(w)["APP_ENV"] ELSE "development"

\* builder.set_override("db.url", DATABASE_URL)
override(w) ==
    [k \in {k \in {"db.url"} : "DATABASE_URL" \in DOMAIN variables(w)} |->
        variables(w)["DATABASE_URL"]]

\* Mutant: the files are added after the environment.
builder_files_last(w) ==
    Over(override(w),
         Over(Over(w.files[app_env(w)], w.files["default"]), Restricted(variables(w), Keys)))

\* The sources that the builder merges.
builder(w) ==
    Over(override(w),
         Over(Restricted(variables(w), Keys), Over(w.files[app_env(w)], w.files["default"])))

\* try_deserialize fails when a key without a default is in no source.
loads(w) == Required \subseteq DOMAIN builder(w)

load(w) == Over(builder(w), Optional)

-----------------------------------------------------------------------------
(* The reference: "Config hierarchy (later overrides earlier)".            *)

Hierarchy(w) == <<Optional, w.files["default"], w.files[app_env(w)], variables(w), override(w)>>

\* The last source that has key k.
Latest(w, k) ==
    CHOOSE i \in 1..5 : /\ k \in DOMAIN Hierarchy(w)[i]
                        /\ \A j \in i+1..5 : k \notin DOMAIN Hierarchy(w)[j]

InForce(w, k) == Hierarchy(w)[Latest(w, k)][k]

=============================================================================
