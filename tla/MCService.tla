----------------------------- MODULE MCService ------------------------------
(* Service for TLC: the configuration files of the repository, with pools  *)
(* of one and two connections, and the ways the process is deployed.       *)
EXTENDS Service, TLC

Nothing == [k \in {} |-> 0]

\* config/*.toml; there is no development.toml.
Files ==
    [default     |-> "db.max_connections" :> 1 @@ "db.run_migrations_on_start" :> TRUE,
     development |-> Nothing,
     production  |-> "db.max_connections" :> 2 @@ "db.run_migrations_on_start" :> FALSE,
     test        |-> "db.max_connections" :> 1 @@ "db.run_migrations_on_start" :> TRUE
                     @@ "db.url" :> "test_db" @@ "auth.jwt_secret" :> "test_only"]

Secrets == "DATABASE_URL" :> "db" @@ "auth.jwt_secret" :> "secret"

\* docker-compose.yml overrides production.toml; the same without that; a local
\* run with everything in .env; APP_ENV=test with a variable of its own; and a
\* start outside the directory that holds config/.
MCSources ==
    {[files |-> Files, dotenv |-> Nothing,
      env |-> Secrets @@ "APP_ENV" :> "production" @@ "db.run_migrations_on_start" :> TRUE],
     [files |-> Files, dotenv |-> Secrets, env |-> "APP_ENV" :> "production"],
     [files |-> Files, dotenv |-> Secrets, env |-> "DATABASE_URL" :> "other_db"],
     [files |-> Files, dotenv |-> Nothing, env |-> "APP_ENV" :> "test" @@ "db.url" :> "other_db"],
     [files |-> [name \in DOMAIN Files |-> Nothing], dotenv |-> Secrets, env |-> Nothing]}

=============================================================================
