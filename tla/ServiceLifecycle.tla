-------------------------- MODULE ServiceLifecycle --------------------------
(***************************************************************************)
(* The life of backup-service processes that share one PostgreSQL, Redis   *)
(* and RabbitMQ: start-up with migrations, serving HTTP and gRPC, graceful *)
(* shutdown, and the orchestrator that restarts and kills them.  Every     *)
(* await of main is a step; time is kept as the age of each HTTP request   *)
(* and the time since each process was told to stop.                       *)
(*                                                                         *)
(* run_migrations prepares 001_create_backups.sql, a file of several       *)
(* commands, which PostgreSQL refuses: the service cannot migrate a        *)
(* database.  The integration tests do that, with sqlx::migrate!.          *)
(***************************************************************************)
EXTENDS Naturals

CONSTANTS
    Replicas,       \* backup-service processes
    Reqs,           \* HTTP requests and gRPC calls that can be in flight together
    RequestTimeout, \* the TimeoutLayer's 30 s
    Grace,          \* terminationGracePeriodSeconds of the Kubernetes pod, 30 s
    MaxFaults,      \* bound on crashes, signals, outages and failed steps
    Nil             \* no request, not told to stop

Deps == {"postgres", "redis", "rabbitmq"}

Migrating == {"pool", "select", "ddl"}
Boot      == Migrating \cup {"cache", "amqp", "spawn", "bind"}
Stopping  == {"draining", "grpc_stop"}

ASSUME LifecycleAssumption ==
    /\ RequestTimeout \in Nat \ {0} /\ Grace \in Nat /\ MaxFaults \in Nat
    /\ RequestTimeout <= Grace
    /\ Nil \notin Nat /\ Nil \notin [at : Replicas, kind : {"http", "grpc"}, age : Nat]

VARIABLES
    pc,             \* [Replicas -> where main is]
    grpc,           \* [Replicas -> state of the spawned gRPC server]
    cache,          \* [Replicas -> BOOLEAN]: CacheLayer has a connection manager
    amqp,           \* [Replicas -> BOOLEAN]: AppState has a channel that works
    db,             \* what the database has: no _sqlx_migrations ("none"), an empty one
                    \* with the columns of run_migrations ("service") or of sqlx
                    \* ("sqlx"), or 001 executed and recorded ("migrated")
    up,             \* [Deps -> BOOLEAN]: the dependency can be reached
    work,           \* [Reqs -> what is in flight, or Nil]
    told,           \* [Replicas -> time since SIGTERM, or Nil]
    faults          \* faults so far

procVars == <<pc, grpc, cache, amqp, told>>
vars     == <<procVars, db, up, work, faults>>

Work == [at : Replicas, kind : {"http", "grpc"}, age : 0..RequestTimeout]

TypeOK ==
    /\ pc \in [Replicas -> {"down"} \cup Boot \cup {"serving"} \cup Stopping]
    /\ grpc \in [Replicas -> {"off", "starting", "up", "failed"}]
    /\ cache \in [Replicas -> BOOLEAN] /\ amqp \in [Replicas -> BOOLEAN]
    /\ db \in {"none", "service", "sqlx", "migrated"}
    /\ up \in [Deps -> BOOLEAN]
    /\ work \in [Reqs -> Work \cup {Nil}]
    /\ told \in [Replicas -> 0..Grace \cup {Nil}]
    /\ faults \in 0..MaxFaults

\* The database is new, or was migrated before the service is deployed.
Init ==
    /\ pc = [p \in Replicas |-> "down"]
    /\ grpc = [p \in Replicas |-> "off"]
    /\ cache = [p \in Replicas |-> FALSE] /\ amqp = [p \in Replicas |-> FALSE]
    /\ db \in {"none", "migrated"}
    /\ up = [d \in Deps |-> TRUE]
    /\ work = [r \in Reqs |-> Nil]
    /\ told = [p \in Replicas |-> Nil]
    /\ faults = 0

Fault == faults < MaxFaults /\ faults' = faults + 1

InFlight(p, kind) == {r \in Reqs : work[r] # Nil /\ work[r].at = p /\ work[r].kind = kind}

Goto(p, stage) == pc' = [pc EXCEPT ![p] = stage]

\* The process is gone, with its connections and what it had in hand.
Exit(p) ==
    /\ Goto(p, "down")
    /\ grpc' = [grpc EXCEPT ![p] = "off"]
    /\ cache' = [cache EXCEPT ![p] = FALSE] /\ amqp' = [amqp EXCEPT ![p] = FALSE]
    /\ told' = [told EXCEPT ![p] = Nil]
    /\ work' = [r \in Reqs |-> IF work[r] # Nil /\ work[r].at = p THEN Nil ELSE work[r]]

-----------------------------------------------------------------------------
(* Start-up.                                                               *)

\* The orchestrator starts the container.
start(p) ==
    /\ pc[p] = "down"
    /\ Goto(p, "pool")
    /\ UNCHANGED <<grpc, cache, amqp, told, db, up, work, faults>>

create_pool(p) ==
    /\ pc[p] = "pool" /\ up["postgres"]
    /\ Goto(p, "select")
    /\ UNCHANGED <<grpc, cache, amqp, told, db, up, work, faults>>

\* CREATE TABLE IF NOT EXISTS _sqlx_migrations.
WithTable == IF db = "none" THEN "service" ELSE db

\* Mutant: the migration is always applied.
list_applied_Ignored(p) ==
    /\ pc[p] = "select" /\ up["postgres"]
    /\ db' = WithTable
    /\ Goto(p, "ddl")
    /\ UNCHANGED <<grpc, cache, amqp, told, up, work, faults>>

\* The table of migrations is created if it is not there, and read; what was
\* read decides, here.
list_applied(p) ==
    /\ pc[p] = "select" /\ up["postgres"]
    /\ db' = WithTable
    /\ Goto(p, IF db = "migrated" THEN "cache" ELSE "ddl")
    /\ UNCHANGED <<grpc, cache, amqp, told, up, work, faults>>

\* Mutant: the error is logged and start-up goes on.
apply_001_Logged(p) ==
    /\ pc[p] = "ddl" /\ up["postgres"]
    /\ Goto(p, "cache")
    /\ UNCHANGED <<grpc, cache, amqp, told, db, up, work, faults>>

\* sqlx::query prepares what it is given, and PostgreSQL refuses to prepare
\* several commands: the `?` ends the process before the INSERT of the record.
apply_001(p) ==
    /\ pc[p] = "ddl" /\ up["postgres"]
    /\ Exit(p)
    /\ UNCHANGED <<db, up, faults>>

\* `?` on the pool or on a statement: the database is away, or the connection
\* breaks, in which case the CREATE TABLE may have been executed all the same.
db_error(p) ==
    /\ pc[p] \in Migrating
    /\ \/ ~up["postgres"] /\ UNCHANGED <<db, faults>>
       \/ Fault /\ db' \in {db, IF pc[p] = "select" THEN WithTable ELSE db}
    /\ Exit(p)
    /\ UNCHANGED up

\* Someone runs sqlx::migrate!, as the integration tests do: it makes its own
\* table of migrations, then executes 001 and records it in one transaction.
\* In the table run_migrations has made it misses the column checksum, and errs.
sqlx_migrate ==
    /\ up["postgres"]
    /\ \/ db = "none" /\ db' = "sqlx"
       \/ db = "sqlx" /\ db' = "migrated"
    /\ UNCHANGED <<procVars, up, work, faults>>

\* Mutant: a Redis that cannot be reached is an error.
new_cache_Required(p) ==
    /\ pc[p] = "cache" /\ up["redis"]
    /\ cache' = [cache EXCEPT ![p] = TRUE]
    /\ Goto(p, "amqp")
    /\ UNCHANGED <<grpc, amqp, told, db, up, work, faults>>

\* Without Redis the cache is None for the life of the process.
new_cache(p) ==
    /\ pc[p] = "cache"
    /\ cache' = [cache EXCEPT ![p] = up["redis"]]
    /\ Goto(p, "amqp")
    /\ UNCHANGED <<grpc, amqp, told, db, up, work, faults>>

\* Without RabbitMQ there is no channel for the life of the process.
connect_rabbitmq(p) ==
    /\ pc[p] = "amqp"
    /\ amqp' = [amqp EXCEPT ![p] = up["rabbitmq"]]
    /\ Goto(p, "spawn")
    /\ UNCHANGED <<grpc, cache, told, db, up, work, faults>>

\* The tasks of the updater (see ApolloUpdater) and of the gRPC server start.
spawn(p) ==
    /\ pc[p] = "spawn"
    /\ grpc' = [grpc EXCEPT ![p] = "starting"]
    /\ Goto(p, "bind")
    /\ UNCHANGED <<cache, amqp, told, db, up, work, faults>>

\* serve_with_shutdown binds, or its error is logged and the task is over.
grpc_serves(p) ==
    /\ grpc[p] = "starting"
    /\ \/ grpc' = [grpc EXCEPT ![p] = "up"] /\ UNCHANGED faults
       \/ grpc' = [grpc EXCEPT ![p] = "failed"] /\ Fault
    /\ UNCHANGED <<pc, cache, amqp, told, db, up, work>>

bind_http(p) ==
    /\ pc[p] = "bind"
    /\ \/ Goto(p, "serving") /\ UNCHANGED <<grpc, cache, amqp, told, work, faults>>
       \/ Fault /\ Exit(p)
    /\ UNCHANGED <<db, up>>

-----------------------------------------------------------------------------
(* Serving.                                                                *)

Begin(p, r, kind) ==
    /\ work[r] = Nil
    /\ work' = [work EXCEPT ![r] = [at |-> p, kind |-> kind, age |-> 0]]
    /\ UNCHANGED <<procVars, db, up, faults>>

http_request(p, r) == pc[p] = "serving" /\ Begin(p, r, "http")

\* The server of the worker's calls accepts until main tells it to stop.
grpc_call(p, r) == grpc[p] = "up" /\ pc[p] # "grpc_stop" /\ Begin(p, r, "grpc")

\* The handler answers, or the TimeoutLayer does.
answer(r) ==
    /\ work[r] # Nil
    /\ work' = [work EXCEPT ![r] = Nil]
    /\ UNCHANGED <<procVars, db, up, faults>>

\* What GET /ready answers 200 to.  A connection manager reconnects by itself.
readiness(p) == pc[p] = "serving" /\ up["postgres"] /\ cache[p] /\ up["redis"]

-----------------------------------------------------------------------------
(* Shutdown.                                                               *)

\* SIGTERM.  The handler is installed when axum::serve begins: before, the
\* signal ends the process or, for PID 1 of a container, is ignored.
shutdown_signal(p) ==
    /\ Fault
    /\ pc[p] # "down" /\ told[p] = Nil
    /\ \/ /\ told' = [told EXCEPT ![p] = 0]
          /\ pc' = [pc EXCEPT ![p] = IF @ = "serving" THEN "draining" ELSE @]
          /\ UNCHANGED <<grpc, cache, amqp, work>>
       \/ pc[p] \in Boot /\ Exit(p)
    /\ UNCHANGED <<db, up>>

\* axum::serve returns when the last request is answered.
http_drained(p) ==
    /\ pc[p] = "draining" /\ InFlight(p, "http") = {}
    /\ Goto(p, "grpc_stop")
    /\ UNCHANGED <<grpc, cache, amqp, told, db, up, work, faults>>

\* Mutant: main does not wait for the gRPC server's task.
main_ends_NoAwait(p) ==
    /\ pc[p] = "grpc_stop"
    /\ Exit(p)
    /\ UNCHANGED <<db, up, faults>>

\* The gRPC server was told to stop and its calls are answered.
main_ends(p) ==
    /\ pc[p] = "grpc_stop" /\ InFlight(p, "grpc") = {}
    /\ Exit(p)
    /\ UNCHANGED <<db, up, faults>>

\* SIGKILL at the end of the grace period.
kill(p) ==
    /\ told[p] = Grace
    /\ Exit(p)
    /\ UNCHANGED <<db, up, faults>>

crash(p) ==
    /\ Fault
    /\ pc[p] # "down"
    /\ Exit(p)
    /\ UNCHANGED <<db, up>>

-----------------------------------------------------------------------------
(* Dependencies and time.                                                  *)

\* A broken AMQP connection is not opened again.
outage(d) ==
    /\ Fault
    /\ up[d]
    /\ up' = [up EXCEPT ![d] = FALSE]
    /\ amqp' = IF d = "rabbitmq" THEN [p \in Replicas |-> FALSE] ELSE amqp
    /\ UNCHANGED <<pc, grpc, cache, told, db, work>>

recover(d) ==
    /\ ~up[d]
    /\ up' = [up EXCEPT ![d] = TRUE]
    /\ UNCHANGED <<procVars, db, work, faults>>

Older(r) ==
    IF work[r] # Nil /\ work[r].kind = "http" THEN [work[r] EXCEPT !.age = @ + 1]
                                              ELSE work[r]

\* Mutant: no TimeoutLayer.
Tick_NoTimeout ==
    /\ \A p \in Replicas : told[p] # Grace
    /\ work' = [r \in Reqs |-> Older(r)]
    /\ told' = [p \in Replicas |-> IF told[p] = Nil THEN Nil ELSE told[p] + 1]
    /\ UNCHANGED <<pc, grpc, cache, amqp, db, up, faults>>

\* No HTTP request outlives the TimeoutLayer, no process its grace period.  A
\* gRPC call has no time limit.
Tick ==
    /\ \A r \in Reqs : work[r] # Nil => work[r].age < RequestTimeout
    /\ \A p \in Replicas : told[p] # Grace
    /\ work' = [r \in Reqs |-> Older(r)]
    /\ told' = [p \in Replicas |-> IF told[p] = Nil THEN Nil ELSE told[p] + 1]
    /\ UNCHANGED <<pc, grpc, cache, amqp, db, up, faults>>

-----------------------------------------------------------------------------
boot_step(p) ==
    \/ create_pool(p) \/ list_applied(p) \/ apply_001(p) \/ db_error(p)
    \/ new_cache(p) \/ connect_rabbitmq(p) \/ spawn(p) \/ bind_http(p)

stop_step(p) == http_drained(p) \/ main_ends(p) \/ kill(p)

Next ==
    \/ \E p \in Replicas :
        \/ start(p) \/ boot_step(p) \/ grpc_serves(p) \/ stop_step(p)
        \/ shutdown_signal(p) \/ crash(p)
        \/ \E r \in Reqs : http_request(p, r) \/ grpc_call(p, r)
    \/ \E r \in Reqs : answer(r)
    \/ \E d \in Deps : outage(d) \/ recover(d)
    \/ sqlx_migrate
    \/ Tick

Spec == Init /\ [][Next]_vars

\* The orchestrator starts what is down and kills what overstays, main goes on,
\* time passes and PostgreSQL comes back.  Nothing is assumed of clients,
\* faults, signals, Redis and RabbitMQ, and nobody has to run sqlx::migrate!.
FairSpec ==
    /\ Spec
    /\ \A p \in Replicas : WF_vars(start(p)) /\ WF_vars(boot_step(p)) /\ WF_vars(stop_step(p))
    /\ WF_vars(recover("postgres")) /\ WF_vars(Tick)

\* Redis and RabbitMQ come back as well.
FairDepsSpec == FairSpec /\ WF_vars(recover("redis")) /\ WF_vars(recover("rabbitmq"))

\* Someone does run sqlx::migrate!, and to its end.
FairMigrateSpec == FairSpec /\ WF_vars(sqlx_migrate)

-----------------------------------------------------------------------------
(* Properties.                                                             *)

\* A replica that answers requests or calls has the schema under it, whoever
\* migrates the database while replicas start, are refused, crash and come back
\* (run_migrations goes by the record, and its errors end the process).
ServesOnSchema ==
    \A p \in Replicas :
        pc[p] \in {"serving"} \cup Stopping \/ grpc[p] = "up" => db = "migrated"

\* A replica told to stop while it serves finishes what it has begun.  main
\* ends by itself only with nothing in flight; the SIGKILL after the grace
\* period finds no HTTP request that arrived before the signal (the TimeoutLayer
\* ends it first, at 30 s of 30 s), but it may find a gRPC call.
StopFinishesWork ==
    [][\A r \in Reqs :
        LET p == work[r].at IN
        work[r] # Nil /\ pc[p] \in Stopping /\ pc'[p] = "down" /\ faults' = faults =>
            /\ told[p] = Grace
            /\ work[r].kind = "http" => work[r].age = told[p]]_vars

\* On a migrated database a replica that is down serves in the end: victims of
\* faults, and replicas that looked before the migration was committed, are
\* started again, and neither Redis nor RabbitMQ has to be there for it.
ReplicasServe ==
    \A p \in Replicas : pc[p] = "down" /\ db = "migrated" ~> pc[p] = "serving"

\* db.rs:16 says "Run all pending SQL migrations from the migrations directory":
\* a replica that finds 001 pending gets it applied.  PostgreSQL refuses the
\* file every time, and the table made on the way keeps sqlx::migrate! out.
PendingMigrationsRun == \A p \in Replicas : pc[p] = "ddl" ~> db = "migrated"

\* crates/backup-service/README.md:33 promises "graceful degradation when Redis
\* is down": once Redis is back, a serving replica is ready again.  The cache
\* of a replica that started without Redis stays None and /ready answers 503
\* for ever, while /health keeps the process alive.
RedisOutageHeals ==
    \A p \in Replicas : pc[p] = "serving" ~> readiness(p) \/ pc[p] # "serving"
=============================================================================
