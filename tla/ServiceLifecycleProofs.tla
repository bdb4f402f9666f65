----------------------- MODULE ServiceLifecycleProofs -----------------------
(***************************************************************************)
(* Theorems about ServiceLifecycle, for any sets of replicas and requests, *)
(* any number of faults and any times with RequestTimeout <= Grace.        *)
(***************************************************************************)
EXTENDS ServiceLifecycle, TLAPS

\* Past run_migrations.
Migrated == {"cache", "amqp", "spawn", "bind", "serving"} \cup Stopping

\* Who went on past run_migrations saw the record, and the gRPC server is
\* spawned after that.
SchemaInv ==
    \A p \in Replicas :
        /\ pc[p] \in Migrated => db = "migrated"
        /\ grpc[p] # "off" => pc[p] \in {"bind", "serving"} \cup Stopping

\* HTTP requests are in flight only until axum::serve returns, and while they
\* drain each is at least as old as the signal.
DrainInv ==
    \A p \in Replicas :
        /\ pc[p] \in Stopping => told[p] \in Nat
        /\ \A r \in Reqs :
            work[r] # Nil /\ work[r].at = p /\ work[r].kind = "http" =>
                /\ pc[p] \in {"serving", "draining"}
                /\ pc[p] = "draining" => work[r].age >= told[p]

Inv == TypeOK /\ SchemaInv /\ DrainInv

-----------------------------------------------------------------------------
(* Types.                                                                  *)

\* What Exit leaves behind is well typed.
LEMMA ExitType ==
    ASSUME TypeOK, NEW p \in Replicas, Exit(p)
    PROVE  /\ pc' \in [Replicas -> {"down"} \cup Boot \cup {"serving"} \cup Stopping]
           /\ grpc' \in [Replicas -> {"off", "starting", "up", "failed"}]
           /\ cache' \in [Replicas -> BOOLEAN] /\ amqp' \in [Replicas -> BOOLEAN]
           /\ told' \in [Replicas -> 0..Grace \cup {Nil}]
           /\ work' \in [Reqs -> Work \cup {Nil}]
BY DEF TypeOK, Exit, Goto, Boot, Migrating, Stopping

\* Exit forgets everything of its process and nothing else.
LEMMA ExitEffect ==
    ASSUME TypeOK, NEW p \in Replicas, Exit(p)
    PROVE  /\ pc'[p] = "down" /\ grpc'[p] = "off"
           /\ \A q \in Replicas : q # p =>
                pc'[q] = pc[q] /\ grpc'[q] = grpc[q] /\ told'[q] = told[q]
           /\ \A r \in Reqs : work'[r] # Nil => work'[r] = work[r] /\ work[r].at # p
BY DEF TypeOK, Exit, Goto

\* The steps that move a process on.
LEMMA StartType ==
    ASSUME TypeOK, NEW p \in Replicas,
           start(p) \/ create_pool(p) \/ list_applied(p) \/ new_cache(p)
             \/ connect_rabbitmq(p) \/ spawn(p) \/ grpc_serves(p) \/ http_drained(p)
    PROVE  TypeOK'
<1>1. CASE start(p) BY <1>1 DEF TypeOK, start, Goto, Boot, Migrating
<1>2. CASE create_pool(p) BY <1>2 DEF TypeOK, create_pool, Goto, Boot, Migrating
<1>3. CASE list_applied(p)
    BY <1>3 DEF TypeOK, list_applied, WithTable, Goto, Boot, Migrating
<1>4. CASE new_cache(p) BY <1>4 DEF TypeOK, new_cache, Goto, Deps, Boot
<1>5. CASE connect_rabbitmq(p) BY <1>5 DEF TypeOK, connect_rabbitmq, Goto, Deps, Boot
<1>6. CASE spawn(p) BY <1>6 DEF TypeOK, spawn, Goto, Boot
<1>7. CASE grpc_serves(p) BY <1>7, LifecycleAssumption DEF TypeOK, grpc_serves, Fault
<1>8. CASE http_drained(p) BY <1>8 DEF TypeOK, http_drained, Goto, Stopping
<1> QED BY <1>1, <1>2, <1>3, <1>4, <1>5, <1>6, <1>7, <1>8

\* The steps that may end a process.
LEMMA EndType ==
    ASSUME TypeOK, NEW p \in Replicas,
           apply_001(p) \/ db_error(p) \/ bind_http(p) \/ shutdown_signal(p)
             \/ main_ends(p) \/ kill(p) \/ crash(p)
    PROVE  TypeOK'
<1>1. CASE apply_001(p)
    BY <1>1, ExitType DEF TypeOK, apply_001
<1>2. CASE db_error(p)
    BY <1>2, ExitType, LifecycleAssumption DEF TypeOK, db_error, WithTable, Fault
<1>3. CASE bind_http(p)
    BY <1>3, ExitType, LifecycleAssumption DEF TypeOK, bind_http, Goto, Fault
<1>4. CASE shutdown_signal(p)
    BY <1>4, ExitType, LifecycleAssumption DEF TypeOK, shutdown_signal, Fault, Stopping
<1>5. CASE main_ends(p)
    BY <1>5, ExitType DEF TypeOK, main_ends
<1>6. CASE kill(p)
    BY <1>6, ExitType DEF TypeOK, kill
<1>7. CASE crash(p)
    BY <1>7, ExitType, LifecycleAssumption DEF TypeOK, crash, Fault
<1> QED BY <1>1, <1>2, <1>3, <1>4, <1>5, <1>6, <1>7

\* A request in flight grows older within the TimeoutLayer's limit.
LEMMA OlderType ==
    ASSUME TypeOK, Tick, NEW r \in Reqs
    PROVE  Older(r) \in Work \cup {Nil}
BY LifecycleAssumption DEF TypeOK, Tick, Older, Work

\* The other steps.
LEMMA WorldType ==
    ASSUME TypeOK,
           \/ \E p \in Replicas, r \in Reqs : http_request(p, r) \/ grpc_call(p, r)
           \/ \E r \in Reqs : answer(r)
           \/ \E d \in Deps : outage(d) \/ recover(d)
           \/ sqlx_migrate \/ Tick
    PROVE  TypeOK'
<1>1. ASSUME NEW p \in Replicas, NEW r \in Reqs, http_request(p, r) \/ grpc_call(p, r)
      PROVE  TypeOK'
    <2>1. [at |-> p, kind |-> "http", age |-> 0] \in Work /\ [at |-> p, kind |-> "grpc", age |-> 0] \in Work
        BY LifecycleAssumption DEF Work
    <2> QED BY <1>1, <2>1 DEF TypeOK, http_request, grpc_call, Begin, procVars
<1>2. ASSUME NEW r \in Reqs, answer(r) PROVE TypeOK'
    BY <1>2 DEF TypeOK, answer, procVars
<1>3. ASSUME NEW d \in Deps, outage(d) PROVE TypeOK'
    BY <1>3, LifecycleAssumption DEF TypeOK, outage, Fault
<1>4. ASSUME NEW d \in Deps, recover(d) PROVE TypeOK'
    BY <1>4 DEF TypeOK, recover, procVars
<1>5. CASE Tick
    <2>1. work' \in [Reqs -> Work \cup {Nil}]
        BY <1>5, OlderType DEF Tick
    <2>2. told' \in [Replicas -> 0..Grace \cup {Nil}]
        BY <1>5, LifecycleAssumption DEF TypeOK, Tick
    <2> QED BY <1>5, <2>1, <2>2 DEF TypeOK, Tick
<1>6. CASE sqlx_migrate
    BY <1>6 DEF TypeOK, sqlx_migrate, procVars
<1> QED BY <1>1, <1>2, <1>3, <1>4, <1>5, <1>6

\* TypeOK is inductive.
LEMMA TypeStep == TypeOK /\ [Next]_vars => TypeOK'
<1> SUFFICES ASSUME TypeOK, [Next]_vars PROVE TypeOK'
    OBVIOUS
<1>1. CASE UNCHANGED vars
    BY <1>1 DEF TypeOK, vars, procVars
<1>2. CASE Next
    BY <1>2, StartType, EndType, WorldType DEF Next, boot_step, stop_step
<1> QED BY <1>1, <1>2

-----------------------------------------------------------------------------
(* Migrations.                                                             *)

\* The end of a process keeps what the others rely on.
LEMMA ExitSchema ==
    ASSUME TypeOK, SchemaInv, NEW p \in Replicas, Exit(p), db = "migrated" => db' = "migrated"
    PROVE  SchemaInv'
BY ExitEffect DEF SchemaInv, Migrated, Stopping

\* Steps of run_migrations.
LEMMA MigrationSchema ==
    ASSUME TypeOK, SchemaInv, NEW p \in Replicas,
           start(p) \/ create_pool(p) \/ list_applied(p) \/ apply_001(p) \/ db_error(p)
    PROVE  SchemaInv'
<1> USE DEF Migrated, Stopping
<1>1. CASE start(p) BY <1>1 DEF TypeOK, SchemaInv, start, Goto
<1>2. CASE create_pool(p) BY <1>2 DEF TypeOK, SchemaInv, create_pool, Goto
<1>3. CASE list_applied(p) BY <1>3 DEF TypeOK, SchemaInv, list_applied, WithTable, Goto
<1>4. CASE apply_001(p) BY <1>4, ExitSchema DEF apply_001
<1>5. CASE db_error(p)
    <2>1. db = "migrated" => db' = "migrated"
        BY <1>5 DEF db_error, WithTable
    <2> QED BY <1>5, <2>1, ExitSchema DEF db_error
<1> QED BY <1>1, <1>2, <1>3, <1>4, <1>5

\* The other steps of a process leave the database alone.
LEMMA ProcessSchema ==
    ASSUME TypeOK, SchemaInv, NEW p \in Replicas,
           new_cache(p) \/ connect_rabbitmq(p) \/ spawn(p) \/ grpc_serves(p) \/ bind_http(p)
             \/ shutdown_signal(p) \/ stop_step(p) \/ crash(p)
    PROVE  SchemaInv'
<1> USE DEF Migrated, Stopping
<1>1. CASE new_cache(p) BY <1>1 DEF TypeOK, SchemaInv, new_cache, Goto
<1>2. CASE connect_rabbitmq(p) BY <1>2 DEF TypeOK, SchemaInv, connect_rabbitmq, Goto
<1>3. CASE spawn(p) BY <1>3 DEF TypeOK, SchemaInv, spawn, Goto
<1>4. CASE grpc_serves(p) BY <1>4 DEF TypeOK, SchemaInv, grpc_serves
<1>5. CASE http_drained(p) BY <1>5 DEF TypeOK, SchemaInv, http_drained, Goto
<1>6. CASE bind_http(p) /\ ~Exit(p) BY <1>6 DEF TypeOK, SchemaInv, bind_http, Goto
<1>7. CASE shutdown_signal(p) /\ ~Exit(p)
    BY <1>7 DEF TypeOK, SchemaInv, shutdown_signal
<1>8. CASE Exit(p) /\ UNCHANGED db
    BY <1>8, ExitSchema
<1> QED
    BY <1>1, <1>2, <1>3, <1>4, <1>5, <1>6, <1>7, <1>8
    DEF stop_step, main_ends, kill, crash, bind_http, shutdown_signal

\* SchemaInv is inductive relative to TypeOK.
LEMMA SchemaStep == TypeOK /\ SchemaInv /\ [Next]_vars => SchemaInv'
<1> SUFFICES ASSUME TypeOK, SchemaInv, [Next]_vars PROVE SchemaInv'
    OBVIOUS
<1>1. CASE UNCHANGED <<pc, grpc>> /\ (db = "migrated" => db' = "migrated")
    BY <1>1 DEF SchemaInv
<1>2. CASE \E p \in Replicas : start(p) \/ boot_step(p) \/ grpc_serves(p) \/ stop_step(p)
                                   \/ shutdown_signal(p) \/ crash(p)
    BY <1>2, MigrationSchema, ProcessSchema DEF boot_step
<1>3. CASE \/ \E p \in Replicas, r \in Reqs : http_request(p, r) \/ grpc_call(p, r)
           \/ \E r \in Reqs : answer(r)
           \/ \E d \in Deps : outage(d) \/ recover(d)
           \/ sqlx_migrate \/ Tick \/ UNCHANGED vars
    BY <1>1, <1>3
    DEF http_request, grpc_call, Begin, answer, outage, recover, sqlx_migrate, Tick, vars, procVars
<1> QED BY <1>2, <1>3 DEF Next

-----------------------------------------------------------------------------
(* Shutdown.                                                               *)

\* The end of a process takes its requests with it.
LEMMA ExitDrain ==
    ASSUME TypeOK, DrainInv, NEW p \in Replicas, Exit(p)
    PROVE  DrainInv'
BY ExitEffect DEF TypeOK, DrainInv, Work, Stopping

\* Steps of start-up never have HTTP requests behind them.
LEMMA BootDrain ==
    ASSUME TypeOK, DrainInv, NEW p \in Replicas,
           start(p) \/ boot_step(p) \/ grpc_serves(p)
    PROVE  DrainInv'
<1> USE DEF TypeOK, DrainInv, Work, Stopping
<1>1. CASE Exit(p)
    BY <1>1, ExitDrain
<1>2. CASE start(p) BY <1>2 DEF start, Goto
<1>3. CASE create_pool(p) BY <1>3 DEF create_pool, Goto
<1>4. CASE list_applied(p) BY <1>4 DEF list_applied, Goto
<1>5. CASE apply_001(p) BY <1>1, <1>5 DEF apply_001
<1>6. CASE db_error(p) BY <1>1, <1>6 DEF db_error
<1>7. CASE new_cache(p) BY <1>7 DEF new_cache, Goto
<1>8. CASE connect_rabbitmq(p) BY <1>8 DEF connect_rabbitmq, Goto
<1>9. CASE spawn(p) BY <1>9 DEF spawn, Goto
<1>10. CASE grpc_serves(p) BY <1>10 DEF grpc_serves
<1>11. CASE bind_http(p) BY <1>1, <1>11 DEF bind_http, Goto
<1> QED
    BY <1>2, <1>3, <1>4, <1>5, <1>6, <1>7, <1>8, <1>9, <1>10, <1>11 DEF boot_step

\* Steps of shutdown.
LEMMA StopDrain ==
    ASSUME TypeOK, DrainInv, NEW p \in Replicas,
           shutdown_signal(p) \/ stop_step(p) \/ crash(p)
    PROVE  DrainInv'
<1>1. CASE Exit(p)
    BY <1>1, ExitDrain
<1>2. CASE shutdown_signal(p) /\ ~Exit(p)
    <2>1. /\ told[p] = Nil /\ told' = [told EXCEPT ![p] = 0]
          /\ pc' = [pc EXCEPT ![p] = IF @ = "serving" THEN "draining" ELSE @]
          /\ work' = work
        BY <1>2 DEF shutdown_signal
    <2> QED BY <2>1, LifecycleAssumption DEF TypeOK, DrainInv, Work, Stopping
<1>3. CASE http_drained(p)
    BY <1>3 DEF TypeOK, DrainInv, Work, Stopping, http_drained, InFlight, Goto
<1> QED BY <1>1, <1>2, <1>3 DEF stop_step, main_ends, kill, crash

\* Requests come and go, and time makes them and the signal equally older.
LEMMA WorkDrain ==
    ASSUME TypeOK, DrainInv,
           \/ \E p \in Replicas, r \in Reqs : http_request(p, r) \/ grpc_call(p, r)
           \/ \E r \in Reqs : answer(r)
           \/ Tick
    PROVE  DrainInv'
<1>1. ASSUME NEW p \in Replicas, NEW r \in Reqs, http_request(p, r) \/ grpc_call(p, r)
      PROVE  DrainInv'
    BY <1>1 DEF TypeOK, DrainInv, Work, http_request, grpc_call, Begin, procVars
<1>2. ASSUME NEW r \in Reqs, answer(r) PROVE DrainInv'
    BY <1>2 DEF TypeOK, DrainInv, answer, procVars
<1>3. CASE Tick
    <2> SUFFICES ASSUME NEW p \in Replicas
                 PROVE  /\ pc'[p] \in Stopping => told'[p] \in Nat
                        /\ \A r \in Reqs :
                            work'[r] # Nil /\ work'[r].at = p /\ work'[r].kind = "http" =>
                                /\ pc'[p] \in {"serving", "draining"}
                                /\ pc'[p] = "draining" => work'[r].age >= told'[p]
        BY DEF DrainInv
    <2>1. pc' = pc /\ (told[p] \in Nat => told'[p] = told[p] + 1)
        BY <1>3, LifecycleAssumption DEF Tick
    <2>2. ASSUME NEW r \in Reqs, work'[r] # Nil, work'[r].at = p, work'[r].kind = "http"
          PROVE  /\ work[r] # Nil /\ work[r].at = p /\ work[r].kind = "http"
                 /\ work'[r].age = work[r].age + 1 /\ work[r].age \in Nat
        BY <1>3, <2>2, LifecycleAssumption DEF Tick, Older, TypeOK, Work
    <2>3. pc[p] = "draining" => told[p] \in Nat
        BY DEF DrainInv, Stopping
    <2> QED BY <2>1, <2>2, <2>3 DEF DrainInv
<1> QED BY <1>1, <1>2, <1>3

\* DrainInv is inductive relative to TypeOK.
LEMMA DrainStep == TypeOK /\ DrainInv /\ [Next]_vars => DrainInv'
<1> SUFFICES ASSUME TypeOK, DrainInv, [Next]_vars PROVE DrainInv'
    OBVIOUS
<1>1. CASE UNCHANGED <<pc, told, work>>
    BY <1>1 DEF DrainInv
<1>2. CASE \/ \E d \in Deps : outage(d) \/ recover(d)
           \/ sqlx_migrate \/ UNCHANGED vars
    BY <1>1, <1>2 DEF outage, recover, sqlx_migrate, vars, procVars
<1> QED BY <1>2, BootDrain, StopDrain, WorkDrain DEF Next

-----------------------------------------------------------------------------
(* Theorems.                                                               *)

\* The invariant holds in every reachable state.
LEMMA Invariance == Spec => []Inv
<1>1. Init => Inv
    <2> SUFFICES ASSUME Init PROVE Inv
        OBVIOUS
    <2>1. TypeOK
        BY LifecycleAssumption DEF Init, TypeOK, Deps
    <2>2. SchemaInv
        BY DEF Init, SchemaInv, Migrated, Stopping
    <2>3. DrainInv
        BY DEF Init, DrainInv, Stopping
    <2> QED BY <2>1, <2>2, <2>3 DEF Inv
<1>2. Inv /\ [Next]_vars => Inv'
    BY TypeStep, SchemaStep, DrainStep DEF Inv
<1> QED BY <1>1, <1>2, PTL DEF Spec

\* The state of all replicas stays well typed: in particular no HTTP request
\* outlives the TimeoutLayer and no process its grace period.
THEOREM LifecycleTypeCorrect == Spec => []TypeOK
<1>1. Inv => TypeOK
    BY DEF Inv
<1> QED BY <1>1, Invariance, PTL

\* No replica serves HTTP or gRPC without the schema, for any number of
\* replicas that run run_migrations at once, before, during or after someone
\* else migrates the database, and any crashes among them.
THEOREM SchemaBeforeService == Spec => []ServesOnSchema
<1>1. Inv => ServesOnSchema
    BY DEF Inv, SchemaInv, ServesOnSchema, Migrated, Stopping
<1> QED BY <1>1, Invariance, PTL

\* A graceful shutdown cuts off no HTTP request that arrived before the signal,
\* and no gRPC call unless the grace period is over.
THEOREM GracefulStop == Spec => StopFinishesWork
<1> DEFINE Finishes(r) ==
        LET p == work[r].at IN
        work[r] # Nil /\ pc[p] \in Stopping /\ pc'[p] = "down" /\ faults' = faults =>
            /\ told[p] = Grace
            /\ work[r].kind = "http" => work[r].age = told[p]
<1>1. Inv /\ [Next]_vars => [\A r \in Reqs : Finishes(r)]_vars
    <2> SUFFICES ASSUME Inv, Next, NEW r \in Reqs, work[r] # Nil, NEW p \in Replicas,
                        p = work[r].at, pc[p] \in Stopping, pc'[p] = "down", faults' = faults
                 PROVE  told[p] = Grace /\ (work[r].kind = "http" => work[r].age = told[p])
        BY DEF Inv, TypeOK, Work
    <2>1. main_ends(p) \/ kill(p)
        <3>1. faults' # faults + 1
            BY DEF Inv, TypeOK
        <3>2. ~(\E q \in Replicas : shutdown_signal(q) \/ crash(q))
            BY <3>1 DEF shutdown_signal, crash, Fault
        <3>3. ~(\/ \E q \in Replicas, x \in Reqs : http_request(q, x) \/ grpc_call(q, x)
                \/ \E x \in Reqs : answer(x)
                \/ \E d \in Deps : outage(d) \/ recover(d)
                \/ sqlx_migrate \/ Tick)
            BY DEF Stopping, http_request, grpc_call, Begin, answer, outage, recover, sqlx_migrate,
                   Tick, procVars
        <3>4. PICK q \in Replicas : start(q) \/ boot_step(q) \/ grpc_serves(q) \/ stop_step(q)
            BY <3>2, <3>3 DEF Next
        <3>5. q = p
            BY <3>4, ExitEffect
            DEF Inv, TypeOK, Stopping, start, boot_step, create_pool, list_applied, apply_001,
                db_error, new_cache, connect_rabbitmq, spawn, grpc_serves, bind_http,
                stop_step, http_drained, main_ends, kill, Goto
        <3> QED
            BY <3>4, <3>5
            DEF Inv, TypeOK, Stopping, Migrating, start, boot_step, create_pool, list_applied,
                apply_001, db_error, new_cache, connect_rabbitmq, spawn, grpc_serves,
                bind_http, stop_step, http_drained, Goto
    <2>2. ~main_ends(p) \/ work[r].kind = "http"
        BY DEF Inv, TypeOK, Work, main_ends, InFlight
    <2>3. work[r].kind = "http" => pc[p] = "draining" /\ work[r].age >= told[p] /\ told[p] \in Nat
        BY DEF Inv, DrainInv, Stopping
    <2>4. kill(p)
        BY <2>1, <2>2, <2>3 DEF main_ends
    <2> QED BY <2>3, <2>4, LifecycleAssumption DEF Inv, TypeOK, Work, kill
<1> QED BY <1>1, Invariance, PTL DEF Spec, StopFinishesWork
=============================================================================
