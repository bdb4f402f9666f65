----------------------------- MODULE BackupCache -----------------------------
(***************************************************************************)
(* The cache-aside use of Redis by the REST handlers of backup-service.    *)
(* A request is a process that is interleaved with the others, and may be  *)
(* dropped, at every await: its steps are its Redis and SQL commands.  A   *)
(* row is abstracted to a version number that each write increases, and a  *)
(* value that was read carries the time of its SELECT in `at' (history).   *)
(***************************************************************************)
EXTENDS Naturals, FiniteSets

CONSTANTS
    Ids,            \* backup ids
    Tenants,        \* tenants
    Reqs,           \* requests that can be in flight together
    InitConf,       \* cache settings the service starts with: ttl, limit, offset
    Updates,        \* partial settings Apollo may serve; Nil marks a missing field
    MaxTtl,         \* the largest cache_ttl_secs ever configured
    Limits,         \* limits clients ask for, after clamp(1, 100)
    Offsets,        \* offsets clients ask for, after max(0)
    Filtered,       \* whether clients ask with a status filter: a set of Booleans
    RequestTimeout, \* the TimeoutLayer's 30 s
    Faulty,         \* Redis commands may fail and requests may be dropped
    Grpc,           \* the worker's gRPC calls write rows
    MaxVersion,     \* bound on the versions of a row
    MaxTime,        \* bound on the clock
    Nil             \* no owner, no entry, no answer, no field

Settings == {"ttl", "limit", "offset"}

ASSUME CacheAssumption ==
    /\ Ids \cap Tenants = {} /\ Nil \notin Ids \cup Tenants \cup Nat
    /\ IsFiniteSet(Ids)
    /\ InitConf \in [Settings -> Nat]
    /\ Updates \subseteq [Settings -> Nat \cup {Nil}]
    /\ InitConf.ttl <= MaxTtl
    /\ \A u \in Updates : u.ttl # Nil => u.ttl <= MaxTtl
    /\ Limits \subseteq Nat \ {0} /\ Offsets \subseteq Nat
    /\ Filtered \subseteq BOOLEAN
    /\ MaxTtl \in Nat /\ RequestTimeout \in Nat /\ MaxVersion \in Nat \ {0} /\ MaxTime \in Nat
    /\ Faulty \in BOOLEAN /\ Grpc \in BOOLEAN

VARIABLES
    db,             \* [Ids -> version]: 0 when there is no row
    owner,          \* [Ids -> tenant_id of the row], Nil before it is created
    older,          \* [Ids -> the rows created before it]: the order of created_at
    redis,          \* the connection manager exists: settled when the service boots
    cache,          \* Redis: payload and expiry time of each key
    conf,           \* the cache settings in AppConfig
    req,            \* the requests in flight
    resp,           \* the answer given by the last step, Nil if it gave none
    now             \* the clock, in ticks

vars == <<db, owner, older, redis, cache, conf, req, resp, now>>
dbVars == <<db, owner, older>>

\* Keys "backup:{id}" and "tenant_backups:{tenant_id}".
Keys     == Ids \cup Tenants
Item     == [id : Ids, ver : 1..MaxVersion, at : 0..MaxTime]
Payload  == [items : SUBSET Item, total : 0..Cardinality(Ids)]
Entry    == [data : Payload, exp : Nat]
Steps    == {"get_select", "get_fill", "list_cached", "list_items", "list_count",
             "list_fill", "del_backup", "del_list"}
Request  == [pc : Steps,
             who : Tenants, id : Ids \cup {Nil}, limit : Limits \cup {0},
             offset : Offsets \cup {0}, filtered : BOOLEAN, use : BOOLEAN,
             since : 0..MaxTime, got : Payload]
Response == [to : Tenants, limit : Limits \cup {0}, data : Payload]

Idle    == [pc |-> "idle"]
Nothing == [items |-> {}, total |-> 0]

TypeOK ==
    /\ db \in [Ids -> 0..MaxVersion]
    /\ owner \in [Ids -> Tenants \cup {Nil}]
    /\ older \in [Ids -> SUBSET Ids]
    /\ redis \in BOOLEAN
    /\ cache \in [Keys -> Entry \cup {Nil}]
    /\ conf \in [Settings -> Nat]
    /\ req \in [Reqs -> Request \cup {Idle}]
    /\ resp \in Response \cup {Nil}
    /\ now \in 0..MaxTime

Init ==
    /\ db = [i \in Ids |-> 0]
    /\ owner = [i \in Ids |-> Nil]
    /\ older = [i \in Ids |-> {}]
    /\ redis \in BOOLEAN
    /\ cache = [k \in Keys |-> Nil]
    /\ conf = InitConf
    /\ req = [r \in Reqs |-> Idle]
    /\ resp = Nil
    /\ now = 0

-----------------------------------------------------------------------------
(* CacheLayer.  A failed command is ignored by every caller.               *)

\* GET finds the payload, or the caller sees None.
hit(k)  == redis /\ cache[k] # Nil
miss(k) == ~hit(k) \/ Faulty

\* Mutant: SET without an expiry.
set_ex_NoExpiry(k, p) ==
    \/ /\ redis
       /\ cache' = [cache EXCEPT ![k] = [data |-> p, exp |-> MaxTime + 1]]
    \/ (~redis \/ Faulty) /\ UNCHANGED cache

\* SETEX with the TTL of the moment; Redis refuses an expiry of 0.
set_ex(k, p) ==
    \/ /\ redis /\ conf.ttl > 0
       /\ cache' = [cache EXCEPT ![k] = [data |-> p, exp |-> now + conf.ttl]]
    \/ /\ ~redis \/ conf.ttl = 0 \/ Faulty
       /\ UNCHANGED cache

del(k) ==
    \/ redis /\ cache' = [cache EXCEPT ![k] = Nil]
    \/ (~redis \/ Faulty) /\ UNCHANGED cache

-----------------------------------------------------------------------------
(* SQL.                                                                    *)

\* WHERE id = i AND tenant_id = t finds a row.
Visible(t, i) == db[i] > 0 /\ owner[i] = t

Row(i) == [id |-> i, ver |-> db[i], at |-> now]

One(i) == [items |-> {Row(i)}, total |-> 1]

\* The rows of tenant t that are in S.
Rows(t, S) == {i \in S : Visible(t, i)}

\* ORDER BY created_at DESC with LIMIT and OFFSET: the rows that have at least
\* `offset' and fewer than `offset + limit' newer ones.
Page(rows, limit, offset) ==
    {i \in rows : LET newer == {j \in rows : i \in older[j]}
                  IN  offset <= Cardinality(newer) /\ Cardinality(newer) < offset + limit}

-----------------------------------------------------------------------------
(* Requests.                                                               *)

New(pc, t, i) ==
    [pc |-> pc, who |-> t, id |-> i, limit |-> 0, offset |-> 0,
     filtered |-> FALSE, use |-> FALSE, since |-> now, got |-> Nothing]

\* The handler returns.  The row a write answers with is left out: it comes
\* from the statement's RETURNING, never from the cache.
Answer(r, t, limit, p) ==
    /\ req' = [req EXCEPT ![r] = Idle]
    /\ resp' = [to |-> t, limit |-> limit, data |-> p]

Goto(r, pc, p) ==
    /\ req' = [req EXCEPT ![r].pc = pc, ![r].got = p]
    /\ resp' = Nil

\* Mutant: a hit is returned whoever asks.
get_backup_AnyTenant(r, t, i) ==
    /\ req[r] = Idle
    /\ \/ hit(i) /\ Answer(r, t, 0, cache[i].data)
       \/ /\ miss(i)
          /\ req' = [req EXCEPT ![r] = New("get_select", t, i)]
          /\ resp' = Nil
    /\ UNCHANGED <<dbVars, redis, cache, conf, now>>

\* GET /backups/{id}: the cached row is used only if it is the tenant's.
get_backup(r, t, i) ==
    /\ req[r] = Idle
    /\ \/ hit(i) /\ owner[i] = t /\ Answer(r, t, 0, cache[i].data)
       \/ /\ miss(i) \/ owner[i] # t
          /\ req' = [req EXCEPT ![r] = New("get_select", t, i)]
          /\ resp' = Nil
    /\ UNCHANGED <<dbVars, redis, cache, conf, now>>

\* Mutant: the empty result of the SELECT is cached as if it were a row.
get_select_CachesNone(r) ==
    /\ req[r].pc = "get_select"
    /\ LET i == req[r].id IN
        IF Visible(req[r].who, i)
        THEN Goto(r, "get_fill", One(i))
        ELSE Goto(r, "get_fill", [items |-> {[Row(i) EXCEPT !.ver = 0]}, total |-> 0])
    /\ UNCHANGED <<dbVars, redis, cache, conf, now>>

get_select(r) ==
    /\ req[r].pc = "get_select"
    /\ LET i == req[r].id IN
        IF Visible(req[r].who, i) THEN Goto(r, "get_fill", One(i))
                                  ELSE Answer(r, req[r].who, 0, Nothing)
    /\ UNCHANGED <<dbVars, redis, cache, conf, now>>

get_fill(r) ==
    /\ req[r].pc = "get_fill"
    /\ set_ex(req[r].id, req[r].got)
    /\ Answer(r, req[r].who, 0, req[r].got)
    /\ UNCHANGED <<dbVars, redis, conf, now>>

\* GET /backups: whether the cached page serves is decided once, here.
list_backups(r, t, limit, offset, filtered) ==
    /\ req[r] = Idle
    /\ LET use == ~filtered /\ offset = conf.offset /\ limit = conf.limit IN
       req' = [req EXCEPT ![r] =
                [New(IF use THEN "list_cached" ELSE "list_items", t, Nil)
                    EXCEPT !.limit = limit, !.offset = offset,
                           !.filtered = filtered, !.use = use]]
    /\ resp' = Nil
    /\ UNCHANGED <<dbVars, redis, cache, conf, now>>

list_cached(r) ==
    /\ req[r].pc = "list_cached"
    /\ \/ hit(req[r].who) /\ Answer(r, req[r].who, req[r].limit, cache[req[r].who].data)
       \/ miss(req[r].who) /\ Goto(r, "list_items", Nothing)
    /\ UNCHANGED <<dbVars, redis, cache, conf, now>>

\* A status filter lets through any subset of the rows.
Filters(r) == IF req[r].filtered THEN SUBSET Ids ELSE {Ids}

list_items(r) ==
    /\ req[r].pc = "list_items"
    /\ \E S \in Filters(r) :
        LET page == Page(Rows(req[r].who, S), req[r].limit, req[r].offset) IN
        Goto(r, "list_count",
             [items |-> {Row(i) : i \in page}, total |-> 0])
    /\ UNCHANGED <<dbVars, redis, cache, conf, now>>

\* A second statement, outside any transaction.
list_count(r) ==
    /\ req[r].pc = "list_count"
    /\ \E S \in Filters(r) :
        LET p == [req[r].got EXCEPT !.total = Cardinality(Rows(req[r].who, S))] IN
        IF req[r].use THEN Goto(r, "list_fill", p)
                      ELSE Answer(r, req[r].who, req[r].limit, p)
    /\ UNCHANGED <<dbVars, redis, cache, conf, now>>

list_fill(r) ==
    /\ req[r].pc = "list_fill"
    /\ set_ex(req[r].who, req[r].got)
    /\ Answer(r, req[r].who, req[r].limit, req[r].got)
    /\ UNCHANGED <<dbVars, redis, conf, now>>

create_backup(r, t, i) ==
    /\ req[r] = Idle /\ owner[i] = Nil
    /\ db' = [db EXCEPT ![i] = 1]
    /\ owner' = [owner EXCEPT ![i] = t]
    /\ older' = [older EXCEPT ![i] = {j \in Ids : owner[j] # Nil}]
    /\ req' = [req EXCEPT ![r] = New("del_list", t, i)]
    /\ resp' = Nil
    /\ UNCHANGED <<redis, cache, conf, now>>

\* UPDATE or DELETE of a row the tenant does not have: 404, nothing invalidated.
not_found(r, t, i) ==
    /\ req[r] = Idle /\ ~Visible(t, i)
    /\ Answer(r, t, 0, Nothing)
    /\ UNCHANGED <<dbVars, redis, cache, conf, now>>

update_backup(r, t, i) ==
    /\ req[r] = Idle /\ Visible(t, i) /\ db[i] < MaxVersion
    /\ db' = [db EXCEPT ![i] = @ + 1]
    /\ req' = [req EXCEPT ![r] = New("del_backup", t, i)]
    /\ resp' = Nil
    /\ UNCHANGED <<owner, older, redis, cache, conf, now>>

delete_backup(r, t, i) ==
    /\ req[r] = Idle /\ Visible(t, i)
    /\ db' = [db EXCEPT ![i] = 0]
    /\ req' = [req EXCEPT ![r] = New("del_backup", t, i)]
    /\ resp' = Nil
    /\ UNCHANGED <<owner, older, redis, cache, conf, now>>

invalidate_backup(r) ==
    /\ req[r].pc = "del_backup"
    /\ del(req[r].id)
    /\ Goto(r, "del_list", Nothing)
    /\ UNCHANGED <<dbVars, redis, conf, now>>

invalidate_tenant_backups(r) ==
    /\ req[r].pc = "del_list"
    /\ del(req[r].who)
    /\ Answer(r, req[r].who, 0, Nothing)
    /\ UNCHANGED <<dbVars, redis, conf, now>>

\* The client hangs up or the TimeoutLayer fires, so that the future is dropped
\* at its await, or a statement fails (`?`): nothing after it runs.
dropped(r) ==
    /\ Faulty /\ req[r] # Idle
    /\ req' = [req EXCEPT ![r] = Idle]
    /\ resp' = Nil
    /\ UNCHANGED <<dbVars, redis, cache, conf, now>>

\* UpdateStatus or ReportResult of the worker.
grpc_write(i) ==
    /\ Grpc /\ db[i] \in 1..(MaxVersion - 1)
    /\ db' = [db EXCEPT ![i] = @ + 1]
    /\ resp' = Nil
    /\ UNCHANGED <<owner, older, redis, cache, conf, req, now>>

\* Apollo: only the fields that are present overwrite.
apply_update(u) ==
    /\ conf' = [f \in Settings |-> IF u[f] = Nil THEN conf[f] ELSE u[f]]
    /\ resp' = Nil
    /\ UNCHANGED <<dbVars, redis, cache, req, now>>

\* Redis drops a key under memory pressure or in a restart.
Evict(k) ==
    /\ Faulty /\ cache[k] # Nil
    /\ cache' = [cache EXCEPT ![k] = Nil]
    /\ resp' = Nil
    /\ UNCHANGED <<dbVars, redis, conf, req, now>>

\* Time passes: keys expire, and no request outlives the TimeoutLayer.
Tick ==
    /\ now < MaxTime
    /\ \A r \in Reqs : req[r] # Idle => now < req[r].since + RequestTimeout
    /\ now' = now + 1
    /\ cache' = [k \in Keys |-> IF cache[k] # Nil /\ cache[k].exp > now' THEN cache[k] ELSE Nil]
    /\ resp' = Nil
    /\ UNCHANGED <<dbVars, redis, conf, req>>

-----------------------------------------------------------------------------
request_begins(r, t) ==
    \/ \E i \in Ids : \/ get_backup(r, t, i) \/ create_backup(r, t, i)
                      \/ update_backup(r, t, i) \/ delete_backup(r, t, i)
                      \/ not_found(r, t, i)
    \/ \E limit \in Limits, offset \in Offsets, filtered \in Filtered :
        list_backups(r, t, limit, offset, filtered)

request_goes_on(r) ==
    \/ get_select(r) \/ get_fill(r)
    \/ list_cached(r) \/ list_items(r) \/ list_count(r) \/ list_fill(r)
    \/ invalidate_backup(r) \/ invalidate_tenant_backups(r) \/ dropped(r)

Next ==
    \/ \E r \in Reqs, t \in Tenants : request_begins(r, t)
    \/ \E r \in Reqs : request_goes_on(r)
    \/ \E i \in Ids : grpc_write(i)
    \/ \E u \in Updates : apply_update(u)
    \/ \E k \in Keys : Evict(k)
    \/ Tick

Spec == Init /\ [][Next]_vars

-----------------------------------------------------------------------------
(* Properties.                                                             *)

\* Whatever another tenant's request left in the shared cache, an answer
\* holds only rows of the tenant that asked (get_backup compares tenant_id
\* after a hit, the list key carries the tenant).
TenantIsolation ==
    resp # Nil => \A x \in resp.data.items : owner[x.id] = resp.to

\* No answer is older than the longest TTL plus one request timeout, even when
\* invalidations fail, handlers are dropped half-way, the worker writes behind
\* the cache, or a slow reader fills the cache after a newer write's DEL.
BoundedStaleness ==
    resp # Nil => \A x \in resp.data.items :
                    now <= x.at + MaxTtl + RequestTimeout

\* README.md (Caching) says "invalidation on writes": when no request is under
\* way, no live entry holds a row that has changed since.
WritesInvalidate ==
    (\A r \in Reqs : req[r] = Idle) =>
        \A k \in Keys : cache[k] # Nil =>
            /\ \A x \in cache[k].data.items : db[x.id] = x.ver
            /\ k \in Tenants => cache[k].data.total = Cardinality(Rows(k, Ids))

\* config.rs calls cached_list_limit the "limit used for cache key": a page is
\* never longer than the limit its answer states.
ListHonoursLimit ==
    resp # Nil /\ resp.limit # 0 => Cardinality(resp.data.items) <= resp.limit
=============================================================================
