-------------------------- MODULE BackupCacheProofs --------------------------
(***************************************************************************)
(* Theorems about BackupCache, for any finite set of backups, any tenants  *)
(* and requests in flight, any settings Apollo may serve, with a faulty    *)
(* Redis and the worker's writes or without.                               *)
(***************************************************************************)
EXTENDS BackupCache, FiniteSetTheorems, TLAPS

\* A request for one backup carries its id.  What a request has read belongs to
\* who asked, and was read after the request began.
RequestOK(q) ==
    /\ q.pc \in {"get_select", "get_fill", "del_backup", "del_list"} => q.id \in Ids
    /\ q # Idle =>
        /\ q.since <= now /\ now <= q.since + RequestTimeout
        /\ \A x \in q.got.items :
            /\ owner[x.id] = q.who /\ q.since <= x.at
            /\ q.pc = "get_fill" => x.id = q.id

\* A cached row is under its own id, a cached page holds rows of the tenant in
\* its key; an entry was stored before the timeout of the request that read it.
EntryOK(k, e) ==
    /\ now < e.exp
    /\ \A x \in e.data.items :
        /\ owner[x.id] # Nil
        /\ k \in Ids => x.id = k
        /\ k \in Tenants => owner[x.id] = k
        /\ e.exp <= x.at + MaxTtl + RequestTimeout

Inv ==
    /\ TypeOK
    /\ conf.ttl <= MaxTtl
    /\ \A r \in Reqs : RequestOK(req[r])
    /\ \A k \in Keys : cache[k] # Nil => EntryOK(k, cache[k])
    /\ TenantIsolation /\ BoundedStaleness

-----------------------------------------------------------------------------
(* Payloads and requests.                                                  *)

\* The constants.
LEMMA Numbers ==
    ASSUME TypeOK
    PROVE  /\ now \in Nat /\ MaxTtl \in Nat /\ RequestTimeout \in Nat /\ conf.ttl \in Nat
           /\ Cardinality(Ids) \in Nat
           /\ "ttl" \in Settings
BY CacheAssumption, FS_CardinalityType DEF TypeOK, Settings

\* Idle is no request.
LEMMA IdleFacts ==
    /\ Idle.pc = "idle"
    /\ \A q \in Request : q # Idle /\ q.pc \in Steps
    /\ RequestOK(Idle)
<1>1. Idle.pc = "idle"
    BY DEF Idle
<1>2. \A q \in Request : q.pc \in Steps
    BY DEF Request
<1>3. "idle" \notin Steps
    BY DEF Steps
<1> QED BY <1>1, <1>2, <1>3 DEF RequestOK

\* What has a pc of a request is one.
LEMMA IsRequest ==
    ASSUME TypeOK, NEW r \in Reqs, req[r].pc \in Steps \/ req[r] # Idle
    PROVE  req[r] \in Request /\ req[r] # Idle
<1>1. "idle" \notin Steps
    BY DEF Steps
<1> QED BY <1>1, IdleFacts DEF TypeOK

\* The fields of a request, and of what it has read.
LEMMA RequestFields ==
    ASSUME NEW q \in Request
    PROVE  /\ q.who \in Tenants /\ q.got \in Payload /\ q.since \in Nat
           /\ q.limit \in Limits \cup {0} /\ q.id \in Ids \cup {Nil}
           /\ q.use \in BOOLEAN /\ q.filtered \in BOOLEAN
           /\ \A x \in q.got.items : x.id \in Ids /\ x.at \in Nat
<1>1. q.got \in Payload /\ q.since \in 0..MaxTime
    BY DEF Request
<1>2. \A x \in q.got.items : x \in Item
    BY <1>1 DEF Payload
<1> QED BY <1>1, <1>2, CacheAssumption DEF Request, Item

\* The fields of an entry.
LEMMA EntryFields ==
    ASSUME TypeOK, NEW k \in Keys, cache[k] # Nil
    PROVE  /\ cache[k].data \in Payload /\ cache[k].exp \in Nat
           /\ \A x \in cache[k].data.items : x.id \in Ids /\ x.at \in Nat
<1>1. cache[k] \in Entry
    BY DEF TypeOK
<1>2. cache[k].data \in Payload /\ cache[k].exp \in Nat
    BY <1>1 DEF Entry
<1>3. \A x \in cache[k].data.items : x \in Item
    BY <1>2 DEF Payload
<1> QED BY <1>2, <1>3, CacheAssumption DEF Item

\* No row, and one row.
LEMMA NothingType == Nothing \in Payload /\ Nothing.items = {}
BY CacheAssumption, FS_CardinalityType DEF Nothing, Payload

\* A row as it is read.
LEMMA RowType ==
    ASSUME TypeOK, NEW i \in Ids, db[i] > 0
    PROVE  Row(i) \in Item /\ Row(i).id = i /\ Row(i).at = now /\ Row(i).ver = db[i]
<1>1. db[i] \in 1..MaxVersion
    BY CacheAssumption DEF TypeOK
<1> QED BY <1>1 DEF TypeOK, Row, Item

\* The result of get_backup's SELECT.
LEMMA OneType ==
    ASSUME TypeOK, NEW i \in Ids, db[i] > 0
    PROVE  One(i) \in Payload /\ One(i).items = {Row(i)}
<1>1. Cardinality(Ids) \in Nat /\ Cardinality(Ids) # 0
    BY CacheAssumption, FS_CardinalityType, FS_EmptySet
<1> QED BY <1>1, RowType DEF One, Payload

\* The result of COUNT(*).
LEMMA CountType ==
    ASSUME NEW t, NEW S \in SUBSET Ids
    PROVE  Cardinality(Rows(t, S)) \in 0..Cardinality(Ids)
<1>1. Rows(t, S) \in SUBSET Ids
    BY DEF Rows
<1>2. IsFiniteSet(Rows(t, S)) /\ Cardinality(Rows(t, S)) <= Cardinality(Ids)
    BY <1>1, CacheAssumption, FS_Subset
<1>3. Cardinality(Rows(t, S)) \in Nat /\ Cardinality(Ids) \in Nat
    BY <1>2, CacheAssumption, FS_CardinalityType
<1> QED BY <1>2, <1>3

\* The result of list_backups' first SELECT.
LEMMA PageType ==
    ASSUME TypeOK, NEW t, NEW S \in SUBSET Ids, NEW l, NEW o,
           NEW p, p = [items |-> {Row(i) : i \in Page(Rows(t, S), l, o)}, total |-> 0]
    PROVE  /\ p \in Payload
           /\ \A x \in p.items : owner[x.id] = t /\ x.at = now /\ db[x.id] = x.ver
<1>1. \A i \in Page(Rows(t, S), l, o) : i \in Ids /\ db[i] > 0 /\ owner[i] = t
    BY DEF Page, Rows, Visible
<1>2. \A i \in Page(Rows(t, S), l, o) :
        Row(i) \in Item /\ Row(i).id = i /\ Row(i).at = now /\ Row(i).ver = db[i]
    BY <1>1, RowType
<1>3. p.items = {Row(i) : i \in Page(Rows(t, S), l, o)} /\ p.items \in SUBSET Item
    BY <1>2
<1>4. 0 \in 0..Cardinality(Ids)
    BY CacheAssumption, FS_CardinalityType
<1> QED BY <1>1, <1>2, <1>3, <1>4 DEF Payload

\* The handler returns.
LEMMA AnswerEffect ==
    ASSUME TypeOK, NEW r \in Reqs, NEW t \in Tenants, NEW l \in Limits \cup {0}, NEW p \in Payload,
           Answer(r, t, l, p)
    PROVE  /\ req' \in [Reqs -> Request \cup {Idle}] /\ req'[r] = Idle
           /\ \A s \in Reqs : s # r => req'[s] = req[s]
           /\ resp' \in Response /\ resp'.to = t /\ resp'.data = p
BY DEF Answer, TypeOK, Response

\* The handler begins, or goes on without an answer.
LEMMA StartEffect ==
    ASSUME TypeOK, NEW r \in Reqs, NEW q \in Request, req' = [req EXCEPT ![r] = q]
    PROVE  /\ req' \in [Reqs -> Request \cup {Idle}] /\ req'[r] = q
           /\ \A s \in Reqs : s # r => req'[s] = req[s]
BY DEF TypeOK

\* The next step of a handler.
LEMMA GotoEffect ==
    ASSUME TypeOK, NEW r \in Reqs, req[r] \in Request, NEW pc \in Steps, NEW p \in Payload,
           Goto(r, pc, p)
    PROVE  /\ req' \in [Reqs -> Request \cup {Idle}] /\ resp' = Nil
           /\ \A s \in Reqs : s # r => req'[s] = req[s]
           /\ req'[r] \in Request /\ req'[r].pc = pc /\ req'[r].got = p
           /\ req'[r].who = req[r].who /\ req'[r].id = req[r].id /\ req'[r].since = req[r].since
           /\ req'[r].use = req[r].use /\ req'[r].filtered = req[r].filtered
<1> DEFINE q == [req[r] EXCEPT !.pc = pc, !.got = p]
<1>1. /\ q \in Request /\ q.pc = pc /\ q.got = p /\ q.who = req[r].who /\ q.id = req[r].id
      /\ q.since = req[r].since /\ q.use = req[r].use /\ q.filtered = req[r].filtered
    BY DEF Request
<1>2. req' = [req EXCEPT ![r] = q] /\ resp' = Nil
    BY DEF Goto, TypeOK
<1> HIDE DEF q
<1> QED BY <1>1, <1>2, StartEffect

\* SETEX stores the payload with the TTL of the moment, or does nothing.
LEMMA SetEffect ==
    ASSUME TypeOK, NEW k \in Keys, NEW p \in Payload, set_ex(k, p)
    PROVE  /\ cache' \in [Keys -> Entry \cup {Nil}]
           /\ \A j \in Keys : j # k => cache'[j] = cache[j]
           /\ \/ cache'[k] = cache[k]
              \/ /\ redis /\ conf.ttl > 0
                 /\ cache'[k].data = p /\ cache'[k].exp = now + conf.ttl
<1>1. now + conf.ttl \in Nat
    BY Numbers
<1>2. [data |-> p, exp |-> now + conf.ttl] \in Entry
    BY <1>1 DEF Entry
<1> QED BY <1>2 DEF set_ex, TypeOK

\* DEL removes the key, or does nothing.
LEMMA DelEffect ==
    ASSUME TypeOK, NEW k \in Keys, del(k)
    PROVE  /\ cache' \in [Keys -> Entry \cup {Nil}]
           /\ \A j \in Keys : j # k => cache'[j] = cache[j]
           /\ cache'[k] = cache[k] \/ cache'[k] = Nil
           /\ ~Faulty /\ redis => cache'[k] = Nil
BY DEF del, TypeOK

-----------------------------------------------------------------------------
(* The steps.                                                              *)

\* tenant_id of a row never changes.
OwnerKept == \A i \in Ids : owner[i] # Nil => owner'[i] = owner[i]

\* What a step within a tick has to show: of the cache, only that a new entry is
\* right; of the requests, only the one that moved.
LEMMA InvFromParts ==
    ASSUME Inv, TypeOK', OwnerKept, now' = now, conf'.ttl <= MaxTtl,
           NEW r \in Reqs, \A s \in Reqs : s # r => req'[s] = req[s], RequestOK(req[r])',
           \A k \in Keys : cache'[k] = cache[k] \/ (cache'[k] # Nil => EntryOK(k, cache[k])'),
           (TenantIsolation /\ BoundedStaleness)'
    PROVE  Inv'
<1>1. ASSUME NEW s \in Reqs PROVE RequestOK(req[s])'
    <2>1. CASE s = r
        BY <2>1
    <2>2. CASE s # r
        <3>1. req'[s] = req[s] /\ RequestOK(req[s])
            BY <2>2 DEF Inv
        <3>2. req[s] # Idle => req[s].who \in Tenants /\ \A x \in req[s].got.items : x.id \in Ids
            BY IsRequest, RequestFields DEF Inv
        <3>3. req[s] # Idle => req[s].who # Nil
            BY <3>2, CacheAssumption
        <3> QED BY <3>1, <3>2, <3>3 DEF RequestOK, OwnerKept, Idle
    <2> QED BY <2>1, <2>2
<1>2. ASSUME NEW k \in Keys, cache'[k] # Nil PROVE EntryOK(k, cache[k])'
    <2>1. CASE cache'[k] = cache[k]
        <3>1. cache[k] # Nil /\ EntryOK(k, cache[k])
            BY <1>2, <2>1 DEF Inv
        <3>2. \A x \in cache[k].data.items : x.id \in Ids
            BY <3>1, EntryFields DEF Inv
        <3> QED BY <2>1, <3>1, <3>2 DEF EntryOK, OwnerKept
    <2> QED BY <1>2, <2>1
<1> QED BY <1>1, <1>2 DEF Inv

\* An answer with the right rows is safe; no answer is.
LEMMA SafeAnswer ==
    ASSUME resp' = Nil \/ (\A x \in resp'.data.items :
                owner'[x.id] = resp'.to /\ now' <= x.at + MaxTtl + RequestTimeout)
    PROVE  (TenantIsolation /\ BoundedStaleness)'
BY DEF TenantIsolation, BoundedStaleness

\* A step that only moves a request on.
LEMMA MoveOn ==
    ASSUME Inv, UNCHANGED <<dbVars, redis, cache, conf, now>>, NEW r \in Reqs,
           req' \in [Reqs -> Request \cup {Idle}], \A s \in Reqs : s # r => req'[s] = req[s],
           RequestOK(req[r])', resp' \in Response \cup {Nil},
           resp' = Nil \/ (\A x \in resp'.data.items :
                owner[x.id] = resp'.to /\ now <= x.at + MaxTtl + RequestTimeout)
    PROVE  Inv'
<1>1. TypeOK' /\ OwnerKept /\ now' = now /\ conf'.ttl <= MaxTtl
    BY DEF Inv, TypeOK, OwnerKept, dbVars
<1>2. \A k \in Keys : cache'[k] = cache[k]
    OBVIOUS
<1>3. (TenantIsolation /\ BoundedStaleness)'
    BY SafeAnswer DEF dbVars
<1> QED BY <1>1, <1>2, <1>3, InvFromParts

\* What a cached payload says is safe to answer.
LEMMA CachedSafe ==
    ASSUME Inv, NEW k \in Keys, cache[k] # Nil, NEW t \in Tenants,
           k = t \/ (k \in Ids /\ owner[k] = t)
    PROVE  \A x \in cache[k].data.items :
                owner[x.id] = t /\ now <= x.at + MaxTtl + RequestTimeout
<1>1. EntryOK(k, cache[k]) /\ TypeOK
    BY DEF Inv
<1>2. cache[k].exp \in Nat /\ \A x \in cache[k].data.items : x.at \in Nat
    BY <1>1, EntryFields
<1> QED BY <1>1, <1>2, Numbers DEF EntryOK

\* What a request has read is safe to answer, and to store.
LEMMA ReadSafe ==
    ASSUME Inv, NEW r \in Reqs, req[r] # Idle
    PROVE  \A x \in req[r].got.items :
            /\ owner[x.id] = req[r].who /\ owner[x.id] # Nil
            /\ now <= x.at + MaxTtl + RequestTimeout
            /\ now + conf.ttl <= x.at + MaxTtl + RequestTimeout
            /\ req[r].pc = "get_fill" => x.id = req[r].id
<1>1. TypeOK /\ RequestOK(req[r]) /\ conf.ttl <= MaxTtl
    BY DEF Inv
<1>2. req[r] \in Request
    BY <1>1, IsRequest
<1>3. /\ req[r].who \in Tenants /\ req[r].since \in Nat /\ \A x \in req[r].got.items : x.at \in Nat
    BY <1>2, RequestFields
<1>4. Nil \notin Tenants
    BY CacheAssumption
<1> QED BY <1>1, <1>3, <1>4, Numbers DEF RequestOK

\* A request that begins has read nothing.
LEMMA BeginOK ==
    ASSUME Inv, NEW r \in Reqs, UNCHANGED now, req'[r] \in Request,
           req'[r].since = now, req'[r].got.items = {},
           req'[r].pc \in {"get_select", "get_fill", "del_backup", "del_list"} => req'[r].id \in Ids
    PROVE  RequestOK(req[r])'
BY Numbers DEF Inv, RequestOK

\* A handler that answers is idle again.
LEMMA IdleOK ==
    ASSUME NEW r \in Reqs, req'[r] = Idle
    PROVE  RequestOK(req[r])'
BY DEF RequestOK, Idle

\* A request that goes on.
LEMMA GoOnOK ==
    ASSUME Inv, NEW r \in Reqs, req[r] # Idle, UNCHANGED <<owner, now>>,
           req'[r].who = req[r].who, req'[r].id = req[r].id, req'[r].since = req[r].since,
           req'[r].pc \in {"get_select", "get_fill", "del_backup", "del_list"} => req[r].id \in Ids,
           \A x \in req'[r].got.items :
            /\ owner[x.id] = req[r].who /\ req[r].since <= x.at
            /\ req'[r].pc = "get_fill" => x.id = req[r].id
    PROVE  RequestOK(req[r])'
BY DEF Inv, RequestOK

\* GET /backups/{id}, from the cache or on to the SELECT.
LEMMA GetBackupStep ==
    ASSUME Inv, NEW r \in Reqs, NEW t \in Tenants, NEW i \in Ids, get_backup(r, t, i)
    PROVE  Inv'
<1>1. TypeOK /\ i \in Keys /\ i \in Ids \cup {Nil}
    BY DEF Inv, Keys
<1>2. UNCHANGED <<dbVars, redis, cache, conf, now>>
    BY DEF get_backup
<1>3. CASE cache[i] # Nil /\ owner[i] = t /\ Answer(r, t, 0, cache[i].data)
    <2>1. cache[i].data \in Payload
        BY <1>1, <1>3, EntryFields
    <2>2. /\ req' \in [Reqs -> Request \cup {Idle}] /\ req'[r] = Idle
          /\ \A s \in Reqs : s # r => req'[s] = req[s]
          /\ resp' \in Response /\ resp'.to = t /\ resp'.data = cache[i].data
        BY <1>1, <1>3, <2>1, AnswerEffect
    <2>3. \A x \in resp'.data.items :
            owner[x.id] = resp'.to /\ now <= x.at + MaxTtl + RequestTimeout
        BY <1>1, <1>3, <2>2, CachedSafe
    <2> QED BY <1>2, <2>2, <2>3, IdleOK, MoveOn
<1>4. CASE req' = [req EXCEPT ![r] = New("get_select", t, i)] /\ resp' = Nil
    <2> DEFINE q == New("get_select", t, i)
    <2>1. q \in Request /\ q.pc = "get_select" /\ q.id = i /\ q.since = now /\ q.got.items = {}
        BY <1>1, NothingType DEF New, Request, Steps, TypeOK
    <2> HIDE DEF q
    <2>2. /\ req' \in [Reqs -> Request \cup {Idle}] /\ req'[r] = q
          /\ \A s \in Reqs : s # r => req'[s] = req[s]
        BY <1>1, <1>4, <2>1, StartEffect DEF q
    <2>3. RequestOK(req[r])'
        BY <1>2, <2>1, <2>2, BeginOK
    <2> QED BY <1>2, <1>4, <2>2, <2>3, MoveOn
<1> QED BY <1>3, <1>4 DEF get_backup, hit

\* An answer without rows.
LEMMA EmptyAnswer ==
    ASSUME Inv, NEW r \in Reqs, NEW t \in Tenants, Answer(r, t, 0, Nothing),
           UNCHANGED <<dbVars, redis, cache, conf, now>>
    PROVE  Inv'
<1>1. /\ req' \in [Reqs -> Request \cup {Idle}] /\ req'[r] = Idle
      /\ \A s \in Reqs : s # r => req'[s] = req[s]
      /\ resp' \in Response /\ resp'.data.items = {}
    BY NothingType, AnswerEffect DEF Inv
<1> QED BY <1>1, IdleOK, MoveOn

\* The SELECT reads a row of the tenant that asks.
LEMMA GetSelectStep ==
    ASSUME Inv, NEW r \in Reqs, get_select(r)
    PROVE  Inv'
<1> DEFINE i == req[r].id
<1>1. TypeOK /\ req[r].pc = "get_select" /\ RequestOK(req[r])
    BY DEF Inv, get_select
<1>2. req[r] \in Request /\ req[r] # Idle /\ req[r].who \in Tenants
    BY <1>1, IsRequest, RequestFields DEF Steps
<1>3. i \in Ids /\ req[r].since <= now
    BY <1>1, <1>2 DEF RequestOK
<1>4. UNCHANGED <<dbVars, redis, cache, conf, now>>
    BY DEF get_select
<1>5. CASE Visible(req[r].who, i) /\ Goto(r, "get_fill", One(i))
    <2>1. db[i] > 0 /\ owner[i] = req[r].who
        BY <1>5 DEF Visible
    <2>2. /\ One(i) \in Payload /\ One(i).items = {Row(i)}
          /\ Row(i).id = i /\ Row(i).at = now
        BY <1>1, <1>3, <2>1, OneType, RowType
    <2>3. /\ req' \in [Reqs -> Request \cup {Idle}] /\ resp' = Nil
          /\ \A s \in Reqs : s # r => req'[s] = req[s]
          /\ req'[r].got = One(i)
          /\ req'[r].who = req[r].who /\ req'[r].id = i /\ req'[r].since = req[r].since
        BY <1>1, <1>2, <1>5, <2>2, GotoEffect DEF Steps
    <2>4. RequestOK(req[r])'
        BY <1>2, <1>3, <1>4, <2>1, <2>2, <2>3, GoOnOK DEF dbVars
    <2> QED BY <1>4, <2>3, <2>4, MoveOn
<1>6. CASE Answer(r, req[r].who, 0, Nothing)
    BY <1>2, <1>4, <1>6, EmptyAnswer
<1> QED BY <1>5, <1>6 DEF get_select

\* Storing what was read, under a key it belongs to, and answering with it.
LEMMA FillStep ==
    ASSUME Inv, NEW r \in Reqs, req[r] \in Request, req[r] # Idle, NEW k \in Keys,
           k \in Ids => req[r].pc = "get_fill" /\ k = req[r].id,
           k \in Tenants => k = req[r].who,
           set_ex(k, req[r].got), NEW l \in Limits \cup {0}, Answer(r, req[r].who, l, req[r].got),
           UNCHANGED <<dbVars, redis, conf, now>>
    PROVE  Inv'
<1>1. TypeOK /\ req[r].got \in Payload /\ req[r].who \in Tenants
    BY RequestFields DEF Inv
<1>2. /\ req' \in [Reqs -> Request \cup {Idle}] /\ req'[r] = Idle
      /\ \A s \in Reqs : s # r => req'[s] = req[s]
      /\ resp' \in Response /\ resp'.to = req[r].who /\ resp'.data = req[r].got
    BY <1>1, AnswerEffect
<1>3. /\ cache' \in [Keys -> Entry \cup {Nil}]
      /\ \A j \in Keys : j # k => cache'[j] = cache[j]
      /\ \/ cache'[k] = cache[k]
         \/ conf.ttl > 0 /\ cache'[k].data = req[r].got /\ cache'[k].exp = now + conf.ttl
    BY <1>1, SetEffect
<1>4. \A x \in req[r].got.items :
        /\ owner[x.id] = req[r].who /\ owner[x.id] # Nil
        /\ now <= x.at + MaxTtl + RequestTimeout
        /\ now + conf.ttl <= x.at + MaxTtl + RequestTimeout
        /\ req[r].pc = "get_fill" => x.id = req[r].id
    BY ReadSafe
<1>5. now \in Nat /\ conf.ttl \in Nat
    BY <1>1, Numbers
<1>6. TypeOK' /\ OwnerKept /\ now' = now /\ conf'.ttl <= MaxTtl
    BY <1>1, <1>2, <1>3 DEF Inv, TypeOK, OwnerKept, dbVars
<1>7. cache'[k] = cache[k] \/ EntryOK(k, cache[k])'
    <2> SUFFICES ASSUME conf.ttl > 0, cache'[k].data = req[r].got, cache'[k].exp = now + conf.ttl
                 PROVE  EntryOK(k, cache[k])'
        BY <1>3
    <2>1. now' < cache'[k].exp
        BY <1>5, <1>6
    <2> QED BY <1>4, <2>1 DEF EntryOK, dbVars
<1>8. (TenantIsolation /\ BoundedStaleness)'
    BY <1>2, <1>4, SafeAnswer DEF dbVars
<1> QED BY <1>2, <1>3, <1>6, <1>7, <1>8, IdleOK, InvFromParts

\* set_backup, and set_tenant_backups.
LEMMA GetFillStep ==
    ASSUME Inv, NEW r \in Reqs, get_fill(r) \/ list_fill(r)
    PROVE  Inv'
<1>1. TypeOK /\ RequestOK(req[r])
    BY DEF Inv
<1>2. req[r] \in Request /\ req[r] # Idle
    BY <1>1, IsRequest DEF get_fill, list_fill, Steps
<1>3. req[r].who \in Tenants /\ req[r].limit \in Limits \cup {0}
    BY <1>2, RequestFields
<1>4. \A k \in Ids : k \notin Tenants
    BY CacheAssumption
<1>5. CASE get_fill(r)
    <2>1. req[r].pc = "get_fill" /\ req[r].id \in Ids /\ req[r].id \in Keys
        BY <1>1, <1>5 DEF get_fill, RequestOK, Keys
    <2> QED BY <1>2, <1>4, <1>5, <2>1, FillStep DEF get_fill
<1>6. CASE list_fill(r)
    <2>1. req[r].who \in Keys /\ req[r].who \notin Ids
        BY <1>3, <1>4 DEF Keys
    <2> QED BY <1>2, <1>3, <1>6, <2>1, FillStep DEF list_fill
<1> QED BY <1>5, <1>6

\* GET /backups begins.
LEMMA ListBackupsStep ==
    ASSUME Inv, NEW r \in Reqs, NEW t \in Tenants, NEW limit \in Limits, NEW offset \in Offsets,
           NEW filtered \in Filtered, list_backups(r, t, limit, offset, filtered)
    PROVE  Inv'
<1> DEFINE use == ~filtered /\ offset = conf.offset /\ limit = conf.limit
           pc == IF use THEN "list_cached" ELSE "list_items"
           q == [New(pc, t, Nil) EXCEPT !.limit = limit, !.offset = offset,
                                        !.filtered = filtered, !.use = use]
<1>1. TypeOK /\ filtered \in BOOLEAN
    BY CacheAssumption DEF Inv
<1>2. /\ req' = [req EXCEPT ![r] = q] /\ resp' = Nil
      /\ UNCHANGED <<dbVars, redis, cache, conf, now>>
    BY DEF list_backups
<1>3. use \in BOOLEAN
    OBVIOUS
<1>4. pc \in {"list_cached", "list_items"}
    OBVIOUS
<1> HIDE DEF use, pc
<1>5. q \in Request /\ q.pc \in {"list_cached", "list_items"} /\ q.since = now /\ q.got.items = {}
    BY <1>1, <1>3, <1>4, NothingType DEF New, Request, Steps, TypeOK
<1> HIDE DEF q
<1>6. /\ req' \in [Reqs -> Request \cup {Idle}] /\ req'[r] = q
      /\ \A s \in Reqs : s # r => req'[s] = req[s]
    BY <1>1, <1>2, <1>5, StartEffect
<1>7. RequestOK(req[r])'
    BY <1>2, <1>5, <1>6, BeginOK
<1> QED BY <1>2, <1>6, <1>7, MoveOn

\* The cached page, or on to the SELECT.
LEMMA ListCachedStep ==
    ASSUME Inv, NEW r \in Reqs, list_cached(r)
    PROVE  Inv'
<1> DEFINE t == req[r].who
<1>1. TypeOK /\ UNCHANGED <<dbVars, redis, cache, conf, now>>
    BY DEF Inv, list_cached
<1>2. req[r] \in Request /\ req[r] # Idle
    BY <1>1, IsRequest DEF list_cached, Steps
<1>3. t \in Tenants /\ req[r].limit \in Limits \cup {0} /\ t \in Keys
    BY <1>2, RequestFields DEF Keys
<1>4. CASE cache[t] # Nil /\ Answer(r, t, req[r].limit, cache[t].data)
    <2>1. cache[t].data \in Payload
        BY <1>1, <1>3, <1>4, EntryFields
    <2>2. /\ req' \in [Reqs -> Request \cup {Idle}] /\ req'[r] = Idle
          /\ \A s \in Reqs : s # r => req'[s] = req[s]
          /\ resp' \in Response /\ resp'.to = t /\ resp'.data = cache[t].data
        <3> DEFINE p == cache[t].data
                   l == req[r].limit
        <3>1. p \in Payload /\ l \in Limits \cup {0} /\ t \in Tenants /\ Answer(r, t, l, p)
            BY <1>3, <1>4, <2>1
        <3> HIDE DEF p, l, t
        <3> QED BY <1>1, <3>1, AnswerEffect DEF p
    <2>3. \A x \in resp'.data.items :
            owner[x.id] = resp'.to /\ now <= x.at + MaxTtl + RequestTimeout
        BY <1>3, <1>4, <2>2, CachedSafe
    <2> QED BY <1>1, <2>2, <2>3, IdleOK, MoveOn
<1>5. CASE Goto(r, "list_items", Nothing)
    <2>1. /\ req' \in [Reqs -> Request \cup {Idle}] /\ resp' = Nil
          /\ \A s \in Reqs : s # r => req'[s] = req[s]
          /\ req'[r].pc = "list_items" /\ req'[r].got = Nothing
          /\ req'[r].who = req[r].who /\ req'[r].id = req[r].id /\ req'[r].since = req[r].since
        BY <1>1, <1>2, <1>5, NothingType, GotoEffect DEF Steps
    <2>2. RequestOK(req[r])'
        BY <1>1, <1>2, <2>1, NothingType, GoOnOK DEF dbVars
    <2> QED BY <1>1, <2>1, <2>2, MoveOn
<1> QED BY <1>4, <1>5 DEF list_cached, hit

\* The SELECT of the page.
LEMMA ListItemsStep ==
    ASSUME Inv, NEW r \in Reqs, list_items(r)
    PROVE  Inv'
<1>1. TypeOK /\ UNCHANGED <<dbVars, redis, cache, conf, now>> /\ RequestOK(req[r])
    BY DEF Inv, list_items
<1>2. req[r] \in Request /\ req[r] # Idle
    BY <1>1, IsRequest DEF list_items, Steps
<1>3. \A S \in Filters(r) : S \in SUBSET Ids
    BY DEF Filters
<1>4. PICK S \in Filters(r) :
        Goto(r, "list_count",
             [items |-> {Row(i) : i \in Page(Rows(req[r].who, S), req[r].limit, req[r].offset)},
              total |-> 0])
    BY DEF list_items
<1> DEFINE p == [items |-> {Row(i) : i \in Page(Rows(req[r].who, S), req[r].limit, req[r].offset)},
                 total |-> 0]
<1>5. /\ p \in Payload
      /\ \A x \in p.items : owner[x.id] = req[r].who /\ x.at = now
    BY <1>1, <1>3, PageType
<1>6. Goto(r, "list_count", p)
    BY <1>4
<1> HIDE DEF p
<1>7. /\ req' \in [Reqs -> Request \cup {Idle}] /\ resp' = Nil
      /\ \A s \in Reqs : s # r => req'[s] = req[s]
      /\ req'[r].pc = "list_count" /\ req'[r].got = p
      /\ req'[r].who = req[r].who /\ req'[r].id = req[r].id /\ req'[r].since = req[r].since
    BY <1>1, <1>2, <1>5, <1>6, GotoEffect DEF Steps
<1>8. req[r].since <= now
    BY <1>1, <1>2 DEF RequestOK
<1>9. RequestOK(req[r])'
    BY <1>1, <1>2, <1>5, <1>7, <1>8, GoOnOK DEF dbVars
<1> QED BY <1>1, <1>7, <1>9, MoveOn

\* COUNT(*) leaves the rows that were read.
LEMMA ListCountStep ==
    ASSUME Inv, NEW r \in Reqs, list_count(r)
    PROVE  Inv'
<1>1. TypeOK /\ UNCHANGED <<dbVars, redis, cache, conf, now>> /\ RequestOK(req[r])
    BY DEF Inv, list_count
<1>2. req[r] \in Request /\ req[r] # Idle
    BY <1>1, IsRequest DEF list_count, Steps
<1>3. req[r].who \in Tenants /\ req[r].got \in Payload /\ req[r].limit \in Limits \cup {0}
    BY <1>2, RequestFields
<1>4. \A S \in Filters(r) : S \in SUBSET Ids
    BY DEF Filters
<1>5. PICK S \in Filters(r) :
        LET p == [req[r].got EXCEPT !.total = Cardinality(Rows(req[r].who, S))] IN
        Goto(r, "list_fill", p) \/ Answer(r, req[r].who, req[r].limit, p)
    BY DEF list_count
<1> DEFINE p == [req[r].got EXCEPT !.total = Cardinality(Rows(req[r].who, S))]
<1>6. p \in Payload /\ p.items = req[r].got.items
    <2>1. Cardinality(Rows(req[r].who, S)) \in 0..Cardinality(Ids)
        BY <1>4, CountType
    <2> QED BY <1>3, <2>1 DEF Payload
<1> HIDE DEF p
<1>7. CASE Goto(r, "list_fill", p)
    <2>1. /\ req' \in [Reqs -> Request \cup {Idle}] /\ resp' = Nil
          /\ \A s \in Reqs : s # r => req'[s] = req[s]
          /\ req'[r].pc = "list_fill" /\ req'[r].got = p
          /\ req'[r].who = req[r].who /\ req'[r].id = req[r].id /\ req'[r].since = req[r].since
        BY <1>1, <1>2, <1>6, <1>7, GotoEffect DEF Steps
    <2>2. \A x \in p.items : owner[x.id] = req[r].who /\ req[r].since <= x.at
        BY <1>1, <1>2, <1>6 DEF RequestOK
    <2>3. RequestOK(req[r])'
        BY <1>1, <1>2, <2>1, <2>2, GoOnOK DEF dbVars
    <2> QED BY <1>1, <2>1, <2>3, MoveOn
<1>8. CASE Answer(r, req[r].who, req[r].limit, p)
    <2>1. /\ req' \in [Reqs -> Request \cup {Idle}] /\ req'[r] = Idle
          /\ \A s \in Reqs : s # r => req'[s] = req[s]
          /\ resp' \in Response /\ resp'.to = req[r].who /\ resp'.data = p
        BY <1>1, <1>3, <1>6, <1>8, AnswerEffect
    <2>2. \A x \in resp'.data.items :
            owner[x.id] = resp'.to /\ now <= x.at + MaxTtl + RequestTimeout
        BY <1>2, <1>6, <2>1, ReadSafe
    <2> QED BY <1>1, <2>1, <2>2, IdleOK, MoveOn
<1> QED BY <1>5, <1>7, <1>8 DEF p

\* A statement that writes, and the invalidation it leaves to be done.
LEMMA WriteStep ==
    ASSUME Inv, NEW r \in Reqs, NEW q \in Request, req' = [req EXCEPT ![r] = q], resp' = Nil,
           q.id \in Ids, q.since = now, q.got.items = {},
           db' \in [Ids -> 0..MaxVersion], owner' \in [Ids -> Tenants \cup {Nil}],
           older' \in [Ids -> SUBSET Ids], OwnerKept, UNCHANGED <<redis, cache, conf, now>>
    PROVE  Inv'
<1>1. /\ req' \in [Reqs -> Request \cup {Idle}] /\ req'[r] = q
      /\ \A s \in Reqs : s # r => req'[s] = req[s]
    BY StartEffect DEF Inv
<1>2. TypeOK' /\ now' = now /\ conf'.ttl <= MaxTtl
    BY <1>1 DEF Inv, TypeOK
<1>3. RequestOK(req[r])'
    BY <1>1, BeginOK
<1>4. (TenantIsolation /\ BoundedStaleness)'
    BY SafeAnswer
<1> QED BY <1>1, <1>2, <1>3, <1>4, InvFromParts

\* INSERT, UPDATE and DELETE.
LEMMA WritesStep ==
    ASSUME Inv, NEW r \in Reqs, NEW t \in Tenants, NEW i \in Ids,
           create_backup(r, t, i) \/ update_backup(r, t, i) \/ delete_backup(r, t, i)
    PROVE  Inv'
<1>1. TypeOK
    BY DEF Inv
<1>2. ASSUME NEW pc \in {"del_list", "del_backup"}
      PROVE  LET q == New(pc, t, i) IN
             q \in Request /\ q.id = i /\ q.since = now /\ q.got.items = {}
    BY <1>1, NothingType DEF New, Request, Steps, TypeOK
<1>3. \A q \in {New("del_list", t, i), New("del_backup", t, i)} :
        q \in Request /\ q.id \in Ids /\ q.since = now /\ q.got.items = {}
    BY <1>2
<1>4. CASE create_backup(r, t, i)
    <2>1. /\ req' = [req EXCEPT ![r] = New("del_list", t, i)] /\ resp' = Nil
          /\ UNCHANGED <<redis, cache, conf, now>>
        BY <1>4 DEF create_backup
    <2>2. OwnerKept /\ owner' \in [Ids -> Tenants \cup {Nil}] /\ older' \in [Ids -> SUBSET Ids]
        BY <1>1, <1>4 DEF create_backup, OwnerKept, TypeOK
    <2>3. db' \in [Ids -> 0..MaxVersion]
        <3>1. db' = [db EXCEPT ![i] = 1]
            BY <1>4 DEF create_backup
        <3>2. 1 \in 0..MaxVersion
            BY CacheAssumption
        <3> QED BY <1>1, <3>1, <3>2 DEF TypeOK
    <2> QED BY <1>3, <2>1, <2>2, <2>3, WriteStep
<1>5. CASE update_backup(r, t, i) \/ delete_backup(r, t, i)
    <2>1. /\ req' = [req EXCEPT ![r] = New("del_backup", t, i)] /\ resp' = Nil
          /\ UNCHANGED <<owner, older, redis, cache, conf, now>>
        BY <1>5 DEF update_backup, delete_backup
    <2>2. OwnerKept /\ owner' \in [Ids -> Tenants \cup {Nil}] /\ older' \in [Ids -> SUBSET Ids]
        BY <1>1, <2>1 DEF OwnerKept, TypeOK
    <2>3. db' \in [Ids -> 0..MaxVersion]
        <3>1. CASE update_backup(r, t, i)
            <4>1. db[i] + 1 \in 0..MaxVersion /\ db' = [db EXCEPT ![i] = db[i] + 1]
                BY <1>1, <3>1, CacheAssumption DEF update_backup, TypeOK
            <4> QED BY <1>1, <4>1 DEF TypeOK
        <3>2. CASE delete_backup(r, t, i)
            <4>1. 0 \in 0..MaxVersion /\ db' = [db EXCEPT ![i] = 0]
                BY <3>2, CacheAssumption DEF delete_backup
            <4> QED BY <1>1, <4>1 DEF TypeOK
        <3> QED BY <1>5, <3>1, <3>2
    <2> QED BY <1>3, <2>1, <2>2, <2>3, WriteStep
<1> QED BY <1>4, <1>5

\* The two DELs.
LEMMA InvalidateStep ==
    ASSUME Inv, NEW r \in Reqs, invalidate_backup(r) \/ invalidate_tenant_backups(r)
    PROVE  Inv'
<1>1. TypeOK /\ RequestOK(req[r]) /\ UNCHANGED <<dbVars, redis, conf, now>>
    BY DEF Inv, invalidate_backup, invalidate_tenant_backups
<1>2. req[r] \in Request /\ req[r] # Idle
    BY <1>1, IsRequest DEF invalidate_backup, invalidate_tenant_backups, Steps
<1>3. req[r].who \in Tenants /\ req[r].id \in Ids /\ req[r].who \in Keys /\ req[r].id \in Keys
    BY <1>1, <1>2, RequestFields DEF RequestOK, Keys, invalidate_backup, invalidate_tenant_backups
<1>4. /\ cache' \in [Keys -> Entry \cup {Nil}]
      /\ \A k \in Keys : cache'[k] = cache[k] \/ cache'[k] = Nil
    <2>1. PICK k \in Keys : del(k)
        BY <1>3 DEF invalidate_backup, invalidate_tenant_backups
    <2> QED BY <1>1, <2>1, DelEffect
<1>5. /\ req' \in [Reqs -> Request \cup {Idle}] /\ RequestOK(req[r])'
      /\ \A s \in Reqs : s # r => req'[s] = req[s]
      /\ resp' \in Response \cup {Nil} /\ (resp' = Nil \/ resp'.data.items = {})
    <2>1. CASE invalidate_backup(r)
        <3>1. Goto(r, "del_list", Nothing)
            BY <2>1 DEF invalidate_backup
        <3>2. /\ req' \in [Reqs -> Request \cup {Idle}] /\ resp' = Nil
              /\ \A s \in Reqs : s # r => req'[s] = req[s]
              /\ req'[r].got = Nothing
              /\ req'[r].who = req[r].who /\ req'[r].id = req[r].id /\ req'[r].since = req[r].since
            BY <1>1, <1>2, <3>1, NothingType, GotoEffect DEF Steps
        <3>3. RequestOK(req[r])'
            BY <1>1, <1>2, <1>3, <3>2, NothingType, GoOnOK DEF dbVars
        <3> QED BY <3>2, <3>3
    <2>2. CASE invalidate_tenant_backups(r)
        <3>1. Answer(r, req[r].who, 0, Nothing)
            BY <2>2 DEF invalidate_tenant_backups
        <3>2. /\ req' \in [Reqs -> Request \cup {Idle}] /\ req'[r] = Idle
              /\ \A s \in Reqs : s # r => req'[s] = req[s]
              /\ resp' \in Response /\ resp'.data = Nothing
            BY <1>1, <1>3, <3>1, NothingType, AnswerEffect
        <3> QED BY <3>2, NothingType, IdleOK
    <2> QED BY <2>1, <2>2
<1>6. TypeOK' /\ OwnerKept /\ now' = now /\ conf'.ttl <= MaxTtl
    BY <1>1, <1>4, <1>5 DEF Inv, TypeOK, OwnerKept, dbVars
<1>7. (TenantIsolation /\ BoundedStaleness)'
    BY <1>5, SafeAnswer
<1> QED BY <1>4, <1>5, <1>6, <1>7, InvFromParts

\* A handler that is dropped.
LEMMA DroppedStep ==
    ASSUME Inv, NEW r \in Reqs, dropped(r)
    PROVE  Inv'
<1>1. /\ req' \in [Reqs -> Request \cup {Idle}] /\ req'[r] = Idle
      /\ \A s \in Reqs : s # r => req'[s] = req[s]
      /\ resp' = Nil /\ UNCHANGED <<dbVars, redis, cache, conf, now>>
    BY DEF dropped, Inv, TypeOK
<1> QED BY <1>1, IdleOK, MoveOn

\* A step that moves no request, within a tick.
LEMMA OutsideStep ==
    ASSUME Inv, TypeOK', UNCHANGED <<owner, req, now>>, conf'.ttl <= MaxTtl, resp' = Nil,
           \A k \in Keys : cache'[k] = cache[k] \/ cache'[k] = Nil
    PROVE  Inv'
<1>1. \A r \in Reqs : RequestOK(req[r])'
    BY DEF Inv, RequestOK
<1>2. ASSUME NEW k \in Keys, cache'[k] # Nil PROVE EntryOK(k, cache[k])'
    <2>1. cache'[k] = cache[k] /\ EntryOK(k, cache[k])
        BY <1>2 DEF Inv
    <2> QED BY <2>1 DEF EntryOK
<1>3. (TenantIsolation /\ BoundedStaleness)'
    BY SafeAnswer
<1> QED BY <1>1, <1>2, <1>3 DEF Inv

\* The worker's writes.
LEMMA GrpcStep ==
    ASSUME Inv, NEW i \in Ids, grpc_write(i)
    PROVE  Inv'
<1>1. db[i] + 1 \in 0..MaxVersion /\ db' = [db EXCEPT ![i] = db[i] + 1]
    BY CacheAssumption DEF grpc_write, Inv, TypeOK
<1>2. UNCHANGED <<owner, older, redis, cache, conf, req, now>> /\ resp' = Nil
    BY DEF grpc_write
<1>3. TypeOK'
    BY <1>1, <1>2 DEF Inv, TypeOK
<1>4. conf'.ttl <= MaxTtl
    BY <1>2 DEF Inv
<1> QED BY <1>2, <1>3, <1>4, OutsideStep

\* Apollo's updates.
LEMMA UpdateStep ==
    ASSUME Inv, NEW u \in Updates, apply_update(u)
    PROVE  Inv'
<1>1. conf' = [f \in Settings |-> IF u[f] = Nil THEN conf[f] ELSE u[f]]
    BY DEF apply_update
<1>2. u \in [Settings -> Nat \cup {Nil}] /\ conf \in [Settings -> Nat]
    BY CacheAssumption DEF Inv, TypeOK
<1>3. conf' \in [Settings -> Nat]
    BY <1>1, <1>2
<1>4. conf'.ttl <= MaxTtl
    <2>1. conf'.ttl = IF u.ttl = Nil THEN conf.ttl ELSE u.ttl
        BY <1>1 DEF Settings
    <2> QED BY <2>1, CacheAssumption DEF Inv
<1>5. UNCHANGED <<dbVars, redis, cache, req, now>> /\ resp' = Nil
    BY DEF apply_update
<1>6. TypeOK'
    BY <1>3, <1>5 DEF Inv, TypeOK, dbVars
<1> QED BY <1>4, <1>5, <1>6, OutsideStep DEF dbVars

\* Redis drops a key.
LEMMA EvictStep ==
    ASSUME Inv, NEW k \in Keys, Evict(k)
    PROVE  Inv'
<1>1. cache' = [cache EXCEPT ![k] = Nil] /\ resp' = Nil /\ UNCHANGED <<dbVars, redis, conf, req, now>>
    BY DEF Evict
<1>2. TypeOK' /\ \A j \in Keys : cache'[j] = cache[j] \/ cache'[j] = Nil
    BY <1>1 DEF Inv, TypeOK, dbVars
<1>3. conf'.ttl <= MaxTtl
    BY <1>1 DEF Inv
<1> QED BY <1>1, <1>2, <1>3, OutsideStep DEF dbVars

\* Time passes only while every request is within its timeout, and expired keys
\* are gone.
LEMMA TickStep ==
    ASSUME Inv, Tick
    PROVE  Inv'
<1>1. now' = now + 1 /\ now' \in 0..MaxTime /\ now \in Nat /\ RequestTimeout \in Nat
    BY CacheAssumption DEF Tick, Inv, TypeOK
<1>2. cache' = [k \in Keys |-> IF cache[k] # Nil /\ cache[k].exp > now' THEN cache[k] ELSE Nil]
    BY DEF Tick
<1>3. UNCHANGED <<dbVars, redis, conf, req>> /\ resp' = Nil
    BY DEF Tick
<1>4. TypeOK'
    BY <1>1, <1>2, <1>3 DEF Inv, TypeOK, dbVars
<1>5. ASSUME NEW r \in Reqs PROVE RequestOK(req[r])'
    <2>1. RequestOK(req[r]) /\ TypeOK
        BY DEF Inv
    <2>2. req[r] # Idle => req[r].since \in Nat /\ now < req[r].since + RequestTimeout
        BY <2>1, IsRequest, RequestFields DEF Tick
    <2> QED BY <1>1, <1>3, <2>1, <2>2 DEF RequestOK, Idle, dbVars
<1>6. ASSUME NEW k \in Keys, cache'[k] # Nil PROVE EntryOK(k, cache[k])'
    <2>1. cache'[k] = cache[k] /\ cache[k] # Nil /\ cache[k].exp > now'
        BY <1>2, <1>6
    <2>2. EntryOK(k, cache[k]) /\ cache[k].exp \in Nat
        BY <2>1, EntryFields DEF Inv
    <2> QED BY <1>1, <1>3, <2>1, <2>2 DEF EntryOK, dbVars
<1>7. (TenantIsolation /\ BoundedStaleness)'
    BY <1>3, SafeAnswer
<1> QED BY <1>3, <1>4, <1>5, <1>6, <1>7 DEF Inv

\* Every step keeps the invariant.
LEMMA InvStep == Inv /\ [Next]_vars => Inv'
<1> SUFFICES ASSUME Inv, [Next]_vars PROVE Inv'
    OBVIOUS
<1>1. CASE UNCHANGED vars
    BY <1>1 DEF vars, Inv, TypeOK, RequestOK, EntryOK, Idle, TenantIsolation, BoundedStaleness
<1>2. ASSUME NEW r \in Reqs, NEW t \in Tenants, request_begins(r, t) PROVE Inv'
    <2>1. ASSUME NEW i \in Ids, get_backup(r, t, i) PROVE Inv'
        BY <2>1, GetBackupStep
    <2>2. ASSUME NEW i \in Ids, create_backup(r, t, i) \/ update_backup(r, t, i) \/ delete_backup(r, t, i)
          PROVE  Inv'
        BY <2>2, WritesStep
    <2>3. ASSUME NEW i \in Ids, not_found(r, t, i) PROVE Inv'
        BY <2>3, EmptyAnswer DEF not_found
    <2>4. ASSUME NEW limit \in Limits, NEW offset \in Offsets, NEW filtered \in Filtered,
                 list_backups(r, t, limit, offset, filtered)
          PROVE  Inv'
        BY <2>4, ListBackupsStep
    <2> QED BY <1>2, <2>1, <2>2, <2>3, <2>4 DEF request_begins
<1>3. ASSUME NEW r \in Reqs, request_goes_on(r) PROVE Inv'
    BY <1>3, GetSelectStep, GetFillStep, ListCachedStep, ListItemsStep, ListCountStep,
       InvalidateStep, DroppedStep DEF request_goes_on
<1>4. ASSUME NEW i \in Ids, grpc_write(i) PROVE Inv'
    BY <1>4, GrpcStep
<1>5. ASSUME NEW u \in Updates, apply_update(u) PROVE Inv'
    BY <1>5, UpdateStep
<1>6. ASSUME NEW k \in Keys, Evict(k) PROVE Inv'
    BY <1>6, EvictStep
<1>7. CASE Tick
    BY <1>7, TickStep
<1> QED BY <1>1, <1>2, <1>3, <1>4, <1>5, <1>6, <1>7 DEF Next

\* The cache is empty and every handler idle at the start.
LEMMA InvInit == Init => Inv
<1> SUFFICES ASSUME Init PROVE Inv
    OBVIOUS
<1>1. TypeOK
    BY CacheAssumption DEF Init, TypeOK
<1>2. conf.ttl <= MaxTtl /\ TenantIsolation /\ BoundedStaleness
    BY CacheAssumption DEF Init, TenantIsolation, BoundedStaleness
<1>3. \A r \in Reqs : RequestOK(req[r])
    BY IdleFacts DEF Init
<1>4. \A k \in Keys : cache[k] = Nil
    BY DEF Init
<1> QED BY <1>1, <1>2, <1>3, <1>4 DEF Inv

\* The inductive invariant.
LEMMA CacheInvariant == Spec => []Inv
BY InvInit, InvStep, PTL DEF Spec

\* The rows, the cache and the handlers' state keep their types.
THEOREM CacheTypeCorrect == Spec => []TypeOK
<1>1. Inv => TypeOK
    BY DEF Inv
<1> QED BY <1>1, CacheInvariant, PTL

\* No answer holds a row of another tenant, however requests of several tenants
\* are interleaved over the shared cache, with any failures of Redis and any
\* handler dropped at any await.
THEOREM TenantsIsolated == Spec => []TenantIsolation
<1>1. Inv => TenantIsolation
    BY DEF Inv
<1> QED BY <1>1, CacheInvariant, PTL

\* No answer is older than the longest TTL and one request timeout, whatever is
\* not invalidated: failed DELs, dropped handlers, the worker's writes, and slow
\* readers that store after a newer write.
THEOREM StalenessBounded == Spec => []BoundedStaleness
<1>1. Inv => BoundedStaleness
    BY DEF Inv
<1> QED BY <1>1, CacheInvariant, PTL

-----------------------------------------------------------------------------
(* Invalidation on writes.                                                 *)

\* One request at a time, a Redis that does not fail, no writes by the worker.
Sequential == ~Faulty /\ ~Grpc /\ \A r, s \in Reqs : r = s

\* A payload says what the rows say.
Current(p) == \A x \in p.items : db[x.id] = x.ver

Fresh(k, p) == Current(p) /\ (k \in Tenants => p.total = Cardinality(Rows(k, Ids)))

\* A write has been made and the key's DEL is still to come.
Dirty(k) ==
    \E r \in Reqs : \/ req[r].pc = "del_backup" /\ k \in {req[r].id, req[r].who}
                    \/ req[r].pc = "del_list" /\ k = req[r].who

\* What a request has read is still what the rows say, and only a page without
\* a filter is cached.
ReadOK(q) ==
    /\ q.pc \in {"get_fill", "list_count"} => Current(q.got)
    /\ q.pc = "list_fill" => Fresh(q.who, q.got)
    /\ q # Idle /\ q.use => ~q.filtered

FreshInv ==
    /\ ~redis => \A k \in Keys : cache[k] = Nil
    /\ \A k \in Keys : cache[k] # Nil /\ ~Dirty(k) => Fresh(k, cache[k].data)
    /\ \A r \in Reqs : ReadOK(req[r])

\* A tenant's rows are the same when the same ids are visible.
LEMMA RowsKept ==
    ASSUME NEW t, \A i \in Ids : Visible(t, i) <=> (db'[i] > 0 /\ owner'[i] = t)
    PROVE  Rows(t, Ids)' = Rows(t, Ids)
BY DEF Rows, Visible

\* Freshness is about the rows only.
LEMMA FreshKept ==
    ASSUME UNCHANGED <<db, owner>>, NEW k \in Keys, Fresh(k, cache'[k].data)
    PROVE  Fresh(k, cache[k].data)'
<1>1. Rows(k, Ids)' = Rows(k, Ids)
    BY DEF Rows, Visible
<1> QED BY <1>1 DEF Fresh, Current

\* What a step that leaves the rows has to show.
LEMMA FreshFromParts ==
    ASSUME Sequential, FreshInv, UNCHANGED <<db, owner, redis>>, NEW r \in Reqs, ReadOK(req[r])',
           ~redis => \A k \in Keys : cache'[k] = Nil,
           \A k \in Keys : cache'[k] # Nil /\ ~Dirty(k)' => Fresh(k, cache'[k].data)
    PROVE  FreshInv'
<1>1. \A s \in Reqs : ReadOK(req[s])'
    BY DEF Sequential
<1>2. ASSUME NEW k \in Keys, cache'[k] # Nil, ~Dirty(k)' PROVE Fresh(k, cache[k].data)'
    BY <1>2, FreshKept
<1> QED BY <1>1, <1>2 DEF FreshInv

\* Before a request that is not invalidating moves, every entry is fresh.
LEMMA AllFresh ==
    ASSUME Sequential, FreshInv, NEW r \in Reqs, req[r].pc \notin {"del_backup", "del_list"}
    PROVE  \A k \in Keys : cache[k] # Nil => Fresh(k, cache[k].data)
<1>1. \A k \in Keys : ~Dirty(k)
    BY DEF Sequential, Dirty
<1> QED BY <1>1 DEF FreshInv

\* A step that only moves a request that reads.
LEMMA FreshMove ==
    ASSUME Sequential, FreshInv, NEW r \in Reqs, UNCHANGED <<db, owner, redis, cache>>,
           req[r].pc \notin {"del_backup", "del_list"}, ReadOK(req[r])'
    PROVE  FreshInv'
<1>1. \A k \in Keys : cache'[k] # Nil => Fresh(k, cache'[k].data)
    BY AllFresh
<1>2. ~redis => \A k \in Keys : cache'[k] = Nil
    BY DEF FreshInv
<1> QED BY <1>1, <1>2, FreshFromParts

\* A handler that answers has nothing left to store.
LEMMA ReadIdle ==
    ASSUME NEW r \in Reqs, req'[r] = Idle
    PROVE  ReadOK(req[r])'
<1>1. (req[r]').pc = "idle"
    BY IdleFacts
<1> QED BY <1>1 DEF ReadOK, Idle

\* GET /backups/{id} begins, or a write is not found.
LEMMA FreshBegin ==
    ASSUME Sequential, Inv, FreshInv, NEW r \in Reqs, NEW t \in Tenants, NEW i \in Ids,
           get_backup(r, t, i) \/ not_found(r, t, i)
    PROVE  FreshInv'
<1>1. TypeOK /\ req[r] = Idle /\ UNCHANGED <<db, owner, redis, cache>>
    BY DEF Inv, get_backup, not_found, dbVars
<1>2. \/ req' = [req EXCEPT ![r] = Idle]
      \/ req' = [req EXCEPT ![r] = New("get_select", t, i)]
    BY DEF get_backup, not_found, Answer
<1>3. ReadOK(req[r])'
    <2>1. CASE req' = [req EXCEPT ![r] = Idle]
        BY <1>1, <2>1, ReadIdle DEF TypeOK
    <2>2. CASE req' = [req EXCEPT ![r] = New("get_select", t, i)]
        <3>1. req'[r].pc = "get_select" /\ req'[r].use = FALSE
            BY <1>1, <2>2 DEF TypeOK, New
        <3> QED BY <3>1 DEF ReadOK
    <2> QED BY <1>2, <2>1, <2>2
<1>4. req[r].pc \notin {"del_backup", "del_list"}
    BY <1>1, IdleFacts
<1> QED BY <1>1, <1>3, <1>4, FreshMove

\* GET /backups begins: a page with a filter is not for the cache.
LEMMA FreshList ==
    ASSUME Sequential, Inv, FreshInv, NEW r \in Reqs, NEW t \in Tenants,
           NEW limit \in Limits, NEW offset \in Offsets, NEW filtered \in Filtered,
           list_backups(r, t, limit, offset, filtered)
    PROVE  FreshInv'
<1> DEFINE use == ~filtered /\ offset = conf.offset /\ limit = conf.limit
           pc == IF use THEN "list_cached" ELSE "list_items"
           q == [New(pc, t, Nil) EXCEPT !.limit = limit, !.offset = offset,
                                        !.filtered = filtered, !.use = use]
<1>1. TypeOK /\ req[r] = Idle /\ UNCHANGED <<db, owner, redis, cache>> /\ req' = [req EXCEPT ![r] = q]
    BY DEF Inv, list_backups, dbVars
<1>2. use => ~filtered
    OBVIOUS
<1>3. pc \in {"list_cached", "list_items"}
    OBVIOUS
<1> HIDE DEF use, pc
<1>4. q.pc = pc /\ q.use = use /\ q.filtered = filtered
    BY DEF New
<1> HIDE DEF q
<1>5. req'[r] = q
    BY <1>1 DEF TypeOK
<1>6. ReadOK(req[r])'
    BY <1>2, <1>3, <1>4, <1>5 DEF ReadOK
<1>7. req[r].pc \notin {"del_backup", "del_list"}
    BY <1>1, IdleFacts
<1> QED BY <1>1, <1>6, <1>7, FreshMove

\* The SELECTs read the rows as they are.
LEMMA FreshRead ==
    ASSUME Sequential, Inv, FreshInv, NEW r \in Reqs,
           get_select(r) \/ list_cached(r) \/ list_items(r) \/ list_count(r)
    PROVE  FreshInv'
<1>1. TypeOK /\ RequestOK(req[r]) /\ ReadOK(req[r]) /\ UNCHANGED <<db, owner, redis, cache>>
    BY DEF Inv, FreshInv, get_select, list_cached, list_items, list_count, dbVars
<1>2. req[r].pc \in {"get_select", "list_cached", "list_items", "list_count"}
    BY DEF get_select, list_cached, list_items, list_count
<1>3. req[r] \in Request /\ req[r] # Idle
    BY <1>1, <1>2, IsRequest DEF Steps
<1>4. req[r].use => ~req[r].filtered
    BY <1>1, <1>3 DEF ReadOK
<1>5. ASSUME NEW t, NEW l, NEW p, Answer(r, t, l, p) PROVE ReadOK(req[r])'
    BY <1>1, <1>5, ReadIdle DEF Answer, TypeOK
<1>6. CASE get_select(r)
    <2> DEFINE i == req[r].id
    <2>1. i \in Ids
        BY <1>1, <1>6 DEF get_select, RequestOK
    <2>2. CASE Visible(req[r].who, i) /\ Goto(r, "get_fill", One(i))
        <3>1. /\ One(i) \in Payload /\ One(i).items = {Row(i)}
              /\ Row(i).id = i /\ Row(i).ver = db[i]
            BY <1>1, <2>1, <2>2, OneType, RowType DEF Visible
        <3>2. /\ req'[r].pc = "get_fill" /\ req'[r].got = One(i)
              /\ req'[r].use = req[r].use /\ req'[r].filtered = req[r].filtered
            BY <1>1, <1>3, <2>2, <3>1, GotoEffect DEF Steps
        <3> QED BY <1>1, <1>4, <3>1, <3>2, <1>2, FreshMove DEF ReadOK, Current
    <2>3. CASE Answer(r, req[r].who, 0, Nothing)
        BY <1>1, <1>2, <1>5, <2>3, FreshMove
    <2> QED BY <1>6, <2>2, <2>3 DEF get_select
<1>7. CASE list_cached(r)
    <2>1. CASE Goto(r, "list_items", Nothing)
        <3>1. /\ req'[r].pc = "list_items"
              /\ req'[r].use = req[r].use /\ req'[r].filtered = req[r].filtered
            BY <1>1, <1>3, <2>1, NothingType, GotoEffect DEF Steps
        <3>2. ReadOK(req[r])'
            BY <1>4, <3>1 DEF ReadOK
        <3> QED BY <1>1, <1>2, <3>2, FreshMove
    <2>2. CASE \E t, l, p : Answer(r, t, l, p)
        BY <1>1, <1>2, <1>5, <2>2, FreshMove
    <2> QED BY <1>7, <2>1, <2>2 DEF list_cached
<1>8. CASE list_items(r)
    <2>1. PICK S \in Filters(r) :
            Goto(r, "list_count",
                 [items |-> {Row(i) : i \in Page(Rows(req[r].who, S), req[r].limit, req[r].offset)},
                  total |-> 0])
        BY <1>8 DEF list_items
    <2> DEFINE p == [items |-> {Row(i) : i \in Page(Rows(req[r].who, S), req[r].limit, req[r].offset)},
                     total |-> 0]
    <2>2. p \in Payload /\ \A x \in p.items : db[x.id] = x.ver
        <3>1. S \in SUBSET Ids
            BY DEF Filters
        <3> QED BY <1>1, <3>1, PageType
    <2>3. Goto(r, "list_count", p)
        BY <2>1
    <2> HIDE DEF p
    <2>4. /\ req'[r].pc = "list_count" /\ req'[r].got = p
          /\ req'[r].use = req[r].use /\ req'[r].filtered = req[r].filtered
        BY <1>1, <1>3, <2>2, <2>3, GotoEffect DEF Steps
    <2>5. ReadOK(req[r])'
        BY <1>1, <1>4, <2>2, <2>4 DEF ReadOK, Current
    <2> QED BY <1>1, <1>2, <2>5, FreshMove
<1>9. CASE list_count(r)
    <2>1. PICK S \in Filters(r) :
            LET p == [req[r].got EXCEPT !.total = Cardinality(Rows(req[r].who, S))] IN
            IF req[r].use THEN Goto(r, "list_fill", p) ELSE Answer(r, req[r].who, req[r].limit, p)
        BY <1>9 DEF list_count
    <2> DEFINE p == [req[r].got EXCEPT !.total = Cardinality(Rows(req[r].who, S))]
    <2>2. CASE ~req[r].use
        <3>1. Answer(r, req[r].who, req[r].limit, p)
            BY <2>1, <2>2
        <3> QED BY <1>1, <1>2, <1>5, <3>1, FreshMove
    <2>3. CASE req[r].use
        <3>1. S = Ids
            BY <1>4, <2>3 DEF Filters
        <3>2. /\ p \in Payload /\ p.items = req[r].got.items
              /\ p.total = Cardinality(Rows(req[r].who, Ids))
            <4>1. Cardinality(Rows(req[r].who, S)) \in 0..Cardinality(Ids)
                BY <3>1, CountType
            <4>2. req[r].got \in Payload
                BY <1>3, RequestFields
            <4> QED BY <3>1, <4>1, <4>2 DEF Payload
        <3>3. Goto(r, "list_fill", p)
            BY <2>1, <2>3
        <3> HIDE DEF p
        <3>4. /\ req'[r].pc = "list_fill" /\ req'[r].got = p /\ req'[r].who = req[r].who
              /\ req'[r].use = req[r].use /\ req'[r].filtered = req[r].filtered
            BY <1>1, <1>3, <3>2, <3>3, GotoEffect DEF Steps
        <3>5. Current(p)
            BY <1>1, <1>9, <3>2 DEF ReadOK, Current, list_count
        <3>6. Rows(req[r].who, Ids) = {i \in Ids : db'[i] > 0 /\ owner'[i] = req'[r].who}
            BY <1>1, <3>4 DEF Rows, Visible
        <3>7. Fresh(req[r].who, req[r].got)'
            BY <1>1, <3>2, <3>4, <3>5, <3>6 DEF Fresh, Current, Rows, Visible
        <3>8. ReadOK(req[r])'
            BY <1>4, <3>4, <3>7 DEF ReadOK
        <3> QED BY <1>1, <1>2, <3>8, FreshMove
    <2> QED BY <2>2, <2>3
<1> QED BY <1>6, <1>7, <1>8, <1>9

\* What is stored is what the rows say.
LEMMA FreshFill ==
    ASSUME Sequential, Inv, FreshInv, NEW r \in Reqs, get_fill(r) \/ list_fill(r)
    PROVE  FreshInv'
<1>1. TypeOK /\ RequestOK(req[r]) /\ ReadOK(req[r]) /\ UNCHANGED <<db, owner, redis>>
    BY DEF Inv, FreshInv, get_fill, list_fill, dbVars
<1>2. req[r].pc \in {"get_fill", "list_fill"} /\ req[r].pc \notin {"del_backup", "del_list"}
    BY DEF get_fill, list_fill
<1>3. req[r] \in Request /\ req[r] # Idle
    BY <1>1, <1>2, IsRequest DEF Steps
<1>4. req[r].who \in Tenants /\ req[r].got \in Payload
    BY <1>3, RequestFields
<1>5. ReadOK(req[r])'
    BY <1>1, ReadIdle DEF get_fill, list_fill, Answer, TypeOK
<1>6. PICK k \in Keys : set_ex(k, req[r].got) /\ Fresh(k, req[r].got)
    <2>1. CASE get_fill(r)
        <3>1. req[r].id \in Ids /\ req[r].id \notin Tenants
            BY <1>1, <2>1, CacheAssumption DEF get_fill, RequestOK
        <3>2. Fresh(req[r].id, req[r].got)
            BY <1>1, <2>1, <3>1 DEF get_fill, ReadOK, Fresh
        <3> QED BY <2>1, <3>1, <3>2 DEF get_fill, Keys
    <2>2. CASE list_fill(r)
        BY <1>1, <1>4, <2>2 DEF list_fill, ReadOK, Keys
    <2> QED BY <2>1, <2>2
<1>7. /\ \A j \in Keys : j # k => cache'[j] = cache[j]
      /\ cache'[k] = cache[k] \/ (redis /\ cache'[k].data = req[r].got)
    BY <1>1, <1>4, <1>6, SetEffect
<1>8. \A j \in Keys : cache'[j] # Nil => Fresh(j, cache'[j].data)
    BY <1>2, <1>6, <1>7, AllFresh
<1>9. ~redis => \A j \in Keys : cache'[j] = Nil
    BY <1>7 DEF FreshInv
<1> QED BY <1>1, <1>5, <1>8, <1>9, FreshFromParts

\* A write to row i of tenant t leaves every entry fresh but those its DELs are
\* for.
LEMMA FreshWrite ==
    ASSUME Sequential, Inv, FreshInv, NEW r \in Reqs, NEW t \in Tenants, NEW i \in Ids,
           req[r] = Idle, owner[i] \in {t, Nil}, owner'[i] = t,
           \A j \in Ids : j # i => db'[j] = db[j] /\ owner'[j] = owner[j],
           UNCHANGED <<redis, cache>>, ReadOK(req[r])',
           \A k \in Keys : ~Dirty(k)' => k # t /\ (k # i \/ owner[i] = Nil)
    PROVE  FreshInv'
<1>1. TypeOK /\ \A k \in Keys : cache[k] # Nil => Fresh(k, cache[k].data)
    BY IdleFacts, AllFresh DEF Inv
<1>2. \A s \in Reqs : ReadOK(req[s])'
    BY DEF Sequential
<1>3. ASSUME NEW k \in Keys, cache'[k] # Nil, ~Dirty(k)' PROVE Fresh(k, cache[k].data)'
    <2>1. k # t /\ (k # i \/ owner[i] = Nil) /\ cache'[k] = cache[k] /\ cache[k] # Nil
        BY <1>3
    <2>2. EntryOK(k, cache[k]) /\ Fresh(k, cache[k].data)
        BY <1>1, <2>1 DEF Inv
    <2>3. k # Nil /\ (k \in Ids \/ k \in Tenants)
        BY CacheAssumption DEF Keys
    <2>4. \A x \in cache[k].data.items : x.id \in Ids /\ x.id # i
        <3> SUFFICES ASSUME NEW x \in cache[k].data.items PROVE x.id \in Ids /\ x.id # i
            OBVIOUS
        <3>1. x.id \in Ids
            BY <1>1, <2>1, EntryFields
        <3>2. owner[x.id] # Nil /\ (k \in Ids => x.id = k) /\ (k \in Tenants => owner[x.id] = k)
            BY <2>2 DEF EntryOK
        <3> QED BY <2>1, <2>3, <3>1, <3>2
    <2>5. k \in Tenants => Rows(k, Ids)' = Rows(k, Ids)
        <3> SUFFICES ASSUME k \in Tenants PROVE Rows(k, Ids)' = Rows(k, Ids)
            OBVIOUS
        <3>1. \A j \in Ids : Visible(k, j) <=> (db'[j] > 0 /\ owner'[j] = k)
            BY <2>1, <2>3 DEF Visible
        <3> QED BY <3>1, RowsKept
    <2> QED BY <2>1, <2>2, <2>4, <2>5 DEF Fresh, Current
<1> QED BY <1>2, <1>3 DEF FreshInv

\* INSERT, UPDATE and DELETE.
LEMMA FreshWrites ==
    ASSUME Sequential, Inv, FreshInv, NEW r \in Reqs, NEW t \in Tenants, NEW i \in Ids,
           create_backup(r, t, i) \/ update_backup(r, t, i) \/ delete_backup(r, t, i)
    PROVE  FreshInv'
<1>1. TypeOK /\ req[r] = Idle /\ UNCHANGED <<redis, cache>>
    BY DEF Inv, create_backup, update_backup, delete_backup
<1>2. /\ owner[i] \in {t, Nil} /\ owner'[i] = t
      /\ \A j \in Ids : j # i => db'[j] = db[j] /\ owner'[j] = owner[j]
    BY <1>1 DEF create_backup, update_backup, delete_backup, Visible, TypeOK
<1>3. /\ req'[r].who = t /\ req'[r].id = i /\ req'[r].use = FALSE
      /\ \/ req'[r].pc = "del_backup"
         \/ req'[r].pc = "del_list" /\ owner[i] = Nil
    BY <1>1 DEF create_backup, update_backup, delete_backup, New, TypeOK
<1>4. ReadOK(req[r])'
    BY <1>3 DEF ReadOK
<1>5. ASSUME NEW k \in Keys, ~Dirty(k)' PROVE k # t /\ (k # i \/ owner[i] = Nil)
    <2>1. /\ ~(req'[r].pc = "del_backup" /\ k \in {req'[r].id, req'[r].who})
          /\ ~(req'[r].pc = "del_list" /\ k = req'[r].who)
        BY <1>5 DEF Dirty
    <2> QED BY <1>3, <2>1
<1> QED BY <1>1, <1>2, <1>4, <1>5, FreshWrite

\* The DELs remove what the write made stale.
LEMMA FreshInvalidate ==
    ASSUME Sequential, Inv, FreshInv, NEW r \in Reqs,
           invalidate_backup(r) \/ invalidate_tenant_backups(r)
    PROVE  FreshInv'
<1>1. TypeOK /\ RequestOK(req[r]) /\ UNCHANGED <<db, owner, redis>>
    BY DEF Inv, invalidate_backup, invalidate_tenant_backups, dbVars
<1>2. req[r] \in Request /\ req[r] # Idle
    BY <1>1, IsRequest DEF invalidate_backup, invalidate_tenant_backups, Steps
<1>3. req[r].who \in Tenants /\ req[r].id \in Ids /\ req[r].who \in Keys /\ req[r].id \in Keys
    BY <1>1, <1>2, RequestFields DEF RequestOK, Keys, invalidate_backup, invalidate_tenant_backups
<1>4. ASSUME NEW k \in Keys, del(k), ReadOK(req[r])',
             \A j \in Keys : j # k /\ ~Dirty(j)' => ~Dirty(j)
      PROVE  FreshInv'
    <2>1. /\ \A j \in Keys : j # k => cache'[j] = cache[j]
          /\ cache'[k] = cache[k] \/ cache'[k] = Nil
          /\ redis => cache'[k] = Nil
        BY <1>1, <1>4, DelEffect DEF Sequential
    <2>2. ~redis => \A j \in Keys : cache'[j] = Nil
        BY <2>1 DEF FreshInv
    <2>3. \A j \in Keys : cache'[j] # Nil /\ ~Dirty(j)' => Fresh(j, cache'[j].data)
        BY <1>4, <2>1, <2>2 DEF FreshInv
    <2> QED BY <1>1, <1>4, <2>2, <2>3, FreshFromParts
<1>5. CASE invalidate_backup(r)
    <2>1. req[r].pc = "del_backup" /\ del(req[r].id) /\ Goto(r, "del_list", Nothing)
        BY <1>5 DEF invalidate_backup
    <2>2. /\ req'[r] \in Request /\ req'[r].pc = "del_list" /\ req'[r].who = req[r].who
          /\ req'[r].use = req[r].use /\ req'[r].filtered = req[r].filtered
        BY <1>1, <1>2, <2>1, NothingType, GotoEffect DEF Steps
    <2>3. ReadOK(req[r])'
        BY <1>2, <2>2 DEF ReadOK, FreshInv
    <2>4. ASSUME NEW j \in Keys, j # req[r].id, ~Dirty(j)' PROVE ~Dirty(j)
        <3>1. j # req[r].who
            BY <2>2, <2>4 DEF Dirty
        <3> QED BY <2>1, <2>4, <3>1 DEF Dirty, Sequential
    <2> QED BY <1>3, <1>4, <2>1, <2>3, <2>4
<1>6. CASE invalidate_tenant_backups(r)
    <2>1. req[r].pc = "del_list" /\ del(req[r].who) /\ req' = [req EXCEPT ![r] = Idle]
        BY <1>6 DEF invalidate_tenant_backups, Answer
    <2>2. ReadOK(req[r])'
        BY <1>1, <2>1, ReadIdle DEF TypeOK
    <2>3. \A j \in Keys : j # req[r].who => ~Dirty(j)
        BY <2>1 DEF Dirty, Sequential
    <2> QED BY <1>3, <1>4, <2>1, <2>2, <2>3
<1> QED BY <1>5, <1>6

\* Apollo's updates and expiry.
LEMMA FreshOutside ==
    ASSUME FreshInv, UNCHANGED <<db, owner, redis, req>>,
           \A k \in Keys : cache'[k] = cache[k] \/ cache'[k] = Nil
    PROVE  FreshInv'
<1>1. \A k \in Keys : Dirty(k)' <=> Dirty(k)
    BY DEF Dirty
<1>2. ASSUME NEW k \in Keys, cache'[k] # Nil, ~Dirty(k)' PROVE Fresh(k, cache[k].data)'
    <2>1. cache'[k] = cache[k] /\ Fresh(k, cache'[k].data)
        BY <1>1, <1>2 DEF FreshInv
    <2> QED BY <2>1, FreshKept
<1>3. ASSUME NEW r \in Reqs PROVE ReadOK(req[r])'
    <2>1. Rows(req[r].who, Ids)' = Rows(req[r].who, Ids)
        BY DEF Rows, Visible
    <2> QED BY <2>1 DEF FreshInv, ReadOK, Fresh, Current, Idle
<1> QED BY <1>2, <1>3 DEF FreshInv

\* Every step keeps what is cached fresh.
LEMMA FreshStep ==
    ASSUME Sequential, Inv, FreshInv, [Next]_vars
    PROVE  FreshInv'
<1>1. CASE UNCHANGED vars
    BY <1>1, FreshOutside DEF vars
<1>2. ASSUME NEW r \in Reqs, NEW t \in Tenants, request_begins(r, t) PROVE FreshInv'
    BY <1>2, FreshBegin, FreshList, FreshWrites DEF request_begins
<1>3. ASSUME NEW r \in Reqs, request_goes_on(r) PROVE FreshInv'
    <2>1. ~dropped(r)
        BY DEF Sequential, dropped
    <2> QED BY <1>3, <2>1, FreshRead, FreshFill, FreshInvalidate DEF request_goes_on
<1>4. ASSUME NEW u \in Updates, apply_update(u) PROVE FreshInv'
    BY <1>4, FreshOutside DEF apply_update, dbVars
<1>5. CASE Tick
    BY <1>5, FreshOutside DEF Tick, dbVars
<1>6. ~(\E i \in Ids : grpc_write(i)) /\ ~(\E k \in Keys : Evict(k))
    BY DEF Sequential, grpc_write, Evict
<1> QED BY <1>1, <1>2, <1>3, <1>4, <1>5, <1>6 DEF Next

\* With one request at a time, a Redis that does not fail and no writes by the
\* worker, invalidation on writes holds whatever the settings become: when no
\* request is under way, no cached row or page has changed since.
THEOREM SequentialWritesInvalidate ==
    ASSUME Sequential
    PROVE  Spec => []WritesInvalidate
<1>1. Init => FreshInv
    <2>1. Init => \A r \in Reqs : ReadOK(req[r])
        BY IdleFacts DEF Init, ReadOK
    <2> QED BY <2>1 DEF Init, FreshInv
<1>2. Inv /\ FreshInv /\ [Next]_vars => FreshInv'
    BY FreshStep
<1>3. Inv /\ FreshInv => WritesInvalidate
    <2> SUFFICES ASSUME FreshInv, \A r \in Reqs : req[r] = Idle, NEW k \in Keys, cache[k] # Nil
                 PROVE  Fresh(k, cache[k].data)
        BY DEF WritesInvalidate, Fresh, Current
    <2>1. ~Dirty(k)
        BY IdleFacts DEF Dirty
    <2> QED BY <2>1 DEF FreshInv
<1> QED BY <1>1, <1>2, <1>3, CacheInvariant, PTL DEF Spec
=============================================================================
