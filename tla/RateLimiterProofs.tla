-------------------------- MODULE RateLimiterProofs --------------------------
(***************************************************************************)
(* Theorems about RateLimiter, for any finite set of replicas, any tenants *)
(* and requests in flight, any limits Apollo may serve, and any number of  *)
(* restarts.                                                               *)
(***************************************************************************)
EXTENDS RateLimiter, FiniteSetTheorems, TLAPS

\* Every copy of the limits is within the configured range.
Within(l) == l.max <= MaxLimit /\ l.window >= MinWindow

LimitInv ==
    /\ \A p \in Replicas : Within(conf[p])
    /\ \A r \in Reqs : req[r] # Nil => Within(req[r].lim)

\* A window began in the past, and not after the denial that ended in it.
CounterInv ==
    \A p \in Replicas, t \in Tenants :
        counters[p][t] # Nil =>
            /\ counters[p][t].start <= now
            /\ told[p][t] # Nil => told[p][t].at >= counters[p][t].start + told[p][t].window

\* A restart gives its number to one process only.
LifeInv ==
    /\ \A p \in Replicas : life[p] <= restarts
    /\ \A p, q \in Replicas : life[p] = life[q] /\ life[p] > 0 => p = q

\* An admission, and the process it was made by.
Past(a) ==
    /\ a.n \in 1..MaxLimit
    /\ a.start <= a.time /\ a.time <= now
    /\ a.life <= life[a.at]
    /\ \A p \in Replicas : a.life = life[p] /\ a.life > 0 => p = a.at

\* An admission and the counter of its tenant: it was counted in the window
\* that is open, or in one that was over when this one began, or by a process
\* that was gone by then.
Current(a) ==
    LET c == counters[a.at][a.who] IN
    /\ a.life = life[a.at] =>
        /\ c # Nil
        /\ a.start = c.start => a.n <= c.count
        /\ a.start # c.start => a.start + MinWindow <= c.start /\ a.time <= c.start
    /\ a.life < life[a.at] /\ c # Nil => a.time <= c.start

\* Two admissions: they differ in their window or their place in it, and of two
\* windows one is over when the other begins.
Apart(a, b) ==
    /\ a.life = b.life /\ a.life > 0 => a.at = b.at
    /\ a.who = b.who /\ a.at = b.at =>
        /\ a.life = b.life /\ a.start = b.start => a.n # b.n
        /\ a.life = b.life /\ a.start < b.start =>
            a.start + MinWindow <= b.start /\ a.time <= b.start
        /\ a.life < b.life => a.time <= b.start

\* With a window of 0 every request opens a window of its own, so that this
\* holds only for longer ones.
AdmissionInv ==
    MinWindow > 0 =>
        /\ \A j \in DOMAIN admitted : Past(admitted[j]) /\ Current(admitted[j])
        /\ \A j, k \in DOMAIN admitted : j # k => Apart(admitted[j], admitted[k])

TimeInv == \A j \in DOMAIN admitted : admitted[j].time <= now

Inv == TypeOK /\ LimitInv /\ CounterInv /\ LifeInv /\ AdmissionInv /\ TimeInv

-----------------------------------------------------------------------------
(* Types and limits.                                                       *)

\* What a request is counted in.
LEMMA CountedType ==
    ASSUME TypeOK, NEW r \in Reqs, req[r] # Nil
    PROVE  LET c == counters[req[r].at][req[r].who]
               d == Counted(Window(c, req[r].lim.window))
           IN  /\ req[r] \in Waiting /\ c \in Counter \cup {Nil}
               /\ d \in Counter /\ d.count >= 1
               /\ c = Nil \/ now - c.start >= req[r].lim.window => d.start = now /\ d.count = 1
               /\ c # Nil /\ ~(now - c.start >= req[r].lim.window) =>
                    d.start = c.start /\ d.count = c.count + 1
<1> DEFINE c == counters[req[r].at][req[r].who]
           w == Window(c, req[r].lim.window)
<1>1. req[r] \in Waiting /\ c \in Counter \cup {Nil}
    BY DEF TypeOK, Waiting
<1>2. w \in Counter
    BY <1>1, LimiterAssumption DEF TypeOK, Window, Counter
<1>3. Counted(w) \in Counter /\ Counted(w).count = w.count + 1 /\ Counted(w).start = w.start
    BY <1>2 DEF Counted, Counter
<1>4. w.count \in Nat
    BY <1>2 DEF Counter
<1>5. CASE c = Nil \/ now - c.start >= req[r].lim.window
    <2>1. w = [count |-> 0, start |-> now]
        BY <1>5 DEF Window
    <2> QED BY <1>1, <1>3, <1>5, <2>1
<1>6. CASE c # Nil /\ ~(now - c.start >= req[r].lim.window)
    <2>1. w = c
        BY <1>6 DEF Window
    <2> QED BY <1>1, <1>3, <1>4, <1>6, <2>1
<1> QED BY <1>5, <1>6

\* The new values of the counter, of the denial and of the history.
LEMMA CheckEffect ==
    ASSUME TypeOK, NEW r \in Reqs, check_and_increment(r)
    PROVE  LET p == req[r].at
               t == req[r].who
               d == Counted(Window(counters[p][t], req[r].lim.window))
           IN  /\ p \in Replicas /\ t \in Tenants /\ req[r] \in Waiting
               /\ counters'[p][t] = d
               /\ told'[p][t] = IF d.count <= req[r].lim.max THEN Nil
                                ELSE [at |-> now + req[r].lim.window, window |-> req[r].lim.window]
               /\ \A q \in Replicas, u \in Tenants : q # p \/ u # t =>
                    counters'[q][u] = counters[q][u] /\ told'[q][u] = told[q][u]
               /\ counters' \in [Replicas -> [Tenants -> Counter \cup {Nil}]]
               /\ told' \in [Replicas -> [Tenants -> [at : Nat, window : Nat] \cup {Nil}]]
<1> DEFINE p == req[r].at
           t == req[r].who
           d == Counted(Window(counters[p][t], req[r].lim.window))
           x == IF d.count <= req[r].lim.max THEN Nil
                ELSE [at |-> now + req[r].lim.window, window |-> req[r].lim.window]
<1>1. req[r] \in Waiting /\ d \in Counter
    BY CountedType DEF check_and_increment
<1>2. p \in Replicas /\ t \in Tenants /\ req[r].lim.window \in Nat
    BY <1>1 DEF Waiting, Limits, Fields
<1>3. x \in [at : Nat, window : Nat] \cup {Nil}
    BY <1>2, LimiterAssumption DEF TypeOK
<1>4. counters' = [counters EXCEPT ![p][t] = d] /\ told' = [told EXCEPT ![p][t] = x]
    BY DEF check_and_increment
<1> HIDE DEF p, t, d, x
<1>5. /\ counters'[p][t] = d /\ told'[p][t] = x
      /\ \A q \in Replicas, u \in Tenants : q # p \/ u # t =>
            counters'[q][u] = counters[q][u] /\ told'[q][u] = told[q][u]
    BY <1>2, <1>4 DEF TypeOK
<1>6. counters' \in [Replicas -> [Tenants -> Counter \cup {Nil}]]
    BY <1>1, <1>2, <1>4 DEF TypeOK
<1>7. told' \in [Replicas -> [Tenants -> [at : Nat, window : Nat] \cup {Nil}]]
    BY <1>2, <1>3, <1>4 DEF TypeOK
<1> QED BY <1>1, <1>2, <1>5, <1>6, <1>7 DEF p, t, d, x

\* An admission is well typed.
LEMMA AdmittedType ==
    ASSUME TypeOK, NEW p \in Replicas, NEW t \in Tenants, NEW c \in Counter
    PROVE  Admitted(p, t, c) \in Admission
BY DEF TypeOK, Admitted, Admission, Counter

\* check_and_increment keeps the types.
LEMMA CheckType ==
    ASSUME TypeOK, NEW r \in Reqs, check_and_increment(r)
    PROVE  TypeOK'
<1> DEFINE p == req[r].at
           t == req[r].who
           d == Counted(Window(counters[p][t], req[r].lim.window))
           ok == d.count <= req[r].lim.max
<1>1. req[r] \in Waiting /\ p \in Replicas /\ t \in Tenants /\ d \in Counter
    BY CheckEffect, CountedType DEF check_and_increment
<1>2. last' \in [ok : BOOLEAN, waited : BOOLEAN, lim : Limits] \cup {Nil}
    <2> DEFINE waited == /\ told[p][t] # Nil /\ now >= told[p][t].at
                         /\ req[r].lim.window <= told[p][t].window
    <2>1. last' = [ok |-> ok, lim |-> req[r].lim, waited |-> waited]
        BY DEF check_and_increment
    <2>2. req[r].lim \in Limits
        BY <1>1 DEF Waiting
    <2>3. ok \in BOOLEAN /\ waited \in BOOLEAN
        OBVIOUS
    <2> HIDE DEF ok, waited
    <2> QED BY <2>1, <2>2, <2>3
<1>3. admitted' \in Seq(Admission)
    BY <1>1, AdmittedType DEF TypeOK, check_and_increment
<1>4. req' \in [Reqs -> Waiting \cup {Nil}]
    BY DEF TypeOK, check_and_increment
<1>5. conf' = conf /\ life' = life /\ restarts' = restarts /\ now' = now
    BY DEF check_and_increment
<1> QED BY <1>2, <1>3, <1>4, <1>5, CheckEffect DEF TypeOK

\* The limits an update leaves are limits, within the configured range.
LEMMA UpdateLimits ==
    ASSUME TypeOK, LimitInv, NEW p \in Replicas, NEW u \in Updates
    PROVE  LET l == [f \in Fields |-> IF u[f] = Nil THEN conf[p][f] ELSE u[f]]
           IN  l \in Limits /\ Within(l)
<1> DEFINE l == [f \in Fields |-> IF u[f] = Nil THEN conf[p][f] ELSE u[f]]
<1>1. u \in [Fields -> Nat \cup {Nil}] /\ conf[p] \in [Fields -> Nat]
    BY LimiterAssumption DEF TypeOK, Limits
<1>2. "max" \in Fields /\ "window" \in Fields
    BY DEF Fields
<1>3. l \in Limits
    BY <1>1 DEF Limits
<1>4. l.max \in {conf[p].max, u["max"]} /\ (u["max"] = Nil => l.max = conf[p].max)
    BY <1>1, <1>2
<1>5. l.window \in {conf[p].window, u["window"]} /\ (u["window"] = Nil => l.window = conf[p].window)
    BY <1>1, <1>2
<1>6. Within(l)
    BY <1>4, <1>5, LimiterAssumption DEF LimitInv, Within
<1> QED BY <1>3, <1>6

\* The environment's limits are in the range.
LEMMA InitWithin == InitLimits \in Limits /\ Within(InitLimits)
<1>1. InitLimits["max"] \in Nat /\ InitLimits["window"] \in Nat
    BY LimiterAssumption DEF Fields
<1> QED BY <1>1, LimiterAssumption DEF Within, Limits

\* Types and limits together are inductive.
LEMMA TypeStep ==
    ASSUME TypeOK, LimitInv, [Next]_vars
    PROVE  TypeOK' /\ LimitInv'
<1>1. CASE UNCHANGED vars
    BY <1>1 DEF TypeOK, LimitInv, vars
<1>2. ASSUME NEW r \in Reqs, NEW p \in Replicas, NEW t \in Tenants, rate_limit_middleware(r, p, t)
      PROVE  TypeOK' /\ LimitInv'
    <2>1. [at |-> p, who |-> t, lim |-> conf[p]] \in Waiting
        BY DEF TypeOK, Waiting
    <2>2. TypeOK'
        BY <1>2, <2>1 DEF TypeOK, rate_limit_middleware
    <2>3. LimitInv'
        BY <1>2 DEF TypeOK, LimitInv, rate_limit_middleware
    <2> QED BY <2>2, <2>3
<1>3. ASSUME NEW r \in Reqs, check_and_increment(r) PROVE TypeOK' /\ LimitInv'
    BY <1>3, CheckType DEF TypeOK, LimitInv, check_and_increment
<1>4. ASSUME NEW r \in Reqs, dropped(r) PROVE TypeOK' /\ LimitInv'
    BY <1>4 DEF TypeOK, LimitInv, dropped
<1>5. ASSUME NEW p \in Replicas, NEW u \in Updates, apply_update(p, u) PROVE TypeOK' /\ LimitInv'
    <2> DEFINE l == [f \in Fields |-> IF u[f] = Nil THEN conf[p][f] ELSE u[f]]
    <2>1. l \in Limits /\ Within(l)
        BY UpdateLimits
    <2>2. conf' = [conf EXCEPT ![p] = l]
        BY <1>5 DEF apply_update
    <2> HIDE DEF l
    <2> QED BY <1>5, <2>1, <2>2 DEF TypeOK, LimitInv, apply_update
<1>6. ASSUME NEW p \in Replicas, restart(p) PROVE TypeOK' /\ LimitInv'
    <2>1. None \in [Tenants -> Counter \cup {Nil}] /\ None \in [Tenants -> [at : Nat, window : Nat] \cup {Nil}]
        BY DEF None
    <2>2. restarts' \in 0..MaxRestarts
        BY <1>6, LimiterAssumption DEF TypeOK, restart
    <2>3. TypeOK'
        BY <1>6, <2>1, <2>2, InitWithin DEF TypeOK, restart
    <2>4. LimitInv'
        BY <1>6, InitWithin DEF TypeOK, LimitInv, restart
    <2> QED BY <2>3, <2>4
<1>7. CASE Tick
    BY <1>7, LimiterAssumption DEF TypeOK, LimitInv, Tick
<1> QED BY <1>1, <1>2, <1>3, <1>4, <1>5, <1>6, <1>7 DEF Next

\* Nothing is counted at the start.
LEMMA TypeInit == Init => TypeOK /\ LimitInv
<1> SUFFICES ASSUME Init PROVE TypeOK /\ LimitInv
    OBVIOUS
<1>1. None \in [Tenants -> Counter \cup {Nil}] /\ None \in [Tenants -> [at : Nat, window : Nat] \cup {Nil}]
    BY DEF None
<1> QED BY <1>1, InitWithin, LimiterAssumption DEF Init, TypeOK, LimitInv

-----------------------------------------------------------------------------
(* Denials.                                                                *)

\* Steps other than check_and_increment, restart and Tick leave the counters.
LEMMA CountersUntouched ==
    ASSUME [Next]_vars, \A r \in Reqs : ~check_and_increment(r), \A p \in Replicas : ~restart(p), ~Tick
    PROVE  UNCHANGED <<counters, told, life, admitted, restarts, now>>
BY DEF Next, vars, rate_limit_middleware, dropped, apply_update

\* A denial keeps its distance from the window it ended in.
LEMMA CounterStep ==
    ASSUME TypeOK, CounterInv, [Next]_vars
    PROVE  CounterInv'
<1>1. ASSUME NEW r \in Reqs, check_and_increment(r) PROVE CounterInv'
    <2> DEFINE p == req[r].at
               t == req[r].who
               w == req[r].lim.window
               c == counters[p][t]
               d == Counted(Window(c, w))
    <2>1. /\ p \in Replicas /\ t \in Tenants /\ req[r] \in Waiting
          /\ counters'[p][t] = d
          /\ told'[p][t] # Nil => told'[p][t] = [at |-> now + w, window |-> w]
          /\ \A q \in Replicas, u \in Tenants : q # p \/ u # t =>
                counters'[q][u] = counters[q][u] /\ told'[q][u] = told[q][u]
        BY <1>1, CheckEffect
    <2>2. w \in Nat /\ now \in Nat
        BY <2>1, LimiterAssumption DEF Waiting, Limits, Fields, TypeOK
    <2>3. d.start \in Nat /\ d.start <= now
        <3>1. d \in Counter /\ (d.start = now \/ (c # Nil /\ d.start = c.start))
            BY <1>1, CountedType DEF check_and_increment
        <3>2. c # Nil => c.start <= now
            BY <2>1 DEF CounterInv
        <3> QED BY <2>2, <3>1, <3>2 DEF Counter
    <2>4. told'[p][t] # Nil => told'[p][t].at >= d.start + told'[p][t].window
        BY <2>1, <2>2, <2>3
    <2>5. now' = now
        BY <1>1 DEF check_and_increment
    <2> HIDE DEF p, t, w, c, d
    <2> SUFFICES ASSUME NEW q \in Replicas, NEW u \in Tenants, counters'[q][u] # Nil
                 PROVE  /\ counters'[q][u].start <= now'
                        /\ told'[q][u] # Nil => told'[q][u].at >= counters'[q][u].start + told'[q][u].window
        BY DEF CounterInv
    <2>6. CASE q = p /\ u = t
        BY <2>1, <2>3, <2>4, <2>5, <2>6
    <2>7. CASE q # p \/ u # t
        BY <2>1, <2>5, <2>7 DEF CounterInv
    <2> QED BY <2>6, <2>7
<1>2. ASSUME NEW p \in Replicas, restart(p) PROVE CounterInv'
    <2>1. /\ now' = now
          /\ \A t \in Tenants : counters'[p][t] = Nil
          /\ \A q \in Replicas : q # p => counters'[q] = counters[q] /\ told'[q] = told[q]
        BY <1>2 DEF restart, TypeOK, None
    <2> QED BY <2>1 DEF CounterInv
<1>3. CASE Tick
    <2>1. now' = now + 1 /\ UNCHANGED <<counters, told>> /\ now \in Nat
        BY <1>3, LimiterAssumption DEF Tick, TypeOK
    <2>2. \A p \in Replicas, t \in Tenants : counters[p][t] # Nil => counters[p][t].start \in Nat
        BY LimiterAssumption DEF TypeOK, Counter
    <2> QED BY <2>1, <2>2 DEF CounterInv
<1>4. CASE UNCHANGED <<counters, told, now>>
    BY <1>4 DEF CounterInv
<1> QED BY <1>1, <1>2, <1>3, <1>4, CountersUntouched

\* The invariant the denials need.
LEMMA CounterInvariant == Spec => [](TypeOK /\ LimitInv /\ CounterInv)
<1>1. Init => CounterInv
    BY DEF Init, CounterInv, None
<1>2. TypeOK /\ LimitInv /\ CounterInv /\ [Next]_vars => (TypeOK /\ LimitInv /\ CounterInv)'
    BY TypeStep, CounterStep
<1> QED BY <1>1, <1>2, TypeInit, PTL DEF Spec

\* The state of the limiter keeps its types for any number of replicas, tenants
\* and requests.
THEOREM LimiterTypeCorrect == Spec => []TypeOK
BY CounterInvariant, PTL

\* A denied tenant that waits for Retry-After and comes next is let through,
\* whatever Apollo served meanwhile, unless the window has become longer or the
\* limit 0 (the counter's window is over by then, so that the count restarts).
THEOREM RetryLetsThrough == Spec => []RetryAfterHonoured
<1>1. Init => RetryAfterHonoured
    BY DEF Init, RetryAfterHonoured
<1>2. TypeOK /\ CounterInv /\ RetryAfterHonoured /\ [Next]_vars => RetryAfterHonoured'
    <2> SUFFICES ASSUME TypeOK, CounterInv, RetryAfterHonoured, [Next]_vars
                 PROVE  RetryAfterHonoured'
        OBVIOUS
    <2>1. ASSUME NEW r \in Reqs, check_and_increment(r) PROVE RetryAfterHonoured'
        <3> DEFINE p == req[r].at
                   t == req[r].who
                   lim == req[r].lim
                   c == counters[p][t]
                   d == Counted(Window(c, lim.window))
        <3>1. last' = [ok |-> d.count <= lim.max, lim |-> lim,
                       waited |-> /\ told[p][t] # Nil /\ now >= told[p][t].at
                                  /\ lim.window <= told[p][t].window]
            BY <2>1 DEF check_and_increment
        <3> SUFFICES ASSUME told[p][t] # Nil, now >= told[p][t].at,
                            lim.window <= told[p][t].window, lim.max > 0
                     PROVE  d.count <= lim.max
            BY <3>1 DEF RetryAfterHonoured
        <3>2. p \in Replicas /\ t \in Tenants /\ lim.max \in Nat /\ lim.window \in Nat /\ now \in Nat
            <4>1. p \in Replicas /\ t \in Tenants /\ req[r] \in Waiting
                BY <2>1, CheckEffect
            <4>2. lim.max \in Nat /\ lim.window \in Nat
                BY <4>1 DEF Waiting, Limits, Fields
            <4>3. now \in Nat
                BY LimiterAssumption DEF TypeOK
            <4> QED BY <4>1, <4>2, <4>3
        <3>3. c = Nil \/ now - c.start >= lim.window
            <4> SUFFICES ASSUME c # Nil PROVE now - c.start >= lim.window
                OBVIOUS
            <4>1. told[p][t].at >= c.start + told[p][t].window
                BY <3>2 DEF CounterInv
            <4>2. c.start \in Nat /\ told[p][t].at \in Nat /\ told[p][t].window \in Nat
                BY <3>2, LimiterAssumption DEF TypeOK, Counter
            <4> QED BY <3>2, <4>1, <4>2
        <3>4. d.count = 1
            BY <2>1, <3>3, CountedType DEF check_and_increment
        <3> QED BY <3>2, <3>4
    <2>2. CASE UNCHANGED vars
        BY <2>2 DEF RetryAfterHonoured, vars
    <2>3. CASE last' = Nil
        BY <2>3 DEF RetryAfterHonoured
    <2>4. Next /\ (\A r \in Reqs : ~check_and_increment(r)) => last' = Nil
        BY DEF Next, rate_limit_middleware, dropped, apply_update, restart, Tick
    <2> QED BY <2>1, <2>2, <2>3, <2>4
<1> QED BY <1>1, <1>2, CounterInvariant, PTL DEF Spec

-----------------------------------------------------------------------------
(* Admissions.                                                             *)

\* The fields of an admission.
LEMMA AdmissionFields ==
    ASSUME TypeOK, NEW j \in DOMAIN admitted
    PROVE  LET a == admitted[j] IN
           /\ a \in Admission /\ a.at \in Replicas /\ a.who \in Tenants
           /\ a.life \in Nat /\ a.start \in Nat /\ a.time \in Nat /\ a.n \in Nat
<1>1. admitted[j] \in Admission
    BY DEF TypeOK
<1> QED BY <1>1, LimiterAssumption DEF Admission

\* The numbers of a counter and of a replica.
LEMMA ReplicaNumbers ==
    ASSUME TypeOK, NEW p \in Replicas, NEW t \in Tenants
    PROVE  /\ life[p] \in Nat /\ restarts \in Nat /\ now \in Nat /\ MinWindow \in Nat
           /\ counters[p][t] # Nil => counters[p][t].start \in Nat /\ counters[p][t].count \in Nat
<1>1. life[p] \in 0..MaxRestarts /\ restarts \in 0..MaxRestarts /\ now \in 0..MaxTime
    BY DEF TypeOK
<1>2. counters[p][t] # Nil => counters[p][t] \in Counter
    BY DEF TypeOK
<1> QED BY <1>1, <1>2, LimiterAssumption DEF Counter

\* A restart takes a number that no process had.
LEMMA LifeStep ==
    ASSUME TypeOK, LifeInv, [Next]_vars
    PROVE  LifeInv'
<1>1. \A p \in Replicas : life[p] \in Nat /\ restarts \in Nat
    BY LimiterAssumption DEF TypeOK
<1>2. ASSUME NEW p \in Replicas, restart(p) PROVE LifeInv'
    <2>1. restarts' = restarts + 1 /\ life' = [life EXCEPT ![p] = restarts + 1]
        BY <1>2 DEF restart
    <2>2. life'[p] = restarts + 1 /\ \A q \in Replicas : q # p => life'[q] = life[q]
        BY <2>1 DEF TypeOK
    <2> QED BY <1>1, <2>1, <2>2 DEF LifeInv
<1>3. CASE UNCHANGED <<life, restarts>>
    BY <1>3 DEF LifeInv
<1>4. (\E r \in Reqs : check_and_increment(r)) \/ Tick => UNCHANGED <<life, restarts>>
    BY DEF check_and_increment, Tick
<1> QED BY <1>2, <1>3, <1>4, CountersUntouched

\* The new admission, and how it is counted after the others.
LEMMA NewAdmission ==
    ASSUME TypeOK, LimitInv, CounterInv, LifeInv, AdmissionInv, MinWindow > 0,
           NEW r \in Reqs, check_and_increment(r)
    PROVE  LET p == req[r].at
               t == req[r].who
               d == Counted(Window(counters[p][t], req[r].lim.window))
               b == Admitted(p, t, d)
           IN  /\ p \in Replicas /\ t \in Tenants /\ d \in Counter
               /\ counters'[p][t] = d /\ d # Nil /\ d.start <= now
               /\ \A j \in DOMAIN admitted :
                    LET a == admitted[j] IN
                    a.at = p /\ a.who = t =>
                        /\ a.life = life[p] =>
                            /\ a.start = d.start => a.n < d.count
                            /\ a.start # d.start => a.start + MinWindow <= d.start /\ a.time <= d.start
                        /\ a.life < life[p] => a.time <= d.start
               /\ d.count <= req[r].lim.max => b.n \in 1..MaxLimit
<1> DEFINE p == req[r].at
           t == req[r].who
           w == req[r].lim.window
           c == counters[p][t]
           d == Counted(Window(c, w))
           b == Admitted(p, t, d)
<1>1. /\ p \in Replicas /\ t \in Tenants /\ req[r] \in Waiting /\ d \in Counter
      /\ counters'[p][t] = d /\ d.count >= 1 /\ req[r] # Nil
    BY CheckEffect, CountedType DEF check_and_increment
<1>2. w \in Nat /\ w >= MinWindow /\ req[r].lim.max \in Nat /\ req[r].lim.max <= MaxLimit
    <2>1. w \in Nat /\ req[r].lim.max \in Nat
        BY <1>1 DEF Waiting, Limits, Fields
    <2>2. Within(req[r].lim)
        BY <1>1 DEF LimitInv
    <2> QED BY <2>1, <2>2 DEF Within
<1>3. d # Nil /\ d.start \in Nat /\ d.count \in Nat
    BY <1>1, LimiterAssumption DEF Counter
<1>4. \/ (c = Nil \/ now - c.start >= w) /\ d.start = now /\ d.count = 1
      \/ c # Nil /\ d.start = c.start /\ d.count = c.count + 1
    BY CountedType DEF check_and_increment
<1>5. /\ now \in Nat /\ life[p] \in Nat /\ MinWindow \in Nat
      /\ c # Nil => c.start \in Nat /\ c.count \in Nat /\ c.start <= now
    BY <1>1, ReplicaNumbers DEF CounterInv
<1> HIDE DEF p, t, w, c, d
<1>6. d.start <= now
    BY <1>4, <1>5
<1>7. ASSUME NEW j \in DOMAIN admitted, admitted[j].at = p, admitted[j].who = t
      PROVE  LET a == admitted[j] IN
             /\ a.life = life[p] =>
                /\ a.start = d.start => a.n < d.count
                /\ a.start # d.start => a.start + MinWindow <= d.start /\ a.time <= d.start
             /\ a.life < life[p] => a.time <= d.start
    <2> DEFINE a == admitted[j]
    <2>1. a.start \in Nat /\ a.time \in Nat /\ a.n \in Nat /\ a.life \in Nat
        BY AdmissionFields
    <2>2. Past(a) /\ Current(a)
        BY DEF AdmissionInv
    <2>3. a.time <= now /\ a.start <= a.time
        BY <2>2 DEF Past
    <2>4. /\ a.life = life[p] =>
                /\ c # Nil
                /\ a.start = c.start => a.n <= c.count
                /\ a.start # c.start => a.start + MinWindow <= c.start /\ a.time <= c.start
          /\ a.life < life[p] /\ c # Nil => a.time <= c.start
        BY <1>7, <2>2 DEF Current, c
    <2> HIDE DEF a
    <2>5. CASE (c = Nil \/ now - c.start >= w) /\ d.start = now /\ d.count = 1
        <3>1. a.life = life[p] => a.start + MinWindow <= now /\ a.start # now
            BY <1>2, <1>5, <2>1, <2>4, <2>5
        <3> QED BY <2>1, <2>3, <2>5, <3>1, <1>5 DEF a
    <2>6. CASE c # Nil /\ d.start = c.start /\ d.count = c.count + 1
        BY <1>5, <2>1, <2>4, <2>6 DEF a
    <2> QED BY <1>4, <2>5, <2>6
<1>8. d.count <= req[r].lim.max => b.n \in 1..MaxLimit
    BY <1>1, <1>2, <1>3, LimiterAssumption DEF Admitted
<1> QED BY <1>1, <1>3, <1>6, <1>7, <1>8 DEF p, t, w, c, d

\* What a step leaves of an admission made before.
LEMMA AdmissionKept ==
    ASSUME TypeOK, NEW j \in DOMAIN admitted, j \in DOMAIN admitted', admitted'[j] = admitted[j],
           Past(admitted[j]), Current(admitted[j]), UNCHANGED <<life, now>>,
           counters'[admitted[j].at][admitted[j].who] = counters[admitted[j].at][admitted[j].who]
    PROVE  Past(admitted[j])' /\ Current(admitted[j])'
BY DEF Past, Current

\* check_and_increment keeps the admissions apart.
LEMMA AdmissionCheck ==
    ASSUME TypeOK, LimitInv, CounterInv, LifeInv, AdmissionInv, MinWindow > 0,
           NEW r \in Reqs, check_and_increment(r)
    PROVE  AdmissionInv'
<1> DEFINE p == req[r].at
           t == req[r].who
           d == Counted(Window(counters[p][t], req[r].lim.window))
           b == Admitted(p, t, d)
           ok == d.count <= req[r].lim.max
<1>1. /\ p \in Replicas /\ t \in Tenants /\ d \in Counter
      /\ counters'[p][t] = d /\ d # Nil /\ d.start <= now
      /\ ok => b.n \in 1..MaxLimit
    BY NewAdmission
<1>2. \A j \in DOMAIN admitted :
        admitted[j].at = p /\ admitted[j].who = t =>
            /\ admitted[j].life = life[p] =>
                /\ admitted[j].start = d.start => admitted[j].n < d.count
                /\ admitted[j].start # d.start =>
                    admitted[j].start + MinWindow <= d.start /\ admitted[j].time <= d.start
            /\ admitted[j].life < life[p] => admitted[j].time <= d.start
    BY NewAdmission
<1>3. UNCHANGED <<life, now>> /\ admitted' = (IF ok THEN Append(admitted, b) ELSE admitted)
    BY DEF check_and_increment
<1>4. \A q \in Replicas, u \in Tenants : q # p \/ u # t => counters'[q][u] = counters[q][u]
    BY CheckEffect
<1>5. /\ b.who = t /\ b.at = p /\ b.life = life[p] /\ b.start = d.start /\ b.n = d.count
      /\ b.time = now
    BY DEF Admitted
<1>6. /\ d.start \in Nat /\ d.count \in Nat /\ now \in Nat /\ MinWindow \in Nat
      /\ \A q \in Replicas : life[q] \in Nat
    BY <1>1, ReplicaNumbers, LimiterAssumption DEF Counter
<1> HIDE DEF p, t, d, b, ok
<1>7. ASSUME NEW j \in DOMAIN admitted, j \in DOMAIN admitted', admitted'[j] = admitted[j]
      PROVE  Past(admitted[j])' /\ Current(admitted[j])'
    <2> DEFINE a == admitted[j]
    <2>1. a.at \in Replicas /\ a.who \in Tenants /\ a.life \in Nat /\ a.start \in Nat
          /\ a.time \in Nat /\ a.n \in Nat
        BY AdmissionFields
    <2>2. Past(a) /\ Current(a)
        BY DEF AdmissionInv
    <2>3. CASE a.at # p \/ a.who # t
        BY <1>3, <1>4, <1>7, <2>1, <2>2, <2>3, AdmissionKept
    <2>4. CASE a.at = p /\ a.who = t
        <3>1. /\ a.life = life[p] =>
                /\ a.start = d.start => a.n < d.count
                /\ a.start # d.start => a.start + MinWindow <= d.start /\ a.time <= d.start
              /\ a.life < life[p] => a.time <= d.start
            BY <1>2, <2>4
        <3>2. Past(admitted[j])'
            BY <1>3, <1>7, <2>2 DEF Past
        <3>3. Current(admitted[j])'
            BY <1>1, <1>3, <1>6, <1>7, <2>1, <2>4, <3>1 DEF Current
        <3> QED BY <3>2, <3>3
    <2> QED BY <2>3, <2>4
<1>8. CASE ~ok
    <2>1. admitted' = admitted
        BY <1>3, <1>8
    <2> QED BY <1>7, <2>1 DEF AdmissionInv, Apart
<1>9. CASE ok
    <2> DEFINE m == Len(admitted) + 1
    <2>1. /\ admitted' = Append(admitted, b) /\ DOMAIN admitted' = DOMAIN admitted \cup {m}
          /\ m \notin DOMAIN admitted /\ admitted'[m] = b
          /\ \A j \in DOMAIN admitted : admitted'[j] = admitted[j]
        BY <1>3, <1>9 DEF TypeOK
    <2> HIDE DEF m
    <2>2. ASSUME NEW j \in DOMAIN admitted', j = m
          PROVE  Past(admitted[j])' /\ Current(admitted[j])'
        <3>1. admitted'[j] = b
            BY <2>1, <2>2
        <3>2. Past(admitted[j])'
            BY <1>1, <1>3, <1>5, <1>6, <1>9, <3>1 DEF Past, LifeInv
        <3>3. Current(admitted[j])'
            BY <1>1, <1>3, <1>5, <1>6, <3>1 DEF Current
        <3> QED BY <3>2, <3>3
    <2>3. ASSUME NEW j \in DOMAIN admitted PROVE Apart(admitted[j], b) /\ Apart(b, admitted[j])
        <3> DEFINE a == admitted[j]
        <3>1. a.at \in Replicas /\ a.who \in Tenants /\ a.life \in Nat /\ a.start \in Nat
              /\ a.time \in Nat /\ a.n \in Nat
            BY AdmissionFields
        <3>2. Past(a)
            BY DEF AdmissionInv
        <3>3. a.life = b.life /\ a.life > 0 => a.at = b.at
            BY <1>1, <1>5, <3>2 DEF Past
        <3>4. a.at = p => a.life <= life[p]
            BY <3>2 DEF Past
        <3>5. a.at = p /\ a.who = t =>
                /\ a.life = life[p] =>
                    /\ a.start = d.start => a.n < d.count
                    /\ a.start # d.start => a.start + MinWindow <= d.start /\ a.time <= d.start
                /\ a.life < life[p] => a.time <= d.start
            BY <1>2
        <3> HIDE DEF a
        <3>6. Apart(a, b)
            BY <1>1, <1>5, <1>6, <3>1, <3>3, <3>5 DEF Apart
        <3>7. Apart(b, a)
            BY <1>1, <1>5, <1>6, <3>1, <3>3, <3>4, <3>5 DEF Apart
        <3> QED BY <3>6, <3>7 DEF a
    <2>4. \A j \in DOMAIN admitted' : Past(admitted[j])' /\ Current(admitted[j])'
        BY <1>7, <2>1, <2>2
    <2>5. \A j, k \in DOMAIN admitted' : j # k => Apart(admitted'[j], admitted'[k])
        BY <2>1, <2>3 DEF AdmissionInv
    <2> QED BY <2>4, <2>5 DEF AdmissionInv, Apart
<1> QED BY <1>8, <1>9

\* Every step keeps the admissions apart: a restart begins a process with a
\* number of its own and no counters.
LEMMA AdmissionStep ==
    ASSUME TypeOK, LimitInv, CounterInv, LifeInv, AdmissionInv, [Next]_vars
    PROVE  AdmissionInv'
<1> SUFFICES ASSUME MinWindow > 0 PROVE AdmissionInv'
    BY DEF AdmissionInv
<1>1. ASSUME NEW r \in Reqs, check_and_increment(r) PROVE AdmissionInv'
    BY <1>1, AdmissionCheck
<1>2. ASSUME UNCHANGED admitted,
             \A j \in DOMAIN admitted : Past(admitted[j])' /\ Current(admitted[j])'
      PROVE  AdmissionInv'
    BY <1>2 DEF AdmissionInv, Apart
<1>3. ASSUME NEW p \in Replicas, restart(p) PROVE AdmissionInv'
    <2>1. /\ admitted' = admitted /\ now' = now /\ life'[p] = restarts + 1
          /\ \A q \in Replicas : q # p => life'[q] = life[q] /\ counters'[q] = counters[q]
          /\ \A t \in Tenants : counters'[p][t] = Nil
        BY <1>3 DEF restart, TypeOK, None
    <2>2. ASSUME NEW j \in DOMAIN admitted PROVE Past(admitted[j])' /\ Current(admitted[j])'
        <3> DEFINE a == admitted[j]
        <3>1. a.at \in Replicas /\ a.who \in Tenants /\ a.life \in Nat
            BY AdmissionFields
        <3>2. Past(a) /\ Current(a) /\ admitted'[j] = a
            BY <2>1 DEF AdmissionInv
        <3>3. a.life <= restarts /\ restarts \in Nat /\ \A q \in Replicas : life[q] \in Nat
            <4>1. restarts \in Nat /\ \A q \in Replicas : life[q] \in Nat
                BY <3>1, ReplicaNumbers
            <4>2. a.life <= life[a.at] /\ life[a.at] <= restarts
                BY <3>1, <3>2 DEF Past, LifeInv
            <4> QED BY <3>1, <4>1, <4>2
        <3>4. Past(admitted[j])'
            BY <2>1, <3>1, <3>2, <3>3 DEF Past
        <3>5. Current(admitted[j])'
            BY <2>1, <3>1, <3>2, <3>3 DEF Current
        <3> QED BY <3>4, <3>5
    <2> QED BY <1>2, <2>1, <2>2
<1>4. CASE Tick
    <2>1. now' = now + 1 /\ UNCHANGED <<counters, life, admitted>> /\ now \in Nat
        BY <1>4, LimiterAssumption DEF Tick, TypeOK
    <2>2. ASSUME NEW j \in DOMAIN admitted PROVE Past(admitted[j])' /\ Current(admitted[j])'
        <3>1. Past(admitted[j]) /\ Current(admitted[j]) /\ admitted[j].time \in Nat
            BY AdmissionFields DEF AdmissionInv
        <3> QED BY <2>1, <3>1 DEF Past, Current
    <2> QED BY <1>2, <2>1, <2>2
<1>5. CASE UNCHANGED <<counters, life, admitted, now>>
    BY <1>5 DEF AdmissionInv, Past, Current, Apart
<1> QED BY <1>1, <1>3, <1>4, <1>5, CountersUntouched

\* Admissions were made in the past.
LEMMA TimeStep ==
    ASSUME TypeOK, TimeInv, [Next]_vars
    PROVE  TimeInv'
<1>1. now \in Nat /\ \A j \in DOMAIN admitted : admitted[j].time \in Nat
    BY AdmissionFields, LimiterAssumption DEF TypeOK
<1>2. ASSUME NEW r \in Reqs, check_and_increment(r) PROVE TimeInv'
    <2> DEFINE b == Admitted(req[r].at, req[r].who,
                        Counted(Window(counters[req[r].at][req[r].who], req[r].lim.window)))
    <2>1. b.time = now /\ (admitted' = Append(admitted, b) \/ admitted' = admitted)
        <3>1. b.time = now
            BY DEF Admitted
        <3> HIDE DEF b
        <3>2. admitted' = Append(admitted, b) \/ admitted' = admitted
            BY <1>2 DEF check_and_increment, b
        <3> QED BY <3>1, <3>2
    <2> HIDE DEF b
    <2>2. now' = now
        BY <1>2 DEF check_and_increment
    <2>3. CASE admitted' = Append(admitted, b)
        <3>1. \A j \in DOMAIN admitted' : admitted'[j] = b \/ (j \in DOMAIN admitted /\ admitted'[j] = admitted[j])
            BY <2>3 DEF TypeOK
        <3> QED BY <1>1, <2>1, <2>2, <3>1 DEF TimeInv
    <2> QED BY <2>1, <2>2, <2>3 DEF TimeInv
<1>3. CASE Tick
    BY <1>1, <1>3 DEF Tick, TimeInv
<1>4. CASE UNCHANGED <<admitted, now>>
    BY <1>4 DEF TimeInv
<1>5. (\E p \in Replicas : restart(p)) => UNCHANGED <<admitted, now>>
    BY DEF restart
<1> QED BY <1>2, <1>3, <1>4, <1>5, CountersUntouched

\* The inductive invariant.
LEMMA LimiterInvariant == Spec => []Inv
<1>1. Init => Inv
    <2>1. Init => CounterInv /\ LifeInv
        BY DEF Init, CounterInv, LifeInv, None
    <2>2. Init => AdmissionInv /\ TimeInv
        BY DEF Init, AdmissionInv, TimeInv
    <2> QED BY <2>1, <2>2, TypeInit DEF Inv
<1>2. Inv /\ [Next]_vars => Inv'
    BY TypeStep, CounterStep, LifeStep, AdmissionStep, TimeStep DEF Inv
<1> QED BY <1>1, <1>2, PTL DEF Spec

-----------------------------------------------------------------------------
(* The bound.  Within a span every admission has a slot: a place in the     *)
(* window that was open when the span began or in the one that is open now, *)
(* of one of the processes of the span.                                     *)

Over(a) == a.start + MinWindow <= now

Process(a) ==
    IF Over(a) THEN <<a.at, "old">>
    ELSE IF a.life = 0 THEN <<a.at, "new">> ELSE <<a.life, "life">>

Slots == ((Replicas \X {"old", "new"}) \cup ((1..restarts) \X {"life"})) \X (1..MaxLimit)

\* There are as many slots as the bound allows.
LEMMA SlotCount ==
    ASSUME TypeOK
    PROVE  /\ IsFiniteSet(Slots)
           /\ Cardinality(Slots) <= MaxLimit * (2 * Cardinality(Replicas) + restarts)
<1> DEFINE A == Replicas \X {"old", "new"}
           B == (1..restarts) \X {"life"}
           L == 1..MaxLimit
<1>1. restarts \in Nat /\ MaxLimit \in Nat /\ IsFiniteSet(Replicas)
    BY LimiterAssumption DEF TypeOK
<1>2. IsFiniteSet({"old", "new"}) /\ Cardinality({"old", "new"}) = 2
    <2>1. IsFiniteSet({"old"}) /\ Cardinality({"old"}) = 1
        BY FS_Singleton
    <2>2. {"old", "new"} = {"old"} \cup {"new"} /\ "new" \notin {"old"}
        OBVIOUS
    <2> QED BY <2>1, <2>2, FS_AddElement
<1>3. IsFiniteSet(A) /\ Cardinality(A) = Cardinality(Replicas) * 2
    BY <1>1, <1>2, FS_Product
<1>4. IsFiniteSet(1..restarts) /\ Cardinality(1..restarts) = restarts
    BY <1>1, FS_Interval
<1>5. IsFiniteSet({"life"}) /\ Cardinality({"life"}) = 1
    BY FS_Singleton
<1>6. IsFiniteSet(B) /\ Cardinality(B) = restarts
    BY <1>1, <1>4, <1>5, FS_Product
<1>7. IsFiniteSet(L) /\ Cardinality(L) = MaxLimit
    BY <1>1, FS_Interval
<1>8. Cardinality(Replicas) \in Nat
    BY <1>1, FS_CardinalityType
<1> HIDE DEF A, B, L
<1>9. /\ IsFiniteSet(A \cup B) /\ Cardinality(A \cup B) \in Nat
      /\ Cardinality(A \cup B) <= 2 * Cardinality(Replicas) + restarts
    <2>1. /\ IsFiniteSet(A \cup B)
          /\ Cardinality(A \cup B) = Cardinality(A) + Cardinality(B) - Cardinality(A \cap B)
        BY <1>3, <1>6, FS_Union
    <2>2. Cardinality(A \cap B) \in Nat
        BY <1>3, FS_Subset, FS_CardinalityType
    <2>3. Cardinality(A \cup B) \in Nat
        BY <2>1, FS_CardinalityType
    <2> QED BY <1>1, <1>3, <1>6, <1>8, <2>1, <2>2, <2>3
<1>10. IsFiniteSet((A \cup B) \X L) /\ Cardinality((A \cup B) \X L) = Cardinality(A \cup B) * MaxLimit
    BY <1>7, <1>9, FS_Product
<1>11. \A k, m, l \in Nat : k <= m => k * l <= l * m
    BY SMT
<1>12. 2 * Cardinality(Replicas) + restarts \in Nat
    BY <1>1, <1>8
<1> QED BY <1>1, <1>9, <1>10, <1>11, <1>12 DEF Slots, A, B, L

\* An admission of the span has a slot.
LEMMA SlotOf ==
    ASSUME Inv, MinWindow > 0, NEW j \in DOMAIN admitted
    PROVE  <<Process(admitted[j]), admitted[j].n>> \in Slots
<1> DEFINE a == admitted[j]
<1>1. a.at \in Replicas /\ a.life \in Nat /\ a.n \in 1..MaxLimit /\ a.life <= life[a.at]
    BY AdmissionFields DEF Inv, AdmissionInv, Past
<1>2. a.life \in 0..restarts
    <2>1. life[a.at] \in Nat /\ restarts \in Nat /\ life[a.at] <= restarts
        BY <1>1, LimiterAssumption DEF Inv, LifeInv, TypeOK
    <2> QED BY <1>1, <2>1
<1> HIDE DEF a
<1>3. Process(a) \in (Replicas \X {"old", "new"}) \cup ((1..restarts) \X {"life"})
    BY <1>1, <1>2 DEF Process
<1> QED BY <1>1, <1>3 DEF Slots, a

\* Two admissions of the same tenant in the span have different slots.
LEMMA SlotsDiffer ==
    ASSUME Inv, MinWindow > 0, NEW t \in Tenants, NEW j \in InSpan(t), NEW k \in InSpan(t), j # k,
           Process(admitted[j]) = Process(admitted[k])
    PROVE  admitted[j].n # admitted[k].n
<1> DEFINE a == admitted[j]
           b == admitted[k]
<1>1. /\ j \in DOMAIN admitted /\ a.who = t /\ now < a.time + MinWindow
      /\ k \in DOMAIN admitted /\ b.who = t /\ now < b.time + MinWindow
    BY DEF InSpan
<1>2. /\ a.life \in Nat /\ a.start \in Nat /\ a.time \in Nat
      /\ b.life \in Nat /\ b.start \in Nat /\ b.time \in Nat
      /\ now \in Nat /\ MinWindow \in Nat
    BY <1>1, AdmissionFields, LimiterAssumption DEF Inv, TypeOK
<1>3. Past(a) /\ Past(b) /\ Apart(a, b) /\ Apart(b, a)
    BY <1>1 DEF Inv, AdmissionInv
<1>4. a.start <= a.time /\ a.time <= now /\ b.start <= b.time /\ b.time <= now
    BY <1>3 DEF Past
<1>5. Process(a) = Process(b)
    OBVIOUS
<1> HIDE DEF a, b
<1>6. \/ Over(a) /\ Over(b) /\ a.at = b.at
      \/ ~Over(a) /\ ~Over(b) /\ a.life = b.life /\ (a.life = 0 => a.at = b.at)
    BY <1>5 DEF Process
<1>7. a.at = b.at
    BY <1>2, <1>3, <1>6 DEF Apart
<1>8. a.life = b.life /\ a.start = b.start
    <2>1. /\ a.life = b.life /\ a.start < b.start =>
                a.start + MinWindow <= b.start /\ a.time <= b.start
          /\ a.life = b.life /\ b.start < a.start =>
                b.start + MinWindow <= a.start /\ b.time <= a.start
          /\ a.life < b.life => a.time <= b.start
          /\ b.life < a.life => b.time <= a.start
        BY <1>1, <1>3, <1>7 DEF Apart, a, b
    <2>2. CASE Over(a) /\ Over(b)
        BY <1>1, <1>2, <2>1, <2>2 DEF Over, a, b
    <2>3. CASE ~Over(a) /\ ~Over(b) /\ a.life = b.life
        BY <1>2, <1>4, <2>1, <2>3 DEF Over
    <2> QED BY <1>6, <2>2, <2>3
<1> QED BY <1>1, <1>3, <1>7, <1>8 DEF Apart, a, b

\* In any span of one window, a tenant gets at most two windows' worth of
\* requests through each replica and one more for every restart: whatever
\* Apollo changes between the copy of the limits and the count, the windows of a
\* process do not overlap, and none lets more than MaxLimit requests through.
THEOREM AdmissionsBounded == Spec => []AdmissionBound
<1>1. Inv => AdmissionBound
    <2> SUFFICES ASSUME Inv, NEW t \in Tenants
                 PROVE  Cardinality(InSpan(t)) <= MaxLimit * (2 * Cardinality(Replicas) + restarts)
        BY DEF AdmissionBound
    <2>1. /\ IsFiniteSet(Slots) /\ Cardinality(Slots) \in Nat
          /\ Cardinality(Slots) <= MaxLimit * (2 * Cardinality(Replicas) + restarts)
        BY SlotCount, FS_CardinalityType DEF Inv
    <2>2. CASE MinWindow > 0
        <3> DEFINE f == [j \in InSpan(t) |-> <<Process(admitted[j]), admitted[j].n>>]
        <3>1. f \in [InSpan(t) -> Slots]
            BY <2>2, SlotOf DEF InSpan
        <3>2. \A j, k \in InSpan(t) : f[j] = f[k] => j = k
            BY <2>2, SlotsDiffer
        <3> HIDE DEF f
        <3>3. f \in Injection(InSpan(t), Slots)
            BY <3>1, <3>2 DEF Injection, IsInjective
        <3>4. IsFiniteSet(InSpan(t)) /\ Cardinality(InSpan(t)) <= Cardinality(Slots)
            BY <2>1, <3>3, FS_Injection
        <3>5. Cardinality(InSpan(t)) \in Nat
            BY <3>4, FS_CardinalityType
        <3>6. MaxLimit * (2 * Cardinality(Replicas) + restarts) \in Int
            BY LimiterAssumption, FS_CardinalityType DEF Inv, TypeOK
        <3> QED BY <2>1, <3>4, <3>5, <3>6
    <2>3. CASE ~(MinWindow > 0)
        <3>1. InSpan(t) = {}
            <4> SUFFICES ASSUME NEW j \in DOMAIN admitted PROVE ~(now < admitted[j].time + MinWindow)
                BY DEF InSpan
            <4>1. admitted[j].time \in Nat /\ admitted[j].time <= now /\ now \in Nat /\ MinWindow = 0
                BY <2>3, AdmissionFields, LimiterAssumption DEF Inv, TimeInv, TypeOK
            <4> QED BY <4>1
        <3>2. Cardinality(InSpan(t)) = 0
            BY <3>1, FS_EmptySet
        <3>3. MaxLimit * (2 * Cardinality(Replicas) + restarts) \in Int
            BY LimiterAssumption, FS_CardinalityType DEF Inv, TypeOK
        <3> QED BY <2>1, <3>2, <3>3
    <2> QED BY <2>2, <2>3
<1> QED BY <1>1, LimiterInvariant, PTL
=============================================================================
