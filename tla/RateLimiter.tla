----------------------------- MODULE RateLimiter -----------------------------
(***************************************************************************)
(* Per-tenant rate limiting of backup-service.  Each replica keeps its own *)
(* counters in memory.  A request copies the limits from the configuration *)
(* and then waits for the mutex over the counters, so Apollo may change    *)
(* the limits in between; a restart forgets the counters.                  *)
(***************************************************************************)
EXTENDS Integers, FiniteSets, Sequences

CONSTANTS
    Replicas,       \* backup-service processes
    Tenants,        \* tenants
    Reqs,           \* requests that can be in flight together
    InitLimits,     \* the limits of the environment: [max, window]
    Updates,        \* partial limits Apollo may serve; Nil marks a missing field
    MaxLimit,       \* the largest max_requests ever configured
    MinWindow,      \* the shortest window_secs ever configured
    MaxRestarts,    \* bound on restarts
    MaxChecks,      \* bound on the requests counted for a tenant by a replica
    MaxTime,        \* bound on the clock
    Nil             \* no counter, no field, nothing told

Fields == {"max", "window"}

ASSUME LimiterAssumption ==
    /\ Nil \notin Nat /\ Nil \notin [count : Nat, start : Nat]
    /\ IsFiniteSet(Replicas)
    /\ InitLimits \in [Fields -> Nat]
    /\ Updates \subseteq [Fields -> Nat \cup {Nil}]
    /\ MaxLimit \in Nat /\ MinWindow \in Nat
    /\ \A u \in Updates \cup {InitLimits} :
        /\ u["max"] # Nil => u["max"] <= MaxLimit
        /\ u["window"] # Nil => u["window"] >= MinWindow
    /\ MaxRestarts \in Nat /\ MaxChecks \in Nat /\ MaxTime \in Nat

VARIABLES
    conf,           \* [Replicas -> limits]: rate_limit in each replica's AppConfig
    counters,       \* [Replicas -> [Tenants -> (count, start of the window) or Nil]]
    req,            \* requests between the copy of the limits and the mutex
    told,           \* history: when a denied tenant may retry, and the window it was denied with
    last,           \* history: the decision of the last step, Nil if it took none
    life,           \* history: the restart each replica's process began with, 0 for none
    admitted,       \* history: the requests let through, and what they were counted in
    restarts,       \* restarts so far
    now             \* the clock, in ticks

vars == <<conf, counters, req, told, last, life, admitted, restarts, now>>

Limits  == [Fields -> Nat]
Counter == [count : Nat, start : 0..MaxTime]
Waiting == [at : Replicas, who : Tenants, lim : Limits]
Admission == [who : Tenants, at : Replicas, life : 0..MaxRestarts,
              start : 0..MaxTime, n : Nat, time : 0..MaxTime]
None    == [t \in Tenants |-> Nil]

TypeOK ==
    /\ conf \in [Replicas -> Limits]
    /\ counters \in [Replicas -> [Tenants -> Counter \cup {Nil}]]
    /\ req \in [Reqs -> Waiting \cup {Nil}]
    /\ told \in [Replicas -> [Tenants -> [at : Nat, window : Nat] \cup {Nil}]]
    /\ last \in [ok : BOOLEAN, waited : BOOLEAN, lim : Limits] \cup {Nil}
    /\ life \in [Replicas -> 0..MaxRestarts]
    /\ admitted \in Seq(Admission)
    /\ restarts \in 0..MaxRestarts
    /\ now \in 0..MaxTime

Init ==
    /\ conf = [p \in Replicas |-> InitLimits]
    /\ counters = [p \in Replicas |-> None]
    /\ req = [r \in Reqs |-> Nil]
    /\ told = [p \in Replicas |-> None]
    /\ last = Nil
    /\ life = [p \in Replicas |-> 0]
    /\ admitted = <<>>
    /\ restarts = 0
    /\ now = 0

-----------------------------------------------------------------------------
\* A request with claims reaches the middleware, which clones the limits.
rate_limit_middleware(r, p, t) ==
    /\ req[r] = Nil
    /\ req' = [req EXCEPT ![r] = [at |-> p, who |-> t, lim |-> conf[p]]]
    /\ last' = Nil
    /\ UNCHANGED <<conf, counters, told, life, admitted, restarts, now>>

\* Mutants: a window is over one tick late; an expired window keeps its start;
\* the end of the window is stored for its start.
Window_Late(c, window) ==
    IF c = Nil \/ now - c.start > window THEN [count |-> 0, start |-> now] ELSE c

Window_KeepsStart(c, window) ==
    IF c = Nil THEN [count |-> 0, start |-> now]
    ELSE IF now - c.start >= window THEN [c EXCEPT !.count = 0] ELSE c

Window_StoresEnd(c, window) ==
    IF c = Nil \/ now - c.start >= window THEN [count |-> 0, start |-> now + window] ELSE c

\* The counter the request is counted in: a new one when there is none or when
\* the window of the old one is over.
Window(c, window) ==
    IF c = Nil \/ now - c.start >= window THEN [count |-> 0, start |-> now] ELSE c

\* Denied requests are counted as well.
Counted(c) == [c EXCEPT !.count = @ + 1]

Admitted(p, t, c) ==
    [who |-> t, at |-> p, life |-> life[p], start |-> c.start, n |-> c.count, time |-> now]

\* The mutex is held from the lookup to the decision.  A denied request is told
\* to retry after window_secs.
check_and_increment(r) ==
    /\ req[r] # Nil
    /\ LET p   == req[r].at
           t   == req[r].who
           lim == req[r].lim
           c   == Counted(Window(counters[p][t], lim.window))
           ok  == c.count <= lim.max
       IN  /\ c.count <= MaxChecks
           /\ counters' = [counters EXCEPT ![p][t] = c]
           /\ told' = [told EXCEPT ![p][t] =
                            IF ok THEN Nil ELSE [at |-> now + lim.window, window |-> lim.window]]
           /\ last' = [ok |-> ok, lim |-> lim,
                       waited |-> /\ told[p][t] # Nil /\ now >= told[p][t].at
                                  /\ lim.window <= told[p][t].window]
           /\ admitted' = IF ok THEN Append(admitted, Admitted(p, t, c)) ELSE admitted
    /\ req' = [req EXCEPT ![r] = Nil]
    /\ UNCHANGED <<conf, life, restarts, now>>

\* The client hangs up, or the TimeoutLayer fires, before the mutex is free.
dropped(r) ==
    /\ req[r] # Nil
    /\ req' = [req EXCEPT ![r] = Nil]
    /\ last' = Nil
    /\ UNCHANGED <<conf, counters, told, life, admitted, restarts, now>>

\* Apollo reaches replica p: only the fields that are present overwrite.
apply_update(p, u) ==
    /\ conf' = [conf EXCEPT ![p] =
                    [f \in Fields |-> IF u[f] = Nil THEN conf[p][f] ELSE u[f]]]
    /\ last' = Nil
    /\ UNCHANGED <<counters, req, told, life, admitted, restarts, now>>

\* The process ends and is started again: environment limits, no counters.
restart(p) ==
    /\ restarts < MaxRestarts
    /\ restarts' = restarts + 1
    /\ life' = [life EXCEPT ![p] = restarts']
    /\ conf' = [conf EXCEPT ![p] = InitLimits]
    /\ counters' = [counters EXCEPT ![p] = None]
    /\ told' = [told EXCEPT ![p] = None]
    /\ req' = [r \in Reqs |-> IF req[r] # Nil /\ req[r].at = p THEN Nil ELSE req[r]]
    /\ last' = Nil
    /\ UNCHANGED <<admitted, now>>

Tick ==
    /\ now < MaxTime
    /\ now' = now + 1
    /\ last' = Nil
    /\ UNCHANGED <<conf, counters, req, told, life, admitted, restarts>>

Next ==
    \/ \E r \in Reqs, p \in Replicas, t \in Tenants : rate_limit_middleware(r, p, t)
    \/ \E r \in Reqs : check_and_increment(r) \/ dropped(r)
    \/ \E p \in Replicas, u \in Updates : apply_update(p, u)
    \/ \E p \in Replicas : restart(p)
    \/ Tick

Spec == Init /\ [][Next]_vars

-----------------------------------------------------------------------------
(* Properties.                                                             *)

\* The requests of t let through in the span that ends now and is as long as
\* the shortest window.
InSpan(t) == {j \in DOMAIN admitted : admitted[j].who = t /\ now < admitted[j].time + MinWindow}

\* In any span of one window, a tenant gets at most two windows' worth of
\* requests through each replica, and one more for every restart, whatever
\* Apollo changes between the copy of the limits and the count.
AdmissionBound ==
    \A t \in Tenants :
        Cardinality(InSpan(t)) <= MaxLimit * (2 * Cardinality(Replicas) + restarts)

\* A tenant that was denied, waits as long as Retry-After said and is the next
\* one that replica counts is let through, whatever other requests were under
\* way and Apollo changed, unless the window has become longer or the limit 0.
RetryAfterHonoured ==
    last # Nil /\ last.waited /\ last.lim.max > 0 => last.ok

\* rate_limit.rs says "sliding window counter": no span of one window holds
\* more than max_requests.
SlidingWindow ==
    \A t \in Tenants : Cardinality(InSpan(t)) <= MaxLimit
=============================================================================
