---------------------------- MODULE ApolloUpdater ----------------------------
(***************************************************************************)
(* The updater task of one backup-service process: an interval that skips  *)
(* missed ticks, a fetch with a timeout, and the merge of the payload into *)
(* AppConfig under its write lock, which the handlers read.  The endpoint  *)
(* may serve other settings at any time.  Time is kept relative: `due' is  *)
(* what is left until the interval's next deadline, below 0 when overdue.  *)
(***************************************************************************)
EXTENDS Integers, Sequences

CONSTANTS
    InitConf,       \* the updatable settings of the environment
    Updates,        \* payloads the endpoint may serve; Nil marks a missing field
    Interval,       \* APOLLO_POLL_INTERVAL_SECS
    Timeout,        \* APOLLO_TIMEOUT_SECS
    MaxChanges,     \* bound on changes of what is served
    MaxFaults,      \* bound on failed fetches and restarts
    Nil             \* no field, nothing read, nothing merged

\* In the order in which apply_update writes them.
Order  == <<"max", "window", "ttl", "limit", "offset">>
Fields == {Order[n] : n \in DOMAIN Order}

\* What the readers take under one guard: rate_limit_middleware, cache_ttl_secs
\* and list_backups.
Groups == {{"max", "window"}, {"ttl"}, {"limit", "offset"}}

\* An interval of 0 panics in tokio before the first fetch.
ASSUME UpdaterAssumption ==
    /\ Nil \notin Nat
    /\ InitConf \in [Fields -> Nat]
    /\ Updates # {} /\ Updates \subseteq [Fields -> Nat \cup {Nil}]
    /\ Interval \in Nat \ {0} /\ Timeout \in Nat \ {0}
    /\ MaxChanges \in Nat /\ MaxFaults \in Nat

\* The longest time between two fetches, and until the second one is merged.
Longest == IF Interval > Timeout THEN Interval ELSE Timeout
Bound   == Longest + Timeout

VARIABLES
    conf,           \* the updatable fields of AppConfig
    task,           \* where run_updater_loop is
    due,            \* time until the next deadline of the interval
    age,            \* age of the fetch under way
    replies,        \* responses on their way to the client
    merge,          \* the payload being merged and the field to write next, or Nil
    served,         \* what the endpoint serves, and its version
    last,           \* the settings read by the last step, Nil if it read none
    whole,          \* history: conf when the lock was last free
    applied,        \* history: version of the payload merged last, 0 for none
    stable,         \* history: time since a change, a failure or a start, capped
    faults          \* faults so far

confVars  == <<conf, merge, whole, applied>>
fetchVars == <<due, age, replies>>
vars      == <<confVars, fetchVars, task, served, last, stable, faults>>

Settings == [Fields -> Nat]
Versions == 1..(MaxChanges + 1)
Payload  == [ver : Versions, upd : Updates]

Store == INSTANCE SettingsStore WITH conf <- whole

TypeOK ==
    /\ conf \in Settings /\ whole \in Settings
    /\ task \in {"waiting", "sent", "answered", "merging"}
    /\ due \in (-Timeout)..Interval
    /\ age \in 0..Timeout
    /\ replies \in SUBSET Payload
    /\ merge \in [pay : Payload, next : DOMAIN Order] \cup {Nil}
    /\ served \in Payload
    /\ last = Nil \/ \E G \in Groups : last \in [G -> Nat]
    /\ applied \in 0..(MaxChanges + 1)
    /\ stable \in 0..(Bound + 1)
    /\ faults \in 0..MaxFaults

\* The first tick of an interval is due at once.
Init ==
    /\ conf = InitConf /\ whole = InitConf
    /\ task = "waiting"
    /\ due = 0 /\ age = 0
    /\ replies = {}
    /\ merge = Nil
    /\ served \in [ver : {1}, upd : Updates]
    /\ last = Nil
    /\ applied = 0 /\ stable = 0 /\ faults = 0

Fault == faults < MaxFaults /\ faults' = faults + 1

-----------------------------------------------------------------------------
(* run_updater_loop.                                                       *)

\* Mutant: the default MissedTickBehavior::Burst, which catches up.
next_due_Burst(d) == d + Interval

\* MissedTickBehavior::Skip: the next multiple of the period that is not past.
next_due(d) == Interval - ((-d) % Interval)

\* Mutant: the loop ends with the first payload merged.
tick_Once ==
    /\ task = "waiting" /\ due <= 0 /\ applied = 0
    /\ task' = "sent"
    /\ due' = next_due(due)
    /\ age' = 0
    /\ last' = Nil
    /\ UNCHANGED <<confVars, replies, served, stable, faults>>

\* interval.tick() returns and the request is sent.
tick ==
    /\ task = "waiting" /\ due <= 0
    /\ task' = "sent"
    /\ due' = next_due(due)
    /\ age' = 0
    /\ last' = Nil
    /\ UNCHANGED <<confVars, replies, served, stable, faults>>

\* The response arrives, is a success and can be read: the write lock is taken.
receive(x) ==
    /\ task = "answered" /\ x \in replies
    /\ task' = "merging"
    /\ replies' = replies \ {x}
    /\ merge' = [pay |-> x, next |-> 1]
    /\ last' = Nil
    /\ UNCHANGED <<conf, whole, applied, due, age, served, stable, faults>>

\* A connection error, an error status or a body that does not parse: logged.
fetch_fails ==
    /\ Fault
    /\ task \in {"sent", "answered"}
    /\ task' = "waiting"
    /\ replies' = {}
    /\ stable' = 0
    /\ last' = Nil
    /\ UNCHANGED <<confVars, due, age, served>>

\* Mutant: a response that comes too late is kept for the next fetch.
fetch_times_out_Keeps ==
    /\ Fault
    /\ task \in {"sent", "answered"} /\ age = Timeout
    /\ task' = "waiting"
    /\ stable' = 0
    /\ last' = Nil
    /\ UNCHANGED <<confVars, fetchVars, served>>

\* The client's timeout; a response that is on its way goes with the request.
fetch_times_out ==
    /\ Fault
    /\ task \in {"sent", "answered"} /\ age = Timeout
    /\ task' = "waiting"
    /\ replies' = {}
    /\ stable' = 0
    /\ last' = Nil
    /\ UNCHANGED <<confVars, due, age, served>>

Field == Order[merge.next]

\* Mutant: missing fields overwrite too.
Written_Overwrites == [conf EXCEPT ![Field] = merge.pay.upd[Field]]

Written ==
    LET v == merge.pay.upd[Field] IN
    [conf EXCEPT ![Field] = IF v = Nil THEN @ ELSE v]

\* apply_update writes one field after the other and then gives up the lock.
apply_update ==
    /\ task = "merging"
    /\ conf' = Written
    /\ IF merge.next < Len(Order)
       THEN /\ merge' = [merge EXCEPT !.next = @ + 1]
            /\ UNCHANGED <<task, whole, applied>>
       ELSE /\ merge' = Nil /\ task' = "waiting"
            /\ whole' = conf' /\ applied' = merge.pay.ver
    /\ last' = Nil
    /\ UNCHANGED <<fetchVars, served, stable, faults>>

-----------------------------------------------------------------------------
(* Readers, the endpoint, the process and time.                            *)

\* Mutant: the settings are read without the lock.
config_Unlocked(G) ==
    /\ last' = [f \in G |-> conf[f]]
    /\ UNCHANGED <<confVars, fetchVars, task, served, stable, faults>>

\* A handler takes the read guard, which waits for the writer.
config(G) ==
    /\ task # "merging"
    /\ last' = [f \in G |-> conf[f]]
    /\ UNCHANGED <<confVars, fetchVars, task, served, stable, faults>>

\* The endpoint answers with what it serves at this moment.
Respond ==
    /\ task = "sent"
    /\ task' = "answered"
    /\ replies' = replies \cup {served}
    /\ last' = Nil
    /\ UNCHANGED <<confVars, due, age, served, stable, faults>>

Change(u) ==
    /\ served.ver <= MaxChanges
    /\ served' = [ver |-> served.ver + 1, upd |-> u]
    /\ stable' = 0
    /\ last' = Nil
    /\ UNCHANGED <<confVars, fetchVars, task, faults>>

\* The process ends and is started again with the environment's settings.
restart ==
    /\ Fault
    /\ conf' = InitConf /\ whole' = InitConf
    /\ task' = "waiting"
    /\ due' = 0 /\ age' = 0
    /\ replies' = {}
    /\ merge' = Nil
    /\ last' = Nil
    /\ applied' = 0 /\ stable' = 0
    /\ UNCHANGED served

\* Time passes, but not in the critical section, not when the interval has
\* fired, and not past the client's timeout.
Passes ==
    /\ due' = due - 1
    /\ age' = IF task \in {"sent", "answered"} THEN age + 1 ELSE age
    /\ stable' = IF stable > Bound THEN stable ELSE stable + 1
    /\ last' = Nil
    /\ UNCHANGED <<confVars, replies, task, served, faults>>

\* Mutant: a client without a timeout, as reqwest builds it by default.
Tick_NoTimeout ==
    /\ task # "merging"
    /\ ~(task = "waiting" /\ due <= 0)
    /\ Passes

Tick ==
    /\ task # "merging"
    /\ ~(task = "waiting" /\ due <= 0)
    /\ task \in {"sent", "answered"} => age < Timeout
    /\ Passes

-----------------------------------------------------------------------------
updater_step == tick \/ (\E x \in replies : receive(x)) \/ apply_update

Next ==
    \/ updater_step \/ fetch_fails \/ fetch_times_out
    \/ \E G \in Groups : config(G)
    \/ Respond
    \/ \E u \in Updates : Change(u)
    \/ restart
    \/ Tick

Spec == Init /\ [][Next]_vars

\* The task keeps running, time passes and the endpoint answers in the end;
\* a fetch may fail or time out only MaxFaults times.
FairSpec == Spec /\ WF_vars(updater_step) /\ WF_vars(Respond) /\ WF_vars(Tick)

-----------------------------------------------------------------------------
(* Properties.                                                             *)

\* AppConfig holds everything the endpoint serves.
UpToDate == Store!Merge(whole, served.upd) = whole

\* What a handler reads under one guard belongs to one configuration: never a
\* list limit from before an update with the offset from after it, or a
\* window with another payload's max_requests.
NoTornSettings == last # Nil => \A f \in DOMAIN last : last[f] = whole[f]

\* Settings that the endpoint has served for an interval and a timeout (or two
\* timeouts, when a fetch may take longer than the interval) without a failed
\* fetch are in force, however late earlier responses were and however many
\* ticks they made the loop skip.
Freshness == stable > Bound => UpToDate

\* A response to an earlier fetch never overwrites a later one: the payloads
\* merged in the life of a process are of growing versions.
NewestWins == [][applied' # 0 => applied' >= applied]_vars

\* For its readers the updater is a store that changes as a whole: half-merged
\* payloads, failures and restarts show nothing else.
AtomicSettings == Store!Spec

\* When the endpoint stops changing and fetches stop failing, the settings
\* become the served ones and stay so: no failure ends the loop.
Converges == <>[]UpToDate
=============================================================================
