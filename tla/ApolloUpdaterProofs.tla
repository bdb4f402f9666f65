------------------------- MODULE ApolloUpdaterProofs -------------------------
(***************************************************************************)
(* Theorems about ApolloUpdater, for any interval and timeout, any         *)
(* payloads and any number of changes and faults.                          *)
(***************************************************************************)
EXTENDS ApolloUpdater, TLAPS

Merging == [pay : Payload, next : DOMAIN Order]

\* The time until the next deadline and the age of the fetch add up to the
\* delay that the last tick has set.
DueInv == task # "waiting" => due + age \in 1..Interval

\* The lock is held exactly while a payload is being merged.
LockInv ==
    /\ task = "merging" => merge \in Merging
    /\ task # "merging" => conf = whole

\* A half-merged payload: the fields before `next' are written, the others not.
PartInv ==
    task = "merging" =>
        \A k \in 1..5 :
            LET v == merge.pay.upd[Order[k]] IN
            conf[Order[k]] = IF k < merge.next /\ v # Nil THEN v ELSE whole[Order[k]]

\* At most one response is on its way, for the fetch that waits for it.
ReplyInv ==
    /\ \A x, y \in replies : x = y
    /\ replies # {} <=> task = "answered"

\* x is no older than what was merged last, and is what is served if its
\* version is.
Current(x) ==
    /\ applied <= x.ver /\ x.ver <= served.ver
    /\ x.ver = served.ver => x = served

VersionInv ==
    /\ applied <= served.ver
    /\ \A x \in replies : Current(x)
    /\ task = "merging" => Current(merge.pay)

\* What was merged last is in force.
AppliedInv ==
    applied = served.ver =>
        \A f \in Fields : served.upd[f] # Nil => whole[f] = served.upd[f]

\* How long settings that are not in force can have been served when a fetch has
\* brought the payload x: as long as a fetch and the wait for it when x is what
\* is served, and less than the fetch when it was answered before the change.
Waited(x) == stable <= (IF x = served THEN Longest + age ELSE age)

\* How long settings that are not in force can have been served at all; while
\* no fetch is under way, the next one is due within Longest.
TimeInv ==
    applied # served.ver =>
        /\ task = "waiting" => stable <= Longest /\ stable + due <= Longest
        /\ task = "sent" => stable <= Longest + age
        /\ task = "answered" => \A x \in replies : Waited(x)
        /\ task = "merging" => Waited(merge.pay)

Inv == TypeOK /\ DueInv /\ LockInv /\ PartInv /\ ReplyInv /\ VersionInv /\ AppliedInv /\ TimeInv

-----------------------------------------------------------------------------
(* The fields and the interval.                                            *)

\* apply_update writes every field once.
LEMMA OrderFacts ==
    /\ Len(Order) = 5 /\ DOMAIN Order = 1..5
    /\ \A k \in 1..5 : Order[k] \in Fields
    /\ \A f \in Fields : \E k \in 1..5 : f = Order[k]
    /\ \A j, k \in 1..5 : Order[j] = Order[k] => j = k
<1>1. Len(Order) = 5 /\ DOMAIN Order = 1..5
    BY DEF Order
<1>2. /\ Order[1] = "max" /\ Order[2] = "window" /\ Order[3] = "ttl"
      /\ Order[4] = "limit" /\ Order[5] = "offset"
    BY DEF Order
<1>3. \A j, k \in 1..5 : Order[j] = Order[k] => j = k
    BY <1>2
<1> QED BY <1>1, <1>3 DEF Fields

\* The interval's next deadline is ahead, by one period at most.
LEMMA NextDue ==
    ASSUME NEW d \in Int, d <= 0
    PROVE  next_due(d) \in 1..Interval
<1>1. Interval \in Int /\ Interval > 0 /\ -d \in Int
    BY UpdaterAssumption
<1>2. (-d) % Interval \in 0..(Interval - 1)
    BY <1>1
<1> QED BY <1>1, <1>2 DEF next_due

\* The guards of the readers are on fields.
LEMMA GroupFacts == \A G \in Groups : G \subseteq Fields
<1>1. Order[1] = "max" /\ Order[2] = "window" /\ Order[3] = "ttl" /\ Order[4] = "limit" /\ Order[5] = "offset"
    BY DEF Order
<1> QED BY <1>1, OrderFacts DEF Groups

\* What one step of apply_update leaves is a configuration.
LEMMA WrittenType ==
    ASSUME TypeOK, merge \in Merging
    PROVE  /\ Field \in Fields /\ Written \in Settings
           /\ Written[Field] = IF merge.pay.upd[Field] = Nil THEN conf[Field] ELSE merge.pay.upd[Field]
           /\ \A f \in Fields : f # Field => Written[f] = conf[f]
<1>1. Field \in Fields
    BY OrderFacts DEF Merging, Field
<1>2. merge.pay.upd \in [Fields -> Nat \cup {Nil}]
    BY UpdaterAssumption DEF Merging, Payload
<1> QED BY <1>1, <1>2 DEF TypeOK, Settings, Written

-----------------------------------------------------------------------------
(* Types.                                                                  *)

TypeInv == TypeOK /\ DueInv /\ LockInv

\* The steps of the task.
LEMMA TaskType ==
    ASSUME TypeInv, updater_step \/ fetch_fails \/ fetch_times_out
    PROVE  TypeInv'
<1> USE DEF TypeInv
<1>1. CASE tick
    <2>1. due \in Int /\ due <= 0
        BY <1>1, UpdaterAssumption DEF TypeOK, tick
    <2>2. due' \in 1..Interval /\ age' = 0
        BY <1>1, <2>1, NextDue DEF tick
    <2> HIDE DEF TypeInv
    <2>3. due' \in (-Timeout)..Interval /\ age' \in 0..Timeout /\ due' + age' \in 1..Interval
        <3>1. \A d, i, t \in Int : t >= 1 /\ d \in 1..i => d \in (-t)..i /\ 0 \in 0..t /\ d + 0 \in 1..i
            OBVIOUS
        <3>2. Interval \in Int /\ Timeout \in Int /\ Timeout >= 1 /\ due' \in Int
            BY <2>2, UpdaterAssumption
        <3> QED BY <2>2, <3>1, <3>2
    <2> QED BY <1>1, <2>3 DEF TypeInv, TypeOK, DueInv, LockInv, tick, confVars
<1>2. ASSUME NEW x \in replies, receive(x) PROVE TypeInv'
    <2>1. merge' \in Merging
        BY <1>2, OrderFacts DEF TypeOK, receive, Merging
    <2>2. DueInv' /\ LockInv'
        BY <1>2, <2>1 DEF DueInv, LockInv, receive, Merging
    <2> QED BY <1>2, <2>1, <2>2 DEF TypeOK, receive, Merging
<1>3. CASE apply_update
    <2>1. merge \in Merging
        BY <1>3 DEF LockInv, apply_update
    <2>2. conf' \in Settings
        BY <1>3, <2>1, WrittenType DEF apply_update
    <2>3. CASE merge.next < Len(Order)
        <3>1. merge' \in Merging
            BY <1>3, <2>1, <2>3, OrderFacts DEF apply_update, Merging
        <3> QED BY <1>3, <2>2, <2>3, <3>1 DEF TypeOK, DueInv, LockInv, apply_update, fetchVars, Merging
    <2>4. CASE ~(merge.next < Len(Order))
        <3>1. merge.pay.ver \in 0..(MaxChanges + 1)
            BY <2>1, UpdaterAssumption DEF Merging, Payload, Versions
        <3> QED BY <1>3, <2>2, <2>4, <3>1 DEF TypeOK, DueInv, LockInv, apply_update, fetchVars
    <2> QED BY <2>3, <2>4
<1>4. CASE fetch_fails
    BY <1>4, UpdaterAssumption DEF TypeOK, DueInv, LockInv, fetch_fails, Fault, confVars, Bound, Longest
<1>5. CASE fetch_times_out
    BY <1>5, UpdaterAssumption DEF TypeOK, DueInv, LockInv, fetch_times_out, Fault, confVars, Bound, Longest
<1> QED BY <1>1, <1>2, <1>3, <1>4, <1>5 DEF updater_step

\* The other steps.
LEMMA WorldType ==
    ASSUME TypeInv,
           \/ \E G \in Groups : config(G)
           \/ Respond \/ (\E u \in Updates : Change(u)) \/ restart \/ Tick
    PROVE  TypeInv'
<1> USE DEF TypeInv
<1>1. ASSUME NEW G \in Groups, config(G) PROVE TypeInv'
    <2>1. last' \in [G -> Nat]
        BY <1>1, GroupFacts DEF TypeOK, Settings, config
    <2>2. UNCHANGED <<conf, whole, task, due, age, replies, merge, served, applied, stable, faults>>
        BY <1>1 DEF config, confVars, fetchVars
    <2> QED BY <2>1, <2>2 DEF TypeOK, DueInv, LockInv
<1>2. CASE Respond
    BY <1>2 DEF TypeOK, DueInv, LockInv, Respond, confVars
<1>3. ASSUME NEW u \in Updates, Change(u) PROVE TypeInv'
    <2>1. served' \in Payload
        BY <1>3, UpdaterAssumption DEF TypeOK, Change, Payload, Versions
    <2>2. stable' \in 0..(Bound + 1)
        BY <1>3, UpdaterAssumption DEF Change, Bound, Longest
    <2> QED BY <1>3, <2>1, <2>2 DEF TypeOK, DueInv, LockInv, Change, confVars, fetchVars
<1>4. CASE restart
    BY <1>4, UpdaterAssumption DEF TypeOK, DueInv, LockInv, restart, Fault, Settings, Bound, Longest
<1>5. CASE Tick
    <2>1. due' \in (-Timeout)..Interval /\ age' \in 0..Timeout /\ DueInv'
        BY <1>5, UpdaterAssumption DEF TypeOK, DueInv, Tick, Passes
    <2>2. stable' \in 0..(Bound + 1)
        BY <1>5, UpdaterAssumption DEF TypeOK, Tick, Passes, Bound, Longest
    <2> QED BY <1>5, <2>1, <2>2 DEF TypeOK, LockInv, Tick, Passes, confVars
<1> QED BY <1>1, <1>2, <1>3, <1>4, <1>5

\* The initial states are well typed.
LEMMA TypeInit == Init => TypeInv
<1> SUFFICES ASSUME Init PROVE TypeInv
    OBVIOUS
<1>1. served \in Payload
    BY UpdaterAssumption DEF Init, Payload, Versions
<1>2. stable \in 0..(Bound + 1) /\ applied \in 0..(MaxChanges + 1)
    BY UpdaterAssumption DEF Init, Bound, Longest
<1> QED BY <1>1, <1>2, UpdaterAssumption DEF Init, TypeInv, TypeOK, DueInv, LockInv, Settings

\* The types are inductive with DueInv and LockInv.
LEMMA TypeStep == TypeInv /\ [Next]_vars => TypeInv'
<1> SUFFICES ASSUME TypeInv, [Next]_vars PROVE TypeInv'
    OBVIOUS
<1>1. CASE UNCHANGED vars
    BY <1>1 DEF TypeInv, TypeOK, DueInv, LockInv, vars, confVars, fetchVars
<1>2. CASE Next
    BY <1>2, TaskType, WorldType DEF Next
<1> QED BY <1>1, <1>2

-----------------------------------------------------------------------------
(* The merge.                                                              *)

\* The steps during which a payload may be half-merged and stays so.
LEMMA MergeUntouched ==
    ASSUME [Next]_vars, task' = "merging", ~apply_update, \A x \in replies : ~receive(x)
    PROVE  UNCHANGED <<task, conf, whole, merge, applied, due, age, replies>>
           /\ (UNCHANGED <<served, stable>> \/ \E u \in Updates : Change(u))
<1>1. CASE UNCHANGED vars
    BY <1>1 DEF vars, confVars, fetchVars
<1>2. CASE Next
    BY <1>2 DEF Next, updater_step, tick, fetch_fails, fetch_times_out, config, Respond,
        Change, restart, Tick, Passes, confVars, fetchVars
<1> QED BY <1>1, <1>2

\* The fields are written in the order of apply_update.
LEMMA PartStep ==
    ASSUME TypeInv, PartInv, [Next]_vars
    PROVE  PartInv'
<1>1. CASE task' # "merging"
    BY <1>1 DEF PartInv
<1>2. ASSUME NEW x \in replies, receive(x) PROVE PartInv'
    <2>1. conf' = conf /\ whole' = whole /\ conf = whole /\ merge'.next = 1
        BY <1>2 DEF receive, TypeInv, LockInv
    <2>2. \A k \in 1..5 : ~(k < 1)
        OBVIOUS
    <2> QED BY <2>1, <2>2 DEF PartInv
<1>3. CASE apply_update /\ task' = "merging"
    <2>1. merge \in Merging
        BY <1>3 DEF apply_update, TypeInv, LockInv
    <2>2. merge.next < 5 /\ merge' = [merge EXCEPT !.next = @ + 1] /\ whole' = whole /\ conf' = Written
        BY <1>3, OrderFacts DEF apply_update
    <2>3. merge'.next = merge.next + 1 /\ merge'.pay = merge.pay
        BY <2>1, <2>2 DEF Merging
    <2> SUFFICES ASSUME NEW k \in 1..5
                 PROVE  conf'[Order[k]] =
                    IF k < merge.next + 1 /\ merge.pay.upd[Order[k]] # Nil
                    THEN merge.pay.upd[Order[k]] ELSE whole[Order[k]]
        BY <2>2, <2>3 DEF PartInv
    <2>4. merge.next \in 1..5
        BY <2>1, OrderFacts DEF Merging
    <2>5. conf[Order[k]] = IF k < merge.next /\ merge.pay.upd[Order[k]] # Nil
                           THEN merge.pay.upd[Order[k]] ELSE whole[Order[k]]
        BY <1>3 DEF PartInv, apply_update
    <2>6. CASE k = merge.next
        BY <2>1, <2>2, <2>4, <2>5, <2>6, WrittenType DEF Field, TypeInv
    <2>7. CASE k # merge.next
        <3>1. Order[k] # Field /\ Order[k] \in Fields
            BY <2>4, <2>7, OrderFacts DEF Field
        <3>2. conf'[Order[k]] = conf[Order[k]]
            BY <2>1, <2>2, <3>1, WrittenType DEF TypeInv
        <3>3. k < merge.next + 1 <=> k < merge.next
            BY <2>4, <2>7
        <3> QED BY <2>5, <3>2, <3>3
    <2> QED BY <2>6, <2>7
<1>4. CASE task' = "merging" /\ ~apply_update /\ \A x \in replies : ~receive(x)
    BY <1>4, MergeUntouched DEF PartInv
<1> QED BY <1>1, <1>2, <1>3, <1>4

\* When the lock is given up, the whole payload has been merged at once into
\* what the readers saw before.
LEMMA MergeWhole ==
    ASSUME TypeInv, PartInv, apply_update, task' # "merging"
    PROVE  /\ merge \in Merging
           /\ whole' = Store!Merge(whole, merge.pay.upd)
           /\ applied' = merge.pay.ver
<1>1. merge \in Merging
    BY DEF apply_update, TypeInv, LockInv
<1>2. merge.next = 5 /\ conf' = Written /\ whole' = Written /\ applied' = merge.pay.ver
    BY <1>1, OrderFacts DEF apply_update, Merging
<1>3. ASSUME NEW f \in Fields
      PROVE  Written[f] = IF merge.pay.upd[f] = Nil THEN whole[f] ELSE merge.pay.upd[f]
    <2>1. PICK k \in 1..5 : f = Order[k]
        BY OrderFacts
    <2>2. conf[f] = IF k < 5 /\ merge.pay.upd[f] # Nil THEN merge.pay.upd[f] ELSE whole[f]
        BY <1>2, <2>1 DEF PartInv, apply_update
    <2>3. CASE k = 5
        BY <1>1, <1>2, <2>1, <2>2, <2>3, WrittenType DEF Field, TypeInv
    <2>4. CASE k # 5
        <3>1. f # Field /\ k < 5
            BY <1>2, <2>1, <2>4, OrderFacts DEF Field
        <3> QED BY <1>1, <2>2, <3>1, WrittenType DEF TypeInv
    <2> QED BY <2>3, <2>4
<1>4. Written = [f \in Fields |-> IF merge.pay.upd[f] = Nil THEN whole[f] ELSE merge.pay.upd[f]]
    BY <1>1, <1>3, WrittenType DEF TypeInv, Settings
<1> QED BY <1>1, <1>2, <1>4 DEF Store!Merge

\* Steps other than these leave the readers' settings and what was merged alone.
LEMMA SettingsUntouched ==
    ASSUME [Next]_vars, ~(apply_update /\ task' # "merging"), ~restart
    PROVE  whole' = whole /\ applied' = applied
<1>1. CASE UNCHANGED vars
    BY <1>1 DEF vars, confVars
<1>2. CASE Next
    BY <1>2 DEF Next, updater_step, tick, receive, apply_update, fetch_fails,
        fetch_times_out, config, Respond, Change, Tick, Passes, confVars
<1> QED BY <1>1, <1>2

-----------------------------------------------------------------------------
(* Theorems on the settings.                                               *)

\* The parts that concern the merge.
StoreInv == TypeInv /\ PartInv

\* The merge is as PartInv says in every state.
LEMMA StoreInvariant == Spec => []StoreInv
<1>1. Init => StoreInv
    BY TypeInit DEF StoreInv, PartInv, Init
<1>2. StoreInv /\ [Next]_vars => StoreInv'
    BY TypeStep, PartStep DEF StoreInv
<1> QED BY <1>1, <1>2, PTL DEF Spec

\* The updater's state keeps its types: in particular a deadline is never more
\* than a timeout overdue, because the client gives up.
THEOREM UpdaterTypeCorrect == Spec => []TypeOK
<1>1. StoreInv => TypeOK
    BY DEF StoreInv, TypeInv
<1> QED BY <1>1, StoreInvariant, PTL

\* What a handler reads under one guard of AppConfig belongs to one
\* configuration, for any payloads.
THEOREM ReadersSeeWholeUpdates == Spec => []NoTornSettings
<1>1. Init => NoTornSettings
    BY DEF Init, NoTornSettings
<1>2. StoreInv /\ NoTornSettings /\ [Next]_vars => NoTornSettings'
    <2> SUFFICES ASSUME StoreInv, NoTornSettings, [Next]_vars PROVE NoTornSettings'
        OBVIOUS
    <2>1. CASE UNCHANGED vars
        BY <2>1 DEF NoTornSettings, vars, confVars
    <2>2. ASSUME NEW G \in Groups, config(G) PROVE NoTornSettings'
        <3>1. conf = whole /\ whole' = whole /\ last' = [f \in G |-> conf[f]]
            BY <2>2 DEF config, confVars, StoreInv, TypeInv, LockInv
        <3> QED BY <3>1 DEF NoTornSettings
    <2>3. CASE last' = Nil
        BY <2>3 DEF NoTornSettings
    <2>4. Next /\ (\A G \in Groups : ~config(G)) => last' = Nil
        BY DEF Next, updater_step, tick, receive, apply_update, fetch_fails, fetch_times_out,
            Respond, Change, restart, Tick, Passes
    <2> QED BY <2>1, <2>2, <2>3, <2>4
<1> QED BY <1>1, <1>2, StoreInvariant, PTL DEF Spec

\* The field-by-field merge under the lock, with its failures and restarts,
\* implements the store whose settings change as a whole.
THEOREM UpdaterImplementsStore == Spec => AtomicSettings
<1>1. Init => Store!Init
    BY DEF Init, Store!Init
<1>2. StoreInv /\ [Next]_vars => [Store!Next]_whole
    <2> SUFFICES ASSUME StoreInv, [Next]_vars PROVE Store!Next \/ whole' = whole
        OBVIOUS
    <2>1. CASE apply_update /\ task' # "merging"
        <3>1. whole' = Store!Merge(whole, merge.pay.upd) /\ merge.pay.upd \in Updates
            BY <2>1, MergeWhole DEF StoreInv, Merging, Payload
        <3> QED BY <3>1 DEF Store!Next, Store!Update
    <2>2. CASE restart
        BY <2>2 DEF restart, Store!Next, Store!Restart
    <2> QED BY <2>1, <2>2, SettingsUntouched
<1> QED BY <1>1, <1>2, StoreInvariant, PTL DEF Spec, AtomicSettings, Store!Spec

-----------------------------------------------------------------------------
(* Versions: responses and payloads are applied in the order served.       *)

VerInv == ReplyInv /\ VersionInv /\ AppliedInv

\* What Change does to the versions.
LEMMA ChangeVersion ==
    ASSUME TypeInv, VerInv, NEW u \in Updates, Change(u)
    PROVE  /\ VerInv' /\ applied' # served'.ver
           /\ \A x \in replies' : x # served'
           /\ task' = "merging" => merge'.pay # served'
<1>1. served.ver \in Int /\ served'.ver = served.ver + 1 /\ applied \in Int
    BY UpdaterAssumption DEF Change, TypeInv, TypeOK, Payload, Versions
<1>2. UNCHANGED <<applied, replies, task, merge, whole>>
    BY DEF Change, confVars, fetchVars
<1>3. \A x \in replies : x.ver \in Int
    BY UpdaterAssumption DEF TypeInv, TypeOK, Payload, Versions
<1>4. task = "merging" => merge.pay.ver \in Int
    BY UpdaterAssumption DEF TypeInv, LockInv, Merging, Payload, Versions
<1>5. ReplyInv'
    BY <1>2 DEF VerInv, ReplyInv
<1>6. applied' # served'.ver /\ AppliedInv'
    BY <1>1, <1>2 DEF VerInv, VersionInv, AppliedInv
<1>7. VersionInv'
    BY <1>1, <1>2, <1>3, <1>4 DEF VerInv, VersionInv, Current
<1>8. /\ \A x \in replies' : x # served'
      /\ task' = "merging" => merge'.pay # served'
    BY <1>1, <1>2, <1>3, <1>4 DEF VerInv, VersionInv, Current
<1> QED BY <1>5, <1>6, <1>7, <1>8 DEF VerInv

\* The end of a merge.
LEMMA MergeVersion ==
    ASSUME StoreInv, VerInv, apply_update, task' # "merging"
    PROVE  /\ VerInv' /\ applied' >= applied
           /\ applied' # served.ver => merge.pay # served
<1>1. /\ merge \in Merging /\ applied' = merge.pay.ver /\ Current(merge.pay)
      /\ whole' = Store!Merge(whole, merge.pay.upd) /\ UNCHANGED <<replies, served>>
    BY MergeWhole DEF StoreInv, VerInv, VersionInv, apply_update, fetchVars
<1>2. replies = {}
    BY DEF VerInv, ReplyInv, apply_update
<1>3. ReplyInv'
    BY <1>1, <1>2 DEF ReplyInv, apply_update
<1>4. VersionInv' /\ applied' >= applied
    BY <1>1, <1>2 DEF VersionInv, Current
<1>5. applied' = served.ver => merge.pay = served
    BY <1>1 DEF Current
<1>6. AppliedInv'
    BY <1>1, <1>5 DEF AppliedInv, Store!Merge
<1> QED BY <1>1, <1>3, <1>4, <1>6 DEF VerInv

\* Every step keeps the order.
LEMMA VersionStep ==
    ASSUME StoreInv, VerInv, [Next]_vars
    PROVE  VerInv' /\ (applied' # 0 => applied' >= applied)
<1>1. applied \in Int /\ served.ver \in 1..(MaxChanges + 1) /\ MaxChanges \in Nat
    BY UpdaterAssumption DEF StoreInv, TypeInv, TypeOK, Payload, Versions
<1> DEFINE Goal == VerInv' /\ (applied' # 0 => applied' >= applied)
<1>2. ASSUME NEW u \in Updates, Change(u) PROVE Goal
    BY <1>1, <1>2, ChangeVersion DEF StoreInv, Change, confVars
<1>3. CASE apply_update /\ task' # "merging"
    BY <1>3, MergeVersion
<1>4. CASE apply_update /\ task' = "merging"
    <2>1. merge \in Merging /\ merge' = [merge EXCEPT !.next = @ + 1]
        BY <1>4 DEF apply_update, StoreInv, TypeInv, LockInv
    <2>2. UNCHANGED <<applied, whole, replies, served, task>> /\ merge'.pay = merge.pay
        BY <1>4, <2>1 DEF apply_update, fetchVars, Merging
    <2> QED BY <1>1, <1>4, <2>2 DEF VerInv, ReplyInv, VersionInv, Current, AppliedInv
<1>5. ASSUME NEW x \in replies, receive(x) PROVE Goal
    <2>1. /\ task' = "merging" /\ merge'.pay = x /\ replies' = replies \ {x}
          /\ UNCHANGED <<applied, whole, served>>
        BY <1>5 DEF receive
    <2>2. replies' = {}
        BY <2>1 DEF VerInv, ReplyInv
    <2> QED BY <1>1, <2>1, <2>2 DEF VerInv, ReplyInv, VersionInv, Current, AppliedInv
<1>6. CASE Respond
    <2>1. /\ replies' = replies \cup {served} /\ task = "sent" /\ task' = "answered"
          /\ UNCHANGED <<applied, whole, served, merge>>
        BY <1>6 DEF Respond, confVars
    <2>2. replies' = {served}
        BY <2>1 DEF VerInv, ReplyInv
    <2> QED BY <1>1, <2>1, <2>2 DEF VerInv, ReplyInv, VersionInv, Current, AppliedInv
<1>7. CASE restart
    BY <1>1, <1>7 DEF restart, VerInv, ReplyInv, VersionInv, Current, AppliedInv
<1>8. CASE fetch_fails \/ fetch_times_out
    BY <1>1, <1>8 DEF fetch_fails, fetch_times_out, confVars, VerInv, ReplyInv, VersionInv, Current, AppliedInv
<1>9. CASE tick
    BY <1>1, <1>9 DEF tick, confVars, VerInv, ReplyInv, VersionInv, Current, AppliedInv
<1>10. CASE Tick \/ (\E G \in Groups : config(G)) \/ UNCHANGED vars
    <2>1. UNCHANGED <<applied, whole, replies, served, task, merge>>
        BY <1>10 DEF Tick, Passes, config, vars, confVars, fetchVars
    <2> QED BY <1>1, <2>1 DEF VerInv, ReplyInv, VersionInv, Current, AppliedInv
<1> QED BY <1>2, <1>3, <1>4, <1>5, <1>6, <1>7, <1>8, <1>9, <1>10 DEF Next, updater_step

\* No response is on its way and nothing is merged at the start.
LEMMA VersionInit == Init => VerInv
<1>1. Init => served.ver = 1
    BY DEF Init
<1> QED BY <1>1 DEF Init, VerInv, ReplyInv, VersionInv, AppliedInv

\* So is the order of the versions.
LEMMA VersionInvariant == Spec => [](StoreInv /\ VerInv)
<1>1. StoreInv /\ VerInv /\ [Next]_vars => VerInv'
    BY VersionStep
<1> QED BY <1>1, VersionInit, StoreInvariant, PTL DEF Spec

\* A payload never overwrites a later one, for any delays of responses, changes
\* of what is served and failures.
THEOREM UpdatesInOrder == Spec => NewestWins
<1>1. StoreInv /\ VerInv /\ [Next]_vars => [applied' # 0 => applied' >= applied]_vars
    BY VersionStep
<1> QED BY <1>1, VersionInvariant, PTL DEF Spec, NewestWins

-----------------------------------------------------------------------------
(* Time: when settings are in force.                                       *)

\* The numbers of the timing argument.
LEMMA Numbers ==
    ASSUME TypeInv
    PROVE  /\ Interval \in Int /\ Timeout \in Int /\ Longest \in Int /\ Bound = Longest + Timeout
           /\ Interval >= 1 /\ Timeout >= 1 /\ Longest >= Interval /\ Longest >= Timeout
           /\ due \in Int /\ age \in Int /\ stable \in Int
           /\ due <= Interval /\ age >= 0 /\ age <= Timeout /\ stable >= 0
<1>1. Interval \in Nat \ {0} /\ Timeout \in Nat \ {0}
    BY UpdaterAssumption
<1>2. Longest \in Int /\ Bound = Longest + Timeout /\ Longest >= Interval /\ Longest >= Timeout
    BY <1>1 DEF Longest, Bound
<1>3. due \in (-Timeout)..Interval /\ age \in 0..Timeout /\ stable \in 0..(Bound + 1)
    BY DEF TypeInv, TypeOK
<1> QED BY <1>1, <1>2, <1>3

\* A change, a failure or a start begins the count anew.
LEMMA TimeReset ==
    ASSUME TypeInv', stable' = 0
    PROVE  TimeInv'
<1>1. /\ Longest \in Int /\ Longest >= 1 /\ due' \in Int /\ age' \in Int /\ age' >= 0
      /\ due' <= Longest /\ Interval \in Int
    <2>1. Interval \in Nat \ {0} /\ Timeout \in Nat \ {0}
        BY UpdaterAssumption
    <2>2. Longest \in Int /\ Longest >= 1 /\ Longest >= Interval
        BY <2>1 DEF Longest
    <2>3. due' \in (-Timeout)..Interval /\ age' \in 0..Timeout
        BY DEF TypeInv, TypeOK
    <2> QED BY <2>1, <2>2, <2>3
<1>2. stable' <= Longest /\ stable' + due' <= Longest /\ stable' <= Longest + age' /\ stable' <= age'
    <2>1. \A l, d, a \in Int : l >= 1 /\ d <= l /\ a >= 0 => 0 <= l /\ 0 + d <= l /\ 0 <= l + a /\ 0 <= a
        OBVIOUS
    <2> QED BY <1>1, <2>1
<1>3. \A x : Waited(x)'
    BY <1>2 DEF Waited
<1> QED BY <1>2, <1>3 DEF TimeInv

\* Time that passes.
LEMMA TimePasses ==
    ASSUME TypeInv, VerInv, TimeInv, Tick
    PROVE  TimeInv'
<1>1. /\ task # "merging" /\ due' = due - 1 /\ stable' \in {stable, stable + 1}
      /\ UNCHANGED <<replies, task, served, applied, merge>>
    BY DEF Tick, Passes, confVars
<1>2. stable' <= stable + 1
    BY <1>1, Numbers
<1> SUFFICES ASSUME applied # served.ver PROVE TimeInv'
    BY <1>1 DEF TimeInv
<1>3. CASE task = "waiting"
    <2>1. due > 0 /\ stable <= Longest /\ stable + due <= Longest
        BY <1>3, Numbers DEF Tick, TimeInv
    <2>2. stable' <= Longest /\ stable' + due' <= Longest
        BY <1>1, <1>2, <2>1, Numbers
    <2> QED BY <1>1, <1>3, <2>2 DEF TimeInv
<1>4. CASE task = "sent"
    <2>1. age' = age + 1 /\ stable <= Longest + age
        BY <1>4 DEF Tick, Passes, TimeInv
    <2>2. stable' <= Longest + age'
        BY <1>1, <2>1, Numbers
    <2> QED BY <1>1, <1>4, <2>2 DEF TimeInv
<1>5. CASE task = "answered"
    <2>1. age' = age + 1 /\ \A x \in replies : Waited(x)
        BY <1>5 DEF Tick, Passes, TimeInv
    <2>2. ASSUME NEW x \in replies PROVE Waited(x)'
        <3>1. stable <= (IF x = served THEN Longest + age ELSE age)
            BY <2>1 DEF Waited
        <3>2. stable' <= (IF x = served THEN Longest + age' ELSE age')
            BY <1>1, <2>1, <3>1, Numbers
        <3> QED BY <1>1, <3>2 DEF Waited
    <2> QED BY <1>1, <1>5, <2>1, <2>2 DEF TimeInv
<1> QED BY <1>1, <1>3, <1>4, <1>5 DEF TypeInv, TypeOK

\* Every step keeps the bound.
LEMMA TimeStep ==
    ASSUME StoreInv, VerInv, TimeInv, [Next]_vars
    PROVE  TimeInv'
<1>0. TypeInv /\ TypeInv'
    BY TypeStep DEF StoreInv
<1>1. CASE tick
    <2>1. /\ task = "waiting" /\ due <= 0 /\ task' = "sent" /\ age' = 0
          /\ UNCHANGED <<stable, applied, served>>
        BY <1>1 DEF tick, confVars
    <2> SUFFICES ASSUME applied # served.ver PROVE stable' <= Longest + age'
        BY <2>1 DEF TimeInv
    <2>2. stable <= Longest
        BY <2>1 DEF TimeInv
    <2> QED BY <1>0, <2>1, <2>2, Numbers
<1>2. ASSUME NEW x \in replies, receive(x) PROVE TimeInv'
    <2>1. /\ task = "answered" /\ task' = "merging" /\ merge'.pay = x
          /\ UNCHANGED <<stable, applied, served, age>>
        BY <1>2 DEF receive
    <2> QED BY <1>2, <2>1 DEF TimeInv, Waited
<1>3. CASE apply_update /\ task' = "merging"
    <2>1. merge \in Merging /\ merge' = [merge EXCEPT !.next = @ + 1]
        BY <1>3 DEF apply_update, StoreInv, TypeInv, LockInv
    <2>2. UNCHANGED <<applied, stable, age, served, task>> /\ merge'.pay = merge.pay
        BY <1>3, <2>1 DEF apply_update, fetchVars, Merging
    <2> QED BY <1>3, <2>2 DEF TimeInv, Waited
<1>4. CASE apply_update /\ task' # "merging"
    <2>1. task = "merging" /\ task' = "waiting" /\ UNCHANGED <<stable, age, due, served>>
        BY <1>4 DEF apply_update, fetchVars
    <2> SUFFICES ASSUME applied' # served.ver
                 PROVE  stable <= Longest /\ stable + due <= Longest
        BY <2>1 DEF TimeInv
    <2>2. merge.pay # served /\ Current(merge.pay) /\ applied' = merge.pay.ver
        BY <1>4, MergeVersion, MergeWhole DEF StoreInv, VerInv, VersionInv, apply_update
    <2>3. applied # served.ver
        <3>1. merge.pay.ver \in Int /\ applied \in Int /\ served.ver \in Int
            BY <1>0, <2>1, UpdaterAssumption DEF TypeInv, TypeOK, LockInv, Merging, Payload, Versions
        <3> QED BY <2>2, <3>1 DEF Current
    <2>4. stable <= age
        BY <2>1, <2>2, <2>3 DEF TimeInv, Waited
    <2>5. due + age \in 1..Interval
        BY <1>0, <2>1 DEF TypeInv, DueInv
    <2> QED BY <1>0, <2>4, <2>5, Numbers
<1>5. CASE Respond
    <2>1. /\ task = "sent" /\ task' = "answered" /\ replies' = replies \cup {served}
          /\ UNCHANGED <<stable, applied, served, age>>
        BY <1>5 DEF Respond, confVars
    <2>2. replies' = {served}
        BY <2>1 DEF VerInv, ReplyInv
    <2> QED BY <2>1, <2>2 DEF TimeInv, Waited
<1>6. ASSUME NEW u \in Updates, Change(u) PROVE TimeInv'
    BY <1>0, <1>6, TimeReset DEF Change
<1>7. CASE fetch_fails \/ fetch_times_out \/ restart
    BY <1>0, <1>7, TimeReset DEF fetch_fails, fetch_times_out, restart
<1>8. CASE Tick
    BY <1>0, <1>8, TimePasses
<1>9. CASE (\E G \in Groups : config(G)) \/ UNCHANGED vars
    <2>1. UNCHANGED <<task, due, age, replies, merge, served, applied, stable>>
        BY <1>9 DEF config, vars, confVars, fetchVars
    <2> QED BY <2>1 DEF TimeInv, Waited
<1> QED BY <1>1, <1>2, <1>3, <1>4, <1>5, <1>6, <1>7, <1>8, <1>9 DEF Next, updater_step

\* The first fetch is due at once.
LEMMA TimeInit == Init => TimeInv
<1> SUFFICES ASSUME Init PROVE stable <= Longest /\ stable + due <= Longest
    BY DEF Init, TimeInv
<1> QED BY TypeInit, Numbers DEF Init

\* The whole inductive invariant.
LEMMA Invariant == Spec => []Inv
<1>1. StoreInv /\ VerInv /\ TimeInv /\ [Next]_vars => TimeInv'
    BY TimeStep
<1>2. StoreInv /\ VerInv /\ TimeInv => Inv
    BY DEF StoreInv, TypeInv, VerInv, Inv
<1> QED BY <1>1, <1>2, TimeInit, VersionInvariant, PTL DEF Spec

\* Settings served for an interval and a timeout (or two timeouts) without a
\* failed fetch are in force, for every interval and timeout: ticks that slow
\* fetches make the loop skip cost no more than that.
THEOREM SettingsInForce == Spec => []Freshness
<1>1. Inv => Freshness
    <2> SUFFICES ASSUME Inv, stable > Bound PROVE UpToDate
        BY DEF Freshness
    <2>1. TypeInv
        BY DEF Inv, TypeInv
    <2>2. applied = served.ver
        <3> SUFFICES ASSUME applied # served.ver PROVE FALSE
            OBVIOUS
        <3>1. stable > Longest + age /\ stable > age /\ stable > Longest
            BY <2>1, Numbers
        <3>2. \A x : ~Waited(x)
            BY <2>1, <3>1, Numbers DEF Waited
        <3>3. task \in {"waiting", "sent", "answered", "merging"}
            BY <2>1 DEF TypeInv, TypeOK
        <3>4. ~(stable <= Longest) /\ ~(stable <= Longest + age)
            BY <2>1, <3>1, Numbers
        <3>5. task = "answered" => replies # {}
            BY DEF Inv, ReplyInv
        <3> QED BY <3>2, <3>3, <3>4, <3>5 DEF Inv, TimeInv
    <2>3. \A f \in Fields : served.upd[f] # Nil => whole[f] = served.upd[f]
        BY <2>2 DEF Inv, AppliedInv
    <2>4. whole \in [Fields -> Nat]
        BY <2>1 DEF TypeInv, TypeOK, Settings
    <2>5. Store!Merge(whole, served.upd) = whole
        BY <2>3, <2>4 DEF Store!Merge
    <2> QED BY <2>5 DEF UpToDate
<1> QED BY <1>1, Invariant, PTL
=============================================================================
