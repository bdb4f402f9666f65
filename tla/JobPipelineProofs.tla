-------------------------- MODULE JobPipelineProofs --------------------------
(***************************************************************************)
(* Proofs about JobPipeline for any number of backups, workers, messages   *)
(* and faults.                                                             *)
(***************************************************************************)
EXTENDS JobPipeline, SequenceTheorems, TLAPS

\* States of run_worker with a delivery in hand.
Busy == {"status", "analyze", "report", "ack", "nack"}

\* A message carries something exactly when it was published.
Published == \A m \in Msgs : (at[m] = "unsent") <=> (job[m] = NoJob)

\* What a worker holds, by the place in its code.
Held ==
    \A w \in Workers :
        /\ (cur[w] # NoMsg) <=> (st[w] \in Busy)
        /\ st[w] \in Busy => job[cur[w]] \in Backups
        /\ st[w] \notin Loop => buf[w] = <<>> /\ ~chan[w]
        /\ ~chan[w] => wire[w] = {} /\ \A m \in Msgs : at[m] # w

\* What a worker has in memory was accepted by the broker.
Seen ==
    \A w \in Workers : \A m \in Range(buf[w]) \cup ({cur[w]} \ {NoMsg}) :
        at[m] \notin {"unsent", "lost"}

\* Worker w knows that its report was recorded.
Done(w) == st[w] = "ack" \/ (st[w] = "report" /\ call[w] = "ok")

\* An ack that is about to be written, or is on the wire, was earned.
AckEarned ==
    \A w \in Workers :
        /\ Done(w) => cur[w] \in reported
        /\ \A m \in Msgs : <<m, "ack">> \in wire[w] => m \in reported

\* Only what does not decode is nacked without requeue.
DropsGarbage ==
    \A w \in Workers, m \in Msgs : <<m, "drop">> \in wire[w] => job[m] = Garbage

NotRunning(m) == \A b \in Backups : runner[b] # m

\* No row is marked running for a message whose ack is under way.
RunnerFree ==
    \A w \in Workers :
        /\ Done(w) /\ at[cur[w]] = w => NotRunning(cur[w])
        /\ \A m \in Msgs : <<m, "ack">> \in wire[w] => NotRunning(m)

\* A row marked running for a message is running, and the message is about it
\* and outstanding: with RunnerFree, its report is still to come.
MarkBacked ==
    \A b \in Backups : runner[b] # NoMsg =>
        /\ row[b] = "running"
        /\ job[runner[b]] = b
        /\ Outstanding(runner[b])

USE DEF Status, RowState, Places, Verbs, NoJob, Garbage, Loop, Busy

\* Appending an element adds it to the range of a sequence.
LEMMA RangeAppend ==
  ASSUME NEW S, NEW s \in Seq(S), NEW x \in S
  PROVE  Range(Append(s, x)) = Range(s) \cup {x}
<1>1. /\ DOMAIN s = 1..Len(s) /\ DOMAIN Append(s, x) = 1..(Len(s) + 1)
      /\ \A n \in 1..Len(s) : Append(s, x)[n] = s[n]
      /\ Append(s, x)[Len(s) + 1] = x /\ Len(s) \in Nat
  BY LenProperties, AppendProperties
<1> QED BY <1>1 DEF Range

\* A sequence without repetitions stays so when a new element is appended.
LEMMA InjectiveAppend ==
  ASSUME NEW S, NEW s \in Seq(S), NEW x \in S, IsInjective(s), x \notin Range(s)
  PROVE  IsInjective(Append(s, x))
<1>1. /\ DOMAIN s = 1..Len(s) /\ DOMAIN Append(s, x) = 1..(Len(s) + 1)
      /\ \A n \in 1..Len(s) : Append(s, x)[n] = s[n]
      /\ Append(s, x)[Len(s) + 1] = x /\ Len(s) \in Nat
  BY LenProperties, AppendProperties
<1> QED BY <1>1 DEF Range, IsInjective

\* A non-empty sequence is its head and its tail, and the head is not in the
\* tail of a sequence without repetitions.
LEMMA RangeTail ==
  ASSUME NEW S, NEW s \in Seq(S), s # <<>>
  PROVE  /\ Head(s) \in S /\ Tail(s) \in Seq(S)
         /\ Range(s) = {Head(s)} \cup Range(Tail(s))
         /\ IsInjective(s) => IsInjective(Tail(s)) /\ Head(s) \notin Range(Tail(s))
<1>1. /\ DOMAIN s = 1..Len(s) /\ Len(s) \in Nat \ {0} /\ Head(s) = s[1]
      /\ Tail(s) \in Seq(S) /\ Len(Tail(s)) = Len(s) - 1 /\ s[1] \in S
      /\ DOMAIN Tail(s) = 1..(Len(s) - 1)
      /\ \A n \in 1..(Len(s) - 1) : Tail(s)[n] = s[n + 1]
  BY LenProperties, HeadTailProperties, EmptySeq, ElementOfSeq
<1>2. \A n \in 1..Len(s) : n = 1 \/ (n - 1 \in 1..(Len(s) - 1) /\ s[n] = Tail(s)[n - 1])
  BY <1>1
<1>3. Range(s) = {Head(s)} \cup Range(Tail(s))
  <2>1. ASSUME NEW x \in Range(s) PROVE x \in {Head(s)} \cup Range(Tail(s))
    <3>1. PICK n \in 1..Len(s) : x = s[n]
      BY <1>1 DEF Range
    <3>2. CASE n # 1
      BY <1>1, <1>2, <3>1, <3>2 DEF Range
    <3> QED BY <1>1, <3>1, <3>2
  <2>2. ASSUME NEW x \in Range(Tail(s)) PROVE x \in Range(s)
    <3>1. PICK n \in 1..(Len(s) - 1) : x = s[n + 1]
      BY <1>1 DEF Range
    <3> QED BY <1>1, <3>1 DEF Range
  <2>3. Head(s) \in Range(s)
    BY <1>1 DEF Range
  <2> QED BY <2>1, <2>2, <2>3
<1>4. ASSUME IsInjective(s)
      PROVE  IsInjective(Tail(s)) /\ Head(s) \notin Range(Tail(s))
  BY <1>1, <1>4 DEF IsInjective, Range
<1> QED BY <1>1, <1>3, <1>4

\* The empty buffer holds nothing, nothing twice.
LEMMA RangeEmpty == Range(<<>>) = {} /\ IsInjective(<<>>)
  BY DEF Range, IsInjective

\* The messages of a wire to which one more verdict is written.
LEMMA FirstsAdd ==
  ASSUME NEW S, NEW a, NEW b
  PROVE  {p[1] : p \in S \cup {<<a, b>>}} = {p[1] : p \in S} \cup {a}
<1>1. <<a, b>>[1] = a
  OBVIOUS
<1>2. \A p \in S \cup {<<a, b>>} : p \in S \/ p[1] = a
  BY <1>1
<1>3. a \in {p[1] : p \in S \cup {<<a, b>>}}
  BY <1>1
<1> QED BY <1>2, <1>3

\* The empty system is well typed.
LEMMA TypeInit == Init => TypeOK
  BY ConstantsAssumption DEF Init, TypeOK

\* Every handler, worker step, fault and broker step keeps the types.
LEMMA TypeStep ==
  ASSUME TypeOK, Held, [Next]_vars
  PROVE  TypeOK'
<1> USE ConstantsAssumption
<1>1. ASSUME NEW b \in Backups, client_step(b)
      PROVE  TypeOK'
  <2>1. CASE create_backup(b)
    BY <2>1 DEF create_backup, TypeOK, brokerVars, workerVars
  <2>2. CASE delete_backup(b)
    BY <2>2 DEF delete_backup, TypeOK, brokerVars, workerVars
  <2>3. CASE enqueue_backup(b)
    BY <2>3 DEF enqueue_backup, TypeOK, brokerVars, workerVars
  <2>4. CASE publish_fails(b)
    BY <2>4 DEF publish_fails, TypeOK, brokerVars, workerVars
  <2>5. ASSUME NEW s \in Status, update_backup(b, s) PROVE TypeOK'
    BY <2>5 DEF update_backup, SetStatus, TypeOK, brokerVars, workerVars
  <2>6. ASSUME NEW m \in Msgs, publish_job(b, m) PROVE TypeOK'
    BY <2>6 DEF publish_job, TypeOK, workerVars
  <2>7. ASSUME NEW s \in {"running", "completed"}, LateCall(b, s) PROVE TypeOK'
    BY <2>7 DEF LateCall, SetStatus, TypeOK, brokerVars, workerVars
  <2> QED BY <1>1, <2>1, <2>2, <2>3, <2>4, <2>5, <2>6, <2>7 DEF client_step
<1>2. ASSUME NEW w \in Workers, worker_step(w)
      PROVE  TypeOK'
  <2>1. CASE take_job(w)
    BY <2>1 DEF take_job, TypeOK, serviceVars, brokerVars
  <2>2. CASE reject_job(w)
    BY <2>2 DEF reject_job, TypeOK, serviceVars, brokerVars
  <2>3. CASE status_returns(w)
    BY <2>3 DEF status_returns, call_returns, TypeOK, serviceVars, brokerVars
  <2>4. CASE analyze(w)
    BY <2>4 DEF analyze, TypeOK, serviceVars, brokerVars
  <2>5. CASE report_returns(w)
    BY <2>5 DEF report_returns, call_returns, TypeOK, serviceVars, brokerVars
  <2>6. CASE ack(w)
    BY <2>6 DEF ack, send_verdict, Held, TypeOK, serviceVars, brokerVars
  <2>7. CASE nack(w)
    BY <2>7 DEF nack, send_verdict, Held, TypeOK, serviceVars, brokerVars
  <2>8. CASE run_worker_ends(w)
    BY <2>8 DEF run_worker_ends, TypeOK, serviceVars, brokerVars
  <2> QED BY <1>2, <2>1, <2>2, <2>3, <2>4, <2>5, <2>6, <2>7, <2>8 DEF worker_step
<1>3. ASSUME NEW w \in Workers, grpc_step(w)
      PROVE  TypeOK'
  <2>1. CASE update_status(w)
    BY <2>1 DEF update_status, SetStatus, TypeOK, brokerVars
  <2>2. CASE report_result(w)
    BY <2>2 DEF report_result, SetStatus, Recorded, Held, TypeOK, brokerVars
  <2> QED BY <1>3, <2>1, <2>2 DEF grpc_step
<1>4. ASSUME NEW w \in Workers, process_step(w)
      PROVE  TypeOK'
  <2>0. Abandoned(w) \subseteq Backups \X {"running", "completed"}
    BY DEF Abandoned, Recorded, ReportedStatus, Held, TypeOK
  <2>1. CASE start(w)
    BY <2>1 DEF start, TypeOK, serviceVars, brokerVars
  <2>2. CASE connect(w)
    BY <2>2 DEF connect, TypeOK, serviceVars, brokerVars
  <2>3. CASE connect_fails(w)
    BY <2>3 DEF connect_fails, Fault, TypeOK, serviceVars, brokerVars
  <2>31. CASE consume_fails(w)
    BY <2>31 DEF consume_fails, Fault, TypeOK, serviceVars, brokerVars
  <2>4. CASE call_fails(w)
    BY <2>0, <2>4 DEF call_fails, Fault, TypeOK, serviceVars, brokerVars
  <2>5. ASSUME Exit(w), faults' \in 0..MaxFaults PROVE TypeOK'
    BY <2>0, <2>5 DEF Exit, CloseChannel, TypeOK, serviceVars
  <2>6. CASE crash(w)
    BY <2>5, <2>6 DEF crash, Fault, TypeOK
  <2>7. CASE ConnectionLost(w)
    BY <2>7 DEF ConnectionLost, CloseChannel, Fault, TypeOK, serviceVars
  <2>8. CASE shutdown_signal(w)
    BY <2>8 DEF shutdown_signal, Fault, TypeOK, serviceVars, brokerVars
  <2>9. CASE shutdown_clean(w) \/ shutdown_timeout(w)
    BY <2>5, <2>9 DEF shutdown_clean, shutdown_timeout, TypeOK
  <2> QED BY <1>4, <2>1, <2>2, <2>3, <2>31, <2>4, <2>6, <2>7, <2>8, <2>9 DEF process_step
<1>5. ASSUME NEW m \in Msgs, broker_step(m)
      PROVE  TypeOK'
  <2>1. CASE ForeignPublish(m)
    BY <2>1 DEF ForeignPublish, TypeOK, serviceVars, workerVars
  <2>2. ASSUME NEW w \in Workers, Deliver(m, w) PROVE TypeOK'
    BY <2>2 DEF Deliver, TypeOK, serviceVars
  <2>3. ASSUME NEW w \in Workers, NEW v \in Verbs, Settle(w, m, v) PROVE TypeOK'
    BY <2>3 DEF Settle, Outcome, TypeOK, serviceVars
  <2> QED BY <1>5, <2>1, <2>2, <2>3 DEF broker_step
<1>6. CASE UNCHANGED vars
  BY <1>6 DEF TypeOK, vars, serviceVars, brokerVars, workerVars
<1> QED BY <1>1, <1>2, <1>3, <1>4, <1>5, <1>6 DEF Next

-----------------------------------------------------------------------------
(* Which variables the groups of actions leave alone.                      *)

\* REST handlers and late calls touch no worker and record no report.
LEMMA ClientFrame ==
  ASSUME NEW b \in Backups, client_step(b)
  PROVE  UNCHANGED <<workerVars, reported>>
  BY DEF client_step, create_backup, delete_backup, enqueue_backup, publish_fails,
         update_backup, publish_job, LateCall

\* A step of run_worker changes no row, no message and no channel.
LEMMA WorkerFrame ==
  ASSUME NEW w \in Workers, worker_step(w)
  PROVE  UNCHANGED <<serviceVars, brokerVars, orphans, reported, chan>>
  BY DEF worker_step, take_job, reject_job, status_returns, report_returns, call_returns,
         analyze, ack, nack, send_verdict, run_worker_ends

\* A gRPC handler changes rows and the caller's answer only.
LEMMA GrpcFrame ==
  ASSUME NEW w \in Workers, grpc_step(w)
  PROVE  UNCHANGED <<brokerVars, chan, buf, cur, wire, st, stopping>>
  BY DEF grpc_step, update_status, report_result

\* Every step of a process is a change of its call and place, the loss of its
\* connection, or its end.
LEMMA ProcessFrame ==
  ASSUME NEW w \in Workers, process_step(w)
  PROVE  /\ UNCHANGED <<serviceVars, job, reported>>
         /\ \/ start(w) \/ connect(w) \/ connect_fails(w) \/ consume_fails(w) \/ call_fails(w)
            \/ ConnectionLost(w) \/ Exit(w) \/ UNCHANGED <<brokerVars, chan, buf, cur, wire, st, call>>
  BY DEF process_step, start, connect, connect_fails, consume_fails, call_fails, crash,
         ConnectionLost,
         shutdown_signal, shutdown_clean, shutdown_timeout, Exit, brokerVars

\* RabbitMQ changes no row and nothing in a worker but its prefetched deliveries.
LEMMA BrokerFrame ==
  ASSUME NEW m \in Msgs, broker_step(m)
  PROVE  UNCHANGED <<serviceVars, chan, cur, st, call, stopping, orphans, reported>>
  BY DEF broker_step, ForeignPublish, Deliver, Settle, workerVars

-----------------------------------------------------------------------------
\* A verdict is on the wire only for a message its worker's channel has unacked.
LEMMA OnWire ==
  ASSUME TypeOK, Held, ChannelAgreement,
         NEW w \in Workers, NEW m \in Msgs, NEW v \in Verbs, <<m, v>> \in wire[w]
  PROVE  chan[w] /\ at[m] = w /\ at[m] \notin Places
  BY ConstantsAssumption DEF TypeOK, Held, ChannelAgreement

\* Publishing is what gives a message its content, and nothing takes it back.
LEMMA PublishedStep ==
  ASSUME TypeOK, Held, ChannelAgreement, Published, [Next]_vars
  PROVE  Published'
<1> USE ConstantsAssumption
<1>1. ASSUME NEW b \in Backups, client_step(b)
      PROVE  Published'
  <2>1. ASSUME NEW m \in Msgs, publish_job(b, m) PROVE Published'
    BY <2>1 DEF publish_job, Published, TypeOK
  <2>2. CASE UNCHANGED brokerVars
    BY <2>2 DEF brokerVars, Published
  <2> QED BY <1>1, <2>1, <2>2 DEF client_step, create_backup, delete_backup,
             enqueue_backup, publish_fails, update_backup, LateCall
<1>2. ASSUME NEW w \in Workers, process_step(w)
      PROVE  Published'
  <2>1. CASE CloseChannel(w)
    BY <1>2, <2>1, ProcessFrame DEF CloseChannel, Published, TypeOK
  <2>2. CASE UNCHANGED brokerVars
    BY <2>2 DEF brokerVars, Published
  <2> QED BY <1>2, <2>1, <2>2, ProcessFrame DEF start, connect, connect_fails,
         consume_fails,
             call_fails, ConnectionLost, Exit, brokerVars
<1>3. ASSUME NEW m \in Msgs, broker_step(m)
      PROVE  Published'
  <2>1. CASE ForeignPublish(m)
    BY <2>1 DEF ForeignPublish, Published, TypeOK
  <2>2. ASSUME NEW w \in Workers, Deliver(m, w) PROVE Published'
    BY <2>2 DEF Deliver, Published, TypeOK
  <2>3. ASSUME NEW w \in Workers, NEW v \in Verbs, Settle(w, m, v)
        PROVE  Published'
    <3>1. Outcome(v) # "unsent"
      BY DEF Outcome
    <3>2. at[m] # "unsent"
      BY <2>3, OnWire DEF Settle
    <3> QED BY <2>3, <3>1, <3>2 DEF Settle, Published, TypeOK
  <2> QED BY <1>3, <2>1, <2>2, <2>3 DEF broker_step
<1>4. CASE UNCHANGED brokerVars
  BY <1>4 DEF brokerVars, Published
<1> QED BY <1>1, <1>2, <1>3, <1>4, WorkerFrame, GrpcFrame DEF Next, vars, brokerVars

-----------------------------------------------------------------------------
\* run_worker has a delivery in hand exactly from take_job to its verdict, and a
\* process without a channel has nothing on the wire or unacked.
LEMMA HeldStep ==
  ASSUME TypeOK, Published, Held, ChannelAgreement, [Next]_vars
  PROVE  Held'
<1> USE ConstantsAssumption
<1>1. ASSUME NEW b \in Backups, client_step(b)
      PROVE  Held'
  <2>1. ASSUME NEW m \in Msgs, publish_job(b, m) PROVE Held'
    BY <2>1 DEF publish_job, Published, Held, TypeOK, workerVars
  <2>2. CASE UNCHANGED brokerVars
    BY <1>1, <2>2, ClientFrame DEF Held, brokerVars, workerVars
  <2> QED BY <1>1, <2>1, <2>2 DEF client_step, create_backup, delete_backup,
             enqueue_backup, publish_fails, update_backup, LateCall
<1>2. ASSUME NEW w \in Workers, worker_step(w)
      PROVE  Held'
  <2>1. CASE take_job(w)
    BY <2>1, RangeTail DEF take_job, Held, TypeOK, brokerVars
  <2>2. CASE reject_job(w)
    BY <2>2 DEF reject_job, Held, TypeOK, brokerVars
  <2>3. CASE status_returns(w) \/ report_returns(w)
    BY <2>3 DEF status_returns, report_returns, call_returns, Held, TypeOK, brokerVars
  <2>4. CASE analyze(w)
    BY <2>4 DEF analyze, Held, TypeOK, brokerVars
  <2>5. CASE ack(w) \/ nack(w)
    <3>1. /\ st' = [st EXCEPT ![w] = "consuming"] /\ cur' = [cur EXCEPT ![w] = NoMsg]
          /\ UNCHANGED <<chan, buf, job, at>> /\ chan[w]
          /\ \A x \in Workers : x # w => wire'[x] = wire[x]
      BY <2>5 DEF ack, nack, send_verdict, TypeOK, brokerVars
    <3> QED BY <3>1 DEF Held, TypeOK
  <2>6. CASE run_worker_ends(w)
    BY <2>6 DEF run_worker_ends, Held, TypeOK, brokerVars
  <2> QED BY <1>2, <2>1, <2>2, <2>3, <2>4, <2>5, <2>6 DEF worker_step
<1>3. ASSUME NEW w \in Workers, grpc_step(w)
      PROVE  Held'
  BY <1>3, GrpcFrame DEF Held, brokerVars
<1>4. ASSUME NEW w \in Workers, process_step(w)
      PROVE  Held'
  <2>1. CASE start(w)
    BY <2>1 DEF start, Held, TypeOK, brokerVars
  <2>2. CASE connect(w)
    BY <2>2 DEF connect, Held, TypeOK, brokerVars
  <2>3. CASE connect_fails(w) \/ consume_fails(w)
    BY <2>3 DEF connect_fails, consume_fails, Held, TypeOK, brokerVars
  <2>4. CASE call_fails(w)
    BY <2>4 DEF call_fails, Held, TypeOK, brokerVars
  <2>5. CASE ConnectionLost(w)
    BY <2>5 DEF ConnectionLost, CloseChannel, Held, TypeOK
  <2>6. CASE Exit(w)
    BY <2>6 DEF Exit, CloseChannel, Held, TypeOK
  <2>7. CASE UNCHANGED <<brokerVars, chan, buf, cur, wire, st, call>>
    BY <2>7 DEF Held, brokerVars
  <2> QED BY <1>4, <2>1, <2>2, <2>3, <2>4, <2>5, <2>6, <2>7, ProcessFrame
<1>5. ASSUME NEW m \in Msgs, broker_step(m)
      PROVE  Held'
  <2>1. CASE ForeignPublish(m)
    BY <2>1 DEF ForeignPublish, Published, Held, TypeOK, workerVars
  <2>2. ASSUME NEW w \in Workers, Deliver(m, w) PROVE Held'
    BY <2>2 DEF Deliver, Held, TypeOK
  <2>3. ASSUME NEW w \in Workers, NEW v \in Verbs, Settle(w, m, v) PROVE Held'
    <3>1. Outcome(v) \in Places
      BY DEF Outcome
    <3> QED BY <2>3, <3>1 DEF Settle, Held, TypeOK
  <2> QED BY <1>5, <2>1, <2>2, <2>3 DEF broker_step
<1>6. CASE UNCHANGED vars
  BY <1>6 DEF Held, vars, brokerVars, workerVars
<1> QED BY <1>1, <1>2, <1>3, <1>4, <1>5, <1>6 DEF Next

-----------------------------------------------------------------------------
\* The part of ChannelAgreement about one worker.
Agrees(w) ==
    /\ chan[w] => {m \in Msgs : at[m] = w} =
          Range(buf[w]) \cup ({cur[w]} \ {NoMsg}) \cup {p[1] : p \in wire[w]}
    /\ IsInjective(buf[w])
    /\ cur[w] \notin Range(buf[w])
    /\ \A p \in wire[w] : p[1] \notin Range(buf[w]) \cup {cur[w]}
    /\ \A p, q \in wire[w] : p[1] = q[1] => p = q

\* ChannelAgreement worker by worker.
LEMMA AgreesEverywhere == ChannelAgreement <=> \A w \in Workers : Agrees(w)
  BY DEF ChannelAgreement, Agrees

\* Deliveries, verdicts, lost connections and exits keep broker and worker in
\* agreement about what is unacked.
LEMMA ChannelStep ==
  ASSUME TypeOK, Held, ChannelAgreement, [Next]_vars
  PROVE  ChannelAgreement'
<1> USE ConstantsAssumption
<1> SUFFICES ASSUME NEW x \in Workers PROVE Agrees(x)'
  BY AgreesEverywhere DEF ChannelAgreement, Agrees
<1>0. Agrees(x)
  BY AgreesEverywhere
\* Enough for a step that leaves x alone: its memory and its unacked messages
\* stay, and its wire stays or is cut with the channel.
<1>f. ASSUME chan'[x] => chan[x] /\ \A m \in Msgs : (at'[m] = x) <=> (at[m] = x),
             buf'[x] = buf[x], cur'[x] = cur[x],
             wire'[x] = wire[x] \/ (wire'[x] = {} /\ ~chan'[x])
      PROVE  Agrees(x)'
  BY <1>0, <1>f DEF Agrees
<1>1. ASSUME NEW b \in Backups, client_step(b)
      PROVE  Agrees(x)'
  <2>1. \A m \in Msgs : (at'[m] = x) <=> (at[m] = x)
    <3>1. ASSUME NEW m \in Msgs, publish_job(b, m)
          PROVE  \A k \in Msgs : (at'[k] = x) <=> (at[k] = x)
      BY <3>1 DEF publish_job, TypeOK
    <3> QED BY <1>1, <3>1 DEF client_step, create_backup, delete_backup,
               enqueue_backup, publish_fails, update_backup, LateCall, brokerVars
  <2> QED BY <1>0, <1>1, <2>1, ClientFrame, <1>f DEF workerVars
<1>2. ASSUME NEW w \in Workers, worker_step(w)
      PROVE  Agrees(x)'
  <2>0. UNCHANGED <<at, chan>>
    BY <1>2, WorkerFrame DEF brokerVars
  <2>1. CASE x # w
    <3>1. buf[x]' = buf[x] /\ cur[x]' = cur[x] /\ wire[x]' = wire[x]
      BY <1>2, <2>1 DEF worker_step, take_job, reject_job, status_returns, report_returns,
         call_returns, analyze, ack, nack, send_verdict, run_worker_ends, TypeOK
    <3> QED BY <1>0, <2>0, <3>1, <1>f
  <2>2. CASE x = w /\ take_job(w)
    <3>0. buf[x] \in Seq(Msgs) /\ buf[x] # <<>> /\ IsInjective(buf[x]) /\ cur[x] = NoMsg
      BY <1>0, <2>2 DEF take_job, Agrees, Held, TypeOK
    <3>1. /\ Head(buf[x]) \in Msgs
          /\ Range(buf[x]) = {Head(buf[x])} \cup Range(Tail(buf[x]))
          /\ IsInjective(Tail(buf[x])) /\ Head(buf[x]) \notin Range(Tail(buf[x]))
      BY <3>0, RangeTail
    <3>2. cur'[x] = Head(buf[x]) /\ buf'[x] = Tail(buf[x]) /\ wire'[x] = wire[x]
      BY <2>2 DEF take_job, TypeOK
    <3> QED BY <1>0, <2>0, <3>0, <3>1, <3>2 DEF Agrees
  <2>3. CASE x = w /\ reject_job(w)
    <3>0. buf[x] \in Seq(Msgs) /\ buf[x] # <<>> /\ IsInjective(buf[x]) /\ cur[x] = NoMsg
      BY <1>0, <2>3 DEF reject_job, Agrees, Held, TypeOK
    <3>1. /\ Head(buf[x]) \in Msgs
          /\ Range(buf[x]) = {Head(buf[x])} \cup Range(Tail(buf[x]))
          /\ IsInjective(Tail(buf[x])) /\ Head(buf[x]) \notin Range(Tail(buf[x]))
      BY <3>0, RangeTail
    <3>2. /\ cur'[x] = cur[x] /\ buf'[x] = Tail(buf[x])
          /\ wire'[x] = IF chan[x] THEN wire[x] \cup {<<Head(buf[x]), "drop">>} ELSE wire[x]
      BY <2>3 DEF reject_job, TypeOK
    <3>3. CASE chan[x]
      <4>0. wire'[x] = wire[x] \cup {<<Head(buf[x]), "drop">>}
        BY <3>2, <3>3
      <4>1. {p[1] : p \in wire'[x]} = {p[1] : p \in wire[x]} \cup {Head(buf[x])}
        BY <4>0, FirstsAdd
      <4>2. \A p \in wire[x] : p[1] # Head(buf[x])
        BY <1>0, <3>1 DEF Agrees
      <4>3. {m \in Msgs : at'[m] = x} =
               Range(buf'[x]) \cup ({cur'[x]} \ {NoMsg}) \cup {p[1] : p \in wire'[x]}
        BY <1>0, <2>0, <3>0, <3>1, <3>2, <3>3, <4>1 DEF Agrees
      <4>4. \A p \in wire'[x] : p[1] = Head(buf[x]) \/ p \in wire[x]
        BY <3>2, <3>3
      <4>5. \A p \in wire'[x] : p[1] \notin Range(buf'[x]) \cup {cur'[x]}
        BY <1>0, <3>0, <3>1, <3>2, <4>4 DEF Agrees
      <4>6. \A p, q \in wire'[x] : p[1] = q[1] => p = q
        BY <1>0, <3>2, <3>3, <4>2 DEF Agrees
      <4> QED BY <1>0, <3>0, <3>1, <3>2, <4>3, <4>5, <4>6 DEF Agrees
    <3>4. CASE ~chan[x]
      BY <1>0, <2>0, <3>0, <3>1, <3>2, <3>4 DEF Agrees
    <3> QED BY <3>3, <3>4
  <2>4. CASE x = w /\ (status_returns(w) \/ report_returns(w) \/ analyze(w))
    BY <1>0, <2>0, <2>4, <1>f DEF status_returns, report_returns, call_returns, analyze
  <2>5. CASE x = w /\ (ack(w) \/ nack(w))
    <3>1. PICK v \in Verbs : wire'[x] = wire[x] \cup {<<cur[x], v>>}
      BY <2>5 DEF ack, nack, send_verdict, TypeOK
    <3>2. /\ cur'[x] = NoMsg /\ buf'[x] = buf[x] /\ cur[x] \in Msgs
          /\ NoMsg \notin Range(buf[x])
      BY <2>5 DEF ack, nack, send_verdict, Held, TypeOK, Range
    <3>3. {p[1] : p \in wire'[x]} = {p[1] : p \in wire[x]} \cup {cur[x]}
      BY <3>1, FirstsAdd
    <3>4. \A p \in wire[x] : p[1] # cur[x] /\ p[1] # NoMsg
      BY <1>0 DEF Agrees, TypeOK
    <3> QED BY <1>0, <2>0, <3>1, <3>2, <3>3, <3>4 DEF Agrees
  <2>6. CASE x = w /\ run_worker_ends(w)
    <3>1. /\ ~chan'[x] /\ buf'[x] = <<>> /\ cur'[x] = NoMsg /\ wire'[x] = {}
      BY <2>0, <2>6 DEF run_worker_ends, Held, TypeOK
    <3> QED BY <3>1, RangeEmpty DEF Agrees
  <2> QED BY <1>2, <2>1, <2>2, <2>3, <2>4, <2>5, <2>6 DEF worker_step
<1>3. ASSUME NEW w \in Workers, grpc_step(w)
      PROVE  Agrees(x)'
  BY <1>0, <1>3, GrpcFrame, <1>f DEF brokerVars
<1>4. ASSUME NEW w \in Workers, process_step(w)
      PROVE  Agrees(x)'
  <2>1. CASE start(w) \/ connect_fails(w) \/ consume_fails(w) \/ call_fails(w)
             \/ UNCHANGED <<brokerVars, chan, buf, cur, wire, st, call>>
    BY <1>0, <2>1, <1>f DEF start, connect_fails, consume_fails, call_fails, brokerVars
  <2>2. CASE connect(w)
    <3>1. CASE x # w
      BY <1>0, <2>2, <3>1, <1>f DEF connect, TypeOK, brokerVars
    <3>2. CASE x = w
      <4>1. /\ buf'[x] = <<>> /\ cur'[x] = NoMsg /\ wire'[x] = {}
            /\ \A m \in Msgs : at'[m] # x
        BY <2>2, <3>2 DEF connect, Held, TypeOK, brokerVars
      <4> QED BY <4>1, RangeEmpty DEF Agrees
    <3> QED BY <3>1, <3>2
  <2>3. CASE ConnectionLost(w)
    BY <1>0, <2>3, <1>f DEF ConnectionLost, CloseChannel, TypeOK
  <2>4. CASE Exit(w)
    <3>1. CASE x # w
      BY <1>0, <2>4, <3>1, <1>f DEF Exit, CloseChannel, TypeOK
    <3>2. CASE x = w
      <4>1. ~chan'[x] /\ buf'[x] = <<>> /\ cur'[x] = NoMsg /\ wire'[x] = {}
        BY <2>4, <3>2 DEF Exit, CloseChannel, TypeOK
      <4> QED BY <4>1, RangeEmpty DEF Agrees
    <3> QED BY <3>1, <3>2
  <2> QED BY <1>4, <2>1, <2>2, <2>3, <2>4, ProcessFrame
<1>5. ASSUME NEW m \in Msgs, broker_step(m)
      PROVE  Agrees(x)'
  <2>1. CASE ForeignPublish(m)
    BY <1>0, <2>1, <1>f DEF ForeignPublish, TypeOK, workerVars
  <2>2. ASSUME NEW w \in Workers, Deliver(m, w) PROVE Agrees(x)'
    <3>1. CASE x # w
      BY <1>0, <2>2, <3>1, <1>f DEF Deliver, TypeOK
    <3>2. CASE x = w
      <4>1. /\ buf'[x] = Append(buf[x], m) /\ UNCHANGED <<cur, wire, chan>> /\ chan[x]
            /\ buf[x] \in Seq(Msgs)
            /\ at'[m] = x /\ at[m] # x /\ \A k \in Msgs : k # m => at'[k] = at[k]
        BY <2>2, <3>2 DEF Deliver, TypeOK
      <4>2. m \notin Range(buf[x]) \cup {cur[x]} /\ \A p \in wire[x] : p[1] # m
        BY <1>0, <4>1 DEF Agrees
      <4>3. Range(buf'[x]) = Range(buf[x]) \cup {m} /\ IsInjective(buf'[x])
        BY <1>0, <4>1, <4>2, RangeAppend, InjectiveAppend DEF Agrees
      <4>4. {k \in Msgs : at'[k] = x} = {k \in Msgs : at[k] = x} \cup {m}
        BY <4>1
      <4> QED BY <1>0, <4>1, <4>2, <4>3, <4>4 DEF Agrees
    <3> QED BY <3>1, <3>2
  <2>3. ASSUME NEW w \in Workers, NEW v \in Verbs, Settle(w, m, v) PROVE Agrees(x)'
    <3>0. at[m] = w /\ chan[w] /\ Outcome(v) \in Places
      BY <2>3, OnWire DEF Settle, Outcome
    <3>1. CASE x # w
      BY <1>0, <2>3, <3>0, <3>1, <1>f DEF Settle, TypeOK
    <3>2. CASE x = w
      <4>1. /\ UNCHANGED <<buf, cur, chan>> /\ <<m, v>> \in wire[x]
            /\ wire'[x] = wire[x] \ {<<m, v>>}
            /\ at'[m] # x /\ \A k \in Msgs : k # m => at'[k] = at[k]
        BY <2>3, <3>0, <3>2 DEF Settle, TypeOK
      <4>2. {k \in Msgs : at'[k] = x} = {k \in Msgs : at[k] = x} \ {m}
        BY <4>1
      <4>3. {p[1] : p \in wire'[x]} = {p[1] : p \in wire[x]} \ {m}
        BY <1>0, <4>1 DEF Agrees
      <4>4. m \notin Range(buf[x]) \cup {cur[x]}
        BY <1>0, <4>1 DEF Agrees
      <4> QED BY <1>0, <4>1, <4>2, <4>3, <4>4 DEF Agrees
    <3> QED BY <3>1, <3>2
  <2> QED BY <1>5, <2>1, <2>2, <2>3 DEF broker_step
<1>6. CASE UNCHANGED vars
  BY <1>0, <1>6, <1>f DEF vars, brokerVars, workerVars
<1> QED BY <1>1, <1>2, <1>3, <1>4, <1>5, <1>6 DEF Next

-----------------------------------------------------------------------------
\* What a worker holds, as single facts.
LEMMA InHand ==
  ASSUME TypeOK, Held, NEW w \in Workers, st[w] \in Busy
  PROVE  cur[w] \in Msgs /\ cur[w] # NoMsg /\ job[cur[w]] \in Backups
  BY ConstantsAssumption DEF Held, TypeOK

\* On an open channel the delivery in hand is unacked at its worker.
LEMMA InHandUnacked ==
  ASSUME TypeOK, Held, ChannelAgreement, NEW w \in Workers, st[w] \in Busy, chan[w]
  PROVE  at[cur[w]] = w
  BY InHand DEF ChannelAgreement

\* The broker only takes verdicts off the wire.
LEMMA BrokerWire ==
  ASSUME TypeOK, NEW m \in Msgs, broker_step(m), NEW x \in Workers
  PROVE  wire'[x] \subseteq wire[x]
<1>1. ASSUME NEW w \in Workers, NEW v \in Verbs, Settle(w, m, v)
      PROVE  wire'[x] \subseteq wire[x]
  BY <1>1 DEF Settle, TypeOK
<1>2. ASSUME NEW w \in Workers, ForeignPublish(m) \/ Deliver(m, w)
      PROVE  wire' = wire
  BY <1>2 DEF ForeignPublish, Deliver, workerVars
<1> QED BY <1>1, <1>2 DEF broker_step

\* An ack is written only after report_result was executed and answered.
LEMMA AckEarnedStep ==
  ASSUME TypeOK, Held, AckEarned, [Next]_vars
  PROVE  AckEarned'
<1> USE ConstantsAssumption
<1>1. ASSUME NEW b \in Backups, client_step(b)
      PROVE  AckEarned'
  BY <1>1, ClientFrame DEF AckEarned, Done, workerVars
<1>2. ASSUME NEW w \in Workers, worker_step(w)
      PROVE  AckEarned'
  <2>0. reported' = reported
    BY <1>2, WorkerFrame
  <2>1. CASE take_job(w)
    BY <2>0, <2>1 DEF take_job, AckEarned, Done, TypeOK
  <2>2. CASE reject_job(w)
    <3>1. \A x \in Workers, m \in Msgs : <<m, "ack">> \in wire'[x] => <<m, "ack">> \in wire[x]
      BY <2>2 DEF reject_job, TypeOK
    <3> QED BY <2>0, <2>2, <3>1 DEF reject_job, AckEarned, Done
  <2>3. CASE status_returns(w) \/ report_returns(w)
    BY <2>0, <2>3 DEF status_returns, report_returns, call_returns, AckEarned, Done, TypeOK
  <2>4. CASE analyze(w)
    BY <2>0, <2>4 DEF analyze, AckEarned, Done, TypeOK
  <2>5. CASE ack(w)
    <3>1. /\ st[w] = "ack" /\ cur[w] \in reported
          /\ \A x \in Workers : wire'[x] \subseteq wire[x] \cup {<<cur[w], "ack">>}
      BY <2>5 DEF ack, send_verdict, AckEarned, Done, TypeOK
    <3>2. \A x \in Workers : Done(x)' => Done(x) /\ cur'[x] = cur[x]
      BY <2>5 DEF ack, send_verdict, Done, TypeOK
    <3>3. \A x \in Workers : \A m \in Msgs : <<m, "ack">> \in wire'[x] => m \in reported
      BY <3>1 DEF AckEarned
    <3> QED BY <2>0, <3>2, <3>3 DEF AckEarned
  <2>6. CASE nack(w)
    <3>1. \A x \in Workers, m \in Msgs : <<m, "ack">> \in wire'[x] => <<m, "ack">> \in wire[x]
      BY <2>6 DEF nack, send_verdict, TypeOK
    <3>2. \A x \in Workers : Done(x)' => Done(x) /\ cur'[x] = cur[x]
      BY <2>6 DEF nack, send_verdict, Done, TypeOK
    <3> QED BY <2>0, <3>1, <3>2 DEF AckEarned
  <2>7. CASE run_worker_ends(w)
    BY <2>0, <2>7 DEF run_worker_ends, AckEarned, Done, TypeOK
  <2> QED BY <1>2, <2>1, <2>2, <2>3, <2>4, <2>5, <2>6, <2>7 DEF worker_step
<1>3. ASSUME NEW w \in Workers, grpc_step(w)
      PROVE  AckEarned'
  <2>1. CASE update_status(w)
    BY <2>1 DEF update_status, AckEarned, Done, TypeOK
  <2>2. CASE report_result(w)
    BY <2>2 DEF report_result, AckEarned, Done, TypeOK
  <2> QED BY <1>3, <2>1, <2>2 DEF grpc_step
<1>4. ASSUME NEW w \in Workers, process_step(w)
      PROVE  AckEarned'
  <2>0. reported' = reported
    BY <1>4, ProcessFrame
  <2>1. CASE start(w) \/ connect(w) \/ connect_fails(w) \/ consume_fails(w) \/ call_fails(w)
    <3>1. \A x \in Workers : Done(x)' => Done(x)
      BY <2>1 DEF start, connect, connect_fails, consume_fails, call_fails, Done, TypeOK
    <3>2. UNCHANGED <<cur, wire>>
      BY <2>1 DEF start, connect, connect_fails, consume_fails, call_fails
    <3> QED BY <2>0, <3>1, <3>2 DEF AckEarned
  <2>2. CASE ConnectionLost(w)
    BY <2>0, <2>2 DEF ConnectionLost, CloseChannel, AckEarned, Done, TypeOK
  <2>3. CASE Exit(w)
    BY <2>0, <2>3 DEF Exit, CloseChannel, AckEarned, Done, TypeOK
  <2>4. CASE UNCHANGED <<brokerVars, chan, buf, cur, wire, st, call>>
    BY <2>0, <2>4 DEF AckEarned, Done
  <2> QED BY <1>4, <2>1, <2>2, <2>3, <2>4, ProcessFrame
<1>5. ASSUME NEW m \in Msgs, broker_step(m)
      PROVE  AckEarned'
  <2>1. \A x \in Workers : wire'[x] \subseteq wire[x]
    BY <1>5, BrokerWire
  <2> QED BY <1>5, <2>1, BrokerFrame DEF AckEarned, Done
<1>6. CASE UNCHANGED vars
  BY <1>6 DEF AckEarned, Done, vars, workerVars
<1> QED BY <1>1, <1>2, <1>3, <1>4, <1>5, <1>6 DEF Next

-----------------------------------------------------------------------------
\* A message the broker has accepted stays accepted.
LEMMA AcceptedStays ==
  ASSUME TypeOK, Held, ChannelAgreement, [Next]_vars,
         NEW k \in Msgs, at[k] \notin {"unsent", "lost"}
  PROVE  at'[k] \notin {"unsent", "lost"}
<1> USE ConstantsAssumption
<1>1. ASSUME NEW b \in Backups, client_step(b)
      PROVE  at'[k] = at[k]
  <2>1. ASSUME NEW m \in Msgs, publish_job(b, m) PROVE at'[k] = at[k]
    BY <2>1 DEF publish_job, TypeOK
  <2> QED BY <1>1, <2>1 DEF client_step, create_backup, delete_backup, enqueue_backup,
             publish_fails, update_backup, LateCall, brokerVars
<1>2. ASSUME NEW w \in Workers, process_step(w)
      PROVE  at'[k] \in {at[k], "ready"}
  <2>1. CASE CloseChannel(w)
    BY <2>1 DEF CloseChannel, TypeOK
  <2> QED BY <1>2, <2>1, ProcessFrame DEF start, connect, connect_fails, consume_fails,
         call_fails,
             ConnectionLost, Exit, brokerVars
<1>3. ASSUME NEW m \in Msgs, broker_step(m)
      PROVE  at'[k] \notin {"unsent", "lost"}
  <2>1. CASE ForeignPublish(m)
    BY <2>1 DEF ForeignPublish, TypeOK
  <2>2. ASSUME NEW w \in Workers, Deliver(m, w) PROVE at'[k] \in {at[k], w}
    BY <2>2 DEF Deliver, TypeOK
  <2>3. ASSUME NEW w \in Workers, NEW v \in Verbs, Settle(w, m, v)
        PROVE  at'[k] \in {at[k], "done", "ready", "dropped"}
    <3>1. Outcome(v) \in {"done", "ready", "dropped"}
      BY DEF Outcome
    <3> QED BY <2>3, <3>1 DEF Settle, TypeOK
  <2> QED BY <1>3, <2>1, <2>2, <2>3 DEF broker_step
<1> QED BY <1>1, <1>2, <1>3, WorkerFrame, GrpcFrame DEF Next, vars, brokerVars

\* Whatever reaches a worker's memory was accepted by the broker.
LEMMA SeenStep ==
  ASSUME TypeOK, Held, ChannelAgreement, Seen, [Next]_vars
  PROVE  Seen'
<1> USE ConstantsAssumption
<1> DEFINE Memory(w) == Range(buf[w]) \cup ({cur[w]} \ {NoMsg})
<1> SUFFICES ASSUME NEW x \in Workers, NEW k \in Memory(x)'
             PROVE  at'[k] \notin {"unsent", "lost"}
  BY DEF Seen
<1>0. \A m \in Memory(x) : m \in Msgs /\ at[m] \notin {"unsent", "lost"}
  BY DEF Seen, TypeOK, Range
<1>f. ASSUME Memory(x)' \subseteq Memory(x)
      PROVE  at'[k] \notin {"unsent", "lost"}
  BY <1>0, <1>f, AcceptedStays
<1>1. ASSUME NEW b \in Backups, client_step(b)
      PROVE  UNCHANGED <<buf, cur>>
  BY <1>1, ClientFrame DEF workerVars
<1>2. ASSUME NEW w \in Workers, worker_step(w)
      PROVE  Memory(x)' \subseteq Memory(x)
  <2>1. CASE x # w
    BY <1>2, <2>1 DEF worker_step, take_job, reject_job, status_returns, report_returns,
       call_returns, analyze, ack, nack, send_verdict, run_worker_ends, TypeOK
  <2>2. CASE x = w /\ (take_job(w) \/ reject_job(w))
    <3>1. buf[x] \in Seq(Msgs) /\ buf[x] # <<>>
      BY <2>2 DEF take_job, reject_job, TypeOK
    <3>2. Range(buf[x]) = {Head(buf[x])} \cup Range(Tail(buf[x]))
      BY <3>1, RangeTail
    <3>3. buf'[x] = Tail(buf[x]) /\ cur'[x] \in {cur[x], Head(buf[x])}
      BY <2>2 DEF take_job, reject_job, TypeOK
    <3> QED BY <3>2, <3>3
  <2>3. CASE status_returns(w) \/ report_returns(w) \/ analyze(w)
    BY <2>3 DEF status_returns, report_returns, call_returns, analyze
  <2>4. CASE x = w /\ (ack(w) \/ nack(w))
    BY <2>4 DEF ack, nack, send_verdict, TypeOK
  <2>5. CASE x = w /\ run_worker_ends(w)
    BY <2>5, RangeEmpty DEF run_worker_ends, TypeOK
  <2> QED BY <1>2, <2>1, <2>2, <2>3, <2>4, <2>5 DEF worker_step
<1>3. ASSUME NEW w \in Workers, process_step(w)
      PROVE  Memory(x)' \subseteq Memory(x)
  <2>1. CASE Exit(w)
    BY <2>1, RangeEmpty DEF Exit, TypeOK
  <2> QED BY <1>3, <2>1, ProcessFrame DEF start, connect, connect_fails, consume_fails,
         call_fails,
             ConnectionLost
<1>4. ASSUME NEW m \in Msgs, broker_step(m)
      PROVE  at'[k] \notin {"unsent", "lost"}
  <2>1. ASSUME NEW w \in Workers, NEW v \in Verbs, ForeignPublish(m) \/ Settle(w, m, v)
        PROVE  UNCHANGED <<buf, cur>>
    BY <2>1 DEF ForeignPublish, Settle, workerVars
  <2>2. ASSUME NEW w \in Workers, Deliver(m, w) PROVE at'[k] \notin {"unsent", "lost"}
    <3>1. CASE x # w
      BY <1>f, <2>2, <3>1 DEF Deliver, TypeOK
    <3>2. CASE x = w
      <4>1. Range(buf'[x]) = Range(buf[x]) \cup {m} /\ at'[m] = w /\ cur' = cur
        BY <2>2, <3>2, RangeAppend DEF Deliver, TypeOK
      <4>2. k = m \/ k \in Memory(x)
        BY <4>1
      <4> QED BY <1>0, <4>1, <4>2, AcceptedStays
    <3> QED BY <3>1, <3>2
  <2>3. CASE UNCHANGED <<buf, cur>>
    BY <1>f, <2>3
  <2> QED BY <1>4, <2>1, <2>2, <2>3 DEF broker_step
<1>5. CASE UNCHANGED <<buf, cur>>
  BY <1>f, <1>5
<1> QED BY <1>f, <1>1, <1>2, <1>3, <1>4, <1>5, GrpcFrame DEF Next, vars, workerVars

\* The nack without requeue is written only where serde failed.
LEMMA DropsGarbageStep ==
  ASSUME TypeOK, Published, Held, ChannelAgreement, Seen, DropsGarbage, [Next]_vars
  PROVE  DropsGarbage'
<1> USE ConstantsAssumption
<1> SUFFICES ASSUME NEW x \in Workers, NEW k \in Msgs, <<k, "drop">> \in wire'[x]
             PROVE  job'[k] = Garbage
  BY DEF DropsGarbage
<1>f. ASSUME <<k, "drop">> \in wire[x]
      PROVE  job'[k] = Garbage
  <2>1. job[k] = Garbage /\ at[k] # "unsent"
    BY <1>f, OnWire DEF DropsGarbage
  <2>2. job'[k] = job[k]
    <3>1. ASSUME NEW b \in Backups, client_step(b) PROVE job'[k] = job[k]
      <4>1. ASSUME NEW m \in Msgs, publish_job(b, m) PROVE job'[k] = job[k]
        BY <2>1, <4>1 DEF publish_job, TypeOK
      <4> QED BY <3>1, <4>1 DEF client_step, create_backup, delete_backup, enqueue_backup,
                 publish_fails, update_backup, LateCall, brokerVars
    <3>2. ASSUME NEW m \in Msgs, broker_step(m) PROVE job'[k] = job[k]
      BY <2>1, <3>2 DEF broker_step, ForeignPublish, Deliver, Settle, TypeOK
    <3> QED BY <3>1, <3>2, WorkerFrame, GrpcFrame, ProcessFrame DEF Next, vars, brokerVars
  <2> QED BY <2>1, <2>2
<1>1. ASSUME NEW w \in Workers, worker_step(w), <<k, "drop">> \notin wire[x]
      PROVE  job'[k] = Garbage
  <2>1. x = w /\ reject_job(w) /\ k = Head(buf[x])
    <3>1. ASSUME ack(w) \/ nack(w) PROVE FALSE
      <4>1. PICK v \in {"ack", "requeue"} :
               wire' = [wire EXCEPT ![w] = wire[w] \cup {<<cur[w], v>>}]
        BY <3>1 DEF ack, nack, send_verdict
      <4>2. wire'[x] \subseteq wire[x] \cup {<<cur[w], v>>}
        BY <4>1 DEF TypeOK
      <4> QED BY <1>1, <4>2
    <3>2. wire' # wire
      BY <1>1
    <3>3. reject_job(w)
      BY <1>1, <3>1, <3>2 DEF worker_step, take_job, status_returns, report_returns,
         call_returns, analyze, run_worker_ends
    <3> QED BY <1>1, <3>3 DEF reject_job, TypeOK
  <2>2. buf[x] \in Seq(Msgs) /\ buf[x] # <<>> /\ job[k] \notin Backups /\ job' = job
    BY <2>1 DEF reject_job, TypeOK, brokerVars
  <2>3. k \in Range(buf[x])
    BY <2>1, <2>2, RangeTail
  <2>4. job[k] # NoJob
    BY <2>3 DEF Seen, Published
  <2> QED BY <2>2, <2>4 DEF TypeOK
<1>2. ASSUME ~(\E w \in Workers : worker_step(w))
      PROVE  wire'[x] \subseteq wire[x]
  <2>1. ASSUME NEW w \in Workers, process_step(w) PROVE wire'[x] \subseteq wire[x]
    BY <2>1, ProcessFrame DEF start, connect, connect_fails, consume_fails, call_fails,
           ConnectionLost,
       Exit, CloseChannel, TypeOK
  <2>2. ASSUME NEW m \in Msgs, broker_step(m) PROVE wire'[x] \subseteq wire[x]
    BY <2>2, BrokerWire
  <2> QED BY <1>2, <2>1, <2>2, ClientFrame, GrpcFrame DEF Next, vars, workerVars
<1> QED BY <1>f, <1>1, <1>2

-----------------------------------------------------------------------------
\* Only the message's own ack or drop could orphan a running row, and both come
\* when the row is no longer marked by it.
LEMMA MarkBackedStep ==
  ASSUME TypeOK, Held, ChannelAgreement, DropsGarbage, RunnerFree, MarkBacked,
         [Next]_vars
  PROVE  MarkBacked'
<1> USE ConstantsAssumption
<1>f. ASSUME UNCHANGED <<row, runner, job>>,
             \A m \in Msgs : at'[m] = at[m] \/ at'[m] \in {"ready"} \cup Workers
      PROVE  MarkBacked'
  BY <1>f DEF MarkBacked, Outstanding, TypeOK
<1>1. ASSUME NEW b \in Backups, client_step(b)
      PROVE  MarkBacked'
  <2>1. CASE create_backup(b)
    BY <2>1 DEF create_backup, MarkBacked, Outstanding, TypeOK, brokerVars
  <2>2. CASE delete_backup(b)
    BY <2>2 DEF delete_backup, MarkBacked, Outstanding, TypeOK, brokerVars
  <2>3. CASE enqueue_backup(b) \/ publish_fails(b)
    BY <1>f, <2>3 DEF enqueue_backup, publish_fails, brokerVars
  <2>4. ASSUME NEW s \in Status, update_backup(b, s) \/ LateCall(b, s)
        PROVE  MarkBacked'
    BY <2>4 DEF update_backup, LateCall, SetStatus, Exists, MarkBacked, Outstanding,
       TypeOK, brokerVars
  <2>5. ASSUME NEW m \in Msgs, publish_job(b, m) PROVE MarkBacked'
    BY <2>5 DEF publish_job, MarkBacked, Outstanding, TypeOK
  <2> QED BY <1>1, <2>1, <2>2, <2>3, <2>4, <2>5 DEF client_step
<1>2. ASSUME NEW w \in Workers, worker_step(w)
      PROVE  MarkBacked'
  BY <1>f, <1>2, WorkerFrame DEF serviceVars, brokerVars
<1>3. ASSUME NEW w \in Workers, grpc_step(w)
      PROVE  MarkBacked'
  <2>1. CASE update_status(w)
    <3>1. cur[w] \in Msgs /\ job[cur[w]] \in Backups
      BY <2>1, InHand DEF update_status
    <3> QED BY <2>1, <3>1 DEF update_status, SetStatus, Exists, Valid, MarkBacked,
               Outstanding, TypeOK, brokerVars
  <2>2. CASE report_result(w)
    <3>1. job[cur[w]] \in Backups
      BY <2>2, InHand DEF report_result
    <3> QED BY <2>2, <3>1 DEF report_result, SetStatus, Exists, MarkBacked,
               Outstanding, TypeOK, brokerVars
  <2> QED BY <1>3, <2>1, <2>2 DEF grpc_step
<1>4. ASSUME NEW w \in Workers, process_step(w)
      PROVE  MarkBacked'
  <2>1. UNCHANGED <<row, runner, job>>
    BY <1>4, ProcessFrame DEF serviceVars
  <2>2. CASE CloseChannel(w)
    <3>1. \A m \in Msgs : at'[m] \in {at[m], "ready"}
      BY <2>2 DEF CloseChannel
    <3> QED BY <1>f, <2>1, <3>1
  <2> QED BY <1>f, <1>4, <2>1, <2>2, ProcessFrame DEF start, connect, connect_fails,
         consume_fails,
             call_fails, ConnectionLost, Exit, brokerVars
<1>5. ASSUME NEW m \in Msgs, broker_step(m)
      PROVE  MarkBacked'
  <2>0. UNCHANGED <<row, runner>>
    BY <1>5, BrokerFrame DEF serviceVars
  <2>1. CASE ForeignPublish(m)
    BY <2>0, <2>1 DEF ForeignPublish, MarkBacked, Outstanding, TypeOK
  <2>2. ASSUME NEW w \in Workers, Deliver(m, w) PROVE MarkBacked'
    BY <1>f, <2>0, <2>2 DEF Deliver, TypeOK
  <2>3. ASSUME NEW w \in Workers, NEW v \in Verbs, Settle(w, m, v)
        PROVE  MarkBacked'
    <3>1. CASE v = "requeue"
      <4>1. Outcome(v) = "ready"
        BY <3>1 DEF Outcome
      <4> QED BY <1>f, <2>0, <2>3, <4>1 DEF Settle, TypeOK
    <3>2. CASE v # "requeue"
      <4>1. \A b \in Backups : runner[b] # m
        BY <2>3, <3>2 DEF Settle, RunnerFree, NotRunning, DropsGarbage, MarkBacked
      <4> QED BY <2>0, <2>3, <4>1 DEF Settle, MarkBacked, Outstanding, TypeOK
    <3> QED BY <3>1, <3>2
  <2> QED BY <1>5, <2>1, <2>2, <2>3 DEF broker_step
<1>6. CASE UNCHANGED vars
  BY <1>f, <1>6 DEF vars, serviceVars, brokerVars
<1> QED BY <1>1, <1>2, <1>3, <1>4, <1>5, <1>6 DEF Next

\* The ack of k by x is on the wire, or is the next thing x writes.
Acked(x, k) == (Done(x) /\ cur[x] = k /\ at[k] = x) \/ <<k, "ack">> \in wire[x]

\* report_result clears the mark before the ack, and update_status cannot set it
\* again: the message is in no other worker's hand.
LEMMA RunnerFreeStep ==
  ASSUME TypeOK, Published, Held, ChannelAgreement, RunnerFree, MarkBacked, [Next]_vars
  PROVE  RunnerFree'
<1> USE ConstantsAssumption
<1> SUFFICES ASSUME NEW x \in Workers, NEW k \in Msgs, Acked(x, k)'
             PROVE  NotRunning(k)'
  <2>1. TypeOK' /\ Held'
    BY TypeStep, HeldStep
  <2>2. \A w \in Workers : Done(w)' => cur'[w] \in Msgs
    BY <2>1 DEF TypeOK, Held, Done
  <2> QED BY <2>2 DEF RunnerFree, Acked
<1>f. ASSUME Acked(x, k), \A b \in Backups : runner'[b] = k => runner[b] = k
      PROVE  NotRunning(k)'
  BY <1>f DEF Acked, RunnerFree, NotRunning
<1>1. ASSUME NEW b \in Backups, client_step(b)
      PROVE  NotRunning(k)'
  <2>1. UNCHANGED <<st, call, cur, wire>>
    BY <1>1, ClientFrame DEF workerVars
  <2>2. at'[k] = x => at[k] = x
    <3>1. ASSUME NEW m \in Msgs, publish_job(b, m) PROVE at'[k] = x => at[k] = x
      BY <3>1 DEF publish_job, TypeOK
    <3> QED BY <1>1, <3>1 DEF client_step, create_backup, delete_backup, enqueue_backup,
               publish_fails, update_backup, LateCall, brokerVars
  <2>3. \A a \in Backups : runner'[a] \in {runner[a], NoMsg}
    BY <1>1 DEF client_step, create_backup, delete_backup, enqueue_backup, publish_fails,
       update_backup, publish_job, LateCall, SetStatus, TypeOK
  <2> QED BY <1>f, <2>1, <2>2, <2>3 DEF Acked, Done
<1>2. ASSUME NEW w \in Workers, worker_step(w)
      PROVE  NotRunning(k)'
  <2>0. UNCHANGED <<at, chan, runner>>
    BY <1>2, WorkerFrame DEF serviceVars, brokerVars
  <2>1. CASE take_job(w) \/ analyze(w) \/ run_worker_ends(w)
    BY <1>f, <2>0, <2>1 DEF take_job, analyze, run_worker_ends, Acked, Done, TypeOK
  <2>2. CASE status_returns(w) \/ report_returns(w)
    BY <1>f, <2>0, <2>2 DEF status_returns, report_returns, call_returns, Acked, Done,
           TypeOK
  <2>3. CASE reject_job(w)
    <3>1. <<k, "ack">> \in wire'[x] => <<k, "ack">> \in wire[x]
      BY <2>3 DEF reject_job, TypeOK
    <3> QED BY <1>f, <2>0, <2>3, <3>1 DEF reject_job, Acked, Done
  <2>4. CASE nack(w)
    <3>1. <<k, "ack">> \in wire'[x] => <<k, "ack">> \in wire[x]
      BY <2>4 DEF nack, send_verdict, TypeOK
    <3>2. Done(x)' => Done(x) /\ cur'[x] = cur[x]
      BY <2>4 DEF nack, send_verdict, Done, TypeOK
    <3> QED BY <1>f, <2>0, <3>1, <3>2 DEF Acked
  <2>5. CASE ack(w)
    <3>1. st[w] = "ack" /\ chan[w]
      BY <2>5 DEF ack, send_verdict
    <3>2. at[cur[w]] = w
      BY <3>1, InHandUnacked
    <3>3. wire'[x] = wire[x] \/ (x = w /\ wire'[x] = wire[x] \cup {<<cur[w], "ack">>})
      BY <2>5 DEF ack, send_verdict, TypeOK
    <3>4. Done(x)' => Done(x) /\ cur'[x] = cur[x]
      BY <2>5 DEF ack, send_verdict, Done, TypeOK
    <3>5. <<k, "ack">> \in wire'[x] => <<k, "ack">> \in wire[x] \/ (x = w /\ k = cur[w])
      BY <3>3
    <3>6. Acked(x, k)
      BY <2>0, <3>1, <3>2, <3>4, <3>5 DEF Acked, Done
    <3> QED BY <1>f, <2>0, <3>6
  <2> QED BY <1>2, <2>1, <2>2, <2>3, <2>4, <2>5 DEF worker_step
<1>3. ASSUME NEW w \in Workers, grpc_step(w)
      PROVE  NotRunning(k)'
  <2>0. UNCHANGED <<at, chan, cur, wire, st>>
    BY <1>3, GrpcFrame DEF brokerVars
  <2>1. CASE update_status(w)
    <3>1. cur[w] \in Msgs /\ st[w] = "status"
      BY <2>1, InHand DEF update_status
    <3>2. Acked(x, k)
      BY <2>0, <2>1 DEF update_status, Acked, Done, TypeOK
    <3>3. \A b \in Backups : runner'[b] \in {runner[b], NoMsg} \/ (runner'[b] = cur[w] /\ at[cur[w]] = w)
      BY <2>1 DEF update_status, SetStatus, Valid, TypeOK
    <3>4. ~(k = cur[w] /\ at[cur[w]] = w)
      <4>1. SUFFICES ASSUME k = cur[w], at[k] = w PROVE FALSE
        OBVIOUS
      <4>2. CASE <<k, "ack">> \in wire[x]
        <5>1. x = w
          BY <4>1, <4>2, OnWire
        <5> QED BY <4>1, <4>2, <5>1 DEF ChannelAgreement
      <4>3. CASE Done(x) /\ at[k] = x
        BY <3>1, <4>1, <4>3 DEF Done
      <4> QED BY <3>2, <4>2, <4>3 DEF Acked
    <3> QED BY <1>f, <3>2, <3>3, <3>4
  <2>2. CASE report_result(w)
    <3>1. cur[w] \in Msgs /\ job[cur[w]] \in Backups
      BY <2>2, InHand DEF report_result
    <3>2. \A b \in Backups : runner'[b] \in {runner[b], NoMsg}
      BY <2>2 DEF report_result, SetStatus, TypeOK
    <3>3. CASE Acked(x, k)
      BY <1>f, <3>2, <3>3
    <3>4. CASE ~Acked(x, k)
      <4>1. k = cur[w]
        BY <2>0, <2>2, <3>4 DEF report_result, Acked, Done, TypeOK
      <4>2. ASSUME NEW b \in Backups, runner'[b] = k PROVE FALSE
        <5>1. runner[b] = k
          BY <3>2, <4>2
        <5>2. row[b] = "running" /\ job[k] = b
          BY <5>1 DEF MarkBacked
        <5>3. runner'[b] = NoMsg
          BY <2>2, <4>1, <5>2 DEF report_result, SetStatus, Exists, TypeOK
        <5> QED BY <4>2, <5>3
      <4> QED BY <4>2 DEF NotRunning
    <3> QED BY <3>3, <3>4
  <2> QED BY <1>3, <2>1, <2>2 DEF grpc_step
<1>4. ASSUME NEW w \in Workers, process_step(w)
      PROVE  NotRunning(k)'
  <2>0. runner' = runner
    BY <1>4, ProcessFrame DEF serviceVars
  <2>1. CASE start(w) \/ connect(w) \/ connect_fails(w) \/ consume_fails(w) \/ call_fails(w)
    BY <1>f, <2>0, <2>1 DEF start, connect, connect_fails, consume_fails, call_fails,
           Acked, Done, TypeOK,
       brokerVars
  <2>2. CASE ConnectionLost(w)
    BY <1>f, <2>0, <2>2 DEF ConnectionLost, CloseChannel, Acked, Done, TypeOK
  <2>3. CASE Exit(w)
    BY <1>f, <2>0, <2>3 DEF Exit, CloseChannel, Acked, Done, TypeOK
  <2>4. CASE UNCHANGED <<brokerVars, chan, buf, cur, wire, st, call>>
    BY <1>f, <2>0, <2>4 DEF Acked, Done, brokerVars
  <2> QED BY <1>4, <2>1, <2>2, <2>3, <2>4, ProcessFrame
<1>5. ASSUME NEW m \in Msgs, broker_step(m)
      PROVE  NotRunning(k)'
  <2>0. UNCHANGED <<runner, chan, cur, st, call>>
    BY <1>5, BrokerFrame DEF serviceVars
  <2>1. wire'[x] \subseteq wire[x]
    BY <1>5, BrokerWire
  <2>2. ASSUME Done(x), cur[x] = k, at'[k] = x PROVE at[k] = x
    <3>1. CASE ForeignPublish(m)
      BY <2>2, <3>1 DEF ForeignPublish, TypeOK
    <3>2. ASSUME NEW w \in Workers, Deliver(m, w) PROVE at[k] = x
      <4>1. CASE k # m
        BY <2>2, <3>2, <4>1 DEF Deliver, TypeOK
      <4>2. CASE k = m
        <5>1. w = x /\ chan[x]
          BY <2>2, <3>2, <4>2 DEF Deliver, TypeOK
        <5> QED BY <2>2, <5>1, InHandUnacked DEF Done
      <4> QED BY <4>1, <4>2
    <3>3. ASSUME NEW w \in Workers, NEW v \in Verbs, Settle(w, m, v) PROVE at[k] = x
      <4>1. Outcome(v) \in Places
        BY DEF Outcome
      <4> QED BY <2>2, <3>3, <4>1 DEF Settle, TypeOK
    <3> QED BY <1>5, <3>1, <3>2, <3>3 DEF broker_step
  <2> QED BY <1>f, <2>0, <2>1, <2>2 DEF Acked, Done
<1>6. CASE UNCHANGED vars
  BY <1>f, <1>6 DEF vars, serviceVars, brokerVars, workerVars, Acked, Done
<1> QED BY <1>1, <1>2, <1>3, <1>4, <1>5, <1>6 DEF Next

\* The only way to "done" is an ack, which was earned.
LEMMA SettledWasReportedStep ==
  ASSUME TypeOK, AckEarned, SettledWasReported, [Next]_vars
  PROVE  SettledWasReported'
<1> USE ConstantsAssumption
<1> SUFFICES ASSUME NEW k \in Msgs, at'[k] = "done" PROVE k \in reported'
  BY DEF SettledWasReported
<1>f. ASSUME at[k] = "done" PROVE k \in reported'
  <2>1. k \in reported
    BY <1>f DEF SettledWasReported
  <2>2. ASSUME NEW w \in Workers, grpc_step(w) PROVE k \in reported'
    BY <2>1, <2>2 DEF grpc_step, update_status, report_result
  <2> QED BY <2>1, <2>2, ClientFrame, WorkerFrame, ProcessFrame, BrokerFrame DEF Next, vars
<1>1. ASSUME NEW b \in Backups, client_step(b) PROVE at[k] = "done"
  <2>1. ASSUME NEW m \in Msgs, publish_job(b, m) PROVE at[k] = "done"
    BY <2>1 DEF publish_job, TypeOK
  <2> QED BY <1>1, <2>1 DEF client_step, create_backup, delete_backup, enqueue_backup,
             publish_fails, update_backup, LateCall, brokerVars
<1>2. ASSUME NEW w \in Workers, process_step(w) PROVE at[k] = "done"
  <2>1. CASE CloseChannel(w)
    BY <2>1 DEF CloseChannel, TypeOK
  <2> QED BY <1>2, <2>1, ProcessFrame DEF start, connect, connect_fails, consume_fails,
         call_fails,
             ConnectionLost, Exit, brokerVars
<1>3. ASSUME NEW m \in Msgs, broker_step(m) PROVE k \in reported'
  <2>0. reported' = reported
    BY <1>3, BrokerFrame
  <2>1. CASE ForeignPublish(m)
    BY <1>f, <2>1 DEF ForeignPublish, TypeOK
  <2>2. ASSUME NEW w \in Workers, Deliver(m, w) PROVE k \in reported'
    BY <1>f, <2>2 DEF Deliver, TypeOK
  <2>3. ASSUME NEW w \in Workers, NEW v \in Verbs, Settle(w, m, v) PROVE k \in reported'
    <3>1. CASE v = "ack" /\ k = m
      BY <2>0, <2>3, <3>1 DEF Settle, AckEarned
    <3>2. CASE v # "ack"
      <4>1. Outcome(v) \in {"ready", "dropped"}
        BY <3>2 DEF Outcome
      <4> QED BY <1>f, <2>3, <4>1 DEF Settle, TypeOK
    <3>3. CASE k # m
      BY <1>f, <2>3, <3>3 DEF Settle, TypeOK
    <3> QED BY <3>1, <3>2, <3>3
  <2> QED BY <1>3, <2>1, <2>2, <2>3 DEF broker_step
<1> QED BY <1>f, <1>1, <1>2, <1>3, WorkerFrame, GrpcFrame DEF Next, vars, brokerVars

-----------------------------------------------------------------------------
(* The inductive invariant and what follows from it.                       *)

Inv ==
    /\ TypeOK /\ Published /\ Held /\ ChannelAgreement /\ Seen
    /\ AckEarned /\ SettledWasReported
    /\ DropsGarbage /\ RunnerFree /\ MarkBacked

\* The inductive invariant holds of the empty system.
LEMMA InvInit == Init => Inv
<1> SUFFICES ASSUME Init PROVE Inv
  OBVIOUS
<1> USE ConstantsAssumption DEF Init
<1>1. TypeOK
  BY TypeInit
<1>2. Published /\ Held /\ AckEarned /\ SettledWasReported /\ DropsGarbage /\ RunnerFree
      /\ MarkBacked
  BY DEF Published, Held, AckEarned, Done, SettledWasReported, DropsGarbage, RunnerFree,
     MarkBacked
<1>3. Seen
  BY RangeEmpty DEF Seen
<1>4. ChannelAgreement
  BY RangeEmpty DEF ChannelAgreement
<1> QED BY <1>1, <1>2, <1>3, <1>4 DEF Inv

\* The inductive invariant is kept by every step.
LEMMA InvStep == Inv /\ [Next]_vars => Inv'
  BY TypeStep, PublishedStep, HeldStep, ChannelStep, SeenStep, AckEarnedStep,
     SettledWasReportedStep, DropsGarbageStep, RunnerFreeStep, MarkBackedStep DEF Inv

\* The inductive invariant holds throughout.
LEMMA Invariance == Spec => []Inv
  BY InvInit, InvStep, PTL DEF Spec

\* The status column, the queue, every worker's memory and its calls stay in
\* their types, whatever the number of backups, workers, messages and faults.
THEOREM TypeCorrect == Spec => []TypeOK
<1>1. Inv => TypeOK
  BY DEF Inv
<1> QED BY <1>1, Invariance, PTL

\* The ack in run_worker comes after process_and_report returned Ok: a message
\* leaves the queue as processed only if ReportResult was recorded for it.
THEOREM AckAfterReport == Spec => []SettledWasReported
<1>1. Inv => SettledWasReported
  BY DEF Inv
<1> QED BY <1>1, Invariance, PTL

\* run_worker acks or nacks every delivery of its channel exactly once and
\* never one it does not have, through crashes, lost connections and shutdown.
THEOREM DeliveriesAgree == Spec => []ChannelAgreement
<1>1. Inv => ChannelAgreement
  BY DEF Inv
<1> QED BY <1>1, Invariance, PTL

\* A row that UpdateStatus set to running for a delivery the worker owns has
\* the report of that message still to come until something else writes the
\* row: the message is in the queue, or with a worker that has not reported it.
THEOREM RunningHasMessage == Spec => []RunningIsOwned
<1>1. Inv => RunningIsOwned
  <2> SUFFICES ASSUME Inv, NEW b \in Backups, runner[b] # NoMsg
               PROVE  row[b] = "running" /\ job[runner[b]] = b /\ Due(runner[b])
    BY DEF RunningIsOwned
  <2>1. row[b] = "running" /\ job[runner[b]] = b /\ Outstanding(runner[b])
    BY DEF Inv, MarkBacked
  <2>2. runner[b] \in Msgs
    BY DEF Inv, TypeOK
  <2>3. ASSUME NEW w \in Workers, at[runner[b]] = w
        PROVE  <<runner[b], "ack">> \notin wire[w] /\ ~(cur[w] = runner[b] /\ Done(w))
    BY <2>2, <2>3 DEF Inv, RunnerFree, NotRunning
  <2> QED BY <2>1, <2>3 DEF Due, Done
<1> QED BY <1>1, Invariance, PTL

-----------------------------------------------------------------------------
(* The pipeline implements the ledger.                                     *)

\* The empty system is an empty ledger.
LEMMA LedgerInit == Init => Ledger!Init
  BY DEF Init, Ledger!Init

\* Messages moving between the queue and the workers are not seen in the ledger.
LEMMA LedgerStutter ==
  ASSUME UNCHANGED <<job, reported>>,
         \A m \in Msgs : at'[m] = at[m] \/ (Outstanding(m) /\ Outstanding(m)')
  PROVE  UNCHANGED Ledger!ledgerVars
<1> USE ConstantsAssumption DEF Outstanding
<1>1. {m \in Msgs : at'[m] \notin {"unsent", "lost"}} = {m \in Msgs : at[m] \notin {"unsent", "lost"}}
  OBVIOUS
<1>2. {m \in Msgs : at'[m] = "done"} = {m \in Msgs : at[m] = "done"}
  OBVIOUS
<1>3. {m \in Msgs : at'[m] = "dropped"} = {m \in Msgs : at[m] = "dropped"}
  OBVIOUS
<1>4. {m \in Msgs : job'[m] = Garbage} = {m \in Msgs : job[m] = Garbage}
  OBVIOUS
<1> QED BY <1>1, <1>2, <1>3, <1>4 DEF Ledger!ledgerVars

\* Every step is a step of the ledger or leaves it alone.
LEMMA LedgerStep ==
  ASSUME Inv, [Next]_vars
  PROVE  [Ledger!Next]_(Ledger!ledgerVars)
<1> USE ConstantsAssumption
<1> DEFINE Acc  == {m \in Msgs : at[m] \notin {"unsent", "lost"}}
           Gar  == {m \in Msgs : job[m] = Garbage}
           Sett == {m \in Msgs : at[m] = "done"}
           Rej  == {m \in Msgs : at[m] = "dropped"}
<1>0. TypeOK /\ Published /\ Held /\ ChannelAgreement /\ Seen /\ AckEarned /\ DropsGarbage
  BY DEF Inv
<1>s. ASSUME UNCHANGED <<brokerVars, reported>>
      PROVE  UNCHANGED Ledger!ledgerVars
  BY <1>s, LedgerStutter DEF brokerVars
<1>1. ASSUME NEW b \in Backups, client_step(b)
      PROVE  [Ledger!Next]_(Ledger!ledgerVars)
  <2>0. reported' = reported
    BY <1>1, ClientFrame
  <2>1. ASSUME NEW m \in Msgs, publish_job(b, m)
        PROVE  [Ledger!Next]_(Ledger!ledgerVars)
    <3>1. Gar' = Gar /\ Sett' = Sett /\ Rej' = Rej /\ m \notin Acc
      BY <1>0, <2>1 DEF publish_job, TypeOK, Published
    <3>2. CASE at' = [at EXCEPT ![m] = "ready"]
      <4>1. Acc' = Acc \cup {m}
        BY <1>0, <3>2 DEF TypeOK
      <4>2. Ledger!Accept(m)
        BY <2>0, <3>1, <4>1 DEF Ledger!Accept
      <4> QED BY <4>2 DEF Ledger!Next
    <3>3. CASE at' = [at EXCEPT ![m] = "lost"]
      <4>1. Acc' = Acc
        BY <1>0, <2>1, <3>3 DEF TypeOK, publish_job
      <4> QED BY <2>0, <3>1, <4>1 DEF Ledger!ledgerVars
    <3> QED BY <2>1, <3>2, <3>3 DEF publish_job
  <2> QED BY <1>1, <1>s, <2>0, <2>1 DEF client_step, create_backup, delete_backup,
             enqueue_backup, publish_fails, update_backup, LateCall
<1>2. ASSUME NEW w \in Workers, worker_step(w)
      PROVE  UNCHANGED Ledger!ledgerVars
  BY <1>2, <1>s, WorkerFrame
<1>3. ASSUME NEW w \in Workers, grpc_step(w)
      PROVE  [Ledger!Next]_(Ledger!ledgerVars)
  <2>1. CASE update_status(w)
    BY <2>1, <1>s DEF update_status
  <2>2. CASE report_result(w)
    <3>1. cur[w] \in Msgs /\ cur[w] # NoMsg /\ job[cur[w]] \in Backups
      BY <1>0, <2>2, InHand DEF report_result
    <3>2. cur[w] \in Acc \ Gar
      BY <1>0, <3>1 DEF Seen
    <3>3. Acc' = Acc /\ Gar' = Gar /\ Sett' = Sett /\ Rej' = Rej
          /\ reported' = reported \cup {cur[w]}
      BY <2>2 DEF report_result, brokerVars
    <3>4. Ledger!Report(cur[w])
      BY <3>2, <3>3 DEF Ledger!Report
    <3> QED BY <3>1, <3>4 DEF Ledger!Next
  <2> QED BY <1>3, <2>1, <2>2 DEF grpc_step
<1>4. ASSUME NEW w \in Workers, process_step(w)
      PROVE  UNCHANGED Ledger!ledgerVars
  <2>0. UNCHANGED <<job, reported>>
    BY <1>4, ProcessFrame
  <2>1. CASE CloseChannel(w)
    <3>1. \A m \in Msgs : at'[m] = at[m] \/ (at[m] = w /\ at'[m] = "ready")
      BY <2>1 DEF CloseChannel
    <3> QED BY <2>0, <3>1, LedgerStutter DEF Outstanding
  <2> QED BY <1>4, <1>s, <2>0, <2>1, ProcessFrame DEF start, connect, connect_fails,
         consume_fails,
             call_fails, ConnectionLost, Exit, brokerVars
<1>5. ASSUME NEW m \in Msgs, broker_step(m)
      PROVE  [Ledger!Next]_(Ledger!ledgerVars)
  <2>0. reported' = reported
    BY <1>5, BrokerFrame
  <2>1. CASE ForeignPublish(m)
    <3>1. Acc' = Acc \cup {m} /\ Gar' = Gar \cup {m} /\ Sett' = Sett /\ Rej' = Rej
          /\ m \notin Acc
      BY <1>0, <2>1 DEF ForeignPublish, TypeOK
    <3>2. Ledger!Accept(m)
      BY <2>0, <3>1 DEF Ledger!Accept
    <3> QED BY <3>2 DEF Ledger!Next
  <2>2. ASSUME NEW w \in Workers, Deliver(m, w)
        PROVE  UNCHANGED Ledger!ledgerVars
    BY <1>0, <2>0, <2>2, LedgerStutter DEF Deliver, Outstanding, TypeOK
  <2>3. ASSUME NEW w \in Workers, NEW v \in Verbs, Settle(w, m, v)
        PROVE  [Ledger!Next]_(Ledger!ledgerVars)
    <3>1. at[m] = w /\ m \in Acc \ (Sett \cup Rej) /\ job' = job
      BY <1>0, <2>3, OnWire DEF Settle
    <3>2. CASE v = "ack"
      <4>1. at' = [at EXCEPT ![m] = "done"] /\ m \in reported
        <5>1. Outcome(v) = "done"
          BY <3>2 DEF Outcome
        <5> QED BY <1>0, <2>3, <3>2, <5>1 DEF Settle, AckEarned
      <4>2. Acc' = Acc /\ Gar' = Gar /\ Sett' = Sett \cup {m} /\ Rej' = Rej
        BY <1>0, <3>1, <4>1 DEF TypeOK
      <4>3. Ledger!Settle(m)
        BY <2>0, <3>1, <4>1, <4>2 DEF Ledger!Settle, Ledger!Open
      <4> QED BY <4>3 DEF Ledger!Next
    <3>3. CASE v = "requeue"
      <4>1. Outcome(v) = "ready"
        BY <3>3 DEF Outcome
      <4> QED BY <1>0, <2>0, <2>3, <3>1, <4>1, LedgerStutter DEF Settle, Outstanding, TypeOK
    <3>4. CASE v = "drop"
      <4>1. at' = [at EXCEPT ![m] = "dropped"] /\ m \in Gar
        <5>1. Outcome(v) = "dropped"
          BY <3>4 DEF Outcome
        <5> QED BY <1>0, <2>3, <3>4, <5>1 DEF Settle, DropsGarbage
      <4>2. Acc' = Acc /\ Gar' = Gar /\ Sett' = Sett /\ Rej' = Rej \cup {m}
        BY <1>0, <3>1, <4>1 DEF TypeOK
      <4>3. Ledger!Reject(m)
        BY <2>0, <3>1, <4>1, <4>2 DEF Ledger!Reject, Ledger!Open
      <4> QED BY <4>3 DEF Ledger!Next
    <3> QED BY <3>2, <3>3, <3>4
  <2> QED BY <1>5, <2>1, <2>2, <2>3 DEF broker_step
<1>6. CASE UNCHANGED vars
  BY <1>6, <1>s DEF vars
<1> QED BY <1>1, <1>2, <1>3, <1>4, <1>5, <1>6 DEF Next

\* The enqueue handlers, RabbitMQ and the workers together implement JobLedger:
\* no job leaves the queue before its result was reported, and only what does
\* not decode is thrown away.
THEOREM Refinement == Spec => AtLeastOnce
<1>1. Inv /\ [Next]_vars => [Ledger!Next]_(Ledger!ledgerVars)
  BY LedgerStep
<1> QED BY <1>1, LedgerInit, Invariance, PTL DEF Spec, AtLeastOnce, Ledger!Spec
=============================================================================
