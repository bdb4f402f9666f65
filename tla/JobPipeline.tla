----------------------------- MODULE JobPipeline -----------------------------
(***************************************************************************)
(* The asynchronous path of a backup: REST handlers of backup-service      *)
(* publish a BackupJob to RabbitMQ, backup-worker processes consume it,    *)
(* call UpdateStatus and ReportResult over gRPC, and settle the delivery.  *)
(* Tenants, sizes and entropy are abstracted away: the properties here     *)
(* tell apart only the status column, the place of every message and what  *)
(* each worker is doing.                                                   *)
(***************************************************************************)
EXTENDS Naturals, Sequences, Functions

CONSTANTS
    Backups,        \* ids of the rows clients can create
    Workers,        \* backup-worker processes
    Msgs,           \* identities of the messages that can be published
    NoMsg,          \* "no delivery"
    MaxFaults       \* bound on crashes, signals, lost connections, failed calls

Status   == {"pending", "running", "completed", "failed"}
RowState == Status \cup {"unborn", "deleted"}
Places   == {"unsent", "ready", "done", "dropped", "lost"}
Verbs    == {"ack", "requeue", "drop"}
NoJob    == "none"
Garbage  == "undecodable"
Loop     == {"consuming", "status", "analyze", "report", "ack", "nack"}

ASSUME ConstantsAssumption ==
    /\ NoMsg \notin Msgs
    /\ Workers \cap Places = {}
    /\ Backups \cap {NoJob, Garbage} = {}
    /\ MaxFaults \in Nat

VARIABLES
    row,            \* [Backups -> RowState]: status column of each row
    posting,        \* rows an enqueue handler has selected and not yet published
    job,            \* [Msgs -> ...]: the backup a message is about
    at,             \* broker: where each message is; a worker means unacked there
    chan,           \* [Workers -> BOOLEAN]: the AMQP channel is open
    buf,            \* worker: deliveries prefetched and not yet taken
    cur,            \* worker: the delivery being processed
    wire,           \* acks and nacks written by the worker, not yet seen by the broker
    st,             \* worker: where run_worker (or main) is
    call,           \* worker: state of its gRPC call
    stopping,       \* worker: the shutdown watch channel holds true
    orphans,        \* calls nobody waits for that the service may still execute
    reported,       \* history: messages whose ReportResult was recorded for its caller
    runner,         \* history: delivery under which "running" was last written
    faults          \* faults so far

serviceVars == <<row, posting, runner>>
brokerVars  == <<job, at>>
workerVars  == <<chan, buf, cur, wire, st, call, stopping>>
vars == <<serviceVars, brokerVars, workerVars, orphans, reported, faults>>

TypeOK ==
    /\ row \in [Backups -> RowState]
    /\ posting \in SUBSET Backups
    /\ job \in [Msgs -> Backups \cup {NoJob, Garbage}]
    /\ at \in [Msgs -> Places \cup Workers]
    /\ chan \in [Workers -> BOOLEAN]
    /\ buf \in [Workers -> Seq(Msgs)]
    /\ cur \in [Workers -> Msgs \cup {NoMsg}]
    /\ wire \in [Workers -> SUBSET (Msgs \X Verbs)]
    /\ st \in [Workers -> Loop \cup {"down", "connecting", "stopped"}]
    /\ call \in [Workers -> {"idle", "sent", "ok", "err"}]
    /\ stopping \in [Workers -> BOOLEAN]
    /\ orphans \in SUBSET (Backups \X {"running", "completed"})
    /\ reported \in SUBSET Msgs
    /\ runner \in [Backups -> Msgs \cup {NoMsg}]
    /\ faults \in 0..MaxFaults

Init ==
    /\ row = [b \in Backups |-> "unborn"]
    /\ posting = {}
    /\ job = [m \in Msgs |-> NoJob]
    /\ at = [m \in Msgs |-> "unsent"]
    /\ chan = [w \in Workers |-> FALSE]
    /\ buf = [w \in Workers |-> <<>>]
    /\ cur = [w \in Workers |-> NoMsg]
    /\ wire = [w \in Workers |-> {}]
    /\ st = [w \in Workers |-> "down"]
    /\ call = [w \in Workers |-> "idle"]
    /\ stopping = [w \in Workers |-> FALSE]
    /\ orphans = {}
    /\ reported = {}
    /\ runner = [b \in Backups |-> NoMsg]
    /\ faults = 0

Fault == faults < MaxFaults /\ faults' = faults + 1

-----------------------------------------------------------------------------
(* REST handlers.  Every UPDATE touches the row only if it is there.       *)

Exists(b) == row[b] \in Status

\* The effect of an UPDATE ... SET status = s WHERE id = b; r is the delivery
\* it is made for.
SetStatus(b, s, r) ==
    /\ row' = [row EXCEPT ![b] = IF Exists(b) THEN s ELSE @]
    /\ runner' = [runner EXCEPT ![b] = IF Exists(b) THEN r ELSE @]

create_backup(b) ==
    /\ row[b] = "unborn"
    /\ row' = [row EXCEPT ![b] = "pending"]
    /\ UNCHANGED <<posting, runner, brokerVars, workerVars, orphans, reported, faults>>

\* Any of the four statuses is accepted whatever the current one is.  A request
\* without a status (COALESCE) leaves this row as it is: a stuttering step.
update_backup(b, s) ==
    /\ Exists(b)
    /\ SetStatus(b, s, NoMsg)
    /\ UNCHANGED <<posting, brokerVars, workerVars, orphans, reported, faults>>

delete_backup(b) ==
    /\ Exists(b)
    /\ row' = [row EXCEPT ![b] = "deleted"]
    /\ runner' = [runner EXCEPT ![b] = NoMsg]
    /\ UNCHANGED <<posting, brokerVars, workerVars, orphans, reported, faults>>

\* The SELECT of enqueue_backup.  Its status is not looked at: a backup that
\* is running or completed is enqueued again.
enqueue_backup(b) ==
    /\ Exists(b)
    /\ posting' = posting \cup {b}
    /\ UNCHANGED <<row, runner, brokerVars, workerVars, orphans, reported, faults>>

\* basic_publish.  The channel is not in confirm mode, so the handler answers
\* 202 both when the message reaches the queue and when it is lost on the way.
publish_job(b, m) ==
    /\ b \in posting
    /\ at[m] = "unsent"
    /\ posting' = posting \ {b}
    /\ job' = [job EXCEPT ![m] = b]
    /\ at' \in {[at EXCEPT ![m] = "ready"], [at EXCEPT ![m] = "lost"]}
    /\ UNCHANGED <<row, runner, workerVars, orphans, reported, faults>>

\* No channel, a closed channel, or the request timeout: answered with an error.
publish_fails(b) ==
    /\ b \in posting
    /\ posting' = posting \ {b}
    /\ UNCHANGED <<row, runner, brokerVars, workerVars, orphans, reported, faults>>

\* Another program puts something into backup_jobs that is not a BackupJob.
ForeignPublish(m) ==
    /\ at[m] = "unsent"
    /\ job' = [job EXCEPT ![m] = Garbage]
    /\ at' = [at EXCEPT ![m] = "ready"]
    /\ UNCHANGED <<serviceVars, workerVars, orphans, reported, faults>>

-----------------------------------------------------------------------------
(* RabbitMQ.  No QoS is set, so a ready message is pushed to any open      *)
(* consumer at once; what is unacked on a channel that goes away is ready  *)
(* again.                                                                  *)

Deliver(m, w) ==
    /\ at[m] = "ready"
    /\ chan[w]
    /\ at' = [at EXCEPT ![m] = w]
    /\ buf' = [buf EXCEPT ![w] = Append(@, m)]
    /\ UNCHANGED <<serviceVars, job, chan, cur, wire, st, call, stopping,
                   orphans, reported, faults>>

Outcome(v) == CASE v = "ack" -> "done" [] v = "requeue" -> "ready" [] v = "drop" -> "dropped"

\* The broker reads an ack or nack frame.
Settle(w, m, v) ==
    /\ <<m, v>> \in wire[w]
    /\ wire' = [wire EXCEPT ![w] = @ \ {<<m, v>>}]
    /\ at' = [at EXCEPT ![m] = Outcome(v)]
    /\ UNCHANGED <<serviceVars, job, chan, buf, cur, st, call, stopping,
                   orphans, reported, faults>>

\* Everything unacked at w is ready again; frames still on the wire are gone.
CloseChannel(w) ==
    /\ chan' = [chan EXCEPT ![w] = FALSE]
    /\ at' = [m \in Msgs |-> IF at[m] = w THEN "ready" ELSE at[m]]
    /\ wire' = [wire EXCEPT ![w] = {}]

\* The connection breaks under a worker, which still has its deliveries.
ConnectionLost(w) ==
    /\ Fault
    /\ chan[w]
    /\ CloseChannel(w)
    /\ UNCHANGED <<serviceVars, job, buf, cur, st, call, stopping, orphans, reported>>

-----------------------------------------------------------------------------
(* gRPC server of backup-service, executing the call worker w waits for.   *)

\* The delivery worker w holds is still its own.
Valid(w) == at[cur[w]] = w

update_status(w) ==
    /\ st[w] = "status" /\ call[w] = "sent"
    /\ LET b == job[cur[w]] IN
        /\ SetStatus(b, "running", IF Valid(w) THEN cur[w] ELSE NoMsg)
        /\ call' = [call EXCEPT ![w] = IF Exists(b) THEN "ok" ELSE "err"]
    /\ UNCHANGED <<posting, brokerVars, chan, buf, cur, wire, st, stopping,
                   orphans, reported, faults>>

\* Mutant: the worker names success in a way the service does not know.
ReportedStatus_Misspelt == "success"

\* What the worker reports: process_and_report never reports a failure.
ReportedStatus == "completed"

\* What the service records for a reported status.
Recorded(s) == IF s = "completed" THEN "completed" ELSE "failed"

\* Mutant: the result is counted and acknowledged, the row is not written.
report_result_NoUpdate(w) ==
    /\ st[w] = "report" /\ call[w] = "sent"
    /\ call' = [call EXCEPT ![w] = "ok"]
    /\ reported' = reported \cup {cur[w]}
    /\ UNCHANGED <<serviceVars, brokerVars, chan, buf, cur, wire, st, stopping,
                   orphans, faults>>

\* Answers success also when no row was updated.
report_result(w) ==
    /\ st[w] = "report" /\ call[w] = "sent"
    /\ SetStatus(job[cur[w]], Recorded(ReportedStatus), NoMsg)
    /\ call' = [call EXCEPT ![w] = "ok"]
    /\ reported' = reported \cup {cur[w]}
    /\ UNCHANGED <<posting, brokerVars, chan, buf, cur, wire, st, stopping,
                   orphans, faults>>

\* The service executes a call whose caller has given up or gone.
LateCall(b, s) ==
    /\ <<b, s>> \in orphans
    /\ SetStatus(b, s, NoMsg)
    /\ orphans' = orphans \ {<<b, s>>}
    /\ UNCHANGED <<posting, brokerVars, workerVars, reported, faults>>

\* What may still be executed once w stops waiting for its call.
Abandoned(w) ==
    CASE st[w] = "status" /\ call[w] = "sent" -> {<<job[cur[w]], "running">>}
      [] st[w] = "report" /\ call[w] = "sent" -> {<<job[cur[w]], Recorded(ReportedStatus)>>}
      [] OTHER -> {}

-----------------------------------------------------------------------------
(* backup-worker.                                                          *)

\* main before the connections: started by the orchestrator.
start(w) ==
    /\ st[w] = "down"
    /\ st' = [st EXCEPT ![w] = "connecting"]
    /\ UNCHANGED <<serviceVars, brokerVars, chan, buf, cur, wire, call, stopping,
                   orphans, reported, faults>>

\* RabbitMQ and gRPC are reached and the consumer is registered.
connect(w) ==
    /\ st[w] = "connecting"
    /\ st' = [st EXCEPT ![w] = "consuming"]
    /\ chan' = [chan EXCEPT ![w] = TRUE]
    /\ UNCHANGED <<serviceVars, brokerVars, buf, cur, wire, call, stopping,
                   orphans, reported, faults>>

\* The `?` on either connection makes main return the error.  (A process killed
\* this early leaves nothing else behind either.)
connect_fails(w) ==
    /\ Fault
    /\ st[w] = "connecting"
    /\ st' = [st EXCEPT ![w] = "down"]
    /\ UNCHANGED <<serviceVars, brokerVars, chan, buf, cur, wire, call, stopping,
                   orphans, reported>>

\* basic_consume fails and run_worker returns; main notices only when it is
\* told to stop.
consume_fails(w) ==
    /\ Fault
    /\ st[w] = "connecting"
    /\ st' = [st EXCEPT ![w] = "stopped"]
    /\ UNCHANGED <<serviceVars, brokerVars, chan, buf, cur, wire, call, stopping,
                   orphans, reported>>

\* Mutant: the delivery is acked when it is taken, and again when it is done.
take_job_AckFirst(w) ==
    /\ st[w] = "consuming" /\ buf[w] # <<>>
    /\ job[Head(buf[w])] \in Backups
    /\ cur' = [cur EXCEPT ![w] = Head(buf[w])]
    /\ buf' = [buf EXCEPT ![w] = Tail(@)]
    /\ wire' = [wire EXCEPT ![w] = IF chan[w] THEN @ \cup {<<Head(buf[w]), "ack">>} ELSE @]
    /\ st' = [st EXCEPT ![w] = "status"]
    /\ call' = [call EXCEPT ![w] = "sent"]
    /\ UNCHANGED <<serviceVars, brokerVars, chan, stopping, orphans, reported, faults>>

\* consumer.next() yields a job and process_and_report sends UpdateStatus.
take_job(w) ==
    /\ st[w] = "consuming" /\ buf[w] # <<>>
    /\ job[Head(buf[w])] \in Backups
    /\ cur' = [cur EXCEPT ![w] = Head(buf[w])]
    /\ buf' = [buf EXCEPT ![w] = Tail(@)]
    /\ st' = [st EXCEPT ![w] = "status"]
    /\ call' = [call EXCEPT ![w] = "sent"]
    /\ UNCHANGED <<serviceVars, brokerVars, chan, wire, stopping, orphans, reported, faults>>

\* consumer.next() yields what serde cannot read: nacked without requeue, the
\* result of the nack ignored.
reject_job(w) ==
    /\ st[w] = "consuming" /\ buf[w] # <<>>
    /\ job[Head(buf[w])] \notin Backups
    /\ wire' = [wire EXCEPT ![w] = IF chan[w] THEN @ \cup {<<Head(buf[w]), "drop">>} ELSE @]
    /\ buf' = [buf EXCEPT ![w] = Tail(@)]
    /\ UNCHANGED <<serviceVars, brokerVars, chan, cur, st, call, stopping,
                   orphans, reported, faults>>

\* The answer to a call arrives: an error ends process_and_report.
call_returns(w, from, to) ==
    /\ st[w] = from /\ call[w] \in {"ok", "err"}
    /\ st' = [st EXCEPT ![w] = IF call[w] = "ok" THEN to ELSE "nack"]
    /\ call' = [call EXCEPT ![w] = "idle"]
    /\ UNCHANGED <<serviceVars, brokerVars, chan, buf, cur, wire, stopping,
                   orphans, reported, faults>>

status_returns(w) == call_returns(w, "status", "analyze")

report_returns(w) == call_returns(w, "report", "ack")

\* Mutant: the error is logged and the loop goes on without a nack.
call_fails_NoNack(w) ==
    /\ Fault
    /\ st[w] \in {"status", "analyze", "report"}
    /\ orphans' = orphans \cup Abandoned(w)
    /\ st' = [st EXCEPT ![w] = "consuming"]
    /\ cur' = [cur EXCEPT ![w] = NoMsg]
    /\ call' = [call EXCEPT ![w] = "idle"]
    /\ UNCHANGED <<serviceVars, brokerVars, chan, buf, wire, stopping, reported>>

\* A transport or database error, after which the worker cannot know whether
\* the call was executed, or a failed blocking task: process_and_report errs.
call_fails(w) ==
    /\ Fault
    /\ st[w] \in {"status", "analyze", "report"}
    /\ orphans' = orphans \cup Abandoned(w)
    /\ st' = [st EXCEPT ![w] = "nack"]
    /\ call' = [call EXCEPT ![w] = "idle"]
    /\ UNCHANGED <<serviceVars, brokerVars, chan, buf, cur, wire, stopping, reported>>

\* Mutant: the result is never reported.
analyze_NoReport(w) ==
    /\ st[w] = "analyze"
    /\ st' = [st EXCEPT ![w] = "ack"]
    /\ UNCHANGED <<serviceVars, brokerVars, chan, buf, cur, wire, call, stopping,
                   orphans, reported, faults>>

\* Entropy, classification and sleep, then ReportResult is sent.
analyze(w) ==
    /\ st[w] = "analyze"
    /\ st' = [st EXCEPT ![w] = "report"]
    /\ call' = [call EXCEPT ![w] = "sent"]
    /\ UNCHANGED <<serviceVars, brokerVars, chan, buf, cur, wire, stopping,
                   orphans, reported, faults>>

\* delivery.ack / delivery.nack on an open channel, back to the select.
send_verdict(w, from, v) ==
    /\ st[w] = from /\ chan[w]
    /\ wire' = [wire EXCEPT ![w] = @ \cup {<<cur[w], v>>}]
    /\ cur' = [cur EXCEPT ![w] = NoMsg]
    /\ st' = [st EXCEPT ![w] = "consuming"]
    /\ UNCHANGED <<serviceVars, brokerVars, chan, buf, call, stopping,
                   orphans, reported, faults>>

ack(w) == send_verdict(w, "ack", "ack")

\* Mutants: a failed job is nacked with requeue: false, or acked.
nack_Drop(w) == send_verdict(w, "nack", "drop")

nack_Acks(w) == send_verdict(w, "nack", "ack")

nack(w) == send_verdict(w, "nack", "requeue")

\* run_worker returns: `?` on an ack or nack, or the stream ends behind the
\* last prefetched delivery.  main goes on waiting for a signal.
run_worker_ends(w) ==
    /\ ~chan[w]
    /\ \/ st[w] \in {"ack", "nack"}
       \/ st[w] = "consuming" /\ buf[w] = <<>>
    /\ st' = [st EXCEPT ![w] = "stopped"]
    /\ cur' = [cur EXCEPT ![w] = NoMsg]
    /\ buf' = [buf EXCEPT ![w] = <<>>]
    /\ UNCHANGED <<serviceVars, brokerVars, chan, wire, call, stopping,
                   orphans, reported, faults>>

\* SIGINT or SIGTERM: main sends true on the watch channel.
shutdown_signal(w) ==
    /\ Fault
    /\ st[w] \in Loop \cup {"stopped"} /\ ~stopping[w]
    /\ stopping' = [stopping EXCEPT ![w] = TRUE]
    /\ UNCHANGED <<serviceVars, brokerVars, chan, buf, cur, wire, st, call,
                   orphans, reported>>

\* The process is gone: connection dropped, memory lost, calls abandoned.
Exit(w) ==
    /\ CloseChannel(w)
    /\ orphans' = orphans \cup Abandoned(w)
    /\ st' = [st EXCEPT ![w] = "down"]
    /\ buf' = [buf EXCEPT ![w] = <<>>]
    /\ cur' = [cur EXCEPT ![w] = NoMsg]
    /\ call' = [call EXCEPT ![w] = "idle"]
    /\ stopping' = [stopping EXCEPT ![w] = FALSE]
    /\ UNCHANGED <<serviceVars, job, reported>>

\* select! picks the shutdown branch between two deliveries, or run_worker had
\* returned before; main drops the connection and ends.
shutdown_clean(w) ==
    /\ stopping[w] /\ st[w] \in {"consuming", "stopped"}
    /\ Exit(w)
    /\ UNCHANGED faults

\* The 30 s timeout on the worker task passes while a job is in hand.
shutdown_timeout(w) ==
    /\ stopping[w] /\ st[w] \in Loop \ {"consuming"}
    /\ Exit(w)
    /\ UNCHANGED faults

crash(w) ==
    /\ Fault
    /\ st[w] \in Loop \cup {"stopped"}
    /\ Exit(w)

-----------------------------------------------------------------------------
worker_step(w) ==
    \/ take_job(w) \/ reject_job(w) \/ status_returns(w) \/ analyze(w)
    \/ report_returns(w) \/ ack(w) \/ nack(w) \/ run_worker_ends(w)

grpc_step(w) == update_status(w) \/ report_result(w)

client_step(b) ==
    \/ create_backup(b) \/ delete_backup(b) \/ enqueue_backup(b) \/ publish_fails(b)
    \/ \E s \in Status : update_backup(b, s)
    \/ \E m \in Msgs : publish_job(b, m)
    \/ \E s \in {"running", "completed"} : LateCall(b, s)

process_step(w) ==
    \/ start(w) \/ connect(w) \/ connect_fails(w) \/ consume_fails(w) \/ call_fails(w)
    \/ crash(w) \/ ConnectionLost(w)
    \/ shutdown_signal(w) \/ shutdown_clean(w) \/ shutdown_timeout(w)

broker_step(m) ==
    \/ ForeignPublish(m)
    \/ \E w \in Workers : Deliver(m, w)
    \/ \E w \in Workers, v \in Verbs : Settle(w, m, v)

Next ==
    \/ \E b \in Backups : client_step(b)
    \/ \E w \in Workers : worker_step(w) \/ grpc_step(w) \/ process_step(w)
    \/ \E m \in Msgs : broker_step(m)

Spec == Init /\ [][Next]_vars

\* The tokio tasks and the broker keep running, and a process that has ended
\* is started again (Kubernetes restarts it); nothing is assumed of clients,
\* faults, signals or late calls.
Fairness ==
    /\ \A w \in Workers :
        /\ WF_vars(worker_step(w)) /\ WF_vars(grpc_step(w))
        /\ WF_vars(start(w)) /\ WF_vars(connect(w))
        /\ WF_vars(shutdown_clean(w))
    /\ \A m \in Msgs :
        /\ WF_vars(\E w \in Workers : Deliver(m, w))
        /\ WF_vars(\E w \in Workers, v \in Verbs : Settle(w, m, v))

FairSpec == Spec /\ Fairness

-----------------------------------------------------------------------------
(* Properties.                                                             *)

\* The broker still answers for m.
Outstanding(m) == at[m] \in {"ready"} \cup Workers

\* A message leaves the queue as processed only if ReportResult was recorded
\* for it, whatever crashed, was redelivered or failed before (main.rs acks
\* after process_and_report returned Ok).
SettledWasReported == \A m \in Msgs : at[m] = "done" => m \in reported

\* A report for m is still to come: the broker answers for it, and the worker
\* that holds it has not reported it and gone on to the ack.
Due(m) ==
    /\ Outstanding(m)
    /\ \A w \in Workers : at[m] = w =>
        /\ <<m, "ack">> \notin wire[w]
        /\ cur[w] = m => st[w] # "ack" /\ ~(st[w] = "report" /\ call[w] = "ok")

\* A row that a worker marked running for a delivery it owned is running, and
\* the report of that message is still to come.  A call that was abandoned, or
\* is made for a delivery that was lost, writes "running" without any such
\* message: it clears the mark, and this says nothing of what it leaves behind.
RunningIsOwned ==
    \A b \in Backups : runner[b] # NoMsg =>
        /\ row[b] = "running"
        /\ job[runner[b]] = b
        /\ Due(runner[b])

\* While a channel is open, the deliveries in the worker's memory and the
\* verdicts it has written are exactly what the broker holds unacked for it,
\* each once: an ack or nack never carries an unknown delivery tag.
ChannelAgreement ==
    \A w \in Workers :
        /\ chan[w] => {m \in Msgs : at[m] = w} =
              Range(buf[w]) \cup ({cur[w]} \ {NoMsg}) \cup {p[1] : p \in wire[w]}
        /\ IsInjective(buf[w])
        /\ cur[w] \notin Range(buf[w])
        /\ \A p \in wire[w] : p[1] \notin Range(buf[w]) \cup {cur[w]}
        /\ \A p, q \in wire[w] : p[1] = q[1] => p = q

Ledger == INSTANCE JobLedger WITH
    accepted <- {m \in Msgs : at[m] \notin {"unsent", "lost"}},
    garbage  <- {m \in Msgs : job[m] = Garbage},
    settled  <- {m \in Msgs : at[m] = "done"},
    rejected <- {m \in Msgs : at[m] = "dropped"}

\* The pipeline implements at-least-once processing: JobLedger's promise.
AtLeastOnce == Ledger!Spec

AllStopped == \A w \in Workers : st[w] = "stopped"

\* A queued job is settled in the end, unless its row is deleted under it or
\* every worker process sits without a consumer.
JobSettles ==
    \A m \in Msgs : at[m] = "ready" ~>
        \/ ~Outstanding(m)
        \/ job[m] \in Backups /\ row[job[m]] = "deleted"
        \/ AllStopped

\* A row that is running, whoever wrote that (a worker, a late or stray call, a
\* client), stops being so as long as a report for it is still to come, unless
\* no worker consumes any more.  By RunningIsOwned this covers every row marked
\* for an owned delivery.  A late "running" after the last report is not
\* covered, and stays for ever.
RunningResolves ==
    \A b \in Backups, m \in Msgs :
        row[b] = "running" /\ job[m] = b /\ Due(m) ~> row[b] # "running" \/ AllStopped

\* README.md (Concepts exercised) lists "ack/reject, dead-letter" for RabbitMQ:
\* a message that cannot be processed leaves the queue.  The code requeues a
\* job whose row is gone for ever, so this does not hold.
EveryJobLeavesQueue == \A m \in Msgs : Outstanding(m) ~> ~Outstanding(m)
=============================================================================
