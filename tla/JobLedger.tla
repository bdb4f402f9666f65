------------------------------ MODULE JobLedger ------------------------------
(***************************************************************************)
(* What the job pipeline promises to whoever enqueues a backup: a job the  *)
(* broker has accepted is settled only after its result was reported to    *)
(* the service, and only a message that is no job may be thrown away       *)
(* unprocessed.  A job may be reported any number of times (at-least-once).*)
(* JobPipeline implements this specification.                              *)
(***************************************************************************)
CONSTANT Msgs       \* identities of the messages that can be published

VARIABLES
    accepted,       \* messages the broker holds or has held
    garbage,        \* accepted messages that do not decode to a job
    reported,       \* messages whose result was recorded by the service
    settled,        \* messages removed from the broker as processed
    rejected        \* messages removed from the broker unprocessed

ledgerVars == <<accepted, garbage, reported, settled, rejected>>

Init ==
    /\ accepted = {} /\ garbage = {}
    /\ reported = {} /\ settled = {} /\ rejected = {}

Open == accepted \ (settled \cup rejected)

Accept(m) ==
    /\ m \notin accepted
    /\ accepted' = accepted \cup {m}
    /\ garbage' \in {garbage, garbage \cup {m}}
    /\ UNCHANGED <<reported, settled, rejected>>

Report(m) ==
    /\ m \in accepted \ garbage
    /\ reported' = reported \cup {m}
    /\ UNCHANGED <<accepted, garbage, settled, rejected>>

Settle(m) ==
    /\ m \in Open \cap reported
    /\ settled' = settled \cup {m}
    /\ UNCHANGED <<accepted, garbage, reported, rejected>>

Reject(m) ==
    /\ m \in Open \cap garbage
    /\ rejected' = rejected \cup {m}
    /\ UNCHANGED <<accepted, garbage, reported, settled>>

Next == \E m \in Msgs : Accept(m) \/ Report(m) \/ Settle(m) \/ Reject(m)

Spec == Init /\ [][Next]_ledgerVars
=============================================================================
