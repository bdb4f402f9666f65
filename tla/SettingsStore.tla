---------------------------- MODULE SettingsStore ----------------------------
(***************************************************************************)
(* What the readers of AppConfig may rely on: the settings change only as  *)
(* a whole, by one payload of the endpoint merged into them, or go back to *)
(* the environment's when the process is started again.  BackupCache and   *)
(* RateLimiter take their settings to behave like this.                    *)
(***************************************************************************)
CONSTANTS
    Fields,         \* fields that can be updated
    InitConf,       \* their values in the environment
    Updates,        \* payloads the endpoint may serve
    Nil             \* a field missing in a payload

VARIABLE conf

\* Only the fields that are present overwrite.
Merge(c, u) == [f \in Fields |-> IF u[f] = Nil THEN c[f] ELSE u[f]]

Init == conf = InitConf

Update == \E u \in Updates : conf' = Merge(conf, u)

Restart == conf' = InitConf

Next == Update \/ Restart

Spec == Init /\ [][Next]_conf
=============================================================================
