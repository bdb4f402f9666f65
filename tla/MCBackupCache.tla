---------------------------- MODULE MCBackupCache ----------------------------
(* BackupCache for TLC: cache settings as values a configuration can name.   *)
EXTENDS BackupCache, TLC

CONSTANTS Ttl, NewTtl, NewLimit     \* at boot, and in Apollo's updates

MCInitConf == [f \in Settings |-> CASE f = "ttl" -> Ttl [] f = "limit" -> 1 [] OTHER -> 0]

OnlyField(name, v) == [f \in Settings |-> IF f = name THEN v ELSE Nil]

MCUpdates == {OnlyField("ttl", v) : v \in NewTtl} \cup {OnlyField("limit", v) : v \in NewLimit}

Symmetry == Permutations(Reqs) \cup Permutations(Tenants)
=============================================================================
