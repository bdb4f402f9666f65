---------------------------- MODULE MCRateLimiter ----------------------------
(* RateLimiter for TLC: limits as values a configuration can name.           *)
EXTENDS RateLimiter, TLC

CONSTANTS MaxRequests, WindowSecs, NewMax, NewWindow  \* environment, Apollo

MCInitLimits == [f \in Fields |-> IF f = "max" THEN MaxRequests ELSE WindowSecs]

MCUpdates == {[f \in Fields |-> IF f = "max" THEN v ELSE w] : v \in NewMax, w \in NewWindow}

Symmetry == Permutations(Replicas) \cup Permutations(Reqs) \cup Permutations(Tenants)
=============================================================================
