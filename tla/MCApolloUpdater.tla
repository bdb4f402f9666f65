--------------------------- MODULE MCApolloUpdater ---------------------------
(* ApolloUpdater for TLC: payloads that set some of the fields.              *)
EXTENDS ApolloUpdater

MCInitConf == [f \in Fields |-> 0]

Sets(G, v) == [f \in Fields |-> IF f \in G THEN v ELSE Nil]

\* A rate limit, a page of the list, and one field of each.
MCUpdates == {Sets({"max", "window"}, 1), Sets({"limit", "offset"}, 1), Sets({"max", "ttl", "offset"}, 2)}
=============================================================================
