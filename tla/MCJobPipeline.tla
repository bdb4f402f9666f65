---------------------------- MODULE MCJobPipeline ----------------------------
(* JobPipeline for TLC: workers and messages are interchangeable.            *)
EXTENDS JobPipeline, TLC

Symmetry == Permutations(Workers) \cup Permutations(Msgs)
=============================================================================
