----------------------------- MODULE MCSessions -----------------------------
(***************************************************************************)
(* Instances of Sessions for TLC.                                          *)
(***************************************************************************)
EXTENDS Sessions, TLC

CONSTANTS s1, s2, q1, q2, a, b, c, w1

\* The running event is the one that may name the conversation.
Said == {[kind |-> k, joins |-> k = "running"] : k \in Kinds}

Symmetry == Permutations(Requests) \cup Permutations(Queries) \cup Permutations(Sessions)
=============================================================================
