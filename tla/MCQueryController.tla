-------------------------- MODULE MCQueryController --------------------------
(* Small instances of QueryController for TLC. *)
EXTENDS QueryController, TLC

WorkerSymmetry == Permutations(Workers)
=============================================================================
