----------------------------- MODULE MCLiveTail -----------------------------
(***************************************************************************)
(* Instances of LiveTail for TLC.                                          *)
(***************************************************************************)
EXTENDS LiveTail, TLC

CONSTANTS r1, r2, w1

ReplicaSymmetry == Permutations(Replicas)
=============================================================================
