---------------------------- MODULE MCChunkStream ----------------------------
(***************************************************************************)
(* Instances of ChunkStream for TLC.                                       *)
(***************************************************************************)
EXTENDS ChunkStream, TLC

CONSTANTS r1, c1, c2

CompleterSymmetry == Permutations(Completers)
=============================================================================
