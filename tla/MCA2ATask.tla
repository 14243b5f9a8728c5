------------------------------ MODULE MCA2ATask ------------------------------
(***************************************************************************)
(* A2ATask for TLC: approvals with and without a timeout that can be read, *)
(* and mirrored tasks.                                                     *)
(***************************************************************************)
EXTENDS A2ATask

Kinds == [remote : {FALSE}, onTimeout : {"proceed", "invalid"}]
             \cup [remote : {TRUE}, onTimeout : {"reject"}]
=============================================================================
