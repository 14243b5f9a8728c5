----------------------------- MODULE ApprovalTask -----------------------------
(***************************************************************************)
(* What the Query reconciler may expect of an A2ATask that asks for an     *)
(* approval: it appears as a question, is answered at most once, and may   *)
(* be garbage-collected at any moment, answered or not.  A2ATask shows     *)
(* that the reconciler of the tasks does no more than this; the            *)
(* environment of QueryController takes every such step.                   *)
(***************************************************************************)
VARIABLE task

Answer == {"completed", "denied", "failed"}

Init == task = "absent"

Ask == task = "absent" /\ task' = "input-required"

Settle == task = "input-required" /\ task' \in Answer

Discard == task # "gone" /\ task' = "gone"

Next == Ask \/ Settle \/ Discard

Spec == Init /\ [][Next]_task
=============================================================================
