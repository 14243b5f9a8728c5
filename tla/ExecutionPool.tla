---------------------------- MODULE ExecutionPool ----------------------------
(***************************************************************************)
(* What MaxConcurrentQueries promises (QueryReconciler.sem): a pool of     *)
(* Capacity permits.  A permit is taken by whoever is about to start an    *)
(* execution, handed over to the execution, and given back when it ends; a *)
(* restart of the controller returns them all.  Capacity 0 means no limit. *)
(***************************************************************************)
EXTENDS Naturals, FiniteSets

CONSTANTS Holders, Capacity

VARIABLE held

Init == held = {}

Acquire(x) == /\ x \notin held
              /\ Capacity = 0 \/ Cardinality(held) < Capacity
              /\ held' = held \cup {x}

HandOver(x, y) == /\ x \in held /\ y \notin held
                  /\ held' = (held \ {x}) \cup {y}

Release(x) == x \in held /\ held' = held \ {x}

Restart == held' = {}

Next == \/ \E x \in Holders : Acquire(x) \/ Release(x)
        \/ \E x, y \in Holders : HandOver(x, y)
        \/ Restart

Spec == Init /\ [][Next]_held
=============================================================================
