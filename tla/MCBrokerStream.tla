--------------------------- MODULE MCBrokerStream ---------------------------
(***************************************************************************)
(* An instance of BrokerStream for TLC.                                    *)
(***************************************************************************)
EXTENDS BrokerStream, TLC

CONSTANTS q1, q2

OwnerSymmetry == Permutations(Owners)
=============================================================================
