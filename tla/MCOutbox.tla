------------------------------ MODULE MCOutbox ------------------------------
(* Small instances of OutboxRunner for TLC.                                 *)
EXTENDS OutboxRefinement, TLC

CONSTANTS m1, m2, g

\* All messages share one (event_type, ordering_key).
MCGroup == [m \in Messages |-> g]

WorkerSymmetry == Permutations(Workers)
=============================================================================
