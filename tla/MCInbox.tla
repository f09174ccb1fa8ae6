------------------------------ MODULE MCInbox ------------------------------
(* Small instances of InboxRunner for TLC.                                  *)
EXTENDS InboxRefinement, TLC

CONSTANTS m1, m2, g, w1, w2

\* All messages share one (event_type, ordering_key).
MCGroup == [m \in Messages |-> g]

WorkerSymmetry == Permutations(Workers)
=============================================================================
