------------------------------- MODULE MCLoop -------------------------------
(* Small instances of WorkerLoop for TLC.                                   *)
EXTENDS WorkerLoop

CONSTANTS g

\* Rows 1 and 2 share an ordering key, the others have none.
MCGroup == [m \in Rows |-> IF m <= 2 THEN g ELSE NoGroup]

\* No row has an ordering key.
MCUngrouped == [m \in Rows |-> NoGroup]
=============================================================================
