-------------------------- MODULE InboxRefinement --------------------------
(***************************************************************************)
(* The inbox workers of InboxRunner implement the queue of LeaseQueue,     *)
(* FIFO and unordered ones alike, with receivers storing duplicates.       *)
(***************************************************************************)
EXTENDS InboxInvariant

\* What an inbox_message status means for the queue.
QueueState(status) ==
    CASE status \in {"absent", "open"} -> "absent"
      [] status = "pending" -> "waiting"
      [] status = "processing" -> "held"
      [] status = "processed" -> "done"
      [] status = "failed" -> "dead"

States == [m \in Messages |-> QueueState(table[m].status)]
Tries == [m \in Messages |-> table[m].attempts]

Queue == INSTANCE LeaseQueue
    WITH Items <- Messages, Consumers <- Workers, MaxTries <- MaxAttempts,
         state <- States, tries <- Tries, hands <- claimed_rows,
         kept <- ~overrun

\* Every behaviour of the inbox workers and receivers is one of the lease
\* queue: no double claim and no settled row written again while leases are
\* kept, and no receipt ever changes a stored row.
ImplementsLeaseQueue == Queue!Spec
=============================================================================
