------------------------- MODULE OutboxRefinement -------------------------
(***************************************************************************)
(* The outbox workers of OutboxRunner implement the queue of LeaseQueue.   *)
(* Reading, locking and publishing are stuttering steps; the commit of a   *)
(* claim, each mark_* update, an abandoned pass and an overrun are steps.  *)
(***************************************************************************)
EXTENDS OutboxInvariant

\* What an outbox_message status means for the queue.
QueueState(status) ==
    CASE status \in {"absent", "open"} -> "absent"
      [] status = "pending" -> "waiting"
      [] status = "processing" -> "held"
      [] status = "published" -> "done"
      [] status = "failed" -> "dead"

States == [m \in Messages |-> QueueState(table[m].status)]
Tries == [m \in Messages |-> table[m].attempts]

Queue == INSTANCE LeaseQueue
    WITH Items <- Messages, Consumers <- Workers, MaxTries <- MaxAttempts,
         state <- States, tries <- Tries, hands <- claimed_rows,
         kept <- ~overrun

\* Every behaviour of the workers is one of the lease queue: whatever the
\* interleaving of their statements, crashes and late marks, rows change
\* hands only as LeaseQueue allows.
ImplementsLeaseQueue == Queue!Spec
===========================================================================
