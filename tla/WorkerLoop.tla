----------------------------- MODULE WorkerLoop -----------------------------
(***************************************************************************)
(* The worker loop of docs/operations.md and examples/worker_loop.py: call *)
(* OutboxRunner.run_once, log an exception, sleep, repeat.  The question   *)
(* is what happens in the long run, so the clock is abstracted away: a     *)
(* lease or a backoff that has started ends some time, before or after any *)
(* number of passes, because the sleep may be shorter or longer than both. *)
(* One worker, whose passes end within their leases; what several workers  *)
(* do to each other is the subject of OutboxRunner.                        *)
(***************************************************************************)
EXTENDS Retry, FiniteSets

CONSTANTS Rows,       \* committed rows, numbered by created_at
          Group,      \* [Rows -> (event_type, ordering_key) or NoGroup]
          NoGroup,    \* ordering_key IS NULL
          Raising,    \* rows whose publish raises: no route, or a defect
          BatchSize   \* PactixConfig.outbox_batch_size

ASSUME LoopAssumption ==
    /\ Rows \subseteq Nat
    /\ DOMAIN Group = Rows
    /\ Raising \subseteq Rows
    /\ BatchSize \in Nat \ {0}

VARIABLES
    status,    \* of each row
    attempts,  \* of each row
    ripe,      \* pending rows that are due, processing rows whose lease is over
    batch      \* rows of the current pass still to publish; {} when asleep

vars == <<status, attempts, ripe, batch>>

Init ==
    /\ status = [m \in Rows |-> "pending"]
    /\ attempts = [m \in Rows |-> 0]
    /\ ripe = Rows
    /\ batch = {}

Settled(m) == status[m] \in {"published", "failed"}

\* The backoff of m is over, or the lease an aborted pass left on it.
Ripen(m) ==
    /\ ~Settled(m)
    /\ m \notin ripe \cup batch
    /\ ripe' = ripe \cup {m}
    /\ UNCHANGED <<status, attempts, batch>>

\* Mutant of Claimable: no FIFO gate.
Claimable_Ungated == ripe

\* reclaim_expired and the WHERE clause of claim_ready: what is ripe, unless
\* an older row of the group is unsettled.
Claimable ==
    {m \in ripe : \A n \in Rows : n < m /\ ~Settled(n) =>
                      Group[n] # Group[m] \/ Group[n] = NoGroup}

\* run_loop wakes and calls run_once; its claim transaction commits with the
\* oldest rows.  A pass that finds nothing changes nothing but reclaimed rows.
RunOnce ==
    /\ batch = {}
    /\ \E rows \in SUBSET Claimable :
          /\ Cardinality(rows) <= BatchSize
          /\ Cardinality(rows) < BatchSize => rows = Claimable
          /\ \A m \in rows, n \in Claimable \ rows : m < n
          /\ batch' = rows
          /\ ripe' = ripe \ rows
          /\ status' = [m \in Rows |-> CASE m \in rows -> "processing"
                                         [] m \in ripe \ rows -> "pending"
                                         [] OTHER -> status[m]]
    /\ UNCHANGED attempts

\* publish raises: run_once is left with the rest of the batch in processing,
\* nothing counts the attempt, and run_loop goes to sleep.
Raise(m) ==
    /\ m \in batch
    /\ m \in Raising
    /\ batch' = {}
    /\ UNCHANGED <<status, attempts, ripe>>

\* Mutant of Settle: a retry is scheduled without counting the attempt.
Settle_NotCounted(m, outcome) ==
    /\ m \in batch
    /\ m \notin Raising
    /\ batch' = batch \ {m}
    /\ status' = [status EXCEPT ![m] =
                     CASE outcome = "published" -> "published"
                       [] outcome = "terminal" -> "failed"
                       [] outcome = "retryable" -> "pending"]
    /\ UNCHANGED <<attempts, ripe>>

\* publish returns an outcome for m and run_once records it.
Settle(m, outcome) ==
    /\ m \in batch
    /\ m \notin Raising
    /\ batch' = batch \ {m}
    /\ status' = [status EXCEPT ![m] =
                     CASE outcome = "published" -> "published"
                       [] outcome = "terminal" -> "failed"
                       [] outcome = "retryable" ->
                             IF ReachesCeiling(attempts[m]) THEN "failed" ELSE "pending"]
    /\ attempts' = IF outcome = "published" THEN attempts
                   ELSE [attempts EXCEPT ![m] = @ + 1]
    /\ UNCHANGED ripe

Publish ==
    \E m \in Rows :
        \/ Raise(m)
        \/ \E outcome \in {"published", "retryable", "terminal"} : Settle(m, outcome)

Next == RunOnce \/ Publish \/ \E m \in Rows : Ripen(m)

Spec == Init /\ [][Next]_vars

\* The loop never ends and every await in it returns; leases and backoffs end.
FairSpec ==
    /\ Spec
    /\ WF_vars(RunOnce)
    /\ WF_vars(Publish)
    /\ \A m \in Rows : WF_vars(Ripen(m))

-----------------------------------------------------------------------------
(* Properties *)

\* Every row whose publisher does not raise is published or given up in the
\* end, whatever its retries, its batch and the rows it queues behind.
\* docs/operations.md says "Delivery is at-least-once" and "Different event
\* types or ordering keys can run in parallel"; the code keeps the promise
\* only as long as no publisher raises: a row that raises is never counted,
\* never given up, and may take the rest of its batch down every time.
EveryRowSettles ==
    \A m \in Rows \ Raising : <>Settled(m)

\* Rows of one (event_type, ordering_key) are settled in the order in which
\* they were appended.
SettledInOrder ==
    \A m, n \in Rows : n < m /\ Group[n] = Group[m] /\ Group[m] # NoGroup =>
        (Settled(m) => Settled(n))
=============================================================================
