---------------------------- MODULE OutboxStore ----------------------------
(***************************************************************************)
(* The outbox_message table and the statements OutboxStore runs on it      *)
(* (pactix/outbox/store.py, pactix/outbox/model.py).                       *)
(*                                                                         *)
(* A row keeps the columns that some statement reads: status, attempts,    *)
(* available_at, lease_until and created_at.  (event_type, ordering_key)   *)
(* is only ever compared for equality by the FIFO gate, so the pair is one *)
(* value, Group[m], fixed per message; a NULL ordering_key is NoGroup.     *)
(* message_id is the identity m (the column is UNIQUE), max_attempts is    *)
(* the policy's MaxAttempts; payload, headers, last_error, updated_at and  *)
(* published_at are written and never read back by the library.            *)
(*                                                                         *)
(* The statements are functions of the table, so that the runner's model   *)
(* decides when each takes effect and under which locks.                   *)
(***************************************************************************)
EXTENDS Retry, Integers, FiniteSets

CONSTANTS Messages,       \* messages the application may append
          Group,          \* [Messages -> (event_type, ordering_key) or NoGroup]
          NoGroup,        \* ordering_key IS NULL
          LeaseDuration,  \* PactixConfig.lease_duration
          BatchSize       \* PactixConfig.outbox_batch_size

ASSUME StoreAssumption ==
    /\ DOMAIN Group = Messages
    /\ LeaseDuration \in Nat
    /\ BatchSize \in Nat

\* SQL NULL in lease_until.  `lease_until < now' is never true of it.
NoLease == -1

\* "absent": no such row.  "open": inserted by a transaction of the
\* application that has not committed, invisible to every other session.
StoredStatus == {"pending", "processing", "published", "failed"}
Status == StoredStatus \cup {"absent", "open"}

Row == [status      : Status,
        attempts    : Nat,
        availableAt : Nat,
        leaseUntil  : Nat \cup {NoLease},
        createdAt   : Nat]

AbsentRow == [status |-> "absent", attempts |-> 0, availableAt |-> 0,
              leaseUntil |-> NoLease, createdAt |-> 0]

\* OutboxMessageRecord.pending: one clock reading serves available_at and
\* created_at.  The row becomes "pending" when the caller commits.
AppendedRow(now) == [status |-> "open", attempts |-> 0, availableAt |-> now,
                     leaseUntil |-> NoLease, createdAt |-> now]

Visible(table) == {m \in Messages : table[m].status \in StoredStatus}

\* The rows that hold back the younger rows of their group.
Unsettled(table) ==
    {m \in Messages : table[m].status \in {"pending", "processing"}}

SameGroup(m, n) == Group[m] = Group[n] /\ Group[m] # NoGroup

Older(table, m, n) ==
    SameGroup(m, n) /\ table[m].createdAt < table[n].createdAt

-----------------------------------------------------------------------------
(* The statements *)

\* Mutant of Expired: a lease that ends now counts as expired.
Expired_AtBoundary(table, now) ==
    {m \in Messages : /\ table[m].status = "processing"
                      /\ table[m].leaseUntil # NoLease
                      /\ table[m].leaseUntil <= now}

\* WHERE status = 'processing' AND lease_until < :now
Expired(table, now) ==
    {m \in Messages : /\ table[m].status = "processing"
                      /\ table[m].leaseUntil # NoLease
                      /\ table[m].leaseUntil < now}

\* WHERE status = 'pending' AND available_at <= :now
Ready(table, now) ==
    {m \in Messages : /\ table[m].status = "pending"
                      /\ table[m].availableAt <= now}

\* Mutant of PassesFifoGate: rows in processing do not hold younger ones back.
PassesFifoGate_PendingOnly(table, m) ==
    \A n \in Messages : table[n].status = "pending" => ~Older(table, n, m)

\* ordering_key IS NULL OR NOT EXISTS (an older unsettled row of the group)
PassesFifoGate(table, m) ==
    \A n \in Unsettled(table) : ~Older(table, n, m)

\* The rows the claim query selects from a snapshot, before locks and LIMIT.
Claimable(table, now) ==
    {m \in Ready(table, now) : PassesFifoGate(table, m)}

\* ORDER BY created_at ASC LIMIT :limit.  Ties are broken either way.
IsOldestBatch(table, batch, rows) ==
    /\ batch \subseteq rows
    /\ Cardinality(batch) <= BatchSize
    /\ Cardinality(batch) < BatchSize => batch = rows
    /\ \A m \in batch, n \in rows \ batch :
           table[m].createdAt <= table[n].createdAt

\* SET status = 'pending', lease_until = NULL
Reclaimed(row) == [row EXCEPT !.status = "pending", !.leaseUntil = NoLease]

\* Mutant of Claimed: lease_until is not set.
Claimed_NoLease(row, now) == [row EXCEPT !.status = "processing"]

\* SET status = 'processing', lease_until = :now + lease_duration
Claimed(row, now) ==
    [row EXCEPT !.status = "processing", !.leaseUntil = now + LeaseDuration]

\* The two statements of the claim transaction, on the rows they update.
AfterReclaim(table, rows) ==
    [m \in Messages |-> IF m \in rows THEN Reclaimed(table[m]) ELSE table[m]]

AfterClaim(table, rows, now) ==
    [m \in Messages |->
        IF m \in rows THEN Claimed(table[m], now) ELSE table[m]]

\* mark_published, mark_retry and mark_failed: WHERE id = :id and nothing
\* else.  No condition on status or on who holds the lease.
Published(row) ==
    [row EXCEPT !.status = "published", !.leaseUntil = NoLease]

\* Mutant of RetryScheduled: attempts counts down.
RetryScheduled_CountsDown(row, available_at) ==
    [row EXCEPT !.status = "pending", !.attempts = @ - 1,
                !.availableAt = available_at, !.leaseUntil = NoLease]

RetryScheduled(row, available_at) ==
    [row EXCEPT !.status = "pending", !.attempts = @ + 1,
                !.availableAt = available_at, !.leaseUntil = NoLease]

Failed(row) ==
    [row EXCEPT !.status = "failed", !.attempts = @ + 1,
                !.leaseUntil = NoLease]
=============================================================================
