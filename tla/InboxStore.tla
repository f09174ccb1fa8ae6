----------------------------- MODULE InboxStore -----------------------------
(***************************************************************************)
(* The inbox_message table and the statements InboxStore runs on it        *)
(* (pactix/inbox/store.py, pactix/inbox/model.py, pactix/db/tables.py).    *)
(*                                                                         *)
(* A message m stands for a (source, message_id), which is UNIQUE.  As in  *)
(* OutboxStore, (event_type, ordering_key) is one value Group[m], NoGroup  *)
(* when ordering_key IS NULL, and columns no statement reads are left out. *)
(* PostgreSQL and MySQL run different text for the same statement: one     *)
(* UPDATE ... RETURNING there, SELECT ... FOR UPDATE and UPDATE in the same*)
(* transaction here; naive_utc only converts the clock to the column type. *)
(***************************************************************************)
EXTENDS Retry, Integers, FiniteSets

CONSTANTS Messages,       \* (source, message_id) pairs that may be received
          Group,          \* [Messages -> (event_type, ordering_key) or NoGroup]
          NoGroup,        \* ordering_key IS NULL
          LeaseDuration,  \* PactixConfig.lease_duration
          BatchSize       \* PactixConfig.inbox_batch_size

ASSUME StoreAssumption ==
    /\ DOMAIN Group = Messages
    /\ LeaseDuration \in Nat
    /\ BatchSize \in Nat

\* SQL NULL in lease_until.
NoLease == -1

\* InboxStatus, plus "absent" (no row) and "open" (inserted by a receiving
\* transaction that has not committed).
StoredStatus == {"pending", "processing", "processed", "failed"}
Status == StoredStatus \cup {"absent", "open"}

Row == [status      : Status,
        attempts    : Nat,
        availableAt : Nat,
        leaseUntil  : Nat \cup {NoLease},
        receivedAt  : Nat]

AbsentRow == [status |-> "absent", attempts |-> 0, availableAt |-> 0,
              leaseUntil |-> NoLease, receivedAt |-> 0]

\* InboxMessageRecord.pending: one clock reading for both timestamps.
ReceivedRow(now) == [status |-> "open", attempts |-> 0, availableAt |-> now,
                     leaseUntil |-> NoLease, receivedAt |-> now]

Visible(table) == {m \in Messages : table[m].status \in StoredStatus}

Unsettled(table) ==
    {m \in Messages : table[m].status \in {"pending", "processing"}}

SameGroup(m, n) == Group[m] = Group[n] /\ Group[m] # NoGroup

Older(table, m, n) ==
    SameGroup(m, n) /\ table[m].receivedAt < table[n].receivedAt

-----------------------------------------------------------------------------
(* The statements *)

\* reclaim_expired: WHERE status = 'processing' AND lease_until < :now
Expired(table, now) ==
    {m \in Messages : /\ table[m].status = "processing"
                      /\ table[m].leaseUntil # NoLease
                      /\ table[m].leaseUntil < now}

\* WHERE status = 'pending' AND available_at <= :now; all that
\* claim_ready_unordered asks of a row.
Ready(table, now) ==
    {m \in Messages : /\ table[m].status = "pending"
                      /\ table[m].availableAt <= now}

\* Mutant of PassesFifoGate: rows in processing do not hold younger ones back.
PassesFifoGate_PendingOnly(table, m) ==
    \A n \in Messages : table[n].status = "pending" => ~Older(table, n, m)

\* claim_ready's gate: no older unsettled row of the same group.
PassesFifoGate(table, m) ==
    \A n \in Unsettled(table) : ~Older(table, n, m)

ClaimableFifo(table, now) ==
    {m \in Ready(table, now) : PassesFifoGate(table, m)}

\* ORDER BY received_at ASC LIMIT :limit
IsOldestBatch(table, batch, rows) ==
    /\ batch \subseteq rows
    /\ Cardinality(batch) <= BatchSize
    /\ Cardinality(batch) < BatchSize => batch = rows
    /\ \A m \in batch, n \in rows \ batch :
           table[m].receivedAt <= table[n].receivedAt

Reclaimed(row) == [row EXCEPT !.status = "pending", !.leaseUntil = NoLease]

\* Mutant of Claimed: lease_until is not set.
Claimed_NoLease(row, now) == [row EXCEPT !.status = "processing"]

Claimed(row, now) ==
    [row EXCEPT !.status = "processing", !.leaseUntil = now + LeaseDuration]

AfterReclaim(table, rows) ==
    [m \in Messages |-> IF m \in rows THEN Reclaimed(table[m]) ELSE table[m]]

AfterClaim(table, rows, now) ==
    [m \in Messages |->
        IF m \in rows THEN Claimed(table[m], now) ELSE table[m]]

\* mark_processed, mark_retry and mark_failed: WHERE id = :id and nothing
\* else, whatever the row's status and whoever holds its lease.
Processed(row) ==
    [row EXCEPT !.status = "processed", !.leaseUntil = NoLease]

RetryScheduled(row, available_at) ==
    [row EXCEPT !.status = "pending", !.attempts = @ + 1,
                !.availableAt = available_at, !.leaseUntil = NoLease]

Failed(row) ==
    [row EXCEPT !.status = "failed", !.attempts = @ + 1,
                !.leaseUntil = NoLease]
=============================================================================
