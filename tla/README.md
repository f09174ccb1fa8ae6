# A verification of pactix

pactix is a transactional outbox/inbox library: an application writes a message
into `outbox_message` in the same transaction as its business data, workers
claim rows and hand them to publishers, and on the receiving side messages are
stored in `inbox_message`, deduplicated, and handed to handlers. Workers
coordinate through two database tables only; services are connected by HTTP or
Kafka. This directory holds TLA+ models of that coordination, TLC
configurations that check them on small instances, and TLAPS proofs that hold
for every instance.

## 1. Inventory

| Component | State | Operations | Talks to | What is hard | What makes it correct |
|---|---|---|---|---|---|
| Outbox store (`outbox/store.py`) | rows: status, attempts, available_at, lease_until, created_at | append, reclaim_expired, claim_ready, mark_published, mark_retry, mark_failed | database, in the caller's transaction | claim query sees a snapshot older than its locks; marks are unconditional | rows are not double-claimed, settled rows stay settled |
| Outbox runner (`outbox/runner.py`) | per pass: now, claimed rows, the row in hand | run_once | store, publisher registry, engine | crash or exception between any two statements; lease outlived; stale attempts | at-least-once, FIFO per group, bounded attempts, no stranded row |
| Retry decision (`_retry.py`) | none | next_retry_at, handle_retryable_failure | store | growth, cap and off-by-one | backoff within max_interval, ceiling exact |
| Publisher registry (`outbox/publisher.py`) | event_type to publisher | register*, resolve, publish | application publishers | a missing publisher raises out of run_once | the row is not lost |
| Inbox store (`inbox/store.py`) | as outbox, plus source, received_at | save_received, reclaim_expired, claim_ready, claim_ready_unordered, mark_* | database | concurrent duplicate receipts, rollback of the first | one row per (source, message_id), whatever rolls back |
| Inbox runner (`inbox/runner.py`) with handler, idempotency hook, stale filter | per pass | run_once in FIFO or unordered mode | inbox store, application callbacks | handler effects and mark_processed are not atomic; two claim modes on one table; duplicate receipts lock rows | a processed row was handled, skipped or stale; one effect with an exact hook; FIFO per group |
| Wakeup (`outbox/wakeup.py`) | two events, last notify time, fallback interval, listener connection | wake, wait, notify, run, drain | outbox runner, LISTEN/NOTIFY | lost, early and coalesced signals; cancellation | a committed row is eventually drained |
| Kafka transport (`transport/kafka`) | committed offset (in the broker) | publish, save_and_commit | broker, inbox store | crash between save and commit; out-of-order commits | no committed offset passes an unstored message; what is valid is stored in the end |
| HTTP transport (`transport/http`) | none | publish, classify_response, endpoint | HTTP client/server, inbox store | retryable vs terminal classification; late and repeated requests | published means received, one inbox row, metadata survives, transient failures are retried |
| Worker loop (`examples/worker_loop.py`) | none | run_loop | outbox runner | a publisher that raises, in the long run | every row settles |
| Message model, errors, config, schema, migrations, dialect helpers | immutable values, DDL | validation | | | |

Interactions. Applications call `append` in their own transaction and commit or
roll back. Workers call `run_once` in a loop (a poll loop, or `WakeupRunner`).
`run_once` reads the clock once, runs `reclaim_expired` and `claim_ready` in one
transaction, and then, per claimed row, calls the publisher outside any
transaction and records the result in a transaction of its own. Workers
exclude each other by row locks while a transaction is open and by
`lease_until` afterwards. On the other side a transport
(`HttpInboxEndpoint`, `KafkaInboxConsumer`) stores each message with
`save_received` in a transaction of its own, and inbox workers run the same kind
of pass with a stale filter, an idempotency hook and a handler in the
publisher's place.

## 2. Modules

| Module | Models | Role |
|---|---|---|
| `Retry` | `_retry.py`, `RetryPolicy` | backoff and attempt ceiling, as operators |
| `OutboxStore` | `outbox/store.py`, `outbox/model.py`, table `outbox_message` | the row and each SQL statement as a function of the table |
| `OutboxRunner` | `outbox/runner.py`, `PublisherRegistry.publish` | the state machine: applications, workers, the clock; properties |
| `OutboxInvariant` | (no code) | the inductive invariant |
| `OutboxRunnerProofs` | (no code) | lemmas and theorems, the refinement included |
| `MCOutbox` | (no code) | instances for TLC |
| `Wakeup` | `outbox/wakeup.py`, migration 0003 | the wake loop of one worker; properties |
| `WakeupProofs` | (no code) | its inductive invariant, lemmas and theorems |
| `MCWakeup` | (no code) | instances for TLC |
| `LeaseQueue` | (no code) | abstract specification: what a leased queue promises its workers |
| `LeaseQueueProofs` | (no code) | its theorems |
| `OutboxRefinement` | `OutboxStatus` | the refinement mapping from `OutboxRunner` |
| `InboxStore` | `inbox/store.py` but `save_received`, `inbox/model.py`, table `inbox_message` | the row and each SQL statement as a function of the table |
| `InboxRunner` | `inbox/runner.py`, hook, filter, handler | the state machine: receivers, workers in both modes, the clock; properties |
| `InboxInvariant` | (no code) | the inductive invariant |
| `InboxRefinement` | `InboxStatus` | the refinement mapping from `InboxRunner` |
| `InboxRunnerProofs` | (no code) | lemmas and theorems, the refinement included |
| `MCInbox` | (no code) | instances for TLC |
| `InboxReceipt` | `save_received` on both dialects | concurrent receivers and their transactions; properties |
| `InboxReceiptProofs` | (no code) | its inductive invariant, lemmas and theorems |
| `MCReceipt` | (no code) | instances for TLC |
| `KafkaConsumer` | `transport/kafka/consumer.py` | composes `InboxReceipt` with processes, offsets and redelivery |
| `KafkaConsumerProofs` | (no code) | its inductive invariants, lemmas and theorems |
| `MCKafka` | (no code) | instances for TLC |
| `Message` | `message.py`, the conversions of both transports, `classify_response` | operators |
| `Delivery` | both publishers, the HTTP endpoint | one message from an outbox row to an inbox row over a lossy network |
| `DeliveryProofs` | (no code) | what the conversions yield, the inductive invariant and the theorems |
| `MCDelivery` | (no code) | the instance for TLC |
| `WorkerLoop` | `run_loop`, `run_once` in the long run | liveness of the outbox with the clock abstracted |
| `WorkerLoopProofs` | (no code) | the order in which a group is settled |
| `MCLoop` | (no code) | instances for TLC |

### State and actions

`table[m]` is the row of message `m`; a message is identified by its unique
`message_id`. `(event_type, ordering_key)` is one value `Group[m]`, because the
code only compares the pair for equality; a NULL ordering key is `NoGroup`.
`status` has two values the column does not have: `absent` (no row) and `open`
(inserted by a transaction that has not committed, so no other session sees it).

Per worker: `pc` is the place in `run_once`, `now` its local variable,
`reclaimed` and `claiming` the rows its open transaction has updated (and
therefore locked), `candidates` the rows the claim query's WHERE clause selected,
`claimed_rows` the claimed rows not yet settled, `seen` their `attempts` as
claimed, `row` and `outcome` the loop variables.

| Action | Code |
|---|---|
| `Append`, `CommitAppend`, `RollbackAppend` | `OutboxStore.append` inside the caller's transaction, and its end |
| `RunOnce` | `now = _utcnow()`, runner.py:44 |
| `ReclaimExpired` | `reclaim_expired`: an UPDATE that waits for locked rows |
| `ClaimSnapshot`, `ClaimReady` | `claim_ready`: evaluation of WHERE on a snapshot, then locking with SKIP LOCKED, re-check, LIMIT, UPDATE |
| `CommitClaim` | end of `async with engine.begin()`, runner.py:45-47 |
| `Publish` | `self._publishers.publish(row)` returns an outcome |
| `PublishRaises` | it raises: RoutingError, or an exception of the publisher |
| `MarkPublished`, `MarkRetry`, `MarkFailed` | runner.py:53-75 with the store's UPDATE |
| `Crash` | the process dies or its connection is lost, at any point |
| `Tick` | time passes |

Why these steps. Under READ COMMITTED, a statement sees what was committed when
it started, plus its own transaction's writes. `UPDATE` waits for a locked row
and re-evaluates its WHERE clause on the newest version; the model lets
`ReclaimExpired` happen when none of the rows is locked. `FOR UPDATE SKIP LOCKED`
skips locked rows and re-checks the conditions on the row itself, but the
sub-query of the FIFO gate keeps the statement's snapshot; hence two steps, and
`Lockable` re-checks `Ready` and not `PassesFifoGate`. The MySQL variant runs a
SELECT ... FOR UPDATE SKIP LOCKED and an UPDATE of the selected rows, which hold
their locks in between: the same two steps, except for the rows committed after
the snapshot (section 5). A `mark_*` transaction is one
single-row UPDATE, one step that waits for the lock. The clock that
`handle_retryable_failure` is given is read before that wait, hence the choice
of `t` in `MarkRetry`.

`delivered`, `rejected`, `late` and `overrun` are history variables. `overrun`
becomes true when a pass is still running after `now + lease_duration`. Many
properties hold only while it is false: that is the assumption the library
makes of its users (the lease must outlast a pass), and `MCOutboxLease` shows
what happens without it.

### The wake loop

`Wakeup` sees the outbox as `WakeupRunner` does: `queue` are the rows a pass
could claim, `scheduled` those that become claimable later without a signal
(behind an older row of their group, in a backoff, under a lease nobody will
settle). `local` and `notified` are the two `asyncio.Event`s, `recent` is
`_last_notified` within `coalesce_interval`, `listener` the dedicated
connection, `inflight` a NOTIFY on its way, `interval` the fallback interval,
`loop`, `passes` and `found_work` the loop itself. `woken`, `rung` and `capped`
are history variables.

| Action | Code |
|---|---|
| `Commit`, `Wake` | commit of an append with migration 0003's trigger; `LocalWakeup.wake` |
| `Notify`, `ExecuteNotify`, `CoalesceElapses` | `CoalescedNotifier.notify` before and after its await; its window |
| `ApplicationDies` | the application ends between its commit and its signals |
| `EnsureListener`, `OnNotify`, `ListenerDies`, `ListenerFails` | `PostgresWakeListener` |
| `WaitForWake`, `Timeout` | the two ways `_wait_for_wake` returns |
| `DrainPass`, `DrainEmpty`, `DrainEnds` | `_drain` and the end of an iteration of `run` |
| `DrainRaises`, `Cancel` | the two ways `run` ends, with `aclose` |
| `OtherWorkerClaims`, `OtherWorkerDies`, `BecomesDue` | the rest of the outbox |

asyncio is cooperative, so the code between two awaits is one step. A waiter
that completes clears its event; a waiter that `_wait_for_wake` cancels gets
CancelledError and leaves its event set, even if the event was set in the same
iteration of the event loop: hence the choices in `WaitForWake`. LISTEN is
issued by the first wait only, and may be cut off by a signal or the timeout
before it is complete. A pass is one step here (`OutboxRunner` has its
statements); what a pass interrupted by an exception or a cancellation had
claimed goes to `scheduled`.

### The lease queue

`LeaseQueue` says in five kinds of step what both tables are for: an item is
put, taken, and then finished, returned or given up; `hands[c]` are the items a
consumer works on and `kept` says that no consumer has outlived its lease. While
`kept` holds, `Take` may take over only items nobody has in hand, and `Return`
only items with attempts left. Afterwards anything held may be taken again and
late consumers overwrite results: this is what the code does, and the
specification says so instead of hiding it. The mapping reads `state` off the
`status` column (`QueueState`), `tries` off `attempts`, takes `claimed_rows` for
`hands` and `~overrun` for `kept`. A transaction in progress maps to its state
before the transaction, so statements, snapshots, locks, publishing and handling
are stuttering steps; the commit of a claim is a `Take`, which includes what
`reclaim_expired` did.

### The inbox

`InboxRunner` has the claim transaction of `OutboxRunner` with three
differences. A worker in `Unordered` uses `claim_ready_unordered`, which has no
FIFO gate, on the same table as FIFO workers. The rows of a batch go through
`Evaluate` (stale filter in unordered mode, then the idempotency hook), `Handle`
and a `mark_*`, with an await between each. And receivers appear: `Receive`,
`CommitReceive`, `RollbackReceive` for a new message, `ReceiveAgain` and
`EndReceiveAgain` for a duplicate, whose upsert (`SET source = source`) changes
nothing and yet locks the row until its transaction ends.

Filters, hooks and handlers belong to the application and may answer anything,
with one exception: for messages in `ExactHook` the hook knows whether the
effect has been applied. A handler may apply its effect and still report a
failure of either kind, or raise; so may a publisher. `effects`, `dropped`, `rejected`, `late` and
`overrun` are history variables.

`InboxReceipt` is `save_received` itself. `inserting[r]` are the keys the open
transaction of receiver `r` has inserted, `duplicates[r]` those it was told are
duplicates (a key it saves twice is in both: the second call meets the row of
its own transaction), `reading[r]` the key whose row is about to be read back and
`snapshot[r]` what its plain SELECTs see. On PostgreSQL the upsert is one
statement. On MySQL `INSERT IGNORE` and the read-back are two, and under
REPEATABLE READ the read-back sees the snapshot of the first read of the
transaction: `ReadBefore` is a caller that reads first. `Alone` are the
receivers whose transaction is a single `save_received`, which is what the Kafka
consumer and the HTTP endpoint do. `Entry` maps a key to its entry of the unique
index (two keys may share one under a MySQL collation) and `TooLong` are keys
that do not fit `VARCHAR(255)`.

### The transports

`KafkaConsumer` extends `InboxReceipt`: each task is a receiver that consumes
the message at its process's position, stores it (`Save`, `CommitSave`) and then
commits its offset (`CommitOffset`). A process starts at the committed offset;
any exception and any crash ends it and rolls its transactions back (`Stop`).
`Log` gives, per offset, the message id, `NoId` (the consumer falls back to
topic:partition:offset) or `Invalid`.

`Message` has the conversions as operators on headers, with `None`, empty and
blank values told apart: `build_request`/`from_headers` for HTTP,
`build_message`/`to_envelope` for Kafka, `validate`, `classify_response`.
`Delivery` sends one record with them. `endpoint` are the headers of the
`HttpEndpoint` the record is routed to. `build_request` starts from them and they
may have any name, the reserved ones included. An attempt may fail at the publisher
although its request arrives, possibly after a later attempt; an answer may be
lost; a proxy may answer; a broker's acknowledgement may be lost.

### The worker loop

`WorkerLoop` is one worker in `run_loop` with the clock abstracted: `ripe` are
rows whose lease or backoff is over, `batch` the claimed rows not yet settled.
`Raise` is a publisher that raises: the pass ends and the whole rest of the
batch stays in `processing`. Rows are numbered by `created_at`.

## 3. Runs

`MCOutbox.cfg` (`outbox_safety`): two workers (symmetric), two messages in one
group, batch size 2, lease 1, clock 0..2, two attempts. Two workers are needed
for every race here and a third adds no new kind of step; two messages give a
FIFO pair and a batch of more than one. Clock 0..2 with lease 1 lets a lease
expire, be reclaimed and run again, and lets a retry become due; the theorems
remove the bounds. About 2.1 million states.

| Property | Says |
|---|---|
| `NoDoubleClaim` | no row in two workers' hands while leases are kept |
| `FifoPerGroup` | a claimed row has no older unsettled row in its group, except rows committed late |
| `SettledIsFinal` | published and failed rows are not written again while leases are kept |
| `AttemptsWithinCeiling` | attempts never exceed `max_attempts` while leases are kept |
| `BackoffRespected` | a claim never precedes `available_at`, in spite of the stale snapshot |
| `PublishedWasDelivered` | published implies delivered, unconditionally |
| `FailedIsJustified` | failed implies rejected or out of attempts, unconditionally |
| `NothingStranded` | every unsettled row becomes claimable within a bounded time, unconditionally |
| `IInv` | the inductive invariant of the proofs |
| `TypeOK` | types |

`MCOutboxLiveness.cfg` (`outbox_liveness`): `ImplementsLeaseQueue`, rows change
hands only as `LeaseQueue` allows, also after an overrun, and `PassTerminates`,
every pass ends.
Lease 0 makes workers contend for expired rows at once. The fairness is strong
fairness of each worker's next step: a started pass keeps running (or dies), and
a session that waits for a row lock stands in the database's queue, so it is not
overtaken forever by sessions that lock and release the row again and again.
Under weak fairness the property fails for exactly that reason. Nothing is
assumed of applications, of crashes or of the clock. One message has no
publisher, so that passes also end by RoutingError.

`MCWakeup.cfg` (`wakeup`): two rows, two attempts, batch size 1, drain cap 2,
coalesced mode (the library's default) with the local signal. With a retry a
drain reaches the cap while another row, announced before, is left, so the
exception in `SignalsAreHonoured` is needed; coalescing drops NOTIFYs. About
387 000 states. `SignalsAreHonoured`: a row announced by `wake()` or NOTIFY is
never left claimable with its signal used up, unless the drain was capped.
Clearing the events after the drain instead of before it breaks it.
`EveryRowIsClaimed`: a claimable row is claimed as long as the loop has not
ended. The fairness is weak fairness of the wake loop's own step: the event loop
of a live worker runs and its timers fire. Nothing is assumed of applications,
of NOTIFY, of the listener's connection, of other workers or of backoffs. The
fallback timeout is what makes it true: without it while a listener exists, a
dead connection is enough to leave a row forever. `CHECK_DEADLOCK FALSE`: a
cancelled loop with nothing left to claim may stop for good.

`MCInbox.cfg` (`inbox`): one FIFO and one unordered worker, one message with an
exact hook, lease 0, clock 0..2, two attempts: long enough for a message to be
handled, lost by a crash, reclaimed by the other worker and recognised by the
hook, for a retry, and for a lease to be outlived; lease 0 makes the workers
contend for expired rows at once. About 219 000 states.
`MCInboxFifo.cfg` (`inbox_fifo`): the same workers and two messages of one group,
lease 1, clock 0..1, about 1.6 million states.

| Property | Says |
|---|---|
| `EffectAtMostOnce` | with an exact hook a message has one effect while leases are kept, in spite of crashes between effect and mark |
| `ProcessedIsJustified` | processed implies an effect, or a decision to drop the row, unconditionally |
| `FailedIsJustified`, `NothingStranded` | as for the outbox |
| `ImplementsLeaseQueue` | both claim modes together implement `LeaseQueue`; no receipt changes a stored row |
| `FifoPerGroup` | a FIFO worker's rows have no older unsettled row in their group, with unordered workers beside it |
| `IInv` | the inductive invariant of the proofs, types included, in both runs |

`PassTerminates` in the same run: strong fairness of each worker's step, for the
reason given for the outbox, and weak fairness of `EndReceiveAgain`, since a
receiver's transaction ends. Workers wait for receivers and for each other. A
pass that leaves its transaction open breaks it.

`MCReceipt.cfg` (`receipt`, about 16 000 states): MySQL at REPEATABLE READ, two
messages and three receivers, so that one can wait while another rolls back and
a third inserts; PostgreSQL, with fewer steps, is left to the proofs.
`InsertedExactlyOnce`: a stored row was reported as inserted by exactly one
committed transaction. `DuplicateIsDurable`: a receiver is told "duplicate" only
of a row of the same message that is committed, or that its own transaction has
inserted and will commit or roll back with it. `ReadBackFindsRow`: the read-back of the
MySQL path finds its row, except in a transaction that has read before it under
REPEATABLE READ; the Kafka consumer and the HTTP endpoint are therefore safe,
and an application that calls `save_received` after a read of its own is not:
`.one()` raises `NoResultFound` and its transaction is rolled back.

`MCKafka.cfg` (`kafka`, about 5 800 states): two processes of one task each, both
consuming the partition as around a rebalance, up to three crashes, a log with a
repeated id, a missing id and an invalid message, and one id that is too long
for its MySQL column. `CommittedIsStored`: no committed offset passes a message
that is not stored, although a slower process may commit a lower offset after a
higher one. `StorablePrefixIsStored`: everything before the first message that
cannot be stored is stored and committed in the end, under weak fairness of
`Start` (processes are restarted) and strong fairness of each task's next step
(its loop runs, and the lock queue of the database is fair). The bound on
crashes is what makes progress possible at all. `CHECK_DEADLOCK FALSE`: at the
end of the log consumers wait.

`MCDelivery.cfg` (`delivery`, about 101 000 states): every record whose optional
fields are set or not and whose headers carry none, a forwarded or a blank value
under the reserved names, over Kafka and to three kinds of HTTP endpoint: one
with no reserved header, one with every reserved header, one with a blank
ordering key. Two attempts.

| Property | Says |
|---|---|
| `PublishedIsReceived` | published implies that the receiver, or the broker, has the message |
| `OneInboxRow` | repeated and late attempts leave one inbox row |
| `MetadataSurvives` | the inbox row has the record's metadata; an unset field takes over a header of its reserved name, the record's or else (over HTTP) the endpoint's, and that is the only difference |
| `AcceptedIsNotRefused` | what the outbox accepts the inbox accepts, except when a message without an ordering key takes over a blank one from such a header |
| `TransientIsRetried` | a row fails only when refused, turned down for good, or out of attempts |

`MCLoop.cfg` (`loop`, about 3 800 states): four rows, two of one group, batches
of one, three attempts, and a publisher that raises for the youngest row:
`EveryRowSettles`, every other row is published or given up in the end, and
`SettledInOrder`. The fairness is that the loop runs, awaits return, and leases
and backoffs end.

Three runs expect a violation; each contradicts a sentence of the repository.

- `MCOutboxLease.cfg`, `LeasedToOneWorker` (docs/operations.md:118): worker 1
  claims a row and is slow; its lease expires; worker 2 reclaims and claims the
  row; worker 1 now records a retryable failure, which resets worker 2's lease
  because `mark_retry` has no condition but the id; the row is claimed again
  while worker 2's lease is running.
- `MCReceiptCollation.cfg`, `DuplicateIsDurable` (inbox/store.py:159): on MySQL,
  two ids that the collation takes for equal share one entry of the unique
  index; the second message is reported as a duplicate and stored nowhere.
- `MCLoopRaising.cfg`, `EveryRowSettles` (docs/operations.md:130 and :135): a row
  whose publisher always raises is claimed again forever without its attempts
  being counted, and in a batch of two ends each pass before the healthy row of
  its batch is sent.

The exceptions that the passing properties make are of the same kind; TLC shows
each of them to be necessary when it is left out.

- `late` in `FifoPerGroup`: `created_at` is taken when `append` runs, so a row
  appended first and committed second is overtaken (README.md:11 promises FIFO
  within a key).
- `overrun` in `AttemptsWithinCeiling`: after an expired lease two workers hold
  the row with the same claimed `attempts` and each records a result; the stored
  attempts reach `max_attempts` and the row may be pending (docs/operations.md:121
  says it moves to `failed`).
- `capped` in `SignalsAreHonoured`: a drain stops after `_MAX_PASSES_PER_WAKE`
  passes with rows left, which wait for the next signal or the fallback timeout
  (wakeup.py:185 says "drained until empty").
- `loop = "stopped"` in `EveryRowIsClaimed`: an exception of one pass ends the
  worker's loop (wakeup.py:183 says "Loop until cancelled").
- `TooLong` in `StorablePrefixIsStored`: on MySQL `INSERT IGNORE` truncates an id
  longer than 255 characters; when the message is replayed after a crash, the
  read-back looks for the full id, raises, and the partition stays where it is
  (docs/kafka.md:51 says the replay is deduplicated).
- One task per process in `MCKafka`: with `Owner` mapping both tasks to one
  process, two calls of `save_and_commit` are in flight, a higher offset is
  committed while a lower message is not stored, and a crash loses it
  (docs/kafka.md:50); neither the class nor its documentation forbids it.

## 4. Proofs

`OutboxRunnerProofs` proves, for every set of workers and messages, every
grouping, every retry policy, lease and batch size:
`TypeCorrect`, `InvariantHolds`, `NoDoubleClaimHolds`, `FifoPerGroupHolds`,
`SettledIsFinalHolds`, `AttemptsWithinCeilingHolds`, `BackoffRespectedHolds`,
`PublishedWasDeliveredHolds`, `FailedIsJustifiedHolds`, `NothingStrandedHolds`.

Assumptions: `RetryPolicyAssumption` (positive `max_attempts` and multiplier,
natural intervals; that powers of the multiplier are natural numbers is stated
because the provers know no theory of exponentiation), `StoreAssumption`,
`RunnerAssumption`. TLC evaluates all three on every run.

The argument. None of the properties is inductive. `IInv` adds:

- `PhaseInv`: what a worker can have in memory at each point of `run_once`;
- `LockInv`: row locks are exclusive, and a locked row still satisfies the
  condition its UPDATE selected it by, because nobody else can write it;
- `StoredInv`: rows in hand are committed, so an append cannot touch them;
- `ResultInv`: an outcome in hand has really happened, and `seen` never exceeds
  the stored attempts;
- `LeaseInv`: while no lease is outlived, a claimed row is in `processing` with
  the very lease its worker took, and `seen` is exact. A row in `reclaimed[v]`
  has a lease that ended before `now[v]`, and a pass within its lease has one
  that ends no earlier than the clock: the two exclude each other, and this is
  why `lease_until < now` must be strict;
- `GateInv`: the verdict of the FIFO gate outlives its snapshot, since settled
  rows are final while leases hold and a row that becomes visible later is
  `late`.

Each action has a lemma that it preserves `IInv`; the three marks share one
(`InvMark`), as do append and rollback (`InvUncommitted`) and all early ends of
a pass (`InvLeavePass`). `GateFrame` and `LockFrame` are the frame conditions
for the two conjuncts that quantify over other workers.

`WakeupProofs` proves `WakeupTypeCorrect` and `SignalsAreHonouredHolds` from
`WakeupAssumption`, for every set of rows and every policy. `SignalsAreHonoured`
alone is not inductive: a row that becomes claimable must not bring an old
announcement with it. `RowInv` adds that announced rows are claimable ones, that
a row is in one place at most and that uncommitted rows are in none; `PassInv`
bounds the passes of a running drain.

`OutboxRunnerProofs` also proves `OutboxImplementsLeaseQueue`, that is
`Spec => ImplementsLeaseQueue`, from `IInv` and the same assumptions. Each
action has a step: it is a named step of `LeaseQueue`, or leaves the mapped
variables alone. `LockInv` gives that reclaimed rows are `processing` and claimed
ones waiting when the claim commits, `LeaseInv` that rows reclaimed while leases
are kept are in nobody's hands and that `seen` equals the stored attempts, which
is what the guard of `Return` needs.

`LeaseQueueProofs` proves of the abstract queue, for every set of items and
consumers, `TypeCorrect`, `ExclusiveHolds` and `SettledIsFinalHolds`. With the
refinements they hold for the outbox once more and for the inbox, by an argument
that knows nothing of SQL.

`InboxRunnerProofs` proves, for every set of messages and workers, FIFO and
unordered in any mix, every grouping, policy, lease and batch size:
`InvariantHolds`, `InboxTypeCorrect`, `EffectAtMostOnceHolds`,
`FifoPerGroupHolds`, `ProcessedIsJustifiedHolds`, `FailedIsJustifiedHolds`,
`NothingStrandedHolds` and `InboxImplementsLeaseQueue`. `IInv` of
`InboxInvariant` has the conjuncts of the outbox's, with three differences.
Receivers of a duplicate hold row locks as well, so `LockInv` keeps them apart
from the workers'. `GateInv` speaks of FIFO workers only: an unordered worker may
take a row out of turn, but it cannot unsettle an older one. `EffectInv` is new:
while leases are kept, a message with an exact hook has at most one effect, and
none while its worker stands between `evaluate` and `handle`. The hook's answer
is a check that is acted on later; it stays true because `LeaseInv` gives the row
to one worker at a time, and a handler runs only on a row in hand.

`InboxReceiptProofs` proves `ReceiptTypeCorrect`, `InsertedExactlyOnceHolds` and
`DuplicateIsDurableHolds`, for every number of receivers and messages, both
dialects and both isolation levels, with transactions that may save a message
more than once, from `ReceiptAssumption`; the last one assumes besides that
`Entry` is injective, which `MCReceiptCollation.cfg` shows to be necessary. `InsertedExactlyOnce` is not inductive: two transactions that
have both inserted a key would count it twice. `ReceiptInv` adds
`DisjointInserts`, that no two open transactions have inserted one key, which is
what the wait in the unique index is for. `ReadBackFindsRowHolds` is proved
under the hypothesis `TooLong = {}`: an id that is cut off by its column is not
found by the read-back, which is the exception of `StorablePrefixIsStored`
above. `ReadBackInv` adds that the row being read back is committed or the
transaction's own, that snapshots exist under REPEATABLE READ only, and that a transaction which is
only one `save_received` has none when its read-back starts.

`KafkaConsumerProofs` composes that invariant with the consumers. For every log
and any number of processes, tasks and crashes it proves `KafkaTypeCorrect` and
`ConsumedExactlyOnce` (`InsertedExactlyOnce` of the composition), and
`CommittedIsStoredHolds` under two hypotheses: one task per process, and ids that
differ to the index when they differ. Section 3 shows what happens without the
first; without the second, `MCReceiptCollation.cfg` reports a duplicate that is
stored nowhere, and the consumer commits past it.
`CommittedIsStored` is not inductive. `LoopInv` adds, for a process whose tasks
are free, that everything below its position is stored; for a task that is
saving, everything below its offset and nothing inserted but its own message;
for a task that is committing, its own message as well. The last step
uses `DuplicateIsDurable`: a duplicate lets the consumer go on to the commit, so
it must be stored, before it or with it. `KafkaAssumption` says besides what a log entry is and that
the id `topic:partition:offset` that stands in for a missing one is a key.

`DeliveryProofs` proves every invariant of `Delivery`, for every set of records,
header values and proxy answers, from `DeliveryAssumption`,
`RetryPolicyAssumption` and `NoneAssumption` (None is neither a string nor
metadata). Nothing is assumed of the headers of records and endpoints but that
they are headers. `RequestCarries` and `MessageCarries` say what the two
conversions send under a reserved name: the field, or, if it is not set, the
record's header of that name, or, over HTTP, the endpoint's. `SentIsValid` says
when that passes validation, and `IncomingCarries` follows it through
`from_headers` and `to_envelope`: what the receiver reads carries the record, and
a blank ordering key taken over from a header is the only reason to refuse it. `DeliveryInv` adds
`ProgressInv`, a publish in progress belongs to a pending row with attempts left,
so that a late answer cannot settle a row twice, and `InboxInv`, every inbox row
carries the record, so that a second receipt has the `message_id` of the first.

`WorkerLoopProofs` proves `SettledInOrderHolds` for every set of rows, grouping,
batch size and set of raising publishers. `LoopInv` adds that what is ripe or
claimed is unsettled, so that a claim never rewrites a settled row, and that
everything ahead of a claimed row is settled for as long as the batch lasts.
Only one worker runs in this model; `FifoPerGroup` is the property of several.

The inductive invariants `IInv` of both runners are invariants of the runs.
The others were checked by TLC on the instances of section 3 before they were
proved.

Only model-checked: everything that is liveness (`PassTerminates`,
`EveryRowIsClaimed`, `StorablePrefixIsStored`, `EveryRowSettles`), which needs
fairness and ENABLED and is outside the prover's reach; the three violations; and
the necessity of each exception in section 3. Every invariant, every action
property and both refinements of the runs are proved, three of them under the
hypotheses named above (`DuplicateIsDurable`, `ReadBackFindsRow`,
`CommittedIsStored`).

## 5. Not modelled

- Clock skew between hosts: all workers read one clock.
- The order in which a multi-row UPDATE acquires its locks, and the database's
  deadlock detector: a statement locks all its rows in one step. A transaction
  the detector aborts is a `Crash` of its pass.
- On MySQL, rows committed between the snapshot of the claim query and its
  locks. The locking SELECT reads the newest committed rows, while its NOT EXISTS
  sub-query is a consistent read: a row committed in between may be a candidate
  there, judged by a gate that does not see an older row committed in between as
  well. In the models the candidates are rows of the snapshot, as on PostgreSQL,
  so `FifoPerGroup` says nothing of that window on MySQL. The other properties do
  not depend on the gate.
- `max_attempts` is stored per row at append; here it is one constant.
- Float arithmetic of the backoff, and the unused `jitter_factor`.
- Columns nothing reads back, `RunSummary`, logging.
- Registration of publishers while workers run: `Routable` and `Raising` are
  constant.
- Durations in `Wakeup`, and a `WakeupPolicy.channel` other than `outbox_wake`:
  the trigger of migration 0003 notifies that fixed channel, so with another one
  every NOTIFY is lost, which `ListenerDies` covers.
- `WakeupRunner` with a disabled policy, which raises before the loop starts.
- Payloads, JSON and UTF-8 errors, `occurred_at`, `requires_ordering_key` (no
  code sets it), topic and endpoint routing, and the broker.
- HTTP headers that differ only in the case of their names: which one the
  receiver keeps depends on the order in which the HTTP libraries send and merge
  them.
- The migrations, which are declarative DDL: their columns, unique key and
  column widths are reflected in the rows and in `TakenByOthers`, `Entry` and
  `TooLong`; and dialect detection and time zone conversion, which keep no
  state.
- The `mark_*` methods of the in-memory models, which the stores do not use.
- Kafka's assignment protocol: a rebalance is two processes that consume one
  partition, without fencing of the old one.

## 6. Plan

1. Finality of inbox rows as an action property of `InboxRunner`, from
   `LeaseInv`, and the theorems of `LeaseQueue` carried over to both runners
   through the refinements.
2. The step property behind `PassTerminates`, which is within the prover's
   reach: a pass gets shorter with each of its worker's steps.
3. A theorem for `ReadBackFindsRow` that allows ids too long for their column and
   says exactly which receipts fail.
