---------------------------- MODULE OutboxRunner ----------------------------
(***************************************************************************)
(* Outbox workers, each looping over OutboxRunner.run_once                 *)
(* (pactix/outbox/runner.py), next to applications appending rows.         *)
(*                                                                         *)
(* Granularity.  run_once reads the clock once, then runs reclaim_expired  *)
(* and claim_ready in one transaction, then publishes each claimed row     *)
(* outside any transaction and records each result in a transaction of its *)
(* own.  The model has one step per database statement: rows written by a  *)
(* transaction stay locked and unseen by other sessions until it commits.  *)
(* The claim statement is two steps, because READ COMMITTED evaluates its  *)
(* WHERE clause (the FIFO gate included) on a snapshot taken when the      *)
(* statement starts, and only then locks rows with SKIP LOCKED, re-checking*)
(* the newest version of each row it locks.  A mark_* transaction is one   *)
(* single-row UPDATE, hence one step, which waits for the row's lock.      *)
(*                                                                         *)
(* A pass may end at any point: the process dies, or an exception (no      *)
(* publisher registered, a publisher that raises, a lost connection)       *)
(* leaves run_once.  The database rolls back what was not committed.       *)
(***************************************************************************)
EXTENDS OutboxStore

CONSTANTS Workers,   \* concurrent outbox workers
          Routable,  \* messages whose event_type resolves to a publisher
          NoRow,     \* a worker has no row in hand
          MaxClock   \* bound: the clock stops here

ASSUME RunnerAssumption ==
    /\ Routable \subseteq Messages
    /\ NoRow \notin Messages
    /\ MaxClock \in Nat

VARIABLES
    table,         \* outbox_message, as committed (plus "open" inserts)
    clock,         \* the time every _utcnow() reads
    pc,            \* where each worker is in run_once
    now,           \* run_once's `now'
    reclaimed,     \* rows the open transaction has reclaimed, uncommitted
    candidates,    \* rows the claim query's WHERE selected from its snapshot
    claiming,      \* rows the open transaction has claimed, uncommitted
    claimed_rows,  \* committed claims this pass has not settled yet
    seen,          \* attempts of each claimed row, as RETURNING reported it
    row,           \* the row being published or marked
    outcome        \* PublishOutcome.kind of that row

\* History, read by no action.
VARIABLES
    delivered,     \* messages a publisher got through to the transport
    rejected,      \* messages a publisher reported terminal
    late,          \* rows committed after a younger row of their group
    overrun        \* some pass has outlived the lease it took

dbVars == <<table, clock>>
txVars == <<reclaimed, candidates, claiming>>
passVars == <<claimed_rows, seen, row, outcome>>
ghostVars == <<delivered, rejected, late, overrun>>
vars == <<table, clock, pc, now, reclaimed, candidates, claiming,
          claimed_rows, seen, row, outcome,
          delivered, rejected, late, overrun>>

PC == {"idle", "begin", "select", "lock", "commit", "publish", "mark"}
Outcome == {"published", "retryable", "terminal"}

Init ==
    /\ table = [m \in Messages |-> AbsentRow]
    /\ clock = 0
    /\ pc = [w \in Workers |-> "idle"]
    /\ now = [w \in Workers |-> 0]
    /\ reclaimed = [w \in Workers |-> {}]
    /\ candidates = [w \in Workers |-> {}]
    /\ claiming = [w \in Workers |-> {}]
    /\ claimed_rows = [w \in Workers |-> {}]
    /\ seen = [w \in Workers |-> [m \in Messages |-> 0]]
    /\ row = [w \in Workers |-> NoRow]
    /\ outcome = [w \in Workers |-> "published"]
    /\ delivered = {}
    /\ rejected = {}
    /\ late = {}
    /\ overrun = FALSE

-----------------------------------------------------------------------------
(* The applications *)

\* OutboxStore.append inside the caller's transaction.
Append(m) ==
    /\ table[m].status = "absent"
    /\ table' = [table EXCEPT ![m] = AppendedRow(clock)]
    /\ UNCHANGED <<clock, pc, now, txVars, passVars, ghostVars>>

\* The caller commits; only now do other sessions see the row.
CommitAppend(m) ==
    /\ table[m].status = "open"
    /\ table' = [table EXCEPT ![m].status = "pending"]
    /\ late' = IF \E n \in Visible(table) : Older(table, m, n)
               THEN late \cup {m} ELSE late
    /\ UNCHANGED <<clock, pc, now, txVars, passVars,
                   delivered, rejected, overrun>>

\* The caller rolls back, and the row disappears with its business write.
RollbackAppend(m) ==
    /\ table[m].status = "open"
    /\ table' = [table EXCEPT ![m] = AbsentRow]
    /\ UNCHANGED <<clock, pc, now, txVars, passVars, ghostVars>>

-----------------------------------------------------------------------------
(* The claim transaction *)

\* Rows locked by the transactions of workers other than w.
LockedByOthers(w) ==
    UNION {reclaimed[v] \cup claiming[v] : v \in Workers \ {w}}

\* The table as w's own transaction sees it: committed rows and own writes.
View(w) == AfterReclaim(table, reclaimed[w])

\* now = _utcnow(), before a connection has been obtained.
RunOnce(w) ==
    /\ pc[w] = "idle"
    /\ pc' = [pc EXCEPT ![w] = "begin"]
    /\ now' = [now EXCEPT ![w] = clock]
    /\ UNCHANGED <<dbVars, txVars, passVars, ghostVars>>

\* Mutant of ReclaimExpired: does not wait for rows locked by others.
ReclaimExpired_NoWait(w) ==
    /\ pc[w] = "begin"
    /\ reclaimed' = [reclaimed EXCEPT ![w] = Expired(table, now[w])]
    /\ pc' = [pc EXCEPT ![w] = "select"]
    /\ UNCHANGED <<dbVars, now, candidates, claiming, passVars, ghostVars>>

\* reclaim_expired: a plain UPDATE, which waits for locked rows.
ReclaimExpired(w) ==
    /\ pc[w] = "begin"
    /\ Expired(table, now[w]) \cap LockedByOthers(w) = {}
    /\ reclaimed' = [reclaimed EXCEPT ![w] = Expired(table, now[w])]
    /\ pc' = [pc EXCEPT ![w] = "select"]
    /\ UNCHANGED <<dbVars, now, candidates, claiming, passVars, ghostVars>>

\* claim_ready starts: its WHERE clause is evaluated on this snapshot.
ClaimSnapshot(w) ==
    /\ pc[w] = "select"
    /\ candidates' = [candidates EXCEPT ![w] = Claimable(View(w), now[w])]
    /\ pc' = [pc EXCEPT ![w] = "lock"]
    /\ UNCHANGED <<dbVars, now, reclaimed, claiming, passVars, ghostVars>>

\* Mutants of Lockable: locked rows are not skipped; the newest version of a
\* row is not re-checked.
Lockable_NoSkipLocked(w) == candidates[w] \cap Ready(View(w), now[w])
Lockable_NoRecheck(w) == candidates[w] \ LockedByOthers(w)

\* FOR UPDATE SKIP LOCKED: candidates that are not locked and whose newest
\* version still matches the row's own conditions.  The gate's sub-query is
\* not evaluated again.  Candidates are rows of the snapshot, as on PostgreSQL;
\* MySQL may add rows committed since.
Lockable(w) ==
    (candidates[w] \cap Ready(View(w), now[w])) \ LockedByOthers(w)

\* claim_ready locks a batch and updates it.
ClaimReady(w) ==
    /\ pc[w] = "lock"
    /\ \E batch \in SUBSET Lockable(w) :
          /\ IsOldestBatch(table, batch, Lockable(w))
          /\ claiming' = [claiming EXCEPT ![w] = batch]
    /\ candidates' = [candidates EXCEPT ![w] = {}]
    /\ pc' = [pc EXCEPT ![w] = "commit"]
    /\ UNCHANGED <<dbVars, now, reclaimed, passVars, ghostVars>>

\* The pass goes on with the rows left, or returns when there is none; its
\* local variables are then forgotten.
Resume(w, rest) ==
    /\ pc' = [pc EXCEPT ![w] = IF rest = {} THEN "idle" ELSE "publish"]
    /\ now' = [now EXCEPT ![w] = IF rest = {} THEN 0 ELSE @]

\* The transaction commits and the pass goes on with the rows it returned.
CommitClaim(w) ==
    /\ pc[w] = "commit"
    /\ table' = AfterClaim(View(w), claiming[w], now[w])
    /\ claimed_rows' = [claimed_rows EXCEPT ![w] = claiming[w]]
    /\ seen' = [seen EXCEPT ![w] =
                   [m \in Messages |-> IF m \in claiming[w]
                                       THEN table[m].attempts ELSE 0]]
    /\ reclaimed' = [reclaimed EXCEPT ![w] = {}]
    /\ claiming' = [claiming EXCEPT ![w] = {}]
    /\ Resume(w, claiming[w])
    /\ UNCHANGED <<clock, candidates, row, outcome, ghostVars>>

-----------------------------------------------------------------------------
(* Publishing and recording the result *)

\* self._publishers.publish(row) returns.  A publisher that reports success
\* has delivered; one that reports a failure, retryable or not, may have (the
\* answer was lost or came from somebody else).  RETURNING promises no order,
\* so any claimed row may be next.
Publish(w, m, result, arrived) ==
    /\ pc[w] = "publish"
    /\ m \in claimed_rows[w]
    /\ m \in Routable
    /\ result = "published" => arrived
    /\ row' = [row EXCEPT ![w] = m]
    /\ outcome' = [outcome EXCEPT ![w] = result]
    /\ delivered' = IF arrived THEN delivered \cup {m} ELSE delivered
    /\ rejected' = IF result = "terminal" THEN rejected \cup {m} ELSE rejected
    /\ pc' = [pc EXCEPT ![w] = "mark"]
    /\ UNCHANGED <<dbVars, now, txVars, claimed_rows, seen, late, overrun>>

\* Mutant of LeavePass: the transaction stays open and keeps its row locks.
LeavePass_LeaksTransaction(w) ==
    /\ Resume(w, {})
    /\ UNCHANGED <<reclaimed, candidates, claiming>>
    /\ claimed_rows' = [claimed_rows EXCEPT ![w] = {}]
    /\ seen' = [seen EXCEPT ![w] = [m \in Messages |-> 0]]
    /\ row' = [row EXCEPT ![w] = NoRow]
    /\ outcome' = [outcome EXCEPT ![w] = "published"]

\* The pass is over for w: nothing it had in memory or uncommitted survives.
LeavePass(w) ==
    /\ Resume(w, {})
    /\ reclaimed' = [reclaimed EXCEPT ![w] = {}]
    /\ candidates' = [candidates EXCEPT ![w] = {}]
    /\ claiming' = [claiming EXCEPT ![w] = {}]
    /\ claimed_rows' = [claimed_rows EXCEPT ![w] = {}]
    /\ seen' = [seen EXCEPT ![w] = [m \in Messages |-> 0]]
    /\ row' = [row EXCEPT ![w] = NoRow]
    /\ outcome' = [outcome EXCEPT ![w] = "published"]

\* resolve finds no publisher (RoutingError) or the publisher itself raises,
\* possibly after delivering.  run_once does not catch it: the rest of the
\* batch is abandoned with its leases running.
PublishRaises(w, m, arrived) ==
    /\ pc[w] = "publish"
    /\ m \in claimed_rows[w]
    /\ arrived => m \in Routable
    /\ LeavePass(w)
    /\ delivered' = IF arrived THEN delivered \cup {m} ELSE delivered
    /\ UNCHANGED <<dbVars, rejected, late, overrun>>

\* The process dies or loses its connection.
Crash(w) ==
    /\ pc[w] # "idle"
    /\ LeavePass(w)
    /\ UNCHANGED <<dbVars, ghostVars>>

\* The row in hand is recorded; the for loop takes the next one, if any.
NextRow(w) ==
    /\ claimed_rows' = [claimed_rows EXCEPT ![w] = @ \ {row[w]}]
    /\ seen' = [seen EXCEPT ![w][row[w]] = 0]
    /\ row' = [row EXCEPT ![w] = NoRow]
    /\ outcome' = [outcome EXCEPT ![w] = "published"]
    /\ Resume(w, claimed_rows[w] \ {row[w]})

\* The UPDATE of a mark_* transaction gets its row lock.
CanMark(w) == pc[w] = "mark" /\ row[w] \notin LockedByOthers(w)

\* Mutant of MarkPublished: every outcome that is not terminal is a success.
MarkPublished_AnyOutcome(w) ==
    /\ CanMark(w)
    /\ outcome[w] # "terminal"
    /\ table' = [table EXCEPT ![row[w]] = Published(@)]
    /\ NextRow(w)
    /\ UNCHANGED <<clock, txVars, ghostVars>>

\* mark_published after a successful publish.
MarkPublished(w) ==
    /\ CanMark(w)
    /\ outcome[w] = "published"
    /\ table' = [table EXCEPT ![row[w]] = Published(@)]
    /\ NextRow(w)
    /\ UNCHANGED <<clock, txVars, ghostVars>>

\* handle_retryable_failure below the ceiling, on the attempts claimed with.
\* _utcnow() is read before the UPDATE waits for the row's lock: t is any time
\* of this pass.
MarkRetry(w) ==
    /\ CanMark(w)
    /\ outcome[w] = "retryable"
    /\ ~ReachesCeiling(seen[w][row[w]])
    /\ \E t \in now[w]..clock :
          table' = [table EXCEPT ![row[w]] =
                       RetryScheduled(@, NextRetryAt(seen[w][row[w]], t))]
    /\ NextRow(w)
    /\ UNCHANGED <<clock, txVars, ghostVars>>

\* A terminal outcome, or handle_retryable_failure at the ceiling.
MarkFailed(w) ==
    /\ CanMark(w)
    /\ \/ outcome[w] = "terminal"
       \/ outcome[w] = "retryable" /\ ReachesCeiling(seen[w][row[w]])
    /\ table' = [table EXCEPT ![row[w]] = Failed(@)]
    /\ NextRow(w)
    /\ UNCHANGED <<clock, txVars, ghostVars>>

-----------------------------------------------------------------------------

\* Time passes.  A pass still running after its lease is an overrun.
Tick ==
    /\ clock < MaxClock
    /\ clock' = clock + 1
    /\ overrun' = (overrun \/ \E w \in Workers : /\ pc[w] # "idle"
                                                 /\ now[w] + LeaseDuration <= clock)
    /\ UNCHANGED <<table, pc, now, txVars, passVars, delivered, rejected, late>>

\* What w does next when it does not die.
Step(w) ==
    \/ ReclaimExpired(w)
    \/ ClaimSnapshot(w)
    \/ ClaimReady(w)
    \/ CommitClaim(w)
    \/ \E m \in Messages, result \in Outcome, arrived \in BOOLEAN :
          Publish(w, m, result, arrived)
    \/ \E m \in Messages, arrived \in BOOLEAN : PublishRaises(w, m, arrived)
    \/ MarkPublished(w)
    \/ MarkRetry(w)
    \/ MarkFailed(w)

Next ==
    \/ \E m \in Messages : Append(m) \/ CommitAppend(m) \/ RollbackAppend(m)
    \/ \E w \in Workers : RunOnce(w) \/ Step(w) \/ Crash(w)
    \/ Tick

Spec == Init /\ [][Next]_vars

\* A worker that has started a pass keeps running (or dies).  A step that
\* needs a row lock waits for it in the database's queue, and the queue hands
\* a released lock to the longest waiting session: a step that is enabled
\* again and again is not overtaken forever, which is strong fairness.
\* Nothing is assumed of applications, of crashes, or of the clock.
FairSpec == Spec /\ \A w \in Workers : SF_vars(Step(w))

-----------------------------------------------------------------------------
(* Properties *)

\* Every variable stays in its type.
TypeOK ==
    /\ table \in [Messages -> Row]
    /\ clock \in Nat
    /\ pc \in [Workers -> PC]
    /\ now \in [Workers -> Nat]
    /\ reclaimed \in [Workers -> SUBSET Messages]
    /\ candidates \in [Workers -> SUBSET Messages]
    /\ claiming \in [Workers -> SUBSET Messages]
    /\ claimed_rows \in [Workers -> SUBSET Messages]
    /\ seen \in [Workers -> [Messages -> Nat]]
    /\ row \in [Workers -> Messages \cup {NoRow}]
    /\ outcome \in [Workers -> Outcome]
    /\ delivered \subseteq Messages
    /\ rejected \subseteq Messages
    /\ late \subseteq Messages
    /\ overrun \in BOOLEAN

\* As long as no pass has outlived its lease, no row is in the hands of two
\* workers: the stale snapshot of claim_ready, SKIP LOCKED, the re-check of
\* locked rows and reclaim_expired never double-claim between them.
NoDoubleClaim ==
    ~overrun => \A v, w \in Workers :
                    v # w => claimed_rows[v] \cap claimed_rows[w] = {}

\* As long as no pass has outlived its lease, a claimed row has no older
\* unsettled row in its (event_type, ordering_key), except rows that were
\* committed after a younger one was already visible.
FifoPerGroup ==
    ~overrun => \A w \in Workers : \A m \in claimed_rows[w] :
                    \A n \in Unsettled(table) \ late : ~Older(table, n, m)

\* As long as no pass has outlived its lease, a published or failed row is
\* never written again, although mark_* updates carry no status condition.
SettledIsFinal ==
    [][~overrun => \A m \in Messages :
          table[m].status \in {"published", "failed"} => table'[m] = table[m]]_vars

\* As long as no pass has outlived its lease, no row is tried more often
\* than max_attempts, and one that has used them up is not pending again.
AttemptsWithinCeiling ==
    ~overrun => \A m \in Messages :
                    /\ table[m].attempts <= MaxAttempts
                    /\ m \in Unsettled(table) => table[m].attempts < MaxAttempts

\* A row is claimed only once its backoff is over, even when another worker
\* rescheduled it between the claim query's snapshot and its row lock.
BackoffRespected ==
    \A w \in Workers : \A m \in claiming[w] : table[m].availableAt <= now[w]

\* At-least-once: a row says published only if some publisher delivered it,
\* whatever crashed, raised, expired or was recorded twice in between.
PublishedWasDelivered ==
    \A m \in Messages : table[m].status = "published" => m \in delivered

\* A row is given up only after a terminal outcome or max_attempts attempts,
\* even when several workers recorded results for it.
FailedIsJustified ==
    \A m \in Messages :
        table[m].status = "failed" =>
            m \in rejected \/ table[m].attempts >= MaxAttempts

\* No row is stranded: one in processing expires within a lease duration and
\* one that is pending is due within the maximal backoff, so that a later
\* pass will pick it up whatever became of the worker that had it.
NothingStranded ==
    \A m \in Messages :
        /\ table[m].status = "processing" =>
              table[m].leaseUntil \in 0..(clock + LeaseDuration)
        /\ table[m].status = "pending" =>
              table[m].availableAt <= clock + MaxInterval

\* Every pass ends: workers waiting for each other's row locks, in
\* reclaim_expired and in mark_*, never wait forever.
PassTerminates ==
    \A w \in Workers : pc[w] # "idle" ~> pc[w] = "idle"

-----------------------------------------------------------------------------
(* What the documentation says and the code does not do.                   *)

\* docs/operations.md: "`processing` rows are leased to one worker until
\* `lease_until`."  Two workers never hold a row under unexpired leases.
LeasedToOneWorker ==
    \A v, w \in Workers : \A m \in claimed_rows[v] \cap claimed_rows[w] :
        v # w => \/ now[v] + LeaseDuration < clock
                 \/ now[w] + LeaseDuration < clock
=============================================================================
