---------------------------- MODULE InboxRunner ----------------------------
(***************************************************************************)
(* Inbox workers, each looping over InboxRunner.run_once                   *)
(* (pactix/inbox/runner.py), FIFO or unordered, next to receivers that     *)
(* call InboxStore.save_received in transactions of their own.             *)
(*                                                                         *)
(* Granularity.  The claim transaction is modelled statement by statement, *)
(* as in OutboxRunner: rows it wrote are locked and unseen by others until *)
(* it commits, its claim query selects from a snapshot and then locks with *)
(* SKIP LOCKED.  Each claimed row then goes through the stale filter       *)
(* (unordered mode only), the idempotency hook, the handler and a mark_*   *)
(* transaction: three steps between which other workers run, because the   *)
(* hook's answer is only acted upon after an await.                        *)
(*                                                                         *)
(* A duplicate receipt changes no column, but ON CONFLICT DO UPDATE (and   *)
(* INSERT IGNORE) locks the existing row until the receiver's transaction  *)
(* ends; InboxReceipt models that statement among concurrent receivers.    *)
(***************************************************************************)
EXTENDS InboxStore

CONSTANTS Workers,    \* concurrent inbox workers
          Unordered,  \* those built with new_unordered
          ExactHook,  \* messages whose idempotency hook knows the effect
          NoRow,      \* a worker has no row in hand
          MaxClock    \* bound: the clock stops here

ASSUME RunnerAssumption ==
    /\ Unordered \subseteq Workers
    /\ ExactHook \subseteq Messages
    /\ NoRow \notin Messages
    /\ MaxClock \in Nat

VARIABLES
    table,         \* inbox_message, as committed (plus "open" inserts)
    clock,         \* the time every _utcnow() reads
    redelivering,  \* rows locked by a duplicate receipt not yet committed
    pc,            \* where each worker is in run_once
    now,           \* run_once's `now'
    reclaimed,     \* rows the open transaction has reclaimed, uncommitted
    candidates,    \* rows the claim query's WHERE selected from its snapshot
    claiming,      \* rows the open transaction has claimed, uncommitted
    claimed_rows,  \* committed claims this pass has not settled yet
    seen,          \* attempts of each claimed row, as it was claimed
    row,           \* the row being evaluated, handled or marked
    outcome        \* HandleOutcome.kind of that row ("processed" if dropped)

\* History, read by no action except that an exact hook reads `effects'.
VARIABLES
    effects,       \* business effects per message: none, one, or several (2)
    dropped,       \* messages found stale, skipped or already applied
    rejected,      \* messages the handler reported terminal
    late,          \* rows committed after a younger row of their group
    overrun        \* some pass has outlived the lease it took

dbVars == <<table, clock, redelivering>>
txVars == <<reclaimed, candidates, claiming>>
passVars == <<claimed_rows, seen, row, outcome>>
ghostVars == <<effects, dropped, rejected, late, overrun>>
vars == <<table, clock, redelivering, pc, now, reclaimed, candidates, claiming,
          claimed_rows, seen, row, outcome,
          effects, dropped, rejected, late, overrun>>

PC == {"idle", "begin", "select", "lock", "commit", "evaluate", "handle", "mark"}
Outcome == {"processed", "retryable", "terminal"}
Decision == {"stale", "process", "skip", "already_applied"}

Init ==
    /\ table = [m \in Messages |-> AbsentRow]
    /\ clock = 0
    /\ redelivering = {}
    /\ pc = [w \in Workers |-> "idle"]
    /\ now = [w \in Workers |-> 0]
    /\ reclaimed = [w \in Workers |-> {}]
    /\ candidates = [w \in Workers |-> {}]
    /\ claiming = [w \in Workers |-> {}]
    /\ claimed_rows = [w \in Workers |-> {}]
    /\ seen = [w \in Workers |-> [m \in Messages |-> 0]]
    /\ row = [w \in Workers |-> NoRow]
    /\ outcome = [w \in Workers |-> "processed"]
    /\ effects = [m \in Messages |-> 0]
    /\ dropped = {}
    /\ rejected = {}
    /\ late = {}
    /\ overrun = FALSE

-----------------------------------------------------------------------------
(* The receivers *)

\* Rows locked by the transactions of workers other than w or of receivers.
LockedByOthers(w) ==
    redelivering \cup UNION {reclaimed[v] \cup claiming[v] : v \in Workers \ {w}}

\* save_received of a new message, inside the receiver's transaction.
Receive(m) ==
    /\ table[m].status = "absent"
    /\ table' = [table EXCEPT ![m] = ReceivedRow(clock)]
    /\ UNCHANGED <<clock, redelivering, pc, now, txVars, passVars, ghostVars>>

CommitReceive(m) ==
    /\ table[m].status = "open"
    /\ table' = [table EXCEPT ![m].status = "pending"]
    /\ late' = IF \E n \in Visible(table) : Older(table, m, n)
               THEN late \cup {m} ELSE late
    /\ UNCHANGED <<clock, redelivering, pc, now, txVars, passVars,
                   effects, dropped, rejected, overrun>>

RollbackReceive(m) ==
    /\ table[m].status = "open"
    /\ table' = [table EXCEPT ![m] = AbsentRow]
    /\ UNCHANGED <<clock, redelivering, pc, now, txVars, passVars, ghostVars>>

\* Mutant of ReceiveAgain: the upsert writes the new record's columns.
ReceiveAgain_Overwrites(m) ==
    /\ m \in Visible(table)
    /\ m \notin redelivering \cup UNION {reclaimed[v] \cup claiming[v] : v \in Workers}
    /\ redelivering' = redelivering \cup {m}
    /\ table' = [table EXCEPT ![m] = [ReceivedRow(clock) EXCEPT !.status = "pending"]]
    /\ UNCHANGED <<clock, pc, now, txVars, passVars, ghostVars>>

\* save_received of a message that is stored: waits for the row's lock,
\* takes it, and changes nothing (SET source = source).
ReceiveAgain(m) ==
    /\ m \in Visible(table)
    /\ m \notin redelivering \cup UNION {reclaimed[v] \cup claiming[v] : v \in Workers}
    /\ redelivering' = redelivering \cup {m}
    /\ UNCHANGED <<table, clock, pc, now, txVars, passVars, ghostVars>>

\* That receiver commits or rolls back.
EndReceiveAgain(m) ==
    /\ m \in redelivering
    /\ redelivering' = redelivering \ {m}
    /\ UNCHANGED <<table, clock, pc, now, txVars, passVars, ghostVars>>

-----------------------------------------------------------------------------
(* The claim transaction *)

\* The table as w's own transaction sees it: committed rows and own writes.
View(w) == AfterReclaim(table, reclaimed[w])

\* now = _utcnow(), before a connection has been obtained.
RunOnce(w) ==
    /\ pc[w] = "idle"
    /\ pc' = [pc EXCEPT ![w] = "begin"]
    /\ now' = [now EXCEPT ![w] = clock]
    /\ UNCHANGED <<dbVars, txVars, passVars, ghostVars>>

\* Mutant of ReclaimExpired: does not wait for rows locked by others.
ReclaimExpired_NoWait(w) ==
    /\ pc[w] = "begin"
    /\ reclaimed' = [reclaimed EXCEPT ![w] = Expired(table, now[w])]
    /\ pc' = [pc EXCEPT ![w] = "select"]
    /\ UNCHANGED <<dbVars, now, candidates, claiming, passVars, ghostVars>>

\* reclaim_expired: a plain UPDATE, which waits for locked rows.
ReclaimExpired(w) ==
    /\ pc[w] = "begin"
    /\ Expired(table, now[w]) \cap LockedByOthers(w) = {}
    /\ reclaimed' = [reclaimed EXCEPT ![w] = Expired(table, now[w])]
    /\ pc' = [pc EXCEPT ![w] = "select"]
    /\ UNCHANGED <<dbVars, now, candidates, claiming, passVars, ghostVars>>

\* claim_ready or claim_ready_unordered, by the runner's mode.
Selected(w) ==
    IF w \in Unordered THEN Ready(View(w), now[w])
                       ELSE ClaimableFifo(View(w), now[w])

\* The claim query starts: its WHERE clause is evaluated on this snapshot.
ClaimSnapshot(w) ==
    /\ pc[w] = "select"
    /\ candidates' = [candidates EXCEPT ![w] = Selected(w)]
    /\ pc' = [pc EXCEPT ![w] = "lock"]
    /\ UNCHANGED <<dbVars, now, reclaimed, claiming, passVars, ghostVars>>

\* FOR UPDATE SKIP LOCKED, re-checking the row's own conditions only.
\* Candidates are rows of the snapshot, as on PostgreSQL; MySQL may add rows
\* committed since.
Lockable(w) ==
    (candidates[w] \cap Ready(View(w), now[w])) \ LockedByOthers(w)

\* The claim query locks a batch and updates it.
ClaimReady(w) ==
    /\ pc[w] = "lock"
    /\ \E batch \in SUBSET Lockable(w) :
          /\ IsOldestBatch(table, batch, Lockable(w))
          /\ claiming' = [claiming EXCEPT ![w] = batch]
    /\ candidates' = [candidates EXCEPT ![w] = {}]
    /\ pc' = [pc EXCEPT ![w] = "commit"]
    /\ UNCHANGED <<dbVars, now, reclaimed, passVars, ghostVars>>

\* The pass goes on with the rows left, or returns when there is none.
Resume(w, rest) ==
    /\ pc' = [pc EXCEPT ![w] = IF rest = {} THEN "idle" ELSE "evaluate"]
    /\ now' = [now EXCEPT ![w] = IF rest = {} THEN 0 ELSE @]

CommitClaim(w) ==
    /\ pc[w] = "commit"
    /\ table' = AfterClaim(View(w), claiming[w], now[w])
    /\ claimed_rows' = [claimed_rows EXCEPT ![w] = claiming[w]]
    /\ seen' = [seen EXCEPT ![w] =
                   [m \in Messages |-> IF m \in claiming[w]
                                       THEN table[m].attempts ELSE 0]]
    /\ reclaimed' = [reclaimed EXCEPT ![w] = {}]
    /\ claiming' = [claiming EXCEPT ![w] = {}]
    /\ Resume(w, claiming[w])
    /\ UNCHANGED <<clock, redelivering, candidates, row, outcome, ghostVars>>

-----------------------------------------------------------------------------
(* The rows of the batch *)

\* Mutant of Answers: the hook is not consulted.
Answers_ProcessAll(w, m) == {"process"}

\* What the stale filter (unordered mode only) and then the idempotency hook
\* may say.  An exact hook looks the effect up; any other hook (ProcessAll,
\* StaticIdempotency, the application's own) may say anything.
Answers(w, m) ==
    (IF w \in Unordered THEN {"stale"} ELSE {}) \cup
    (CASE m \notin ExactHook -> {"process", "skip", "already_applied"}
       [] m \in ExactHook /\ effects[m] = 0 -> {"process", "skip"}
       [] m \in ExactHook /\ effects[m] > 0 -> {"already_applied"})

\* Rows are taken in any order, RETURNING promises none.  A row that is
\* stale, skipped or already applied goes straight to mark_processed.
Evaluate(w, m, decision) ==
    /\ pc[w] = "evaluate"
    /\ m \in claimed_rows[w]
    /\ decision \in Answers(w, m)
    /\ row' = [row EXCEPT ![w] = m]
    /\ pc' = [pc EXCEPT ![w] = IF decision = "process" THEN "handle" ELSE "mark"]
    /\ dropped' = IF decision = "process" THEN dropped ELSE dropped \cup {m}
    /\ UNCHANGED <<dbVars, now, txVars, claimed_rows, seen, outcome,
                   effects, rejected, late, overrun>>

\* The handler applied the effect once more; several count as two.
Applied(m) == [effects EXCEPT ![m] = IF @ < 2 THEN @ + 1 ELSE @]

\* self._handler.handle(row) returns.  A failure, retryable or not, may have
\* happened after the effect.
Handle(w, result, applied) ==
    /\ pc[w] = "handle"
    /\ result = "processed" => applied
    /\ outcome' = [outcome EXCEPT ![w] = result]
    /\ effects' = IF applied THEN Applied(row[w]) ELSE effects
    /\ rejected' = IF result = "terminal" THEN rejected \cup {row[w]} ELSE rejected
    /\ pc' = [pc EXCEPT ![w] = "mark"]
    /\ UNCHANGED <<dbVars, now, txVars, claimed_rows, seen, row,
                   dropped, late, overrun>>

\* Mutant of LeavePass: the transaction stays open and keeps its row locks.
LeavePass_LeaksTransaction(w) ==
    /\ Resume(w, {})
    /\ UNCHANGED <<reclaimed, candidates, claiming>>
    /\ claimed_rows' = [claimed_rows EXCEPT ![w] = {}]
    /\ seen' = [seen EXCEPT ![w] = [m \in Messages |-> 0]]
    /\ row' = [row EXCEPT ![w] = NoRow]
    /\ outcome' = [outcome EXCEPT ![w] = "processed"]

\* The pass is over for w: nothing it had in memory or uncommitted survives.
LeavePass(w) ==
    /\ Resume(w, {})
    /\ reclaimed' = [reclaimed EXCEPT ![w] = {}]
    /\ candidates' = [candidates EXCEPT ![w] = {}]
    /\ claiming' = [claiming EXCEPT ![w] = {}]
    /\ claimed_rows' = [claimed_rows EXCEPT ![w] = {}]
    /\ seen' = [seen EXCEPT ![w] = [m \in Messages |-> 0]]
    /\ row' = [row EXCEPT ![w] = NoRow]
    /\ outcome' = [outcome EXCEPT ![w] = "processed"]

\* The handler raises, before or after its effect; run_once does not catch it.
HandlerRaises(w, applied) ==
    /\ pc[w] = "handle"
    /\ effects' = IF applied THEN Applied(row[w]) ELSE effects
    /\ LeavePass(w)
    /\ UNCHANGED <<dbVars, dropped, rejected, late, overrun>>

\* The process dies, loses its connection, or the filter or hook raises.
Crash(w) ==
    /\ pc[w] # "idle"
    /\ LeavePass(w)
    /\ UNCHANGED <<dbVars, ghostVars>>

\* The row in hand is recorded; the for loop takes the next one, if any.
NextRow(w) ==
    /\ claimed_rows' = [claimed_rows EXCEPT ![w] = @ \ {row[w]}]
    /\ seen' = [seen EXCEPT ![w][row[w]] = 0]
    /\ row' = [row EXCEPT ![w] = NoRow]
    /\ outcome' = [outcome EXCEPT ![w] = "processed"]
    /\ Resume(w, claimed_rows[w] \ {row[w]})

\* The UPDATE of a mark_* transaction gets its row lock.
CanMark(w) == pc[w] = "mark" /\ row[w] \notin LockedByOthers(w)

\* Mutant of MarkProcessed: every outcome that is not terminal is a success.
MarkProcessed_AnyOutcome(w) ==
    /\ CanMark(w)
    /\ outcome[w] # "terminal"
    /\ table' = [table EXCEPT ![row[w]] = Processed(@)]
    /\ NextRow(w)
    /\ UNCHANGED <<clock, redelivering, txVars, ghostVars>>

\* mark_processed, for a handled and for a dropped row.
MarkProcessed(w) ==
    /\ CanMark(w)
    /\ outcome[w] = "processed"
    /\ table' = [table EXCEPT ![row[w]] = Processed(@)]
    /\ NextRow(w)
    /\ UNCHANGED <<clock, redelivering, txVars, ghostVars>>

\* handle_retryable_failure below the ceiling; _utcnow() is read before the
\* UPDATE waits for the row's lock.
MarkRetry(w) ==
    /\ CanMark(w)
    /\ outcome[w] = "retryable"
    /\ ~ReachesCeiling(seen[w][row[w]])
    /\ \E t \in now[w]..clock :
          table' = [table EXCEPT ![row[w]] =
                       RetryScheduled(@, NextRetryAt(seen[w][row[w]], t))]
    /\ NextRow(w)
    /\ UNCHANGED <<clock, redelivering, txVars, ghostVars>>

\* A terminal outcome, or handle_retryable_failure at the ceiling.
MarkFailed(w) ==
    /\ CanMark(w)
    /\ \/ outcome[w] = "terminal"
       \/ outcome[w] = "retryable" /\ ReachesCeiling(seen[w][row[w]])
    /\ table' = [table EXCEPT ![row[w]] = Failed(@)]
    /\ NextRow(w)
    /\ UNCHANGED <<clock, redelivering, txVars, ghostVars>>

-----------------------------------------------------------------------------

\* Time passes.  A pass still running after its lease is an overrun.
Tick ==
    /\ clock < MaxClock
    /\ clock' = clock + 1
    /\ overrun' = (overrun \/ \E w \in Workers : /\ pc[w] # "idle"
                                                 /\ now[w] + LeaseDuration <= clock)
    /\ UNCHANGED <<table, redelivering, pc, now, txVars, passVars,
                   effects, dropped, rejected, late>>

\* What w does next when it does not die.
Step(w) ==
    \/ ReclaimExpired(w)
    \/ ClaimSnapshot(w)
    \/ ClaimReady(w)
    \/ CommitClaim(w)
    \/ \E m \in Messages, decision \in Decision : Evaluate(w, m, decision)
    \/ \E result \in Outcome, applied \in BOOLEAN : Handle(w, result, applied)
    \/ \E applied \in BOOLEAN : HandlerRaises(w, applied)
    \/ MarkProcessed(w)
    \/ MarkRetry(w)
    \/ MarkFailed(w)

Next ==
    \/ \E m \in Messages :
          \/ Receive(m) \/ CommitReceive(m) \/ RollbackReceive(m)
          \/ ReceiveAgain(m) \/ EndReceiveAgain(m)
    \/ \E w \in Workers : RunOnce(w) \/ Step(w) \/ Crash(w)
    \/ Tick

Spec == Init /\ [][Next]_vars

\* A worker that has started a pass keeps running or dies, and the database
\* hands a released row lock to the longest waiting session.  A receiver that
\* has stored a duplicate ends its transaction.
FairSpec ==
    /\ Spec
    /\ \A w \in Workers : SF_vars(Step(w))
    /\ \A m \in Messages : WF_vars(EndReceiveAgain(m))

-----------------------------------------------------------------------------
(* Properties *)

\* Every variable stays in its type.
TypeOK ==
    /\ table \in [Messages -> Row]
    /\ clock \in Nat
    /\ redelivering \subseteq Messages
    /\ pc \in [Workers -> PC]
    /\ now \in [Workers -> Nat]
    /\ reclaimed \in [Workers -> SUBSET Messages]
    /\ candidates \in [Workers -> SUBSET Messages]
    /\ claiming \in [Workers -> SUBSET Messages]
    /\ claimed_rows \in [Workers -> SUBSET Messages]
    /\ seen \in [Workers -> [Messages -> Nat]]
    /\ row \in [Workers -> Messages \cup {NoRow}]
    /\ outcome \in [Workers -> Outcome]
    /\ effects \in [Messages -> 0..2]
    /\ dropped \subseteq Messages
    /\ rejected \subseteq Messages
    /\ late \subseteq Messages
    /\ overrun \in BOOLEAN

\* As long as no pass has outlived its lease, a FIFO worker holds a row only
\* when no older row of its group is unsettled, although unordered workers
\* and duplicate receipts work on the same table; rows committed after a
\* younger one was visible are excepted.
FifoPerGroup ==
    ~overrun => \A w \in Workers \ Unordered : \A m \in claimed_rows[w] :
                    \A n \in Unsettled(table) \ late : ~Older(table, n, m)

\* As long as no pass has outlived its lease, an exact idempotency hook is
\* enough for one effect per message, although evaluate and handle are
\* separate awaits, a worker may die between the effect and mark_processed,
\* and the message may be received again at any time.
EffectAtMostOnce ==
    ~overrun => \A m \in ExactHook : effects[m] <= 1

\* A row says processed only if a handler applied it or the filter or the
\* hook dropped it, whoever recorded the result and however late.
ProcessedIsJustified ==
    \A m \in Messages :
        table[m].status = "processed" => effects[m] > 0 \/ m \in dropped

\* A row is given up only after a terminal outcome or max_attempts attempts,
\* even when several workers recorded results for it.
FailedIsJustified ==
    \A m \in Messages :
        table[m].status = "failed" =>
            m \in rejected \/ table[m].attempts >= MaxAttempts

\* No row is stranded: one in processing expires within a lease duration and
\* one that is pending is due within the maximal backoff.
NothingStranded ==
    \A m \in Messages :
        /\ table[m].status = "processing" =>
              table[m].leaseUntil \in 0..(clock + LeaseDuration)
        /\ table[m].status = "pending" =>
              table[m].availableAt <= clock + MaxInterval

\* Every pass ends: workers and receivers waiting for each other's row locks
\* never wait forever.
PassTerminates ==
    \A w \in Workers : pc[w] # "idle" ~> pc[w] = "idle"
=============================================================================
