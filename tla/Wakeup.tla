------------------------------- MODULE Wakeup -------------------------------
(***************************************************************************)
(* Wakeup-driven scheduling of one outbox worker (pactix/outbox/wakeup.py):*)
(* WakeupRunner.run waits for a LocalWakeup, a NOTIFY or the fallback      *)
(* timeout, and then drains the outbox by repeated run_once.               *)
(*                                                                         *)
(* The outbox itself is reduced to what the loop sees of it: which rows a  *)
(* pass could claim now (queue), and which become claimable later without  *)
(* any signal (scheduled: behind an older row of their group, in a retry's *)
(* backoff, or under a lease nobody will settle).  OutboxRunner has the    *)
(* details.  Time is abstracted: the fallback timeout may fire whenever    *)
(* the worker waits, and the coalescing window and a backoff may end at    *)
(* any time.                                                               *)
(*                                                                         *)
(* asyncio is cooperative: code between two awaits is one step.  A NOTIFY  *)
(* reaches only a session that is listening when it is sent, travels for a *)
(* while, and is lost when the listener's connection dies.                 *)
(***************************************************************************)
EXTENDS Naturals, FiniteSets

CONSTANTS Rows,                \* rows the applications append
          MaxAttempts,         \* RetryPolicy.max_attempts
          BatchSize,           \* PactixConfig.outbox_batch_size
          MaxPasses,           \* _MAX_PASSES_PER_WAKE
          NotifyMode,          \* WakeupPolicy.notify_mode
          HasLocal,            \* a LocalWakeup is shared with the applications
          FallbackInitial,     \* WakeupPolicy.fallback_initial_interval
          FallbackMax,         \* WakeupPolicy.fallback_max_interval
          FallbackMultiplier   \* WakeupPolicy.fallback_multiplier

ASSUME WakeupAssumption ==
    /\ MaxAttempts \in Nat \ {0}
    /\ BatchSize \in Nat \ {0}
    /\ MaxPasses \in Nat \ {0}
    /\ NotifyMode \in {"trigger", "coalesced", "off"}
    /\ HasLocal \in BOOLEAN
    /\ FallbackInitial \in Nat
    /\ FallbackMax \in Nat
    /\ FallbackMultiplier \in Nat

VARIABLES
    app,        \* app[r]: how far the task that appends r has come
    queue,      \* rows a pass could claim now
    scheduled,  \* rows that become claimable later, without a signal
    attempts,   \* attempts[r]: failed attempts recorded for r
    local,      \* LocalWakeup._event
    recent,     \* the last NOTIFY is within coalesce_interval
    listener,   \* PostgresWakeListener._conn: not opened, open, or dead
    inflight,   \* a NOTIFY is on its way to the listener
    notified,   \* PostgresWakeListener._event
    loop,       \* where WakeupRunner.run is
    passes,     \* passes made by the current drain
    found_work, \* some pass of the current drain claimed rows
    interval    \* FallbackBackoff._current_seconds

\* History, read by no action.
VARIABLES
    woken,      \* rows committed before a wake(), not claimed since
    rung,       \* rows committed before a NOTIFY to the open listener, not
                \* claimed since
    capped      \* the last drain ended at MaxPasses

appVars == <<app, local, recent, woken>>
outboxVars == <<queue, scheduled, attempts>>
listenerVars == <<listener, inflight, notified>>
loopVars == <<loop, passes, found_work, interval, capped>>
vars == <<app, queue, scheduled, attempts, local, recent, listener, inflight,
          notified, loop, passes, found_work, interval,
          woken, rung, capped>>

Init ==
    /\ app = [r \in Rows |-> "append"]
    /\ queue = {}
    /\ scheduled = {}
    /\ attempts = [r \in Rows |-> 0]
    /\ local = FALSE
    /\ recent = FALSE
    /\ listener = "none"
    /\ inflight = FALSE
    /\ notified = FALSE
    /\ loop = "wait"
    /\ passes = 0
    /\ found_work = FALSE
    /\ interval = FallbackInitial
    /\ woken = {}
    /\ rung = {}
    /\ capped = FALSE

-----------------------------------------------------------------------------
(* The applications *)

\* pg_notify on the policy's channel: an open listener will get it, together
\* with every row committed so far; any other notification is lost.
SendNotify(committed) ==
    IF listener = "open"
    THEN inflight' = TRUE /\ rung' = rung \cup committed
    ELSE UNCHANGED <<inflight, rung>>

\* The transaction that appended r commits, and the trigger of migration 0003
\* notifies.  Behind an older row of its group, r is not claimable yet.
Commit(r) ==
    /\ app[r] = "append"
    /\ app' = [app EXCEPT ![r] = IF HasLocal THEN "wake" ELSE "notify"]
    /\ \/ queue' = queue \cup {r} /\ UNCHANGED scheduled
       \/ /\ queue \cup scheduled # {}
          /\ scheduled' = scheduled \cup {r} /\ UNCHANGED queue
    /\ IF NotifyMode = "trigger"
       THEN SendNotify(queue') ELSE UNCHANGED <<inflight, rung>>
    /\ UNCHANGED <<attempts, local, recent, woken, listener, notified, loopVars>>

\* local_wakeup.wake() after the commit.
Wake(r) ==
    /\ app[r] = "wake"
    /\ app' = [app EXCEPT ![r] = "notify"]
    /\ local' = TRUE
    /\ woken' = woken \cup queue
    /\ UNCHANGED <<outboxVars, recent, listenerVars, rung, loopVars>>

\* CoalescedNotifier.notify up to its first await: a recent NOTIFY ends it.
Notify(r) ==
    /\ app[r] = "notify"
    /\ app' = [app EXCEPT ![r] = IF NotifyMode = "coalesced" /\ ~recent
                                 THEN "send" ELSE "done"]
    /\ UNCHANGED <<outboxVars, local, recent, woken, rung, listenerVars, loopVars>>

\* _execute_notify commits, and _last_notified is set.
ExecuteNotify(r) ==
    /\ app[r] = "send"
    /\ app' = [app EXCEPT ![r] = "done"]
    /\ SendNotify(queue)
    /\ recent' = TRUE
    /\ UNCHANGED <<outboxVars, local, woken, listener, notified, loopVars>>

\* The application dies, or a call raises, before it has signalled.
ApplicationDies(r) ==
    /\ app[r] \in {"wake", "notify", "send"}
    /\ app' = [app EXCEPT ![r] = "done"]
    /\ UNCHANGED <<outboxVars, local, recent, woken, rung, listenerVars, loopVars>>

\* coalesce_interval has passed since the last NOTIFY.
CoalesceElapses ==
    /\ recent
    /\ recent' = FALSE
    /\ UNCHANGED <<app, outboxVars, local, woken, rung, listenerVars, loopVars>>

-----------------------------------------------------------------------------
(* PostgresWakeListener *)

\* _ensure_listener in the first wait: LISTEN on a connection of its own.
EnsureListener ==
    /\ loop = "wait"
    /\ NotifyMode # "off"
    /\ listener = "none"
    /\ listener' = "open"
    /\ UNCHANGED <<appVars, outboxVars, inflight, notified, rung, loopVars>>

\* _on_notify
OnNotify ==
    /\ inflight
    /\ inflight' = FALSE
    /\ notified' = TRUE
    /\ UNCHANGED <<appVars, outboxVars, listener, rung, loopVars>>

\* The listener's connection dies.  Nothing in the code notices.
ListenerDies ==
    /\ listener = "open"
    /\ listener' = "dead"
    /\ inflight' = FALSE
    /\ rung' = {}
    /\ UNCHANGED <<appVars, outboxVars, notified, loopVars>>

-----------------------------------------------------------------------------
(* WakeupRunner *)

\* run() ends, and its finally clause closes the listener.  The rows a pass
\* had claimed and not settled come back when their lease expires.
Stop(batch) ==
    /\ Cardinality(batch) <= BatchSize
    /\ batch # {} => loop = "drain"
    /\ loop' = "stopped"
    /\ queue' = queue \ batch
    /\ scheduled' = scheduled \cup batch
    /\ woken' = woken \ batch
    /\ listener' = "none"
    /\ inflight' = FALSE
    /\ rung' = {}
    /\ UNCHANGED <<app, attempts, local, recent, notified, passes, found_work,
                   interval, capped>>

\* The drain begins.
StartDrain ==
    /\ loop' = "drain"
    /\ passes' = 0
    /\ found_work' = FALSE
    /\ capped' = FALSE
    /\ UNCHANGED interval

\* _wait_for_wake returns on the first signal.  A waiter that completed has
\* cleared its event; one that is cancelled leaves its event as it is.
WaitForWake ==
    /\ loop = "wait"
    /\ local \/ notified
    /\ local' \in {FALSE, local}
    /\ notified' \in {FALSE, notified}
    /\ <<local', notified'>> # <<local, notified>>
    /\ StartDrain
    /\ UNCHANGED <<app, outboxVars, recent, woken, rung, listener, inflight>>

\* Mutant of Timeout: no fallback polling while the listener is there.
Timeout_OnlyWithoutListener ==
    /\ loop = "wait"
    /\ listener = "none"
    /\ StartDrain
    /\ UNCHANGED <<appVars, outboxVars, rung, listenerVars>>

\* The fallback timeout: asyncio.wait returns with nothing done.
Timeout ==
    /\ loop = "wait"
    /\ StartDrain
    /\ UNCHANGED <<appVars, outboxVars, rung, listenerVars>>

\* Opening the listener fails, and task.result() raises out of run().
ListenerFails ==
    /\ loop = "wait"
    /\ NotifyMode # "off"
    /\ listener = "none"
    /\ Stop({})

\* A pass that claims `batch': those in `retried' failed and are rescheduled,
\* unless their attempts are used up; the others are settled.
Settle(batch, retried) ==
    /\ queue' = queue \ batch
    /\ woken' = woken \ batch
    /\ rung' = rung \ batch
    /\ attempts' = [r \in Rows |-> IF r \in retried THEN attempts[r] + 1
                                                    ELSE attempts[r]]
    /\ scheduled' = scheduled \cup {r \in retried : attempts'[r] < MaxAttempts}

\* run_once claims rows.  The loop over range(_MAX_PASSES_PER_WAKE) ends
\* after the last of them, whether or not rows are left.
DrainPass(batch, retried) ==
    /\ loop = "drain"
    /\ batch # {} /\ Cardinality(batch) <= BatchSize
    /\ Settle(batch, retried)
    /\ passes' = passes + 1
    /\ found_work' = TRUE
    /\ IF passes' = MaxPasses
       THEN loop' = "drained" /\ capped' = TRUE
       ELSE UNCHANGED <<loop, capped>>
    /\ UNCHANGED <<app, local, recent, listenerVars, interval>>

\* run_once claims nothing.
DrainEmpty ==
    /\ loop = "drain"
    /\ queue = {}
    /\ loop' = "drained"
    /\ UNCHANGED <<appVars, outboxVars, rung, listenerVars, passes, found_work,
                   interval, capped>>

\* Mutant of NextInterval: the fallback interval is not capped.
NextInterval_Uncapped(found) ==
    IF found THEN FallbackInitial ELSE interval * FallbackMultiplier

\* FallbackBackoff.record_work_found and record_idle.
NextInterval(found) ==
    IF found THEN FallbackInitial
    ELSE LET scaled == interval * FallbackMultiplier
         IN  IF scaled < FallbackMax THEN scaled ELSE FallbackMax

\* Mutant of DrainEnds: the signals are cleared after the drain.
DrainEnds_ClearsSignals ==
    /\ loop = "drained"
    /\ loop' = "wait"
    /\ interval' = NextInterval(found_work)
    /\ local' = FALSE
    /\ notified' = FALSE
    /\ UNCHANGED <<app, outboxVars, recent, woken, rung, listener, inflight,
                   passes, found_work, capped>>

\* _drain returns to run, which records work or idleness and waits again.
DrainEnds ==
    /\ loop = "drained"
    /\ loop' = "wait"
    /\ interval' = NextInterval(found_work)
    /\ UNCHANGED <<appVars, outboxVars, rung, listenerVars, passes, found_work,
                   capped>>

\* run_once raises: neither _drain nor run catches it.
DrainRaises(batch) ==
    /\ loop = "drain"
    /\ Stop(batch)

\* The service cancels the loop, at whatever await it is.
Cancel(batch) ==
    /\ loop # "stopped"
    /\ Stop(batch)

-----------------------------------------------------------------------------
(* The rest of the outbox *)

\* A pass of another worker.
OtherWorkerClaims(batch, retried) ==
    /\ batch # {} /\ Cardinality(batch) <= BatchSize
    /\ Settle(batch, retried)
    /\ UNCHANGED <<app, local, recent, listenerVars, loopVars>>

\* A pass of another worker ends early: its rows wait for their lease.
OtherWorkerDies(batch) ==
    /\ batch # {} /\ Cardinality(batch) <= BatchSize
    /\ queue' = queue \ batch
    /\ scheduled' = scheduled \cup batch
    /\ woken' = woken \ batch
    /\ rung' = rung \ batch
    /\ UNCHANGED <<app, attempts, local, recent, listenerVars, loopVars>>

\* The older row is settled, the backoff is over or the lease has expired.
\* Nobody is told.
BecomesDue(r) ==
    /\ r \in scheduled
    /\ scheduled' = scheduled \ {r}
    /\ queue' = queue \cup {r}
    /\ UNCHANGED <<attempts, appVars, rung, listenerVars, loopVars>>

-----------------------------------------------------------------------------

Application(r) ==
    Commit(r) \/ Wake(r) \/ Notify(r) \/ ExecuteNotify(r) \/ ApplicationDies(r)

Loop ==
    \/ WaitForWake
    \/ Timeout
    \/ \E batch \in SUBSET queue : \E retried \in SUBSET batch :
          DrainPass(batch, retried)
    \/ DrainEmpty
    \/ DrainEnds

Next ==
    \/ \E r \in Rows : Application(r) \/ BecomesDue(r)
    \/ CoalesceElapses
    \/ EnsureListener \/ OnNotify \/ ListenerDies \/ ListenerFails
    \/ Loop
    \/ \E batch \in SUBSET queue :
          \/ DrainRaises(batch) \/ Cancel(batch) \/ OtherWorkerDies(batch)
          \/ \E retried \in SUBSET batch : OtherWorkerClaims(batch, retried)

Spec == Init /\ [][Next]_vars

\* The worker's event loop runs and its timers fire.  Nothing is assumed of
\* the applications, of NOTIFY or of the listener's connection.
FairSpec == Spec /\ WF_vars(Loop)

-----------------------------------------------------------------------------
(* Properties *)

FlagsOK ==
    /\ local \in BOOLEAN
    /\ recent \in BOOLEAN
    /\ inflight \in BOOLEAN
    /\ notified \in BOOLEAN
    /\ found_work \in BOOLEAN
    /\ capped \in BOOLEAN

\* Every variable stays in its type; the fallback interval stays capped and
\* no row is tried more than max_attempts times.
TypeOK ==
    /\ FlagsOK
    /\ app \in [Rows -> {"append", "wake", "notify", "send", "done"}]
    /\ queue \subseteq Rows
    /\ scheduled \subseteq Rows
    /\ attempts \in [Rows -> 0..MaxAttempts]
    /\ listener \in {"none", "open", "dead"}
    /\ loop \in {"wait", "drain", "drained", "stopped"}
    /\ passes \in 0..MaxPasses
    /\ interval \in 0..FallbackMax \cup {FallbackInitial}
    /\ woken \subseteq Rows
    /\ rung \subseteq Rows

\* No signal is used up for nothing: when a drain is over and while the worker
\* waits, a row that was committed before a wake(), or before a NOTIFY to the
\* listening connection, and that is still claimable, has its signal pending,
\* unless the last drain stopped at _MAX_PASSES_PER_WAKE.  The event is cleared
\* by the waiter before the drain, and a cancelled waiter does not clear it.
SignalsAreHonoured ==
    loop \in {"wait", "drained"} =>
        /\ woken \cap queue # {} => local \/ capped
        /\ rung \cap queue # {} => inflight \/ notified \/ capped

\* With every signal lost, coalesced away or sent to a dead connection, with
\* drains that stop at the cap and rows that no signal announces, a claimable
\* row is still claimed, as long as the loop is not ended: the fallback
\* timeout of _wait_for_wake is armed on every wait.
EveryRowIsClaimed ==
    \A r \in Rows : r \in queue ~> r \notin queue \/ loop = "stopped"
=============================================================================
