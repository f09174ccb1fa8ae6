-------------------------- MODULE InboxInvariant --------------------------
(***************************************************************************)
(* Why the properties of InboxRunner hold: the inductive invariant that    *)
(* InboxRunnerProofs proves and that TLC checks on a small instance.       *)
(***************************************************************************)
EXTENDS InboxRunner

\* Rows w's open transaction has locked.
Locked(w) == reclaimed[w] \cup claiming[w]

\* What each point of run_once has in memory and in its transaction.
PhaseInv ==
    \A w \in Workers :
        /\ now[w] <= clock
        /\ reclaimed[w] # {} => pc[w] \in {"select", "lock", "commit"}
        /\ candidates[w] # {} => pc[w] = "lock"
        /\ claiming[w] # {} => pc[w] = "commit"
        /\ claimed_rows[w] # {} => pc[w] \in {"evaluate", "handle", "mark"}
        /\ pc[w] \in {"handle", "mark"} => row[w] \in claimed_rows[w]
        /\ pc[w] # "mark" => outcome[w] = "processed"

\* Row locks are exclusive, between workers and against receivers of a
\* duplicate, and a row locked by a worker still satisfies the condition
\* under which its UPDATE selected it.
LockInv ==
    /\ \A v, w \in Workers : v # w => Locked(v) \cap Locked(w) = {}
    /\ \A w \in Workers :
          /\ Locked(w) \cap redelivering = {}
          /\ \A m \in reclaimed[w] : m \in Expired(table, now[w])
          /\ \A m \in claiming[w] :
                /\ table[m].availableAt <= now[w]
                /\ m \in reclaimed[w] \/ table[m].status = "pending"

\* The rows w has selected, locked or claimed.
InHand(w) == candidates[w] \cup claiming[w] \cup claimed_rows[w]

\* Workers and receivers of duplicates only have committed rows in hand.  Rows
\* that are not committed have made no attempt, and no row is ever scheduled
\* beyond the maximal backoff.
StoredInv ==
    /\ \A w \in Workers : InHand(w) \subseteq Visible(table)
    /\ redelivering \subseteq Visible(table)
    /\ \A m \in Messages :
          /\ table[m].status \notin StoredStatus => table[m].attempts = 0
          /\ table[m].availableAt <= clock + MaxInterval

\* A handler applied m, or the filter or the hook dropped it.
Justified(m) == effects[m] > 0 \/ m \in dropped

\* What a worker is about to record really happened, and the attempts it
\* counts from are not ahead of the table's.
ResultInv ==
    \A w \in Workers :
        /\ pc[w] = "mark" /\ outcome[w] = "processed" => Justified(row[w])
        /\ pc[w] = "mark" /\ outcome[w] = "terminal" => row[w] \in rejected
        /\ \A m \in claimed_rows[w] : seen[w][m] <= table[m].attempts

\* No row is in the hands of two workers.
NoDoubleClaim ==
    \A v, w \in Workers : v # w => claimed_rows[v] \cap claimed_rows[w] = {}

\* Until some pass outlives its lease, the lease is what the worker believes
\* it to be, no one else has the row, and its view of attempts is exact.
LeaseInv ==
    ~overrun =>
        /\ NoDoubleClaim
        /\ \A w \in Workers :
              /\ pc[w] # "idle" => clock <= now[w] + LeaseDuration
              /\ \A m \in claimed_rows[w] :
                    /\ table[m].status = "processing"
                    /\ table[m].leaseUntil = now[w] + LeaseDuration
                    /\ seen[w][m] = table[m].attempts

\* Until some pass outlives its lease, attempts stay within max_attempts.
CeilingInv ==
    ~overrun => \A m \in Messages :
                    /\ table[m].attempts <= MaxAttempts
                    /\ m \in Unsettled(table) => table[m].attempts < MaxAttempts

\* The verdict of the FIFO gate outlives the snapshot it was computed on.
GateInv ==
    ~overrun => \A w \in Workers \ Unordered : \A m \in InHand(w) :
                    \A n \in Unsettled(table) \ late : ~Older(table, n, m)

\* The answer of an exact hook is still true when the handler starts.
EffectInv ==
    ~overrun =>
        /\ \A m \in ExactHook : effects[m] <= 1
        /\ \A w \in Workers :
              pc[w] = "handle" /\ row[w] \in ExactHook => effects[row[w]] = 0

\* The inductive invariant: every protocol fact the inbox's safety properties
\* rest on, from row locks through leases to the hook's answers.
IInv ==
    /\ TypeOK
    /\ PhaseInv
    /\ LockInv
    /\ StoredInv
    /\ ResultInv
    /\ ProcessedIsJustified
    /\ FailedIsJustified
    /\ NothingStranded
    /\ LeaseInv
    /\ CeilingInv
    /\ GateInv
    /\ EffectInv
=============================================================================
