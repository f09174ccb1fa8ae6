-------------------------- MODULE OutboxInvariant --------------------------
(***************************************************************************)
(* Why the properties of OutboxRunner hold: the inductive invariant that   *)
(* OutboxRunnerProofs proves and that TLC checks on a small instance.      *)
(***************************************************************************)
EXTENDS OutboxRunner

\* Rows w's open transaction has locked.
Locked(w) == reclaimed[w] \cup claiming[w]

\* What each point of run_once has in memory and in its transaction.
PhaseInv ==
    \A w \in Workers :
        /\ now[w] <= clock
        /\ reclaimed[w] # {} => pc[w] \in {"select", "lock", "commit"}
        /\ candidates[w] # {} => pc[w] = "lock"
        /\ claiming[w] # {} => pc[w] = "commit"
        /\ claimed_rows[w] # {} => pc[w] \in {"publish", "mark"}
        /\ pc[w] = "mark" => row[w] \in claimed_rows[w]

\* Row locks are exclusive, and a locked row still satisfies the condition
\* under which its UPDATE selected it.
LockInv ==
    /\ \A v, w \in Workers : v # w => Locked(v) \cap Locked(w) = {}
    /\ \A w \in Workers :
          /\ \A m \in reclaimed[w] : m \in Expired(table, now[w])
          /\ \A m \in claiming[w] :
                /\ table[m].availableAt <= now[w]
                /\ m \in reclaimed[w] \/ table[m].status = "pending"

\* The rows w has selected, locked or claimed.
InHand(w) == candidates[w] \cup claiming[w] \cup claimed_rows[w]

\* A worker only has rows in hand that are committed.  Rows that are not have
\* made no attempt, and no row is ever scheduled beyond the maximal backoff.
StoredInv ==
    /\ \A w \in Workers : InHand(w) \subseteq Visible(table)
    /\ \A m \in Messages :
          /\ table[m].status \notin StoredStatus => table[m].attempts = 0
          /\ table[m].availableAt <= clock + MaxInterval

\* What a worker is about to record really happened, and the attempts it
\* counts from are not ahead of the table's.
ResultInv ==
    \A w \in Workers :
        /\ pc[w] = "mark" /\ outcome[w] = "published" => row[w] \in delivered
        /\ pc[w] = "mark" /\ outcome[w] = "terminal" => row[w] \in rejected
        /\ \A m \in claimed_rows[w] : seen[w][m] <= table[m].attempts

\* Until some pass outlives its lease, the lease is what the worker believes
\* it to be, no one else has the row, and its view of attempts is exact.
LeaseInv ==
    ~overrun =>
        /\ NoDoubleClaim
        /\ \A w \in Workers :
              /\ pc[w] # "idle" => clock <= now[w] + LeaseDuration
              /\ \A m \in claimed_rows[w] :
                    /\ table[m].status = "processing"
                    /\ table[m].leaseUntil = now[w] + LeaseDuration
                    /\ seen[w][m] = table[m].attempts

\* The verdict of the FIFO gate outlives the snapshot it was computed on.
GateInv ==
    ~overrun => \A w \in Workers : \A m \in InHand(w) :
                    \A n \in Unsettled(table) \ late : ~Older(table, n, m)

\* The inductive invariant: every protocol fact the safety properties rest
\* on, from row locks through leases to the results in hand.
IInv ==
    /\ TypeOK
    /\ PhaseInv
    /\ LockInv
    /\ StoredInv
    /\ ResultInv
    /\ PublishedWasDelivered
    /\ FailedIsJustified
    /\ NothingStranded
    /\ LeaseInv
    /\ AttemptsWithinCeiling
    /\ GateInv
=============================================================================
