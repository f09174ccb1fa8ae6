------------------------- MODULE OutboxRunnerProofs -------------------------
(***************************************************************************)
(* Proofs, for every number of workers and messages, every grouping and    *)
(* every policy, of the safety properties of OutboxRunner.                 *)
(***************************************************************************)
EXTENDS OutboxRefinement, TLAPS

-----------------------------------------------------------------------------
(* Lemmas on the operators *)

\* A row that is rescheduled is due within the maximal backoff.
LEMMA BackoffBounded ==
    ASSUME NEW a \in Nat, ~ReachesCeiling(a)
    PROVE  Backoff(a) \in Nat /\ Backoff(a) <= MaxInterval
<1>1. a \in 0..MaxAttempts
  BY RetryPolicyAssumption DEF ReachesCeiling
<1>2. Multiplier ^ a \in Nat
  BY <1>1, RetryPolicyAssumption
<1>3. InitialInterval * (Multiplier ^ a) \in Nat
  BY <1>2, RetryPolicyAssumption
<1> QED
  BY <1>3, RetryPolicyAssumption DEF Backoff

\* Every statement on a row yields a row.
LEMMA RowTypes ==
    ASSUME NEW r \in Row, NEW t \in Nat
    PROVE  /\ Reclaimed(r) \in Row
           /\ Claimed(r, t) \in Row
           /\ Published(r) \in Row
           /\ RetryScheduled(r, t) \in Row
           /\ Failed(r) \in Row
           /\ AppendedRow(t) \in Row
           /\ AbsentRow \in Row
           /\ [r EXCEPT !.status = "pending"] \in Row
<1> DEFINE lease == t + LeaseDuration
           more == r.attempts + 1
<1>a. lease \in Nat /\ more \in Nat
  BY StoreAssumption DEF Row
<1>b. Claimed(r, t) = [r EXCEPT !.status = "processing", !.leaseUntil = lease]
  BY DEF Claimed
<1>c. /\ RetryScheduled(r, t) = [r EXCEPT !.status = "pending", !.attempts = more,
                                          !.availableAt = t, !.leaseUntil = NoLease]
      /\ Failed(r) = [r EXCEPT !.status = "failed", !.attempts = more,
                               !.leaseUntil = NoLease]
  BY DEF RetryScheduled, Failed
<1> HIDE DEF lease, more
<1> USE DEF Row, Status, StoredStatus
<1>1. Reclaimed(r) \in Row
  BY DEF Reclaimed
<1>2. Claimed(r, t) \in Row
  BY <1>a, <1>b
<1>3. Published(r) \in Row
  BY DEF Published
<1>4. RetryScheduled(r, t) \in Row
  BY <1>a, <1>c
<1>5. Failed(r) \in Row
  BY <1>a, <1>c
<1>6. AppendedRow(t) \in Row
  BY DEF AppendedRow
<1>7. AbsentRow \in Row
  BY DEF AbsentRow
<1>8. [r EXCEPT !.status = "pending"] \in Row
  OBVIOUS
<1> QED
  BY <1>1, <1>2, <1>3, <1>4, <1>5, <1>6, <1>7, <1>8

\* What each statement does to the columns of the row.
LEMMA RowColumns ==
    ASSUME NEW r \in Row, NEW t \in Nat
    PROVE  /\ /\ Reclaimed(r).status = "pending"
              /\ Reclaimed(r).attempts = r.attempts
              /\ Reclaimed(r).availableAt = r.availableAt
              /\ Reclaimed(r).createdAt = r.createdAt
           /\ /\ Claimed(r, t).status = "processing"
              /\ Claimed(r, t).attempts = r.attempts
              /\ Claimed(r, t).availableAt = r.availableAt
              /\ Claimed(r, t).leaseUntil = t + LeaseDuration
              /\ Claimed(r, t).createdAt = r.createdAt
           /\ /\ Published(r).status = "published"
              /\ Published(r).attempts = r.attempts
              /\ Published(r).availableAt = r.availableAt
              /\ Published(r).createdAt = r.createdAt
           /\ /\ RetryScheduled(r, t).status = "pending"
              /\ RetryScheduled(r, t).attempts = r.attempts + 1
              /\ RetryScheduled(r, t).availableAt = t
              /\ RetryScheduled(r, t).createdAt = r.createdAt
           /\ /\ Failed(r).status = "failed"
              /\ Failed(r).attempts = r.attempts + 1
              /\ Failed(r).availableAt = r.availableAt
              /\ Failed(r).createdAt = r.createdAt
<1> USE DEF Row
<1>1. /\ Reclaimed(r).status = "pending"
      /\ Reclaimed(r).attempts = r.attempts
      /\ Reclaimed(r).availableAt = r.availableAt
      /\ Reclaimed(r).createdAt = r.createdAt
  BY DEF Reclaimed
<1>2. /\ Claimed(r, t).status = "processing"
      /\ Claimed(r, t).attempts = r.attempts
      /\ Claimed(r, t).availableAt = r.availableAt
      /\ Claimed(r, t).leaseUntil = t + LeaseDuration
      /\ Claimed(r, t).createdAt = r.createdAt
  BY DEF Claimed
<1>3. /\ Published(r).status = "published"
      /\ Published(r).attempts = r.attempts
      /\ Published(r).availableAt = r.availableAt
      /\ Published(r).createdAt = r.createdAt
  BY DEF Published
<1>4. /\ RetryScheduled(r, t).status = "pending"
      /\ RetryScheduled(r, t).attempts = r.attempts + 1
      /\ RetryScheduled(r, t).availableAt = t
      /\ RetryScheduled(r, t).createdAt = r.createdAt
  BY DEF RetryScheduled
<1>5. /\ Failed(r).status = "failed"
      /\ Failed(r).attempts = r.attempts + 1
      /\ Failed(r).availableAt = r.availableAt
      /\ Failed(r).createdAt = r.createdAt
  BY DEF Failed
<1> QED
  BY <1>1, <1>2, <1>3, <1>4, <1>5

\* The claim transaction's statements yield tables.
LEMMA TableTypes ==
    ASSUME NEW t \in [Messages -> Row], NEW rows, NEW n \in Nat
    PROVE  /\ AfterReclaim(t, rows) \in [Messages -> Row]
           /\ AfterClaim(t, rows, n) \in [Messages -> Row]
BY RowTypes DEF AfterReclaim, AfterClaim

-----------------------------------------------------------------------------
(* Type correctness *)

LEMMA TypeInit == Init => TypeOK
<1> SUFFICES ASSUME Init PROVE TypeOK
  OBVIOUS
<1>1. AbsentRow \in Row
  BY DEF AbsentRow, Row, Status, StoredStatus
<1> QED
  BY <1>1 DEF Init, TypeOK, PC, Outcome

LEMMA TypeNext == TypeOK /\ [Next]_vars => TypeOK'
<1> SUFFICES ASSUME TypeOK, [Next]_vars PROVE TypeOK'
  OBVIOUS
<1> USE DEF TypeOK, dbVars, txVars, passVars, ghostVars
<1>1. ASSUME NEW m \in Messages, Append(m) PROVE TypeOK'
  BY <1>1, RowTypes DEF Append
<1>2. ASSUME NEW m \in Messages, CommitAppend(m) PROVE TypeOK'
  BY <1>2, RowTypes DEF CommitAppend
<1>3. ASSUME NEW m \in Messages, RollbackAppend(m) PROVE TypeOK'
  BY <1>3, RowTypes DEF RollbackAppend
<1>4. ASSUME NEW w \in Workers, RunOnce(w) PROVE TypeOK'
  BY <1>4 DEF RunOnce, PC
<1>5. ASSUME NEW w \in Workers, ReclaimExpired(w) PROVE TypeOK'
  BY <1>5 DEF ReclaimExpired, Expired, PC
<1>6. ASSUME NEW w \in Workers, ClaimSnapshot(w) PROVE TypeOK'
  BY <1>6 DEF ClaimSnapshot, Claimable, Ready, PC
<1>7. ASSUME NEW w \in Workers, ClaimReady(w) PROVE TypeOK'
  BY <1>7 DEF ClaimReady, Lockable, PC
<1>8. ASSUME NEW w \in Workers, CommitClaim(w) PROVE TypeOK'
  <2>1. View(w) \in [Messages -> Row]
    BY TableTypes DEF View
  <2>2. table' \in [Messages -> Row]
    BY <1>8, <2>1, TableTypes DEF CommitClaim
  <2>3. seen' \in [Workers -> [Messages -> Nat]]
    BY <1>8 DEF CommitClaim, Row
  <2> QED
    BY <1>8, <2>2, <2>3 DEF CommitClaim, Resume, PC
<1>9. ASSUME NEW w \in Workers, LeavePass(w)
      PROVE  /\ pc' \in [Workers -> PC]
             /\ now' \in [Workers -> Nat]
             /\ reclaimed' \in [Workers -> SUBSET Messages]
             /\ candidates' \in [Workers -> SUBSET Messages]
             /\ claiming' \in [Workers -> SUBSET Messages]
             /\ claimed_rows' \in [Workers -> SUBSET Messages]
             /\ seen' \in [Workers -> [Messages -> Nat]]
             /\ row' \in [Workers -> Messages \cup {NoRow}]
             /\ outcome' \in [Workers -> Outcome]
  BY <1>9 DEF LeavePass, Resume, PC, Outcome
<1>10. ASSUME NEW w \in Workers, NEW m \in Messages, NEW result \in Outcome,
              NEW arrived \in BOOLEAN, Publish(w, m, result, arrived)
       PROVE  TypeOK'
  BY <1>10 DEF Publish, PC
<1>11. ASSUME NEW w \in Workers, NEW m \in Messages, NEW arrived \in BOOLEAN,
              PublishRaises(w, m, arrived)
       PROVE  TypeOK'
  BY <1>9, <1>11 DEF PublishRaises
<1>12. ASSUME NEW w \in Workers, Crash(w) PROVE TypeOK'
  BY <1>9, <1>12 DEF Crash
<1>13. ASSUME NEW w \in Workers, NextRow(w)
       PROVE  /\ pc' \in [Workers -> PC]
              /\ now' \in [Workers -> Nat]
              /\ claimed_rows' \in [Workers -> SUBSET Messages]
              /\ seen' \in [Workers -> [Messages -> Nat]]
              /\ row' \in [Workers -> Messages \cup {NoRow}]
              /\ outcome' \in [Workers -> Outcome]
  <2>1. seen' \in [Workers -> [Messages -> Nat]]
    BY <1>13 DEF NextRow
  <2> QED
    BY <1>13, <2>1 DEF NextRow, Resume, PC, Outcome
<1>14. ASSUME NEW w \in Workers, MarkPublished(w) PROVE TypeOK'
  <2>1. table' \in [Messages -> Row]
    BY <1>14, RowTypes DEF MarkPublished
  <2> QED
    BY <1>13, <1>14, <2>1 DEF MarkPublished
<1>15. ASSUME NEW w \in Workers, MarkRetry(w) PROVE TypeOK'
  <2>1. table' \in [Messages -> Row]
    <3>a. PICK t \in now[w]..clock :
             table' = [table EXCEPT ![row[w]] =
                         RetryScheduled(table[row[w]], NextRetryAt(seen[w][row[w]], t))]
      BY <1>15 DEF MarkRetry
    <3>1. CASE row[w] \in Messages
      <4>1. seen[w][row[w]] \in Nat /\ t \in Nat
        BY <3>1
      <4>2. NextRetryAt(seen[w][row[w]], t) \in Nat
        BY <1>15, <4>1, BackoffBounded DEF MarkRetry, NextRetryAt
      <4> QED
        BY <3>1, <3>a, <4>2, RowTypes
    <3>2. CASE row[w] \notin Messages
      <4>1. table' = table
        BY <3>a, <3>2
      <4> QED
        BY <4>1
    <3> QED
      BY <3>1, <3>2
  <2> QED
    BY <1>13, <1>15, <2>1 DEF MarkRetry
<1>16. ASSUME NEW w \in Workers, MarkFailed(w) PROVE TypeOK'
  <2>1. table' \in [Messages -> Row]
    BY <1>16, RowTypes DEF MarkFailed
  <2> QED
    BY <1>13, <1>16, <2>1 DEF MarkFailed
<1>17. CASE Tick
  BY <1>17 DEF Tick
<1>18. CASE UNCHANGED vars
  BY <1>18 DEF vars
<1> QED
  BY <1>1, <1>2, <1>3, <1>4, <1>5, <1>6, <1>7, <1>8, <1>10, <1>11, <1>12,
     <1>14, <1>15, <1>16, <1>17, <1>18 DEF Next, Step

\* Every reachable state has every variable in its type, for every number of
\* workers and messages and every retry policy.
THEOREM TypeCorrect == Spec => []TypeOK
<1> QED
  BY TypeInit, TypeNext, PTL DEF Spec
-----------------------------------------------------------------------------
(* The inductive invariant *)

LEMMA InvInit == Init => IInv
<1> SUFFICES ASSUME Init PROVE IInv
  OBVIOUS
<1>1. TypeOK
  BY TypeInit
<1>2. /\ AbsentRow.status = "absent" /\ AbsentRow.attempts = 0
      /\ AbsentRow.availableAt = 0
  BY DEF AbsentRow
<1> USE DEF Init
<1>3. PhaseInv /\ ResultInv
  BY DEF PhaseInv, ResultInv
<1>4. LockInv
  BY DEF LockInv, Locked
<1>5. StoredInv
  BY <1>2, RetryPolicyAssumption DEF StoredInv, InHand
<1>6. PublishedWasDelivered /\ FailedIsJustified /\ NothingStranded
  BY <1>2 DEF PublishedWasDelivered, FailedIsJustified, NothingStranded
<1>7. LeaseInv
  BY DEF LeaseInv, NoDoubleClaim
<1>8. AttemptsWithinCeiling
  BY <1>2, RetryPolicyAssumption DEF AttemptsWithinCeiling, Unsettled
<1>9. GateInv
  BY DEF GateInv, InHand
<1> QED
  BY <1>1, <1>3, <1>4, <1>5, <1>6, <1>7, <1>8, <1>9 DEF IInv

\* Beginning a pass.
LEMMA InvRunOnce ==
    ASSUME IInv, TypeOK', NEW w \in Workers, RunOnce(w)
    PROVE  IInv'
<1> USE DEF IInv, TypeOK, RunOnce, dbVars, txVars, passVars, ghostVars
<1>1. PhaseInv'
  BY DEF PhaseInv
<1>a. reclaimed[w] = {} /\ claiming[w] = {} /\ claimed_rows[w] = {}
  BY DEF PhaseInv
<1>b. now'[w] = clock /\ \A v \in Workers \ {w} : now'[v] = now[v] /\ pc'[v] = pc[v]
  OBVIOUS
<1>2. LockInv'
  <2>1. \A v \in Workers :
          /\ \A m \in reclaimed[v] : m \in Expired(table, now'[v])
          /\ \A m \in claiming[v] :
                /\ table[m].availableAt <= now'[v]
                /\ m \in reclaimed[v] \/ table[m].status = "pending"
    BY <1>a, <1>b DEF LockInv
  <2> QED
    BY <2>1 DEF LockInv, Locked, Expired
<1>3. StoredInv' /\ ResultInv'
  BY DEF StoredInv, InHand, Visible, ResultInv
<1>4. /\ PublishedWasDelivered' /\ FailedIsJustified' /\ NothingStranded'
      /\ AttemptsWithinCeiling'
  BY DEF PublishedWasDelivered, FailedIsJustified, NothingStranded,
         AttemptsWithinCeiling, Unsettled
<1>5. LeaseInv'
  <2> SUFFICES ASSUME ~overrun PROVE LeaseInv'
    BY DEF LeaseInv
  <2>1. \A v \in Workers : pc'[v] # "idle" => clock <= now'[v] + LeaseDuration
    BY <1>b, StoreAssumption DEF LeaseInv
  <2>2. \A v \in Workers : \A m \in claimed_rows[v] :
           /\ table[m].status = "processing"
           /\ table[m].leaseUntil = now'[v] + LeaseDuration
           /\ seen[v][m] = table[m].attempts
    BY <1>a, <1>b DEF LeaseInv
  <2> QED
    BY <2>1, <2>2 DEF LeaseInv, NoDoubleClaim
<1>6. GateInv'
  BY DEF GateInv, InHand, Unsettled, Older
<1> QED
  BY <1>1, <1>2, <1>3, <1>4, <1>5, <1>6

\* reclaim_expired locks only rows nobody has locked.
LEMMA InvReclaimExpired ==
    ASSUME IInv, TypeOK', NEW w \in Workers, ReclaimExpired(w)
    PROVE  IInv'
<1> USE DEF IInv, TypeOK, ReclaimExpired, dbVars, txVars, passVars, ghostVars
<1>1. PhaseInv'
  BY DEF PhaseInv
<1>2. LockInv'
  <2>1. claiming[w] = {}
    BY DEF PhaseInv
  <2>2. \A v \in Workers \ {w} : Locked(v)' = Locked(v)
    BY DEF Locked
  <2>3. Locked(w)' = Expired(table, now[w])
    BY <2>1 DEF Locked
  <2>4. \A v \in Workers \ {w} : Locked(v) \cap Expired(table, now[w]) = {}
    BY DEF Locked, LockedByOthers
  <2>5. ASSUME NEW u \in Workers, NEW v \in Workers, u # v
        PROVE  Locked(u)' \cap Locked(v)' = {}
    <3>1. CASE u = w \/ v = w
      BY <2>2, <2>3, <2>4, <2>5, <3>1
    <3>2. CASE u # w /\ v # w
      BY <2>2, <2>5, <3>2 DEF LockInv
    <3> QED
      BY <3>1, <3>2
  <2>6. \A v \in Workers :
          /\ \A m \in reclaimed'[v] : m \in Expired(table, now[v])
          /\ \A m \in claiming[v] :
                /\ table[m].availableAt <= now[v]
                /\ m \in reclaimed'[v] \/ table[m].status = "pending"
    BY <2>1 DEF LockInv
  <2> QED
    BY <2>5, <2>6 DEF LockInv, Expired
<1>3. StoredInv' /\ ResultInv'
  BY DEF StoredInv, InHand, Visible, ResultInv
<1>4. /\ PublishedWasDelivered' /\ FailedIsJustified' /\ NothingStranded'
      /\ AttemptsWithinCeiling'
  BY DEF PublishedWasDelivered, FailedIsJustified, NothingStranded,
         AttemptsWithinCeiling, Unsettled
<1>5. LeaseInv'
  BY DEF LeaseInv, NoDoubleClaim
<1>6. GateInv'
  BY DEF GateInv, InHand, Unsettled, Older
<1> QED
  BY <1>1, <1>2, <1>3, <1>4, <1>5, <1>6

\* The claim query's snapshot: the gate sees no older unsettled row.
LEMMA InvClaimSnapshot ==
    ASSUME IInv, TypeOK', NEW w \in Workers, ClaimSnapshot(w)
    PROVE  IInv'
<1> USE DEF IInv, TypeOK, ClaimSnapshot, dbVars, txVars, passVars, ghostVars
<1>1. PhaseInv'
  BY DEF PhaseInv
<1>2. LockInv'
  BY DEF LockInv, Locked, Expired
<1>a. \A m \in Messages :
         /\ View(w)[m].createdAt = table[m].createdAt
         /\ m \in reclaimed[w] => View(w)[m].status = "pending"
         /\ m \notin reclaimed[w] => View(w)[m] = table[m]
  BY RowColumns DEF View, AfterReclaim
<1>b. Unsettled(View(w)) = Unsettled(table)
  BY <1>a DEF Unsettled, LockInv, Expired
<1>c. \A m \in candidates'[w] :
         /\ m \in Visible(table)
         /\ \A n \in Unsettled(table) : ~Older(table, n, m)
  <2> SUFFICES ASSUME NEW m \in Claimable(View(w), now[w])
               PROVE  /\ m \in Visible(table)
                      /\ \A n \in Unsettled(table) : ~Older(table, n, m)
    OBVIOUS
  <2>1. m \in Messages /\ View(w)[m].status = "pending"
    BY DEF Claimable, Ready
  <2>2. table[m].status \in {"pending", "processing"}
    BY <1>b, <2>1 DEF Unsettled
  <2>3. \A n \in Unsettled(table) : ~Older(View(w), n, m)
    BY <1>b DEF Claimable, PassesFifoGate
  <2>4. \A n \in Unsettled(table) : ~Older(table, n, m)
    BY <1>a, <2>1, <2>3 DEF Older, Unsettled
  <2> QED
    BY <2>1, <2>2, <2>4 DEF Visible, StoredStatus
<1>d. \A v \in Workers \ {w} : InHand(v)' = InHand(v)
  BY DEF InHand
<1>e. InHand(w)' \subseteq InHand(w) \cup candidates'[w]
  BY DEF InHand
<1>3. StoredInv'
  <2>1. \A v \in Workers : InHand(v)' \subseteq Visible(table)
    BY <1>c, <1>d, <1>e DEF StoredInv
  <2> QED
    BY <2>1 DEF StoredInv, Visible
<1>4. /\ PublishedWasDelivered' /\ FailedIsJustified' /\ NothingStranded'
      /\ AttemptsWithinCeiling' /\ ResultInv'
  BY DEF PublishedWasDelivered, FailedIsJustified, NothingStranded,
         AttemptsWithinCeiling, Unsettled, ResultInv
<1>5. LeaseInv'
  BY DEF LeaseInv, NoDoubleClaim
<1>6. GateInv'
  <2>1. ~overrun => \A v \in Workers : \A m \in InHand(v)' :
                       \A n \in Unsettled(table) \ late : ~Older(table, n, m)
    <3> SUFFICES ASSUME ~overrun, NEW v \in Workers, NEW m \in InHand(v)',
                        NEW n \in Unsettled(table) \ late
                 PROVE  ~Older(table, n, m)
      OBVIOUS
    <3>1. CASE m \in InHand(v)
      BY <3>1 DEF GateInv
    <3>2. CASE v = w /\ m \in candidates'[w]
      BY <1>c, <3>2
    <3> QED
      BY <1>d, <1>e, <3>1, <3>2
  <2> QED
    BY <2>1 DEF GateInv, Unsettled, Older
<1> QED
  BY <1>1, <1>2, <1>3, <1>4, <1>5, <1>6

\* claim_ready locks rows that are still ready and that nobody has locked.
LEMMA InvClaimReady ==
    ASSUME IInv, TypeOK', NEW w \in Workers, ClaimReady(w)
    PROVE  IInv'
<1> USE DEF IInv, TypeOK, ClaimReady, dbVars, txVars, passVars, ghostVars
<1>a. claiming'[w] \subseteq Lockable(w)
  OBVIOUS
<1>b. \A v \in Workers \ {w} : claiming'[v] = claiming[v]
  OBVIOUS
<1>c. \A m \in claiming'[w] :
         /\ m \in candidates[w]
         /\ m \notin LockedByOthers(w)
         /\ table[m].availableAt <= now[w]
         /\ m \in reclaimed[w] \/ table[m].status = "pending"
  <2> SUFFICES ASSUME NEW m \in Lockable(w)
               PROVE  /\ m \in candidates[w]
                      /\ m \notin LockedByOthers(w)
                      /\ table[m].availableAt <= now[w]
                      /\ m \in reclaimed[w] \/ table[m].status = "pending"
    BY <1>a
  <2>1. /\ m \in candidates[w] /\ m \notin LockedByOthers(w) /\ m \in Messages
        /\ View(w)[m].status = "pending" /\ View(w)[m].availableAt <= now[w]
    BY DEF Lockable, Ready
  <2>2. /\ View(w)[m].availableAt = table[m].availableAt
        /\ m \notin reclaimed[w] => View(w)[m] = table[m]
    BY <2>1, RowColumns DEF View, AfterReclaim
  <2> QED
    BY <2>1, <2>2
<1>1. PhaseInv'
  BY DEF PhaseInv
<1>2. LockInv'
  <2>1. \A v \in Workers \ {w} : Locked(v)' = Locked(v)
    BY <1>b DEF Locked
  <2>2. \A v \in Workers \ {w} : Locked(v) \cap Locked(w)' = {}
    <3> SUFFICES ASSUME NEW v \in Workers \ {w}, NEW m \in Locked(v), m \in Locked(w)'
                 PROVE  FALSE
      OBVIOUS
    <3>1. CASE m \in reclaimed[w]
      BY <3>1 DEF LockInv, Locked
    <3>2. CASE m \in claiming'[w]
      BY <1>c, <3>2 DEF LockedByOthers, Locked
    <3> QED
      BY <3>1, <3>2 DEF Locked
  <2>3. ASSUME NEW u \in Workers, NEW v \in Workers, u # v
        PROVE  Locked(u)' \cap Locked(v)' = {}
    <3>1. CASE u = w \/ v = w
      BY <2>1, <2>2, <2>3, <3>1
    <3>2. CASE u # w /\ v # w
      BY <2>1, <2>3, <3>2 DEF LockInv
    <3> QED
      BY <3>1, <3>2
  <2>4. \A v \in Workers : \A m \in claiming'[v] :
           /\ table[m].availableAt <= now[v]
           /\ m \in reclaimed[v] \/ table[m].status = "pending"
    BY <1>b, <1>c DEF LockInv
  <2> QED
    BY <2>3, <2>4 DEF LockInv, Expired
<1>d. \A v \in Workers : InHand(v)' \subseteq InHand(v)
  BY <1>b, <1>c DEF InHand
<1>3. StoredInv'
  <2>1. \A v \in Workers : InHand(v)' \subseteq Visible(table)
    BY <1>d DEF StoredInv
  <2> QED
    BY <2>1 DEF StoredInv, Visible
<1>4. /\ PublishedWasDelivered' /\ FailedIsJustified' /\ NothingStranded'
      /\ AttemptsWithinCeiling' /\ ResultInv'
  BY DEF PublishedWasDelivered, FailedIsJustified, NothingStranded,
         AttemptsWithinCeiling, Unsettled, ResultInv
<1>5. LeaseInv'
  BY DEF LeaseInv, NoDoubleClaim
<1>6. GateInv'
  <2>1. ~overrun => \A v \in Workers : \A m \in InHand(v)' :
                       \A n \in Unsettled(table) \ late : ~Older(table, n, m)
    BY <1>d DEF GateInv
  <2> QED
    BY <2>1 DEF GateInv, Unsettled, Older
<1> QED
  BY <1>1, <1>2, <1>3, <1>4, <1>5, <1>6

\* A step after which no worker has more rows in hand, no row of them is
\* older and, while leases hold, no settled row is unsettled, keeps the gate's
\* verdicts.
LEMMA GateFrame ==
    ASSUME GateInv, table \in [Messages -> Row],
           ~overrun' => ~overrun,
           late \subseteq late',
           ~overrun => Unsettled(table') \subseteq Unsettled(table),
           \A m \in Visible(table) : table'[m].createdAt = table[m].createdAt,
           \A v \in Workers : InHand(v)' \subseteq InHand(v),
           \A v \in Workers : InHand(v) \subseteq Visible(table)
    PROVE  GateInv'
<1> SUFFICES ASSUME ~overrun', NEW v \in Workers, NEW m \in InHand(v)',
                    NEW n \in Unsettled(table') \ late'
             PROVE  ~Older(table', n, m)
  BY DEF GateInv, Unsettled, Older, InHand
<1>1. n \in Unsettled(table) \ late /\ m \in InHand(v)
  OBVIOUS
<1>2. ~Older(table, n, m)
  BY <1>1 DEF GateInv
<1>3. n \in Visible(table) /\ m \in Visible(table)
  BY <1>1 DEF Unsettled, Visible, StoredStatus
<1> QED
  BY <1>2, <1>3 DEF Older

\* A step in which every open transaction either ends or keeps its locks,
\* and which changes no row that stays locked, keeps the locks sound.
LEMMA LockFrame ==
    ASSUME LockInv, reclaimed \in [Workers -> SUBSET Messages],
           claiming \in [Workers -> SUBSET Messages],
           \A v \in Workers :
              \/ reclaimed'[v] = {} /\ claiming'[v] = {}
              \/ /\ reclaimed'[v] = reclaimed[v]
                 /\ claiming'[v] = claiming[v]
                 /\ now'[v] = now[v]
                 /\ \A m \in Locked(v) : table'[m] = table[m]
    PROVE  LockInv'
<1>1. \A v \in Workers : Locked(v)' \subseteq Locked(v)
  BY DEF Locked
<1>2. \A u, v \in Workers : u # v => Locked(u)' \cap Locked(v)' = {}
  BY <1>1 DEF LockInv
<1>3. ASSUME NEW v \in Workers, NEW m \in reclaimed'[v]
      PROVE  m \in Expired(table', now'[v])
  <2>1. m \in reclaimed[v] /\ table'[m] = table[m] /\ now'[v] = now[v]
    BY <1>3 DEF Locked
  <2> QED
    BY <2>1 DEF LockInv, Expired
<1>4. ASSUME NEW v \in Workers, NEW m \in claiming'[v]
      PROVE  /\ table'[m].availableAt <= now'[v]
             /\ m \in reclaimed'[v] \/ table'[m].status = "pending"
  <2>1. /\ m \in claiming[v] /\ table'[m] = table[m] /\ now'[v] = now[v]
        /\ reclaimed'[v] = reclaimed[v]
    BY <1>4 DEF Locked
  <2> QED
    BY <2>1 DEF LockInv
<1> QED
  BY <1>2, <1>3, <1>4 DEF LockInv

\* The claim transaction commits.
LEMMA InvCommitClaim ==
    ASSUME IInv, TypeOK', NEW w \in Workers, CommitClaim(w)
    PROVE  IInv'
<1> USE DEF IInv, TypeOK, dbVars, txVars, passVars, ghostVars
<1>a. /\ pc[w] = "commit"
      /\ claimed_rows[w] = {} /\ candidates[w] = {}
      /\ now[w] <= clock
  BY DEF PhaseInv, CommitClaim
<1>b. /\ claimed_rows' = [claimed_rows EXCEPT ![w] = claiming[w]]
      /\ reclaimed' = [reclaimed EXCEPT ![w] = {}]
      /\ claiming' = [claiming EXCEPT ![w] = {}]
      /\ pc' = [pc EXCEPT ![w] = IF claiming[w] = {} THEN "idle" ELSE "publish"]
      /\ now' = [now EXCEPT ![w] = IF claiming[w] = {} THEN 0 ELSE now[w]]
      /\ \A m \in claiming[w] : seen'[w][m] = table[m].attempts
      /\ \A v \in Workers \ {w} : seen'[v] = seen[v]
      /\ UNCHANGED <<clock, candidates, row, outcome, ghostVars>>
  BY DEF CommitClaim, Resume
<1>c. \A m \in Messages :
         /\ table'[m].attempts = table[m].attempts
         /\ table'[m].availableAt = table[m].availableAt
         /\ table'[m].createdAt = table[m].createdAt
         /\ m \in claiming[w] => /\ table'[m].status = "processing"
                                 /\ table'[m].leaseUntil = now[w] + LeaseDuration
         /\ m \in reclaimed[w] \ claiming[w] => table'[m].status = "pending"
         /\ m \notin Locked(w) => table'[m] = table[m]
  <2> SUFFICES ASSUME NEW m \in Messages
               PROVE  /\ table'[m].attempts = table[m].attempts
                      /\ table'[m].availableAt = table[m].availableAt
                      /\ table'[m].createdAt = table[m].createdAt
                      /\ m \in claiming[w] =>
                            /\ table'[m].status = "processing"
                            /\ table'[m].leaseUntil = now[w] + LeaseDuration
                      /\ m \in reclaimed[w] \ claiming[w] => table'[m].status = "pending"
                      /\ m \notin Locked(w) => table'[m] = table[m]
    OBVIOUS
  <2> DEFINE mine == View(w)[m]
  <2>1. /\ mine \in Row
        /\ mine.attempts = table[m].attempts
        /\ mine.availableAt = table[m].availableAt
        /\ mine.createdAt = table[m].createdAt
        /\ m \in reclaimed[w] => mine.status = "pending"
        /\ m \notin reclaimed[w] => mine = table[m]
    BY RowTypes, RowColumns DEF View, AfterReclaim
  <2>2. table'[m] = IF m \in claiming[w] THEN Claimed(mine, now[w]) ELSE mine
    BY DEF CommitClaim, AfterClaim
  <2> HIDE DEF mine
  <2> QED
    BY <2>1, <2>2, RowColumns DEF Locked
<1>d. \A m \in Locked(w) : /\ m \in Messages
                           /\ table[m].status \in {"pending", "processing"}
                           /\ table'[m].status \in {"pending", "processing"}
  BY <1>c DEF LockInv, Locked, Expired
<1>e. \A m \in Messages : table'[m].status \in StoredStatus
                             <=> table[m].status \in StoredStatus
  BY <1>c, <1>d DEF StoredStatus
<1>f. Unsettled(table') = Unsettled(table)
  BY <1>c, <1>d DEF Unsettled
<1>g. \A v \in Workers : InHand(v)' \subseteq InHand(v)
  BY <1>b DEF InHand
<1>1. PhaseInv'
  BY <1>a, <1>b DEF PhaseInv
<1>2. LockInv'
  <2>1. \A v \in Workers \ {w} : \A m \in Locked(v) : table'[m] = table[m]
    BY <1>c DEF LockInv, Locked
  <2>2. \A v \in Workers \ {w} : /\ now'[v] = now[v] /\ reclaimed'[v] = reclaimed[v]
                                 /\ claiming'[v] = claiming[v]
    BY <1>b
  <2>3. reclaimed'[w] = {} /\ claiming'[w] = {}
    BY <1>b
  <2> QED
    BY <2>1, <2>2, <2>3, LockFrame
<1>3. StoredInv'
  <2>1. \A v \in Workers : InHand(v)' \subseteq Visible(table')
    BY <1>e, <1>g DEF StoredInv, Visible
  <2> QED
    BY <1>b, <1>c, <1>e, <2>1 DEF StoredInv
<1>4. ResultInv'
  <2>1. \A v \in Workers : \A m \in claimed_rows'[v] : seen'[v][m] <= table'[m].attempts
    BY <1>b, <1>c DEF ResultInv, Row
  <2> QED
    BY <1>b, <2>1 DEF ResultInv
<1>5. PublishedWasDelivered' /\ FailedIsJustified'
  BY <1>b, <1>c, <1>d DEF PublishedWasDelivered, FailedIsJustified
<1>6. NothingStranded'
  <2>1. \A m \in Messages : m \in claiming[w] => table'[m].leaseUntil \in 0..(clock + LeaseDuration)
    BY <1>a, <1>c, StoreAssumption
  <2>2. \A m \in Messages : table'[m].status = "processing" =>
                               table'[m].leaseUntil \in 0..(clock + LeaseDuration)
    BY <1>c, <2>1 DEF NothingStranded, Locked
  <2>3. \A m \in Messages : table'[m].availableAt <= clock + MaxInterval
    BY <1>c DEF StoredInv
  <2> QED
    BY <1>b, <2>2, <2>3 DEF NothingStranded
<1>7. LeaseInv'
  <2> SUFFICES ASSUME ~overrun PROVE LeaseInv'
    BY <1>b DEF LeaseInv
  <2>1. \A v \in Workers \ {w} : \A m \in claimed_rows[v] : m \notin Locked(w)
    <3> SUFFICES ASSUME NEW v \in Workers \ {w}, NEW m \in claimed_rows[v], m \in Locked(w)
                 PROVE  FALSE
      OBVIOUS
    <3>1. table[m].status = "processing" /\ table[m].leaseUntil = now[v] + LeaseDuration
      BY DEF LeaseInv
    <3>2. clock <= now[v] + LeaseDuration
      BY DEF LeaseInv, PhaseInv
    <3>3. m \in reclaimed[w]
      BY <3>1 DEF LockInv, Locked
    <3>4. table[m].leaseUntil < now[w]
      BY <3>3 DEF LockInv, Expired
    <3> QED
      BY <1>a, <3>1, <3>2, <3>4, StoreAssumption
  <2>2. NoDoubleClaim'
    BY <1>b, <2>1 DEF LeaseInv, NoDoubleClaim, Locked
  <2>3. \A v \in Workers : pc'[v] # "idle" => clock <= now'[v] + LeaseDuration
    BY <1>a, <1>b DEF LeaseInv
  <2>4. \A v \in Workers \ {w} : \A m \in claimed_rows'[v] :
           /\ table'[m].status = "processing"
           /\ table'[m].leaseUntil = now'[v] + LeaseDuration
           /\ seen'[v][m] = table'[m].attempts
    BY <1>b, <1>c, <2>1 DEF LeaseInv
  <2>5. \A m \in claimed_rows'[w] :
           /\ table'[m].status = "processing"
           /\ table'[m].leaseUntil = now'[w] + LeaseDuration
           /\ seen'[w][m] = table'[m].attempts
    BY <1>b, <1>c
  <2> QED
    BY <1>b, <2>2, <2>3, <2>4, <2>5 DEF LeaseInv
<1>8. AttemptsWithinCeiling'
  BY <1>b, <1>c, <1>f DEF AttemptsWithinCeiling
<1>9. GateInv'
  <2>1. \A m \in Visible(table) : table'[m].createdAt = table[m].createdAt
    BY <1>c DEF Visible
  <2>2. \A v \in Workers : InHand(v) \subseteq Visible(table)
    BY DEF StoredInv
  <2> QED
    BY <1>b, <1>f, <1>g, <2>1, <2>2, GateFrame
<1> QED
  BY <1>1, <1>2, <1>3, <1>4, <1>5, <1>6, <1>7, <1>8, <1>9

\* A publisher returns.
LEMMA InvPublish ==
    ASSUME IInv, TypeOK', NEW w \in Workers, NEW m \in Messages,
           NEW result \in Outcome, NEW arrived \in BOOLEAN,
           Publish(w, m, result, arrived)
    PROVE  IInv'
<1> USE DEF IInv, TypeOK, Publish, dbVars, txVars, passVars, ghostVars
<1>1. PhaseInv'
  BY DEF PhaseInv
<1>2. LockInv'
  BY LockFrame
<1>3. StoredInv'
  BY DEF StoredInv, InHand, Visible
<1>4. ResultInv'
  <2>1. delivered \subseteq delivered' /\ rejected \subseteq rejected'
    OBVIOUS
  <2>2. ASSUME NEW v \in Workers, pc'[v] = "mark"
        PROVE  /\ outcome'[v] = "published" => row'[v] \in delivered'
               /\ outcome'[v] = "terminal" => row'[v] \in rejected'
    <3>1. CASE v = w
      BY <3>1
    <3>2. CASE v # w
      BY <2>1, <2>2, <3>2 DEF ResultInv
    <3> QED
      BY <3>1, <3>2
  <2> QED
    BY <2>2 DEF ResultInv
<1>5. /\ PublishedWasDelivered' /\ FailedIsJustified' /\ NothingStranded'
      /\ AttemptsWithinCeiling'
  BY DEF PublishedWasDelivered, FailedIsJustified, NothingStranded,
         AttemptsWithinCeiling, Unsettled
<1>6. LeaseInv'
  BY DEF LeaseInv, NoDoubleClaim
<1>7. GateInv'
  BY DEF GateInv, InHand, Unsettled, Older
<1> QED
  BY <1>1, <1>2, <1>3, <1>4, <1>5, <1>6, <1>7

\* A pass ends early: its transaction rolls back and its memory is gone.
LEMMA InvLeavePass ==
    ASSUME IInv, TypeOK', NEW w \in Workers, LeavePass(w),
           UNCHANGED <<dbVars, rejected, late, overrun>>,
           delivered \subseteq delivered'
    PROVE  IInv'
<1> USE DEF IInv, TypeOK, dbVars
<1>a. /\ pc'[w] = "idle" /\ now'[w] = 0
      /\ reclaimed'[w] = {} /\ candidates'[w] = {} /\ claiming'[w] = {}
      /\ claimed_rows'[w] = {}
  BY DEF LeavePass, Resume
<1>b. \A v \in Workers \ {w} :
         /\ pc'[v] = pc[v] /\ now'[v] = now[v]
         /\ reclaimed'[v] = reclaimed[v] /\ candidates'[v] = candidates[v]
         /\ claiming'[v] = claiming[v] /\ claimed_rows'[v] = claimed_rows[v]
         /\ seen'[v] = seen[v] /\ row'[v] = row[v] /\ outcome'[v] = outcome[v]
  BY DEF LeavePass, Resume
<1>1. PhaseInv'
  <2> SUFFICES ASSUME NEW v \in Workers
               PROVE  /\ now'[v] <= clock
                      /\ reclaimed'[v] # {} => pc'[v] \in {"select", "lock", "commit"}
                      /\ candidates'[v] # {} => pc'[v] = "lock"
                      /\ claiming'[v] # {} => pc'[v] = "commit"
                      /\ claimed_rows'[v] # {} => pc'[v] \in {"publish", "mark"}
                      /\ pc'[v] = "mark" => row'[v] \in claimed_rows'[v]
    BY DEF PhaseInv
  <2>1. CASE v = w
    BY <1>a, <2>1
  <2>2. CASE v # w
    BY <1>b, <2>2 DEF PhaseInv
  <2> QED
    BY <2>1, <2>2
<1>2. LockInv'
  BY <1>a, <1>b, LockFrame
<1>c. \A v \in Workers : InHand(v)' \subseteq InHand(v)
  BY <1>a, <1>b DEF InHand
<1>3. StoredInv'
  BY <1>c DEF StoredInv, Visible
<1>4. ResultInv'
  BY <1>a, <1>b DEF ResultInv
<1>5. /\ PublishedWasDelivered' /\ FailedIsJustified' /\ NothingStranded'
      /\ AttemptsWithinCeiling'
  BY DEF PublishedWasDelivered, FailedIsJustified, NothingStranded,
         AttemptsWithinCeiling, Unsettled
<1>6. LeaseInv'
  <2> SUFFICES ASSUME ~overrun PROVE LeaseInv'
    BY DEF LeaseInv
  <2>1. NoDoubleClaim'
    BY <1>a, <1>b DEF LeaseInv, NoDoubleClaim
  <2>2. \A v \in Workers : pc'[v] # "idle" => clock <= now'[v] + LeaseDuration
    BY <1>a, <1>b DEF LeaseInv
  <2>3. ASSUME NEW v \in Workers, NEW m \in claimed_rows'[v]
        PROVE  /\ table[m].status = "processing"
               /\ table[m].leaseUntil = now'[v] + LeaseDuration
               /\ seen'[v][m] = table[m].attempts
    <3>1. /\ v # w /\ m \in claimed_rows[v] /\ now'[v] = now[v]
          /\ seen'[v] = seen[v]
      BY <1>a, <1>b, <2>3
    <3> QED
      BY <3>1 DEF LeaseInv
  <2> QED
    BY <2>1, <2>2, <2>3 DEF LeaseInv
<1>7. GateInv'
  <2>1. \A v \in Workers : InHand(v) \subseteq Visible(table)
    BY DEF StoredInv
  <2> QED
    BY <1>c, <2>1, GateFrame
<1> QED
  BY <1>1, <1>2, <1>3, <1>4, <1>5, <1>6, <1>7

\* Time passes.
LEMMA InvTick ==
    ASSUME IInv, TypeOK', Tick
    PROVE  IInv'
<1> USE DEF IInv, TypeOK, Tick, txVars, passVars
<1>1. PhaseInv'
  BY DEF PhaseInv
<1>2. LockInv'
  BY LockFrame
<1>3. StoredInv'
  BY RetryPolicyAssumption DEF StoredInv, InHand, Visible, Row
<1>4. /\ ResultInv' /\ PublishedWasDelivered' /\ FailedIsJustified'
      /\ AttemptsWithinCeiling'
  BY DEF ResultInv, PublishedWasDelivered, FailedIsJustified,
         AttemptsWithinCeiling, Unsettled
<1>5. NothingStranded'
  BY RetryPolicyAssumption, StoreAssumption DEF NothingStranded, Row
<1>6. LeaseInv'
  <2> SUFFICES ASSUME ~overrun' PROVE LeaseInv'
    BY DEF LeaseInv
  <2>1. ~overrun /\ \A w \in Workers : pc[w] # "idle" => ~(now[w] + LeaseDuration <= clock)
    OBVIOUS
  <2>2. \A w \in Workers : pc[w] # "idle" => clock' <= now[w] + LeaseDuration
    BY <2>1, StoreAssumption
  <2> QED
    BY <2>1, <2>2 DEF LeaseInv, NoDoubleClaim
<1>7. GateInv'
  BY DEF GateInv, InHand, Unsettled, Older
<1> QED
  BY <1>1, <1>2, <1>3, <1>4, <1>5, <1>6, <1>7

\* mark_published, mark_retry and mark_failed alike: a worker settles or
\* reschedules the row in its hand.
LEMMA InvMark ==
    ASSUME IInv, TypeOK', NEW w \in Workers, NEW r \in Row,
           CanMark(w), NextRow(w),
           UNCHANGED <<clock, txVars, ghostVars>>,
           table' = [table EXCEPT ![row[w]] = r],
           r.status \in {"pending", "published", "failed"},
           r.createdAt = table[row[w]].createdAt,
           table[row[w]].attempts <= r.attempts,
           r.availableAt <= clock + MaxInterval,
           r.status = "published" => row[w] \in delivered,
           r.status = "failed" => row[w] \in rejected \/ r.attempts >= MaxAttempts,
           ~overrun => /\ r.attempts <= MaxAttempts
                       /\ r.status = "pending" => r.attempts < MaxAttempts
    PROVE  IInv'
<1> USE DEF IInv, TypeOK, txVars, ghostVars
<1>a. /\ pc[w] = "mark" /\ row[w] \in claimed_rows[w] /\ row[w] \in Messages
      /\ reclaimed[w] = {} /\ candidates[w] = {} /\ claiming[w] = {}
      /\ row[w] \notin LockedByOthers(w)
  BY DEF PhaseInv, CanMark
<1>b. /\ claimed_rows'[w] = claimed_rows[w] \ {row[w]}
      /\ \A m \in claimed_rows'[w] : seen'[w][m] = seen[w][m]
      /\ pc'[w] = IF claimed_rows'[w] = {} THEN "idle" ELSE "publish"
      /\ now'[w] = IF claimed_rows'[w] = {} THEN 0 ELSE now[w]
  BY <1>a DEF NextRow, Resume
<1>c. \A v \in Workers \ {w} :
         /\ pc'[v] = pc[v] /\ now'[v] = now[v] /\ claimed_rows'[v] = claimed_rows[v]
         /\ seen'[v] = seen[v] /\ row'[v] = row[v] /\ outcome'[v] = outcome[v]
  BY DEF NextRow, Resume
<1>d. /\ table'[row[w]] = r
      /\ \A m \in Messages \ {row[w]} : table'[m] = table[m]
  BY <1>a
<1>e. table[row[w]].status \in StoredStatus
  BY <1>a DEF StoredInv, InHand, Visible
<1>1. PhaseInv'
  <2> SUFFICES ASSUME NEW v \in Workers
               PROVE  /\ now'[v] <= clock
                      /\ reclaimed[v] # {} => pc'[v] \in {"select", "lock", "commit"}
                      /\ candidates[v] # {} => pc'[v] = "lock"
                      /\ claiming[v] # {} => pc'[v] = "commit"
                      /\ claimed_rows'[v] # {} => pc'[v] \in {"publish", "mark"}
                      /\ pc'[v] = "mark" => row'[v] \in claimed_rows'[v]
    BY DEF PhaseInv
  <2>1. CASE v = w
    BY <1>a, <1>b, <2>1 DEF PhaseInv
  <2>2. CASE v # w
    BY <1>c, <2>2 DEF PhaseInv
  <2> QED
    BY <2>1, <2>2
<1>2. LockInv'
  <2>1. \A v \in Workers \ {w} : row[w] \notin Locked(v)
    BY <1>a DEF LockedByOthers, Locked
  <2>2. \A v \in Workers \ {w} : \A m \in Locked(v) : table'[m] = table[m]
    BY <1>d, <2>1 DEF Locked
  <2> QED
    BY <1>a, <1>c, <2>2, LockFrame
<1>f. \A v \in Workers : InHand(v)' \subseteq InHand(v)
  BY <1>b, <1>c DEF InHand
<1>3. StoredInv'
  <2>1. Visible(table') = Visible(table)
    BY <1>d, <1>e DEF Visible, StoredStatus
  <2>2. \A v \in Workers : InHand(v)' \subseteq Visible(table')
    BY <1>f, <2>1 DEF StoredInv
  <2>3. \A m \in Messages :
           /\ table'[m].status \notin StoredStatus => table'[m].attempts = 0
           /\ table'[m].availableAt <= clock + MaxInterval
    BY <1>d DEF StoredInv, StoredStatus
  <2> QED
    BY <2>2, <2>3 DEF StoredInv
<1>4. ResultInv'
  <2>1. \A m \in Messages : table[m].attempts <= table'[m].attempts
    BY <1>d DEF Row
  <2>2. ASSUME NEW v \in Workers, NEW m \in claimed_rows'[v]
        PROVE  seen'[v][m] <= table'[m].attempts
    <3>1. m \in claimed_rows[v] /\ seen'[v][m] = seen[v][m] /\ m \in Messages
      BY <1>b, <1>c, <2>2
    <3>2. seen[v][m] <= table[m].attempts
      BY <3>1 DEF ResultInv
    <3>3. /\ seen[v][m] \in Nat /\ table[m].attempts \in Nat
          /\ table'[m].attempts \in Nat
      BY <3>1 DEF Row
    <3> QED
      BY <2>1, <3>1, <3>2, <3>3
  <2>3. \A v \in Workers :
           /\ pc'[v] = "mark" /\ outcome'[v] = "published" => row'[v] \in delivered
           /\ pc'[v] = "mark" /\ outcome'[v] = "terminal" => row'[v] \in rejected
    BY <1>b, <1>c DEF ResultInv
  <2> QED
    BY <2>2, <2>3 DEF ResultInv
<1>5. PublishedWasDelivered' /\ FailedIsJustified'
  BY <1>d DEF PublishedWasDelivered, FailedIsJustified
<1>6. NothingStranded'
  BY <1>d DEF NothingStranded
<1>7. LeaseInv'
  <2> SUFFICES ASSUME ~overrun PROVE LeaseInv'
    BY DEF LeaseInv
  <2>a. \A u, v \in Workers : u # v => claimed_rows[u] \cap claimed_rows[v] = {}
    BY DEF LeaseInv, NoDoubleClaim
  <2>b. \A v \in Workers : claimed_rows'[v] \subseteq claimed_rows[v]
    BY <1>b, <1>c
  <2>1. NoDoubleClaim'
    BY <2>a, <2>b DEF NoDoubleClaim
  <2>2. \A v \in Workers : pc'[v] # "idle" => clock <= now'[v] + LeaseDuration
    BY <1>a, <1>b, <1>c DEF LeaseInv
  <2>3. ASSUME NEW v \in Workers, NEW m \in claimed_rows'[v]
        PROVE  /\ table'[m].status = "processing"
               /\ table'[m].leaseUntil = now'[v] + LeaseDuration
               /\ seen'[v][m] = table'[m].attempts
    <3>1. /\ m \in claimed_rows[v] /\ seen'[v][m] = seen[v][m] /\ m \in Messages
          /\ now'[v] = now[v]
      BY <1>b, <1>c, <2>3
    <3>2. m # row[w]
      <4>1. CASE v = w
        BY <1>b, <2>3, <4>1
      <4>2. CASE v # w
        BY <1>a, <2>a, <3>1, <4>2
      <4> QED
        BY <4>1, <4>2
    <3> QED
      BY <1>d, <3>1, <3>2 DEF LeaseInv
  <2> QED
    BY <2>1, <2>2, <2>3 DEF LeaseInv
<1>8. AttemptsWithinCeiling'
  BY <1>d DEF AttemptsWithinCeiling, Unsettled
<1>9. GateInv'
  <2>1. \A m \in Visible(table) : table'[m].createdAt = table[m].createdAt
    BY <1>d DEF Visible
  <2>2. \A v \in Workers : InHand(v) \subseteq Visible(table)
    BY DEF StoredInv
  <2>3. ~overrun => row[w] \in Unsettled(table)
    BY <1>a DEF LeaseInv, Unsettled
  <2>4. ~overrun => Unsettled(table') \subseteq Unsettled(table)
    BY <1>d, <2>3 DEF Unsettled
  <2> QED
    BY <1>f, <2>1, <2>2, <2>4, GateFrame
<1> QED
  BY <1>1, <1>2, <1>3, <1>4, <1>5, <1>6, <1>7, <1>8, <1>9

\* The applications: a row that is not committed is locked by no worker's
\* transaction and in no worker's hand.
LEMMA Untouched ==
    ASSUME IInv, NEW m \in Messages, table[m].status \in {"absent", "open"}
    PROVE  \A v \in Workers : m \notin Locked(v) /\ m \notin InHand(v)
<1>1. table[m].status \notin StoredStatus
  BY DEF StoredStatus
<1> QED
  BY <1>1 DEF IInv, LockInv, Locked, Expired, StoredInv, InHand, Visible

\* append and rollback: the uncommitted row comes and goes unseen.
LEMMA InvUncommitted ==
    ASSUME IInv, TypeOK', NEW m \in Messages, NEW r \in Row,
           table[m].status \in {"absent", "open"},
           table' = [table EXCEPT ![m] = r],
           r.status \in {"absent", "open"}, r.attempts = 0, r.availableAt <= clock,
           UNCHANGED <<clock, pc, now, txVars, passVars, ghostVars>>
    PROVE  IInv'
<1> USE DEF IInv, TypeOK, txVars, passVars, ghostVars
<1>a. table'[m] = r /\ \A n \in Messages \ {m} : table'[n] = table[n]
  OBVIOUS
<1>b. \A v \in Workers : m \notin Locked(v) /\ m \notin InHand(v)
  BY Untouched
<1>c. \A v \in Workers : InHand(v)' = InHand(v) /\ InHand(v) \subseteq Messages
  BY DEF InHand
<1>d. /\ Visible(table') = Visible(table) /\ m \notin Visible(table)
      /\ Unsettled(table') = Unsettled(table)
  BY <1>a DEF Visible, Unsettled, StoredStatus
<1>1. PhaseInv'
  BY DEF PhaseInv
<1>2. LockInv'
  <2>1. \A v \in Workers : \A n \in Locked(v) : table'[n] = table[n]
    BY <1>a, <1>b DEF Locked
  <2> QED
    BY <2>1, LockFrame
<1>3. StoredInv'
  <2>1. r.availableAt <= clock + MaxInterval
    BY RetryPolicyAssumption DEF Row
  <2> QED
    BY <1>a, <1>c, <1>d, <2>1 DEF StoredInv
<1>4. ResultInv'
  BY <1>a, <1>b DEF ResultInv, InHand
<1>5. PublishedWasDelivered' /\ FailedIsJustified' /\ NothingStranded'
  BY <1>a DEF PublishedWasDelivered, FailedIsJustified, NothingStranded
<1>6. LeaseInv'
  BY <1>a, <1>b DEF LeaseInv, NoDoubleClaim, InHand
<1>7. AttemptsWithinCeiling'
  BY <1>a, <1>d, RetryPolicyAssumption DEF AttemptsWithinCeiling
<1>8. GateInv'
  <2>1. \A n \in Visible(table) : table'[n].createdAt = table[n].createdAt
    BY <1>a, <1>d DEF Visible
  <2>2. \A v \in Workers : InHand(v) \subseteq Visible(table)
    BY DEF StoredInv
  <2> QED
    BY <1>c, <1>d, <2>1, <2>2, GateFrame
<1> QED
  BY <1>1, <1>2, <1>3, <1>4, <1>5, <1>6, <1>7, <1>8

\* The application commits: the row becomes visible, and is late if a younger
\* row of its group already was.
LEMMA InvCommitAppend ==
    ASSUME IInv, TypeOK', NEW m \in Messages, CommitAppend(m)
    PROVE  IInv'
<1> USE DEF IInv, TypeOK, CommitAppend, txVars, passVars
<1>a. /\ table'[m] = [table[m] EXCEPT !.status = "pending"]
      /\ \A n \in Messages \ {m} : table'[n] = table[n]
  OBVIOUS
<1>b. /\ table'[m].status = "pending"
      /\ table'[m].attempts = table[m].attempts
      /\ table'[m].availableAt = table[m].availableAt
      /\ table'[m].createdAt = table[m].createdAt
  BY <1>a DEF Row
<1>c. \A v \in Workers : m \notin Locked(v) /\ m \notin InHand(v)
  BY Untouched
<1>d. \A v \in Workers : InHand(v)' = InHand(v) /\ InHand(v) \subseteq Messages
  BY DEF InHand
<1>e. /\ Visible(table) \subseteq Visible(table')
      /\ Unsettled(table') \subseteq Unsettled(table) \cup {m}
      /\ table[m].attempts = 0
  BY <1>a, <1>b DEF Visible, Unsettled, StoredStatus, StoredInv
<1>1. PhaseInv'
  BY DEF PhaseInv
<1>2. LockInv'
  <2>1. \A v \in Workers : \A n \in Locked(v) : table'[n] = table[n]
    BY <1>a, <1>c DEF Locked
  <2> QED
    BY <2>1, LockFrame
<1>3. StoredInv'
  <2>1. \A v \in Workers : InHand(v)' \subseteq Visible(table')
    BY <1>d, <1>e DEF StoredInv
  <2>2. \A n \in Messages :
           /\ table'[n].status \notin StoredStatus => table'[n].attempts = 0
           /\ table'[n].availableAt <= clock + MaxInterval
    BY <1>a, <1>b DEF StoredInv, StoredStatus
  <2> QED
    BY <2>1, <2>2 DEF StoredInv
<1>4. ResultInv'
  BY <1>a, <1>c DEF ResultInv, InHand
<1>5. PublishedWasDelivered' /\ FailedIsJustified'
  BY <1>a, <1>b DEF PublishedWasDelivered, FailedIsJustified
<1>6. NothingStranded'
  BY <1>a, <1>b DEF NothingStranded, StoredInv
<1>7. LeaseInv'
  BY <1>a, <1>c DEF LeaseInv, NoDoubleClaim, InHand
<1>8. AttemptsWithinCeiling'
  BY <1>a, <1>b, <1>e, RetryPolicyAssumption DEF AttemptsWithinCeiling, Unsettled
<1>9. GateInv'
  <2> SUFFICES ASSUME ~overrun, NEW v \in Workers, NEW n \in InHand(v)',
                      NEW o \in Unsettled(table') \ late'
               PROVE  ~Older(table', o, n)
    BY DEF GateInv, Unsettled, Older, InHand
  <2>1. n \in InHand(v) /\ n \in Visible(table) /\ n \in Messages /\ o \in Messages
    BY <1>d, <1>e DEF StoredInv, Unsettled
  <2>2. Older(table', o, n) <=> Older(table, o, n)
    BY <1>a, <1>b, <2>1 DEF Older
  <2>3. CASE o = m
    <3>1. ~Older(table, m, n)
      BY <2>1, <2>3
    <3> QED
      BY <2>2, <2>3, <3>1
  <2>4. CASE o # m
    BY <1>e, <2>1, <2>2, <2>4 DEF GateInv
  <2> QED
    BY <2>3, <2>4
<1> QED
  BY <1>1, <1>2, <1>3, <1>4, <1>5, <1>6, <1>7, <1>8, <1>9

\* The three mark_* updates are instances of InvMark.
LEMMA InvMarks ==
    ASSUME IInv, TypeOK', NEW w \in Workers,
           MarkPublished(w) \/ MarkRetry(w) \/ MarkFailed(w)
    PROVE  IInv'
<1> DEFINE old == table[row[w]]
           tries == seen[w][row[w]]
<1>a. /\ CanMark(w) /\ NextRow(w)
      /\ UNCHANGED <<clock, txVars, ghostVars>>
      /\ pc[w] = "mark"
  BY DEF MarkPublished, MarkRetry, MarkFailed, CanMark
<1>b. /\ row[w] \in claimed_rows[w] /\ row[w] \in Messages
      /\ old \in Row /\ old.attempts \in Nat /\ tries \in Nat /\ clock \in Nat
  BY <1>a DEF IInv, TypeOK, PhaseInv, Row
<1>c. /\ tries <= old.attempts
      /\ old.availableAt <= clock + MaxInterval
  BY <1>a, <1>b DEF IInv, ResultInv, StoredInv
<1>d. ~overrun => /\ tries = old.attempts
                  /\ old.attempts < MaxAttempts
  BY <1>b DEF IInv, LeaseInv, AttemptsWithinCeiling, Unsettled
<1>1. CASE MarkPublished(w)
  <2> DEFINE r == Published(old)
  <2>1. table' = [table EXCEPT ![row[w]] = r] /\ outcome[w] = "published"
    BY <1>1 DEF MarkPublished
  <2>2. /\ r \in Row /\ r.status = "published" /\ r.createdAt = old.createdAt
        /\ r.attempts = old.attempts /\ r.availableAt = old.availableAt
    BY <1>b, RowTypes, RowColumns
  <2>3. row[w] \in delivered
    BY <1>a, <2>1 DEF IInv, ResultInv
  <2> HIDE DEF r
  <2>4. /\ old.attempts <= r.attempts
        /\ ~overrun => r.attempts <= MaxAttempts
    BY <1>b, <1>d, <2>2, RetryPolicyAssumption
  <2> QED
    BY <1>a, <1>c, <2>1, <2>2, <2>3, <2>4, InvMark
<1>2. CASE MarkRetry(w)
  <2>a. PICK t \in now[w]..clock :
           table' = [table EXCEPT ![row[w]] = RetryScheduled(old, NextRetryAt(tries, t))]
    BY <1>2 DEF MarkRetry
  <2>b. t \in Nat /\ t <= clock
    BY <1>b DEF IInv, TypeOK
  <2> DEFINE due == NextRetryAt(tries, t)
             r == RetryScheduled(old, due)
  <2>1. table' = [table EXCEPT ![row[w]] = r] /\ ~ReachesCeiling(tries)
    BY <1>2, <2>a DEF MarkRetry
  <2>2. due \in Nat /\ due <= clock + MaxInterval
    <3>1. Backoff(tries) \in Nat /\ Backoff(tries) <= MaxInterval
      BY <1>b, <2>1, BackoffBounded
    <3> QED
      BY <1>b, <2>b, <3>1, RetryPolicyAssumption DEF NextRetryAt
  <2> HIDE DEF due
  <2>3. /\ r \in Row /\ r.status = "pending" /\ r.createdAt = old.createdAt
        /\ r.attempts = old.attempts + 1 /\ r.availableAt = due
    <3>1. old \in Row
      BY <1>b
    <3> HIDE DEF old
    <3>2. r \in Row
      BY <2>2, <3>1, RowTypes
    <3>3. /\ r.status = "pending" /\ r.createdAt = old.createdAt
          /\ r.attempts = old.attempts + 1 /\ r.availableAt = due
      BY <2>2, <3>1, RowColumns
    <3> QED
      BY <3>2, <3>3
  <2>4. ~overrun => old.attempts + 1 < MaxAttempts
    BY <1>b, <1>d, <2>1, RetryPolicyAssumption DEF ReachesCeiling
  <2> HIDE DEF r
  <2>5. /\ old.attempts <= r.attempts
        /\ ~overrun => r.attempts <= MaxAttempts /\ r.attempts < MaxAttempts
    BY <1>b, <2>3, <2>4, RetryPolicyAssumption
  <2> QED
    BY <1>a, <2>1, <2>2, <2>3, <2>5, InvMark
<1>3. CASE MarkFailed(w)
  <2> DEFINE r == Failed(old)
  <2>1. /\ table' = [table EXCEPT ![row[w]] = r]
        /\ outcome[w] = "terminal" \/ ReachesCeiling(tries)
    BY <1>3 DEF MarkFailed
  <2>2. /\ r \in Row /\ r.status = "failed" /\ r.createdAt = old.createdAt
        /\ r.attempts = old.attempts + 1 /\ r.availableAt = old.availableAt
    BY <1>b, RowTypes, RowColumns
  <2>3. row[w] \in rejected \/ r.attempts >= MaxAttempts
    <3>1. CASE outcome[w] = "terminal"
      BY <1>a, <3>1 DEF IInv, ResultInv
    <3>2. CASE ReachesCeiling(tries)
      BY <1>b, <1>c, <2>2, <3>2, RetryPolicyAssumption DEF ReachesCeiling
    <3> QED
      BY <2>1, <3>1, <3>2
  <2> HIDE DEF r
  <2>4. /\ old.attempts <= r.attempts
        /\ ~overrun => r.attempts <= MaxAttempts
    BY <1>b, <1>d, <2>2, RetryPolicyAssumption
  <2> QED
    BY <1>a, <1>c, <2>1, <2>2, <2>3, <2>4, InvMark
<1> QED
  BY <1>1, <1>2, <1>3

LEMMA InvNext == IInv /\ [Next]_vars => IInv'
<1> SUFFICES ASSUME IInv, [Next]_vars PROVE IInv'
  OBVIOUS
<1>a. TypeOK'
  BY TypeNext DEF IInv
<1>b. table \in [Messages -> Row] /\ clock \in Nat
  BY DEF IInv, TypeOK
<1>1. ASSUME NEW m \in Messages, Append(m) PROVE IInv'
  <2>1. /\ AppendedRow(clock) \in Row /\ AppendedRow(clock).status = "open"
        /\ AppendedRow(clock).attempts = 0
        /\ AppendedRow(clock).availableAt <= clock
    <3>1. table[m] \in Row
      BY <1>b, <1>1
    <3>2. AppendedRow(clock) \in Row
      BY <1>b, <3>1, RowTypes
    <3>3. /\ AppendedRow(clock).status = "open" /\ AppendedRow(clock).attempts = 0
          /\ AppendedRow(clock).availableAt = clock
      BY DEF AppendedRow
    <3> QED
      BY <1>b, <3>2, <3>3
  <2> QED
    BY <1>a, <1>1, <2>1, InvUncommitted DEF Append
<1>2. ASSUME NEW m \in Messages, CommitAppend(m) PROVE IInv'
  BY <1>a, <1>2, InvCommitAppend
<1>3. ASSUME NEW m \in Messages, RollbackAppend(m) PROVE IInv'
  <2>1. /\ AbsentRow \in Row /\ AbsentRow.status = "absent"
        /\ AbsentRow.attempts = 0 /\ AbsentRow.availableAt <= clock
    <3>1. table[m] \in Row
      BY <1>b, <1>3
    <3>2. AbsentRow \in Row
      BY <1>b, <3>1, RowTypes
    <3>3. /\ AbsentRow.status = "absent" /\ AbsentRow.attempts = 0
          /\ AbsentRow.availableAt = 0
      BY DEF AbsentRow
    <3> QED
      BY <1>b, <3>2, <3>3
  <2> QED
    BY <1>a, <1>3, <2>1, InvUncommitted DEF RollbackAppend
<1>4. ASSUME NEW w \in Workers, RunOnce(w) PROVE IInv'
  BY <1>a, <1>4, InvRunOnce
<1>5. ASSUME NEW w \in Workers, ReclaimExpired(w) PROVE IInv'
  BY <1>a, <1>5, InvReclaimExpired
<1>6. ASSUME NEW w \in Workers, ClaimSnapshot(w) PROVE IInv'
  BY <1>a, <1>6, InvClaimSnapshot
<1>7. ASSUME NEW w \in Workers, ClaimReady(w) PROVE IInv'
  BY <1>a, <1>7, InvClaimReady
<1>8. ASSUME NEW w \in Workers, CommitClaim(w) PROVE IInv'
  BY <1>a, <1>8, InvCommitClaim
<1>9. ASSUME NEW w \in Workers, NEW m \in Messages, NEW result \in Outcome,
             NEW arrived \in BOOLEAN, Publish(w, m, result, arrived)
      PROVE  IInv'
  BY <1>a, <1>9, InvPublish
<1>10. ASSUME NEW w \in Workers, NEW m \in Messages, NEW arrived \in BOOLEAN,
              PublishRaises(w, m, arrived)
       PROVE  IInv'
  BY <1>a, <1>10, InvLeavePass DEF PublishRaises
<1>11. ASSUME NEW w \in Workers, Crash(w) PROVE IInv'
  BY <1>a, <1>11, InvLeavePass DEF Crash, ghostVars
<1>12. ASSUME NEW w \in Workers, MarkPublished(w) \/ MarkRetry(w) \/ MarkFailed(w)
       PROVE  IInv'
  BY <1>a, <1>12, InvMarks
<1>13. CASE Tick
  BY <1>a, <1>13, InvTick
<1>14. CASE UNCHANGED vars
  BY <1>14 DEF vars, IInv, TypeOK, PhaseInv, LockInv, Locked, Expired, StoredInv,
     InHand, Visible, ResultInv, PublishedWasDelivered, FailedIsJustified,
     NothingStranded, LeaseInv, NoDoubleClaim, AttemptsWithinCeiling, Unsettled,
     GateInv, Older
<1> QED
  BY <1>1, <1>2, <1>3, <1>4, <1>5, <1>6, <1>7, <1>8, <1>9, <1>10, <1>11, <1>12,
     <1>13, <1>14 DEF Next, Step

-----------------------------------------------------------------------------
(* The properties *)

\* The protocol's inductive invariant holds in every reachable state.
THEOREM InvariantHolds == Spec => []IInv
<1> QED
  BY InvInit, InvNext, PTL DEF Spec

\* While no pass has outlived its lease, run_once's claim transaction never
\* gives one row to two workers.
THEOREM NoDoubleClaimHolds == Spec => []NoDoubleClaim
<1>1. IInv => NoDoubleClaim
  BY DEF IInv, LeaseInv, NoDoubleClaim
<1> QED
  BY <1>1, InvariantHolds, PTL

\* While no pass has outlived its lease, claimed rows have no older unsettled
\* row in their group other than ones committed late.
THEOREM FifoPerGroupHolds == Spec => []FifoPerGroup
<1>1. IInv => FifoPerGroup
  BY DEF IInv, GateInv, InHand, FifoPerGroup
<1> QED
  BY <1>1, InvariantHolds, PTL

\* While no pass has outlived its lease, max_attempts bounds the attempts.
THEOREM AttemptsWithinCeilingHolds == Spec => []AttemptsWithinCeiling
<1>1. IInv => AttemptsWithinCeiling
  BY DEF IInv
<1> QED
  BY <1>1, InvariantHolds, PTL

\* Claims respect the backoff that mark_retry scheduled.
THEOREM BackoffRespectedHolds == Spec => []BackoffRespected
<1>1. IInv => BackoffRespected
  BY DEF IInv, LockInv, BackoffRespected
<1> QED
  BY <1>1, InvariantHolds, PTL

\* A row marked published was delivered, whatever failed on the way.
THEOREM PublishedWasDeliveredHolds == Spec => []PublishedWasDelivered
<1>1. IInv => PublishedWasDelivered
  BY DEF IInv
<1> QED
  BY <1>1, InvariantHolds, PTL

\* A row marked failed was rejected or has used up its attempts.
THEOREM FailedIsJustifiedHolds == Spec => []FailedIsJustified
<1>1. IInv => FailedIsJustified
  BY DEF IInv
<1> QED
  BY <1>1, InvariantHolds, PTL

\* Every unsettled row becomes claimable within a bounded time.
THEOREM NothingStrandedHolds == Spec => []NothingStranded
<1>1. IInv => NothingStranded
  BY DEF IInv
<1> QED
  BY <1>1, InvariantHolds, PTL

\* A step never writes a settled row while leases hold.
LEMMA SettledStep ==
    ASSUME IInv, Next, ~overrun, NEW m \in Messages,
           table[m].status \in {"published", "failed"}
    PROVE  table'[m] = table[m]
<1> USE DEF IInv, TypeOK, dbVars
<1>1. ASSUME NEW n \in Messages, Append(n) \/ CommitAppend(n) \/ RollbackAppend(n)
      PROVE  table'[m] = table[m]
  BY <1>1 DEF Append, CommitAppend, RollbackAppend
<1>2. ASSUME NEW w \in Workers,
             MarkPublished(w) \/ MarkRetry(w) \/ MarkFailed(w)
      PROVE  table'[m] = table[m]
  <2>1. pc[w] = "mark"
    BY <1>2 DEF MarkPublished, MarkRetry, MarkFailed, CanMark
  <2>2. row[w] \in claimed_rows[w] /\ table[row[w]].status = "processing"
    BY <2>1 DEF PhaseInv, LeaseInv
  <2>3. m # row[w]
    BY <2>2
  <2> QED
    BY <1>2, <2>3 DEF MarkPublished, MarkRetry, MarkFailed
<1>3. ASSUME NEW w \in Workers, CommitClaim(w) PROVE table'[m] = table[m]
  <2>1. m \notin reclaimed[w] /\ m \notin claiming[w]
    BY DEF LockInv, Expired
  <2> QED
    BY <1>3, <2>1 DEF CommitClaim, AfterClaim, View, AfterReclaim
<1>4. ASSUME NEW w \in Workers,
             \/ RunOnce(w) \/ ReclaimExpired(w) \/ ClaimSnapshot(w)
             \/ ClaimReady(w) \/ Crash(w)
      PROVE  table'[m] = table[m]
  BY <1>4 DEF RunOnce, ReclaimExpired, ClaimSnapshot, ClaimReady, Crash
<1>5. ASSUME NEW w \in Workers, NEW n \in Messages, NEW result \in Outcome,
             NEW arrived \in BOOLEAN,
             Publish(w, n, result, arrived) \/ PublishRaises(w, n, arrived)
      PROVE  table'[m] = table[m]
  BY <1>5 DEF Publish, PublishRaises
<1>6. CASE Tick
  BY <1>6 DEF Tick
<1> QED
  BY <1>1, <1>2, <1>3, <1>4, <1>5, <1>6 DEF Next, Step, Outcome

\* While no pass has outlived its lease, published and failed are final,
\* although the mark_* updates do not check the status they overwrite.
THEOREM SettledIsFinalHolds == Spec => SettledIsFinal
<1>1. IInv /\ [Next]_vars =>
         [~overrun => \A m \in Messages :
             table[m].status \in {"published", "failed"} => table'[m] = table[m]]_vars
  BY SettledStep
<1> QED
  BY <1>1, InvariantHolds, PTL DEF Spec, SettledIsFinal

-----------------------------------------------------------------------------
(* OutboxRunner implements LeaseQueue: the initial states map to initial    *)
(* states, and every step taken from a state of the inductive invariant     *)
(* maps to a step of the queue or to a stutter.                             *)

\* What the mapped variables are at a message.
LEMMA MappedAt ==
    ASSUME NEW m \in Messages
    PROVE  /\ States[m] = QueueState(table[m].status)
           /\ States'[m] = QueueState(table'[m].status)
           /\ Tries[m] = table[m].attempts
           /\ Tries'[m] = table'[m].attempts
BY DEF States, Tries

LEMMA QueueStates ==
    /\ QueueState("absent") = "absent" /\ QueueState("open") = "absent"
    /\ QueueState("pending") = "waiting" /\ QueueState("processing") = "held"
    /\ QueueState("published") = "done" /\ QueueState("failed") = "dead"
BY DEF QueueState

\* A step that leaves every row's status and attempts as the queue sees them
\* leaves the mapped table unchanged.
LEMMA MappedUnchanged ==
    ASSUME \A m \in Messages :
              /\ QueueState(table'[m].status) = QueueState(table[m].status)
              /\ table'[m].attempts = table[m].attempts
    PROVE  States' = States /\ Tries' = Tries
BY DEF States, Tries

LEMMA RefineInit == Init => Queue!Init
<1> SUFFICES ASSUME Init PROVE Queue!Init
  OBVIOUS
<1>1. \A m \in Messages : table[m].status = "absent" /\ table[m].attempts = 0
  BY DEF Init, AbsentRow
<1>2. States = [m \in Messages |-> "absent"] /\ Tries = [m \in Messages |-> 0]
  BY <1>1, QueueStates DEF States, Tries
<1>3. ~overrun = TRUE
  BY DEF Init
<1> QED
  BY <1>2, <1>3 DEF Init, Queue!Init

\* append and its rollback: the queue does not see uncommitted rows.
LEMMA RefineUncommitted ==
    ASSUME IInv, NEW m \in Messages, Append(m) \/ RollbackAppend(m)
    PROVE  UNCHANGED Queue!queueVars
<1> USE DEF IInv, TypeOK, dbVars, txVars, passVars, ghostVars
<1>1. /\ table[m].status \in {"absent", "open"} /\ table[m].attempts = 0
  BY DEF Append, RollbackAppend, StoredInv, StoredStatus
<1>2. /\ table'[m].status \in {"absent", "open"} /\ table'[m].attempts = 0
      /\ \A n \in Messages \ {m} : table'[n] = table[n]
  BY DEF Append, RollbackAppend, AppendedRow, AbsentRow
<1>3. States' = States /\ Tries' = Tries
  BY <1>1, <1>2, QueueStates, MappedUnchanged
<1> QED
  BY <1>3 DEF Append, RollbackAppend, Queue!queueVars

\* The commit of append puts the message into the queue.
LEMMA RefineCommitAppend ==
    ASSUME IInv, NEW m \in Messages, CommitAppend(m)
    PROVE  Queue!Put(m)
<1> USE DEF IInv, TypeOK
<1>1. /\ table[m].status = "open" /\ table[m] \in Row
      /\ table' = [table EXCEPT ![m].status = "pending"]
      /\ UNCHANGED <<claimed_rows, overrun>>
  BY DEF CommitAppend, passVars
<1>2. /\ table'[m].status = "pending" /\ table'[m].attempts = table[m].attempts
      /\ \A n \in Messages \ {m} : table'[n] = table[n]
  BY <1>1 DEF Row
<1>3. States[m] = "absent"
  BY <1>1, MappedAt, QueueStates
<1>4. States' = [States EXCEPT ![m] = "waiting"]
  BY <1>2, QueueStates DEF States
<1>5. Tries' = Tries
  BY <1>2 DEF Tries
<1> QED
  BY <1>1, <1>3, <1>4, <1>5 DEF Queue!Put

\* The commit of the claim transaction takes the claimed rows and returns the
\* reclaimed ones; while leases are kept, no one is working on those.
LEMMA RefineCommitClaim ==
    ASSUME IInv, NEW w \in Workers, CommitClaim(w)
    PROVE  Queue!Take(w, reclaimed[w], claiming[w])
<1> USE DEF IInv, TypeOK
<1>1. /\ claimed_rows[w] = {}
      /\ claimed_rows' = [claimed_rows EXCEPT ![w] = claiming[w]]
      /\ table' = AfterClaim(AfterReclaim(table, reclaimed[w]), claiming[w], now[w])
      /\ overrun' = overrun
  BY DEF CommitClaim, PhaseInv, View, ghostVars
<1>2. \A m \in reclaimed[w] : /\ m \in Messages
                              /\ table[m].status = "processing"
                              /\ table[m].leaseUntil < now[w]
  BY DEF LockInv, Expired
<1>3. reclaimed[w] \subseteq Queue!InState("held")
  BY <1>2, MappedAt, QueueStates DEF Queue!InState
<1>4. ~overrun => reclaimed[w] \cap Queue!InHands = {}
  <2> SUFFICES ASSUME ~overrun, NEW v \in Workers, NEW m \in claimed_rows[v],
                      m \in reclaimed[w]
               PROVE  FALSE
    BY DEF Queue!InHands
  <2>1. table[m].leaseUntil = now[v] + LeaseDuration /\ pc[v] # "idle"
    BY DEF LeaseInv, PhaseInv
  <2>2. clock <= now[v] + LeaseDuration /\ now[w] <= clock
    BY <2>1 DEF LeaseInv, PhaseInv
  <2>3. now[v] + LeaseDuration < now[w]
    BY <1>2, <2>1
  <2> QED
    BY <2>2, <2>3, StoreAssumption
<1>5. claiming[w] \subseteq reclaimed[w] \cup Queue!InState("waiting")
  BY MappedAt, QueueStates DEF LockInv, Queue!InState
<1>6. \A m \in Messages :
         /\ m \in claiming[w] =>
               table'[m].status = "processing" /\ table'[m].attempts = table[m].attempts
         /\ m \in reclaimed[w] \ claiming[w] =>
               table'[m].status = "pending" /\ table'[m].attempts = table[m].attempts
         /\ m \notin reclaimed[w] \cup claiming[w] => table'[m] = table[m]
  <2> TAKE m \in Messages
  <2>1. /\ table[m] \in Row /\ now[w] \in Nat
        /\ Reclaimed(table[m]) \in Row
    BY RowTypes
  <2> QED
    BY <1>1, <2>1, RowColumns DEF AfterClaim, AfterReclaim
<1>7. States' = [m \in Messages |-> CASE m \in claiming[w] -> "held"
                                      [] m \in reclaimed[w] \ claiming[w] -> "waiting"
                                      [] OTHER -> States[m]]
  BY <1>6, QueueStates DEF States
<1>8. Tries' = Tries
  BY <1>6 DEF Tries
<1> QED
  BY <1>1, <1>3, <1>4, <1>5, <1>7, <1>8 DEF Queue!Take

\* An abandoned pass drops its rows and touches nothing else.
LEMMA RefineLeavePass ==
    ASSUME IInv, NEW w \in Workers, LeavePass(w), UNCHANGED <<table, overrun>>
    PROVE  Queue!Drop(w)
<1>1. States' = States /\ Tries' = Tries
  BY DEF States, Tries
<1> QED
  BY <1>1 DEF LeavePass, Queue!Drop

\* A mark_* update records the result of a row the worker has in hand.
LEMMA RefineMarks ==
    ASSUME IInv, NEW w \in Workers, NEW r \in Row,
           CanMark(w), NextRow(w), UNCHANGED <<txVars, ghostVars>>,
           table' = [table EXCEPT ![row[w]] = r]
    PROVE  /\ row[w] \in Messages
           /\ Queue!Record(w, row[w], QueueState(r.status))
           /\ Tries' = [Tries EXCEPT ![row[w]] = r.attempts]
<1> USE DEF IInv, TypeOK
<1>1. row[w] \in claimed_rows[w] /\ row[w] \in Messages
  BY DEF CanMark, PhaseInv
<1>2. /\ claimed_rows' = [claimed_rows EXCEPT ![w] = @ \ {row[w]}]
      /\ overrun' = overrun
  BY DEF NextRow, ghostVars
<1>3. table'[row[w]] = r /\ \A n \in Messages \ {row[w]} : table'[n] = table[n]
  BY <1>1
<1>4. States' = [States EXCEPT ![row[w]] = QueueState(r.status)]
  BY <1>1, <1>3 DEF States
<1>5. Tries' = [Tries EXCEPT ![row[w]] = r.attempts]
  BY <1>1, <1>3 DEF Tries
<1> QED
  BY <1>1, <1>2, <1>4, <1>5 DEF Queue!Record

LEMMA RefineStepOfMark ==
    ASSUME IInv, NEW w \in Workers,
           MarkPublished(w) \/ MarkRetry(w) \/ MarkFailed(w)
    PROVE  \E m \in Messages :
              Queue!Finish(w, m) \/ Queue!Return(w, m) \/ Queue!GiveUp(w, m)
<1> DEFINE m == row[w]
           old == table[m]
<1>1. /\ CanMark(w) /\ NextRow(w) /\ UNCHANGED <<txVars, ghostVars>>
      /\ m \in claimed_rows[w] /\ m \in Messages /\ old \in Row
      /\ old.attempts \in Nat /\ seen[w][m] \in Nat
  BY DEF MarkPublished, MarkRetry, MarkFailed, CanMark, PhaseInv, Row, IInv, TypeOK
<1>2. CASE MarkPublished(w)
  <2>1. table' = [table EXCEPT ![m] = Published(old)]
    BY <1>1, <1>2 DEF MarkPublished
  <2>2. /\ Published(old) \in Row /\ Published(old).status = "published"
        /\ Published(old).attempts = old.attempts
    BY <1>1, RowTypes, RowColumns
  <2>3. /\ Queue!Record(w, m, "done")
        /\ Tries' = [Tries EXCEPT ![m] = old.attempts]
    BY <1>1, <2>1, <2>2, RefineMarks, QueueStates
  <2>4. Tries' = Tries
    BY <1>1, <2>3 DEF Tries
  <2>5. Queue!Finish(w, m)
    BY <2>3, <2>4 DEF Queue!Finish
  <2> QED
    BY <1>1, <2>5
<1>3. CASE MarkRetry(w)
  <2>1. PICK t \in now[w]..clock :
           table' = [table EXCEPT ![m] =
                        RetryScheduled(old, NextRetryAt(seen[w][m], t))]
    BY <1>1, <1>3 DEF MarkRetry
  <2>2. NextRetryAt(seen[w][m], t) \in Nat
    BY <1>1, <1>3, <2>1, BackoffBounded DEF MarkRetry, NextRetryAt, IInv, TypeOK
  <2> DEFINE r == RetryScheduled(old, NextRetryAt(seen[w][m], t))
  <2>3. r \in Row /\ r.status = "pending" /\ r.attempts = old.attempts + 1
    BY <1>1, <2>2, RowTypes, RowColumns
  <2>4. /\ Queue!Record(w, m, "waiting")
        /\ Tries' = [Tries EXCEPT ![m] = old.attempts + 1]
    BY <1>1, <2>1, <2>3, RefineMarks, QueueStates
  <2>5. Tries[m] = old.attempts
    BY <1>1, MappedAt
  <2>6. ~overrun => Tries[m] + 1 < MaxAttempts
    BY <1>1, <1>3, <2>5, RetryPolicyAssumption 
    DEF IInv, LeaseInv, MarkRetry, ReachesCeiling
  <2>7. Queue!Return(w, m)
    BY <2>4, <2>5, <2>6 DEF Queue!Return
  <2> QED
    BY <1>1, <2>7
<1>4. CASE MarkFailed(w)
  <2>1. table' = [table EXCEPT ![m] = Failed(old)]
    BY <1>1, <1>4 DEF MarkFailed
  <2>2. /\ Failed(old) \in Row /\ Failed(old).status = "failed"
        /\ Failed(old).attempts = old.attempts + 1
    BY <1>1, RowTypes, RowColumns
  <2>3. /\ Queue!Record(w, m, "dead")
        /\ Tries' = [Tries EXCEPT ![m] = old.attempts + 1]
    BY <1>1, <2>1, <2>2, RefineMarks, QueueStates
  <2>4. Tries[m] = old.attempts
    BY <1>1, MappedAt
  <2>5. Queue!GiveUp(w, m)
    BY <2>3, <2>4 DEF Queue!GiveUp
  <2> QED
    BY <1>1, <2>5
<1> QED
  BY <1>2, <1>3, <1>4

\* Every step of the workers and applications is a step of the queue.
LEMMA RefineNext == IInv /\ [Next]_vars => [Queue!Next]_(Queue!queueVars)
<1> SUFFICES ASSUME IInv, [Next]_vars
             PROVE  Queue!Next \/ UNCHANGED Queue!queueVars
  OBVIOUS
<1>1. ASSUME NEW m \in Messages, Append(m) \/ RollbackAppend(m)
      PROVE  UNCHANGED Queue!queueVars
  BY <1>1, RefineUncommitted
<1>2. ASSUME NEW m \in Messages, CommitAppend(m) PROVE Queue!Next
  BY <1>2, RefineCommitAppend DEF Queue!Next
<1>3. ASSUME NEW w \in Workers,
             \/ RunOnce(w) \/ ReclaimExpired(w) \/ ClaimSnapshot(w) \/ ClaimReady(w)
      PROVE  UNCHANGED Queue!queueVars
  <2>1. UNCHANGED <<table, claimed_rows, overrun>>
    BY <1>3 DEF RunOnce, ReclaimExpired, ClaimSnapshot, ClaimReady,
                dbVars, passVars, ghostVars
  <2> QED
    BY <2>1 DEF Queue!queueVars, States, Tries
<1>4. ASSUME NEW w \in Workers, CommitClaim(w) PROVE Queue!Next
  <2>1. reclaimed[w] \in SUBSET Messages /\ claiming[w] \in SUBSET Messages
    BY DEF IInv, TypeOK
  <2> QED
    BY <1>4, <2>1, RefineCommitClaim DEF Queue!Next
<1>5. ASSUME NEW w \in Workers, NEW m \in Messages, NEW result \in Outcome,
             NEW arrived \in BOOLEAN, Publish(w, m, result, arrived)
      PROVE  UNCHANGED Queue!queueVars
  <2>1. UNCHANGED <<table, claimed_rows, overrun>>
    BY <1>5 DEF Publish, dbVars
  <2> QED
    BY <2>1 DEF Queue!queueVars, States, Tries
<1>6. ASSUME NEW w \in Workers, NEW m \in Messages, NEW arrived \in BOOLEAN,
             PublishRaises(w, m, arrived)
      PROVE  Queue!Next
  <2>1. LeavePass(w) /\ UNCHANGED <<table, overrun>>
    BY <1>6 DEF PublishRaises, dbVars
  <2> QED
    BY <2>1, RefineLeavePass DEF Queue!Next
<1>7. ASSUME NEW w \in Workers, Crash(w) PROVE Queue!Next
  <2>1. LeavePass(w) /\ UNCHANGED <<table, overrun>>
    BY <1>7 DEF Crash, dbVars, ghostVars
  <2> QED
    BY <2>1, RefineLeavePass DEF Queue!Next
<1>8. ASSUME NEW w \in Workers, MarkPublished(w) \/ MarkRetry(w) \/ MarkFailed(w)
      PROVE  Queue!Next
  BY <1>8, RefineStepOfMark DEF Queue!Next
<1>9. CASE Tick
  <2>1. UNCHANGED <<table, claimed_rows>> /\ (overrun => overrun')
    BY <1>9 DEF Tick, passVars
  <2>2. UNCHANGED <<States, Tries, claimed_rows>>
    BY <2>1 DEF States, Tries
  <2>3. overrun \in BOOLEAN /\ overrun' \in BOOLEAN
    BY TypeNext DEF IInv, TypeOK
  <2>4. CASE overrun'
    <3>1. (~overrun') = FALSE
      BY <2>4, <2>3
    <3> QED
      BY <2>2, <3>1 DEF Queue!Next, Queue!Overrun
  <2>5. CASE ~overrun'
    <3>1. (~overrun') = (~overrun)
      BY <2>1, <2>3, <2>5
    <3> QED
      BY <2>2, <3>1 DEF Queue!queueVars
  <2> QED
    BY <2>4, <2>5
<1>10. CASE UNCHANGED vars
  <2>1. UNCHANGED <<table, claimed_rows, overrun>>
    BY <1>10 DEF vars
  <2> QED
    BY <2>1 DEF Queue!queueVars, States, Tries
<1> QED
  BY <1>1, <1>2, <1>3, <1>4, <1>5, <1>6, <1>7, <1>8, <1>9, <1>10
  DEF Next, Step

\* The outbox workers implement the lease queue: whatever the interleaving
\* of run_once's statements, crashes and late mark_* updates, rows change
\* hands only as LeaseQueue allows.
THEOREM OutboxImplementsLeaseQueue == Spec => ImplementsLeaseQueue
<1> QED
  BY RefineInit, RefineNext, InvariantHolds, PTL
  DEF Spec, ImplementsLeaseQueue, Queue!Spec
=============================================================================
