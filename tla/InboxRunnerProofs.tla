-------------------------- MODULE InboxRunnerProofs --------------------------
(***************************************************************************)
(* Proofs, for every number of workers and messages, FIFO and unordered    *)
(* workers in any mix, every grouping and every policy, of the safety      *)
(* properties of InboxRunner.                                              *)
(***************************************************************************)
EXTENDS InboxRefinement, TLAPS

-----------------------------------------------------------------------------
(* Lemmas on the operators *)

\* A row that is rescheduled is due within the maximal backoff.
LEMMA BackoffBounded ==
    ASSUME NEW a \in Nat, ~ReachesCeiling(a)
    PROVE  Backoff(a) \in Nat /\ Backoff(a) <= MaxInterval
<1>1. a \in 0..MaxAttempts
  BY RetryPolicyAssumption DEF ReachesCeiling
<1>2. Multiplier ^ a \in Nat
  BY <1>1, RetryPolicyAssumption
<1>3. InitialInterval * (Multiplier ^ a) \in Nat
  BY <1>2, RetryPolicyAssumption
<1> QED
  BY <1>3, RetryPolicyAssumption DEF Backoff

\* Every statement on a row yields a row.
LEMMA RowTypes ==
    ASSUME NEW r \in Row, NEW t \in Nat
    PROVE  /\ Reclaimed(r) \in Row
           /\ Claimed(r, t) \in Row
           /\ Processed(r) \in Row
           /\ RetryScheduled(r, t) \in Row
           /\ Failed(r) \in Row
           /\ ReceivedRow(t) \in Row
           /\ AbsentRow \in Row
           /\ [r EXCEPT !.status = "pending"] \in Row
<1> DEFINE lease == t + LeaseDuration
           more == r.attempts + 1
<1>a. lease \in Nat /\ more \in Nat
  BY StoreAssumption DEF Row
<1>b. Claimed(r, t) = [r EXCEPT !.status = "processing", !.leaseUntil = lease]
  BY DEF Claimed
<1>c. /\ RetryScheduled(r, t) = [r EXCEPT !.status = "pending", !.attempts = more,
                                          !.availableAt = t, !.leaseUntil = NoLease]
      /\ Failed(r) = [r EXCEPT !.status = "failed", !.attempts = more,
                               !.leaseUntil = NoLease]
  BY DEF RetryScheduled, Failed
<1> HIDE DEF lease, more
<1> USE DEF Row, Status, StoredStatus
<1>1. Reclaimed(r) \in Row
  BY DEF Reclaimed
<1>2. Claimed(r, t) \in Row
  BY <1>a, <1>b
<1>3. Processed(r) \in Row
  BY DEF Processed
<1>4. RetryScheduled(r, t) \in Row
  BY <1>a, <1>c
<1>5. Failed(r) \in Row
  BY <1>a, <1>c
<1>6. ReceivedRow(t) \in Row
  BY DEF ReceivedRow
<1>7. AbsentRow \in Row
  BY DEF AbsentRow
<1>8. [r EXCEPT !.status = "pending"] \in Row
  OBVIOUS
<1> QED
  BY <1>1, <1>2, <1>3, <1>4, <1>5, <1>6, <1>7, <1>8

\* What each statement does to the columns of the row.
LEMMA RowColumns ==
    ASSUME NEW r \in Row, NEW t \in Nat
    PROVE  /\ /\ Reclaimed(r).status = "pending"
              /\ Reclaimed(r).attempts = r.attempts
              /\ Reclaimed(r).availableAt = r.availableAt
              /\ Reclaimed(r).receivedAt = r.receivedAt
           /\ /\ Claimed(r, t).status = "processing"
              /\ Claimed(r, t).attempts = r.attempts
              /\ Claimed(r, t).availableAt = r.availableAt
              /\ Claimed(r, t).leaseUntil = t + LeaseDuration
              /\ Claimed(r, t).receivedAt = r.receivedAt
           /\ /\ Processed(r).status = "processed"
              /\ Processed(r).attempts = r.attempts
              /\ Processed(r).availableAt = r.availableAt
              /\ Processed(r).receivedAt = r.receivedAt
           /\ /\ RetryScheduled(r, t).status = "pending"
              /\ RetryScheduled(r, t).attempts = r.attempts + 1
              /\ RetryScheduled(r, t).availableAt = t
              /\ RetryScheduled(r, t).receivedAt = r.receivedAt
           /\ /\ Failed(r).status = "failed"
              /\ Failed(r).attempts = r.attempts + 1
              /\ Failed(r).availableAt = r.availableAt
              /\ Failed(r).receivedAt = r.receivedAt
<1> USE DEF Row
<1>1. /\ Reclaimed(r).status = "pending"
      /\ Reclaimed(r).attempts = r.attempts
      /\ Reclaimed(r).availableAt = r.availableAt
      /\ Reclaimed(r).receivedAt = r.receivedAt
  BY DEF Reclaimed
<1>2. /\ Claimed(r, t).status = "processing"
      /\ Claimed(r, t).attempts = r.attempts
      /\ Claimed(r, t).availableAt = r.availableAt
      /\ Claimed(r, t).leaseUntil = t + LeaseDuration
      /\ Claimed(r, t).receivedAt = r.receivedAt
  BY DEF Claimed
<1>3. /\ Processed(r).status = "processed"
      /\ Processed(r).attempts = r.attempts
      /\ Processed(r).availableAt = r.availableAt
      /\ Processed(r).receivedAt = r.receivedAt
  BY DEF Processed
<1>4. /\ RetryScheduled(r, t).status = "pending"
      /\ RetryScheduled(r, t).attempts = r.attempts + 1
      /\ RetryScheduled(r, t).availableAt = t
      /\ RetryScheduled(r, t).receivedAt = r.receivedAt
  BY DEF RetryScheduled
<1>5. /\ Failed(r).status = "failed"
      /\ Failed(r).attempts = r.attempts + 1
      /\ Failed(r).availableAt = r.availableAt
      /\ Failed(r).receivedAt = r.receivedAt
  BY DEF Failed
<1> QED
  BY <1>1, <1>2, <1>3, <1>4, <1>5

\* The claim transaction's statements yield tables.
LEMMA TableTypes ==
    ASSUME NEW t \in [Messages -> Row], NEW rows, NEW n \in Nat
    PROVE  /\ AfterReclaim(t, rows) \in [Messages -> Row]
           /\ AfterClaim(t, rows, n) \in [Messages -> Row]
BY RowTypes DEF AfterReclaim, AfterClaim

-----------------------------------------------------------------------------
(* Type correctness *)

\* Counting an effect keeps the counts in their type and loses none.
LEMMA AppliedType ==
    ASSUME effects \in [Messages -> 0..2], NEW m
    PROVE  /\ Applied(m) \in [Messages -> 0..2]
           /\ \A n \in Messages : effects[n] <= Applied(m)[n]
<1> DEFINE more == IF effects[m] < 2 THEN effects[m] + 1 ELSE effects[m]
<1>1. Applied(m) = [effects EXCEPT ![m] = more]
  BY DEF Applied
<1>2. m \in Messages => more \in 0..2 /\ effects[m] <= more
  OBVIOUS
<1> HIDE DEF more
<1>3. \A n \in Messages : /\ Applied(m)[n] = IF n = m THEN more ELSE effects[n]
                          /\ effects[n] \in 0..2
  BY <1>1
<1>4. \A n \in Messages : effects[n] <= Applied(m)[n] /\ Applied(m)[n] \in 0..2
  BY <1>2, <1>3
<1> QED
  BY <1>1, <1>4

LEMMA TypeInit == Init => TypeOK
<1> SUFFICES ASSUME Init PROVE TypeOK
  OBVIOUS
<1>1. AbsentRow \in Row
  BY DEF AbsentRow, Row, Status, StoredStatus
<1>2. effects \in [Messages -> 0..2]
  BY DEF Init
<1> QED
  BY <1>1, <1>2 DEF Init, TypeOK, PC, Outcome

LEMMA TypeNext == TypeOK /\ PhaseInv /\ [Next]_vars => TypeOK'
<1> SUFFICES ASSUME TypeOK, PhaseInv, [Next]_vars PROVE TypeOK'
  OBVIOUS
<1> USE DEF TypeOK, dbVars, txVars, passVars, ghostVars
<1>1. ASSUME NEW m \in Messages, Receive(m) PROVE TypeOK'
  BY <1>1, RowTypes DEF Receive
<1>2. ASSUME NEW m \in Messages, CommitReceive(m) PROVE TypeOK'
  BY <1>2, RowTypes DEF CommitReceive
<1>3. ASSUME NEW m \in Messages, RollbackReceive(m) PROVE TypeOK'
  BY <1>3, RowTypes DEF RollbackReceive
<1>r. ASSUME NEW m \in Messages, ReceiveAgain(m) \/ EndReceiveAgain(m)
      PROVE  TypeOK'
  BY <1>r DEF ReceiveAgain, EndReceiveAgain
<1>4. ASSUME NEW w \in Workers, RunOnce(w) PROVE TypeOK'
  BY <1>4 DEF RunOnce, PC
<1>5. ASSUME NEW w \in Workers, ReclaimExpired(w) PROVE TypeOK'
  BY <1>5 DEF ReclaimExpired, Expired, PC
<1>6. ASSUME NEW w \in Workers, ClaimSnapshot(w) PROVE TypeOK'
  BY <1>6 DEF ClaimSnapshot, Selected, ClaimableFifo, Ready, PC
<1>7. ASSUME NEW w \in Workers, ClaimReady(w) PROVE TypeOK'
  BY <1>7 DEF ClaimReady, Lockable, PC
<1>8. ASSUME NEW w \in Workers, CommitClaim(w) PROVE TypeOK'
  <2>1. View(w) \in [Messages -> Row]
    BY TableTypes DEF View
  <2>2. table' \in [Messages -> Row]
    BY <1>8, <2>1, TableTypes DEF CommitClaim
  <2>3. seen' \in [Workers -> [Messages -> Nat]]
    BY <1>8 DEF CommitClaim, Row
  <2> QED
    BY <1>8, <2>2, <2>3 DEF CommitClaim, Resume, PC
<1>9. ASSUME NEW w \in Workers, LeavePass(w)
      PROVE  /\ pc' \in [Workers -> PC]
             /\ now' \in [Workers -> Nat]
             /\ reclaimed' \in [Workers -> SUBSET Messages]
             /\ candidates' \in [Workers -> SUBSET Messages]
             /\ claiming' \in [Workers -> SUBSET Messages]
             /\ claimed_rows' \in [Workers -> SUBSET Messages]
             /\ seen' \in [Workers -> [Messages -> Nat]]
             /\ row' \in [Workers -> Messages \cup {NoRow}]
             /\ outcome' \in [Workers -> Outcome]
  BY <1>9 DEF LeavePass, Resume, PC, Outcome
<1>10. ASSUME NEW w \in Workers, NEW m \in Messages, NEW decision \in Decision,
              Evaluate(w, m, decision)
       PROVE  TypeOK'
  BY <1>10 DEF Evaluate, PC
<1>h. ASSUME NEW w \in Workers, NEW result \in Outcome, NEW applied \in BOOLEAN,
             Handle(w, result, applied)
      PROVE  TypeOK'
  <2>1. row[w] \in Messages
    BY <1>h DEF PhaseInv, Handle
  <2> QED
    BY <1>h, <2>1, AppliedType DEF Handle, PC
<1>11. ASSUME NEW w \in Workers, NEW applied \in BOOLEAN, HandlerRaises(w, applied)
       PROVE  TypeOK'
  BY <1>9, <1>11, AppliedType DEF HandlerRaises
<1>12. ASSUME NEW w \in Workers, Crash(w) PROVE TypeOK'
  BY <1>9, <1>12 DEF Crash
<1>13. ASSUME NEW w \in Workers, NextRow(w)
       PROVE  /\ pc' \in [Workers -> PC]
              /\ now' \in [Workers -> Nat]
              /\ claimed_rows' \in [Workers -> SUBSET Messages]
              /\ seen' \in [Workers -> [Messages -> Nat]]
              /\ row' \in [Workers -> Messages \cup {NoRow}]
              /\ outcome' \in [Workers -> Outcome]
  <2>1. seen' \in [Workers -> [Messages -> Nat]]
    BY <1>13 DEF NextRow
  <2> QED
    BY <1>13, <2>1 DEF NextRow, Resume, PC, Outcome
<1>14. ASSUME NEW w \in Workers, MarkProcessed(w) PROVE TypeOK'
  <2>1. table' \in [Messages -> Row]
    BY <1>14, RowTypes DEF MarkProcessed
  <2> QED
    BY <1>13, <1>14, <2>1 DEF MarkProcessed
<1>15. ASSUME NEW w \in Workers, MarkRetry(w) PROVE TypeOK'
  <2>1. table' \in [Messages -> Row]
    <3>a. PICK t \in now[w]..clock :
             table' = [table EXCEPT ![row[w]] =
                         RetryScheduled(table[row[w]], NextRetryAt(seen[w][row[w]], t))]
      BY <1>15 DEF MarkRetry
    <3>1. CASE row[w] \in Messages
      <4>1. seen[w][row[w]] \in Nat /\ t \in Nat
        BY <3>1
      <4>2. NextRetryAt(seen[w][row[w]], t) \in Nat
        BY <1>15, <4>1, BackoffBounded DEF MarkRetry, NextRetryAt
      <4> QED
        BY <3>1, <3>a, <4>2, RowTypes
    <3>2. CASE row[w] \notin Messages
      <4>1. table' = table
        BY <3>a, <3>2
      <4> QED
        BY <4>1
    <3> QED
      BY <3>1, <3>2
  <2> QED
    BY <1>13, <1>15, <2>1 DEF MarkRetry
<1>16. ASSUME NEW w \in Workers, MarkFailed(w) PROVE TypeOK'
  <2>1. table' \in [Messages -> Row]
    BY <1>16, RowTypes DEF MarkFailed
  <2> QED
    BY <1>13, <1>16, <2>1 DEF MarkFailed
<1>17. CASE Tick
  BY <1>17 DEF Tick
<1>18. CASE UNCHANGED vars
  BY <1>18 DEF vars
<1> QED
  BY <1>1, <1>2, <1>3, <1>r, <1>4, <1>5, <1>6, <1>7, <1>8, <1>10, <1>h, <1>11,
     <1>12, <1>14, <1>15, <1>16, <1>17, <1>18 DEF Next, Step

-----------------------------------------------------------------------------
(* The inductive invariant *)

LEMMA InvInit == Init => IInv
<1> SUFFICES ASSUME Init PROVE IInv
  OBVIOUS
<1>1. TypeOK
  BY TypeInit
<1>2. /\ AbsentRow.status = "absent" /\ AbsentRow.attempts = 0
      /\ AbsentRow.availableAt = 0
  BY DEF AbsentRow
<1> USE DEF Init
<1>3. PhaseInv /\ ResultInv
  BY DEF PhaseInv, ResultInv
<1>4. LockInv
  BY DEF LockInv, Locked
<1>5. StoredInv
  BY <1>2, RetryPolicyAssumption DEF StoredInv, InHand
<1>6. ProcessedIsJustified /\ FailedIsJustified /\ NothingStranded
  BY <1>2 DEF ProcessedIsJustified, FailedIsJustified, NothingStranded
<1>7. LeaseInv
  BY DEF LeaseInv, NoDoubleClaim
<1>8. CeilingInv
  BY <1>2, RetryPolicyAssumption DEF CeilingInv, Unsettled
<1>9. GateInv
  BY DEF GateInv, InHand
<1>10. EffectInv
  BY RunnerAssumption DEF EffectInv
<1> QED
  BY <1>1, <1>3, <1>4, <1>5, <1>6, <1>7, <1>8, <1>9, <1>10 DEF IInv

\* A step that applies no effect and starts no handler keeps the answers of
\* the exact hooks.
LEMMA EffectFrame ==
    ASSUME EffectInv, ~overrun' => ~overrun, effects' = effects,
           \A v \in Workers : pc'[v] = "handle" =>
                                  pc[v] = "handle" /\ row'[v] = row[v]
    PROVE  EffectInv'
BY DEF EffectInv

\* Effects are never taken back, nor are the filter's and the hook's answers.
LEMMA JustifiedStays ==
    ASSUME TypeOK, TypeOK', \A m \in Messages : effects[m] <= effects'[m],
           dropped \subseteq dropped'
    PROVE  \A m \in Messages : Justified(m) => Justified(m)'
<1> SUFFICES ASSUME NEW m \in Messages, Justified(m) PROVE Justified(m)'
  OBVIOUS
<1>1. effects[m] \in 0..2 /\ effects'[m] \in 0..2 /\ effects[m] <= effects'[m]
  BY DEF TypeOK
<1> QED
  BY <1>1 DEF Justified

\* A handler applies its effect at most once per evaluation: nobody else has
\* the row while leases are kept, so no other handler is about to start on it.
LEMMA EffectApplied ==
    ASSUME IInv, NEW w \in Workers, pc[w] = "handle",
           effects' = effects \/ effects' = Applied(row[w]),
           ~overrun' => ~overrun, pc'[w] # "handle",
           \A v \in Workers \ {w} : pc'[v] = pc[v] /\ row'[v] = row[v]
    PROVE  EffectInv'
<1> USE DEF IInv, TypeOK
<1> SUFFICES ASSUME ~overrun'
             PROVE  /\ \A m \in ExactHook : effects'[m] <= 1
                    /\ \A v \in Workers :
                          pc'[v] = "handle" /\ row'[v] \in ExactHook =>
                             effects'[row'[v]] = 0
  BY DEF EffectInv
<1>1. row[w] \in claimed_rows[w] /\ row[w] \in Messages
  BY DEF PhaseInv
<1>2. \A m \in Messages \ {row[w]} : effects'[m] = effects[m]
  BY DEF Applied
<1>3. row[w] \in ExactHook => effects[row[w]] = 0
  BY DEF EffectInv
<1>4. \A m \in ExactHook : effects'[m] <= 1
  <2> SUFFICES ASSUME NEW m \in ExactHook PROVE effects'[m] <= 1
    OBVIOUS
  <2>1. CASE m = row[w]
    BY <1>1, <1>3, <2>1 DEF Applied, EffectInv
  <2>2. CASE m # row[w]
    BY <1>2, <2>2, RunnerAssumption DEF EffectInv
  <2> QED
    BY <2>1, <2>2
<1>5. ASSUME NEW v \in Workers, pc'[v] = "handle", row'[v] \in ExactHook
      PROVE  effects'[row'[v]] = 0
  <2>1. v # w /\ pc[v] = "handle" /\ row'[v] = row[v]
    BY <1>5
  <2>2. row[v] \in claimed_rows[v] /\ effects[row[v]] = 0
    BY <1>5, <2>1 DEF PhaseInv, EffectInv
  <2>3. row[v] # row[w]
    BY <1>1, <2>1, <2>2 DEF LeaseInv, NoDoubleClaim
  <2> QED
    BY <1>2, <1>5, <2>1, <2>2, <2>3
<1> QED
  BY <1>4, <1>5

\* Beginning a pass.
LEMMA InvRunOnce ==
    ASSUME IInv, TypeOK', NEW w \in Workers, RunOnce(w)
    PROVE  IInv'
<1> USE DEF IInv, TypeOK, RunOnce, dbVars, txVars, passVars, ghostVars
<1>1. PhaseInv'
  BY DEF PhaseInv
<1>a. reclaimed[w] = {} /\ claiming[w] = {} /\ claimed_rows[w] = {}
  BY DEF PhaseInv
<1>b. now'[w] = clock /\ \A v \in Workers \ {w} : now'[v] = now[v] /\ pc'[v] = pc[v]
  OBVIOUS
<1>2. LockInv'
  <2>1. \A v \in Workers :
          /\ Locked(v) \cap redelivering = {}
          /\ \A m \in reclaimed[v] : m \in Expired(table, now'[v])
          /\ \A m \in claiming[v] :
                /\ table[m].availableAt <= now'[v]
                /\ m \in reclaimed[v] \/ table[m].status = "pending"
    BY <1>a, <1>b DEF LockInv
  <2> QED
    BY <2>1 DEF LockInv, Locked, Expired
<1>3. StoredInv' /\ ResultInv'
  BY DEF StoredInv, InHand, Visible, ResultInv, Justified
<1>4. /\ ProcessedIsJustified' /\ FailedIsJustified' /\ NothingStranded'
      /\ CeilingInv'
  BY DEF ProcessedIsJustified, FailedIsJustified, NothingStranded,
         CeilingInv, Unsettled
<1>5. LeaseInv'
  <2> SUFFICES ASSUME ~overrun PROVE LeaseInv'
    BY DEF LeaseInv
  <2>1. \A v \in Workers : pc'[v] # "idle" => clock <= now'[v] + LeaseDuration
    BY <1>b, StoreAssumption DEF LeaseInv
  <2>2. \A v \in Workers : \A m \in claimed_rows[v] :
           /\ table[m].status = "processing"
           /\ table[m].leaseUntil = now'[v] + LeaseDuration
           /\ seen[v][m] = table[m].attempts
    BY <1>a, <1>b DEF LeaseInv
  <2> QED
    BY <2>1, <2>2 DEF LeaseInv, NoDoubleClaim
<1>6. GateInv'
  BY DEF GateInv, InHand, Unsettled, Older
<1>7. EffectInv'
  BY EffectFrame
<1> QED
  BY <1>1, <1>2, <1>3, <1>4, <1>5, <1>6, <1>7

\* reclaim_expired locks only rows nobody has locked.
LEMMA InvReclaimExpired ==
    ASSUME IInv, TypeOK', NEW w \in Workers, ReclaimExpired(w)
    PROVE  IInv'
<1> USE DEF IInv, TypeOK, ReclaimExpired, dbVars, txVars, passVars, ghostVars
<1>1. PhaseInv'
  BY DEF PhaseInv
<1>2. LockInv'
  <2>1. claiming[w] = {}
    BY DEF PhaseInv
  <2>2. \A v \in Workers \ {w} : Locked(v)' = Locked(v)
    BY DEF Locked
  <2>3. Locked(w)' = Expired(table, now[w])
    BY <2>1 DEF Locked
  <2>4. \A v \in Workers \ {w} : Locked(v) \cap Expired(table, now[w]) = {}
    BY DEF Locked, LockedByOthers
  <2>5. ASSUME NEW u \in Workers, NEW v \in Workers, u # v
        PROVE  Locked(u)' \cap Locked(v)' = {}
    <3>1. CASE u = w \/ v = w
      BY <2>2, <2>3, <2>4, <2>5, <3>1
    <3>2. CASE u # w /\ v # w
      BY <2>2, <2>5, <3>2 DEF LockInv
    <3> QED
      BY <3>1, <3>2
  <2>a. \A v \in Workers : Locked(v)' \cap redelivering = {}
    <3>1. Locked(w)' \cap redelivering = {}
      BY <2>3 DEF LockedByOthers
    <3> QED
      BY <2>2, <3>1 DEF LockInv
  <2>6. \A v \in Workers :
          /\ \A m \in reclaimed'[v] : m \in Expired(table, now[v])
          /\ \A m \in claiming[v] :
                /\ table[m].availableAt <= now[v]
                /\ m \in reclaimed'[v] \/ table[m].status = "pending"
    BY <2>1 DEF LockInv
  <2> QED
    BY <2>5, <2>a, <2>6 DEF LockInv, Expired
<1>3. StoredInv' /\ ResultInv'
  BY DEF StoredInv, InHand, Visible, ResultInv, Justified
<1>4. /\ ProcessedIsJustified' /\ FailedIsJustified' /\ NothingStranded'
      /\ CeilingInv'
  BY DEF ProcessedIsJustified, FailedIsJustified, NothingStranded,
         CeilingInv, Unsettled
<1>5. LeaseInv'
  BY DEF LeaseInv, NoDoubleClaim
<1>6. GateInv'
  BY DEF GateInv, InHand, Unsettled, Older
<1>7. EffectInv'
  BY EffectFrame
<1> QED
  BY <1>1, <1>2, <1>3, <1>4, <1>5, <1>6, <1>7

\* The claim query's snapshot: the gate sees no older unsettled row.
LEMMA InvClaimSnapshot ==
    ASSUME IInv, TypeOK', NEW w \in Workers, ClaimSnapshot(w)
    PROVE  IInv'
<1> USE DEF IInv, TypeOK, ClaimSnapshot, dbVars, txVars, passVars, ghostVars
<1>1. PhaseInv'
  BY DEF PhaseInv
<1>2. LockInv'
  BY DEF LockInv, Locked, Expired
<1>a. \A m \in Messages :
         /\ View(w)[m].receivedAt = table[m].receivedAt
         /\ m \in reclaimed[w] => View(w)[m].status = "pending"
         /\ m \notin reclaimed[w] => View(w)[m] = table[m]
  BY RowColumns DEF View, AfterReclaim
<1>b. Unsettled(View(w)) = Unsettled(table)
  BY <1>a DEF Unsettled, LockInv, Expired
<1>c. \A m \in candidates'[w] :
         /\ m \in Visible(table)
         /\ w \notin Unordered => \A n \in Unsettled(table) : ~Older(table, n, m)
  <2> SUFFICES ASSUME NEW m \in Selected(w)
               PROVE  /\ m \in Visible(table)
                      /\ w \notin Unordered =>
                            \A n \in Unsettled(table) : ~Older(table, n, m)
    OBVIOUS
  <2>1. m \in Messages /\ View(w)[m].status = "pending"
    BY DEF Selected, ClaimableFifo, Ready
  <2>2. table[m].status \in {"pending", "processing"}
    BY <1>b, <2>1 DEF Unsettled
  <2>3. w \notin Unordered => \A n \in Unsettled(table) : ~Older(View(w), n, m)
    BY <1>b DEF Selected, ClaimableFifo, PassesFifoGate
  <2>4. w \notin Unordered => \A n \in Unsettled(table) : ~Older(table, n, m)
    BY <1>a, <2>1, <2>3 DEF Older, Unsettled
  <2> QED
    BY <2>1, <2>2, <2>4 DEF Visible, StoredStatus
<1>d. \A v \in Workers \ {w} : InHand(v)' = InHand(v)
  BY DEF InHand
<1>e. InHand(w)' \subseteq InHand(w) \cup candidates'[w]
  BY DEF InHand
<1>3. StoredInv'
  <2>1. \A v \in Workers : InHand(v)' \subseteq Visible(table)
    <3>1. \A v \in Workers : InHand(v) \subseteq Visible(table)
      BY DEF StoredInv
    <3>2. candidates'[w] \subseteq Visible(table)
      BY <1>c
    <3>3. InHand(w)' \subseteq Visible(table)
      BY <1>e, <3>1, <3>2
    <3>4. \A v \in Workers \ {w} : InHand(v)' \subseteq Visible(table)
      BY <1>d, <3>1
    <3> HIDE DEF ClaimSnapshot, IInv, TypeOK
    <3> QED
      BY <3>3, <3>4
  <2> QED
    BY <2>1 DEF StoredInv, Visible
<1>4. /\ ProcessedIsJustified' /\ FailedIsJustified' /\ NothingStranded'
      /\ CeilingInv' /\ ResultInv'
  BY DEF ProcessedIsJustified, FailedIsJustified, NothingStranded,
         CeilingInv, Unsettled, ResultInv, Justified
<1>5. LeaseInv'
  BY DEF LeaseInv, NoDoubleClaim
<1>6. GateInv'
  <2>1. ~overrun => \A v \in Workers \ Unordered : \A m \in InHand(v)' :
                       \A n \in Unsettled(table) \ late : ~Older(table, n, m)
    <3> SUFFICES ASSUME ~overrun, NEW v \in Workers \ Unordered, NEW m \in InHand(v)',
                        NEW n \in Unsettled(table) \ late
                 PROVE  ~Older(table, n, m)
      OBVIOUS
    <3>1. CASE m \in InHand(v)
      BY <3>1 DEF GateInv
    <3>2. CASE v = w /\ m \in candidates'[w]
      BY <1>c, <3>2
    <3> QED
      BY <1>d, <1>e, <3>1, <3>2
  <2> QED
    BY <2>1 DEF GateInv, Unsettled, Older
<1>7. EffectInv'
  BY EffectFrame
<1> QED
  BY <1>1, <1>2, <1>3, <1>4, <1>5, <1>6, <1>7

\* claim_ready locks rows that are still ready and that nobody has locked.
LEMMA InvClaimReady ==
    ASSUME IInv, TypeOK', NEW w \in Workers, ClaimReady(w)
    PROVE  IInv'
<1> USE DEF IInv, TypeOK, ClaimReady, dbVars, txVars, passVars, ghostVars
<1>a. claiming'[w] \subseteq Lockable(w)
  OBVIOUS
<1>b. \A v \in Workers \ {w} : claiming'[v] = claiming[v]
  OBVIOUS
<1>c. \A m \in claiming'[w] :
         /\ m \in candidates[w]
         /\ m \notin LockedByOthers(w)
         /\ table[m].availableAt <= now[w]
         /\ m \in reclaimed[w] \/ table[m].status = "pending"
  <2> SUFFICES ASSUME NEW m \in Lockable(w)
               PROVE  /\ m \in candidates[w]
                      /\ m \notin LockedByOthers(w)
                      /\ table[m].availableAt <= now[w]
                      /\ m \in reclaimed[w] \/ table[m].status = "pending"
    BY <1>a
  <2>1. /\ m \in candidates[w] /\ m \notin LockedByOthers(w) /\ m \in Messages
        /\ View(w)[m].status = "pending" /\ View(w)[m].availableAt <= now[w]
    BY DEF Lockable, Ready
  <2>2. /\ View(w)[m].availableAt = table[m].availableAt
        /\ m \notin reclaimed[w] => View(w)[m] = table[m]
    BY <2>1, RowColumns DEF View, AfterReclaim
  <2> QED
    BY <2>1, <2>2
<1>1. PhaseInv'
  BY DEF PhaseInv
<1>2. LockInv'
  <2>1. \A v \in Workers \ {w} : Locked(v)' = Locked(v)
    BY <1>b DEF Locked
  <2>2. \A v \in Workers \ {w} : Locked(v) \cap Locked(w)' = {}
    <3> SUFFICES ASSUME NEW v \in Workers \ {w}, NEW m \in Locked(v), m \in Locked(w)'
                 PROVE  FALSE
      OBVIOUS
    <3>1. CASE m \in reclaimed[w]
      BY <3>1 DEF LockInv, Locked
    <3>2. CASE m \in claiming'[w]
      BY <1>c, <3>2 DEF LockedByOthers, Locked
    <3> QED
      BY <3>1, <3>2 DEF Locked
  <2>3. ASSUME NEW u \in Workers, NEW v \in Workers, u # v
        PROVE  Locked(u)' \cap Locked(v)' = {}
    <3>1. CASE u = w \/ v = w
      BY <2>1, <2>2, <2>3, <3>1
    <3>2. CASE u # w /\ v # w
      BY <2>1, <2>3, <3>2 DEF LockInv
    <3> QED
      BY <3>1, <3>2
  <2>a. \A v \in Workers : Locked(v)' \cap redelivering = {}
    <3>1. Locked(w)' \cap redelivering = {}
      BY <1>c DEF LockInv, LockedByOthers, Locked
    <3> QED
      BY <2>1, <3>1 DEF LockInv
  <2>4. \A v \in Workers : \A m \in claiming'[v] :
           /\ table[m].availableAt <= now[v]
           /\ m \in reclaimed[v] \/ table[m].status = "pending"
    BY <1>b, <1>c DEF LockInv
  <2> QED
    BY <2>3, <2>a, <2>4 DEF LockInv, Expired
<1>d. \A v \in Workers : InHand(v)' \subseteq InHand(v)
  BY <1>b, <1>c DEF InHand
<1>3. StoredInv'
  <2>1. \A v \in Workers : InHand(v)' \subseteq Visible(table)
    BY <1>d DEF StoredInv
  <2> QED
    BY <2>1 DEF StoredInv, Visible
<1>4. /\ ProcessedIsJustified' /\ FailedIsJustified' /\ NothingStranded'
      /\ CeilingInv' /\ ResultInv'
  BY DEF ProcessedIsJustified, FailedIsJustified, NothingStranded,
         CeilingInv, Unsettled, ResultInv, Justified
<1>5. LeaseInv'
  BY DEF LeaseInv, NoDoubleClaim
<1>6. GateInv'
  <2>1. ~overrun => \A v \in Workers \ Unordered : \A m \in InHand(v)' :
                       \A n \in Unsettled(table) \ late : ~Older(table, n, m)
    BY <1>d DEF GateInv
  <2> QED
    BY <2>1 DEF GateInv, Unsettled, Older
<1>7. EffectInv'
  BY EffectFrame
<1> QED
  BY <1>1, <1>2, <1>3, <1>4, <1>5, <1>6, <1>7

\* A step after which no worker has more rows in hand, no row of them is
\* older and, while leases hold, no settled row is unsettled, keeps the gate's
\* verdicts.
LEMMA GateFrame ==
    ASSUME GateInv, table \in [Messages -> Row],
           ~overrun' => ~overrun,
           late \subseteq late',
           ~overrun => Unsettled(table') \subseteq Unsettled(table),
           \A m \in Visible(table) : table'[m].receivedAt = table[m].receivedAt,
           \A v \in Workers : InHand(v)' \subseteq InHand(v),
           \A v \in Workers : InHand(v) \subseteq Visible(table)
    PROVE  GateInv'
<1> SUFFICES ASSUME ~overrun', NEW v \in Workers \ Unordered, NEW m \in InHand(v)',
                    NEW n \in Unsettled(table') \ late'
             PROVE  ~Older(table', n, m)
  BY DEF GateInv, Unsettled, Older, InHand
<1>1. n \in Unsettled(table) \ late /\ m \in InHand(v)
  OBVIOUS
<1>2. ~Older(table, n, m)
  BY <1>1 DEF GateInv
<1>3. n \in Visible(table) /\ m \in Visible(table)
  BY <1>1 DEF Unsettled, Visible, StoredStatus
<1> QED
  BY <1>2, <1>3 DEF Older

\* A step in which every open transaction either ends or keeps its locks,
\* and which changes no row that stays locked, keeps the locks sound.
LEMMA LockFrame ==
    ASSUME LockInv, reclaimed \in [Workers -> SUBSET Messages],
           claiming \in [Workers -> SUBSET Messages],
           redelivering' \subseteq redelivering,
           \A v \in Workers :
              \/ reclaimed'[v] = {} /\ claiming'[v] = {}
              \/ /\ reclaimed'[v] = reclaimed[v]
                 /\ claiming'[v] = claiming[v]
                 /\ now'[v] = now[v]
                 /\ \A m \in Locked(v) : table'[m] = table[m]
    PROVE  LockInv'
<1>1. \A v \in Workers : Locked(v)' \subseteq Locked(v)
  BY DEF Locked
<1>2. /\ \A u, v \in Workers : u # v => Locked(u)' \cap Locked(v)' = {}
      /\ \A v \in Workers : Locked(v)' \cap redelivering' = {}
  BY <1>1 DEF LockInv
<1>3. ASSUME NEW v \in Workers, NEW m \in reclaimed'[v]
      PROVE  m \in Expired(table', now'[v])
  <2>1. m \in reclaimed[v] /\ table'[m] = table[m] /\ now'[v] = now[v]
    BY <1>3 DEF Locked
  <2> QED
    BY <2>1 DEF LockInv, Expired
<1>4. ASSUME NEW v \in Workers, NEW m \in claiming'[v]
      PROVE  /\ table'[m].availableAt <= now'[v]
             /\ m \in reclaimed'[v] \/ table'[m].status = "pending"
  <2>1. /\ m \in claiming[v] /\ table'[m] = table[m] /\ now'[v] = now[v]
        /\ reclaimed'[v] = reclaimed[v]
    BY <1>4 DEF Locked
  <2> QED
    BY <2>1 DEF LockInv
<1> QED
  BY <1>2, <1>3, <1>4 DEF LockInv

\* The claim transaction commits.
LEMMA InvCommitClaim ==
    ASSUME IInv, TypeOK', NEW w \in Workers, CommitClaim(w)
    PROVE  IInv'
<1> USE DEF IInv, TypeOK, dbVars, txVars, passVars, ghostVars
<1>a. /\ pc[w] = "commit"
      /\ claimed_rows[w] = {} /\ candidates[w] = {}
      /\ now[w] <= clock
  BY DEF PhaseInv, CommitClaim
<1>b. /\ claimed_rows' = [claimed_rows EXCEPT ![w] = claiming[w]]
      /\ reclaimed' = [reclaimed EXCEPT ![w] = {}]
      /\ claiming' = [claiming EXCEPT ![w] = {}]
      /\ pc' = [pc EXCEPT ![w] = IF claiming[w] = {} THEN "idle" ELSE "evaluate"]
      /\ now' = [now EXCEPT ![w] = IF claiming[w] = {} THEN 0 ELSE now[w]]
      /\ \A m \in claiming[w] : seen'[w][m] = table[m].attempts
      /\ \A v \in Workers \ {w} : seen'[v] = seen[v]
      /\ UNCHANGED <<clock, redelivering, candidates, row, outcome, ghostVars>>
  BY DEF CommitClaim, Resume
<1>c. \A m \in Messages :
         /\ table'[m].attempts = table[m].attempts
         /\ table'[m].availableAt = table[m].availableAt
         /\ table'[m].receivedAt = table[m].receivedAt
         /\ m \in claiming[w] => /\ table'[m].status = "processing"
                                 /\ table'[m].leaseUntil = now[w] + LeaseDuration
         /\ m \in reclaimed[w] \ claiming[w] => table'[m].status = "pending"
         /\ m \notin Locked(w) => table'[m] = table[m]
  <2> SUFFICES ASSUME NEW m \in Messages
               PROVE  /\ table'[m].attempts = table[m].attempts
                      /\ table'[m].availableAt = table[m].availableAt
                      /\ table'[m].receivedAt = table[m].receivedAt
                      /\ m \in claiming[w] =>
                            /\ table'[m].status = "processing"
                            /\ table'[m].leaseUntil = now[w] + LeaseDuration
                      /\ m \in reclaimed[w] \ claiming[w] => table'[m].status = "pending"
                      /\ m \notin Locked(w) => table'[m] = table[m]
    OBVIOUS
  <2> DEFINE mine == View(w)[m]
  <2>1. /\ mine \in Row
        /\ mine.attempts = table[m].attempts
        /\ mine.availableAt = table[m].availableAt
        /\ mine.receivedAt = table[m].receivedAt
        /\ m \in reclaimed[w] => mine.status = "pending"
        /\ m \notin reclaimed[w] => mine = table[m]
    BY RowTypes, RowColumns DEF View, AfterReclaim
  <2>2. table'[m] = IF m \in claiming[w] THEN Claimed(mine, now[w]) ELSE mine
    BY DEF CommitClaim, AfterClaim
  <2> HIDE DEF mine
  <2> QED
    BY <2>1, <2>2, RowColumns DEF Locked
<1>d. \A m \in Locked(w) : /\ m \in Messages
                           /\ table[m].status \in {"pending", "processing"}
                           /\ table'[m].status \in {"pending", "processing"}
  BY <1>c DEF LockInv, Locked, Expired
<1>e. \A m \in Messages : table'[m].status \in StoredStatus
                             <=> table[m].status \in StoredStatus
  BY <1>c, <1>d DEF StoredStatus
<1>f. Unsettled(table') = Unsettled(table)
  BY <1>c, <1>d DEF Unsettled
<1>g. \A v \in Workers : InHand(v)' \subseteq InHand(v)
  BY <1>b DEF InHand
<1>1. PhaseInv'
  BY <1>a, <1>b DEF PhaseInv
<1>2. LockInv'
  <2>1. \A v \in Workers \ {w} : \A m \in Locked(v) : table'[m] = table[m]
    BY <1>c DEF LockInv, Locked
  <2>2. \A v \in Workers \ {w} : /\ now'[v] = now[v] /\ reclaimed'[v] = reclaimed[v]
                                 /\ claiming'[v] = claiming[v]
    BY <1>b
  <2>3. reclaimed'[w] = {} /\ claiming'[w] = {}
    BY <1>b
  <2> QED
    BY <1>b, <2>1, <2>2, <2>3, LockFrame
<1>3. StoredInv'
  <2>1. \A v \in Workers : InHand(v)' \subseteq Visible(table')
    BY <1>e, <1>g DEF StoredInv, Visible
  <2>2. redelivering \subseteq Visible(table')
    BY <1>e DEF StoredInv, Visible
  <2> QED
    BY <1>b, <1>c, <1>e, <2>1, <2>2 DEF StoredInv
<1>4. ResultInv'
  <2>1. \A v \in Workers : \A m \in claimed_rows'[v] : seen'[v][m] <= table'[m].attempts
    BY <1>b, <1>c DEF ResultInv, Row
  <2> QED
    BY <1>b, <2>1 DEF ResultInv, Justified
<1>5. ProcessedIsJustified' /\ FailedIsJustified'
  BY <1>b, <1>c, <1>d DEF ProcessedIsJustified, FailedIsJustified
<1>6. NothingStranded'
  <2>1. \A m \in Messages : m \in claiming[w] => table'[m].leaseUntil \in 0..(clock + LeaseDuration)
    BY <1>a, <1>c, StoreAssumption
  <2>2. \A m \in Messages : table'[m].status = "processing" =>
                               table'[m].leaseUntil \in 0..(clock + LeaseDuration)
    BY <1>c, <2>1 DEF NothingStranded, Locked
  <2>3. \A m \in Messages : table'[m].availableAt <= clock + MaxInterval
    BY <1>c DEF StoredInv
  <2> QED
    BY <1>b, <2>2, <2>3 DEF NothingStranded
<1>7. LeaseInv'
  <2> SUFFICES ASSUME ~overrun PROVE LeaseInv'
    BY <1>b DEF LeaseInv
  <2>1. \A v \in Workers \ {w} : \A m \in claimed_rows[v] : m \notin Locked(w)
    <3> SUFFICES ASSUME NEW v \in Workers \ {w}, NEW m \in claimed_rows[v], m \in Locked(w)
                 PROVE  FALSE
      OBVIOUS
    <3>1. table[m].status = "processing" /\ table[m].leaseUntil = now[v] + LeaseDuration
      BY DEF LeaseInv
    <3>2. clock <= now[v] + LeaseDuration
      BY DEF LeaseInv, PhaseInv
    <3>3. m \in reclaimed[w]
      BY <3>1 DEF LockInv, Locked
    <3>4. table[m].leaseUntil < now[w]
      BY <3>3 DEF LockInv, Expired
    <3> QED
      BY <1>a, <3>1, <3>2, <3>4, StoreAssumption
  <2>2. NoDoubleClaim'
    BY <1>b, <2>1 DEF LeaseInv, NoDoubleClaim, Locked
  <2>3. \A v \in Workers : pc'[v] # "idle" => clock <= now'[v] + LeaseDuration
    BY <1>a, <1>b DEF LeaseInv
  <2>4. \A v \in Workers \ {w} : \A m \in claimed_rows'[v] :
           /\ table'[m].status = "processing"
           /\ table'[m].leaseUntil = now'[v] + LeaseDuration
           /\ seen'[v][m] = table'[m].attempts
    BY <1>b, <1>c, <2>1 DEF LeaseInv
  <2>5. \A m \in claimed_rows'[w] :
           /\ table'[m].status = "processing"
           /\ table'[m].leaseUntil = now'[w] + LeaseDuration
           /\ seen'[w][m] = table'[m].attempts
    BY <1>b, <1>c
  <2> QED
    BY <1>b, <2>2, <2>3, <2>4, <2>5 DEF LeaseInv
<1>8. CeilingInv'
  BY <1>b, <1>c, <1>f DEF CeilingInv
<1>9. GateInv'
  <2>1. \A m \in Visible(table) : table'[m].receivedAt = table[m].receivedAt
    BY <1>c DEF Visible
  <2>2. \A v \in Workers : InHand(v) \subseteq Visible(table)
    BY DEF StoredInv
  <2> QED
    BY <1>b, <1>f, <1>g, <2>1, <2>2, GateFrame
<1>10. EffectInv'
  BY <1>b, EffectFrame
<1> QED
  BY <1>1, <1>2, <1>3, <1>4, <1>5, <1>6, <1>7, <1>8, <1>9, <1>10

\* The stale filter and the hook have answered.
LEMMA InvEvaluate ==
    ASSUME IInv, TypeOK', NEW w \in Workers, NEW m \in Messages,
           NEW decision \in Decision, Evaluate(w, m, decision)
    PROVE  IInv'
<1> USE DEF IInv, TypeOK, Evaluate, dbVars, txVars, passVars, ghostVars
<1>1. PhaseInv'
  BY DEF PhaseInv
<1>2. LockInv'
  BY LockFrame
<1>3. StoredInv'
  BY DEF StoredInv, InHand, Visible
<1>4. ResultInv'
  <2>1. dropped \subseteq dropped' /\ effects' = effects /\ outcome' = outcome
    OBVIOUS
  <2>2. ASSUME NEW v \in Workers, pc'[v] = "mark"
        PROVE  /\ outcome'[v] = "processed" =>
                     effects'[row'[v]] > 0 \/ row'[v] \in dropped'
               /\ outcome'[v] = "terminal" => row'[v] \in rejected'
    <3>1. CASE v = w
      <4>1. decision # "process" /\ row'[w] = m /\ m \in dropped'
        BY <2>2, <3>1
      <4>2. outcome[w] = "processed"
        BY DEF PhaseInv
      <4> QED
        BY <2>1, <3>1, <4>1, <4>2 DEF Justified
    <3>2. CASE v # w
      BY <2>1, <2>2, <3>2 DEF ResultInv, Justified
    <3> QED
      BY <3>1, <3>2
  <2> QED
    BY <2>2 DEF ResultInv, Justified
<1>5. /\ ProcessedIsJustified' /\ FailedIsJustified' /\ NothingStranded'
      /\ CeilingInv'
  BY DEF ProcessedIsJustified, FailedIsJustified, NothingStranded,
         CeilingInv, Unsettled
<1>6. LeaseInv'
  BY DEF LeaseInv, NoDoubleClaim
<1>7. GateInv'
  BY DEF GateInv, InHand, Unsettled, Older
<1>8. EffectInv'
  <2> SUFFICES ASSUME ~overrun, NEW v \in Workers, pc'[v] = "handle",
                      row'[v] \in ExactHook
               PROVE  effects[row'[v]] = 0
    BY DEF EffectInv
  <2>1. CASE v = w
    <3>1. decision = "process" /\ row'[w] = m /\ m \in ExactHook
      BY <2>1
    <3>2. effects[m] > 0 => "process" \notin Answers(w, m)
      BY <3>1 DEF Answers
    <3> QED
      BY <2>1, <3>1, <3>2
  <2>2. CASE v # w
    BY <2>2 DEF EffectInv
  <2> QED
    BY <2>1, <2>2
<1> QED
  BY <1>1, <1>2, <1>3, <1>4, <1>5, <1>6, <1>7, <1>8

\* The handler returns.
LEMMA InvHandle ==
    ASSUME IInv, TypeOK', NEW w \in Workers, NEW result \in Outcome,
           NEW applied \in BOOLEAN, Handle(w, result, applied)
    PROVE  IInv'
<1> USE DEF IInv, TypeOK, Handle, dbVars, txVars, passVars, ghostVars
<1>a. row[w] \in claimed_rows[w] /\ row[w] \in Messages
  BY DEF PhaseInv
<1>b. /\ \A m \in Messages : effects[m] <= effects'[m]
      /\ rejected \subseteq rejected'
      /\ result = "processed" => effects'[row[w]] > 0
      /\ result = "terminal" => row[w] \in rejected'
  <2>1. \A m \in Messages : effects[m] <= effects'[m]
    BY AppliedType
  <2>2. result = "processed" => effects'[row[w]] > 0
    BY <1>a DEF Applied
  <2> QED
    BY <2>1, <2>2
<1>c. \A m \in Messages : Justified(m) => Justified(m)'
  BY <1>b, JustifiedStays
<1>1. PhaseInv'
  BY DEF PhaseInv
<1>2. LockInv'
  BY LockFrame
<1>3. StoredInv'
  BY DEF StoredInv, InHand, Visible
<1>4. ResultInv'
  <2>1. ASSUME NEW v \in Workers, pc'[v] = "mark"
        PROVE  /\ outcome'[v] = "processed" =>
                     effects'[row'[v]] > 0 \/ row'[v] \in dropped'
               /\ outcome'[v] = "terminal" => row'[v] \in rejected'
    <3>1. CASE v = w
      BY <1>b, <3>1 DEF Justified
    <3>2. CASE v # w
      <4>1. row[v] \in Messages /\ pc[v] = "mark"
        BY <2>1, <3>2 DEF PhaseInv
      <4> QED
        BY <1>b, <1>c, <3>2, <4>1 DEF ResultInv, Justified
    <3> QED
      BY <3>1, <3>2
  <2> QED
    BY <2>1 DEF ResultInv, Justified
<1>5. ProcessedIsJustified'
  BY <1>c DEF ProcessedIsJustified, Justified
<1>6. FailedIsJustified' /\ NothingStranded' /\ CeilingInv'
  BY <1>b DEF FailedIsJustified, NothingStranded, CeilingInv, Unsettled
<1>7. LeaseInv'
  BY DEF LeaseInv, NoDoubleClaim
<1>8. GateInv'
  BY DEF GateInv, InHand, Unsettled, Older
<1>9. EffectInv'
  BY EffectApplied
<1> QED
  BY <1>1, <1>2, <1>3, <1>4, <1>5, <1>6, <1>7, <1>8, <1>9

\* A pass ends early: its transaction rolls back and its memory is gone.
LEMMA InvLeavePass ==
    ASSUME IInv, TypeOK', NEW w \in Workers, LeavePass(w),
           UNCHANGED <<dbVars, dropped, rejected, late, overrun>>,
           \/ effects' = effects
           \/ pc[w] = "handle" /\ effects' = Applied(row[w])
    PROVE  IInv'
<1> USE DEF IInv, TypeOK, dbVars
<1>a. /\ pc'[w] = "idle" /\ now'[w] = 0
      /\ reclaimed'[w] = {} /\ candidates'[w] = {} /\ claiming'[w] = {}
      /\ claimed_rows'[w] = {} /\ outcome'[w] = "processed"
  BY DEF LeavePass, Resume
<1>b. \A v \in Workers \ {w} :
         /\ pc'[v] = pc[v] /\ now'[v] = now[v]
         /\ reclaimed'[v] = reclaimed[v] /\ candidates'[v] = candidates[v]
         /\ claiming'[v] = claiming[v] /\ claimed_rows'[v] = claimed_rows[v]
         /\ seen'[v] = seen[v] /\ row'[v] = row[v] /\ outcome'[v] = outcome[v]
  BY DEF LeavePass, Resume
<1>1. PhaseInv'
  <2> SUFFICES ASSUME NEW v \in Workers
               PROVE  /\ now'[v] <= clock
                      /\ reclaimed'[v] # {} => pc'[v] \in {"select", "lock", "commit"}
                      /\ candidates'[v] # {} => pc'[v] = "lock"
                      /\ claiming'[v] # {} => pc'[v] = "commit"
                      /\ claimed_rows'[v] # {} => pc'[v] \in {"evaluate", "handle", "mark"}
                      /\ pc'[v] \in {"handle", "mark"} => row'[v] \in claimed_rows'[v]
                      /\ pc'[v] # "mark" => outcome'[v] = "processed"
    BY DEF PhaseInv
  <2>1. CASE v = w
    BY <1>a, <2>1
  <2>2. CASE v # w
    BY <1>b, <2>2 DEF PhaseInv
  <2> QED
    BY <2>1, <2>2
<1>2. LockInv'
  BY <1>a, <1>b, LockFrame
<1>c. \A v \in Workers : InHand(v)' \subseteq InHand(v)
  BY <1>a, <1>b DEF InHand
<1>3. StoredInv'
  BY <1>c DEF StoredInv, Visible
<1>d. \A m \in Messages : Justified(m) => Justified(m)'
  <2>1. CASE effects' = effects
    BY <2>1 DEF Justified
  <2>2. CASE effects' = Applied(row[w])
    BY <2>2, AppliedType, JustifiedStays
  <2> QED
    BY <2>1, <2>2
<1>4. ResultInv'
  <2>1. ASSUME NEW v \in Workers, v # w, pc'[v] = "mark"
        PROVE  /\ outcome'[v] = "processed" =>
                     effects'[row'[v]] > 0 \/ row'[v] \in dropped'
               /\ outcome'[v] = "terminal" => row'[v] \in rejected'
    <3>1. row'[v] = row[v] /\ row[v] \in Messages /\ pc[v] = "mark"
      BY <1>b, <2>1 DEF PhaseInv
    <3> QED
      BY <1>b, <1>d, <2>1, <3>1 DEF ResultInv, Justified
  <2>2. \A v \in Workers : \A m \in claimed_rows'[v] : seen'[v][m] <= table'[m].attempts
    BY <1>a, <1>b DEF ResultInv
  <2> QED
    BY <1>a, <2>1, <2>2 DEF ResultInv, Justified
<1>p. ProcessedIsJustified'
  BY <1>d DEF ProcessedIsJustified, Justified
<1>5. /\ FailedIsJustified' /\ NothingStranded'
      /\ CeilingInv'
  BY DEF FailedIsJustified, NothingStranded,
         CeilingInv, Unsettled
<1>6. LeaseInv'
  <2> SUFFICES ASSUME ~overrun PROVE LeaseInv'
    BY DEF LeaseInv
  <2>1. NoDoubleClaim'
    BY <1>a, <1>b DEF LeaseInv, NoDoubleClaim
  <2>2. \A v \in Workers : pc'[v] # "idle" => clock <= now'[v] + LeaseDuration
    BY <1>a, <1>b DEF LeaseInv
  <2>3. ASSUME NEW v \in Workers, NEW m \in claimed_rows'[v]
        PROVE  /\ table[m].status = "processing"
               /\ table[m].leaseUntil = now'[v] + LeaseDuration
               /\ seen'[v][m] = table[m].attempts
    <3>1. /\ v # w /\ m \in claimed_rows[v] /\ now'[v] = now[v]
          /\ seen'[v] = seen[v]
      BY <1>a, <1>b, <2>3
    <3> QED
      BY <3>1 DEF LeaseInv
  <2> QED
    BY <2>1, <2>2, <2>3 DEF LeaseInv
<1>7. GateInv'
  <2>1. \A v \in Workers : InHand(v) \subseteq Visible(table)
    BY DEF StoredInv
  <2> QED
    BY <1>c, <2>1, GateFrame
<1>8. EffectInv'
  <2>1. CASE effects' = effects
    BY <1>a, <1>b, <2>1, EffectFrame
  <2>2. CASE pc[w] = "handle" /\ effects' = Applied(row[w])
    BY <1>a, <1>b, <2>2, EffectApplied
  <2> QED
    BY <2>1, <2>2
<1> QED
  BY <1>1, <1>2, <1>3, <1>4, <1>p, <1>5, <1>6, <1>7, <1>8

\* Time passes.
LEMMA InvTick ==
    ASSUME IInv, TypeOK', Tick
    PROVE  IInv'
<1> USE DEF IInv, TypeOK, Tick, txVars, passVars
<1>1. PhaseInv'
  BY DEF PhaseInv
<1>2. LockInv'
  BY LockFrame
<1>3. StoredInv'
  BY RetryPolicyAssumption DEF StoredInv, InHand, Visible, Row
<1>4. /\ ResultInv' /\ ProcessedIsJustified' /\ FailedIsJustified'
      /\ CeilingInv'
  BY DEF ResultInv, Justified, ProcessedIsJustified, FailedIsJustified,
         CeilingInv, Unsettled
<1>5. NothingStranded'
  BY RetryPolicyAssumption, StoreAssumption DEF NothingStranded, Row
<1>6. LeaseInv'
  <2> SUFFICES ASSUME ~overrun' PROVE LeaseInv'
    BY DEF LeaseInv
  <2>1. ~overrun /\ \A w \in Workers : pc[w] # "idle" => ~(now[w] + LeaseDuration <= clock)
    OBVIOUS
  <2>2. \A w \in Workers : pc[w] # "idle" => clock' <= now[w] + LeaseDuration
    BY <2>1, StoreAssumption
  <2> QED
    BY <2>1, <2>2 DEF LeaseInv, NoDoubleClaim
<1>7. GateInv'
  BY DEF GateInv, InHand, Unsettled, Older
<1>8. EffectInv'
  BY EffectFrame
<1> QED
  BY <1>1, <1>2, <1>3, <1>4, <1>5, <1>6, <1>7, <1>8

\* mark_processed, mark_retry and mark_failed alike: a worker settles or
\* reschedules the row in its hand.
LEMMA InvMark ==
    ASSUME IInv, TypeOK', NEW w \in Workers, NEW r \in Row,
           CanMark(w), NextRow(w),
           UNCHANGED <<clock, redelivering, txVars, ghostVars>>,
           table' = [table EXCEPT ![row[w]] = r],
           r.status \in {"pending", "processed", "failed"},
           r.receivedAt = table[row[w]].receivedAt,
           table[row[w]].attempts <= r.attempts,
           r.availableAt <= clock + MaxInterval,
           r.status = "processed" => Justified(row[w]),
           r.status = "failed" => row[w] \in rejected \/ r.attempts >= MaxAttempts,
           ~overrun => /\ r.attempts <= MaxAttempts
                       /\ r.status = "pending" => r.attempts < MaxAttempts
    PROVE  IInv'
<1> USE DEF IInv, TypeOK, txVars, ghostVars
<1>a. /\ pc[w] = "mark" /\ row[w] \in claimed_rows[w] /\ row[w] \in Messages
      /\ reclaimed[w] = {} /\ candidates[w] = {} /\ claiming[w] = {}
      /\ row[w] \notin LockedByOthers(w)
  BY DEF PhaseInv, CanMark
<1>b. /\ claimed_rows'[w] = claimed_rows[w] \ {row[w]}
      /\ \A m \in claimed_rows'[w] : seen'[w][m] = seen[w][m]
      /\ pc'[w] = IF claimed_rows'[w] = {} THEN "idle" ELSE "evaluate"
      /\ outcome'[w] = "processed"
      /\ now'[w] = IF claimed_rows'[w] = {} THEN 0 ELSE now[w]
  BY <1>a DEF NextRow, Resume
<1>c. \A v \in Workers \ {w} :
         /\ pc'[v] = pc[v] /\ now'[v] = now[v] /\ claimed_rows'[v] = claimed_rows[v]
         /\ seen'[v] = seen[v] /\ row'[v] = row[v] /\ outcome'[v] = outcome[v]
  BY DEF NextRow, Resume
<1>d. /\ table'[row[w]] = r
      /\ \A m \in Messages \ {row[w]} : table'[m] = table[m]
  BY <1>a
<1>e. table[row[w]].status \in StoredStatus
  BY <1>a DEF StoredInv, InHand, Visible
<1>1. PhaseInv'
  <2> SUFFICES ASSUME NEW v \in Workers
               PROVE  /\ now'[v] <= clock
                      /\ reclaimed[v] # {} => pc'[v] \in {"select", "lock", "commit"}
                      /\ candidates[v] # {} => pc'[v] = "lock"
                      /\ claiming[v] # {} => pc'[v] = "commit"
                      /\ claimed_rows'[v] # {} => pc'[v] \in {"evaluate", "handle", "mark"}
                      /\ pc'[v] \in {"handle", "mark"} => row'[v] \in claimed_rows'[v]
                      /\ pc'[v] # "mark" => outcome'[v] = "processed"
    BY DEF PhaseInv
  <2>1. CASE v = w
    BY <1>a, <1>b, <2>1 DEF PhaseInv
  <2>2. CASE v # w
    BY <1>c, <2>2 DEF PhaseInv
  <2> QED
    BY <2>1, <2>2
<1>2. LockInv'
  <2>1. \A v \in Workers \ {w} : row[w] \notin Locked(v)
    BY <1>a DEF LockedByOthers, Locked
  <2>2. \A v \in Workers \ {w} : \A m \in Locked(v) : table'[m] = table[m]
    BY <1>d, <2>1 DEF Locked
  <2> QED
    BY <1>a, <1>c, <2>2, LockFrame
<1>f. \A v \in Workers : InHand(v)' \subseteq InHand(v)
  BY <1>b, <1>c DEF InHand
<1>3. StoredInv'
  <2>1. Visible(table') = Visible(table)
    BY <1>d, <1>e DEF Visible, StoredStatus
  <2>2. \A v \in Workers : InHand(v)' \subseteq Visible(table')
    BY <1>f, <2>1 DEF StoredInv
  <2>3. \A m \in Messages :
           /\ table'[m].status \notin StoredStatus => table'[m].attempts = 0
           /\ table'[m].availableAt <= clock + MaxInterval
    BY <1>d DEF StoredInv, StoredStatus
  <2> QED
    BY <2>1, <2>2, <2>3 DEF StoredInv
<1>4. ResultInv'
  <2>1. \A m \in Messages : table[m].attempts <= table'[m].attempts
    BY <1>d DEF Row
  <2>2. ASSUME NEW v \in Workers, NEW m \in claimed_rows'[v]
        PROVE  seen'[v][m] <= table'[m].attempts
    <3>1. m \in claimed_rows[v] /\ seen'[v][m] = seen[v][m] /\ m \in Messages
      BY <1>b, <1>c, <2>2
    <3>2. seen[v][m] <= table[m].attempts
      BY <3>1 DEF ResultInv
    <3>3. /\ seen[v][m] \in Nat /\ table[m].attempts \in Nat
          /\ table'[m].attempts \in Nat
      BY <3>1 DEF Row
    <3> QED
      BY <2>1, <3>1, <3>2, <3>3
  <2>3. \A v \in Workers :
           /\ pc'[v] = "mark" /\ outcome'[v] = "processed" => Justified(row'[v])
           /\ pc'[v] = "mark" /\ outcome'[v] = "terminal" => row'[v] \in rejected
    BY <1>b, <1>c DEF ResultInv, Justified
  <2> QED
    BY <2>2, <2>3 DEF ResultInv, Justified
<1>5. ProcessedIsJustified' /\ FailedIsJustified'
  BY <1>d DEF ProcessedIsJustified, Justified, FailedIsJustified
<1>6. NothingStranded'
  BY <1>d DEF NothingStranded
<1>7. LeaseInv'
  <2> SUFFICES ASSUME ~overrun PROVE LeaseInv'
    BY DEF LeaseInv
  <2>a. \A u, v \in Workers : u # v => claimed_rows[u] \cap claimed_rows[v] = {}
    BY DEF LeaseInv, NoDoubleClaim
  <2>b. \A v \in Workers : claimed_rows'[v] \subseteq claimed_rows[v]
    BY <1>b, <1>c
  <2>1. NoDoubleClaim'
    BY <2>a, <2>b DEF NoDoubleClaim
  <2>2. \A v \in Workers : pc'[v] # "idle" => clock <= now'[v] + LeaseDuration
    BY <1>a, <1>b, <1>c DEF LeaseInv
  <2>3. ASSUME NEW v \in Workers, NEW m \in claimed_rows'[v]
        PROVE  /\ table'[m].status = "processing"
               /\ table'[m].leaseUntil = now'[v] + LeaseDuration
               /\ seen'[v][m] = table'[m].attempts
    <3>1. /\ m \in claimed_rows[v] /\ seen'[v][m] = seen[v][m] /\ m \in Messages
          /\ now'[v] = now[v]
      BY <1>b, <1>c, <2>3
    <3>2. m # row[w]
      <4>1. CASE v = w
        BY <1>b, <2>3, <4>1
      <4>2. CASE v # w
        BY <1>a, <2>a, <3>1, <4>2
      <4> QED
        BY <4>1, <4>2
    <3> QED
      BY <1>d, <3>1, <3>2 DEF LeaseInv
  <2> QED
    BY <2>1, <2>2, <2>3 DEF LeaseInv
<1>8. CeilingInv'
  BY <1>d DEF CeilingInv, Unsettled
<1>9. GateInv'
  <2>1. \A m \in Visible(table) : table'[m].receivedAt = table[m].receivedAt
    BY <1>d DEF Visible
  <2>2. \A v \in Workers : InHand(v) \subseteq Visible(table)
    BY DEF StoredInv
  <2>3. ~overrun => row[w] \in Unsettled(table)
    BY <1>a DEF LeaseInv, Unsettled
  <2>4. ~overrun => Unsettled(table') \subseteq Unsettled(table)
    BY <1>d, <2>3 DEF Unsettled
  <2> QED
    BY <1>f, <2>1, <2>2, <2>4, GateFrame
<1>10. EffectInv'
  BY <1>b, <1>c, EffectFrame
<1> QED
  BY <1>1, <1>2, <1>3, <1>4, <1>5, <1>6, <1>7, <1>8, <1>9, <1>10

\* The applications: a row that is not committed is locked by no worker's
\* transaction and in no worker's hand.
LEMMA Untouched ==
    ASSUME IInv, NEW m \in Messages, table[m].status \in {"absent", "open"}
    PROVE  \A v \in Workers : m \notin Locked(v) /\ m \notin InHand(v)
<1>1. table[m].status \notin StoredStatus
  BY DEF StoredStatus
<1> QED
  BY <1>1 DEF IInv, LockInv, Locked, Expired, StoredInv, InHand, Visible

\* save_received and rollback: the uncommitted row comes and goes unseen.
LEMMA InvUncommitted ==
    ASSUME IInv, TypeOK', NEW m \in Messages, NEW r \in Row,
           table[m].status \in {"absent", "open"},
           table' = [table EXCEPT ![m] = r],
           r.status \in {"absent", "open"}, r.attempts = 0, r.availableAt <= clock,
           UNCHANGED <<clock, redelivering, pc, now, txVars, passVars, ghostVars>>
    PROVE  IInv'
<1> USE DEF IInv, TypeOK, txVars, passVars, ghostVars
<1>a. table'[m] = r /\ \A n \in Messages \ {m} : table'[n] = table[n]
  OBVIOUS
<1>b. \A v \in Workers : m \notin Locked(v) /\ m \notin InHand(v)
  BY Untouched
<1>c. \A v \in Workers : InHand(v)' = InHand(v) /\ InHand(v) \subseteq Messages
  BY DEF InHand
<1>d. /\ Visible(table') = Visible(table) /\ m \notin Visible(table)
      /\ Unsettled(table') = Unsettled(table)
  BY <1>a DEF Visible, Unsettled, StoredStatus
<1>1. PhaseInv'
  BY DEF PhaseInv
<1>2. LockInv'
  <2>1. \A v \in Workers : \A n \in Locked(v) : table'[n] = table[n]
    BY <1>a, <1>b DEF Locked
  <2> QED
    BY <2>1, LockFrame
<1>3. StoredInv'
  <2>1. r.availableAt <= clock + MaxInterval
    BY RetryPolicyAssumption DEF Row
  <2> QED
    <3>1. redelivering' = redelivering /\ clock' = clock
      OBVIOUS
    <3>2. \A v \in Workers : InHand(v)' \subseteq Visible(table')
      BY <1>c, <1>d DEF StoredInv
    <3>3. redelivering' \subseteq Visible(table')
      BY <1>d, <3>1 DEF StoredInv
    <3>4. \A n \in Messages :
             /\ table'[n].status \notin StoredStatus => table'[n].attempts = 0
             /\ table'[n].availableAt <= clock + MaxInterval
      BY <1>a, <2>1 DEF StoredInv
    <3> QED
      BY <3>1, <3>2, <3>3, <3>4 DEF StoredInv
<1>4. ResultInv'
  BY <1>a, <1>b DEF ResultInv, Justified, InHand
<1>5. ProcessedIsJustified' /\ FailedIsJustified' /\ NothingStranded'
  BY <1>a DEF ProcessedIsJustified, FailedIsJustified, NothingStranded
<1>6. LeaseInv'
  BY <1>a, <1>b DEF LeaseInv, NoDoubleClaim, InHand
<1>7. CeilingInv'
  BY <1>a, <1>d, RetryPolicyAssumption DEF CeilingInv
<1>8. GateInv'
  <2>1. \A n \in Visible(table) : table'[n].receivedAt = table[n].receivedAt
    BY <1>a, <1>d DEF Visible
  <2>2. \A v \in Workers : InHand(v) \subseteq Visible(table)
    BY DEF StoredInv
  <2> QED
    BY <1>c, <1>d, <2>1, <2>2, GateFrame
<1>9. EffectInv'
  BY EffectFrame
<1> QED
  BY <1>1, <1>2, <1>3, <1>4, <1>5, <1>6, <1>7, <1>8, <1>9

\* The application commits: the row becomes visible, and is late if a younger
\* row of its group already was.
LEMMA InvCommitReceive ==
    ASSUME IInv, TypeOK', NEW m \in Messages, CommitReceive(m)
    PROVE  IInv'
<1> USE DEF IInv, TypeOK, CommitReceive, txVars, passVars
<1>a. /\ table'[m] = [table[m] EXCEPT !.status = "pending"]
      /\ \A n \in Messages \ {m} : table'[n] = table[n]
  OBVIOUS
<1>b. /\ table'[m].status = "pending"
      /\ table'[m].attempts = table[m].attempts
      /\ table'[m].availableAt = table[m].availableAt
      /\ table'[m].receivedAt = table[m].receivedAt
  BY <1>a DEF Row
<1>c. \A v \in Workers : m \notin Locked(v) /\ m \notin InHand(v)
  BY Untouched
<1>d. \A v \in Workers : InHand(v)' = InHand(v) /\ InHand(v) \subseteq Messages
  BY DEF InHand
<1>e. /\ Visible(table) \subseteq Visible(table')
      /\ Unsettled(table') \subseteq Unsettled(table) \cup {m}
      /\ table[m].attempts = 0
  BY <1>a, <1>b DEF Visible, Unsettled, StoredStatus, StoredInv
<1>1. PhaseInv'
  BY DEF PhaseInv
<1>2. LockInv'
  <2>1. \A v \in Workers : \A n \in Locked(v) : table'[n] = table[n]
    BY <1>a, <1>c DEF Locked
  <2> QED
    BY <2>1, LockFrame
<1>3. StoredInv'
  <2>1. \A v \in Workers : InHand(v)' \subseteq Visible(table')
    BY <1>d, <1>e DEF StoredInv
  <2>2. \A n \in Messages :
           /\ table'[n].status \notin StoredStatus => table'[n].attempts = 0
           /\ table'[n].availableAt <= clock + MaxInterval
    BY <1>a, <1>b DEF StoredInv, StoredStatus
  <2> QED
    BY <1>e, <2>1, <2>2 DEF StoredInv
<1>4. ResultInv'
  BY <1>a, <1>c DEF ResultInv, Justified, InHand
<1>5. ProcessedIsJustified' /\ FailedIsJustified'
  BY <1>a, <1>b DEF ProcessedIsJustified, FailedIsJustified
<1>6. NothingStranded'
  BY <1>a, <1>b DEF NothingStranded, StoredInv
<1>7. LeaseInv'
  BY <1>a, <1>c DEF LeaseInv, NoDoubleClaim, InHand
<1>8. CeilingInv'
  BY <1>a, <1>b, <1>e, RetryPolicyAssumption DEF CeilingInv, Unsettled
<1>9. GateInv'
  <2> SUFFICES ASSUME ~overrun, NEW v \in Workers \ Unordered, NEW n \in InHand(v)',
                      NEW o \in Unsettled(table') \ late'
               PROVE  ~Older(table', o, n)
    BY DEF GateInv, Unsettled, Older, InHand
  <2>1. n \in InHand(v) /\ n \in Visible(table) /\ n \in Messages /\ o \in Messages
    BY <1>d, <1>e DEF StoredInv, Unsettled
  <2>2. Older(table', o, n) <=> Older(table, o, n)
    BY <1>a, <1>b, <2>1 DEF Older
  <2>3. CASE o = m
    <3>1. ~Older(table, m, n)
      BY <2>1, <2>3
    <3> QED
      BY <2>2, <2>3, <3>1
  <2>4. CASE o # m
    BY <1>e, <2>1, <2>2, <2>4 DEF GateInv
  <2> QED
    BY <2>3, <2>4
<1>10. EffectInv'
  BY EffectFrame
<1> QED
  BY <1>1, <1>2, <1>3, <1>4, <1>5, <1>6, <1>7, <1>8, <1>9, <1>10

\* A duplicate receipt locks a stored row that nobody else has locked, and
\* its transaction ends.
LEMMA InvReceiveAgain ==
    ASSUME IInv, TypeOK', NEW m \in Messages, ReceiveAgain(m) \/ EndReceiveAgain(m)
    PROVE  IInv'
<1> USE DEF IInv, TypeOK
<1>a. /\ UNCHANGED <<table, clock, pc, now, reclaimed, candidates, claiming>>
      /\ UNCHANGED <<claimed_rows, seen, row, outcome>>
      /\ UNCHANGED <<effects, dropped, rejected, late, overrun>>
  BY DEF ReceiveAgain, EndReceiveAgain, txVars, passVars, ghostVars
<1>b. /\ redelivering' \subseteq Visible(table)
      /\ \A v \in Workers : Locked(v) \cap redelivering' = {}
  <2>1. CASE ReceiveAgain(m)
    BY <2>1 DEF ReceiveAgain, StoredInv, LockInv, Locked
  <2>2. CASE EndReceiveAgain(m)
    BY <2>2 DEF EndReceiveAgain, StoredInv, LockInv
  <2> QED
    BY <2>1, <2>2
<1>1. PhaseInv'
  BY <1>a DEF PhaseInv
<1>2. LockInv'
  BY <1>a, <1>b DEF LockInv, Locked, Expired
<1>3. StoredInv'
  BY <1>a, <1>b DEF StoredInv, InHand, Visible
<1>4. /\ ProcessedIsJustified' /\ FailedIsJustified' /\ NothingStranded'
      /\ CeilingInv' /\ ResultInv'
  BY <1>a DEF ProcessedIsJustified, FailedIsJustified, NothingStranded,
              CeilingInv, Unsettled, ResultInv, Justified
<1>5. LeaseInv' /\ EffectInv'
  BY <1>a DEF LeaseInv, NoDoubleClaim, EffectInv
<1>6. GateInv'
  BY <1>a DEF GateInv, InHand, Unsettled, Older
<1> QED
  BY <1>1, <1>2, <1>3, <1>4, <1>5, <1>6

\* The three mark_* updates are instances of InvMark.
LEMMA InvMarks ==
    ASSUME IInv, TypeOK', NEW w \in Workers,
           MarkProcessed(w) \/ MarkRetry(w) \/ MarkFailed(w)
    PROVE  IInv'
<1> DEFINE old == table[row[w]]
           tries == seen[w][row[w]]
<1>a. /\ CanMark(w) /\ NextRow(w)
      /\ UNCHANGED <<clock, redelivering, txVars, ghostVars>>
      /\ pc[w] = "mark"
  BY DEF MarkProcessed, MarkRetry, MarkFailed, CanMark
<1>b. /\ row[w] \in claimed_rows[w] /\ row[w] \in Messages
      /\ old \in Row /\ old.attempts \in Nat /\ tries \in Nat /\ clock \in Nat
  BY <1>a DEF IInv, TypeOK, PhaseInv, Row
<1>c. /\ tries <= old.attempts
      /\ old.availableAt <= clock + MaxInterval
  BY <1>a, <1>b DEF IInv, ResultInv, StoredInv
<1>d. ~overrun => /\ tries = old.attempts
                  /\ old.attempts < MaxAttempts
  BY <1>b DEF IInv, LeaseInv, CeilingInv, Unsettled
<1>1. CASE MarkProcessed(w)
  <2> DEFINE r == Processed(old)
  <2>1. table' = [table EXCEPT ![row[w]] = r] /\ outcome[w] = "processed"
    BY <1>1 DEF MarkProcessed
  <2>2. /\ r \in Row /\ r.status = "processed" /\ r.receivedAt = old.receivedAt
        /\ r.attempts = old.attempts /\ r.availableAt = old.availableAt
    BY <1>b, RowTypes, RowColumns
  <2>3. Justified(row[w])
    BY <1>a, <2>1 DEF IInv, ResultInv
  <2> HIDE DEF r
  <2>4. /\ old.attempts <= r.attempts
        /\ ~overrun => r.attempts <= MaxAttempts
    BY <1>b, <1>d, <2>2, RetryPolicyAssumption
  <2> QED
    BY <1>a, <1>c, <2>1, <2>2, <2>3, <2>4, InvMark
<1>2. CASE MarkRetry(w)
  <2>a. PICK t \in now[w]..clock :
           table' = [table EXCEPT ![row[w]] = RetryScheduled(old, NextRetryAt(tries, t))]
    BY <1>2 DEF MarkRetry
  <2>b. t \in Nat /\ t <= clock
    BY <1>b DEF IInv, TypeOK
  <2> DEFINE due == NextRetryAt(tries, t)
             r == RetryScheduled(old, due)
  <2>1. table' = [table EXCEPT ![row[w]] = r] /\ ~ReachesCeiling(tries)
    BY <1>2, <2>a DEF MarkRetry
  <2>2. due \in Nat /\ due <= clock + MaxInterval
    <3>1. Backoff(tries) \in Nat /\ Backoff(tries) <= MaxInterval
      BY <1>b, <2>1, BackoffBounded
    <3> QED
      BY <1>b, <2>b, <3>1, RetryPolicyAssumption DEF NextRetryAt
  <2> HIDE DEF due
  <2>3. /\ r \in Row /\ r.status = "pending" /\ r.receivedAt = old.receivedAt
        /\ r.attempts = old.attempts + 1 /\ r.availableAt = due
    <3>1. old \in Row
      BY <1>b
    <3> HIDE DEF old
    <3>2. r \in Row
      BY <2>2, <3>1, RowTypes
    <3>3. /\ r.status = "pending" /\ r.receivedAt = old.receivedAt
          /\ r.attempts = old.attempts + 1 /\ r.availableAt = due
      BY <2>2, <3>1, RowColumns
    <3> QED
      BY <3>2, <3>3
  <2>4. ~overrun => old.attempts + 1 < MaxAttempts
    BY <1>b, <1>d, <2>1, RetryPolicyAssumption DEF ReachesCeiling
  <2> HIDE DEF r
  <2>5. /\ old.attempts <= r.attempts
        /\ ~overrun => r.attempts <= MaxAttempts /\ r.attempts < MaxAttempts
    BY <1>b, <2>3, <2>4, RetryPolicyAssumption
  <2> QED
    BY <1>a, <2>1, <2>2, <2>3, <2>5, InvMark
<1>3. CASE MarkFailed(w)
  <2> DEFINE r == Failed(old)
  <2>1. /\ table' = [table EXCEPT ![row[w]] = r]
        /\ outcome[w] = "terminal" \/ ReachesCeiling(tries)
    BY <1>3 DEF MarkFailed
  <2>2. /\ r \in Row /\ r.status = "failed" /\ r.receivedAt = old.receivedAt
        /\ r.attempts = old.attempts + 1 /\ r.availableAt = old.availableAt
    BY <1>b, RowTypes, RowColumns
  <2>3. row[w] \in rejected \/ r.attempts >= MaxAttempts
    <3>1. CASE outcome[w] = "terminal"
      BY <1>a, <3>1 DEF IInv, ResultInv
    <3>2. CASE ReachesCeiling(tries)
      BY <1>b, <1>c, <2>2, <3>2, RetryPolicyAssumption DEF ReachesCeiling
    <3> QED
      BY <2>1, <3>1, <3>2
  <2> HIDE DEF r
  <2>4. /\ old.attempts <= r.attempts
        /\ ~overrun => r.attempts <= MaxAttempts
    BY <1>b, <1>d, <2>2, RetryPolicyAssumption
  <2> QED
    BY <1>a, <1>c, <2>1, <2>2, <2>3, <2>4, InvMark
<1> QED
  BY <1>1, <1>2, <1>3

LEMMA InvNext == IInv /\ [Next]_vars => IInv'
<1> SUFFICES ASSUME IInv, [Next]_vars PROVE IInv'
  OBVIOUS
<1>a. TypeOK'
  BY TypeNext DEF IInv
<1>b. table \in [Messages -> Row] /\ clock \in Nat
  BY DEF IInv, TypeOK
<1>1. ASSUME NEW m \in Messages, Receive(m) PROVE IInv'
  <2>1. /\ ReceivedRow(clock) \in Row /\ ReceivedRow(clock).status = "open"
        /\ ReceivedRow(clock).attempts = 0
        /\ ReceivedRow(clock).availableAt <= clock
    <3>1. table[m] \in Row
      BY <1>b, <1>1
    <3>2. ReceivedRow(clock) \in Row
      BY <1>b, <3>1, RowTypes
    <3>3. /\ ReceivedRow(clock).status = "open" /\ ReceivedRow(clock).attempts = 0
          /\ ReceivedRow(clock).availableAt = clock
      BY DEF ReceivedRow
    <3> QED
      BY <1>b, <3>2, <3>3
  <2> QED
    BY <1>a, <1>1, <2>1, InvUncommitted DEF Receive
<1>2. ASSUME NEW m \in Messages, CommitReceive(m) PROVE IInv'
  BY <1>a, <1>2, InvCommitReceive
<1>3. ASSUME NEW m \in Messages, RollbackReceive(m) PROVE IInv'
  <2>1. /\ AbsentRow \in Row /\ AbsentRow.status = "absent"
        /\ AbsentRow.attempts = 0 /\ AbsentRow.availableAt <= clock
    <3>1. table[m] \in Row
      BY <1>b, <1>3
    <3>2. AbsentRow \in Row
      BY <1>b, <3>1, RowTypes
    <3>3. /\ AbsentRow.status = "absent" /\ AbsentRow.attempts = 0
          /\ AbsentRow.availableAt = 0
      BY DEF AbsentRow
    <3> QED
      BY <1>b, <3>2, <3>3
  <2> QED
    BY <1>a, <1>3, <2>1, InvUncommitted DEF RollbackReceive
<1>4. ASSUME NEW w \in Workers, RunOnce(w) PROVE IInv'
  BY <1>a, <1>4, InvRunOnce
<1>5. ASSUME NEW w \in Workers, ReclaimExpired(w) PROVE IInv'
  BY <1>a, <1>5, InvReclaimExpired
<1>6. ASSUME NEW w \in Workers, ClaimSnapshot(w) PROVE IInv'
  BY <1>a, <1>6, InvClaimSnapshot
<1>7. ASSUME NEW w \in Workers, ClaimReady(w) PROVE IInv'
  BY <1>a, <1>7, InvClaimReady
<1>8. ASSUME NEW w \in Workers, CommitClaim(w) PROVE IInv'
  BY <1>a, <1>8, InvCommitClaim
<1>r. ASSUME NEW m \in Messages, ReceiveAgain(m) \/ EndReceiveAgain(m) PROVE IInv'
  BY <1>a, <1>r, InvReceiveAgain
<1>9. ASSUME NEW w \in Workers, NEW m \in Messages, NEW decision \in Decision,
             Evaluate(w, m, decision)
      PROVE  IInv'
  BY <1>a, <1>9, InvEvaluate
<1>h. ASSUME NEW w \in Workers, NEW result \in Outcome, NEW applied \in BOOLEAN,
             Handle(w, result, applied)
      PROVE  IInv'
  BY <1>a, <1>h, InvHandle
<1>10. ASSUME NEW w \in Workers, NEW applied \in BOOLEAN, HandlerRaises(w, applied)
       PROVE  IInv'
  BY <1>a, <1>10, InvLeavePass DEF HandlerRaises
<1>11. ASSUME NEW w \in Workers, Crash(w) PROVE IInv'
  BY <1>a, <1>11, InvLeavePass DEF Crash, ghostVars
<1>12. ASSUME NEW w \in Workers, MarkProcessed(w) \/ MarkRetry(w) \/ MarkFailed(w)
       PROVE  IInv'
  BY <1>a, <1>12, InvMarks
<1>13. CASE Tick
  BY <1>a, <1>13, InvTick
<1>14. CASE UNCHANGED vars
  BY <1>14 DEF vars, IInv, TypeOK, PhaseInv, LockInv, Locked, Expired, StoredInv,
     InHand, Visible, ResultInv, Justified, EffectInv, ProcessedIsJustified, FailedIsJustified,
     NothingStranded, LeaseInv, NoDoubleClaim, CeilingInv, Unsettled,
     GateInv, Older
<1> QED
  BY <1>1, <1>2, <1>3, <1>4, <1>5, <1>6, <1>7, <1>8, <1>9, <1>10, <1>11, <1>12,
     <1>13, <1>14, <1>r, <1>h DEF Next, Step

-----------------------------------------------------------------------------
(* The properties *)

\* The protocol's inductive invariant holds in every reachable state.
THEOREM InvariantHolds == Spec => []IInv
<1> QED
  BY InvInit, InvNext, PTL DEF Spec

\* Every reachable state has every variable in its type, for every number of
\* workers and messages and every retry policy.
THEOREM InboxTypeCorrect == Spec => []TypeOK
<1>1. IInv => TypeOK
  BY DEF IInv
<1> QED
  BY <1>1, InvariantHolds, PTL

\* While no pass has outlived its lease, an exact idempotency hook is enough
\* for one effect per message, although evaluate and handle are separate
\* awaits, workers die in between and the message is received again.
THEOREM EffectAtMostOnceHolds == Spec => []EffectAtMostOnce
<1>1. IInv => EffectAtMostOnce
  BY DEF IInv, EffectInv, EffectAtMostOnce
<1> QED
  BY <1>1, InvariantHolds, PTL

\* While no pass has outlived its lease, rows claimed by a FIFO worker have no
\* older unsettled row in their group other than ones committed late, whatever
\* unordered workers do to the same table.
THEOREM FifoPerGroupHolds == Spec => []FifoPerGroup
<1>1. IInv => FifoPerGroup
  BY DEF IInv, GateInv, InHand, FifoPerGroup
<1> QED
  BY <1>1, InvariantHolds, PTL

\* A row marked processed was applied by a handler or dropped by the filter or
\* the hook, whoever marked it and however late.
THEOREM ProcessedIsJustifiedHolds == Spec => []ProcessedIsJustified
<1>1. IInv => ProcessedIsJustified
  BY DEF IInv
<1> QED
  BY <1>1, InvariantHolds, PTL

\* A row marked failed was rejected or has used up its attempts.
THEOREM FailedIsJustifiedHolds == Spec => []FailedIsJustified
<1>1. IInv => FailedIsJustified
  BY DEF IInv
<1> QED
  BY <1>1, InvariantHolds, PTL

\* Every unsettled row becomes claimable within a bounded time.
THEOREM NothingStrandedHolds == Spec => []NothingStranded
<1>1. IInv => NothingStranded
  BY DEF IInv
<1> QED
  BY <1>1, InvariantHolds, PTL

-----------------------------------------------------------------------------
(* InboxRunner implements LeaseQueue: the initial states map to initial     *)
(* states, and every step taken from a state of the inductive invariant     *)
(* maps to a step of the queue or to a stutter.                             *)

\* What the mapped variables are at a message.
LEMMA MappedAt ==
    ASSUME NEW m \in Messages
    PROVE  /\ States[m] = QueueState(table[m].status)
           /\ States'[m] = QueueState(table'[m].status)
           /\ Tries[m] = table[m].attempts
           /\ Tries'[m] = table'[m].attempts
BY DEF States, Tries

LEMMA QueueStates ==
    /\ QueueState("absent") = "absent" /\ QueueState("open") = "absent"
    /\ QueueState("pending") = "waiting" /\ QueueState("processing") = "held"
    /\ QueueState("processed") = "done" /\ QueueState("failed") = "dead"
BY DEF QueueState

\* A step that leaves every row's status and attempts as the queue sees them
\* leaves the mapped table unchanged.
LEMMA MappedUnchanged ==
    ASSUME \A m \in Messages :
              /\ QueueState(table'[m].status) = QueueState(table[m].status)
              /\ table'[m].attempts = table[m].attempts
    PROVE  States' = States /\ Tries' = Tries
BY DEF States, Tries

LEMMA RefineInit == Init => Queue!Init
<1> SUFFICES ASSUME Init PROVE Queue!Init
  OBVIOUS
<1>1. \A m \in Messages : table[m].status = "absent" /\ table[m].attempts = 0
  BY DEF Init, AbsentRow
<1>2. States = [m \in Messages |-> "absent"] /\ Tries = [m \in Messages |-> 0]
  BY <1>1, QueueStates DEF States, Tries
<1>3. ~overrun = TRUE
  BY DEF Init
<1> QED
  BY <1>2, <1>3 DEF Init, Queue!Init

\* save_received and its rollback: the queue does not see uncommitted rows.
LEMMA RefineUncommitted ==
    ASSUME IInv, NEW m \in Messages, Receive(m) \/ RollbackReceive(m)
    PROVE  UNCHANGED Queue!queueVars
<1> USE DEF IInv, TypeOK, dbVars, txVars, passVars, ghostVars
<1>1. /\ table[m].status \in {"absent", "open"} /\ table[m].attempts = 0
  BY DEF Receive, RollbackReceive, StoredInv, StoredStatus
<1>2. /\ table'[m].status \in {"absent", "open"} /\ table'[m].attempts = 0
      /\ \A n \in Messages \ {m} : table'[n] = table[n]
  BY DEF Receive, RollbackReceive, ReceivedRow, AbsentRow
<1>3. States' = States /\ Tries' = Tries
  BY <1>1, <1>2, QueueStates, MappedUnchanged
<1> QED
  BY <1>3 DEF Receive, RollbackReceive, Queue!queueVars

\* The commit of save_received puts the message into the queue.
LEMMA RefineCommitReceive ==
    ASSUME IInv, NEW m \in Messages, CommitReceive(m)
    PROVE  Queue!Put(m)
<1> USE DEF IInv, TypeOK
<1>1. /\ table[m].status = "open" /\ table[m] \in Row
      /\ table' = [table EXCEPT ![m].status = "pending"]
      /\ UNCHANGED <<claimed_rows, overrun>>
  BY DEF CommitReceive, passVars
<1>2. /\ table'[m].status = "pending" /\ table'[m].attempts = table[m].attempts
      /\ \A n \in Messages \ {m} : table'[n] = table[n]
  BY <1>1 DEF Row
<1>3. States[m] = "absent"
  BY <1>1, MappedAt, QueueStates
<1>4. States' = [States EXCEPT ![m] = "waiting"]
  BY <1>2, QueueStates DEF States
<1>5. Tries' = Tries
  BY <1>2 DEF Tries
<1> QED
  BY <1>1, <1>3, <1>4, <1>5 DEF Queue!Put

\* The commit of the claim transaction takes the claimed rows and returns the
\* reclaimed ones; while leases are kept, no one is working on those.
LEMMA RefineCommitClaim ==
    ASSUME IInv, NEW w \in Workers, CommitClaim(w)
    PROVE  Queue!Take(w, reclaimed[w], claiming[w])
<1> USE DEF IInv, TypeOK
<1>1. /\ claimed_rows[w] = {}
      /\ claimed_rows' = [claimed_rows EXCEPT ![w] = claiming[w]]
      /\ table' = AfterClaim(AfterReclaim(table, reclaimed[w]), claiming[w], now[w])
      /\ overrun' = overrun
  BY DEF CommitClaim, PhaseInv, View, ghostVars
<1>2. \A m \in reclaimed[w] : /\ m \in Messages
                              /\ table[m].status = "processing"
                              /\ table[m].leaseUntil < now[w]
  BY DEF LockInv, Expired
<1>3. reclaimed[w] \subseteq Queue!InState("held")
  BY <1>2, MappedAt, QueueStates DEF Queue!InState
<1>4. ~overrun => reclaimed[w] \cap Queue!InHands = {}
  <2> SUFFICES ASSUME ~overrun, NEW v \in Workers, NEW m \in claimed_rows[v],
                      m \in reclaimed[w]
               PROVE  FALSE
    BY DEF Queue!InHands
  <2>1. table[m].leaseUntil = now[v] + LeaseDuration /\ pc[v] # "idle"
    BY DEF LeaseInv, PhaseInv
  <2>2. clock <= now[v] + LeaseDuration /\ now[w] <= clock
    BY <2>1 DEF LeaseInv, PhaseInv
  <2>3. now[v] + LeaseDuration < now[w]
    BY <1>2, <2>1
  <2> QED
    BY <2>2, <2>3, StoreAssumption
<1>5. claiming[w] \subseteq reclaimed[w] \cup Queue!InState("waiting")
  BY MappedAt, QueueStates DEF LockInv, Queue!InState
<1>6. \A m \in Messages :
         /\ m \in claiming[w] =>
               table'[m].status = "processing" /\ table'[m].attempts = table[m].attempts
         /\ m \in reclaimed[w] \ claiming[w] =>
               table'[m].status = "pending" /\ table'[m].attempts = table[m].attempts
         /\ m \notin reclaimed[w] \cup claiming[w] => table'[m] = table[m]
  <2> TAKE m \in Messages
  <2>1. /\ table[m] \in Row /\ now[w] \in Nat
        /\ Reclaimed(table[m]) \in Row
    BY RowTypes
  <2> QED
    BY <1>1, <2>1, RowColumns DEF AfterClaim, AfterReclaim
<1>7. States' = [m \in Messages |-> CASE m \in claiming[w] -> "held"
                                      [] m \in reclaimed[w] \ claiming[w] -> "waiting"
                                      [] OTHER -> States[m]]
  BY <1>6, QueueStates DEF States
<1>8. Tries' = Tries
  BY <1>6 DEF Tries
<1> QED
  BY <1>1, <1>3, <1>4, <1>5, <1>7, <1>8 DEF Queue!Take

\* An abandoned pass drops its rows and touches nothing else.
LEMMA RefineLeavePass ==
    ASSUME IInv, NEW w \in Workers, LeavePass(w), UNCHANGED <<table, overrun>>
    PROVE  Queue!Drop(w)
<1>1. States' = States /\ Tries' = Tries
  BY DEF States, Tries
<1> QED
  BY <1>1 DEF LeavePass, Queue!Drop

\* A mark_* update records the result of a row the worker has in hand.
LEMMA RefineMarks ==
    ASSUME IInv, NEW w \in Workers, NEW r \in Row,
           CanMark(w), NextRow(w), UNCHANGED <<txVars, ghostVars>>,
           table' = [table EXCEPT ![row[w]] = r]
    PROVE  /\ row[w] \in Messages
           /\ Queue!Record(w, row[w], QueueState(r.status))
           /\ Tries' = [Tries EXCEPT ![row[w]] = r.attempts]
<1> USE DEF IInv, TypeOK
<1>1. row[w] \in claimed_rows[w] /\ row[w] \in Messages
  BY DEF CanMark, PhaseInv
<1>2. /\ claimed_rows' = [claimed_rows EXCEPT ![w] = @ \ {row[w]}]
      /\ overrun' = overrun
  BY DEF NextRow, ghostVars
<1>3. table'[row[w]] = r /\ \A n \in Messages \ {row[w]} : table'[n] = table[n]
  BY <1>1
<1>4. States' = [States EXCEPT ![row[w]] = QueueState(r.status)]
  BY <1>1, <1>3 DEF States
<1>5. Tries' = [Tries EXCEPT ![row[w]] = r.attempts]
  BY <1>1, <1>3 DEF Tries
<1> QED
  BY <1>1, <1>2, <1>4, <1>5 DEF Queue!Record

LEMMA RefineStepOfMark ==
    ASSUME IInv, NEW w \in Workers,
           MarkProcessed(w) \/ MarkRetry(w) \/ MarkFailed(w)
    PROVE  \E m \in Messages :
              Queue!Finish(w, m) \/ Queue!Return(w, m) \/ Queue!GiveUp(w, m)
<1> DEFINE m == row[w]
           old == table[m]
<1>1. /\ CanMark(w) /\ NextRow(w) /\ UNCHANGED <<txVars, ghostVars>>
      /\ m \in claimed_rows[w] /\ m \in Messages /\ old \in Row
      /\ old.attempts \in Nat /\ seen[w][m] \in Nat
  BY DEF MarkProcessed, MarkRetry, MarkFailed, CanMark, PhaseInv, Row, IInv, TypeOK
<1>2. CASE MarkProcessed(w)
  <2>1. table' = [table EXCEPT ![m] = Processed(old)]
    BY <1>1, <1>2 DEF MarkProcessed
  <2>2. /\ Processed(old) \in Row /\ Processed(old).status = "processed"
        /\ Processed(old).attempts = old.attempts
    BY <1>1, RowTypes, RowColumns
  <2>3. /\ Queue!Record(w, m, "done")
        /\ Tries' = [Tries EXCEPT ![m] = old.attempts]
    BY <1>1, <2>1, <2>2, RefineMarks, QueueStates
  <2>4. Tries' = Tries
    BY <1>1, <2>3 DEF Tries
  <2>5. Queue!Finish(w, m)
    BY <2>3, <2>4 DEF Queue!Finish
  <2> QED
    BY <1>1, <2>5
<1>3. CASE MarkRetry(w)
  <2>1. PICK t \in now[w]..clock :
           table' = [table EXCEPT ![m] =
                        RetryScheduled(old, NextRetryAt(seen[w][m], t))]
    BY <1>1, <1>3 DEF MarkRetry
  <2>2. NextRetryAt(seen[w][m], t) \in Nat
    BY <1>1, <1>3, <2>1, BackoffBounded DEF MarkRetry, NextRetryAt, IInv, TypeOK
  <2> DEFINE r == RetryScheduled(old, NextRetryAt(seen[w][m], t))
  <2>3. r \in Row /\ r.status = "pending" /\ r.attempts = old.attempts + 1
    BY <1>1, <2>2, RowTypes, RowColumns
  <2>4. /\ Queue!Record(w, m, "waiting")
        /\ Tries' = [Tries EXCEPT ![m] = old.attempts + 1]
    BY <1>1, <2>1, <2>3, RefineMarks, QueueStates
  <2>5. Tries[m] = old.attempts
    BY <1>1, MappedAt
  <2>6. ~overrun => Tries[m] + 1 < MaxAttempts
    BY <1>1, <1>3, <2>5, RetryPolicyAssumption 
    DEF IInv, LeaseInv, MarkRetry, ReachesCeiling
  <2>7. Queue!Return(w, m)
    BY <2>4, <2>5, <2>6 DEF Queue!Return
  <2> QED
    BY <1>1, <2>7
<1>4. CASE MarkFailed(w)
  <2>1. table' = [table EXCEPT ![m] = Failed(old)]
    BY <1>1, <1>4 DEF MarkFailed
  <2>2. /\ Failed(old) \in Row /\ Failed(old).status = "failed"
        /\ Failed(old).attempts = old.attempts + 1
    BY <1>1, RowTypes, RowColumns
  <2>3. /\ Queue!Record(w, m, "dead")
        /\ Tries' = [Tries EXCEPT ![m] = old.attempts + 1]
    BY <1>1, <2>1, <2>2, RefineMarks, QueueStates
  <2>4. Tries[m] = old.attempts
    BY <1>1, MappedAt
  <2>5. Queue!GiveUp(w, m)
    BY <2>3, <2>4 DEF Queue!GiveUp
  <2> QED
    BY <1>1, <2>5
<1> QED
  BY <1>2, <1>3, <1>4

\* Every step of the workers and receivers is a step of the queue.
LEMMA RefineNext == IInv /\ [Next]_vars => [Queue!Next]_(Queue!queueVars)
<1> SUFFICES ASSUME IInv, [Next]_vars
             PROVE  Queue!Next \/ UNCHANGED Queue!queueVars
  OBVIOUS
<1>1. ASSUME NEW m \in Messages, Receive(m) \/ RollbackReceive(m)
      PROVE  UNCHANGED Queue!queueVars
  BY <1>1, RefineUncommitted
<1>2. ASSUME NEW m \in Messages, CommitReceive(m) PROVE Queue!Next
  BY <1>2, RefineCommitReceive DEF Queue!Next
<1>3. ASSUME NEW w \in Workers,
             \/ RunOnce(w) \/ ReclaimExpired(w) \/ ClaimSnapshot(w) \/ ClaimReady(w)
      PROVE  UNCHANGED Queue!queueVars
  <2>1. UNCHANGED <<table, claimed_rows, overrun>>
    BY <1>3 DEF RunOnce, ReclaimExpired, ClaimSnapshot, ClaimReady,
                dbVars, passVars, ghostVars
  <2> QED
    BY <2>1 DEF Queue!queueVars, States, Tries
<1>4. ASSUME NEW w \in Workers, CommitClaim(w) PROVE Queue!Next
  <2>1. reclaimed[w] \in SUBSET Messages /\ claiming[w] \in SUBSET Messages
    BY DEF IInv, TypeOK
  <2> QED
    BY <1>4, <2>1, RefineCommitClaim DEF Queue!Next
<1>r. ASSUME NEW m \in Messages, ReceiveAgain(m) \/ EndReceiveAgain(m)
      PROVE  UNCHANGED Queue!queueVars
  <2>1. UNCHANGED <<table, claimed_rows, overrun>>
    BY <1>r DEF ReceiveAgain, EndReceiveAgain, passVars, ghostVars
  <2> QED
    BY <2>1 DEF Queue!queueVars, States, Tries
<1>e. ASSUME NEW w \in Workers, NEW m \in Messages, NEW decision \in Decision,
             Evaluate(w, m, decision)
      PROVE  UNCHANGED Queue!queueVars
  <2>1. UNCHANGED <<table, claimed_rows, overrun>>
    BY <1>e DEF Evaluate, dbVars
  <2> QED
    BY <2>1 DEF Queue!queueVars, States, Tries
<1>5. ASSUME NEW w \in Workers, NEW result \in Outcome, NEW applied \in BOOLEAN,
             Handle(w, result, applied)
      PROVE  UNCHANGED Queue!queueVars
  <2>1. UNCHANGED <<table, claimed_rows, overrun>>
    BY <1>5 DEF Handle, dbVars
  <2> QED
    BY <2>1 DEF Queue!queueVars, States, Tries
<1>6. ASSUME NEW w \in Workers, NEW applied \in BOOLEAN, HandlerRaises(w, applied)
      PROVE  Queue!Next
  <2>1. LeavePass(w) /\ UNCHANGED <<table, overrun>>
    BY <1>6 DEF HandlerRaises, dbVars
  <2> QED
    BY <2>1, RefineLeavePass DEF Queue!Next
<1>7. ASSUME NEW w \in Workers, Crash(w) PROVE Queue!Next
  <2>1. LeavePass(w) /\ UNCHANGED <<table, overrun>>
    BY <1>7 DEF Crash, dbVars, ghostVars
  <2> QED
    BY <2>1, RefineLeavePass DEF Queue!Next
<1>8. ASSUME NEW w \in Workers, MarkProcessed(w) \/ MarkRetry(w) \/ MarkFailed(w)
      PROVE  Queue!Next
  BY <1>8, RefineStepOfMark DEF Queue!Next
<1>9. CASE Tick
  <2>1. UNCHANGED <<table, claimed_rows>> /\ (overrun => overrun')
    BY <1>9 DEF Tick, passVars
  <2>2. UNCHANGED <<States, Tries, claimed_rows>>
    BY <2>1 DEF States, Tries
  <2>3. overrun \in BOOLEAN /\ overrun' \in BOOLEAN
    BY TypeNext DEF IInv, TypeOK
  <2>4. CASE overrun'
    <3>1. (~overrun') = FALSE
      BY <2>4, <2>3
    <3> QED
      BY <2>2, <3>1 DEF Queue!Next, Queue!Overrun
  <2>5. CASE ~overrun'
    <3>1. (~overrun') = (~overrun)
      BY <2>1, <2>3, <2>5
    <3> QED
      BY <2>2, <3>1 DEF Queue!queueVars
  <2> QED
    BY <2>4, <2>5
<1>10. CASE UNCHANGED vars
  <2>1. UNCHANGED <<table, claimed_rows, overrun>>
    BY <1>10 DEF vars
  <2> QED
    BY <2>1 DEF Queue!queueVars, States, Tries
<1> QED
  BY <1>1, <1>2, <1>3, <1>4, <1>5, <1>6, <1>7, <1>8, <1>9, <1>10,
     <1>r, <1>e DEF Next, Step

\* The inbox workers, FIFO and unordered, implement the lease queue next to
\* receivers of new messages and of duplicates: whatever the interleaving of
\* run_once's statements, handlers, crashes and late mark_* updates, rows
\* change hands only as LeaseQueue allows.
THEOREM InboxImplementsLeaseQueue == Spec => ImplementsLeaseQueue
<1> QED
  BY RefineInit, RefineNext, InvariantHolds, PTL
  DEF Spec, ImplementsLeaseQueue, Queue!Spec
=============================================================================
