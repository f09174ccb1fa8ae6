-------------------------- MODULE WorkerLoopProofs --------------------------
(***************************************************************************)
(* Proof, for every set of rows, grouping, batch size, retry policy and    *)
(* set of raising publishers, that the worker loop settles the rows of a   *)
(* group in order.  What the loop settles in the end is left to TLC.       *)
(***************************************************************************)
EXTENDS WorkerLoop, TLAPS

\* n is ahead of m in m's (event_type, ordering_key) group.
Ahead(n, m) == n < m /\ Group[n] = Group[m] /\ Group[m] # NoGroup

LoopTypeOK ==
    /\ status \in [Rows -> {"pending", "processing", "published", "failed"}]
    /\ ripe \subseteq Rows
    /\ batch \subseteq Rows

\* What is claimable or claimed is not settled, so nothing rewrites a settled
\* row; and what is claimed is not claimable, so its turn lasts.
UnsettledInv ==
    /\ ripe \cap batch = {}
    /\ \A m \in ripe \cup batch : ~Settled(m)

\* The verdict of the FIFO gate lasts as long as the batch: everything ahead
\* of a claimed row is settled.
TurnInv ==
    \A m \in batch, n \in Rows : Ahead(n, m) => Settled(n)

LoopInv ==
    /\ LoopTypeOK
    /\ UnsettledInv
    /\ TurnInv
    /\ SettledInOrder

LEMMA LoopInit == Init => LoopInv
BY DEF Init, LoopInv, LoopTypeOK, UnsettledInv, TurnInv, SettledInOrder, Settled

\* The claim transaction settles nothing and unsettles nothing.
LEMMA RunOnceKeeps == LoopInv /\ RunOnce => LoopInv'
<1> SUFFICES ASSUME LoopInv, RunOnce PROVE LoopInv'
  OBVIOUS
<1> USE DEF LoopInv
<1>1. PICK rows \in SUBSET Claimable :
         /\ batch' = rows
         /\ ripe' = ripe \ rows
         /\ status' = [m \in Rows |-> CASE m \in rows -> "processing"
                                        [] m \in ripe \ rows -> "pending"
                                        [] OTHER -> status[m]]
  BY DEF RunOnce
<1>2. rows \subseteq ripe /\ ripe \subseteq Rows
  BY DEF Claimable, LoopTypeOK
<1>3. \A m \in Rows :
         /\ m \in rows => status'[m] = "processing"
         /\ m \in ripe \ rows => status'[m] = "pending"
         /\ m \notin ripe => status'[m] = status[m]
  BY <1>1, <1>2
<1>4. \A m \in Rows : Settled(m)' <=> Settled(m)
  BY <1>2, <1>3 DEF Settled, UnsettledInv
<1>5. LoopTypeOK'
  BY <1>1, <1>2 DEF LoopTypeOK
<1>6. UnsettledInv'
  BY <1>1, <1>2, <1>4 DEF UnsettledInv
<1>7. TurnInv'
  <2> SUFFICES ASSUME NEW m \in batch', NEW n \in Rows, Ahead(n, m) PROVE Settled(n)'
    BY DEF TurnInv, Ahead
  <2>1. m \in Claimable
    BY <1>1
  <2>2. Settled(n)
    BY <2>1 DEF Claimable, Ahead
  <2> QED
    BY <1>4, <2>2
<1>8. SettledInOrder'
  BY <1>4 DEF SettledInOrder
<1> QED
  BY <1>5, <1>6, <1>7, <1>8

LEMMA RaiseKeeps ==
    ASSUME LoopInv, NEW m \in Rows, Raise(m)
    PROVE  LoopInv'
BY DEF LoopInv, Raise, LoopTypeOK, UnsettledInv, TurnInv, SettledInOrder, Settled

\* A row is settled only in its turn.
LEMMA SettleKeeps ==
    ASSUME LoopInv, NEW m \in Rows, NEW outcome \in {"published", "retryable", "terminal"},
           Settle(m, outcome)
    PROVE  LoopInv'
<1> USE DEF LoopInv
<1>1. m \in batch /\ batch' = batch \ {m} /\ ripe' = ripe
  BY DEF Settle
<1>2. /\ status' \in [Rows -> {"pending", "processing", "published", "failed"}]
      /\ \A n \in Rows \ {m} : status'[n] = status[n]
  <2> DEFINE next == CASE outcome = "published" -> "published"
                       [] outcome = "terminal" -> "failed"
                       [] outcome = "retryable" ->
                             IF ReachesCeiling(attempts[m]) THEN "failed" ELSE "pending"
  <2>1. next \in {"published", "failed", "pending"}
    OBVIOUS
  <2>2. status' = [status EXCEPT ![m] = next]
    BY DEF Settle
  <2> HIDE DEF next
  <2> QED
    BY <2>1, <2>2 DEF LoopTypeOK
<1>3. \A n \in Rows \ {m} : Settled(n)' <=> Settled(n)
  BY <1>2 DEF Settled
<1>4. ~Settled(m)
  BY <1>1 DEF UnsettledInv
<1>5. LoopTypeOK'
  BY <1>1, <1>2 DEF LoopTypeOK
<1>6. UnsettledInv'
  <2>1. \A n \in ripe' \cup batch' : n \in Rows \ {m} /\ ~Settled(n)
    BY <1>1 DEF UnsettledInv, LoopTypeOK
  <2> QED
    BY <1>1, <1>3, <2>1 DEF UnsettledInv
<1>7. TurnInv'
  <2> SUFFICES ASSUME NEW k \in batch', NEW n \in Rows, Ahead(n, k) PROVE Settled(n)'
    BY DEF TurnInv, Ahead
  <2>1. Settled(n)
    BY <1>1 DEF TurnInv
  <2> QED
    BY <1>3, <1>4, <2>1
<1>8. SettledInOrder'
  <2> SUFFICES ASSUME NEW k \in Rows, NEW n \in Rows, Ahead(n, k), Settled(k)'
               PROVE  Settled(n)'
    BY DEF SettledInOrder, Ahead
  <2>1. n # k
    BY LoopAssumption DEF Ahead
  <2>2. Settled(n)
    <3>1. CASE k = m
      BY <1>1, <3>1 DEF TurnInv
    <3>2. CASE k # m
      BY <1>3, <3>2 DEF SettledInOrder, Ahead
    <3> QED
      BY <3>1, <3>2
  <2> QED
    BY <1>3, <1>4, <2>2
<1> QED
  BY <1>5, <1>6, <1>7, <1>8

LEMMA RipenKeeps ==
    ASSUME LoopInv, NEW m \in Rows, Ripen(m)
    PROVE  LoopInv'
BY DEF LoopInv, Ripen, LoopTypeOK, UnsettledInv, TurnInv, SettledInOrder, Settled

LEMMA LoopNext == LoopInv /\ [Next]_vars => LoopInv'
<1> SUFFICES ASSUME LoopInv, [Next]_vars PROVE LoopInv'
  OBVIOUS
<1>1. CASE UNCHANGED vars
  BY <1>1 DEF vars, LoopInv, LoopTypeOK, UnsettledInv, TurnInv, SettledInOrder, Settled
<1>2. CASE RunOnce
  BY <1>2, RunOnceKeeps
<1>3. CASE Publish
  BY <1>3, RaiseKeeps, SettleKeeps DEF Publish
<1>4. CASE \E m \in Rows : Ripen(m)
  BY <1>4, RipenKeeps
<1> QED
  BY <1>1, <1>2, <1>3, <1>4 DEF Next

\* For every set of rows, grouping, batch size and retry policy, and whichever
\* publishers raise, the rows of a group are settled in the order in which
\* they were appended: an aborted batch, a retry or a reclaimed lease never
\* lets a younger row settle first.
THEOREM SettledInOrderHolds == Spec => []SettledInOrder
<1>1. LoopInv => SettledInOrder
  BY DEF LoopInv
<1> QED
  BY <1>1, LoopInit, LoopNext, PTL DEF Spec
=============================================================================
