------------------------- MODULE InboxReceiptProofs -------------------------
(***************************************************************************)
(* Receipt is exactly once for any number of messages and receivers, on    *)
(* both databases and at both isolation levels.                            *)
(***************************************************************************)
EXTENDS InboxReceipt, TLAPS

\* Two open transactions never have inserted the same message.
DisjointInserts ==
    \A r, s \in Receivers : r # s => inserting[r] \cap inserting[s] = {}

\* The inductive invariant behind InsertedExactlyOnce.
ReceiptInv == ReceiptTypeOK /\ DisjointInserts /\ InsertedExactlyOnce

LEMMA ReceiptInvInit == ReceiptInit => ReceiptInv
BY DEF ReceiptInit, ReceiptInv, ReceiptTypeOK, DisjointInserts, InsertedExactlyOnce

\* The end of a transaction forgets what it had inserted and locked.
LEMMA EndedTransaction ==
    ASSUME ReceiptTypeOK, NEW r \in Receivers, EndTransaction(r)
    PROVE  /\ inserting' \in [Receivers -> SUBSET Keys]
           /\ duplicates' \in [Receivers -> SUBSET Keys]
           /\ reading' \in [Receivers -> SUBSET Keys]
           /\ snapshot' \in [Receivers -> SUBSET SUBSET Keys]
           /\ \A s \in Receivers : /\ inserting'[s] \subseteq inserting[s]
                                   /\ s # r => /\ reading'[s] = reading[s]
                                               /\ duplicates'[s] = duplicates[s]
           /\ inserting'[r] = {} /\ reading'[r] = {} /\ duplicates'[r] = {}
BY DEF ReceiptTypeOK, EndTransaction

LEMMA SnapshotType ==
    ASSUME ReceiptTypeOK, NEW r \in Receivers, FixSnapshot(r)
    PROVE  snapshot' \in [Receivers -> SUBSET SUBSET Keys]
BY DEF ReceiptTypeOK, FixSnapshot

\* A key that gets past the unique index is neither stored nor being inserted.
LEMMA FreeKey ==
    ASSUME NEW r \in Receivers, NEW k \in Keys,
           Entry[k] \notin Entries(TakenByOthers(r)),
           Entry[k] \notin Entries(stored \cup inserting[r])
    PROVE  k \notin stored /\ \A s \in Receivers \ {r} : k \notin inserting[s]
<1>1. k \notin stored
  BY DEF Entries
<1>2. k \notin TakenByOthers(r)
  BY DEF Entries
<1> QED
  BY <1>1, <1>2 DEF TakenByOthers, Mine

LEMMA InvSaveReceived ==
    ASSUME ReceiptInv, NEW r \in Receivers, NEW k \in Keys, SaveReceived(r, k)
    PROVE  ReceiptInv'
<1> USE DEF ReceiptInv, ReceiptTypeOK, SaveReceived
<1>1. CASE Entry[k] \notin Entries(stored \cup inserting[r])
  <2>1. /\ inserting' = [inserting EXCEPT ![r] = @ \cup {k}]
        /\ UNCHANGED <<stored, duplicates, reading, snapshot, insertions, noRow>>
    BY <1>1
  <2>2. k \notin stored /\ \A s \in Receivers \ {r} : k \notin inserting[s]
    BY <1>1, FreeKey
  <2>3. ReceiptTypeOK'
    BY <2>1, <2>2
  <2>4. DisjointInserts'
    BY <2>1, <2>2 DEF DisjointInserts
  <2>5. InsertedExactlyOnce'
    BY <2>1 DEF InsertedExactlyOnce
  <2> QED
    BY <2>3, <2>4, <2>5
<1>2. CASE Entry[k] \in Entries(stored \cup inserting[r])
  <2>1. /\ duplicates' = [duplicates EXCEPT ![r] = @ \cup {k}]
        /\ UNCHANGED <<stored, inserting, snapshot, insertions, noRow>>
    BY <1>2
  <2>2. reading' = reading \/ reading' = [reading EXCEPT ![r] = {k}]
    BY <1>2
  <2>3. ReceiptTypeOK'
    BY <2>1, <2>2
  <2>4. DisjointInserts' /\ InsertedExactlyOnce'
    BY <2>1 DEF DisjointInserts, InsertedExactlyOnce
  <2> QED
    BY <2>3, <2>4
<1> QED
  BY <1>1, <1>2

LEMMA InvCommit ==
    ASSUME ReceiptInv, NEW r \in Receivers, Commit(r)
    PROVE  ReceiptInv'
<1> USE DEF ReceiptInv, ReceiptTypeOK
<1>1. /\ stored' = stored \cup inserting[r] /\ noRow' = noRow
      /\ EndTransaction(r)
      /\ insertions' = [k \in Keys |-> IF k \in inserting[r] /\ insertions[k] < 2
                                       THEN insertions[k] + 1 ELSE insertions[k]]
  BY DEF Commit
<1>2. /\ \A s \in Receivers : inserting'[s] \subseteq inserting[s]
      /\ inserting'[r] = {}
  BY <1>1, EndedTransaction
<1>3. \A s \in Receivers : inserting'[s] \cap stored' = {}
  BY <1>1, <1>2 DEF DisjointInserts
<1>4. insertions' \in [Keys -> 0..2]
  BY <1>1
<1>5. \A s \in Receivers : reading'[s] \subseteq duplicates'[s]
  BY <1>1, EndedTransaction
<1>6. ReceiptTypeOK'
  BY <1>1, <1>3, <1>4, <1>5, EndedTransaction
<1>7. DisjointInserts'
  BY <1>2 DEF DisjointInserts
<1>8. InsertedExactlyOnce'
  BY <1>1 DEF InsertedExactlyOnce
<1> QED
  BY <1>6, <1>7, <1>8

\* A step that stores nothing and inserts nothing keeps the invariant.
LEMMA InvShrinks ==
    ASSUME ReceiptInv, ReceiptTypeOK', UNCHANGED <<stored, insertions>>,
           \A s \in Receivers : inserting'[s] \subseteq inserting[s]
    PROVE  ReceiptInv'
BY DEF ReceiptInv, DisjointInserts, InsertedExactlyOnce

LEMMA InvRollback ==
    ASSUME ReceiptInv, NEW r \in Receivers, EndTransaction(r),
           UNCHANGED <<stored, insertions>>, noRow' \subseteq Receivers
    PROVE  ReceiptInv'
<1>1. ReceiptTypeOK
  BY DEF ReceiptInv
<1>2. \A s \in Receivers : /\ inserting'[s] \subseteq inserting[s]
                           /\ reading'[s] \subseteq duplicates'[s]
  BY <1>1, EndedTransaction DEF ReceiptTypeOK
<1>3. ReceiptTypeOK'
  BY <1>1, <1>2, EndedTransaction DEF ReceiptTypeOK
<1> QED
  BY <1>2, <1>3, InvShrinks

LEMMA InvReadBack ==
    ASSUME ReceiptInv, NEW r \in Receivers, ReadBack(r)
    PROVE  ReceiptInv'
<1>1. ReceiptTypeOK /\ UNCHANGED <<stored, insertions>>
  BY DEF ReceiptInv, ReadBack
<1>2. CASE Found(r)
  <2>1. /\ reading' = [reading EXCEPT ![r] = {}]
        /\ UNCHANGED <<inserting, duplicates, noRow>>
        /\ FixSnapshot(r)
    BY <1>2 DEF ReadBack
  <2>2. ReceiptTypeOK'
    BY <1>1, <2>1, SnapshotType DEF ReceiptTypeOK
  <2> QED
    BY <1>1, <2>1, <2>2, InvShrinks
<1>3. CASE ~Found(r)
  <2>1. EndTransaction(r) /\ noRow' \subseteq Receivers
    BY <1>1, <1>3 DEF ReadBack, ReceiptTypeOK
  <2> QED
    BY <1>1, <2>1, InvRollback
<1> QED
  BY <1>2, <1>3

LEMMA InvReceiptNext == ReceiptInv /\ [ReceiptNext]_receiptVars => ReceiptInv'
<1> SUFFICES ASSUME ReceiptInv, [ReceiptNext]_receiptVars PROVE ReceiptInv'
  OBVIOUS
<1>1. ASSUME NEW r \in Receivers, ReadBefore(r) PROVE ReceiptInv'
  <2>1. FixSnapshot(r) /\ UNCHANGED <<stored, inserting, duplicates, reading, insertions, noRow>>
    BY <1>1 DEF ReadBefore
  <2>2. ReceiptTypeOK'
    BY <2>1, SnapshotType DEF ReceiptInv, ReceiptTypeOK
  <2> QED
    BY <2>1, <2>2, InvShrinks
<1>2. ASSUME NEW r \in Receivers, NEW k \in Keys, SaveReceived(r, k) PROVE ReceiptInv'
  BY <1>2, InvSaveReceived
<1>3. ASSUME NEW r \in Receivers, ReadBack(r) PROVE ReceiptInv'
  BY <1>3, InvReadBack
<1>4. ASSUME NEW r \in Receivers, Commit(r) PROVE ReceiptInv'
  BY <1>4, InvCommit
<1>5. ASSUME NEW r \in Receivers, Rollback(r) PROVE ReceiptInv'
  BY <1>5, InvRollback DEF Rollback, ReceiptInv, ReceiptTypeOK
<1>6. CASE UNCHANGED receiptVars
  BY <1>6 DEF receiptVars, ReceiptInv, ReceiptTypeOK, DisjointInserts, InsertedExactlyOnce
<1> QED
  BY <1>1, <1>2, <1>3, <1>4, <1>5, <1>6 DEF ReceiptNext

\* Every variable of the receivers stays in its type.
THEOREM ReceiptTypeCorrect == ReceiptSpec => []ReceiptTypeOK
<1>1. ReceiptInv => ReceiptTypeOK
  BY DEF ReceiptInv
<1> QED
  BY <1>1, ReceiptInvInit, InvReceiptNext, PTL DEF ReceiptSpec

\* save_received reports one message as inserted exactly once, to a
\* transaction that commits, however many receivers store it at once.
THEOREM InsertedExactlyOnceHolds == ReceiptSpec => []InsertedExactlyOnce
<1>1. ReceiptInv => InsertedExactlyOnce
  BY DEF ReceiptInv
<1> QED
  BY <1>1, ReceiptInvInit, InvReceiptNext, PTL DEF ReceiptSpec

LEMMA DurableNext ==
    ASSUME \A j, k \in Keys : Entry[j] = Entry[k] => j = k,
           ReceiptTypeOK, DuplicateIsDurable, [ReceiptNext]_receiptVars
    PROVE  DuplicateIsDurable'
<1> USE DEF ReceiptTypeOK, DuplicateIsDurable
<1>1. ASSUME NEW r \in Receivers, NEW k \in Keys, SaveReceived(r, k)
      PROVE  DuplicateIsDurable'
  <2>1. CASE Entry[k] \notin Entries(stored \cup inserting[r])
    BY <1>1, <2>1 DEF SaveReceived
  <2>2. CASE Entry[k] \in Entries(stored \cup inserting[r])
    <3>1. k \in stored \cup inserting[r]
      BY <2>2 DEF Entries
    <3> QED
      BY <1>1, <2>2, <3>1 DEF SaveReceived
  <2> QED
    BY <2>1, <2>2
<1>2. ASSUME NEW r \in Receivers, EndTransaction(r), stored \subseteq stored'
      PROVE  DuplicateIsDurable'
  <2>1. /\ duplicates'[r] = {}
        /\ \A s \in Receivers \ {r} : /\ duplicates'[s] = duplicates[s]
                                       /\ inserting'[s] = inserting[s]
    BY <1>2 DEF EndTransaction
  <2> QED
    BY <1>2, <2>1
<1>3. ASSUME NEW r \in Receivers, ReadBack(r) PROVE DuplicateIsDurable'
  BY <1>2, <1>3 DEF ReadBack
<1>4. ASSUME NEW r \in Receivers, Commit(r) \/ Rollback(r) PROVE DuplicateIsDurable'
  BY <1>2, <1>4 DEF Commit, Rollback
<1>5. ASSUME NEW r \in Receivers, ReadBefore(r) PROVE DuplicateIsDurable'
  BY <1>5 DEF ReadBefore
<1>6. CASE UNCHANGED receiptVars
  BY <1>6 DEF receiptVars
<1> QED
  BY <1>1, <1>3, <1>4, <1>5, <1>6 DEF ReceiptNext

\* When different ids are different to the unique index, a receiver is told
\* "duplicate" only of a message that is committed or that its own transaction
\* has inserted, however often a transaction saves the same message.
THEOREM DuplicateIsDurableHolds ==
    ASSUME \A j, k \in Keys : Entry[j] = Entry[k] => j = k
    PROVE  ReceiptSpec => []DuplicateIsDurable
<1>1. ReceiptInit => DuplicateIsDurable
  BY DEF ReceiptInit, DuplicateIsDurable
<1>2. ReceiptTypeOK /\ DuplicateIsDurable /\ [ReceiptNext]_receiptVars
         => DuplicateIsDurable'
  BY DurableNext
<1> QED
  BY <1>1, <1>2, ReceiptTypeCorrect, PTL DEF ReceiptSpec

-----------------------------------------------------------------------------
(* The read-back *)

\* Why the read-back finds its row: the row that made INSERT IGNORE a no-op
\* is committed or the transaction's own, and no snapshot hides it.  A transaction that is only one
\* save_received takes its snapshot, if any, no earlier than its read-back.
ReadBackInv ==
    /\ \A r \in Receivers :
          /\ Entries(reading[r]) \subseteq Entries(stored \cup inserting[r])
          /\ Isolation # "repeatable read" => snapshot[r] = {}
          /\ r \in Alone /\ snapshot[r] # {} => Mine(r) # {} /\ reading[r] = {}
    /\ ReadBackFindsRow

\* A read-back that no earlier snapshot affects finds its row.
LEMMA FoundUnlessStale ==
    ASSUME TooLong = {}, ReadBackInv, NEW r \in Receivers, reading[r] # {},
           Isolation = "repeatable read" => r \in Alone
    PROVE  Found(r)
<1>1. snapshot[r] = {}
  BY ReceiptAssumption DEF ReadBackInv
<1>2. Entries(reading[r]) \subseteq Entries(Seen(r))
  BY <1>1 DEF ReadBackInv, Seen, Entries
<1> QED
  BY <1>2 DEF Found

LEMMA ReadBackNext ==
    ASSUME TooLong = {}, ReceiptTypeOK, ReadBackInv, [ReceiptNext]_receiptVars
    PROVE  ReadBackInv'
<1> USE DEF ReceiptTypeOK
<1>1. ASSUME NEW r \in Receivers, ReadBefore(r) PROVE ReadBackInv'
  <2>1. /\ r \notin Alone /\ FixSnapshot(r)
        /\ UNCHANGED <<stored, inserting, duplicates, reading, noRow>>
    BY <1>1 DEF ReadBefore
  <2>2. \A s \in Receivers \ {r} : snapshot'[s] = snapshot[s]
    BY <2>1 DEF FixSnapshot
  <2>3. Isolation # "repeatable read" => snapshot' = snapshot
    BY <2>1 DEF FixSnapshot
  <2> QED
    BY <2>1, <2>2, <2>3 DEF ReadBackInv, ReadBackFindsRow, Mine, Entries
<1>2. ASSUME NEW r \in Receivers, NEW k \in Keys, SaveReceived(r, k)
      PROVE  ReadBackInv'
  <2>1. /\ UNCHANGED <<stored, snapshot, noRow>>
        /\ r \in Alone => Mine(r) = {}
    BY <1>2 DEF SaveReceived
  <2>2. \A s \in Receivers : Mine(s) \subseteq Mine(s)'
    BY <1>2 DEF SaveReceived, Mine
  <2>3. \A s \in Receivers : s # r => reading'[s] = reading[s]
    BY <1>2 DEF SaveReceived
  <2>4. \/ reading'[r] = reading[r]
        \/ reading'[r] = {k} /\ Entry[k] \in Entries(stored \cup inserting[r])
    BY <1>2 DEF SaveReceived
  <2>5. \A s \in Receivers : inserting[s] \subseteq inserting'[s]
    BY <1>2 DEF SaveReceived
  <2>6. Entries(reading'[r]) \subseteq Entries(stored \cup inserting[r])
    BY <2>4 DEF ReadBackInv, Entries
  <2>7. \A s \in Receivers : Entries(reading'[s]) \subseteq Entries(stored \cup inserting'[s])
    <3> SUFFICES ASSUME NEW s \in Receivers
                 PROVE  Entries(reading'[s]) \subseteq Entries(stored \cup inserting'[s])
      OBVIOUS
    <3>1. Entries(stored \cup inserting[s]) \subseteq Entries(stored \cup inserting'[s])
      BY <2>5 DEF Entries
    <3>2. Entries(reading'[s]) \subseteq Entries(stored \cup inserting[s])
      BY <2>3, <2>6 DEF ReadBackInv
    <3> QED
      BY <3>1, <3>2
  <2>8. r \in Alone => snapshot[r] = {}
    BY <2>1 DEF ReadBackInv
  <2> QED
    BY <2>1, <2>2, <2>3, <2>7, <2>8 DEF ReadBackInv, ReadBackFindsRow, Entries
<1>3. ASSUME NEW r \in Receivers, EndTransaction(r), stored \subseteq stored',
             ReadBackFindsRow'
      PROVE  ReadBackInv'
  <2>1. /\ reading'[r] = {} /\ snapshot'[r] = {}
        /\ \A s \in Receivers \ {r} :
              /\ reading'[s] = reading[s] /\ snapshot'[s] = snapshot[s]
              /\ Mine(s)' = Mine(s) /\ inserting'[s] = inserting[s]
    BY <1>3 DEF EndTransaction, Mine
  <2>2. \A s \in Receivers \ {r} :
           Entries(stored \cup inserting[s]) \subseteq Entries(stored' \cup inserting'[s])
    BY <1>3, <2>1 DEF Entries
  <2>3. ASSUME NEW s \in Receivers
        PROVE  /\ Entries(reading'[s]) \subseteq Entries(stored' \cup inserting'[s])
               /\ Isolation # "repeatable read" => snapshot'[s] = {}
               /\ s \in Alone /\ snapshot'[s] # {} => Mine(s)' # {} /\ reading'[s] = {}
    <3>1. CASE s = r
      BY <2>1, <3>1 DEF Entries
    <3>2. CASE s # r
      BY <2>1, <2>2, <3>2 DEF ReadBackInv
    <3> QED
      BY <3>1, <3>2
  <2> QED
    BY <1>3, <2>3 DEF ReadBackInv, Entries
<1>4. ASSUME NEW r \in Receivers, ReadBack(r) PROVE ReadBackInv'
  <2>1. CASE Found(r)
    <3>1. /\ reading' = [reading EXCEPT ![r] = {}] /\ FixSnapshot(r)
          /\ reading[r] # {} /\ Mine(r) # {}
          /\ UNCHANGED <<stored, inserting, duplicates, noRow>>
      BY <1>4, <2>1 DEF ReadBack, Mine
    <3>2. \A s \in Receivers \ {r} :
             snapshot'[s] = snapshot[s] /\ reading'[s] = reading[s]
      BY <3>1 DEF FixSnapshot
    <3>3. Isolation # "repeatable read" => snapshot' = snapshot
      BY <3>1 DEF FixSnapshot
    <3> QED
      BY <3>1, <3>2, <3>3 DEF ReadBackInv, ReadBackFindsRow, Mine, Entries
  <2>2. CASE ~Found(r)
    <3>1. EndTransaction(r) /\ stored' = stored /\ noRow' = noRow \cup {r}
      BY <1>4, <2>2 DEF ReadBack
    <3>2. Isolation = "repeatable read" /\ r \notin Alone
      BY <1>4, <2>2, FoundUnlessStale DEF ReadBack
    <3>3. ReadBackFindsRow'
      BY <3>1, <3>2 DEF ReadBackInv, ReadBackFindsRow
    <3> QED
      BY <1>3, <3>1, <3>3
  <2> QED
    BY <2>1, <2>2
<1>5. ASSUME NEW r \in Receivers, Commit(r) \/ Rollback(r) PROVE ReadBackInv'
  <2>1. EndTransaction(r) /\ stored \subseteq stored' /\ noRow' = noRow
    BY <1>5 DEF Commit, Rollback
  <2> QED
    BY <1>3, <2>1 DEF ReadBackInv, ReadBackFindsRow
<1>6. CASE UNCHANGED receiptVars
  BY <1>6 DEF receiptVars, ReadBackInv, ReadBackFindsRow, Mine, Entries
<1> QED
  BY <1>1, <1>2, <1>4, <1>5, <1>6 DEF ReceiptNext

\* When ids fit their column, the read-back of save_received on MySQL finds
\* the row that made its INSERT IGNORE a no-op: for every receiver at READ
\* COMMITTED, and at REPEATABLE READ for the Kafka consumer and the HTTP
\* endpoint, which read nothing before.
THEOREM ReadBackFindsRowHolds ==
    ASSUME TooLong = {}
    PROVE  ReceiptSpec => []ReadBackFindsRow
<1>1. ReceiptInit => ReadBackInv
  BY DEF ReceiptInit, ReadBackInv, ReadBackFindsRow, Entries
<1>2. ReceiptTypeOK /\ ReadBackInv /\ [ReceiptNext]_receiptVars => ReadBackInv'
  BY ReadBackNext
<1>3. ReadBackInv => ReadBackFindsRow
  BY DEF ReadBackInv
<1> QED
  BY <1>1, <1>2, <1>3, ReceiptTypeCorrect, PTL DEF ReceiptSpec
=============================================================================
