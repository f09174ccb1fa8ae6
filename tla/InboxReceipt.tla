---------------------------- MODULE InboxReceipt ----------------------------
(***************************************************************************)
(* InboxStore.save_received (pactix/inbox/store.py) among concurrent       *)
(* receivers, each inside a transaction of its own that may store several  *)
(* messages, the same one twice included, and may roll back at any time.   *)
(*                                                                         *)
(* A key is a (source, message_id).  PostgreSQL upserts: the statement     *)
(* waits for a transaction that has inserted or locked the key, inserts if *)
(* the key is free then, and otherwise locks the stored row.  MySQL runs   *)
(* INSERT IGNORE, which waits in the same way, and then reads the stored   *)
(* row back with a plain SELECT: under REPEATABLE READ that SELECT uses    *)
(* the snapshot of the transaction's first read, which the caller may have *)
(* taken long before.  A deadlock between receivers that store several     *)
(* messages is broken by the database, which rolls one of them back.       *)
(*                                                                         *)
(* On MySQL the key columns are VARCHAR(255) in the server's collation:    *)
(* IGNORE truncates a longer id instead of refusing it, and ids that the   *)
(* collation takes for equal share one entry of the unique index.          *)
(***************************************************************************)
EXTENDS Naturals, FiniteSets

CONSTANTS Keys, Receivers,
          Alone,      \* receivers whose transaction is one save_received:
                      \* KafkaInboxConsumer and HttpInboxEndpoint
          Dialect,    \* "postgresql" or "mysql"
          Isolation,  \* "read committed" or "repeatable read"
          Entry,      \* [Keys -> entries of the unique index]
          TooLong     \* keys longer than their column

ASSUME ReceiptAssumption ==
    /\ Alone \subseteq Receivers
    /\ Dialect \in {"postgresql", "mysql"}
    /\ Isolation \in {"read committed", "repeatable read"}
    /\ DOMAIN Entry = Keys
    /\ TooLong \subseteq Keys
    /\ Dialect = "postgresql" =>
          /\ TooLong = {}
          /\ \A j, k \in Keys : Entry[j] = Entry[k] => j = k

VARIABLES
    stored,      \* committed rows
    inserting,   \* keys each open transaction has inserted: told "inserted"
    duplicates,  \* keys each open transaction was told are duplicates
    reading,     \* the key whose row save_received is about to read back
    snapshot,    \* what each transaction's plain SELECTs see: {rows}, or {}
    insertions,  \* history: committed "inserted" outcomes per key
    noRow        \* history: receivers whose read-back found no row

receiptVars == <<stored, inserting, duplicates, reading, snapshot,
                 insertions, noRow>>

ReceiptInit ==
    /\ stored = {}
    /\ inserting = [r \in Receivers |-> {}]
    /\ duplicates = [r \in Receivers |-> {}]
    /\ reading = [r \in Receivers |-> {}]
    /\ snapshot = [r \in Receivers |-> {}]
    /\ insertions = [k \in Keys |-> 0]
    /\ noRow = {}

\* Keys the open transaction of r has inserted or locked.
Mine(r) == inserting[r] \cup duplicates[r]

Entries(keys) == {Entry[k] : k \in keys}

\* Mutant of TakenByOthers: no unique index, nothing to wait for.
TakenByOthers_NoUniqueIndex(r) == {}

\* Keys on which the INSERT of r has to wait for another transaction.  The
\* lock of a duplicate is exclusive for the upsert, shared for INSERT IGNORE.
TakenByOthers(r) ==
    UNION {IF Dialect = "mysql" THEN inserting[s] ELSE Mine(s) :
              s \in Receivers \ {r}}

\* Under REPEATABLE READ the first plain SELECT fixes what later ones see.
FixSnapshot(r) ==
    snapshot' = IF Isolation = "repeatable read" /\ snapshot[r] = {}
                THEN [snapshot EXCEPT ![r] = {stored}] ELSE snapshot

\* Mutant of ReadBefore: every caller looks the message up first.
ReadBefore_Everyone(r) ==
    /\ FixSnapshot(r)
    /\ UNCHANGED <<stored, inserting, duplicates, reading, insertions, noRow>>

\* A caller with a transaction of its own reads before it calls save_received.
ReadBefore(r) ==
    /\ r \notin Alone
    /\ FixSnapshot(r)
    /\ UNCHANGED <<stored, inserting, duplicates, reading, insertions, noRow>>

\* Mutant of SaveReceived: a key being inserted counts as a duplicate.
SaveReceived_DirtyDuplicate(r, k) ==
    /\ reading[r] = {}
    /\ IF Entry[k] \notin Entries(stored \cup inserting[r] \cup TakenByOthers(r))
       THEN inserting' = [inserting EXCEPT ![r] = @ \cup {k}] /\ UNCHANGED duplicates
       ELSE duplicates' = [duplicates EXCEPT ![r] = @ \cup {k}] /\ UNCHANGED inserting
    /\ UNCHANGED <<stored, reading, snapshot, insertions, noRow>>

\* The INSERT of save_received, once nobody else holds the key.  A row of its
\* own transaction makes a duplicate like a committed one: xmax is set, or the
\* INSERT is ignored.  On MySQL a duplicate still has to be read back.
SaveReceived(r, k) ==
    /\ reading[r] = {}
    /\ Entry[k] \notin Entries(TakenByOthers(r))
    /\ r \in Alone => Mine(r) = {}
    /\ IF Entry[k] \notin Entries(stored \cup inserting[r])
       THEN /\ inserting' = [inserting EXCEPT ![r] = @ \cup {k}]
            /\ UNCHANGED <<duplicates, reading>>
       ELSE /\ duplicates' = [duplicates EXCEPT ![r] = @ \cup {k}]
            /\ reading' = IF Dialect = "mysql"
                          THEN [reading EXCEPT ![r] = {k}] ELSE reading
            /\ UNCHANGED inserting
    /\ UNCHANGED <<stored, snapshot, insertions, noRow>>

\* The transaction of r is over.
EndTransaction(r) ==
    /\ inserting' = [inserting EXCEPT ![r] = {}]
    /\ duplicates' = [duplicates EXCEPT ![r] = {}]
    /\ reading' = [reading EXCEPT ![r] = {}]
    /\ snapshot' = [snapshot EXCEPT ![r] = {}]

\* What a plain SELECT of r sees.
Seen(r) ==
    inserting[r] \cup (IF snapshot[r] = {} THEN stored ELSE UNION snapshot[r])

\* WHERE message_id = :message_id compares with what the column kept.
Found(r) ==
    /\ reading[r] \cap TooLong = {}
    /\ Entries(reading[r]) \subseteq Entries(Seen(r))

\* The read-back of the MySQL path: .one() raises when it finds no row, and
\* the exception rolls the transaction back.
ReadBack(r) ==
    /\ reading[r] # {}
    /\ IF Found(r)
       THEN /\ reading' = [reading EXCEPT ![r] = {}]
            /\ FixSnapshot(r)
            /\ UNCHANGED <<inserting, duplicates, noRow>>
       ELSE /\ EndTransaction(r)
            /\ noRow' = noRow \cup {r}
    /\ UNCHANGED <<stored, insertions>>

Commit(r) ==
    /\ reading[r] = {}
    /\ Mine(r) # {}
    /\ stored' = stored \cup inserting[r]
    /\ insertions' = [k \in Keys |-> IF k \in inserting[r] /\ insertions[k] < 2
                                     THEN insertions[k] + 1 ELSE insertions[k]]
    /\ EndTransaction(r)
    /\ UNCHANGED noRow

\* The caller, a deadlock, a crash or a lost connection.
Rollback(r) ==
    /\ EndTransaction(r)
    /\ UNCHANGED <<stored, insertions, noRow>>

ReceiptNext ==
    \E r \in Receivers :
        \/ ReadBefore(r)
        \/ \E k \in Keys : SaveReceived(r, k)
        \/ ReadBack(r)
        \/ Commit(r)
        \/ Rollback(r)

ReceiptSpec == ReceiptInit /\ [][ReceiptNext]_receiptVars

-----------------------------------------------------------------------------
(* Properties *)

\* Every variable stays in its type, what a transaction has inserted is not
\* stored yet, and only a duplicate is read back.
ReceiptTypeOK ==
    /\ stored \subseteq Keys
    /\ inserting \in [Receivers -> SUBSET Keys]
    /\ duplicates \in [Receivers -> SUBSET Keys]
    /\ reading \in [Receivers -> SUBSET Keys]
    /\ snapshot \in [Receivers -> SUBSET SUBSET Keys]
    /\ insertions \in [Keys -> 0..2]
    /\ noRow \subseteq Receivers
    /\ \A r \in Receivers : /\ inserting[r] \cap stored = {}
                            /\ reading[r] \subseteq duplicates[r]

\* However many receivers store a message at the same time and whichever of
\* them roll back, a stored row was reported as inserted by exactly one
\* committed transaction, and a key that is not stored by none.
InsertedExactlyOnce ==
    \A k \in Keys : insertions[k] = IF k \in stored THEN 1 ELSE 0

\* A receiver is told "duplicate" only of a message that is committed, or that
\* its own transaction has inserted and will commit with: what it relies on
\* cannot disappear with somebody else's rollback, nor be the row of another
\* message.  ("Durably store a received message, deduplicating on (source,
\* message_id)", save_received.)
DuplicateIsDurable ==
    \A r \in Receivers : duplicates[r] \subseteq stored \cup inserting[r]

\* The MySQL read-back finds the row that made INSERT IGNORE a no-op, if ids
\* fit their column: always at READ COMMITTED, and at REPEATABLE READ at least
\* for the Kafka consumer and the HTTP endpoint, whose transactions read
\* nothing before it.
ReadBackFindsRow ==
    noRow \subseteq (IF Isolation = "repeatable read" THEN Receivers \ Alone ELSE {})
=============================================================================
