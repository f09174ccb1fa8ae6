--------------------------- MODULE KafkaConsumer ---------------------------
(***************************************************************************)
(* KafkaInboxConsumer.save_and_commit (pactix/transport/kafka/consumer.py) *)
(* driven by the loop of docs/kafka.md over one partition: consume, store  *)
(* with save_received in a transaction, commit the offset to the broker.   *)
(*                                                                         *)
(* A process polls the partition from the offset committed when it starts. *)
(* Each of its tasks runs one save_and_commit at a time; the documented    *)
(* loop awaits it, which is one task per process.  Two processes may both  *)
(* consume the partition for a while around a rebalance.  Processes die    *)
(* anywhere, and any exception of save_and_commit leaves the loop, which   *)
(* ends the process; it is restarted.                                      *)
(*                                                                         *)
(* The inbox is the one of InboxReceipt: a task is a receiver whose        *)
(* transaction is one save_received.  The broker and its log are external. *)
(***************************************************************************)
EXTENDS InboxReceipt, Sequences

CONSTANTS Processes,
          Owner,     \* [Receivers -> Processes], the process of each task
          Log,       \* the partition: message_id header, NoId or Invalid
          NoId,      \* no (or an empty) message_id header
          Invalid,   \* no value, no event_type, or a blank required field
          MaxStops   \* bound: how often processes die or are fenced

ASSUME KafkaAssumption ==
    /\ Owner \in [Receivers -> Processes]
    /\ Alone = Receivers
    /\ Log \in Seq(Keys \cup {NoId, Invalid})
    /\ \A i \in 1..Len(Log) : Log[i] = NoId => i - 1 \in Keys
    /\ MaxStops \in Nat

VARIABLES
    committed,  \* the offset the broker has for the consumer group
    position,   \* the next offset each process polls, or Stopped
    stage,      \* where each task is in save_and_commit
    offset,     \* the offset of the message it works on
    stops       \* how often a process died or was fenced

kafkaVars == <<committed, position, stage, offset, stops>>
vars == <<receiptVars, kafkaVars>>

Stopped == Len(Log) + 1
Offsets == 0..(Len(Log) - 1)
Tasks(p) == {t \in Receivers : Owner[t] = p}

Init ==
    /\ ReceiptInit
    /\ committed = 0
    /\ position = [p \in Processes |-> Stopped]
    /\ stage = [t \in Receivers |-> "free"]
    /\ offset = [t \in Receivers |-> 0]
    /\ stops = 0

\* KafkaInboundMessage.from_record and to_envelope raise ValidationError.
IsValid(o) == Log[o + 1] # Invalid

\* The message_id header, or topic:partition:offset, the same at every
\* delivery of the message.
MessageKey(o) == IF Log[o + 1] = NoId THEN o ELSE Log[o + 1]

\* Process p ends; its tasks' open transactions are rolled back.
Stop(p) ==
    /\ position' = [position EXCEPT ![p] = Stopped]
    /\ stage' = [t \in Receivers |-> IF t \in Tasks(p) THEN "free" ELSE stage[t]]
    /\ offset' = [t \in Receivers |-> IF t \in Tasks(p) THEN 0 ELSE offset[t]]
    /\ inserting' = [t \in Receivers |-> IF t \in Tasks(p) THEN {} ELSE inserting[t]]
    /\ duplicates' = [t \in Receivers |-> IF t \in Tasks(p) THEN {} ELSE duplicates[t]]
    /\ reading' = [t \in Receivers |-> IF t \in Tasks(p) THEN {} ELSE reading[t]]
    /\ snapshot' = [t \in Receivers |-> IF t \in Tasks(p) THEN {} ELSE snapshot[t]]
    /\ UNCHANGED <<committed, stored, insertions, noRow>>

\* A process starts, or restarts, where the group's committed offset is.
Start(p) ==
    /\ position[p] = Stopped
    /\ position' = [position EXCEPT ![p] = committed]
    /\ UNCHANGED <<receiptVars, committed, stage, offset, stops>>

\* The loop hands the next message to a task that is free.
Consume(t) ==
    LET o == position[Owner[t]] IN
    /\ stage[t] = "free"
    /\ o \in Offsets
    /\ IF IsValid(o)
       THEN /\ offset' = [offset EXCEPT ![t] = o]
            /\ stage' = [stage EXCEPT ![t] = "save"]
            /\ position' = [position EXCEPT ![Owner[t]] = o + 1]
            /\ UNCHANGED <<receiptVars, committed>>
       ELSE Stop(Owner[t])
    /\ UNCHANGED stops

\* save_received inside the task's transaction, and the read-back on MySQL.
Save(t) ==
    /\ stage[t] = "save"
    /\ \/ SaveReceived(t, MessageKey(offset[t]))
       \/ ReadBack(t) /\ Found(t)
    /\ UNCHANGED kafkaVars

\* The read-back finds no row: its exception leaves the loop.
SaveRaises(t) ==
    /\ reading[t] # {}
    /\ ~Found(t)
    /\ Stop(Owner[t])
    /\ UNCHANGED stops

\* The transaction commits.
CommitSave(t) ==
    /\ stage[t] = "save"
    /\ Commit(t)
    /\ stage' = [stage EXCEPT ![t] = "commit"]
    /\ UNCHANGED <<committed, position, offset, stops>>

\* Mutants of CommitOffset: the offset is committed while the message is
\* being saved; the offset after the next is committed.
CommitOffset_BeforeSave(t) ==
    /\ stage[t] \in {"save", "commit"}
    /\ committed' = offset[t] + 1
    /\ stage' = [stage EXCEPT ![t] = IF @ = "commit" THEN "free" ELSE @]
    /\ UNCHANGED <<receiptVars, position, offset, stops>>
CommitOffset_OneTooFar(t) ==
    /\ stage[t] = "commit"
    /\ committed' = offset[t] + 2
    /\ stage' = [stage EXCEPT ![t] = "free"]
    /\ UNCHANGED <<receiptVars, position, offset, stops>>

\* AIOKafkaOffsetCommitter.commit: offset + 1, whatever was committed before.
CommitOffset(t) ==
    /\ stage[t] = "commit"
    /\ committed' = offset[t] + 1
    /\ stage' = [stage EXCEPT ![t] = "free"]
    /\ UNCHANGED <<receiptVars, position, offset, stops>>

\* The process dies, the database fails, or the broker fences a commit.
Die(p) ==
    /\ position[p] # Stopped
    /\ stops < MaxStops
    /\ stops' = stops + 1
    /\ Stop(p)

Work(t) ==
    Consume(t) \/ Save(t) \/ SaveRaises(t) \/ CommitSave(t) \/ CommitOffset(t)

Next ==
    \/ \E p \in Processes : Start(p) \/ Die(p)
    \/ \E t \in Receivers : Work(t)

Spec == Init /\ [][Next]_vars

\* Processes are restarted and their loops keep running; a task waiting for
\* the row lock of another gets it eventually (the lock queue is fair).
FairSpec ==
    /\ Spec
    /\ \A p \in Processes : WF_vars(Start(p))
    /\ \A t \in Receivers : SF_vars(Work(t))

-----------------------------------------------------------------------------
(* Properties *)

\* Every variable stays in its type.
TypeOK ==
    /\ ReceiptTypeOK
    /\ committed \in 0..Len(Log)
    /\ position \in [Processes -> Offsets \cup {Len(Log), Stopped}]
    /\ stage \in [Receivers -> {"free", "save", "commit"}]
    /\ offset \in [Receivers -> Offsets \cup {0}]
    /\ stops \in 0..MaxStops

\* A committed offset never passes a message that is not in the inbox, nor an
\* invalid one: whatever dies between save and commit, and whichever of two
\* processes commits last, what is not stored will be polled again.
CommittedIsStored ==
    \A o \in 0..(committed - 1) : IsValid(o) /\ MessageKey(o) \in stored

\* Every message in front of the first one that cannot be stored is eventually
\* stored and its offset stays committed.  An invalid message is polled again
\* and again; so is one whose id MySQL has truncated, once it is redelivered.
StorablePrefixIsStored ==
    <>[](\A o \in Offsets :
            (\A i \in 0..o : IsValid(i) /\ MessageKey(i) \notin TooLong) =>
                MessageKey(o) \in stored /\ o < committed)
=============================================================================
