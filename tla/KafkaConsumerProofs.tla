------------------------ MODULE KafkaConsumerProofs ------------------------
(***************************************************************************)
(* The Kafka consumer never commits an offset past a message that is not   *)
(* in the inbox, for any partition, any number of processes and any number *)
(* of crashes, with one task per process as in the loop of docs/kafka.md;  *)
(* and its receipts stay exactly once whatever the number of tasks.        *)
(***************************************************************************)
EXTENDS KafkaConsumer, InboxReceiptProofs

-----------------------------------------------------------------------------
(* Type correctness and exactly-once receipt *)

\* The receivers' invariant, and an offset in hand is one of the partition
\* whose message passed validation.
ConsumerInv ==
    /\ ReceiptInv
    /\ TypeOK
    /\ \A t \in Receivers :
          stage[t] # "free" => offset[t] \in Offsets /\ IsValid(offset[t])

LEMMA LogLength == Len(Log) \in Nat
BY KafkaAssumption

LEMMA KeyOfValid ==
    ASSUME NEW o \in Offsets, IsValid(o)
    PROVE  MessageKey(o) \in Keys
<1>1. o + 1 \in 1..Len(Log) /\ (o + 1) - 1 = o
  BY LogLength DEF Offsets
<1>2. Log[o + 1] \in Keys \cup {NoId, Invalid}
  BY <1>1, KafkaAssumption
<1> QED
  BY <1>1, <1>2, KafkaAssumption DEF IsValid, MessageKey

LEMMA ConsumerInvInit == Init => ConsumerInv
<1> SUFFICES ASSUME Init PROVE ConsumerInv
  OBVIOUS
<1>1. ReceiptInv
  BY ReceiptInvInit DEF Init
<1>2. TypeOK
  <2>1. 0 \in 0..Len(Log) /\ 0 \in 0..MaxStops
    BY LogLength, KafkaAssumption
  <2> QED
    BY <1>1, <2>1 DEF Init, TypeOK, ReceiptInv
<1> QED
  BY <1>1, <1>2 DEF ConsumerInv, Init

\* The end of a process rolls back its tasks' transactions and nothing else.
LEMMA StopRollsBack ==
    ASSUME ConsumerInv, NEW p \in Processes, Stop(p)
    PROVE  /\ ReceiptInv'
           /\ UNCHANGED <<committed, stored>>
           /\ position' = [position EXCEPT ![p] = Stopped]
           /\ stage' \in [Receivers -> {"free", "save", "commit"}]
           /\ offset' \in [Receivers -> Offsets \cup {0}]
           /\ \A t \in Receivers :
                 \/ /\ Owner[t] = p
                    /\ stage'[t] = "free" /\ Mine(t)' = {} /\ duplicates'[t] = {}
                 \/ /\ Owner[t] # p
                    /\ stage'[t] = stage[t] /\ offset'[t] = offset[t]
                    /\ Mine(t)' = Mine(t) /\ duplicates'[t] = duplicates[t]
                    /\ inserting'[t] = inserting[t]
<1> USE DEF ConsumerInv, TypeOK, ReceiptTypeOK, Stop, Tasks
<1>1. ReceiptTypeOK'
  <2>1. \A t \in Receivers : /\ inserting'[t] \in {{}, inserting[t]}
                             /\ snapshot'[t] \in {{}, snapshot[t]}
                             /\ \/ reading'[t] = {} /\ duplicates'[t] = {}
                                \/ /\ reading'[t] = reading[t]
                                   /\ duplicates'[t] = duplicates[t]
    OBVIOUS
  <2>2. /\ inserting' \in [Receivers -> SUBSET Keys]
        /\ duplicates' \in [Receivers -> SUBSET Keys]
        /\ reading' \in [Receivers -> SUBSET Keys]
        /\ snapshot' \in [Receivers -> SUBSET SUBSET Keys]
    BY <2>1
  <2> QED
    BY <2>1, <2>2
<1>2. \A s \in Receivers : inserting'[s] \subseteq inserting[s]
  OBVIOUS
<1>3. ReceiptInv'
  BY <1>1, <1>2, InvShrinks
<1> QED
  BY <1>3 DEF Mine

LEMMA ConsumerInvNext == ConsumerInv /\ [Next]_vars => ConsumerInv'
<1> SUFFICES ASSUME ConsumerInv, [Next]_vars PROVE ConsumerInv'
  OBVIOUS
<1>a. TypeOK /\ ReceiptInv /\ Owner \in [Receivers -> Processes]
  BY KafkaAssumption DEF ConsumerInv
<1>b. ASSUME UNCHANGED receiptVars PROVE ReceiptInv'
  BY <1>a, <1>b, InvReceiptNext
<1>c. ASSUME ReceiptInv' PROVE ReceiptTypeOK'
  BY <1>c DEF ReceiptInv
<1>s. ASSUME NEW p \in Processes, Stop(p), stops' \in 0..MaxStops PROVE ConsumerInv'
  BY <1>a, <1>c, <1>s, StopRollsBack DEF ConsumerInv, TypeOK
<1>1. ASSUME NEW p \in Processes, Start(p) PROVE ConsumerInv'
  <2>1. UNCHANGED <<receiptVars, committed, stage, offset, stops>>
    BY <1>1 DEF Start
  <2>2. committed \in Offsets \cup {Len(Log), Stopped}
    BY <1>a, LogLength DEF TypeOK, Offsets
  <2>3. position' \in [Processes -> Offsets \cup {Len(Log), Stopped}]
    BY <1>a, <1>1, <2>2 DEF Start, TypeOK
  <2> QED
    BY <1>b, <1>c, <2>1, <2>3 DEF ConsumerInv, TypeOK
<1>2. ASSUME NEW p \in Processes, Die(p) PROVE ConsumerInv'
  <2>1. stops' \in 0..MaxStops
    BY <1>a, <1>2, KafkaAssumption DEF Die, TypeOK
  <2> QED
    BY <1>s, <1>2, <2>1 DEF Die
<1>3. ASSUME NEW t \in Receivers, Consume(t) PROVE ConsumerInv'
  <2> DEFINE o == position[Owner[t]]
  <2>1. o \in Offsets /\ stops' = stops
    BY <1>3 DEF Consume
  <2>2. CASE IsValid(o)
    <3>1. /\ offset' = [offset EXCEPT ![t] = o]
          /\ stage' = [stage EXCEPT ![t] = "save"]
          /\ position' = [position EXCEPT ![Owner[t]] = o + 1]
          /\ UNCHANGED <<receiptVars, committed>>
      BY <1>3, <2>2 DEF Consume
    <3>2. o + 1 \in Offsets \cup {Len(Log), Stopped}
      BY <2>1, LogLength DEF Offsets
    <3> HIDE DEF o
    <3>3. position' \in [Processes -> Offsets \cup {Len(Log), Stopped}]
      BY <1>a, <3>1, <3>2 DEF TypeOK
    <3>4. /\ offset' \in [Receivers -> Offsets \cup {0}]
          /\ stage' \in [Receivers -> {"free", "save", "commit"}]
      BY <1>a, <2>1, <3>1 DEF TypeOK
    <3>5. ASSUME NEW s \in Receivers, stage'[s] # "free"
          PROVE  offset'[s] \in Offsets /\ IsValid(offset'[s])
      <4>1. CASE s = t
        BY <1>a, <2>1, <2>2, <3>1, <4>1 DEF TypeOK
      <4>2. CASE s # t
        BY <1>a, <3>1, <3>5, <4>2 DEF TypeOK, ConsumerInv
      <4> QED
        BY <4>1, <4>2
    <3> QED
      BY <1>a, <1>b, <1>c, <2>1, <3>1, <3>3, <3>4, <3>5 DEF ConsumerInv, TypeOK, IsValid
  <2>3. CASE ~IsValid(o)
    BY <1>a, <1>s, <1>3, <2>1, <2>3 DEF Consume, TypeOK
  <2> QED
    BY <2>2, <2>3
<1>4. ASSUME NEW t \in Receivers, Save(t) PROVE ConsumerInv'
  <2>1. ReceiptInv'
    <3>1. CASE SaveReceived(t, MessageKey(offset[t]))
      <4>1. MessageKey(offset[t]) \in Keys
        BY <1>4, KeyOfValid DEF Save, ConsumerInv
      <4> QED
        BY <1>a, <3>1, <4>1, InvSaveReceived
    <3>2. CASE ReadBack(t)
      BY <1>a, <3>2, InvReadBack
    <3> QED
      BY <1>4, <3>1, <3>2 DEF Save
  <2> QED
    BY <1>c, <1>4, <2>1 DEF Save, kafkaVars, ConsumerInv, TypeOK
<1>5. ASSUME NEW t \in Receivers, SaveRaises(t) PROVE ConsumerInv'
  BY <1>a, <1>s, <1>5 DEF SaveRaises, TypeOK
<1>6. ASSUME NEW t \in Receivers, CommitSave(t) PROVE ConsumerInv'
  <2>1. ReceiptInv'
    BY <1>a, <1>6, InvCommit DEF CommitSave
  <2> QED
    BY <1>c, <1>6, <2>1 DEF CommitSave, ConsumerInv, TypeOK
<1>7. ASSUME NEW t \in Receivers, CommitOffset(t) PROVE ConsumerInv'
  <2>1. offset[t] + 1 \in 0..Len(Log)
    BY <1>7, LogLength DEF CommitOffset, ConsumerInv, Offsets
  <2> QED
    BY <1>b, <1>c, <1>7, <2>1 DEF CommitOffset, ConsumerInv, TypeOK
<1>8. CASE UNCHANGED vars
  BY <1>b, <1>c, <1>8 DEF vars, kafkaVars, ConsumerInv, TypeOK
<1> QED
  BY <1>1, <1>2, <1>3, <1>4, <1>5, <1>6, <1>7, <1>8 DEF Next, Work

\* Every variable of the consumers stays in its type, whatever the number of
\* tasks per process.
THEOREM KafkaTypeCorrect == Spec => []TypeOK
<1>1. ConsumerInv => TypeOK
  BY DEF ConsumerInv
<1> QED
  BY <1>1, ConsumerInvInit, ConsumerInvNext, PTL DEF Spec

\* A message redelivered after a crash, a rebalance or a lost offset commit,
\* to this process or another, is inserted by exactly one of its deliveries.
THEOREM ConsumedExactlyOnce == Spec => []InsertedExactlyOnce
<1>1. ConsumerInv => InsertedExactlyOnce
  BY DEF ConsumerInv, ReceiptInv
<1> QED
  BY <1>1, ConsumerInvInit, ConsumerInvNext, PTL DEF Spec

-----------------------------------------------------------------------------
(* Offsets *)

\* Every message before offset n is valid and in the inbox.
StoredBelow(n) == \A o \in 0..(n - 1) : IsValid(o) /\ MessageKey(o) \in stored

\* Why a committed offset is safe when a process has one task: the task works
\* on the last message its process has polled, what precedes it is stored, and
\* its transaction is about that message alone.
LoopInv ==
    /\ \A t \in Receivers :
          /\ stage[t] # "free" => position[Owner[t]] = offset[t] + 1
          /\ stage[t] = "save" => /\ StoredBelow(offset[t])
                                  /\ Mine(t) \subseteq {MessageKey(offset[t])}
          /\ stage[t] = "commit" => StoredBelow(offset[t] + 1)
          /\ stage[t] # "save" => Mine(t) = {}
    /\ \A p \in Processes :
          /\ position[p] # Stopped
          /\ \A t \in Tasks(p) : stage[t] = "free"
          => StoredBelow(position[p])
    /\ CommittedIsStored
    /\ DuplicateIsDurable

\* The documented loop, and ids that differ are different to the index.
OneTaskPerProcess == \A s, t \in Receivers : Owner[s] = Owner[t] => s = t
DistinctEntries == \A j, k \in Keys : Entry[j] = Entry[k] => j = k

\* What is stored stays stored.
LEMMA StoredBelowStays ==
    ASSUME stored \subseteq stored', NEW n, StoredBelow(n)
    PROVE  StoredBelow(n)'
BY DEF StoredBelow

LEMMA LoopInvInit == Init => LoopInv
<1> SUFFICES ASSUME Init PROVE LoopInv
  OBVIOUS
<1>1. CommittedIsStored
  BY DEF Init, CommittedIsStored
<1>2. \A t \in Receivers : stage[t] = "free" /\ Mine(t) = {} /\ duplicates[t] = {}
  BY DEF Init, ReceiptInit, Mine
<1>3. \A p \in Processes : position[p] = Stopped
  BY DEF Init
<1> QED
  BY <1>1, <1>2, <1>3 DEF LoopInv, DuplicateIsDurable

\* A process that is stopped has no task at work.
LEMMA StoppedIsFree ==
    ASSUME ConsumerInv, LoopInv, NEW t \in Receivers, position[Owner[t]] = Stopped
    PROVE  stage[t] = "free"
BY LogLength DEF ConsumerInv, LoopInv, Offsets, Stopped

LEMMA LoopStop ==
    ASSUME ConsumerInv, LoopInv, NEW p \in Processes, Stop(p)
    PROVE  LoopInv'
<1> USE DEF ConsumerInv, TypeOK
<1>1. /\ UNCHANGED <<committed, stored>>
      /\ position' = [position EXCEPT ![p] = Stopped]
      /\ \A t \in Receivers :
                 \/ /\ Owner[t] = p
                    /\ stage'[t] = "free" /\ Mine(t)' = {} /\ duplicates'[t] = {}
                 \/ /\ Owner[t] # p
                    /\ stage'[t] = stage[t] /\ offset'[t] = offset[t]
                    /\ Mine(t)' = Mine(t) /\ duplicates'[t] = duplicates[t]
                    /\ inserting'[t] = inserting[t]
  BY StopRollsBack
<1>2. \A n : StoredBelow(n)' <=> StoredBelow(n)
  BY <1>1 DEF StoredBelow
<1>3. CommittedIsStored'
  BY <1>1 DEF LoopInv, CommittedIsStored
<1>4. DuplicateIsDurable'
  BY <1>1 DEF LoopInv, DuplicateIsDurable
<1>5. ASSUME NEW t \in Receivers
      PROVE  /\ stage'[t] # "free" => position'[Owner[t]] = offset'[t] + 1
             /\ stage'[t] = "save" => /\ StoredBelow(offset'[t])
                                      /\ Mine(t)' \subseteq {MessageKey(offset'[t])}
             /\ stage'[t] = "commit" => StoredBelow(offset'[t] + 1)
             /\ stage'[t] # "save" => Mine(t)' = {}
  <2>1. CASE Owner[t] = p
    BY <1>1, <2>1
  <2>2. CASE Owner[t] # p
    <3>1. /\ stage'[t] = stage[t] /\ offset'[t] = offset[t] /\ Mine(t)' = Mine(t)
          /\ position'[Owner[t]] = position[Owner[t]]
      BY <1>1, <2>2, KafkaAssumption
    <3> QED
      BY <3>1 DEF LoopInv
  <2> QED
    BY <2>1, <2>2
<1>6. ASSUME NEW q \in Processes, position'[q] # Stopped,
             \A t \in Tasks(q) : stage'[t] = "free"
      PROVE  StoredBelow(position'[q])
  <2>1. q # p /\ position'[q] = position[q]
    BY <1>1, <1>6
  <2>2. \A t \in Tasks(q) : stage[t] = "free"
    BY <1>1, <1>6, <2>1 DEF Tasks
  <2> QED
    BY <1>6, <2>1, <2>2 DEF LoopInv
<1> QED
  BY <1>1, <1>3, <1>4, <1>5, <1>6 DEF LoopInv, StoredBelow, Tasks

\* A step of one task that stores no less, keeps every process's position and
\* touches no other task's work keeps what the loop knows of the others.
LEMMA LoopFrame ==
    ASSUME ConsumerInv, LoopInv, NEW t \in Receivers,
           stored \subseteq stored', position' = position, offset' = offset,
           \A s \in Receivers \ {t} : stage'[s] = stage[s] /\ Mine(s)' = Mine(s),
           CommittedIsStored', DuplicateIsDurable',
           stage'[t] # "free" => stage[t] # "free",
           stage'[t] = "free" => StoredBelow(position[Owner[t]])',
           stage'[t] = "save" => /\ stage[t] = "save"
                                 /\ Mine(t)' \subseteq {MessageKey(offset[t])},
           stage'[t] = "commit" => StoredBelow(offset[t] + 1)',
           stage'[t] # "save" => Mine(t)' = {}
    PROVE  LoopInv'
<1>1. ASSUME NEW s \in Receivers
      PROVE  /\ stage'[s] # "free" => position[Owner[s]] = offset[s] + 1
             /\ stage'[s] = "save" => /\ StoredBelow(offset[s])'
                                      /\ Mine(s)' \subseteq {MessageKey(offset[s])}
             /\ stage'[s] = "commit" => StoredBelow(offset[s] + 1)'
             /\ stage'[s] # "save" => Mine(s)' = {}
  <2>1. CASE s = t
    BY <2>1 DEF LoopInv, StoredBelow
  <2>2. CASE s # t
    BY <2>2 DEF LoopInv, StoredBelow
  <2> QED
    BY <2>1, <2>2
<1>2. ASSUME NEW q \in Processes, position[q] # Stopped,
             \A s \in Tasks(q) : stage'[s] = "free"
      PROVE  StoredBelow(position[q])'
  <2>1. CASE Owner[t] = q
    BY <1>2, <2>1 DEF Tasks
  <2>2. CASE Owner[t] # q
    <3>1. \A s \in Tasks(q) : stage[s] = "free"
      BY <1>2, <2>2 DEF Tasks
    <3> QED
      BY <1>2, <3>1 DEF LoopInv, StoredBelow
  <2> QED
    BY <2>1, <2>2
<1> QED
  BY <1>1, <1>2 DEF LoopInv, StoredBelow, Tasks

\* A process starts at the committed offset, below which everything is stored.
LEMMA LoopStart ==
    ASSUME ConsumerInv, LoopInv, NEW p \in Processes, Start(p)
    PROVE  LoopInv'
<1> USE DEF ConsumerInv, TypeOK, Start
<1>1. /\ UNCHANGED <<stored, committed, stage, offset, inserting, duplicates>>
      /\ position' = [position EXCEPT ![p] = committed] /\ position[p] = Stopped
  BY DEF receiptVars
<1>2. ASSUME NEW t \in Receivers
      PROVE  /\ stage[t] # "free" => position'[Owner[t]] = offset[t] + 1
             /\ stage[t] = "save" => /\ StoredBelow(offset[t])
                                     /\ Mine(t) \subseteq {MessageKey(offset[t])}
             /\ stage[t] = "commit" => StoredBelow(offset[t] + 1)
             /\ stage[t] # "save" => Mine(t) = {}
  <2>1. stage[t] # "free" => position'[Owner[t]] = position[Owner[t]]
    BY <1>1, StoppedIsFree, KafkaAssumption
  <2> QED
    BY <2>1 DEF LoopInv
<1>3. ASSUME NEW q \in Processes, position'[q] # Stopped,
             \A t \in Tasks(q) : stage[t] = "free"
      PROVE  StoredBelow(position'[q])
  <2>1. CASE q = p
    BY <1>1, <2>1 DEF LoopInv, CommittedIsStored, StoredBelow
  <2>2. CASE q # p
    BY <1>1, <1>3, <2>2 DEF LoopInv
  <2> QED
    BY <2>1, <2>2
<1>4. CommittedIsStored' /\ DuplicateIsDurable'
  BY <1>1 DEF LoopInv, CommittedIsStored, DuplicateIsDurable
<1> QED
  BY <1>1, <1>2, <1>3, <1>4 DEF LoopInv, StoredBelow, Tasks, Mine

\* The only task of its process takes the next message: what precedes it is
\* stored, because the task has committed the previous one.
LEMMA LoopConsume ==
    ASSUME OneTaskPerProcess, ConsumerInv, LoopInv, NEW t \in Receivers, Consume(t)
    PROVE  LoopInv'
<1> DEFINE o == position[Owner[t]]
<1>a. Owner[t] \in Processes /\ o \in Offsets /\ stage[t] = "free"
  BY KafkaAssumption DEF Consume
<1>1. CASE ~IsValid(o)
  <2>1. Stop(Owner[t])
    BY <1>1 DEF Consume
  <2> QED
    BY <1>a, <2>1, LoopStop
<1>2. CASE IsValid(o)
  <2> USE DEF ConsumerInv, TypeOK
  <2>1. /\ offset' = [offset EXCEPT ![t] = o]
        /\ stage' = [stage EXCEPT ![t] = "save"]
        /\ position' = [position EXCEPT ![Owner[t]] = o + 1]
        /\ UNCHANGED <<stored, committed, inserting, duplicates>>
    BY <1>2 DEF Consume, receiptVars
  <2>2. o # Stopped /\ \A s \in Tasks(Owner[t]) : stage[s] = "free"
    BY <1>a, LogLength DEF Offsets, Stopped, Tasks, OneTaskPerProcess
  <2>3. StoredBelow(o) /\ Mine(t) = {}
    BY <1>a, <2>2 DEF LoopInv
  <2> HIDE DEF o
  <2>4. ASSUME NEW s \in Receivers
        PROVE  /\ stage'[s] # "free" => position'[Owner[s]] = offset'[s] + 1
               /\ stage'[s] = "save" => /\ StoredBelow(offset'[s])
                                        /\ Mine(s) \subseteq {MessageKey(offset'[s])}
               /\ stage'[s] = "commit" => StoredBelow(offset'[s] + 1)
               /\ stage'[s] # "save" => Mine(s) = {}
    <3>1. CASE s = t
      BY <1>a, <2>1, <2>3, <3>1
    <3>2. CASE s # t
      <4>1. /\ Owner[s] # Owner[t] /\ stage'[s] = stage[s] /\ offset'[s] = offset[s]
        BY <2>1, <3>2 DEF OneTaskPerProcess
      <4>2. position'[Owner[s]] = position[Owner[s]]
        BY <2>1, <4>1, KafkaAssumption
      <4> QED
        BY <4>1, <4>2 DEF LoopInv
    <3> QED
      BY <3>1, <3>2
  <2>5. ASSUME NEW q \in Processes, position'[q] # Stopped,
               \A s \in Tasks(q) : stage'[s] = "free"
        PROVE  StoredBelow(position'[q])
    <3>1. q # Owner[t]
      BY <2>1, <2>5 DEF Tasks
    <3>2. position'[q] = position[q] /\ \A s \in Tasks(q) : stage[s] = "free"
      BY <2>1, <2>5, <3>1 DEF Tasks
    <3> QED
      BY <2>5, <3>2 DEF LoopInv
  <2>6. CommittedIsStored' /\ DuplicateIsDurable'
    BY <2>1 DEF LoopInv, CommittedIsStored, DuplicateIsDurable
  <2> QED
    BY <2>1, <2>4, <2>5, <2>6 DEF LoopInv, StoredBelow, Tasks, Mine
<1> QED
  BY <1>1, <1>2

\* save_received and its read-back concern the message in hand only.
LEMMA LoopSave ==
    ASSUME DistinctEntries, ConsumerInv, LoopInv, NEW t \in Receivers, Save(t)
    PROVE  LoopInv'
<1> DEFINE k == MessageKey(offset[t])
<1> USE DEF ConsumerInv, TypeOK
<1>1. /\ stage[t] = "save" /\ UNCHANGED <<committed, position, stage, offset>>
      /\ k \in Keys
  BY KeyOfValid DEF Save, kafkaVars
<1>2. [ReceiptNext]_receiptVars
  BY <1>1 DEF Save, ReceiptNext
<1>3. ReceiptTypeOK /\ DuplicateIsDurable
  BY DEF ReceiptInv, LoopInv
<1>4. DuplicateIsDurable'
  BY <1>2, <1>3, DurableNext DEF DistinctEntries
<1>5. /\ stored' = stored
      /\ \A s \in Receivers \ {t} : Mine(s)' = Mine(s)
      /\ Mine(t)' \subseteq Mine(t) \cup {k}
  <2>1. CASE SaveReceived(t, k)
    BY <1>3, <2>1 DEF SaveReceived, Mine, ReceiptTypeOK
  <2>2. CASE ReadBack(t) /\ Found(t)
    BY <2>2 DEF ReadBack, Mine
  <2> QED
    BY <2>1, <2>2 DEF Save
<1>6. CommittedIsStored'
  BY <1>1, <1>5 DEF LoopInv, CommittedIsStored
<1>7. Mine(t)' \subseteq {k}
  BY <1>1, <1>5 DEF LoopInv
<1> QED
  BY <1>1, <1>4, <1>5, <1>6, <1>7, LoopFrame

\* The transaction commits: the message in hand is stored, as an insert of
\* this transaction or as a duplicate.
LEMMA LoopCommitSave ==
    ASSUME ConsumerInv, LoopInv, NEW t \in Receivers, CommitSave(t)
    PROVE  LoopInv'
<1> USE DEF ConsumerInv, TypeOK
<1>1. /\ stage[t] = "save" /\ Commit(t)
      /\ stage' = [stage EXCEPT ![t] = "commit"]
      /\ UNCHANGED <<committed, position, offset>>
  BY DEF CommitSave
<1>2. /\ stored' = stored \cup inserting[t] /\ Mine(t) # {} /\ EndTransaction(t)
  BY <1>1 DEF Commit
<1>3. /\ Mine(t)' = {} /\ duplicates'[t] = {}
      /\ \A s \in Receivers \ {t} : /\ Mine(s)' = Mine(s)
                                     /\ duplicates'[s] = duplicates[s]
                                     /\ inserting'[s] = inserting[s]
  BY <1>2 DEF EndTransaction, Mine, ReceiptInv, ReceiptTypeOK
<1>4. DuplicateIsDurable'
  BY <1>2, <1>3 DEF LoopInv, DuplicateIsDurable
<1>5. CommittedIsStored'
  BY <1>1, <1>2 DEF LoopInv, CommittedIsStored
<1>6. MessageKey(offset[t]) \in stored'
  BY <1>1, <1>2 DEF LoopInv, DuplicateIsDurable, Mine
<1>7. StoredBelow(offset[t] + 1)'
  <2>1. StoredBelow(offset[t]) /\ offset[t] \in Offsets /\ IsValid(offset[t])
    BY <1>1 DEF LoopInv
  <2>2. \A i \in 0..((offset[t] + 1) - 1) : IsValid(i) /\ MessageKey(i) \in stored'
    <3> SUFFICES ASSUME NEW i \in 0..((offset[t] + 1) - 1)
                 PROVE  IsValid(i) /\ MessageKey(i) \in stored'
      OBVIOUS
    <3>1. i = offset[t] \/ i \in 0..(offset[t] - 1)
      BY <2>1, LogLength DEF Offsets
    <3> QED
      BY <1>2, <1>6, <2>1, <3>1 DEF StoredBelow
  <2> QED
    BY <1>1, <2>2 DEF StoredBelow
<1>8. /\ stage'[t] = "commit" /\ stored \subseteq stored'
      /\ \A s \in Receivers \ {t} : stage'[s] = stage[s]
  BY <1>1, <1>2
<1> QED
  BY <1>1, <1>3, <1>4, <1>5, <1>7, <1>8, LoopFrame

\* The offset commit: everything below the offset after the message in hand
\* is stored, so it is safe whatever another process had committed.
LEMMA LoopCommitOffset ==
    ASSUME ConsumerInv, LoopInv, NEW t \in Receivers, CommitOffset(t)
    PROVE  LoopInv'
<1> USE DEF ConsumerInv, TypeOK
<1>1. /\ stage[t] = "commit" /\ committed' = offset[t] + 1
      /\ stage' = [stage EXCEPT ![t] = "free"]
      /\ UNCHANGED <<stored, inserting, duplicates, position, offset>>
  BY DEF CommitOffset, receiptVars
<1>2. /\ StoredBelow(offset[t] + 1) /\ Mine(t) = {}
      /\ position[Owner[t]] = offset[t] + 1
  BY <1>1 DEF LoopInv
<1>3. CommittedIsStored'
  BY <1>1, <1>2 DEF CommittedIsStored, StoredBelow
<1>4. DuplicateIsDurable'
  BY <1>1 DEF LoopInv, DuplicateIsDurable
<1>5. StoredBelow(position[Owner[t]])'
  BY <1>1, <1>2 DEF StoredBelow
<1>6. \A s \in Receivers : Mine(s)' = Mine(s)
  BY <1>1 DEF Mine
<1>7. stage'[t] = "free" /\ \A s \in Receivers \ {t} : stage'[s] = stage[s]
  BY <1>1
<1> QED
  BY <1>1, <1>2, <1>3, <1>4, <1>5, <1>6, <1>7, LoopFrame

LEMMA LoopInvNext ==
    ASSUME OneTaskPerProcess, DistinctEntries, ConsumerInv, LoopInv, [Next]_vars
    PROVE  LoopInv'
<1>1. ASSUME NEW p \in Processes, Start(p) \/ Die(p) PROVE LoopInv'
  BY <1>1, LoopStart, LoopStop DEF Die
<1>2. ASSUME NEW t \in Receivers, Work(t) PROVE LoopInv'
  <2>1. CASE SaveRaises(t)
    BY <2>1, LoopStop, KafkaAssumption DEF SaveRaises
  <2> QED
    BY <1>2, <2>1, LoopConsume, LoopSave, LoopCommitSave, LoopCommitOffset DEF Work
<1>3. CASE UNCHANGED vars
  BY <1>3 DEF vars, receiptVars, kafkaVars, LoopInv, StoredBelow, Tasks, Mine,
              CommittedIsStored, DuplicateIsDurable
<1> QED
  BY <1>1, <1>2, <1>3 DEF Next

\* With one task per process, as the documented loop has, and ids that are
\* different to the index when they differ, save_and_commit never commits an
\* offset past a message that is not stored: whatever dies between save and
\* commit, and whichever of several processes commits last.
THEOREM CommittedIsStoredHolds ==
    ASSUME OneTaskPerProcess, DistinctEntries
    PROVE  Spec => []CommittedIsStored
<1>1. LoopInv => CommittedIsStored
  BY DEF LoopInv
<1>2. ConsumerInv /\ LoopInv /\ [Next]_vars => LoopInv'
  BY LoopInvNext
<1> QED
  BY <1>1, <1>2, LoopInvInit, ConsumerInvInit, ConsumerInvNext, PTL DEF Spec
=============================================================================
