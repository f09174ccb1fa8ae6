-------------------------- MODULE LeaseQueueProofs --------------------------
(***************************************************************************)
(* What LeaseQueue promises, for any number of items and consumers.  By    *)
(* the refinements, the same holds of the outbox and the inbox.            *)
(***************************************************************************)
EXTENDS LeaseQueue, TLAPS

LEMMA TypeInit == Init => TypeOK
BY DEF Init, TypeOK

LEMMA TypeNext == TypeOK /\ [Next]_queueVars => TypeOK'
<1> SUFFICES ASSUME TypeOK, [Next]_queueVars PROVE TypeOK'
  OBVIOUS
<1> USE DEF TypeOK
<1>1. ASSUME NEW m \in Items, Put(m) PROVE TypeOK'
  BY <1>1 DEF Put
<1>2. ASSUME NEW c \in Consumers, NEW over \in SUBSET Items, NEW taken \in SUBSET Items,
             Take(c, over, taken)
      PROVE  TypeOK'
  <2>1. state' \in [Items -> {"absent", "waiting", "held", "done", "dead"}]
    BY <1>2 DEF Take
  <2> QED
    BY <1>2, <2>1 DEF Take
<1>3. ASSUME NEW c \in Consumers, NEW m \in Items,
             Finish(c, m) \/ Return(c, m) \/ GiveUp(c, m)
      PROVE  TypeOK'
  BY <1>3 DEF Finish, Return, GiveUp, Record
<1>4. ASSUME NEW c \in Consumers, Drop(c) PROVE TypeOK'
  BY <1>4 DEF Drop
<1>5. CASE Overrun
  BY <1>5 DEF Overrun
<1>6. CASE UNCHANGED queueVars
  BY <1>6 DEF queueVars
<1> QED
  BY <1>1, <1>2, <1>3, <1>4, <1>5, <1>6 DEF Next

\* The queue's variables stay in their types.
THEOREM TypeCorrect == Spec => []TypeOK
BY TypeInit, TypeNext, PTL DEF Spec

LEMMA ExclusiveNext == TypeOK /\ Exclusive /\ [Next]_queueVars => Exclusive'
<1> SUFFICES ASSUME TypeOK, Exclusive, [Next]_queueVars, kept' PROVE Exclusive'
  BY DEF Exclusive
<1> USE DEF TypeOK, Exclusive, InState
<1>1. ASSUME NEW m \in Items, Put(m) PROVE Exclusive'
  BY <1>1 DEF Put
<1>2. ASSUME NEW c \in Consumers, NEW over \in SUBSET Items, NEW taken \in SUBSET Items,
             Take(c, over, taken)
      PROVE  Exclusive'
  <2>1. /\ kept /\ hands[c] = {}
        /\ \A d \in Consumers : over \cap hands[d] = {}
        /\ \A m \in taken : m \in over \/ state[m] = "waiting"
    BY <1>2 DEF Take, InHands
  <2>2. /\ \A m \in taken : state'[m] = "held"
        /\ \A m \in Items : m \notin over \cup taken => state'[m] = state[m]
        /\ hands'[c] = taken
        /\ \A d \in Consumers \ {c} : hands'[d] = hands[d]
    BY <1>2 DEF Take
  <2>3. \A d \in Consumers : hands[d] \cap taken = {}
    BY <2>1
  <2> QED
    BY <2>1, <2>2, <2>3
<1>3. ASSUME NEW c \in Consumers, NEW m \in Items,
             Finish(c, m) \/ Return(c, m) \/ GiveUp(c, m)
      PROVE  Exclusive'
  <2>1. /\ kept /\ m \in hands[c]
        /\ \A n \in Items \ {m} : state'[n] = state[n]
        /\ hands'[c] = hands[c] \ {m}
        /\ \A d \in Consumers \ {c} : hands'[d] = hands[d]
    BY <1>3 DEF Finish, Return, GiveUp, Record
  <2> QED
    BY <2>1
<1>4. ASSUME NEW c \in Consumers, Drop(c) PROVE Exclusive'
  <2>1. /\ kept /\ state' = state /\ hands'[c] = {}
        /\ \A d \in Consumers \ {c} : hands'[d] = hands[d]
    BY <1>4 DEF Drop
  <2> QED
    BY <2>1
<1>5. CASE Overrun
  BY <1>5 DEF Overrun
<1>6. CASE UNCHANGED queueVars
  BY <1>6 DEF queueVars
<1> QED
  BY <1>1, <1>2, <1>3, <1>4, <1>5, <1>6 DEF Next

\* While leases are kept no item is in two hands: of run_once's claim and
\* mark transactions, this is what a worker relies on.
THEOREM ExclusiveHolds == Spec => []Exclusive
<1>1. Init => Exclusive
  BY DEF Init, Exclusive, InState
<1> QED
  BY <1>1, TypeCorrect, ExclusiveNext, PTL DEF Spec

\* While leases are kept what mark_published, mark_processed or mark_failed
\* recorded is final.
THEOREM SettledIsFinalHolds == Spec => SettledIsFinal
<1> DEFINE Final == kept => \A m \in Items : state[m] \in {"done", "dead"} =>
                                state'[m] = state[m] /\ tries'[m] = tries[m]
<1>1. TypeOK /\ Exclusive /\ [Next]_queueVars => [Final]_queueVars
  <2> SUFFICES ASSUME TypeOK, Exclusive, Next, kept,
                      NEW m \in Items, state[m] \in {"done", "dead"}
               PROVE  state'[m] = state[m] /\ tries'[m] = tries[m]
    OBVIOUS
  <2> USE DEF TypeOK, Exclusive, InState
  <2>1. ASSUME NEW n \in Items, Put(n) PROVE state'[m] = state[m] /\ tries'[m] = tries[m]
    BY <2>1 DEF Put
  <2>2. ASSUME NEW c \in Consumers, NEW over \in SUBSET Items, NEW taken \in SUBSET Items,
               Take(c, over, taken)
        PROVE  state'[m] = state[m] /\ tries'[m] = tries[m]
    <3>1. m \notin over /\ m \notin taken
      BY <2>2 DEF Take
    <3> QED
      BY <2>2, <3>1 DEF Take
  <2>3. ASSUME NEW c \in Consumers, NEW n \in Items,
               Finish(c, n) \/ Return(c, n) \/ GiveUp(c, n)
        PROVE  state'[m] = state[m] /\ tries'[m] = tries[m]
    <3>1. n \in hands[c]
      BY <2>3 DEF Finish, Return, GiveUp, Record
    <3>2. m # n
      BY <3>1
    <3> QED
      BY <2>3, <3>2 DEF Finish, Return, GiveUp, Record
  <2>4. ASSUME NEW c \in Consumers, Drop(c)
        PROVE  state'[m] = state[m] /\ tries'[m] = tries[m]
    BY <2>4 DEF Drop
  <2>5. CASE Overrun
    BY <2>5 DEF Overrun
  <2> QED
    BY <2>1, <2>2, <2>3, <2>4, <2>5 DEF Next
<1> QED
  BY <1>1, TypeCorrect, ExclusiveHolds, PTL DEF Spec, SettledIsFinal
=============================================================================
