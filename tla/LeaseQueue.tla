----------------------------- MODULE LeaseQueue -----------------------------
(***************************************************************************)
(* What the outbox and the inbox promise their workers, without clocks,    *)
(* SQL, locks or transactions: a queue whose items are taken by a consumer,*)
(* worked on, and then finished, returned or given up.  As long as leases  *)
(* are kept (no consumer outlives its lease) only items that nobody works  *)
(* on are taken away from whoever had them; afterwards anything held may   *)
(* be taken again, and late consumers overwrite what others recorded.      *)
(*                                                                         *)
(* OutboxRefinement and InboxRefinement show that the two runners          *)
(* implement this specification.                                           *)
(***************************************************************************)
EXTENDS Naturals

CONSTANTS Items, Consumers, MaxTries

VARIABLES state,  \* what the table says of each item
          tries,  \* attempts recorded
          hands,  \* the items each consumer is working on
          kept    \* no consumer has outlived its lease yet

queueVars == <<state, tries, hands, kept>>

InState(s) == {m \in Items : state[m] = s}
InHands == UNION {hands[c] : c \in Consumers}

Init ==
    /\ state = [m \in Items |-> "absent"]
    /\ tries = [m \in Items |-> 0]
    /\ hands = [c \in Consumers |-> {}]
    /\ kept = TRUE

\* A message is committed to the table.
Put(m) ==
    /\ state[m] = "absent"
    /\ state' = [state EXCEPT ![m] = "waiting"]
    /\ UNCHANGED <<tries, hands, kept>>

\* One claim transaction: items whose lease is over go back to waiting, and
\* some waiting items are taken.  A lease that is kept is never over.
Take(c, over, taken) ==
    /\ hands[c] = {}
    /\ over \subseteq InState("held")
    /\ kept => over \cap InHands = {}
    /\ taken \subseteq over \cup InState("waiting")
    /\ state' = [m \in Items |-> CASE m \in taken -> "held"
                                   [] m \in over \ taken -> "waiting"
                                   [] OTHER -> state[m]]
    /\ hands' = [hands EXCEPT ![c] = taken]
    /\ UNCHANGED <<tries, kept>>

\* A consumer records s, the result it has for an item it works on.
Record(c, m, s) ==
    /\ m \in hands[c]
    /\ state' = [state EXCEPT ![m] = s]
    /\ hands' = [hands EXCEPT ![c] = @ \ {m}]
    /\ UNCHANGED kept

Finish(c, m) == Record(c, m, "done") /\ UNCHANGED tries

Return(c, m) ==
    /\ Record(c, m, "waiting")
    /\ kept => tries[m] + 1 < MaxTries
    /\ tries' = [tries EXCEPT ![m] = @ + 1]

GiveUp(c, m) ==
    /\ Record(c, m, "dead")
    /\ tries' = [tries EXCEPT ![m] = @ + 1]

\* A pass ends early; its items stay held until their leases are over.
Drop(c) ==
    /\ hands' = [hands EXCEPT ![c] = {}]
    /\ UNCHANGED <<state, tries, kept>>

\* Some consumer outlives its lease.
Overrun ==
    /\ kept' = FALSE
    /\ UNCHANGED <<state, tries, hands>>

Next ==
    \/ \E m \in Items : Put(m)
    \/ \E c \in Consumers :
          \/ \E over, taken \in SUBSET Items : Take(c, over, taken)
          \/ \E m \in Items : Finish(c, m) \/ Return(c, m) \/ GiveUp(c, m)
          \/ Drop(c)
    \/ Overrun

Spec == Init /\ [][Next]_queueVars

-----------------------------------------------------------------------------
(* What the promise amounts to *)

\* Every variable stays in its type.
TypeOK ==
    /\ state \in [Items -> {"absent", "waiting", "held", "done", "dead"}]
    /\ tries \in [Items -> Nat]
    /\ hands \in [Consumers -> SUBSET Items]
    /\ kept \in BOOLEAN

\* While leases are kept an item is in at most one consumer's hands, and the
\* table says so.
Exclusive ==
    kept => \A c \in Consumers :
                /\ hands[c] \subseteq InState("held")
                /\ \A d \in Consumers \ {c} : hands[c] \cap hands[d] = {}

\* While leases are kept, an item that is done or dead stays as it is.
SettledIsFinal ==
    [][kept => \A m \in Items : state[m] \in {"done", "dead"} =>
                  state'[m] = state[m] /\ tries'[m] = tries[m]]_queueVars
=============================================================================
