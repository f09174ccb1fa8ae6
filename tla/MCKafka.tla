------------------------------ MODULE MCKafka ------------------------------
(* A small instance of KafkaConsumer for TLC.                               *)
EXTENDS KafkaConsumer, TLC

CONSTANTS k1, k2, t1, t2, p1, p2

\* A message, one without message_id, the first again, another, and an invalid one.
MCLog == <<k1, NoId, k1, k2, Invalid>>
MCKeys == {k1, k2} \cup Offsets

\* Different ids are different to the index.
MCDistinct == [k \in Keys |-> k]

\* docs/kafka.md: one task per process.
MCLoop == (t1 :> p1) @@ (t2 :> p2)
=============================================================================
