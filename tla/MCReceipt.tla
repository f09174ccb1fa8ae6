----------------------------- MODULE MCReceipt -----------------------------
(* Small instances of InboxReceipt for TLC.                                 *)
EXTENDS InboxReceipt

\* Different ids are different to the index.
MCDistinct == [k \in Keys |-> k]

\* Ids that differ only in case: one entry in MySQL's default collation.
MCCaseInsensitive == [k \in Keys |-> "order-1"]
=============================================================================
