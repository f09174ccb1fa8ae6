------------------------------ MODULE MCWakeup ------------------------------
(* A small instance of Wakeup for TLC: see MCWakeup.cfg.                    *)
EXTENDS Wakeup
=============================================================================
