------------------------------- MODULE Retry -------------------------------
(***************************************************************************)
(* Retry scheduling shared by the outbox and the inbox runner              *)
(* (pactix/_retry.py, RetryPolicy of pactix/config.py).                    *)
(*                                                                         *)
(* Durations are whole ticks.  jitter_factor is carried by the policy but  *)
(* read by no code, so it has no counterpart here.  The code computes in   *)
(* float seconds and saturates an overflow to infinity, which the cap then *)
(* removes; natural numbers do not overflow, so the cap alone remains.     *)
(***************************************************************************)
EXTENDS Naturals

CONSTANTS MaxAttempts,      \* RetryPolicy.max_attempts
          InitialInterval,  \* RetryPolicy.initial_interval
          MaxInterval,      \* RetryPolicy.max_interval
          Multiplier        \* RetryPolicy.multiplier

ASSUME RetryPolicyAssumption ==
    /\ MaxAttempts \in Nat \ {0}
    /\ InitialInterval \in Nat
    /\ MaxInterval \in Nat
    /\ Multiplier \in Nat \ {0}
    /\ \A n \in 0..MaxAttempts : Multiplier ^ n \in Nat

\* min(initial_interval * multiplier**attempts, max_interval)
Backoff(attempts) ==
    LET scaled == InitialInterval * (Multiplier ^ attempts)
    IN  IF scaled < MaxInterval THEN scaled ELSE MaxInterval

\* The time at which a row that has made `attempts' attempts is due again.
NextRetryAt(attempts, now) == now + Backoff(attempts)

\* Mutants of ReachesCeiling: one attempt too many, one attempt too few.
ReachesCeiling_Late(attempts) == attempts >= MaxAttempts
ReachesCeiling_Early(attempts) == attempts + 2 >= MaxAttempts

\* handle_retryable_failure marks the row failed instead of rescheduling it.
ReachesCeiling(attempts) == attempts + 1 >= MaxAttempts
=============================================================================
