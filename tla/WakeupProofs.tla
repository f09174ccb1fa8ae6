---------------------------- MODULE WakeupProofs ----------------------------
(***************************************************************************)
(* Type correctness and SignalsAreHonoured of Wakeup, for every set of     *)
(* rows, drain cap, batch size, notification mode and fallback schedule.   *)
(***************************************************************************)
EXTENDS Wakeup, TLAPS

\* A row is in at most one place, its history only speaks of claimable rows,
\* and rows still to be tried have attempts left.
RowInv ==
    /\ woken \subseteq queue
    /\ rung \subseteq queue
    /\ queue \cap scheduled = {}
    /\ \A r \in queue \cup scheduled : attempts[r] < MaxAttempts
    /\ \A r \in Rows : app[r] = "append" =>
          r \notin queue \cup scheduled /\ attempts[r] = 0

\* A drain goes on only below the cap.
PassInv == loop = "drain" => passes < MaxPasses

\* The inductive invariant.
WInv == TypeOK /\ RowInv /\ PassInv /\ SignalsAreHonoured

-----------------------------------------------------------------------------

\* The invariant holds when the worker starts.
LEMMA InitWInv == Init => WInv
<1> SUFFICES ASSUME Init PROVE WInv
  OBVIOUS
<1>1. FlagsOK BY DEF Init, FlagsOK
<1>2. TypeOK BY <1>1, WakeupAssumption DEF Init, TypeOK
<1>3. RowInv BY WakeupAssumption DEF Init, RowInv
<1>4. PassInv /\ SignalsAreHonoured BY DEF Init, PassInv, SignalsAreHonoured
<1> QED BY <1>2, <1>3, <1>4 DEF WInv

\* The applications' steps preserve it: wake() and NOTIFY set the signal
\* together with the history.
LEMMA ApplicationWInv ==
  ASSUME WInv, NEW r \in Rows, Application(r)
  PROVE  WInv'
<1> USE WakeupAssumption DEF WInv, loopVars, outboxVars, listenerVars
<1>1. CASE Commit(r)
  <2>0. FlagsOK' BY <1>1 DEF Commit, SendNotify, TypeOK, FlagsOK
  <2>1. TypeOK' BY <1>1, <2>0 DEF Commit, SendNotify, TypeOK
  <2>2. RowInv' BY <1>1 DEF Commit, SendNotify, TypeOK, RowInv
  <2>3. PassInv' BY <1>1 DEF Commit, PassInv
  <2>4. SignalsAreHonoured'
    BY <1>1 DEF Commit, SendNotify, RowInv, SignalsAreHonoured
  <2> QED BY <2>1, <2>2, <2>3, <2>4
<1>2. CASE Wake(r)
  <2>0. FlagsOK' BY <1>2 DEF Wake, TypeOK, FlagsOK
  <2>1. TypeOK' BY <1>2, <2>0 DEF Wake, TypeOK
  <2>2. RowInv' BY <1>2 DEF Wake, TypeOK, RowInv
  <2>3. PassInv' /\ SignalsAreHonoured'
    BY <1>2 DEF Wake, PassInv, SignalsAreHonoured
  <2> QED BY <2>1, <2>2, <2>3
<1>3. CASE Notify(r) \/ ApplicationDies(r)
  <2>0. FlagsOK' BY <1>3 DEF Notify, ApplicationDies, TypeOK, FlagsOK
  <2>1. TypeOK' BY <1>3, <2>0 DEF Notify, ApplicationDies, TypeOK
  <2>2. RowInv' BY <1>3 DEF Notify, ApplicationDies, TypeOK, RowInv
  <2>3. PassInv' /\ SignalsAreHonoured'
    BY <1>3 DEF Notify, ApplicationDies, PassInv, SignalsAreHonoured
  <2> QED BY <2>1, <2>2, <2>3
<1>4. CASE ExecuteNotify(r)
  <2>0. FlagsOK' BY <1>4 DEF ExecuteNotify, SendNotify, TypeOK, FlagsOK
  <2>1. TypeOK' BY <1>4, <2>0 DEF ExecuteNotify, SendNotify, TypeOK
  <2>2. RowInv' BY <1>4 DEF ExecuteNotify, SendNotify, TypeOK, RowInv
  <2>3. PassInv' BY <1>4 DEF ExecuteNotify, PassInv
  <2>4. SignalsAreHonoured'
    BY <1>4 DEF ExecuteNotify, SendNotify, SignalsAreHonoured
  <2> QED BY <2>1, <2>2, <2>3, <2>4
<1> QED BY <1>1, <1>2, <1>3, <1>4 DEF Application

\* So does a row that becomes claimable: its history was dropped when it was
\* claimed.
LEMMA BecomesDueWInv ==
  ASSUME WInv, NEW r \in Rows, BecomesDue(r)
  PROVE  WInv'
<1> USE DEF BecomesDue, WInv, loopVars, appVars, listenerVars
<1>0. FlagsOK' BY DEF TypeOK, FlagsOK
<1>1. TypeOK' BY <1>0 DEF TypeOK
<1>2. RowInv' BY DEF TypeOK, RowInv
<1>3. PassInv' BY DEF PassInv
<1>4. SignalsAreHonoured' BY DEF RowInv, SignalsAreHonoured
<1> QED BY <1>1, <1>2, <1>3, <1>4

\* So do the listener and the coalescing window.
LEMMA ListenerWInv ==
  ASSUME WInv,
         CoalesceElapses \/ EnsureListener \/ OnNotify \/ ListenerDies
  PROVE  WInv'
<1> USE DEF CoalesceElapses, EnsureListener, OnNotify, ListenerDies, WInv,
            appVars, outboxVars, loopVars, listenerVars
<1>0. FlagsOK' BY DEF TypeOK, FlagsOK
<1>1. TypeOK' BY <1>0 DEF TypeOK
<1>2. RowInv' BY DEF TypeOK, RowInv
<1>3. PassInv' BY DEF PassInv
<1>4. SignalsAreHonoured' BY DEF SignalsAreHonoured
<1> QED BY <1>1, <1>2, <1>3, <1>4

\* The end of run(): no listener, no rows in hand.
LEMMA StopWInv ==
  ASSUME WInv, NEW batch \in SUBSET queue, Stop(batch)
  PROVE  WInv'
<1> USE DEF Stop, WInv
<1>0. FlagsOK' BY DEF TypeOK, FlagsOK
<1>1. TypeOK' BY <1>0 DEF TypeOK
<1>2. RowInv' BY DEF TypeOK, RowInv
<1>3. PassInv' /\ SignalsAreHonoured' BY DEF PassInv, SignalsAreHonoured
<1> QED BY <1>1, <1>2, <1>3

\* A claimed batch leaves the queue, with its history, and comes back to the
\* schedule only with attempts left.
LEMMA SettleRowInv ==
  ASSUME TypeOK, RowInv, UNCHANGED app,
         NEW batch \in SUBSET queue, NEW retried \in SUBSET batch,
         Settle(batch, retried)
  PROVE  /\ RowInv'
         /\ queue' \subseteq Rows /\ scheduled' \subseteq Rows
         /\ woken' \subseteq Rows /\ rung' \subseteq Rows
         /\ attempts' \in [Rows -> 0..MaxAttempts]
<1> USE WakeupAssumption
<1>1. attempts' \in [Rows -> 0..MaxAttempts]
  BY DEF TypeOK, RowInv, Settle
<1>2. \A r \in queue' \cup scheduled' : attempts'[r] < MaxAttempts
  BY DEF TypeOK, RowInv, Settle
<1>3. \A r \in Rows : app'[r] = "append" =>
          r \notin queue' \cup scheduled' /\ attempts'[r] = 0
  BY DEF TypeOK, RowInv, Settle
<1>4. /\ woken' \subseteq queue' /\ rung' \subseteq queue'
      /\ queue' \cap scheduled' = {}
      /\ queue' \subseteq Rows /\ scheduled' \subseteq Rows
  BY DEF TypeOK, RowInv, Settle
<1> QED BY <1>1, <1>2, <1>3, <1>4 DEF RowInv

\* The wake loop preserves it: signals are cleared only when a drain starts,
\* and a drain ends only with an empty queue or at the cap.
LEMMA LoopWInv ==
  ASSUME WInv, Loop
  PROVE  WInv'
<1> USE WakeupAssumption
    DEF WInv, appVars, outboxVars, loopVars, listenerVars
<1>1. CASE WaitForWake \/ Timeout
  <2>1. StartDrain
    BY <1>1 DEF WaitForWake, Timeout
  <2>2. UNCHANGED <<app, queue, scheduled, attempts, listener, woken, rung>>
    BY <1>1 DEF WaitForWake, Timeout
  <2>3. FlagsOK' BY <1>1 DEF WaitForWake, Timeout, StartDrain, TypeOK, FlagsOK
  <2>4. TypeOK' BY <2>1, <2>2, <2>3 DEF StartDrain, TypeOK
  <2>5. RowInv' BY <2>2 DEF RowInv
  <2>6. PassInv' /\ SignalsAreHonoured'
    BY <2>1 DEF StartDrain, PassInv, SignalsAreHonoured
  <2> QED BY <2>4, <2>5, <2>6
<1>2. ASSUME NEW batch \in SUBSET queue, NEW retried \in SUBSET batch,
             DrainPass(batch, retried)
      PROVE  WInv'
  <2>1. Settle(batch, retried) /\ UNCHANGED app BY <1>2 DEF DrainPass
  <2>2. RowInv' BY <2>1, SettleRowInv
  <2>f. FlagsOK' BY <1>2 DEF DrainPass, TypeOK, FlagsOK
  <2>3. TypeOK' BY <1>2, <2>f, <2>1, SettleRowInv DEF DrainPass, PassInv, TypeOK
  <2>4. PassInv' BY <1>2 DEF DrainPass, PassInv, TypeOK
  <2>5. SignalsAreHonoured' BY <1>2 DEF DrainPass, SignalsAreHonoured
  <2> QED BY <2>2, <2>3, <2>4, <2>5
<1>3. CASE DrainEmpty
  <2>0. FlagsOK' BY <1>3 DEF DrainEmpty, TypeOK, FlagsOK
  <2>1. TypeOK' BY <1>3, <2>0 DEF DrainEmpty, TypeOK
  <2>2. RowInv' BY <1>3 DEF DrainEmpty, RowInv
  <2>3. PassInv' /\ SignalsAreHonoured'
    BY <1>3 DEF DrainEmpty, PassInv, SignalsAreHonoured
  <2> QED BY <2>1, <2>2, <2>3
<1>4. CASE DrainEnds
  <2>0. FlagsOK' BY <1>4 DEF DrainEnds, NextInterval, TypeOK, FlagsOK
  <2>1. TypeOK' BY <1>4, <2>0 DEF DrainEnds, NextInterval, TypeOK
  <2>2. RowInv' BY <1>4 DEF DrainEnds, RowInv
  <2>3. PassInv' /\ SignalsAreHonoured'
    BY <1>4 DEF DrainEnds, PassInv, SignalsAreHonoured
  <2> QED BY <2>1, <2>2, <2>3
<1> QED BY <1>1, <1>2, <1>3, <1>4 DEF Loop

\* The passes of other workers preserve it.
LEMMA OtherWorkerWInv ==
  ASSUME WInv, NEW batch \in SUBSET queue,
         \/ OtherWorkerDies(batch)
         \/ \E retried \in SUBSET batch : OtherWorkerClaims(batch, retried)
  PROVE  WInv'
<1> USE DEF WInv, loopVars, listenerVars
<1>1. CASE OtherWorkerDies(batch)
  <2>0. FlagsOK' BY <1>1 DEF OtherWorkerDies, TypeOK, FlagsOK
  <2>1. TypeOK' BY <1>1, <2>0 DEF OtherWorkerDies, TypeOK
  <2>2. RowInv' BY <1>1 DEF OtherWorkerDies, TypeOK, RowInv
  <2>3. PassInv' /\ SignalsAreHonoured'
    BY <1>1 DEF OtherWorkerDies, PassInv, SignalsAreHonoured
  <2> QED BY <2>1, <2>2, <2>3
<1>2. ASSUME NEW retried \in SUBSET batch, OtherWorkerClaims(batch, retried)
      PROVE  WInv'
  <2>0. retried \in SUBSET batch /\ batch \in SUBSET queue BY <1>2
  <2>1. Settle(batch, retried) /\ UNCHANGED app BY <1>2 DEF OtherWorkerClaims
  <2>2. RowInv' BY <2>0, <2>1, SettleRowInv
  <2>f. FlagsOK' BY <1>2 DEF OtherWorkerClaims, TypeOK, FlagsOK
  <2>3. TypeOK'
    BY <1>2, <2>f, <2>0, <2>1, SettleRowInv DEF OtherWorkerClaims, TypeOK
  <2>4. PassInv' BY <1>2 DEF OtherWorkerClaims, PassInv
  <2>5. SignalsAreHonoured'
    BY <1>2 DEF OtherWorkerClaims, Settle, SignalsAreHonoured
  <2> QED BY <2>2, <2>3, <2>4, <2>5
<1> QED BY <1>1, <1>2

\* Every step preserves the invariant.
LEMMA NextWInv == WInv /\ [Next]_vars => WInv'
<1> SUFFICES ASSUME WInv, [Next]_vars PROVE WInv'
  OBVIOUS
<1>1. CASE UNCHANGED vars
  BY <1>1 DEF vars, WInv, TypeOK, FlagsOK, RowInv, PassInv, SignalsAreHonoured
<1>2. ASSUME NEW r \in Rows, Application(r) \/ BecomesDue(r) PROVE WInv'
  BY <1>2, ApplicationWInv, BecomesDueWInv
<1>3. CASE CoalesceElapses \/ EnsureListener \/ OnNotify \/ ListenerDies
  BY <1>3, ListenerWInv
<1>4. CASE ListenerFails
  <2>1. {} \in SUBSET queue OBVIOUS
  <2>2. Stop({}) BY <1>4 DEF ListenerFails
  <2> QED BY <2>1, <2>2, StopWInv
<1>5. CASE Loop
  BY <1>5, LoopWInv
<1>6. ASSUME NEW batch \in SUBSET queue, DrainRaises(batch) \/ Cancel(batch)
      PROVE  WInv'
  <2>1. Stop(batch)
    BY <1>6 DEF DrainRaises, Cancel
  <2> QED BY <2>1, StopWInv
<1>7. ASSUME NEW batch \in SUBSET queue,
             \/ OtherWorkerDies(batch)
             \/ \E retried \in SUBSET batch : OtherWorkerClaims(batch, retried)
      PROVE  WInv'
  BY <1>7, OtherWorkerWInv
<1> QED BY <1>1, <1>2, <1>3, <1>4, <1>5, <1>6, <1>7 DEF Next

\* The wake loop's inductive invariant, which includes the types and the cap
\* on the fallback interval.
THEOREM WakeupInvariant == Spec => []WInv
  BY InitWInv, NextWInv, PTL DEF Spec

\* Every variable stays in its type, the fallback interval within its cap.
THEOREM WakeupTypeCorrect == Spec => []TypeOK
<1>1. WInv => TypeOK BY DEF WInv
<1> QED BY <1>1, WakeupInvariant, PTL

\* However signals, drains, cancelled waiters and other workers interleave,
\* _wait_for_wake never uses up a signal without a drain that begins after it
\* and runs until nothing is claimable or the cap is reached.
THEOREM SignalsAreHonouredHolds == Spec => []SignalsAreHonoured
<1>1. WInv => SignalsAreHonoured BY DEF WInv
<1> QED BY <1>1, WakeupInvariant, PTL
=============================================================================
