------------------------- MODULE WorkerControlProofs -------------------------
(* The wake-up signal is correct for any set of notifying threads. *)
EXTENDS WorkerControl, TLAPS

(* Every step of notify(), forceNotify() and waitFor() keeps the types. *)
LEMMA WCTypeStep == WCTypeOK /\ [WCNext]_wcVars => WCTypeOK'
<1> SUFFICES ASSUME WCTypeOK, [WCNext]_wcVars PROVE WCTypeOK'
  OBVIOUS
<1> USE DEF WCTypeOK, NotifyState, WaitState, NotifyAt, WaitAt
<1>1. ASSUME NEW t \in Threads, CallNotify(t) \/ CallForceNotify(t)
      PROVE  WCTypeOK'
  BY <1>1 DEF CallNotify, CallForceNotify
<1>2. ASSUME NEW t \in Threads, Exchange(t) PROVE WCTypeOK'
  BY <1>2 DEF Exchange
<1>3. ASSUME NEW t \in Threads, Store(t) PROVE WCTypeOK'
  BY <1>3 DEF Store
<1>4. ASSUME NEW t \in Threads, Release(t) PROVE WCTypeOK'
  BY <1>4 DEF Release
<1>5. CASE StartWait
  BY <1>5 DEF StartWait
<1>6. CASE Acquire
  BY <1>6 DEF Acquire
<1>7. CASE ClearPending
  BY <1>7 DEF ClearPending
<1>8. CASE TimeOut
  BY <1>8 DEF TimeOut
<1>9. CASE UNCHANGED wcVars
  BY <1>9 DEF wcVars
<1> QED
  BY <1>1, <1>2, <1>3, <1>4, <1>5, <1>6, <1>7, <1>8, <1>9 DEF WCNext, Notifying, WaitFor

(* Type correctness of the wake-up signal: the semaphore's count is never    *)
(* decremented below zero.                                                   *)
THEOREM WCTypeCorrect == WCSpec => []WCTypeOK
<1>1. WCInit => WCTypeOK
  <2> SUFFICES ASSUME WCInit PROVE WCTypeOK
    OBVIOUS

  <2>1. /\ signalPending \in BOOLEAN /\ waiter \in WaitState
        /\ ntf \in [Threads -> NotifyState]
    BY Zenon DEF WCInit, NotifyState, WaitState
  <2>2. signal \in Nat
    BY DEF WCInit
  <2> QED
    BY <2>1, <2>2 DEF WCTypeOK
<1> QED
  BY <1>1, WCTypeStep, PTL DEF WCSpec

(* One step keeps every skipped release covered by a token: notify() and     *)
(* forceNotify() create the token they announce, the worker clears the       *)
(* announcement only after it has taken one.                                 *)
LEMMA PendingStep == WCTypeOK /\ PendingIsBacked /\ [WCNext]_wcVars => PendingIsBacked'
<1> SUFFICES ASSUME WCTypeOK, PendingIsBacked, [WCNext]_wcVars
             PROVE  PendingIsBacked'
  OBVIOUS
<1> USE DEF WCTypeOK, PendingIsBacked
<1>1. ASSUME NEW t \in Threads, CallNotify(t) \/ CallForceNotify(t)
      PROVE  PendingIsBacked'
  <2>1. \A u \in Threads : ntf[u] = "release" => ntf'[u] = "release"
    BY <1>1 DEF CallNotify, CallForceNotify, NotifyAt
  <2> QED
    BY <1>1, <2>1 DEF CallNotify, CallForceNotify
<1>2. ASSUME NEW t \in Threads, Exchange(t) PROVE PendingIsBacked'
  <2>1. CASE signalPending
    <3>1. \A u \in Threads : ntf[u] = "release" => ntf'[u] = "release"
      BY <1>2, <2>1 DEF Exchange, NotifyAt
    <3> QED
      BY <1>2, <2>1, <3>1 DEF Exchange
  <2>2. CASE ~signalPending
    BY <1>2, <2>2 DEF Exchange, NotifyAt
  <2> QED
    BY <2>1, <2>2
<1>3. ASSUME NEW t \in Threads, Store(t) PROVE PendingIsBacked'
  BY <1>3 DEF Store, NotifyAt
<1>4. ASSUME NEW t \in Threads, Release(t) PROVE PendingIsBacked'
  BY <1>4 DEF Release
<1>5. CASE StartWait
  BY <1>5 DEF StartWait, WaitAt
<1>6. CASE Acquire
  BY <1>6 DEF Acquire, WaitAt
<1>7. CASE ClearPending
  BY <1>7 DEF ClearPending
<1>8. CASE TimeOut
  BY <1>8 DEF TimeOut, WaitAt
<1>9. CASE UNCHANGED wcVars
  BY <1>9 DEF wcVars
<1> QED
  BY <1>1, <1>2, <1>3, <1>4, <1>5, <1>6, <1>7, <1>8, <1>9 DEF WCNext, Notifying, WaitFor

(* No wake-up is lost: whenever notify() would skip its release because      *)
(* signalPending is set, a token is available, on its way, or just taken by  *)
(* a worker that has not read any state yet.                                 *)
THEOREM NoLostWakeup == WCSpec => []PendingIsBacked
<1>1. WCInit => PendingIsBacked
  BY DEF WCInit, PendingIsBacked
<1> QED
  BY <1>1, WCTypeCorrect, PendingStep, PTL DEF WCSpec

=============================================================================
