--------------------------- MODULE WorkerControl ---------------------------
(***************************************************************************)
(* The wake-up half of BatchSpanProcessor::WorkerControl                   *)
(* (kernel/batch_span_processor.cc): a counting semaphore `signal` and the *)
(* flag `signalPending` that lets notify() skip a release.  Any thread may *)
(* notify; the worker alone waits.                                         *)
(***************************************************************************)
EXTENDS Integers

CONSTANT Threads   \* the threads that call notify() or forceNotify()

VARIABLES
    signalPending,  \* WorkerControl::signalPending
    signal,         \* the count of WorkerControl::signal
    ntf,            \* ntf[t]: where thread t is in notify() or forceNotify()
    waiter          \* where the worker is in waitFor()

wcVars == <<signalPending, signal, ntf, waiter>>

NotifyState == {"quiet", "exchange", "store", "release"}

WaitState == {"awake", "waiting", "acquired"}

WCTypeOK ==
    /\ signalPending \in BOOLEAN
    /\ signal \in Nat
    /\ ntf \in [Threads -> NotifyState]
    /\ waiter \in WaitState

WCInit ==
    /\ signalPending = FALSE
    /\ signal = 0
    /\ ntf = [t \in Threads |-> "quiet"]
    /\ waiter = "awake"

----------------------------------------------------------------------------
NotifyAt(t, from, to) ==
    /\ ntf[t] = from
    /\ ntf' = [ntf EXCEPT ![t] = to]

(* Thread t enters notify() ... *)
CallNotify(t) ==
    /\ NotifyAt(t, "quiet", "exchange")
    /\ UNCHANGED <<signalPending, signal, waiter>>

(* ... signalPending.exchange(true): no release when it was already set. *)
Exchange(t) ==
    /\ NotifyAt(t, "exchange", IF signalPending THEN "quiet" ELSE "release")
    /\ signalPending' = TRUE
    /\ UNCHANGED <<signal, waiter>>

(* Thread t enters forceNotify() ... *)
CallForceNotify(t) ==
    /\ NotifyAt(t, "quiet", "store")
    /\ UNCHANGED <<signalPending, signal, waiter>>

(* ... signalPending.store(true). *)
Store(t) ==
    /\ NotifyAt(t, "store", "release")
    /\ signalPending' = TRUE
    /\ UNCHANGED <<signal, waiter>>

(* signal.release(), the end of either call. *)
Release(t) ==
    /\ NotifyAt(t, "release", "quiet")
    /\ signal' = signal + 1
    /\ UNCHANGED <<signalPending, waiter>>

----------------------------------------------------------------------------
WaitAt(from, to) == waiter = from /\ waiter' = to

(* The worker enters waitFor(timeout). *)
StartWait ==
    /\ WaitAt("awake", "waiting")
    /\ UNCHANGED <<signalPending, signal, ntf>>

(* signal.try_acquire_for takes a token. *)
Acquire ==
    /\ WaitAt("waiting", "acquired")
    /\ signal > 0
    /\ signal' = signal - 1
    /\ UNCHANGED <<signalPending, ntf>>

(* The definitions with a double underscore are deliberate mistakes: each is *)
(* a plausible bug in the definition that follows, kept to show that the     *)
(* properties notice it.  The specification uses none of them.               *)

(* waitFor forgets to reset the flag. *)
ClearPending__Forgotten ==
    /\ WaitAt("acquired", "awake")
    /\ UNCHANGED <<signalPending, signal, ntf>>

(* signalPending.store(false), return true. *)
ClearPending ==
    /\ WaitAt("acquired", "awake")
    /\ signalPending' = FALSE
    /\ UNCHANGED <<signal, ntf>>

(* The timeout passes first (the library may also miss a token that arrives *)
(* meanwhile): return false, signalPending untouched.                       *)
TimeOut ==
    /\ WaitAt("waiting", "awake")
    /\ UNCHANGED <<signalPending, signal, ntf>>

Notifying(t) == Exchange(t) \/ Store(t) \/ Release(t)

WaitFor == Acquire \/ ClearPending \/ TimeOut

WCNext ==
    \/ \E t \in Threads : CallNotify(t) \/ CallForceNotify(t) \/ Notifying(t)
    \/ StartWait \/ WaitFor

WCSpec == WCInit /\ [][WCNext]_wcVars

----------------------------------------------------------------------------
(* No lost wake-up: notify() skips its release only on the strength of      *)
(* signalPending, so while the flag is set a token is in the semaphore,     *)
(* about to be released, or in the hands of a worker that has not looked    *)
(* at any state yet (it clears the flag before it reads).                   *)
PendingIsBacked ==
    signalPending =>
        \/ signal > 0
        \/ \E t \in Threads : ntf[t] = "release"
        \/ waiter = "acquired"

=============================================================================
