---------------------- MODULE BatchSpanProcessorProofs ----------------------
(***************************************************************************)
(* BatchSpanProcessor is correct for any numbers of spans, flush callers   *)
(* and shutdown callers, any configuration and any exporter.               *)
(*                                                                         *)
(* Its steps are steps of SpanQueue and of WorkerControl, so the theorems  *)
(* about these components hold of it; on them rests the invariant of the   *)
(* worker's exit protocol.                                                 *)
(***************************************************************************)
EXTENDS BatchSpanProcessor, SpanQueueProofs, WorkerControlProofs

(* Next with the calls grouped by caller. *)
PushAction(s) == OnEnd(s) \/ PushGoesOn(s) \/ PushAccepted(s) \/ PushRefused(s)

FlushAction(f) == FlushNegativeTimeout(f) \/ FlushEnter(f) \/ FlushStep(f)

CloseAction(c) == CloseBegin(c) \/ CloseStep(c)

(* A step is a step of one thread, of the clock, or nothing. *)
LEMMA NextCases ==
    ASSUME [Next]_vars
    PROVE  \/ \E s \in Spans : PushAction(s)
           \/ \E t \in Threads : NotifyStep(t)
           \/ \E f \in Flushers : FlushAction(f)
           \/ \E c \in Closers : CloseAction(c)
           \/ \E t \in Flushers \cup Closers : Expire(t)
           \/ WorkerStep
           \/ UNCHANGED vars
BY DEF Next, PushAction, FlushAction, CloseAction, Terminated

(* What each group leaves alone. *)
LEMMA PushFrame == ASSUME NEW s \in Spans, PushAction(s) PROVE UNCHANGED othersDuringPush
BY DEF PushAction, OnEnd, PushGoesOn, PushAccepted, PushRefused

(* A step of a forceFlush call leaves the queue, the closers and the worker *)
(* alone.                                                                   *)
LEMMA FlushFrame == ASSUME NEW f \in Flushers, FlushAction(f)
                    PROVE  UNCHANGED othersDuringFlush
BY DEF FlushAction, FlushNegativeTimeout, FlushEnter, FlushStep, FlushCheckShutdown,
       FlushCheckStopped, EarlyExitIf, FlushEnqueue, FlushEnqueueFails, FlushThrows,
       FlushLeave, FlushLast, FlushReadEmpty, FlushWake, FlushAwait

(* A step of a shutdown call leaves the flush callers and the worker alone. *)
LEMMA CloseFrame == ASSUME NEW c \in Closers, CloseAction(c)
                    PROVE  UNCHANGED othersDuringClose
BY DEF CloseAction, CloseBegin, CloseStep, CloseClaim, CloseJoin, ClosePoll,
       CloseReadDrain, CloseExporterClaim, CloseExporter, CloseReturn

(* A step of the worker leaves the callers alone. *)
LEMMA WorkerFrame == ASSUME WorkerStep PROVE UNCHANGED othersDuringWork
BY DEF WorkerStep, WorkerWaits, WorkerWakes, WorkerLoadShutdown, TakeRequest,
       NoMoreRequests, DrainCheckDeadline, DrainFindsNothing, DrainPops, ExportBatch,
       DrainCheckIdle, DrainReturns, AnswerRequest, ExitCheckActive, ExitCheckEmpty,
       FinalFlush, WorkerStop, ReadyCheck, DrainReadyBatches

----------------------------------------------------------------------------
(* The worker's steps, as the queue sees them. *)
LEMMA WorkerOnQueue ==
    ASSUME WorkerStep
    PROVE  TryPopBulk \/ Deliver \/ UNCHANGED sqVars
BY DEF WorkerStep, WorkerWaits, WorkerWakes, WorkerLoadShutdown, TakeRequest,
       NoMoreRequests, DrainCheckDeadline, DrainFindsNothing, DrainPops, ExportBatch,
       DrainCheckIdle, DrainReturns, AnswerRequest, ExitCheckActive, ExitCheckEmpty,
       FinalFlush, WorkerStop, ReadyCheck, DrainReadyBatches, TryPopBulk

(* Every step of the processor is a step of the queue or leaves it alone. *)
LEMMA StepOfQueue == [Next]_vars => [SQNext]_sqVars
<1> SUFFICES ASSUME [Next]_vars PROVE [SQNext]_sqVars
  OBVIOUS
<1>1. ASSUME NEW s \in Spans, PushAction(s) PROVE SQNext
  BY <1>1 DEF PushAction, OnEnd, PushGoesOn, PushAccepted, PushRefused, SQNext, TryPush
<1>2. ASSUME NEW t \in Threads, NotifyStep(t) PROVE UNCHANGED sqVars
  BY <1>2 DEF NotifyStep
<1>3. ASSUME NEW f \in Flushers, FlushAction(f) PROVE UNCHANGED sqVars
  BY <1>3, FlushFrame DEF othersDuringFlush
<1>4. ASSUME NEW c \in Closers, CloseAction(c) PROVE [SQNext]_sqVars
  BY <1>4 DEF CloseAction, CloseBegin, CloseStep, CloseClaim, CloseJoin, ClosePoll,
              CloseReadDrain, CloseExporterClaim, CloseExporter, CloseReturn, SQNext
<1>5. ASSUME NEW t \in Flushers \cup Closers, Expire(t) PROVE UNCHANGED sqVars
  BY <1>5 DEF Expire
<1>6. CASE WorkerStep
  BY <1>6, WorkerOnQueue DEF SQNext
<1>7. CASE UNCHANGED vars
  BY <1>7 DEF vars
<1> QED
  BY <1>1, <1>2, <1>3, <1>4, <1>5, <1>6, <1>7, NextCases

(* The processor implements SpanQueue: it uses the queue only through        *)
(* tryPush and tryPopBulk, so all that is proved of the queue holds in it.   *)
THEOREM ImplementsSpanQueue == Spec => SQSpec
BY StepOfQueue, PTL DEF Spec, SQSpec, Init

(* Every step of the processor is a step of the wake-up signal or leaves it. *)
LEMMA StepOfSignal == [Next]_vars => [WCNext]_wcVars
<1> SUFFICES ASSUME [Next]_vars PROVE [WCNext]_wcVars
  OBVIOUS
<1>a. Spans \subseteq Threads /\ Flushers \subseteq Threads /\ Closers \subseteq Threads
  BY ProcessorAssumption
<1>1. ASSUME NEW s \in Spans, PushAction(s) PROVE [WCNext]_wcVars
  BY <1>1, <1>a DEF PushAction, OnEnd, PushGoesOn, PushAccepted, PushRefused, WCNext
<1>2. ASSUME NEW t \in Threads, NotifyStep(t) PROVE WCNext
  BY <1>2 DEF NotifyStep, WCNext
<1>3. ASSUME NEW f \in Flushers, FlushAction(f) PROVE [WCNext]_wcVars
  BY <1>3, <1>a DEF FlushAction, FlushNegativeTimeout, FlushEnter, FlushStep,
         FlushCheckShutdown, FlushCheckStopped, EarlyExitIf, FlushEnqueue,
         FlushEnqueueFails, FlushThrows, FlushLeave, FlushLast, FlushReadEmpty, FlushWake,
         FlushAwait, WCNext
<1>4. ASSUME NEW c \in Closers, CloseAction(c) PROVE [WCNext]_wcVars
  BY <1>4, <1>a DEF CloseAction, CloseBegin, CloseStep, CloseClaim, CloseJoin, ClosePoll,
         CloseReadDrain, CloseExporterClaim, CloseExporter, CloseReturn, WCNext
<1>5. ASSUME NEW t \in Flushers \cup Closers, Expire(t) PROVE UNCHANGED wcVars
  BY <1>5 DEF Expire
<1>6. CASE WorkerStep
  BY <1>6 DEF WorkerStep, WorkerWaits, WorkerWakes, WorkerLoadShutdown, TakeRequest,
       NoMoreRequests, DrainCheckDeadline, DrainFindsNothing, DrainPops, ExportBatch,
       DrainCheckIdle, DrainReturns, AnswerRequest, ExitCheckActive, ExitCheckEmpty,
       FinalFlush, WorkerStop, ReadyCheck, DrainReadyBatches, WCNext, WaitFor
<1>7. CASE UNCHANGED vars
  BY <1>7 DEF vars
<1> QED
  BY <1>1, <1>2, <1>3, <1>4, <1>5, <1>6, <1>7, NextCases

(* The processor implements WorkerControl: no wake-up is lost in it. *)
THEOREM ImplementsWorkerControl == Spec => WCSpec
BY StepOfSignal, PTL DEF Spec, WCSpec, Init

----------------------------------------------------------------------------
(* The inductive invariant. *)

(* The worker's positions inside drainUntilIdle and completeFlushRequest. *)
Serving == {"deadline", "pop", "idleCheck", "nap", "drained", "answer"}

Ended == {"finalFlush", "stop", "stopped"}

(* The worker has passed the test of the empty queue in its exit test. *)
Exiting == w.site = "exit" \/ w.pc \in Ended

(* How the worker's locals go together. *)
WorkerShape ==
    /\ pop # "idle" => w.pc = "pop"
    /\ workerStopped => w.pc = "stopped"
    /\ w.drain = "flush" <=> w.request # None
    /\ w.drain # "ready" => w.pc \in Serving
    /\ w.pc \in Serving \ {"pop"} => w.drain # "ready"
    /\ w.pc = "answer" => w.drain = "flush"
    /\ w.pc \in {"active", "lastEmpty"} => w.site = "drained"
    /\ w.site # "top" \/ w.drain = "shutdown" \/ w.sawShutdown \/ w.pc \in Ended
          => shutdownRequested

(* Past the exit test's look at the queue, nothing can enter it. *)
ExitSealed == Exiting => Sealed

(* Accepted spans are queued, in the batch or handed over, never two of them. *)
Conserved ==
    /\ Accepted = spans \cup batch \cup Handed
    /\ (spans \cup batch) \cap Handed = {}
    /\ exported \cap failed = {}

(* The flush callers that activeFlushCallers counts: those inside the section *)
(* and those that an exception took out of it.                                *)
Section ==
    {f \in Flushers : \/ fpc[f] \in {"checkShutdown", "checkStopped", "enqueue", "leave"}
                      \/ path[f] = "thrown"}

SectionCounted == active = Cardinality(Section)

(* Where the request of a flush caller is. *)
RequestShape ==
    \A f \in Flushers :
        /\ fpc[f] \in {"wake", "await"} => path[f] = "queued"
        /\ fpc[f] = "readEmpty" => path[f] = "early"
        /\ fpc[f] \in {"idle", "checkShutdown", "checkStopped", "enqueue"}
             => path[f] = "none"
        /\ path[f] = "thrown" => fpc[f] = "done"
        /\ fpc[f] # "done" => result[f] = "none"
        /\ path[f] # "queued" => f \notin requests /\ w.request # f /\ answer[f] = "none"
        /\ path[f] = "queued" => f \in requests \/ w.request = f \/ answer[f] # "none"

(* Past the exit test's look at activeFlushCallers no request can be added   *)
(* and none has been thrown out of the section,                              *)
(* past its look at the requests there is none.                              *)
ExitClosed ==
    /\ w.pc = "lastEmpty" \/ Exiting =>
          \A f \in Flushers : fpc[f] \notin {"checkStopped", "enqueue"}
                               /\ path[f] # "thrown"
    /\ w.pc \in Ended => requests = {}

ProcInv ==
    /\ SQInv /\ WCTypeOK /\ FlushTypeOK /\ CloseTypeOK /\ WorkerTypeOK
    /\ WorkerShape /\ ExitSealed /\ Conserved
    /\ SectionCounted /\ RequestShape /\ ExitClosed

(* The strengthened invariant holds when the constructor has started the    *)
(* worker.                                                                  *)
LEMMA ProcInit == Init => ProcInv
<1> SUFFICES ASSUME Init PROVE ProcInv
  OBVIOUS
<1>1. SQInv
  BY InvInit DEF Init
<1>2. WCTypeOK

  <2>1. /\ signalPending \in BOOLEAN /\ waiter \in WaitState
        /\ ntf \in [Threads -> NotifyState]
    BY Zenon DEF Init, WCInit, NotifyState, WaitState
  <2>2. signal \in Nat
    BY DEF Init, WCInit
  <2> QED
    BY <2>1, <2>2 DEF WCTypeOK
<1>3. FlushTypeOK
  BY DEF Init, FlushTypeOK, FlushState, Outcome
<1>4. CloseTypeOK
  BY Zenon DEF Init, CloseTypeOK, CloseState
<1>5. w = LoopTop /\ LoopTop \in WorkerLocals
  BY DEF Init, LoopTop, WorkerLocals, WorkerState
<1>6. workerStopped \in BOOLEAN /\ shutdownDrainOk \in BOOLEAN
  BY Zenon DEF Init
<1>7. WorkerTypeOK
  BY <1>5, <1>6 DEF Init, WorkerTypeOK
<1>8. WorkerShape
  BY <1>5 DEF Init, SQInit, WorkerShape, LoopTop, Serving, Ended
<1>9. ExitSealed /\ ExitClosed
  BY <1>5 DEF Init, ExitSealed, ExitClosed, Exiting, LoopTop, Ended
<1>10. Conserved
  BY DEF Init, SQInit, Conserved, Accepted, Handed
<1>11. SectionCounted
  <2>1. Section = {}
    BY DEF Init, Section
  <2> QED
    BY <2>1, FS_EmptySet DEF Init, SectionCounted
<1>12. RequestShape
  BY <1>5, ProcessorAssumption DEF Init, RequestShape, LoopTop
<1> QED
  BY <1>1, <1>2, <1>3, <1>4, <1>7, <1>8, <1>9, <1>10, <1>11, <1>12 DEF ProcInv

----------------------------------------------------------------------------
(* Where a flush caller goes when it leaves the section. *)
LEMMA AfterSectionType == ASSUME NEW f \in Flushers
                          PROVE  AfterSection(f) \in {"readEmpty", "wake", "done"}
BY DEF AfterSection

(* activeFlushCallers is the number of callers in the section. *)
LEMMA SectionStep == ASSUME ProcInv, [Next]_vars
                     PROVE  SectionCounted' /\ active' \in Nat
<1> USE DEF SectionCounted
<1>a. active = Cardinality(Section) /\ IsFiniteSet(Section) /\ active \in Nat
  BY FS_Subset, ProcessorAssumption DEF ProcInv, FlushTypeOK, Section
<1>b. /\ fpc \in [Flushers -> FlushState]
      /\ path \in [Flushers -> {"none", "early", "queued", "failed", "thrown"}]
      /\ \A f \in Flushers : path[f] = "thrown" => fpc[f] = "done"
  BY DEF ProcInv, FlushTypeOK, RequestShape
<1>1. ASSUME NEW f \in Flushers, FlushEnter(f) PROVE SectionCounted' /\ active' \in Nat
  <2>1. Section' = Section \cup {f} /\ f \notin Section
    BY <1>1, <1>b DEF FlushEnter, FlushAt, Section
  <2>2. Cardinality(Section \cup {f}) = Cardinality(Section) + 1
    BY <1>a, <2>1, FS_AddElement
  <2> QED
    BY <1>1, <1>a, <2>1, <2>2 DEF FlushEnter
<1>2. ASSUME NEW f \in Flushers, FlushLeave(f) PROVE SectionCounted' /\ active' \in Nat
  <2>1. Section' = Section \ {f} /\ f \in Section
    BY <1>2, <1>b, AfterSectionType DEF FlushLeave, FlushAt, Section

  <2>2. /\ Cardinality(Section \ {f}) = Cardinality(Section) - 1
        /\ IsFiniteSet(Section \ {f})
    BY <1>a, <2>1, FS_RemoveElement
  <2>3. Cardinality(Section \ {f}) \in Nat
    BY <2>2, FS_CardinalityType
  <2> QED
    BY <1>2, <1>a, <2>1, <2>2, <2>3 DEF FlushLeave
<1>3. ASSUME NEW f \in Flushers,
             \/ FlushNegativeTimeout(f) \/ FlushCheckShutdown(f) \/ FlushCheckStopped(f)
             \/ FlushEnqueue(f) \/ FlushEnqueueFails(f) \/ FlushThrows(f)
             \/ FlushLast(f) \/ FlushReadEmpty(f) \/ FlushWake(f) \/ FlushAwait(f)
      PROVE  SectionCounted' /\ active' \in Nat
  <2>1. active' = active /\ Section' = Section
    BY <1>3, <1>b, AfterSectionType
       DEF FlushNegativeTimeout, FlushCheckShutdown, FlushCheckStopped, EarlyExitIf,
           FlushEnqueue, FlushEnqueueFails, FlushThrows, FlushLast, FlushReadEmpty,
           FlushWake, FlushAwait, FlushAt, Section
  <2> QED
    BY <1>a, <2>1
<1>4. ASSUME UNCHANGED flushVars PROVE SectionCounted' /\ active' \in Nat
  BY <1>4, <1>a DEF flushVars, Section
<1>5. (\E f \in Flushers : FlushAction(f)) \/ UNCHANGED flushVars
  BY NextCases, PushFrame, CloseFrame, WorkerFrame
     DEF othersDuringPush, othersDuringClose, othersDuringWork, NotifyStep, Expire, vars
<1> QED
  BY <1>1, <1>2, <1>3, <1>4, <1>5 DEF FlushAction, FlushStep

(* The worker only takes requests that are there and answers them. *)
LEMMA WorkerOnRequests ==
    ASSUME WorkerStep, FlushTypeOK, WorkerTypeOK, WorkerShape
    PROVE  /\ requests' \in SUBSET requests
           /\ answer' \in [Flushers -> Outcome]
<1>1. CASE TakeRequest
  BY <1>1 DEF TakeRequest, FlushTypeOK
<1>2. CASE AnswerRequest
  BY <1>2 DEF AnswerRequest, FlushTypeOK, Outcome
<1> QED
  BY <1>1, <1>2
     DEF WorkerStep, WorkerWaits, WorkerWakes, WorkerLoadShutdown, NoMoreRequests,
       DrainCheckDeadline, DrainFindsNothing, DrainPops, ExportBatch,
       DrainCheckIdle, DrainReturns, ExitCheckActive, ExitCheckEmpty,
       FinalFlush, WorkerStop, ReadyCheck, DrainReadyBatches, FlushTypeOK

(* Every step keeps the types of what the forceFlush calls use. *)
LEMMA FlushTypeStep == ASSUME ProcInv, [Next]_vars PROVE FlushTypeOK'
<1>a. FlushTypeOK /\ active' \in Nat /\ Accepted \in SUBSET Spans
  BY SectionStep DEF ProcInv, Accepted
<1>1. ASSUME NEW f \in Flushers, FlushAction(f) PROVE FlushTypeOK'
  <2>1. fpc' \in [Flushers -> FlushState]
    BY <1>1, <1>a, AfterSectionType
       DEF FlushAction, FlushNegativeTimeout, FlushEnter, FlushStep, FlushCheckShutdown,
           FlushCheckStopped, EarlyExitIf, FlushEnqueue, FlushEnqueueFails, FlushThrows,
       FlushLeave, FlushLast, FlushReadEmpty, FlushWake, FlushAwait, FlushAt, FlushTypeOK,
                   FlushState
  <2>2. /\ path' \in [Flushers -> {"none", "early", "queued", "failed", "thrown"}]
        /\ before' \in [Flushers -> SUBSET Spans]
        /\ requests' \in SUBSET Flushers
        /\ answer' = answer
    BY <1>1, <1>a
       DEF FlushAction, FlushNegativeTimeout, FlushEnter, FlushStep, FlushCheckShutdown,
           FlushCheckStopped, EarlyExitIf, FlushEnqueue, FlushEnqueueFails, FlushThrows,
       FlushLeave, FlushLast, FlushReadEmpty, FlushWake, FlushAwait, FlushTypeOK
  <2>3. result' \in [Flushers -> Outcome]
    BY <1>1, <1>a
       DEF FlushAction, FlushNegativeTimeout, FlushEnter, FlushStep, FlushCheckShutdown,
           FlushCheckStopped, EarlyExitIf, FlushEnqueue, FlushEnqueueFails, FlushThrows,
       FlushLeave, FlushLast, FlushReadEmpty, FlushWake, FlushAwait, SectionResult,
                   FlushTypeOK, Outcome
  <2> QED
    BY <1>a, <2>1, <2>2, <2>3 DEF FlushTypeOK
<1>2. CASE WorkerStep
  BY <1>2, <1>a, WorkerOnRequests, WorkerFrame
     DEF ProcInv, FlushTypeOK, othersDuringWork, flushVars
<1>3. CASE UNCHANGED <<flushVars, requests, answer>>
  BY <1>3, <1>a DEF FlushTypeOK, flushVars
<1> QED
  BY <1>1, <1>2, <1>3, NextCases, PushFrame, CloseFrame
     DEF othersDuringPush, othersDuringClose, NotifyStep, Expire, vars

(* Every step keeps the types of what the shutdown calls use. *)
LEMMA CloseTypeStep == ASSUME ProcInv, [Next]_vars PROVE CloseTypeOK'
<1>a. CloseTypeOK /\ WorkerTypeOK /\ ExporterSays \in SUBSET BOOLEAN
  BY ProcessorAssumption DEF ProcInv
<1>1. ASSUME NEW c \in Closers, CloseAction(c) PROVE CloseTypeOK'
  <2>1. late' = late
    BY <1>1, CloseFrame DEF othersDuringClose
  <2>2. cpc' \in [Closers -> CloseState]
    BY <1>1, <1>a
       DEF CloseAction, CloseBegin, CloseStep, CloseClaim, CloseJoin, ClosePoll,
           CloseReadDrain, CloseExporterClaim, CloseExporter, CloseReturn, CloseAt,
           CloseTypeOK, CloseState

  <2>3. /\ joinClaimed' \in BOOLEAN /\ exporterShutdown' \in BOOLEAN
        /\ exporterClosed' \in BOOLEAN
    BY <1>1, <1>a
       DEF CloseAction, CloseBegin, CloseStep, CloseClaim, CloseJoin, ClosePoll,
           CloseReadDrain, CloseExporterClaim, CloseExporter, CloseReturn, CloseTypeOK
  <2>4. cok' \in [Closers -> BOOLEAN]
    BY <1>1, <1>a
       DEF CloseAction, CloseBegin, CloseStep, CloseClaim, CloseJoin, ClosePoll,
           CloseReadDrain, CloseExporterClaim, CloseExporter, CloseReturn, CloseTypeOK,
           WorkerTypeOK
  <2> QED
    BY <1>a, <2>1, <2>2, <2>3, <2>4 DEF CloseTypeOK
<1>2. ASSUME NEW t \in Flushers \cup Closers, Expire(t) PROVE CloseTypeOK'
  BY <1>2, <1>a DEF Expire, closeVars, CloseTypeOK
<1>3. CASE UNCHANGED <<closeVars, late>>
  BY <1>3, <1>a DEF CloseTypeOK, closeVars
<1> QED
  BY <1>1, <1>2, <1>3, NextCases, PushFrame, FlushFrame, WorkerFrame
     DEF othersDuringPush, othersDuringFlush, othersDuringWork, NotifyStep, vars

(* A step of the worker keeps the types of workerLoop's locals. *)
LEMMA WorkerTypeOfStep == ASSUME ProcInv, WorkerStep PROVE WorkerTypeOK'
<1>a. /\ WorkerTypeOK /\ requests \in SUBSET Flushers
      /\ ExporterSays \in SUBSET BOOLEAN
      /\ shutdownRequested \in BOOLEAN /\ batch \in SUBSET Spans
      /\ late \in [Flushers \cup Closers -> BOOLEAN]
  BY ProcessorAssumption DEF ProcInv, FlushTypeOK, CloseTypeOK, SQInv, SQTypeOK
<1> USE DEF stopVars, handVars
<1>w1. CASE WorkerWaits
  BY <1>w1, <1>a DEF WorkerWaits, WorkerAt, WorkerTypeOK, WorkerLocals, WorkerState
<1>w2. CASE WorkerWakes
  BY <1>w2, <1>a DEF WorkerWakes, WorkerAt, WorkerTypeOK, WorkerLocals, WorkerState
<1>w3. CASE WorkerLoadShutdown
  BY <1>w3, <1>a DEF WorkerLoadShutdown, WorkerAt, WorkerTypeOK, WorkerLocals,
     WorkerState
<1>w4. CASE TakeRequest
  BY <1>w4, <1>a DEF TakeRequest, WorkerAt, WorkerTypeOK, WorkerLocals, WorkerState
<1>w5. CASE NoMoreRequests
  BY <1>w5, <1>a DEF NoMoreRequests, WorkerAt, WorkerTypeOK, WorkerLocals,
     WorkerState, LoopTop
<1>w6. CASE DrainCheckDeadline
  BY <1>w6, <1>a DEF DrainCheckDeadline, WorkerAt, WorkerTypeOK, WorkerLocals,
     WorkerState
<1>w7. CASE DrainFindsNothing
  BY <1>w7, <1>a DEF DrainFindsNothing, WorkerAt, WorkerTypeOK, WorkerLocals,
     WorkerState, LoopTop
<1>w8. CASE DrainPops
  BY <1>w8, <1>a DEF DrainPops, WorkerAt, WorkerTypeOK, WorkerLocals, WorkerState
<1>w9. CASE ExportBatch
  <2>1. PICK success \in ExporterSays :
          /\ exported' = IF success THEN exported \cup batch ELSE exported
          /\ failed' = IF success THEN failed ELSE failed \cup batch
          /\ w' = IF w.drain = "ready" THEN [w EXCEPT !.pc = "readyLoop"]
                  ELSE [w EXCEPT !.exportedAny = TRUE, !.ok = success /\ w.ok]
    BY <1>w9 DEF ExportBatch
  <2>2. exported' \in SUBSET Spans /\ failed' \in SUBSET Spans
    BY <1>a, <2>1 DEF WorkerTypeOK
  <2>3. w' \in WorkerLocals
    BY <1>a, <2>1 DEF WorkerTypeOK, WorkerLocals, WorkerState
  <2> QED
    BY <1>w9, <1>a, <2>2, <2>3 DEF ExportBatch, WorkerTypeOK
<1>w10. CASE DrainCheckIdle
  BY <1>w10, <1>a DEF DrainCheckIdle, WorkerAt, WorkerTypeOK, WorkerLocals, WorkerState
<1>w11. CASE DrainReturns
  <2> DEFINE drainOk == w.ok /\ ~PastDeadline
  <2>1. drainOk \in BOOLEAN
    BY Zenon
  <2>2. w' = IF w.drain = "flush"
               THEN [w EXCEPT !.pc = "answer", !.ok = drainOk, !.exportedAny = FALSE]
               ELSE [w EXCEPT !.pc = "requests", !.shutdownOk = drainOk, !.ok = TRUE,
                              !.drain = "ready", !.exportedAny = FALSE,
                              !.site = "drained", !.any = FALSE]
    BY <1>w11 DEF DrainReturns
  <2> HIDE DEF drainOk
  <2>3. ASSUME w.drain = "flush" PROVE w' \in WorkerLocals
    <3>1. w' = [w EXCEPT !.pc = "answer", !.ok = drainOk, !.exportedAny = FALSE]
      BY <2>2, <2>3
    <3> QED
      BY <1>a, <2>1, <3>1 DEF WorkerTypeOK, WorkerLocals, WorkerState
  <2>4. ASSUME w.drain # "flush" PROVE w' \in WorkerLocals
    <3>1. w' = [w EXCEPT !.pc = "requests", !.shutdownOk = drainOk, !.ok = TRUE,
                         !.drain = "ready", !.exportedAny = FALSE,
                         !.site = "drained", !.any = FALSE]
      BY <2>2, <2>4
    <3> QED
      BY <1>a, <2>1, <3>1 DEF WorkerTypeOK, WorkerLocals, WorkerState
  <2> QED
    BY <1>w11, <1>a, <2>3, <2>4 DEF DrainReturns, WorkerTypeOK
<1>w12. CASE AnswerRequest
  BY <1>w12, <1>a DEF AnswerRequest, WorkerAt, WorkerTypeOK, WorkerLocals, WorkerState
<1>w13. CASE ExitCheckActive
  BY <1>w13, <1>a DEF ExitCheckActive, WorkerAt, WorkerTypeOK, WorkerLocals,
     WorkerState, LoopTop
<1>w14. CASE ExitCheckEmpty
  BY <1>w14, <1>a DEF ExitCheckEmpty, WorkerAt, WorkerTypeOK, WorkerLocals,
     WorkerState, LoopTop
<1>w15. CASE FinalFlush
  BY <1>w15, <1>a DEF FinalFlush, WorkerAt, WorkerTypeOK, WorkerLocals, WorkerState,
     LoopTop
<1>w16. CASE WorkerStop
  BY <1>w16, <1>a DEF WorkerStop, WorkerAt, WorkerTypeOK, WorkerLocals, WorkerState
<1>w17. CASE ReadyCheck
  BY <1>w17, <1>a DEF ReadyCheck, WorkerAt, WorkerTypeOK, WorkerLocals, WorkerState,
     LoopTop
<1>w18. CASE DrainReadyBatches
  BY <1>w18, <1>a DEF DrainReadyBatches, WorkerAt, WorkerTypeOK, WorkerLocals,
     WorkerState, LoopTop
<1> QED
  BY <1>w1, <1>w2, <1>w3, <1>w4, <1>w5, <1>w6, <1>w7, <1>w8, <1>w9, <1>w10, <1>w11,
          <1>w12, <1>w13, <1>w14, <1>w15, <1>w16, <1>w17, <1>w18 DEF WorkerStep

(* A step of the worker keeps its locals consistent with its position. *)
LEMMA WorkerShapeOfStep == ASSUME ProcInv, WorkerStep PROVE WorkerShape'
<1>a. /\ WorkerShape /\ w \in WorkerLocals /\ requests \in SUBSET Flushers
      /\ None \notin Flushers
      /\ shutdownRequested' = shutdownRequested
  BY ProcessorAssumption, WorkerOnQueue

             DEF ProcInv, WorkerTypeOK, FlushTypeOK, sqVars, TryPopBulk, PopSeesEmpty,
             PopSeesWork,
         Dequeue, DequeueNothing, Subtract, Deliver, ProducersIdle
<1> USE DEF stopVars, sqVars, WorkerLocals
<1>w1. CASE WorkerWaits
  BY <1>w1, <1>a DEF WorkerWaits, WorkerAt, WorkerShape, Serving, Ended
<1>w2. CASE WorkerWakes
  <2>1. /\ w.pc \in {"loop", "nap"}
        /\ w'.pc = IF w.pc = "loop" THEN "load" ELSE "deadline"
        /\ UNCHANGED <<w.site, w.drain, w.request, w.sawShutdown, pop, workerStopped>>
    BY <1>w2, <1>a DEF WorkerWakes, WorkerAt
  <2> QED
    BY <1>a, <2>1 DEF WorkerShape, Serving, Ended
<1>w3. CASE WorkerLoadShutdown
  BY <1>w3, <1>a DEF WorkerLoadShutdown, WorkerAt, WorkerShape, Serving, Ended
<1>w4. CASE TakeRequest
  BY <1>w4, <1>a DEF TakeRequest, WorkerAt, WorkerShape, Serving, Ended
<1>w5. CASE NoMoreRequests
  BY <1>w5, <1>a DEF NoMoreRequests, WorkerAt, WorkerShape, Serving, Ended, LoopTop
<1>w6. CASE DrainCheckDeadline
  BY <1>w6, <1>a DEF DrainCheckDeadline, WorkerAt, WorkerShape, Serving, Ended
<1>w7. CASE DrainFindsNothing
  BY <1>w7, <1>a DEF DrainFindsNothing, WorkerAt, WorkerShape, Serving, Ended,
     LoopTop, PopSeesEmpty, DequeueNothing, PopAt
<1>w8. CASE DrainPops
  BY <1>w8, <1>a DEF DrainPops, WorkerAt, WorkerShape, Serving, Ended, PopSeesWork,
     Dequeue, Subtract, PopAt
<1>w9. CASE ExportBatch
  <2>1. /\ w.pc = "pop" /\ w'.pc = IF w.drain = "ready" THEN "readyLoop" ELSE "pop"
        /\ pop' = "idle"
        /\ UNCHANGED <<w.site, w.drain, w.request, w.sawShutdown, workerStopped>>
    BY <1>w9, <1>a DEF ExportBatch, WorkerAt, Deliver, PopAt
  <2> QED
    BY <1>a, <2>1 DEF WorkerShape, Serving, Ended
<1>w10. CASE DrainCheckIdle
  BY <1>w10, <1>a DEF DrainCheckIdle, WorkerAt, WorkerShape, Serving, Ended
<1>w11. CASE DrainReturns
  <2>1. w.pc = "drained" /\ w.drain # "ready" /\ UNCHANGED <<pop, workerStopped>>
    BY <1>w11, <1>a DEF DrainReturns, WorkerAt, WorkerShape, Serving
  <2>2. CASE w.drain = "flush"
    <3>1. w'.pc = "answer" /\ UNCHANGED <<w.site, w.drain, w.request, w.sawShutdown>>
      BY <1>w11, <1>a, <2>2 DEF DrainReturns
    <3> QED
      BY <1>a, <2>1, <2>2, <3>1 DEF WorkerShape, Serving, Ended
  <2>3. CASE w.drain = "shutdown"
    <3>1. /\ w'.pc = "requests" /\ w'.site = "drained" /\ w'.drain = "ready"
          /\ UNCHANGED <<w.request, w.sawShutdown>>
      BY <1>w11, <1>a, <2>3 DEF DrainReturns
    <3> QED
      BY <1>a, <2>1, <2>3, <3>1 DEF WorkerShape, Serving, Ended
  <2> QED
    BY <1>a, <2>1, <2>2, <2>3
<1>w12. CASE AnswerRequest
  BY <1>w12, <1>a DEF AnswerRequest, WorkerAt, WorkerShape, Serving, Ended
<1>w13. CASE ExitCheckActive
  BY <1>w13, <1>a DEF ExitCheckActive, WorkerAt, WorkerShape, Serving, Ended, LoopTop
<1>w14. CASE ExitCheckEmpty
  BY <1>w14, <1>a DEF ExitCheckEmpty, WorkerAt, WorkerShape, Serving, Ended, LoopTop
<1>w15. CASE FinalFlush
  BY <1>w15, <1>a DEF FinalFlush, WorkerAt, WorkerShape, Serving, Ended, LoopTop
<1>w16. CASE WorkerStop
  BY <1>w16, <1>a DEF WorkerStop, WorkerAt, WorkerShape, Serving, Ended
<1>w17. CASE ReadyCheck
  BY <1>w17, <1>a DEF ReadyCheck, WorkerAt, WorkerShape, Serving, Ended, LoopTop
<1>w18. CASE DrainReadyBatches
  BY <1>w18, <1>a DEF DrainReadyBatches, WorkerAt, WorkerShape, Serving, Ended, LoopTop
<1> QED
  BY <1>w1, <1>w2, <1>w3, <1>w4, <1>w5, <1>w6, <1>w7, <1>w8, <1>w9, <1>w10, <1>w11,
          <1>w12, <1>w13, <1>w14, <1>w15, <1>w16, <1>w17, <1>w18 DEF WorkerStep

(* The other threads leave the worker and what it has exported alone. *)
LEMMA OtherThreads ==
    ASSUME [Next]_vars
    PROVE  WorkerStep \/ UNCHANGED <<w, stopVars, handVars, pop, batch>>
<1>1. ASSUME NEW s \in Spans, PushAction(s) PROVE UNCHANGED <<pop, batch>>
  BY <1>1
          DEF PushAction, OnEnd, PushGoesOn, PushAccepted, PushRefused, Reserve,
          CheckClosed,
              Enqueue, EnqueueFails, Undo, ConsumerIdle
<1>2. ASSUME NEW c \in Closers, CloseAction(c) PROVE UNCHANGED <<pop, batch>>
  BY <1>2 DEF CloseAction, CloseBegin, CloseStep, CloseClaim, CloseJoin, ClosePoll,
              CloseReadDrain, CloseExporterClaim, CloseExporter, CloseReturn,
              RequestShutdown, ConsumerIdle, sqVars
<1> QED
  BY <1>1, <1>2, NextCases, PushFrame, FlushFrame, CloseFrame

             DEF othersDuringPush, othersDuringFlush, othersDuringClose, NotifyStep, Expire,
             vars, sqVars

(* shutdownRequested is never taken back. *)
LEMMA ShutdownStays == [SQNext]_sqVars /\ shutdownRequested => shutdownRequested'
BY DEF SQNext, sqVars, TryPush, Reserve, CheckClosed, Enqueue, EnqueueFails, Undo,
       TryPopBulk, PopSeesEmpty, PopSeesWork, Dequeue, DequeueNothing, Subtract, Deliver,
       ProducersIdle, RequestShutdown

(* Every step, of any thread, keeps the worker's types and shape. *)
LEMMA WorkerStepInv == ASSUME ProcInv, [Next]_vars PROVE WorkerTypeOK' /\ WorkerShape'
<1>1. CASE WorkerStep
  BY <1>1, WorkerTypeOfStep, WorkerShapeOfStep
<1>2. CASE UNCHANGED <<w, stopVars, handVars, pop, batch>>
  <2>1. WorkerTypeOK'
    BY <1>2 DEF ProcInv, WorkerTypeOK, stopVars, handVars
  <2>2. shutdownRequested => shutdownRequested'
    BY StepOfQueue, ShutdownStays
  <2>3. WorkerShape'
    BY <1>2, <2>2 DEF ProcInv, WorkerShape, stopVars
  <2> QED
    BY <2>1, <2>3
<1> QED
  BY <1>1, <1>2, OtherThreads

(* No span is lost or handed over twice. *)
LEMMA ConservedStep == ASSUME ProcInv, [Next]_vars PROVE Conserved'
<1>a. Conserved /\ SQInv /\ push \in [Spans -> PushState] /\ spans \subseteq Spans
  BY DEF ProcInv, SQInv, SQTypeOK
<1>1. ASSUME NEW s \in Spans, PushAction(s) PROVE Conserved'
  <2>1. UNCHANGED <<handVars, batch>>
    BY <1>1, PushFrame
       DEF othersDuringPush, PushAction, OnEnd, PushGoesOn, PushAccepted, PushRefused,
           Reserve, CheckClosed, Enqueue, EnqueueFails, Undo, ConsumerIdle
  <2>2. CASE Enqueue(s)
    <3>1. Accepted' = Accepted \cup {s} /\ s \notin Accepted /\ spans' = spans \cup {s}
      BY <2>2, <1>a DEF Enqueue, PushAt, Accepted
    <3> QED
      BY <1>a, <2>1, <3>1 DEF Conserved, Handed, handVars
  <2>3. CASE Reserve(s) \/ CheckClosed(s) \/ EnqueueFails(s) \/ Undo(s)
    <3>1. Accepted' = Accepted /\ spans' = spans
      BY <2>3, <1>a DEF Reserve, CheckClosed, EnqueueFails, Undo, PushAt, Accepted
    <3> QED
      BY <1>a, <2>1, <3>1 DEF Conserved, Handed, handVars
  <2> QED
    BY <1>1, <2>2, <2>3 DEF PushAction, OnEnd, PushGoesOn, PushAccepted, PushRefused
<1>2. CASE WorkerStep
  <2>1. CASE ExportBatch
    <3>1. PICK success \in ExporterSays :
            /\ exported' = IF success THEN exported \cup batch ELSE exported
            /\ failed' = IF success THEN failed ELSE failed \cup batch
      BY <2>1 DEF ExportBatch
    <3>2. batch' = {} /\ spans' = spans /\ Accepted' = Accepted
      BY <2>1 DEF ExportBatch, Deliver, ProducersIdle, Accepted
    <3>3. spans \cap batch = {}
      BY <1>a DEF SQInv, NoDuplicate
    <3> QED
      BY <1>a, <3>1, <3>2, <3>3 DEF Conserved, Handed
  <2>2. CASE UNCHANGED handVars /\ (TryPopBulk \/ UNCHANGED sqVars)
    <3>1. Accepted' = Accepted
      BY <2>2
              DEF TryPopBulk, PopSeesEmpty, PopSeesWork, Dequeue, DequeueNothing,
              Subtract,
                  ProducersIdle, sqVars, Accepted
    <3>2. spans' \cup batch' = spans \cup batch
      <4>1. CASE Dequeue
        <5>1. batch = {}
          BY <4>1, <1>a DEF Dequeue, PopAt, SQInv, NoDuplicate
        <5> QED
          BY <4>1, <5>1 DEF Dequeue
      <4> QED
        BY <2>2, <4>1
                DEF TryPopBulk, PopSeesEmpty, PopSeesWork, DequeueNothing, Subtract,
                sqVars
    <3> QED
      BY <1>a, <2>2, <3>1, <3>2 DEF Conserved, Handed, handVars
  <2>3. ExportBatch \/ (UNCHANGED handVars /\ (TryPopBulk \/ UNCHANGED sqVars))
    BY <1>2
     DEF WorkerStep, WorkerWaits, WorkerWakes, WorkerLoadShutdown, TakeRequest,
       NoMoreRequests, DrainCheckDeadline, DrainFindsNothing, DrainPops,
       DrainCheckIdle, DrainReturns, AnswerRequest, ExitCheckActive, ExitCheckEmpty,
       FinalFlush, WorkerStop, ReadyCheck, DrainReadyBatches, TryPopBulk
  <2> QED
    BY <2>1, <2>2, <2>3
<1>3. CASE UNCHANGED <<spans, batch, push, handVars>>
  BY <1>3, <1>a DEF Conserved, Handed, handVars, Accepted
<1>4. ASSUME NEW c \in Closers, CloseAction(c)
        PROVE UNCHANGED <<spans, batch, push, handVars>>
  BY <1>4, CloseFrame
     DEF CloseAction, CloseBegin, CloseStep, CloseClaim, CloseJoin, ClosePoll,
         CloseReadDrain, CloseExporterClaim, CloseExporter, CloseReturn,
         RequestShutdown, ConsumerIdle, sqVars, othersDuringClose
<1> QED
  BY <1>1, <1>2, <1>3, <1>4, NextCases, FlushFrame
     DEF othersDuringFlush, othersDuringPush, NotifyStep, Expire, vars, sqVars

(* The worker gets past the test of the queue only when it is sealed. *)
LEMMA ExitSealedStep == ASSUME ProcInv, [Next]_vars PROVE ExitSealed'
<1>1. Exiting => Sealed'
  BY StepOfQueue, SealedStep DEF ProcInv, ExitSealed, SQInv
<1>2. CASE ExitCheckEmpty
  <2>1. CASE size = 0
    <3>1. shutdownRequested
      BY <1>2 DEF ExitCheckEmpty, WorkerAt, ProcInv, WorkerShape
    <3>2. Sealed
      BY <2>1, <3>1, EmptySealsState DEF ProcInv, EmptySeals
    <3>3. Sealed'
      BY <3>2, StepOfQueue, SealedStep DEF ProcInv, SQInv
    <3> QED
      BY <3>3 DEF ExitSealed
  <2>2. CASE size # 0
    BY <1>2, <2>2 DEF ExitCheckEmpty, LoopTop, ExitSealed, Exiting, Ended
  <2> QED
    BY <2>1, <2>2
<1>3. CASE WorkerStep /\ ~ExitCheckEmpty
  <2>1. Exiting' => Exiting
    <3>1. w \in WorkerLocals
      BY DEF ProcInv, WorkerTypeOK
    <3> USE <3>1 DEF WorkerLocals, Exiting, Ended, WorkerAt, LoopTop
    <3>2. CASE WorkerWaits
      BY <3>2 DEF WorkerWaits
    <3>3. CASE WorkerWakes
      BY <3>3 DEF WorkerWakes
    <3>4. CASE WorkerLoadShutdown
      BY <3>4 DEF WorkerLoadShutdown
    <3>5. CASE TakeRequest
      BY <3>5 DEF TakeRequest
    <3>6. CASE NoMoreRequests
      BY <3>6 DEF NoMoreRequests
    <3>7. CASE DrainCheckDeadline
      BY <3>7 DEF DrainCheckDeadline
    <3>8. CASE DrainFindsNothing
      BY <3>8 DEF DrainFindsNothing
    <3>9. CASE DrainPops
      BY <3>9 DEF DrainPops
    <3>10. CASE ExportBatch
      BY <3>10 DEF ExportBatch
    <3>11. CASE DrainCheckIdle
      BY <3>11 DEF DrainCheckIdle
    <3>12. CASE DrainReturns
      BY <3>12 DEF DrainReturns
    <3>13. CASE AnswerRequest
      BY <3>13 DEF AnswerRequest
    <3>14. CASE ExitCheckActive
      BY <3>14 DEF ExitCheckActive
    <3>15. CASE FinalFlush
      BY <3>15 DEF FinalFlush
    <3>16. CASE WorkerStop
      BY <3>16 DEF WorkerStop
    <3>17. CASE ReadyCheck
      BY <3>17 DEF ReadyCheck
    <3>18. CASE DrainReadyBatches
      BY <3>18 DEF DrainReadyBatches
    <3> QED
      BY <1>3, <3>2, <3>3, <3>4, <3>5, <3>6, <3>7, <3>8, <3>9, <3>10,
         <3>11, <3>12, <3>13, <3>14, <3>15, <3>16, <3>17, <3>18 DEF WorkerStep
  <2> QED
    BY <1>1, <2>1 DEF ExitSealed
<1>4. CASE UNCHANGED w
  BY <1>4, <1>1 DEF ExitSealed, Exiting
<1> QED
  BY <1>2, <1>3, <1>4, OtherThreads

(* The worker forgets a request only when it has answered it. *)
LEMMA WorkerKeepsRequest ==
    ASSUME ProcInv, WorkerStep
    PROVE  TakeRequest \/ AnswerRequest \/ UNCHANGED <<w.request, requests, answer>>
<1>a. w \in WorkerLocals /\ WorkerShape
  BY DEF ProcInv, WorkerTypeOK
<1>b. w.pc \notin Serving \/ w.drain = "ready" => w.request = None
  BY <1>a DEF WorkerShape
<1> USE <1>a, <1>b DEF WorkerLocals, WorkerAt, Serving, LoopTop
<1>1. ASSUME ~TakeRequest, ~AnswerRequest PROVE UNCHANGED <<w.request, requests, answer>>
  <2>1. CASE WorkerWaits
    BY <2>1 DEF WorkerWaits
  <2>2. CASE WorkerWakes
    BY <2>2 DEF WorkerWakes
  <2>3. CASE WorkerLoadShutdown
    BY <2>3 DEF WorkerLoadShutdown
  <2>4. CASE NoMoreRequests
    BY <2>4 DEF NoMoreRequests
  <2>5. CASE DrainCheckDeadline
    BY <2>5 DEF DrainCheckDeadline
  <2>6. CASE DrainFindsNothing
    BY <2>6 DEF DrainFindsNothing
  <2>7. CASE DrainPops
    BY <2>7 DEF DrainPops
  <2>8. CASE ExportBatch
    BY <2>8 DEF ExportBatch
  <2>9. CASE DrainCheckIdle
    BY <2>9 DEF DrainCheckIdle
  <2>10. CASE DrainReturns
    BY <2>10 DEF DrainReturns
  <2>11. CASE ExitCheckActive
    BY <2>11 DEF ExitCheckActive
  <2>12. CASE ExitCheckEmpty
    BY <2>12 DEF ExitCheckEmpty
  <2>13. CASE FinalFlush
    BY <2>13 DEF FinalFlush
  <2>14. CASE WorkerStop
    BY <2>14 DEF WorkerStop
  <2>15. CASE ReadyCheck
    BY <2>15 DEF ReadyCheck
  <2>16. CASE DrainReadyBatches
    BY <2>16 DEF DrainReadyBatches
  <2> QED
    BY <1>1, <2>1, <2>2, <2>3, <2>4, <2>5, <2>6, <2>7, <2>8, <2>9,
       <2>10, <2>11, <2>12, <2>13, <2>14, <2>15, <2>16 DEF WorkerStep
<1> QED
  BY <1>1

(* Every step keeps each flush request in one place: not sent, queued, with *)
(* the worker, or answered.                                                 *)
LEMMA RequestShapeStep == ASSUME ProcInv, [Next]_vars PROVE RequestShape'

<1>a. /\ RequestShape /\ FlushTypeOK /\ WorkerShape
      /\ w \in WorkerLocals /\ None \notin Flushers
  BY ProcessorAssumption DEF ProcInv, WorkerTypeOK
<1>1. ASSUME NEW f \in Flushers, FlushAction(f) PROVE RequestShape'
  <2>1. w' = w
    BY <1>1, FlushFrame DEF othersDuringFlush
  <2> USE <1>a, <2>1 DEF RequestShape, FlushTypeOK, FlushAt
  <2>2. CASE FlushNegativeTimeout(f) \/ FlushEnter(f)
    BY <2>2 DEF FlushNegativeTimeout, FlushEnter
  <2>3. CASE FlushCheckShutdown(f) \/ FlushCheckStopped(f)
    BY <2>3 DEF FlushCheckShutdown, FlushCheckStopped, EarlyExitIf
  <2>4. CASE FlushEnqueue(f)
    BY <2>4 DEF FlushEnqueue
  <2>5. CASE FlushEnqueueFails(f)
    BY <2>5 DEF FlushEnqueueFails
  <2>6. CASE FlushThrows(f)
    BY <2>6 DEF FlushThrows
  <2>7. CASE FlushLeave(f)
    BY <2>7 DEF FlushLeave, AfterSection, SectionResult
  <2>8. CASE FlushLast(f)
    BY <2>8 DEF FlushLast, AfterSection, SectionResult
  <2>9. CASE FlushReadEmpty(f) \/ FlushWake(f) \/ FlushAwait(f)
    BY <2>9 DEF FlushReadEmpty, FlushWake, FlushAwait
  <2> QED
    BY <1>1, <2>2, <2>3, <2>4, <2>5, <2>6, <2>7, <2>8, <2>9 DEF FlushAction, FlushStep
<1>2. CASE WorkerStep
  <2>a. UNCHANGED <<fpc, path, result>>
    BY <1>2, WorkerFrame DEF othersDuringWork, flushVars
  <2>1. CASE TakeRequest
    <3>1. w.request = None
      BY <2>1, <1>a DEF TakeRequest, WorkerAt, WorkerShape, Serving

    <3>2. \E f \in requests :
             requests' = requests \ {f} /\ w'.request = f /\ answer' = answer
      BY <2>1, <1>a DEF TakeRequest, WorkerLocals
    <3> QED
      BY <1>a, <2>a, <3>1, <3>2 DEF RequestShape
  <2>2. CASE AnswerRequest
    <3>1. w.request \in Flushers
      BY <2>2, <1>a DEF AnswerRequest, WorkerAt, WorkerShape, WorkerLocals
    <3>2. /\ requests' = requests /\ w'.request = None
          /\ answer'[w.request] # "none"
          /\ \A f \in Flushers \ {w.request} : answer'[f] = answer[f]
      BY <2>2, <1>a, <3>1 DEF AnswerRequest, WorkerLocals, FlushTypeOK
    <3>3. path[w.request] = "queued"
      BY <1>a, <3>1 DEF RequestShape
    <3> QED
      BY <1>a, <2>a, <3>1, <3>2, <3>3 DEF RequestShape
  <2>3. CASE UNCHANGED <<w.request, requests, answer>>
    BY <1>a, <2>a, <2>3 DEF RequestShape
  <2> QED
    BY <1>2, <2>1, <2>2, <2>3, WorkerKeepsRequest
<1>3. CASE UNCHANGED <<flushVars, requests, answer, w>>
  BY <1>3, <1>a DEF RequestShape, flushVars
<1> QED
  BY <1>1, <1>2, <1>3, NextCases, PushFrame, CloseFrame
     DEF othersDuringPush, othersDuringClose, NotifyStep, Expire, vars

(* The hand-shake over activeFlushCallers: no request slips in behind the    *)
(* worker's last look at the requests.                                       *)
LEMMA ExitClosedStep == ASSUME ProcInv, [Next]_vars PROVE ExitClosed'
<1>a. /\ ExitClosed /\ WorkerShape /\ w \in WorkerLocals /\ FlushTypeOK
      /\ SectionCounted /\ IsFiniteSet(Flushers)
      /\ \A f \in Flushers : path[f] = "thrown" => fpc[f] = "done"
  BY ProcessorAssumption DEF ProcInv, WorkerTypeOK, RequestShape
<1>1. ASSUME NEW f \in Flushers, FlushAction(f) PROVE ExitClosed'
  <2>1. w' = w /\ shutdownRequested' = shutdownRequested
    BY <1>1, FlushFrame DEF othersDuringFlush, sqVars
  <2>2. w.pc = "lastEmpty" \/ Exiting => shutdownRequested
    BY <1>a DEF WorkerShape, Exiting
  <2>3. ASSUME w.pc = "lastEmpty" \/ Exiting
        PROVE  /\ \A g \in Flushers : fpc'[g] \notin {"checkStopped", "enqueue"}
                                       /\ path'[g] # "thrown"
               /\ requests' = requests
    BY <1>1, <1>a, <2>2, <2>3, AfterSectionType
       DEF ExitClosed, FlushTypeOK, FlushAt,
           FlushAction, FlushNegativeTimeout, FlushEnter, FlushStep, FlushCheckShutdown,
           FlushCheckStopped, EarlyExitIf, FlushEnqueue, FlushEnqueueFails, FlushThrows,
       FlushLeave, FlushLast, FlushReadEmpty, FlushWake, FlushAwait
  <2> QED
    BY <1>a, <2>1, <2>3 DEF ExitClosed, Exiting
<1>2. CASE WorkerStep
  <2>a. fpc' = fpc /\ path' = path
    BY <1>2, WorkerFrame DEF othersDuringWork, flushVars
  <2>1. CASE ExitCheckActive
    <3>1. CASE active = 0
      <4>1. Section = {}
        BY <1>a, <3>1, FS_Subset, FS_EmptySet DEF SectionCounted, Section
      <4>2. \A f \in Flushers : fpc[f] \notin {"checkStopped", "enqueue"}
                                 /\ path[f] # "thrown"
        BY <4>1 DEF Section
      <4>3. w'.pc = "lastEmpty"
        BY <2>1, <3>1, <1>a DEF ExitCheckActive, WorkerLocals
      <4> QED
        BY <2>a, <4>2, <4>3 DEF ExitClosed, Ended
    <3>2. CASE active # 0
      BY <2>1, <3>2 DEF ExitCheckActive, ExitClosed, Exiting, Ended, LoopTop
    <3> QED
      BY <3>1, <3>2
  <2>2. CASE ~ExitCheckActive
    <3>1. w'.pc = "lastEmpty" \/ Exiting' => w.pc = "lastEmpty" \/ Exiting
      <4> USE <1>a DEF WorkerLocals, Exiting, Ended, WorkerAt, LoopTop
      <4>1. CASE WorkerWaits
        BY <4>1 DEF WorkerWaits
      <4>2. CASE WorkerWakes
        BY <4>2 DEF WorkerWakes
      <4>3. CASE WorkerLoadShutdown
        BY <4>3 DEF WorkerLoadShutdown
      <4>4. CASE TakeRequest
        BY <4>4 DEF TakeRequest
      <4>5. CASE NoMoreRequests
        BY <4>5 DEF NoMoreRequests
      <4>6. CASE DrainCheckDeadline
        BY <4>6 DEF DrainCheckDeadline
      <4>7. CASE DrainFindsNothing
        BY <4>7 DEF DrainFindsNothing
      <4>8. CASE DrainPops
        BY <4>8 DEF DrainPops
      <4>9. CASE ExportBatch
        BY <4>9 DEF ExportBatch
      <4>10. CASE DrainCheckIdle
        BY <4>10 DEF DrainCheckIdle
      <4>11. CASE DrainReturns
        BY <4>11 DEF DrainReturns
      <4>12. CASE AnswerRequest
        BY <4>12 DEF AnswerRequest
      <4>13. CASE ExitCheckEmpty
        BY <4>13 DEF ExitCheckEmpty
      <4>14. CASE FinalFlush
        BY <4>14 DEF FinalFlush
      <4>15. CASE WorkerStop
        BY <4>15 DEF WorkerStop
      <4>16. CASE ReadyCheck
        BY <4>16 DEF ReadyCheck
      <4>17. CASE DrainReadyBatches
        BY <4>17 DEF DrainReadyBatches
      <4> QED
        BY <1>2, <2>2, <4>1, <4>2, <4>3, <4>4, <4>5, <4>6, <4>7, <4>8, <4>9,
           <4>10, <4>11, <4>12, <4>13, <4>14, <4>15, <4>16, <4>17 DEF WorkerStep
    <3>2. w'.pc \in Ended => requests' = {}
      <4> USE <1>a DEF ExitClosed, WorkerLocals, Ended, WorkerAt, LoopTop
      <4>1. CASE WorkerWaits
        BY <4>1 DEF WorkerWaits
      <4>2. CASE WorkerWakes
        BY <4>2 DEF WorkerWakes
      <4>3. CASE WorkerLoadShutdown
        BY <4>3 DEF WorkerLoadShutdown
      <4>4. CASE TakeRequest
        BY <4>4 DEF TakeRequest
      <4>5. CASE NoMoreRequests
        BY <4>5 DEF NoMoreRequests
      <4>6. CASE DrainCheckDeadline
        BY <4>6 DEF DrainCheckDeadline
      <4>7. CASE DrainFindsNothing
        BY <4>7 DEF DrainFindsNothing
      <4>8. CASE DrainPops
        BY <4>8 DEF DrainPops
      <4>9. CASE ExportBatch
        BY <4>9 DEF ExportBatch
      <4>10. CASE DrainCheckIdle
        BY <4>10 DEF DrainCheckIdle
      <4>11. CASE DrainReturns
        BY <4>11 DEF DrainReturns
      <4>12. CASE AnswerRequest
        BY <4>12 DEF AnswerRequest
      <4>13. CASE ExitCheckEmpty
        BY <4>13 DEF ExitCheckEmpty
      <4>14. CASE FinalFlush
        BY <4>14 DEF FinalFlush
      <4>15. CASE WorkerStop
        BY <4>15 DEF WorkerStop
      <4>16. CASE ReadyCheck
        BY <4>16 DEF ReadyCheck
      <4>17. CASE DrainReadyBatches
        BY <4>17 DEF DrainReadyBatches
      <4> QED
        BY <1>2, <2>2, <4>1, <4>2, <4>3, <4>4, <4>5, <4>6, <4>7, <4>8, <4>9,
           <4>10, <4>11, <4>12, <4>13, <4>14, <4>15, <4>16, <4>17 DEF WorkerStep
    <3> QED
      BY <1>a, <2>a, <3>1, <3>2 DEF ExitClosed
  <2> QED
    BY <2>1, <2>2
<1>3. CASE UNCHANGED <<fpc, path, requests, w>>
  BY <1>3, <1>a DEF ExitClosed, Exiting
<1> QED
  BY <1>1, <1>2, <1>3, NextCases, PushFrame, CloseFrame
     DEF othersDuringPush, othersDuringClose, NotifyStep, Expire, vars, flushVars

(* The strengthened invariant is inductive. *)
LEMMA ProcNext == ProcInv /\ [Next]_vars => ProcInv'
<1> SUFFICES ASSUME ProcInv, [Next]_vars PROVE ProcInv'
  OBVIOUS
<1>1. SQInv'
  BY StepOfQueue, InvNext DEF ProcInv
<1>2. WCTypeOK'
  BY StepOfSignal, WCTypeStep DEF ProcInv
<1> QED
  BY <1>1, <1>2, FlushTypeStep, CloseTypeStep, WorkerStepInv, ConservedStep,
          ExitSealedStep,
     SectionStep, RequestShapeStep, ExitClosedStep DEF ProcInv

(* The invariant of the exit protocol holds in every behaviour. *)
THEOREM ProcInvariant == Spec => []ProcInv
BY ProcInit, ProcNext, PTL DEF Spec

(* The invariant gives the no-stranded-span property: the worker stops only *)
(* past the test that sealed an empty queue.                                *)
LEMMA StoppedMeansHanded == ProcInv => NoStrandedSpan
<1> SUFFICES ASSUME ProcInv, workerStopped
             PROVE  Sealed /\ batch = {} /\ Accepted \subseteq Handed
  BY DEF NoStrandedSpan
<1>1. w.pc = "stopped" /\ pop = "idle"
  BY DEF ProcInv, WorkerShape, SQInv, SQTypeOK, PopState
<1>2. Sealed
  BY <1>1 DEF ProcInv, ExitSealed, Exiting, Ended
<1>3. batch = {}
  BY <1>1 DEF ProcInv, SQInv, NoDuplicate
<1> QED
  BY <1>2, <1>3 DEF ProcInv, Conserved, Sealed

(* Graceful shutdown loses nothing: for any number of producers, flush and   *)
(* shutdown callers, a stopped worker has handed every accepted span to the  *)
(* exporter and no producer can add another.                                 *)
THEOREM ShutdownLosesNothing == Spec => []NoStrandedSpan
BY ProcInvariant, StoppedMeansHanded, PTL

(* The invariant gives the no-lost-flush property: the worker stops only    *)
(* past the activeFlushCallers hand-shake.                                  *)
LEMMA StoppedMeansAnswered == ProcInv => NoLostFlush
<1> SUFFICES ASSUME ProcInv, workerStopped, NEW f \in Flushers
             PROVE  /\ requests = {}
                    /\ fpc[f] # "enqueue"
                    /\ path[f] = "queued" => answer[f] # "none"
  BY DEF ProcInv, WorkerShape, ExitClosed, Ended, NoLostFlush
<1>1. w.pc = "stopped"
  BY DEF ProcInv, WorkerShape
<1>2. requests = {} /\ fpc[f] # "enqueue"
  BY <1>1 DEF ProcInv, ExitClosed, Exiting, Ended
<1>3. w.request = None /\ None # f
  BY <1>1, ProcessorAssumption
          DEF ProcInv, WorkerShape, WorkerTypeOK, WorkerLocals, Serving
<1> QED
  BY <1>2, <1>3 DEF ProcInv, RequestShape

(* No flush request is forgotten by a worker that stops. *)
THEOREM EveryFlushAnswered == Spec => []NoLostFlush
BY ProcInvariant, StoppedMeansAnswered, PTL

(* The worker stops only past an exit test that found activeFlushCallers = 0, *)
(* and a caller that threw is counted for ever.                               *)
LEMMA StoppedMeansNoneThrown == ProcInv => LeakBlocksExit
<1> SUFFICES ASSUME ProcInv, workerStopped, NEW f \in Flushers PROVE path[f] # "thrown"
  BY DEF LeakBlocksExit, SectionLeaked
<1>1. w.pc = "stopped"
  BY DEF ProcInv, WorkerShape
<1> QED
  BY <1>1 DEF ProcInv, ExitClosed, Exiting, Ended

(* After a forceFlush that threw the worker never stops: make_shared failed *)
(* between the fetch_add and the fetch_sub of activeFlushCallers.           *)
THEOREM LeakedSectionHangs == Spec => []LeakBlocksExit
BY ProcInvariant, StoppedMeansNoneThrown, PTL

----------------------------------------------------------------------------
(* What an answer says.  A drain is left either late or with everything that *)
(* was accepted before the call handed over.                                 *)
AnswerCovers ==
    /\ w.pc = "drained" /\ w.drain = "flush" =>
          late[w.request] \/ before[w.request] \subseteq Handed
    /\ w.pc = "answer" /\ w.ok => before[w.request] \subseteq Handed
    /\ \A f \in Flushers :
          /\ before[f] \subseteq Accepted
          /\ answer[f] = "true" => before[f] \subseteq Handed
          /\ path[f] = "queued" /\ result[f] = "true" => before[f] \subseteq Handed

(* The spans accepted and those handed over only grow. *)
LEMMA Growing == ASSUME ProcInv, [Next]_vars
                 PROVE  Accepted \subseteq Accepted' /\ Handed \subseteq Handed'
<1>1. Accepted \subseteq Accepted'
  <2>1. push \in [Spans -> PushState] /\ [SQNext]_sqVars
    BY StepOfQueue DEF ProcInv, SQInv, SQTypeOK
  <2> QED
    BY <2>1
            DEF Accepted, SQNext, sqVars, TryPush, Reserve, CheckClosed, Enqueue,
            EnqueueFails,
       Undo, PushAt, TryPopBulk, PopSeesEmpty, PopSeesWork, Dequeue, DequeueNothing,
               Subtract,
       Deliver, ProducersIdle, RequestShutdown
<1>2. Handed \subseteq Handed'
  <2>1. CASE WorkerStep
    BY <2>1
            DEF Handed, handVars, WorkerStep, WorkerWaits, WorkerWakes,
            WorkerLoadShutdown,
       TakeRequest, NoMoreRequests, DrainCheckDeadline, DrainFindsNothing, DrainPops,
       ExportBatch, DrainCheckIdle, DrainReturns, AnswerRequest, ExitCheckActive,
       ExitCheckEmpty, FinalFlush, WorkerStop, ReadyCheck, DrainReadyBatches
  <2> QED
    BY <2>1, OtherThreads DEF Handed, handVars
<1> QED
  BY <1>1, <1>2

(* An empty counter, read outside tryPopBulk, means that all is handed over. *)
LEMMA EmptyMeansHanded == ASSUME ProcInv, size = 0, w.pc # "pop"
                          PROVE  Accepted \subseteq Handed
<1>1. pop = "idle" /\ batch = {}
  BY DEF ProcInv, WorkerShape, SQInv, SQTypeOK, PopState, NoDuplicate
<1>2. Cardinality(spans) = 0 /\ IsFiniteSet(spans)
  BY Counts, SpanSets DEF ProcInv, SQInv, SQTypeOK, SizeAccounting
<1>3. spans = {}
  BY <1>2, FS_EmptySet
<1> QED
  BY <1>1, <1>3 DEF ProcInv, Conserved

(* One step of the worker. *)
LEMMA AnswerCoversWorker == ASSUME ProcInv, AnswerCovers, WorkerStep, [Next]_vars
                            PROVE  AnswerCovers'
<1>a. /\ w \in WorkerLocals /\ WorkerShape /\ FlushTypeOK
      /\ UNCHANGED <<path, before, result, late>>
      /\ Accepted \subseteq Accepted' /\ Handed \subseteq Handed'
  BY Growing, WorkerFrame DEF ProcInv, WorkerTypeOK, othersDuringWork, flushVars
<1>1. CASE DrainCheckDeadline
  BY <1>1, <1>a DEF DrainCheckDeadline, WorkerAt, PastDeadline, AnswerCovers, WorkerLocals
<1>2. CASE DrainCheckIdle

  <2>1. /\ w'.pc # "answer" /\ answer' = answer
        /\ w'.request = w.request /\ w'.drain = w.drain
        /\ w'.pc = "drained" => size = 0 /\ w.pc # "pop"
    BY <1>2, <1>a DEF DrainCheckIdle, WorkerAt, WorkerLocals
  <2>2. w'.pc = "drained" => Accepted \subseteq Handed
    BY <2>1, EmptyMeansHanded
  <2>3. w.drain = "flush" => w.request \in Flushers
    BY <1>a DEF WorkerShape, WorkerLocals
  <2> QED
    BY <1>a, <2>1, <2>2, <2>3 DEF AnswerCovers
<1>3. CASE DrainReturns
  <2>1. w.pc = "drained" /\ answer' = answer
    BY <1>3 DEF DrainReturns, WorkerAt
  <2>2. CASE w.drain = "flush"
    <3>1. w'.pc = "answer" /\ w'.request = w.request /\ (w'.ok => ~late[w.request])
      BY <1>3, <1>a, <2>2 DEF DrainReturns, PastDeadline, WorkerLocals
    <3> QED
      BY <1>a, <2>1, <2>2, <3>1 DEF AnswerCovers
  <2>3. CASE w.drain # "flush"
    <3>1. w'.pc = "requests"
      BY <1>3, <1>a, <2>3 DEF DrainReturns, WorkerLocals
    <3> QED
      BY <1>a, <2>1, <3>1 DEF AnswerCovers
  <2> QED
    BY <2>2, <2>3
<1>4. CASE AnswerRequest
  <2>1. w'.pc = "requests" /\ w.pc = "answer"
    BY <1>4, <1>a DEF AnswerRequest, WorkerAt, WorkerLocals
  <2>2. \A f \in Flushers : answer'[f] = "true" =>
            answer[f] = "true" \/ (f = w.request /\ w.ok)
    BY <1>4, <1>a DEF AnswerRequest, FlushTypeOK
  <2> QED
    BY <1>a, <2>1, <2>2 DEF AnswerCovers
<1>5. CASE ~(DrainCheckDeadline \/ DrainCheckIdle \/ DrainReturns \/ AnswerRequest)
  <2>1. answer' = answer /\ w'.pc \notin {"drained", "answer"}
    <3> USE <1>a DEF WorkerLocals, WorkerAt, LoopTop
    <3>1. CASE WorkerWaits
      BY <3>1 DEF WorkerWaits
    <3>2. CASE WorkerWakes
      BY <3>2 DEF WorkerWakes
    <3>3. CASE WorkerLoadShutdown
      BY <3>3 DEF WorkerLoadShutdown
    <3>4. CASE TakeRequest
      BY <3>4 DEF TakeRequest
    <3>5. CASE NoMoreRequests
      BY <3>5 DEF NoMoreRequests
    <3>6. CASE DrainFindsNothing
      BY <3>6 DEF DrainFindsNothing
    <3>7. CASE DrainPops
      BY <3>7 DEF DrainPops
    <3>8. CASE ExportBatch
      BY <3>8 DEF ExportBatch
    <3>9. CASE ExitCheckActive
      BY <3>9 DEF ExitCheckActive
    <3>10. CASE ExitCheckEmpty
      BY <3>10 DEF ExitCheckEmpty
    <3>11. CASE FinalFlush
      BY <3>11 DEF FinalFlush
    <3>12. CASE WorkerStop
      BY <3>12 DEF WorkerStop
    <3>13. CASE ReadyCheck
      BY <3>13 DEF ReadyCheck
    <3>14. CASE DrainReadyBatches
      BY <3>14 DEF DrainReadyBatches
    <3> QED
      BY <1>5, <3>1, <3>2, <3>3, <3>4, <3>5, <3>6, <3>7, <3>8,
         <3>9, <3>10, <3>11, <3>12, <3>13, <3>14 DEF WorkerStep
  <2> QED
    BY <1>a, <2>1 DEF AnswerCovers
<1> QED
  BY <1>1, <1>2, <1>3, <1>4, <1>5

(* One step of a flush caller. *)
LEMMA AnswerCoversFlush == ASSUME ProcInv, AnswerCovers, [Next]_vars,
                                  NEW f \in Flushers, FlushAction(f)
                           PROVE  AnswerCovers'
<1>a. /\ w' = w /\ late' = late /\ Handed' = Handed /\ Accepted' = Accepted
      /\ FlushTypeOK /\ RequestShape /\ WorkerShape
  BY FlushFrame DEF ProcInv, othersDuringFlush, sqVars, handVars, Handed, Accepted
<1>b. answer' = answer
  BY DEF FlushAction, FlushNegativeTimeout, FlushEnter, FlushStep, FlushCheckShutdown,
         FlushCheckStopped, EarlyExitIf, FlushEnqueue, FlushEnqueueFails, FlushThrows,
       FlushLeave, FlushLast, FlushReadEmpty, FlushWake, FlushAwait
<1> USE <1>a, <1>b DEF AnswerCovers, FlushTypeOK, RequestShape, FlushAt
<1>1. CASE FlushEnter(f)
  <2>1. path[f] = "none" /\ w.request # f /\ answer[f] = "none"
    BY <1>1 DEF FlushEnter
  <2> QED
    BY <1>1, <2>1 DEF FlushEnter
<1>2. CASE FlushNegativeTimeout(f)
  BY <1>2 DEF FlushNegativeTimeout
<1>3. CASE FlushCheckShutdown(f) \/ FlushCheckStopped(f)
  BY <1>3 DEF FlushCheckShutdown, FlushCheckStopped, EarlyExitIf
<1>4. CASE FlushEnqueue(f) \/ FlushEnqueueFails(f) \/ FlushThrows(f)
  <2>1. path[f] = "none" /\ UNCHANGED <<before, result>>
    BY <1>4 DEF FlushEnqueue, FlushEnqueueFails, FlushThrows
  <2>2. result[f] # "true"
    BY <1>4 DEF FlushEnqueue, FlushEnqueueFails, FlushThrows
  <2> QED
    BY <1>4, <2>1, <2>2 DEF FlushEnqueue, FlushEnqueueFails, FlushThrows
<1>5. CASE FlushLeave(f) \/ FlushLast(f)
  BY <1>5 DEF FlushLeave, FlushLast, SectionResult
<1>6. CASE FlushReadEmpty(f) \/ FlushWake(f)
  BY <1>6 DEF FlushReadEmpty, FlushWake
<1>7. CASE FlushAwait(f)
  BY <1>7 DEF FlushAwait
<1> QED
  BY <1>1, <1>2, <1>3, <1>4, <1>5, <1>6, <1>7 DEF FlushAction, FlushStep

(* Every step keeps it true that a positive answer covers the spans that    *)
(* were accepted before the flush was called.                               *)
LEMMA AnswerCoversStep == ProcInv /\ AnswerCovers /\ [Next]_vars => AnswerCovers'
<1> SUFFICES ASSUME ProcInv, AnswerCovers, [Next]_vars PROVE AnswerCovers'
  OBVIOUS
<1>1. CASE UNCHANGED <<w, flushVars, answer>> /\ \A t \in Flushers : late[t] => late'[t]
  <2>1. w.drain = "flush" => w.request \in Flushers
    BY DEF ProcInv, WorkerShape, WorkerTypeOK, WorkerLocals
  <2> QED
    BY <1>1, <2>1, Growing DEF AnswerCovers, flushVars
<1>2. ASSUME NEW t \in Flushers \cup Closers, Expire(t)
      PROVE  \A u \in Flushers : late[u] => late'[u]
  BY <1>2 DEF Expire, ProcInv, CloseTypeOK
<1> QED
  BY <1>1, <1>2, AnswerCoversWorker, AnswerCoversFlush, NextCases, PushFrame, CloseFrame
     DEF othersDuringPush, othersDuringClose, NotifyStep, Expire, vars

(* forceFlush answered by the worker with true covers every span accepted    *)
(* before the call, for any number of concurrent producers and callers.      *)
THEOREM FlushIsComplete == Spec => []FlushCovers
<1>1. Init => AnswerCovers
  BY DEF Init, AnswerCovers, LoopTop
<1>2. AnswerCovers => FlushCovers
  BY DEF AnswerCovers, FlushCovers
<1> QED
  BY <1>1, <1>2, ProcInvariant, AnswerCoversStep, PTL DEF Spec

----------------------------------------------------------------------------
(* Type correctness of the whole processor: activeFlushCallers, size and the *)
(* semaphore never go below zero.                                            *)
THEOREM BSPTypeCorrect == Spec => []BSPTypeOK
<1>1. Init => droppedSpans \in Nat
  BY DEF Init
<1>2. droppedSpans \in Nat /\ [Next]_vars => (droppedSpans \in Nat)'
  <2> SUFFICES ASSUME droppedSpans \in Nat, [Next]_vars PROVE droppedSpans' \in Nat
    OBVIOUS
  <2>1. ASSUME NEW s \in Spans, PushAction(s) PROVE droppedSpans' \in Nat
    BY <2>1 DEF PushAction, OnEnd, PushGoesOn, PushAccepted, PushRefused
  <2> QED
    BY <2>1, NextCases, FlushFrame, CloseFrame, WorkerFrame

               DEF othersDuringFlush, othersDuringClose, othersDuringWork, NotifyStep, Expire,
               vars
<1>3. ProcInv /\ droppedSpans \in Nat => BSPTypeOK
  BY DEF ProcInv, SQInv, BSPTypeOK
<1> QED
  BY <1>1, <1>2, <1>3, ProcInvariant, PTL DEF Spec

(* The invariant puts every accepted span in exactly one place. *)
LEMMA InOnePlace == ProcInv => ExportedOnce
<1> SUFFICES ASSUME ProcInv PROVE ExportedOnce
  OBVIOUS
<1>1. /\ spans \in SUBSET Spans /\ batch \in SUBSET Spans
      /\ exported \in SUBSET Spans /\ failed \in SUBSET Spans
      /\ spans \cap batch = {} /\ exported \cap failed = {}
      /\ (spans \cup batch) \cap (exported \cup failed) = {}
      /\ Accepted = (spans \cup batch) \cup (exported \cup failed)
  BY DEF ProcInv, SQInv, SQTypeOK, NoDuplicate, WorkerTypeOK, Conserved, Handed
<1>2. Cardinality(spans \cup batch) = Cardinality(spans) + Cardinality(batch)
  BY <1>1, CardDisjoint
<1>3. Cardinality(exported \cup failed) = Cardinality(exported) + Cardinality(failed)
  BY <1>1, CardDisjoint
<1>4. Cardinality((spans \cup batch) \cup (exported \cup failed))
        = Cardinality(spans \cup batch) + Cardinality(exported \cup failed)
  BY <1>1, CardDisjoint
<1>5. /\ Cardinality(spans) \in Nat /\ Cardinality(batch) \in Nat
      /\ Cardinality(exported) \in Nat /\ Cardinality(failed) \in Nat
  BY <1>1, SpanSets
<1>6. Accepted = spans \cup batch \cup Handed
  BY DEF ProcInv, Conserved
<1> QED
  BY <1>1, <1>2, <1>3, <1>4, <1>5, <1>6 DEF ExportedOnce

(* Every accepted span is queued, in the worker's batch or handed over, in   *)
(* exactly one of these places.                                              *)
THEOREM ExactlyOnce == Spec => []ExportedOnce
BY ProcInvariant, InOnePlace, PTL

----------------------------------------------------------------------------
(* A shutdown caller that still believes in success has seen the worker stop. *)
CloserShape ==
    /\ w.pc = "stopped" => workerStopped
    /\ \A c \in Closers :
          cpc[c] \in {"readDrain", "exporter", "closeExporter", "finish", "done"}
          /\ cok[c]
            => workerStopped

(* Every step keeps it true that a closer past its wait with ok = true      *)
(* found the worker stopped.                                                *)
LEMMA CloserShapeStep == ProcInv /\ CloserShape /\ [Next]_vars => CloserShape'
<1> SUFFICES ASSUME ProcInv, CloserShape, [Next]_vars PROVE CloserShape'
  OBVIOUS
<1>a. CloseTypeOK /\ WorkerTypeOK
  BY DEF ProcInv
<1>1. ASSUME NEW c \in Closers, CloseAction(c) PROVE CloserShape'
  <2>1. w' = w /\ workerStopped' = workerStopped
    BY <1>1, CloseFrame DEF othersDuringClose, stopVars
  <2> USE <1>a, <2>1 DEF CloserShape, CloseTypeOK, CloseAt
  <2>2. CASE CloseBegin(c) \/ CloseClaim(c) \/ CloseJoin(c)
    BY <2>2 DEF CloseBegin, CloseClaim, CloseJoin
  <2>3. CASE ClosePoll(c) \/ CloseReadDrain(c)
    BY <2>3 DEF ClosePoll, CloseReadDrain
  <2>4. CASE CloseExporterClaim(c) \/ CloseReturn(c)
    BY <2>4 DEF CloseExporterClaim, CloseReturn
  <2>5. CASE CloseExporter(c)
    BY <2>5 DEF CloseExporter
  <2> QED
    BY <1>1, <2>2, <2>3, <2>4, <2>5 DEF CloseAction, CloseStep
<1>2. CASE WorkerStep
  <2>1. UNCHANGED <<cpc, cok>>
    BY <1>2, WorkerFrame DEF othersDuringWork, closeVars
  <2>2. workerStopped => workerStopped'
    BY <1>2 DEF stopVars, WorkerStep, WorkerWaits, WorkerWakes, WorkerLoadShutdown,
       TakeRequest, NoMoreRequests, DrainCheckDeadline, DrainFindsNothing, DrainPops,
       ExportBatch, DrainCheckIdle, DrainReturns, AnswerRequest, ExitCheckActive,
       ExitCheckEmpty, FinalFlush, WorkerStop, ReadyCheck, DrainReadyBatches
  <2>3. w'.pc = "stopped" => WorkerStop
    <3>1. w \in WorkerLocals
      BY <1>a DEF WorkerTypeOK
    <3> USE <3>1 DEF WorkerLocals, WorkerAt, LoopTop
    <3>2. CASE WorkerWaits
      BY <3>2 DEF WorkerWaits
    <3>3. CASE WorkerWakes
      BY <3>3 DEF WorkerWakes
    <3>4. CASE WorkerLoadShutdown
      BY <3>4 DEF WorkerLoadShutdown
    <3>5. CASE TakeRequest
      BY <3>5 DEF TakeRequest
    <3>6. CASE NoMoreRequests
      BY <3>6 DEF NoMoreRequests
    <3>7. CASE DrainCheckDeadline
      BY <3>7 DEF DrainCheckDeadline
    <3>8. CASE DrainFindsNothing
      BY <3>8 DEF DrainFindsNothing
    <3>9. CASE DrainPops
      BY <3>9 DEF DrainPops
    <3>10. CASE ExportBatch
      BY <3>10 DEF ExportBatch
    <3>11. CASE DrainCheckIdle
      BY <3>11 DEF DrainCheckIdle
    <3>12. CASE DrainReturns
      BY <3>12 DEF DrainReturns
    <3>13. CASE AnswerRequest
      BY <3>13 DEF AnswerRequest
    <3>14. CASE ExitCheckActive
      BY <3>14 DEF ExitCheckActive
    <3>15. CASE ExitCheckEmpty
      BY <3>15 DEF ExitCheckEmpty
    <3>16. CASE FinalFlush
      BY <3>16 DEF FinalFlush
    <3>17. CASE ReadyCheck
      BY <3>17 DEF ReadyCheck
    <3>18. CASE DrainReadyBatches
      BY <3>18 DEF DrainReadyBatches
    <3> QED
      BY <1>2, <3>2, <3>3, <3>4, <3>5, <3>6, <3>7, <3>8, <3>9, <3>10,
         <3>11, <3>12, <3>13, <3>14, <3>15, <3>16, <3>17, <3>18 DEF WorkerStep
  <2> QED
    BY <2>1, <2>2, <2>3 DEF CloserShape, WorkerStop
<1>3. CASE UNCHANGED <<w, stopVars, closeVars>>
  BY <1>3 DEF CloserShape, stopVars, closeVars
<1> QED
  BY <1>1, <1>2, <1>3, NextCases, PushFrame, FlushFrame
     DEF othersDuringPush, othersDuringFlush, NotifyStep, Expire, vars

(* shutdown() returns true only after the worker has stopped with every      *)
(* accepted span handed over, whether the caller joined or polled.           *)
THEOREM ShutdownIsHonest == Spec => []ShutdownMeansDrained
<1>1. Init => CloserShape
  BY DEF Init, CloserShape, LoopTop
<1>2. ProcInv /\ CloserShape => ShutdownMeansDrained
  BY StoppedMeansHanded DEF CloserShape, ShutdownMeansDrained, NoStrandedSpan
<1> QED
  BY <1>1, <1>2, ProcInvariant, CloserShapeStep, PTL DEF Spec

----------------------------------------------------------------------------
(* The early exit of forceFlush is taken during shutdown, and returns true   *)
(* only over a sealed queue.                                                 *)
EarlyExit ==
    \A f \in Flushers :
        /\ path[f] = "early" => shutdownRequested
        /\ result[f] = "true" /\ path[f] # "queued" => Sealed

(* One step of a forceFlush call. *)
LEMMA EarlyExitFlush == ASSUME ProcInv, EarlyExit, NEW f \in Flushers, FlushAction(f)
                        PROVE  EarlyExit'
<1>a. /\ shutdownRequested' = shutdownRequested /\ Sealed' = Sealed
      /\ FlushTypeOK /\ RequestShape
  BY FlushFrame DEF ProcInv, othersDuringFlush, sqVars, Sealed
<1> USE <1>a DEF EarlyExit, FlushTypeOK, RequestShape, FlushAt
<1>1. CASE FlushEnter(f) \/ FlushNegativeTimeout(f)
  BY <1>1 DEF FlushEnter, FlushNegativeTimeout
<1>2. CASE FlushCheckShutdown(f) \/ FlushCheckStopped(f)
  <2>1. workerStopped => shutdownRequested
    BY StoppedMeansHanded DEF NoStrandedSpan, Sealed
  <2> QED
    BY <1>2, <2>1 DEF FlushCheckShutdown, FlushCheckStopped, EarlyExitIf
<1>3. CASE FlushEnqueue(f) \/ FlushEnqueueFails(f) \/ FlushThrows(f)
  BY <1>3 DEF FlushEnqueue, FlushEnqueueFails, FlushThrows
<1>4. CASE FlushLeave(f) \/ FlushLast(f)
  BY <1>4 DEF FlushLeave, FlushLast, SectionResult
<1>5. CASE FlushReadEmpty(f)
  <2>1. shutdownRequested /\ size = 0 => Sealed
    BY EmptySealsState DEF ProcInv, EmptySeals
  <2> QED
    BY <1>5, <2>1 DEF FlushReadEmpty
<1>6. CASE FlushWake(f) \/ FlushAwait(f)
  BY <1>6 DEF FlushWake, FlushAwait
<1> QED
  BY <1>1, <1>2, <1>3, <1>4, <1>5, <1>6 DEF FlushAction, FlushStep

(* Every step keeps it: the others can only seal the queue for good. *)
LEMMA EarlyExitStep == ProcInv /\ EarlyExit /\ [Next]_vars => EarlyExit'
<1> SUFFICES ASSUME ProcInv, EarlyExit, [Next]_vars PROVE EarlyExit'
  OBVIOUS
<1>1. Sealed => Sealed'
  BY StepOfQueue, SealedStep DEF ProcInv, SQInv
<1>2. shutdownRequested => shutdownRequested'
  BY StepOfQueue, ShutdownStays
<1>3. CASE UNCHANGED flushVars
  BY <1>1, <1>2, <1>3 DEF EarlyExit, flushVars
<1> QED
  BY <1>3, EarlyExitFlush, NextCases, PushFrame, CloseFrame, WorkerFrame
     DEF othersDuringPush, othersDuringClose, othersDuringWork, NotifyStep, Expire, vars

(* forceFlush returns true only when no span accepted before the call is     *)
(* still in the queue, also where it races with shutdown.                    *)
THEOREM FlushLeavesNothing == Spec => []FlushTrueMeansTaken
<1>1. Init => EarlyExit
  BY DEF Init, EarlyExit
<1>2. ProcInv /\ EarlyExit /\ FlushCovers => FlushTrueMeansTaken
  BY DEF ProcInv, Conserved, EarlyExit, Sealed, FlushCovers, FlushTrueMeansTaken
<1> QED
  BY <1>1, <1>2, ProcInvariant, EarlyExitStep, FlushIsComplete, PTL DEF Spec

----------------------------------------------------------------------------
(* A shutdown caller past its wait has seen the worker stop or is late. *)
ExporterOrder ==
    /\ \A c \in Closers :
          cpc[c] \in {"readDrain", "exporter", "closeExporter", "finish", "done"}
            => workerStopped \/ late[c]
    /\ exporterClosed => workerStopped \/ \E c \in Closers : late[c]

(* Every step keeps the order of the stop and the close. *)
LEMMA ExporterOrderStep ==
    ProcInv /\ CloserShape /\ ExporterOrder /\ [Next]_vars => ExporterOrder'
<1> SUFFICES ASSUME ProcInv, CloserShape, ExporterOrder, [Next]_vars PROVE ExporterOrder'
  OBVIOUS
<1>a. CloseTypeOK
  BY DEF ProcInv
<1>1. ASSUME NEW c \in Closers, CloseAction(c) PROVE ExporterOrder'
  <2>1. w' = w /\ workerStopped' = workerStopped /\ late' = late
    BY <1>1, CloseFrame DEF othersDuringClose, stopVars
  <2> USE <1>a, <2>1 DEF ExporterOrder, CloserShape, CloseTypeOK, CloseAt
  <2>2. CASE CloseBegin(c) \/ CloseClaim(c) \/ CloseJoin(c)
    BY <2>2 DEF CloseBegin, CloseClaim, CloseJoin
  <2>3. CASE ClosePoll(c) \/ CloseReadDrain(c)
    BY <2>3 DEF ClosePoll, CloseReadDrain
  <2>4. CASE CloseExporterClaim(c) \/ CloseReturn(c)
    BY <2>4 DEF CloseExporterClaim, CloseReturn
  <2>5. CASE CloseExporter(c)
    BY <2>5 DEF CloseExporter
  <2> QED
    BY <1>1, <2>2, <2>3, <2>4, <2>5 DEF CloseAction, CloseStep
<1>2. CASE WorkerStep
  <2>1. UNCHANGED <<cpc, exporterClosed, late>>
    BY <1>2, WorkerFrame DEF othersDuringWork, closeVars
  <2>2. workerStopped => workerStopped'
    BY <1>2 DEF stopVars, WorkerStep, WorkerWaits, WorkerWakes, WorkerLoadShutdown,
       TakeRequest, NoMoreRequests, DrainCheckDeadline, DrainFindsNothing, DrainPops,
       ExportBatch, DrainCheckIdle, DrainReturns, AnswerRequest, ExitCheckActive,
       ExitCheckEmpty, FinalFlush, WorkerStop, ReadyCheck, DrainReadyBatches
  <2> QED
    BY <2>1, <2>2 DEF ExporterOrder
<1>3. CASE \E t \in Flushers \cup Closers : Expire(t)
  <2>1. UNCHANGED <<cpc, exporterClosed, workerStopped>>
    BY <1>3 DEF Expire, closeVars, stopVars
  <2>2. \A c \in Closers : late[c] => late'[c]
    BY <1>3, <1>a DEF Expire, CloseTypeOK
  <2> QED
    BY <2>1, <2>2 DEF ExporterOrder
<1>4. CASE UNCHANGED <<stopVars, closeVars, late>>
  BY <1>4 DEF ExporterOrder, stopVars, closeVars
<1> QED
  BY <1>1, <1>2, <1>3, <1>4, NextCases, PushFrame, FlushFrame
     DEF othersDuringPush, othersDuringFlush, NotifyStep, vars

(* shutdown() closes the exporter after the worker has stopped, unless a     *)
(* deadline has passed, for any number of callers.                           *)
THEOREM ExporterOutlivesDrain == Spec => []ExporterClosedLast
<1>1. Init => CloserShape /\ ExporterOrder
  BY DEF Init, CloserShape, ExporterOrder, LoopTop
<1>2. ExporterOrder => ExporterClosedLast
  BY DEF ExporterOrder, ExporterClosedLast
<1> QED
  BY <1>1, <1>2, ProcInvariant, CloserShapeStep, ExporterOrderStep, PTL DEF Spec

----------------------------------------------------------------------------
(* What the refinement needs besides ProcInv: a batch is never larger than  *)
(* max_batch_size, and a push is on its way to kClosed only after shutdown. *)
BatchBounded ==
    /\ Cardinality(batch) <= MaxBatch
    /\ \A s \in Spans : push[s] = "undoClosed" => shutdownRequested

(* Every step of the queue keeps both. *)
LEMMA BatchBoundedStep == ProcInv /\ BatchBounded /\ [Next]_vars => BatchBounded'
<1> SUFFICES ASSUME ProcInv, BatchBounded, [Next]_vars PROVE BatchBounded'
  OBVIOUS
<1>a. push \in [Spans -> PushState] /\ [SQNext]_sqVars
  BY StepOfQueue DEF ProcInv, SQInv, SQTypeOK
<1>1. Cardinality({}) <= MaxBatch
  BY FS_EmptySet, ConfigNormalized
<1>2. ASSUME NEW s \in Spans, TryPush(s) PROVE BatchBounded'
  BY <1>2, <1>a DEF TryPush, Reserve, CheckClosed, Enqueue, EnqueueFails, Undo, PushAt,
                    ConsumerIdle, BatchBounded
<1>3. CASE TryPopBulk \/ Deliver
  <2>1. UNCHANGED <<push, shutdownRequested>>
    BY <1>3 DEF TryPopBulk, PopSeesEmpty, PopSeesWork, Dequeue, DequeueNothing,
                Subtract, Deliver, ProducersIdle
  <2>2. batch' = batch \/ batch' = {} \/ Cardinality(batch') <= MaxBatch
    BY <1>3 DEF TryPopBulk, PopSeesEmpty, PopSeesWork, Dequeue, DequeueNothing,
                Subtract, Deliver
  <2>3. Cardinality(batch') <= MaxBatch
    BY <1>1, <2>2 DEF BatchBounded
  <2> QED
    BY <2>1, <2>3 DEF BatchBounded
<1>4. CASE RequestShutdown \/ UNCHANGED sqVars
  BY <1>4 DEF RequestShutdown, ConsumerIdle, sqVars, BatchBounded
<1> QED
  BY <1>a, <1>2, <1>3, <1>4 DEF SQNext

(* What has become of a span, by where its push and its batch are. *)
FateByPlace ==
    \A s \in Spans :
        /\ Fate[s] = "pending" <=> s \in spans \cup batch
        /\ Fate[s] = "exported" <=> s \in exported
        /\ Fate[s] = "failed" <=> s \in failed
        /\ Fate[s] = "dropped" <=> push[s] = "full"
        /\ Fate[s] = "refused" <=> push[s] = "closed"
        /\ Fate[s] = "new" <=> push[s] \notin {"accepted", "full", "closed"}

(* Each span has one fate, because it is in one place. *)
LEMMA FateOf == ProcInv => FateByPlace
<1> SUFFICES ASSUME ProcInv, NEW s \in Spans
             PROVE  /\ Fate[s] = "pending" <=> s \in spans \cup batch
                    /\ Fate[s] = "exported" <=> s \in exported
                    /\ Fate[s] = "failed" <=> s \in failed
                    /\ Fate[s] = "dropped" <=> push[s] = "full"
                    /\ Fate[s] = "refused" <=> push[s] = "closed"
                    /\ Fate[s] = "new" <=> push[s] \notin {"accepted", "full", "closed"}
  BY DEF FateByPlace
<1>1. push[s] = "accepted" <=> s \in spans \cup batch \cup exported \cup failed
  BY DEF ProcInv, Conserved, Accepted, Handed
<1>2. /\ s \in spans \cup batch => s \notin exported \cup failed
      /\ ~(s \in exported /\ s \in failed)
  BY DEF ProcInv, Conserved, Handed
<1>3. CASE s \in exported
  BY <1>1, <1>2, <1>3 DEF Fate, Handed
<1>4. CASE s \in failed
  BY <1>1, <1>2, <1>4 DEF Fate, Handed
<1>5. CASE s \in spans \cup batch
  BY <1>1, <1>2, <1>5 DEF Fate, Handed
<1>6. CASE push[s] # "accepted"
  BY <1>1, <1>6 DEF Fate, Handed
<1> QED
  BY <1>1, <1>3, <1>4, <1>5, <1>6

(* ... before a step and after it. *)
LEMMA FateAfter == ProcInv' => FateByPlace'
BY FateOf, PTL

(* The spans the pipeline has pending are the queue and the batch. *)
LEMMA PendingSpans == ProcInv => Pipeline!Pending = spans \cup batch
<1> SUFFICES ASSUME ProcInv PROVE Pipeline!Pending = spans \cup batch
  OBVIOUS
<1>1. spans \in SUBSET Spans /\ batch \in SUBSET Spans
  BY DEF ProcInv, SQInv, SQTypeOK
<1> QED
  BY <1>1, FateOf DEF FateByPlace, Pipeline!Pending

(* The pipeline counts spans as the queue does. *)
LEMMA SameCount == ASSUME NEW S PROVE Pipeline!Cardinality(S) = Cardinality(S)
BY DEF Pipeline!Cardinality, Cardinality

(* A step that leaves the pushes and the exporter's spans alone, or moves a  *)
(* push between two points before its end, changes no fate.                  *)
LEMMA FateKept ==
    ASSUME UNCHANGED <<exported, failed>>,
           \A s \in Spans : \/ push'[s] = push[s]
                            \/ /\ push[s] \notin {"accepted", "full", "closed"}
                               /\ push'[s] \notin {"accepted", "full", "closed"}
    PROVE  Fate' = Fate
BY DEF Fate, Handed

(* onEnd accepts, drops or refuses the span, as the pipeline may. *)
LEMMA PushIsPipeline ==
    ASSUME ProcInv, BatchBounded, ProcInv', NEW s \in Spans, PushAction(s)
    PROVE  [Pipeline!Next]_(Pipeline!pipelineVars)
<1>a. /\ push \in [Spans -> PushState] /\ push' \in [Spans -> PushState]
      /\ Conserved /\ Conserved'
      /\ spans \in SUBSET Spans /\ batch \in SUBSET Spans
  BY DEF ProcInv, SQInv, SQTypeOK
<1>c. FateByPlace /\ FateByPlace'
  BY FateOf, FateAfter
<1>b. UNCHANGED <<shutdownRequested, workerStopped, exported, failed>>
  BY PushFrame
     DEF PushAction, OnEnd, PushGoesOn, PushAccepted, PushRefused, Reserve, CheckClosed,
         Enqueue, EnqueueFails, Undo, othersDuringPush, stopVars, handVars
<1>1. CASE OnEnd(s) \/ PushGoesOn(s)
  <2>1. Fate' = Fate
    BY <1>1, <1>a, <1>b, FateKept
       DEF OnEnd, PushGoesOn, Reserve, CheckClosed, EnqueueFails, PushAt
  <2> QED
    BY <2>1, <1>b DEF Pipeline!pipelineVars
<1>2. ASSUME NEW outcome \in {"pending", "dropped", "refused"}, Fate'[s] = outcome,
             \A r \in Spans \ {s} : push'[r] = push[r]
      PROVE  Fate' = [Fate EXCEPT ![s] = outcome]
  <2>1. \A r \in Spans \ {s} : Fate'[r] = Fate[r]
    BY <1>2, <1>b DEF Fate, Handed
  <2>2. Fate = [r \in Spans |-> Fate[r]] /\ Fate' = [r \in Spans |-> Fate'[r]]
    BY DEF Fate
  <2> QED
    BY <1>2, <2>1, <2>2
<1>3. CASE PushAccepted(s)
  <2>1. push[s] = "enqueue" /\ s \in spans' /\ \A r \in Spans \ {s} : push'[r] = push[r]
    BY <1>3, <1>a DEF PushAccepted, Enqueue, PushAt
  <2>2. Fate[s] = "new" /\ Fate' = [Fate EXCEPT ![s] = "pending"]
    <3>1. Fate[s] = "new" /\ Fate'[s] = "pending"
      BY <2>1, <1>c DEF FateByPlace
    <3> QED
      BY <3>1, <2>1, <1>2
  <2>3. ~workerStopped
    BY <2>1, StoppedMeansHanded DEF NoStrandedSpan, Sealed, ProcInv
  <2>4. Cardinality(Pipeline!Pending) < Capacity + MaxBatch
    <3>1. Cardinality(spans) + Cardinality(Admitted) <= Capacity /\ spans \cap batch = {}
      BY DEF ProcInv, SQInv, CapacityBound, NoDuplicate
    <3>2. Cardinality(Admitted) >= 1
      <4>1. s \in Admitted /\ Admitted \in SUBSET Spans
        BY <2>1 DEF Admitted
      <4>2. Cardinality(Admitted \ {s}) = Cardinality(Admitted) - 1
        BY <4>1, CardRemove
      <4>3. Cardinality(Admitted \ {s}) \in Nat /\ Cardinality(Admitted) \in Nat
        BY <4>1, SpanSets
      <4> QED
        BY <4>2, <4>3
    <3>3. Cardinality(spans \cup batch) = Cardinality(spans) + Cardinality(batch)
      BY <1>a, <3>1, CardDisjoint
    <3>4. /\ Cardinality(spans) \in Nat /\ Cardinality(batch) \in Nat
          /\ Cardinality(Admitted) \in Nat
      BY <1>a, SpanSets DEF Admitted
    <3> QED
      BY <3>1, <3>2, <3>3, <3>4, PendingSpans, ConfigNormalized DEF BatchBounded
  <2>5. Pipeline!Accept(s)
    BY <1>b, <2>2, <2>3, <2>4, SameCount DEF Pipeline!Accept
  <2> QED
    BY <2>5 DEF Pipeline!Next
<1>4. CASE PushRefused(s)
  <2>1. \A r \in Spans \ {s} : push'[r] = push[r]
    BY <1>4, <1>a DEF PushRefused, Undo, PushAt
  <2>2. CASE push[s] = "undoFull"
    <3>1. push'[s] = "full"
      BY <1>4, <1>a, <2>2 DEF PushRefused, Undo, PushAt
    <3>2. Fate[s] = "new" /\ Fate' = [Fate EXCEPT ![s] = "dropped"]
      <4>1. Fate[s] = "new" /\ Fate'[s] = "dropped"
        BY <2>2, <3>1, <1>c DEF FateByPlace
      <4> QED
        BY <4>1, <2>1, <1>2
    <3> QED
      BY <3>2, <1>b DEF Pipeline!Drop, Pipeline!Next
  <2>3. CASE push[s] = "undoClosed"
    <3>1. push'[s] = "closed" /\ shutdownRequested
      BY <1>4, <1>a, <2>3 DEF PushRefused, Undo, PushAt, BatchBounded
    <3>2. Fate[s] = "new" /\ Fate' = [Fate EXCEPT ![s] = "refused"]
      <4>1. Fate[s] = "new" /\ Fate'[s] = "refused"
        BY <2>3, <3>1, <1>c DEF FateByPlace
      <4> QED
        BY <4>1, <2>1, <1>2
    <3> QED
      BY <3>1, <3>2, <1>b DEF Pipeline!Refuse, Pipeline!Next
  <2> QED
    BY <1>4, <2>2, <2>3 DEF PushRefused, Undo, PushAt
<1> QED
  BY <1>1, <1>3, <1>4 DEF PushAction

(* Of the worker's steps only the export hands spans over ... *)
LEMMA WorkerHandsOver == ASSUME WorkerStep PROVE ExportBatch \/ UNCHANGED handVars
<1>1. CASE WorkerWaits \/ WorkerWakes \/ WorkerLoadShutdown \/ TakeRequest \/ NoMoreRequests
  BY <1>1, Zenon DEF WorkerWaits, WorkerWakes, WorkerLoadShutdown, TakeRequest,
                     NoMoreRequests
<1>2. CASE DrainCheckDeadline \/ DrainFindsNothing \/ DrainPops \/ DrainCheckIdle
  BY <1>2, Zenon DEF DrainCheckDeadline, DrainFindsNothing, DrainPops, DrainCheckIdle
<1>3. CASE DrainReturns \/ AnswerRequest \/ ExitCheckActive \/ ExitCheckEmpty
  BY <1>3, Zenon DEF DrainReturns, AnswerRequest, ExitCheckActive, ExitCheckEmpty
<1>4. CASE FinalFlush \/ WorkerStop \/ ReadyCheck \/ DrainReadyBatches
  BY <1>4, Zenon DEF FinalFlush, WorkerStop, ReadyCheck, DrainReadyBatches
<1> QED
  BY <1>1, <1>2, <1>3, <1>4, Zenon DEF WorkerStep

(* ... and only the last one stores workerStopped. *)
LEMMA WorkerStops == ASSUME WorkerStep PROVE WorkerStop \/ UNCHANGED workerStopped
<1>1. CASE WorkerWaits \/ WorkerWakes \/ WorkerLoadShutdown \/ TakeRequest \/ NoMoreRequests
  BY <1>1, Zenon DEF WorkerWaits, WorkerWakes, WorkerLoadShutdown, TakeRequest,
                     NoMoreRequests, stopVars
<1>2. CASE DrainCheckDeadline \/ DrainFindsNothing \/ DrainPops \/ DrainCheckIdle
           \/ ExportBatch
  BY <1>2, Zenon DEF DrainCheckDeadline, DrainFindsNothing, DrainPops, DrainCheckIdle,
                     ExportBatch, stopVars
<1>3. CASE DrainReturns \/ AnswerRequest \/ ExitCheckActive \/ ExitCheckEmpty
  BY <1>3, Zenon DEF DrainReturns, AnswerRequest, ExitCheckActive, ExitCheckEmpty, stopVars
<1>4. CASE FinalFlush \/ ReadyCheck \/ DrainReadyBatches
  BY <1>4, Zenon DEF FinalFlush, ReadyCheck, DrainReadyBatches, stopVars
<1> QED
  BY <1>1, <1>2, <1>3, <1>4, Zenon DEF WorkerStep

(* The worker hands a bounded batch over, stops with nothing pending, or     *)
(* does nothing its users see.                                               *)
LEMMA WorkerIsPipeline ==
    ASSUME ProcInv, BatchBounded, ProcInv', WorkerStep
    PROVE  [Pipeline!Next]_(Pipeline!pipelineVars)
<1>a. /\ push \in [Spans -> PushState] /\ push' \in [Spans -> PushState]
      /\ Conserved /\ Conserved'
      /\ spans \in SUBSET Spans /\ batch \in SUBSET Spans
  BY DEF ProcInv, SQInv, SQTypeOK
<1>c. FateByPlace /\ FateByPlace'
  BY FateOf, FateAfter
<1>b. UNCHANGED <<push, shutdownRequested>>
  BY WorkerOnQueue
     DEF TryPopBulk, PopSeesEmpty, PopSeesWork, Dequeue, DequeueNothing, Subtract,
         Deliver, ProducersIdle, sqVars
<1>1. CASE ExportBatch
  <2>1. PICK success \in ExporterSays :
          /\ exported' = IF success THEN exported \cup batch ELSE exported
          /\ failed' = IF success THEN failed ELSE failed \cup batch
    BY <1>1 DEF ExportBatch
  <2>2. batch # {} /\ workerStopped' = workerStopped /\ \A s \in batch : push[s] = "accepted"
    BY <1>1 DEF ExportBatch, Deliver, PopAt, stopVars, ProcInv, SQInv, NoDuplicate
  <2> DEFINE outcome == IF success THEN "exported" ELSE "failed"
  <2>3. ASSUME NEW s \in Spans
        PROVE  Fate'[s] = IF s \in batch THEN outcome ELSE Fate[s]
    <3>1. CASE s \in batch
      BY <2>1, <3>1, <1>c DEF FateByPlace
    <3>2. CASE s \notin batch
      BY <2>1, <3>2, <1>b DEF Fate, Handed
    <3> QED
      BY <3>1, <3>2
  <2>4. Fate' = [s \in Spans |-> IF s \in batch THEN outcome ELSE Fate[s]]
    BY <2>3 DEF Fate
  <2>5. Pipeline!HandOver(batch, outcome)
    BY <1>b, <2>2, <2>4, SameCount DEF Pipeline!HandOver, BatchBounded
  <2>6. batch \in SUBSET Pipeline!Pending
    BY PendingSpans
  <2> QED
    BY <2>5, <2>6 DEF Pipeline!Next
<1>2. CASE WorkerStop
  <2>1. Fate' = Fate
    BY <1>2, <1>b, FateKept DEF WorkerStop, handVars
  <2>2. shutdownRequested /\ spans = {} /\ batch = {}
    BY <1>2 DEF WorkerStop, WorkerAt, ProcInv, ExitSealed, Exiting, Ended, Sealed,
                WorkerShape, SQInv, NoDuplicate
  <2>3. Pipeline!Stop
    BY <1>2, <1>b, <2>1, <2>2, PendingSpans DEF WorkerStop, Pipeline!Stop
  <2> QED
    BY <2>3 DEF Pipeline!Next
<1>3. CASE UNCHANGED <<handVars, workerStopped>>
  <2>1. Fate' = Fate
    BY <1>3, <1>b, FateKept DEF handVars
  <2> QED
    BY <1>3, <1>b, <2>1 DEF Pipeline!pipelineVars
<1> QED
  BY <1>1, <1>2, <1>3, WorkerHandsOver, WorkerStops

(* Every step is a step of the pipeline, or one its users do not see. *)
LEMMA StepOfPipeline ==
    ProcInv /\ BatchBounded /\ ProcInv' /\ [Next]_vars
      => [Pipeline!Next]_(Pipeline!pipelineVars)
<1> SUFFICES ASSUME ProcInv, BatchBounded, ProcInv', [Next]_vars
             PROVE  [Pipeline!Next]_(Pipeline!pipelineVars)
  OBVIOUS
<1>1. CASE UNCHANGED <<push, exported, failed, shutdownRequested, workerStopped>>
  BY <1>1, FateKept DEF Pipeline!pipelineVars
<1>2. ASSUME NEW c \in Closers, CloseBegin(c) PROVE Pipeline!Next
  <2>1. UNCHANGED <<push, exported, failed, workerStopped>> /\ shutdownRequested'
    BY <1>2 DEF CloseBegin, RequestShutdown, othersDuringClose, stopVars, handVars
  <2>2. Fate' = Fate
    BY <2>1, FateKept
  <2>3. shutdownRequested' = TRUE
    BY <1>2 DEF CloseBegin, RequestShutdown
  <2>4. Pipeline!RequestStop
    BY <2>1, <2>2, <2>3 DEF Pipeline!RequestStop
  <2> QED
    BY <2>4 DEF Pipeline!Next
<1>3. ASSUME NEW c \in Closers, CloseStep(c)
      PROVE  UNCHANGED <<push, exported, failed, shutdownRequested, workerStopped>>
  BY <1>3 DEF CloseStep, CloseClaim, CloseJoin, ClosePoll, CloseReadDrain,
              CloseExporterClaim, CloseExporter, CloseReturn, othersDuringClose,
              stopVars, handVars, sqVars
<1>4. ASSUME NEW f \in Flushers, FlushAction(f)
      PROVE  UNCHANGED <<push, exported, failed, shutdownRequested, workerStopped>>
  BY <1>4, FlushFrame DEF othersDuringFlush, stopVars, handVars, sqVars
<1>5. ASSUME \/ \E t \in Threads : NotifyStep(t)
             \/ \E t \in Flushers \cup Closers : Expire(t)
             \/ UNCHANGED vars
      PROVE  UNCHANGED <<push, exported, failed, shutdownRequested, workerStopped>>
  BY <1>5 DEF NotifyStep, Expire, vars, othersDuringPush, stopVars, handVars, sqVars
<1> QED
  BY <1>1, <1>2, <1>3, <1>4, <1>5, NextCases, PushIsPipeline, WorkerIsPipeline
     DEF CloseAction

(* The processor implements SpanPipeline: for any number of producers and    *)
(* callers, whatever their interleaving, a span is accepted, dropped or      *)
(* refused once, an accepted one is handed to the exporter exactly once in a *)
(* batch of at most max_batch_size, never more than queue_capacity and one   *)
(* batch are pending, and the worker stops only when none is.                *)
THEOREM ProcessorImplementsPipeline == Spec => ImplementsPipeline
<1>1. Init => Pipeline!Init
  BY DEF Init, SQInit, Pipeline!Init, Fate
<1>2. Init => BatchBounded
  BY FS_EmptySet, ConfigNormalized DEF Init, SQInit, BatchBounded
<1> QED
  BY <1>1, <1>2, ProcInvariant, BatchBoundedStep, StepOfPipeline, PTL
     DEF Spec, ImplementsPipeline, Pipeline!Spec

----------------------------------------------------------------------------
(* The worker will look at the queue before it sleeps at the top of the loop. *)
Looking ==
    \/ w.pc \in {"load", "deadline", "pop", "idleCheck", "nap", "ready", "readyLoop"}
    \/ w.pc = "requests" /\ w.site = "top" /\ ~w.any

(* Somebody has woken it, or is about to. *)
WakeUnderWay ==
    \/ \E t \in Threads : ntf[t] # "quiet"
    \/ signal > 0
    \/ waiter = "acquired"

(* In mode kOnEnd a queued span has a wake-up under way until the worker     *)
(* looks; a drain that gives up at its deadline is the exception.            *)
QueuedIsNoticed ==
    ScheduleMode = "kOnEnd" /\ (\A f \in Flushers : ~late[f]) /\ spans # {}
      => WakeUnderWay \/ Looking

(* A counter of zero means that the queue is empty. *)
LEMMA ZeroMeansEmpty == ProcInv /\ size = 0 => spans = {}
<1> SUFFICES ASSUME ProcInv, size = 0 PROVE spans = {}
  OBVIOUS
<1>1. Cardinality(spans) = 0 /\ IsFiniteSet(spans)
  BY Counts, SpanSets DEF ProcInv, SQInv, SQTypeOK, SizeAccounting
<1> QED
  BY <1>1, FS_EmptySet

(* A step of a notifier leaves the wake-up it is about, also where notify()  *)
(* relies on the token another one announced.                                *)
LEMMA NotifyKeepsWake ==
    ASSUME WCTypeOK, PendingIsBacked, NEW t \in Threads, Notifying(t)
    PROVE  WakeUnderWay'
<1> USE DEF WCTypeOK, WakeUnderWay, NotifyAt
<1>1. CASE Exchange(t)
  <2>1. CASE signalPending
    <3>1. \A u \in Threads : ntf[u] = "release" => ntf'[u] = "release"
      BY <1>1, <2>1 DEF Exchange
    <3>2. signal' = signal /\ waiter' = waiter
      BY <1>1 DEF Exchange
    <3> QED
      BY <2>1, <3>1, <3>2 DEF PendingIsBacked
  <2>2. CASE ~signalPending
    <3>1. ntf'[t] = "release"
      BY <1>1, <2>2 DEF Exchange
    <3> QED
      BY <3>1
  <2> QED
    BY <2>1, <2>2
<1>2. CASE Store(t)
  <2>1. ntf'[t] = "release"
    BY <1>2 DEF Store
  <2> QED
    BY <2>1
<1>3. CASE Release(t)
  BY <1>3 DEF Release
<1> QED
  BY <1>1, <1>2, <1>3 DEF Notifying

(* Entering notify() or forceNotify(), or not, takes no wake-up back. *)
LEMMA CallKeepsWake ==
    ASSUME WCTypeOK, NEW t \in Threads,
           CallNotify(t) \/ CallForceNotify(t) \/ UNCHANGED wcVars
    PROVE  WakeUnderWay => WakeUnderWay'
<1>1. /\ \A u \in Threads : ntf[u] # "quiet" => ntf'[u] # "quiet"
      /\ signal' = signal /\ waiter' = waiter
  BY DEF CallNotify, CallForceNotify, NotifyAt, wcVars, WCTypeOK
<1> QED
  BY <1>1 DEF WakeUnderWay

(* The worker keeps looking until the queue is empty or sleeps on a wake-up. *)
LEMMA WorkerNotices ==
    ASSUME ProcInv, WorkerStep, QueuedIsNoticed,
           ScheduleMode = "kOnEnd", \A f \in Flushers : ~late[f], spans' # {}
    PROVE  WakeUnderWay' \/ Looking'
<1>a. w \in WorkerLocals
  BY DEF ProcInv, WorkerTypeOK
<1>b. spans # {}
  BY WorkerOnQueue DEF TryPopBulk, PopSeesEmpty, PopSeesWork, Dequeue, DequeueNothing,
                       Subtract, Deliver, sqVars
<1>c. WakeUnderWay \/ Looking
  BY <1>b DEF QueuedIsNoticed
<1>d. size # 0
  BY <1>b, ZeroMeansEmpty
<1>e. UNCHANGED wcVars => (WakeUnderWay => WakeUnderWay')
  BY DEF wcVars, WakeUnderWay
<1>1. CASE WorkerWaits
  <2>1. CASE StartWait
    BY <1>1, <1>c, <2>1 DEF WorkerWaits, StartWait, WaitAt, WakeUnderWay, Looking
  <2>2. CASE Acquire
    BY <2>2 DEF Acquire, WaitAt, WakeUnderWay
  <2> QED
    BY <1>1, <2>1, <2>2 DEF WorkerWaits
<1>2. CASE WorkerWakes \/ WorkerLoadShutdown \/ TakeRequest
  <2>1. CASE WorkerWakes
    <3>1. w'.pc \in {"load", "deadline"}
      BY <2>1, <1>a DEF WorkerWakes, WorkerLocals
    <3> QED
      BY <3>1 DEF Looking
  <2>2. CASE WorkerLoadShutdown
    BY <2>2, <1>a DEF WorkerLoadShutdown, Looking, WorkerLocals
  <2>3. CASE TakeRequest
    <3>1. w'.pc = "deadline"
      BY <2>3, <1>a DEF TakeRequest, WorkerLocals
    <3> QED
      BY <3>1 DEF Looking
  <2> QED
    BY <1>2, <2>1, <2>2, <2>3
<1>3. CASE NoMoreRequests
  <2>1. UNCHANGED wcVars
    BY <1>3 DEF NoMoreRequests
  <2>2. Looking => Looking'
    BY <1>3, <1>a DEF NoMoreRequests, WorkerAt, Looking, WorkerLocals
  <2> QED
    BY <1>c, <1>e, <2>1, <2>2
<1>4. CASE DrainCheckDeadline
  <2>1. ~PastDeadline
    BY <1>a DEF PastDeadline, ProcInv, WorkerShape, WorkerLocals
  <2> QED
    BY <1>4, <1>a, <2>1 DEF DrainCheckDeadline, Looking, WorkerLocals
<1>5. CASE DrainFindsNothing
  BY <1>5, <1>b, <1>d DEF DrainFindsNothing, PopSeesEmpty, DequeueNothing
<1>6. CASE DrainPops
  BY <1>6 DEF DrainPops, WorkerAt, Looking
<1>7. CASE ExportBatch
  BY <1>7, <1>a DEF ExportBatch, WorkerAt, Looking, WorkerLocals
<1>8. CASE DrainCheckIdle
  BY <1>8, <1>a, <1>d DEF DrainCheckIdle, Looking, WorkerLocals
<1>9. CASE ReadyCheck
  BY <1>9, <1>a DEF ReadyCheck, DrainPartial, Looking, WorkerLocals
<1>10. CASE DrainReadyBatches
  BY <1>10, <1>a, <1>d DEF DrainReadyBatches, DrainPartial, Looking, WorkerLocals
<1>11. ASSUME \/ DrainReturns \/ AnswerRequest \/ ExitCheckActive \/ ExitCheckEmpty
              \/ FinalFlush \/ WorkerStop
       PROVE  UNCHANGED wcVars /\ ~Looking
  BY <1>11 DEF DrainReturns, AnswerRequest, ExitCheckActive, ExitCheckEmpty, FinalFlush,
               WorkerStop, WorkerAt, Looking
<1> QED
  BY <1>1, <1>2, <1>3, <1>4, <1>5, <1>6, <1>7, <1>8, <1>9, <1>10, <1>11, <1>c, <1>e
     DEF WorkerStep

(* Every step of any thread keeps queued spans noticed. *)
LEMMA QueuedIsNoticedStep ==
    ProcInv /\ PendingIsBacked /\ QueuedIsNoticed /\ [Next]_vars => QueuedIsNoticed'
<1> SUFFICES ASSUME ProcInv, PendingIsBacked, QueuedIsNoticed, [Next]_vars,
                    ScheduleMode = "kOnEnd", \A f \in Flushers : ~late'[f], spans' # {}
             PROVE  WakeUnderWay' \/ Looking'
  BY DEF QueuedIsNoticed
<1>a. WCTypeOK /\ late \in [Flushers \cup Closers -> BOOLEAN]
  BY DEF ProcInv, CloseTypeOK
<1>b. \A f \in Flushers : ~late[f]
  <2>1. ASSUME NEW t \in Flushers \cup Closers, Expire(t)
        PROVE  \A f \in Flushers : late[f] => late'[f]
    BY <1>a, <2>1 DEF Expire
  <2>2. (\E t \in Flushers \cup Closers : Expire(t)) \/ late' = late
    BY NextCases, PushFrame, FlushFrame, CloseFrame, WorkerFrame
       DEF othersDuringPush, othersDuringFlush, othersDuringClose, othersDuringWork,
           NotifyStep, vars
  <2> QED
    BY <2>1, <2>2
<1>c. Spans \subseteq Threads /\ Flushers \subseteq Threads /\ Closers \subseteq Threads
  BY ProcessorAssumption
<1>1. ASSUME spans' = spans, w' = w, WakeUnderWay => WakeUnderWay'
      PROVE  WakeUnderWay' \/ Looking'
  BY <1>1, <1>b DEF QueuedIsNoticed, Looking
<1>2. ASSUME NEW s \in Spans, PushAction(s) PROVE WakeUnderWay' \/ Looking'
  <2>1. CASE PushAccepted(s)
    <3>1. CallNotify(s)
      BY <2>1 DEF PushAccepted, ShouldNotify
    <3>2. ntf'[s] # "quiet"
      BY <1>a, <1>c, <3>1 DEF CallNotify, NotifyAt, WCTypeOK
    <3> QED
      BY <1>c, <3>2 DEF WakeUnderWay
  <2>2. CASE OnEnd(s) \/ PushGoesOn(s) \/ PushRefused(s)
    <3>1. spans' = spans /\ w' = w
      BY <2>2 DEF OnEnd, PushGoesOn, PushRefused, Reserve, CheckClosed, EnqueueFails,
                  Undo, othersDuringPush
    <3>2. CallNotify(s) \/ UNCHANGED wcVars
      BY <2>2 DEF OnEnd, PushGoesOn, PushRefused
    <3> QED
      BY <1>1, <1>a, <1>c, <3>1, <3>2, CallKeepsWake
  <2> QED
    BY <1>2, <2>1, <2>2 DEF PushAction
<1>3. ASSUME NEW t \in Threads, NotifyStep(t) PROVE WakeUnderWay'
  BY <1>3, <1>a, NotifyKeepsWake DEF NotifyStep
<1>4. ASSUME NEW f \in Flushers, FlushAction(f) PROVE WakeUnderWay' \/ Looking'
  <2>1. spans' = spans /\ w' = w
    BY <1>4, FlushFrame DEF othersDuringFlush, sqVars
  <2>2. CallForceNotify(f) \/ UNCHANGED wcVars
    BY <1>4 DEF FlushAction, FlushNegativeTimeout, FlushEnter, FlushStep,
         FlushCheckShutdown, FlushCheckStopped, EarlyExitIf, FlushEnqueue,
         FlushEnqueueFails, FlushThrows, FlushLeave, FlushLast, FlushReadEmpty, FlushWake,
         FlushAwait
  <2> QED
    BY <1>1, <1>a, <1>c, <2>1, <2>2, CallKeepsWake
<1>5. ASSUME NEW c \in Closers, CloseAction(c) PROVE WakeUnderWay' \/ Looking'
  <2>1. spans' = spans /\ w' = w
    BY <1>5, CloseFrame
       DEF othersDuringClose, CloseAction, CloseBegin, CloseStep, CloseClaim, CloseJoin,
           ClosePoll, CloseReadDrain, CloseExporterClaim, CloseExporter, CloseReturn,
           RequestShutdown, sqVars
  <2>2. CallForceNotify(c) \/ UNCHANGED wcVars
    BY <1>5 DEF CloseAction, CloseBegin, CloseStep, CloseClaim, CloseJoin, ClosePoll,
         CloseReadDrain, CloseExporterClaim, CloseExporter, CloseReturn
  <2> QED
    BY <1>1, <1>a, <1>c, <2>1, <2>2, CallKeepsWake
<1>6. CASE (\E t \in Flushers \cup Closers : Expire(t)) \/ UNCHANGED vars
  <2>1. spans' = spans /\ w' = w /\ UNCHANGED wcVars
    BY <1>6 DEF Expire, vars, sqVars
  <2>2. WakeUnderWay => WakeUnderWay'
    BY <2>1 DEF wcVars, WakeUnderWay
  <2> QED
    BY <1>1, <2>1, <2>2
<1>7. CASE WorkerStep
  BY <1>7, <1>b, WorkerNotices
<1> QED
  BY <1>2, <1>3, <1>4, <1>5, <1>6, <1>7, NextCases

(* In mode kOnEnd no accepted span waits for the timer, for any number of    *)
(* producers that notify at once and although notify() skips its release     *)
(* when another is pending.                                                  *)
THEOREM OnEndIsPrompt == Spec => []OnEndWakeup
<1>1. Init => QueuedIsNoticed
  BY DEF Init, SQInit, QueuedIsNoticed
<1>2. QueuedIsNoticed => OnEndWakeup
  BY DEF QueuedIsNoticed, WakeUnderWay, Looking, OnEndWakeup
<1> QED
  BY <1>1, <1>2, ProcInvariant, ImplementsWorkerControl, NoLostWakeup,
     QueuedIsNoticedStep, PTL DEF Spec

=============================================================================
