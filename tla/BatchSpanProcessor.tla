------------------------ MODULE BatchSpanProcessor ------------------------
(***************************************************************************)
(* BatchSpanProcessor (kernel/batch_span_processor.cc): producers end      *)
(* spans (onEnd), callers flush (forceFlush) and close (shutdown, also run *)
(* by the destructor), and one worker thread drains the SpanQueue into the *)
(* exporter.  The module composes SpanQueue and WorkerControl: an action   *)
(* of this module is one atomic access of one thread, and where it touches *)
(* the queue or the wake-up signal it is that component's action.          *)
(*                                                                         *)
(* Every span of Spans is sampled (onEnd returns at once for the others),  *)
(* and the processor has an exporter.                                      *)
(***************************************************************************)
EXTENDS SpanQueue, WorkerControl

CONSTANTS Flushers,      \* calls of forceFlush
          Closers,       \* calls of shutdown
          ScheduleMode,  \* BatchSpanProcessorConfig::schedule_mode
          ExporterSays,  \* the results the exporter's calls may have
          None

ASSUME ProcessorAssumption ==
    /\ Threads = Spans \cup Flushers \cup Closers
    /\ Spans \cap Flushers = {} /\ Spans \cap Closers = {}
    /\ Flushers \cap Closers = {}
    /\ IsFiniteSet(Flushers)
    /\ None \notin Flushers
    /\ ExporterSays \in SUBSET BOOLEAN /\ ExporterSays # {}
    /\ ScheduleMode \in {"kTimed", "kOnEnd", "kBatchSize"}

VARIABLES
    droppedSpans,       \* m_droppedSpans
    fpc,                \* fpc[f]: where the call f of forceFlush is
    path,               \* path[f]: how it leaves the activeFlushCallers section
    before,             \* before[f]: the spans accepted when f was called (history)
    active,             \* WorkerControl::activeFlushCallers
    requests,           \* WorkerControl::flushRequests, one request per caller
    answer,             \* answer[f]: FlushRequest::done and ::ok
    result,             \* result[f]: what forceFlush returned
    cpc,                \* cpc[c]: where the call c of shutdown is
    cok,                \* cok[c]: its local `ok`, its result once done
    joinClaimed, exporterShutdown, shutdownDrainOk, workerStopped,
    exporterClosed,     \* SpanExporter::shutdown has been called
    late,               \* late[t]: the deadline of call t has passed
    w,                  \* the worker thread's position and locals
    exported, failed    \* spans exportSpans was given, by its result (history)

flushVars == <<fpc, path, before, active, result>>
closeVars == <<cpc, cok, joinClaimed, exporterShutdown, exporterClosed>>
stopVars == <<shutdownDrainOk, workerStopped>>
handVars == <<exported, failed>>

vars == <<sqVars, wcVars, droppedSpans, flushVars, requests, answer,
          closeVars, stopVars, late, w, handVars>>

Outcome == {"none", "true", "false"}

FlushState == {"idle", "checkShutdown", "checkStopped", "enqueue", "leave",
               "last", "readEmpty", "wake", "await", "done"}

CloseState == {"idle", "claim", "join", "poll", "readDrain", "exporter",
               "closeExporter", "finish", "done"}

WorkerState == {"loop", "load", "requests", "deadline", "pop", "idleCheck",
                "nap", "drained", "answer", "active",
                "lastEmpty", "finalFlush", "stop", "stopped", "ready", "readyLoop"}

(* The locals of workerLoop and of its lambdas.  site is the call of       *)
(* completeFlushRequests in progress, drain the loop that calls drainQueue. *)
WorkerLocals ==
    [pc : WorkerState,
     elapsed : BOOLEAN,                      \* intervalElapsed
     sawShutdown : BOOLEAN,                  \* shutdownRequested, as loaded
     site : {"top", "drained", "exit"},
     any : BOOLEAN,                          \* completedAny
     request : Flushers \cup {None},         \* the request being completed
     drain : {"ready", "flush", "shutdown"},
     exportedAny : BOOLEAN,
     ok : BOOLEAN,                           \* ok of drainUntilIdle and its caller
     shutdownOk : BOOLEAN]

(* The top of the loop: the locals of the last iteration are out of scope. *)
LoopTop ==
    [pc |-> "loop", elapsed |-> FALSE, sawShutdown |-> FALSE, site |-> "top",
     any |-> FALSE, request |-> None, drain |-> "ready", exportedAny |-> FALSE,
     ok |-> TRUE, shutdownOk |-> TRUE]

FlushTypeOK ==
    /\ fpc \in [Flushers -> FlushState]
    /\ path \in [Flushers -> {"none", "early", "queued", "failed", "thrown"}]
    /\ before \in [Flushers -> SUBSET Spans]
    /\ active \in Nat
    /\ requests \in SUBSET Flushers
    /\ answer \in [Flushers -> Outcome]
    /\ result \in [Flushers -> Outcome]

CloseTypeOK ==
    /\ cpc \in [Closers -> CloseState]
    /\ cok \in [Closers -> BOOLEAN]
    /\ joinClaimed \in BOOLEAN /\ exporterShutdown \in BOOLEAN
    /\ exporterClosed \in BOOLEAN
    /\ late \in [Flushers \cup Closers -> BOOLEAN]

WorkerTypeOK ==
    /\ w \in WorkerLocals
    /\ shutdownDrainOk \in BOOLEAN /\ workerStopped \in BOOLEAN
    /\ exported \in SUBSET Spans /\ failed \in SUBSET Spans

(* Types; the counters size, signal, droppedSpans and active never go below *)
(* zero.                                                                    *)
BSPTypeOK ==
    /\ SQTypeOK /\ WCTypeOK
    /\ droppedSpans \in Nat
    /\ FlushTypeOK /\ CloseTypeOK /\ WorkerTypeOK

Init ==
    /\ SQInit /\ WCInit
    /\ droppedSpans = 0
    /\ fpc = [f \in Flushers |-> "idle"]
    /\ path = [f \in Flushers |-> "none"]
    /\ before = [f \in Flushers |-> {}]
    /\ active = 0
    /\ requests = {}
    /\ answer = [f \in Flushers |-> "none"]
    /\ result = [f \in Flushers |-> "none"]
    /\ cpc = [c \in Closers |-> "idle"]
    /\ cok = [c \in Closers |-> TRUE]
    /\ joinClaimed = FALSE /\ exporterShutdown = FALSE
    /\ shutdownDrainOk = TRUE /\ workerStopped = FALSE
    /\ exporterClosed = FALSE
    /\ late = [t \in Flushers \cup Closers |-> FALSE]
    /\ w = LoopTop
    /\ exported = {} /\ failed = {}

Handed == exported \cup failed

Accepted == {s \in Spans : push[s] = "accepted"}

----------------------------------------------------------------------------
(* onEnd(span): tryPush, then the switch on its result. *)

othersDuringPush == <<flushVars, requests, answer, closeVars, stopVars, late, w, handVars>>

(* The definitions with a double underscore are deliberate mistakes: each is *)
(* a plausible bug in the definition that follows, kept to show that the     *)
(* properties notice it.  The specification uses none of them.               *)

(* Notify only when the queue was empty. *)
ShouldNotify__FirstOnly(s) == ScheduleMode = "kOnEnd" /\ previous[s] = 0

(* The switch over schedule_mode, with queuedCount = previous + 1. *)
ShouldNotify(s) ==
    \/ ScheduleMode = "kOnEnd"
    \/ /\ ScheduleMode = "kBatchSize"
       /\ previous[s] + 1 >= MaxBatch
       /\ previous[s] < MaxBatch

OnEnd(s) ==
    /\ Reserve(s)
    /\ UNCHANGED <<wcVars, droppedSpans, othersDuringPush>>

PushGoesOn(s) ==
    /\ CheckClosed(s) \/ EnqueueFails(s)
    /\ UNCHANGED <<wcVars, droppedSpans, othersDuringPush>>

(* kAccepted: wake the worker if the schedule mode asks for it. *)
PushAccepted(s) ==
    /\ Enqueue(s)
    /\ IF ShouldNotify(s) THEN CallNotify(s) ELSE UNCHANGED wcVars
    /\ UNCHANGED <<droppedSpans, othersDuringPush>>

(* kFull counts a drop, kClosed wakes the worker. *)
PushRefused(s) ==
    /\ Undo(s)
    /\ IF push[s] = "undoFull"
         THEN droppedSpans' = droppedSpans + 1 /\ UNCHANGED wcVars
         ELSE CallNotify(s) /\ UNCHANGED droppedSpans
    /\ UNCHANGED othersDuringPush

(* The steps inside notify() and forceNotify(), whoever called. *)
NotifyStep(t) ==
    /\ Notifying(t)
    /\ UNCHANGED <<sqVars, droppedSpans, othersDuringPush>>

----------------------------------------------------------------------------
(* forceFlush(timeout). *)

FlushAt(f, from, to) ==
    /\ fpc[f] = from /\ ntf[f] = "quiet"
    /\ fpc' = [fpc EXCEPT ![f] = to]

othersDuringFlush == <<sqVars, droppedSpans, closeVars, stopVars, late, w, handVars>>

(* A negative timeout is refused before anything else. *)
FlushNegativeTimeout(f) ==
    /\ FlushAt(f, "idle", "done")
    /\ result' = [result EXCEPT ![f] = "false"]
    /\ UNCHANGED <<path, before, active, requests, answer, wcVars, othersDuringFlush>>

(* activeFlushCallers.fetch_add(1). *)
FlushEnter(f) ==
    /\ FlushAt(f, "idle", "checkShutdown")
    /\ active' = active + 1
    /\ before' = [before EXCEPT ![f] = Accepted]
    /\ UNCHANGED <<path, result, requests, answer, wcVars, othersDuringFlush>>

(* Take the early exit when `closing`, go on to `otherwise` when not. *)
EarlyExitIf(f, closing, from, otherwise) ==
    /\ FlushAt(f, from, IF closing THEN "leave" ELSE otherwise)
    /\ path' = IF closing THEN [path EXCEPT ![f] = "early"] ELSE path
    /\ UNCHANGED <<before, active, result, requests, answer, wcVars, othersDuringFlush>>

FlushCheckShutdown(f) == EarlyExitIf(f, shutdownRequested, "checkShutdown", "checkStopped")

FlushCheckStopped(f) == EarlyExitIf(f, workerStopped, "checkStopped", "enqueue")

(* flushRequests.enqueue(request). *)
FlushEnqueue(f) ==
    /\ FlushAt(f, "enqueue", "leave")
    /\ path' = [path EXCEPT ![f] = "queued"]
    /\ requests' = requests \cup {f}
    /\ UNCHANGED <<before, active, result, answer, wcVars, othersDuringFlush>>

(* The failed branch leaves the section twice. *)
FlushEnqueueFails__LeavesTwice(f) ==
    /\ AllocationMayFail
    /\ FlushAt(f, "enqueue", "leave")
    /\ path' = [path EXCEPT ![f] = "failed"]
    /\ active' = active - 1
    /\ UNCHANGED <<before, result, requests, answer, wcVars, othersDuringFlush>>

(* ... which may fail to allocate. *)
FlushEnqueueFails(f) ==
    /\ AllocationMayFail
    /\ FlushAt(f, "enqueue", "leave")
    /\ path' = [path EXCEPT ![f] = "failed"]
    /\ UNCHANGED <<before, active, result, requests, answer, wcVars, othersDuringFlush>>

(* make_shared<FlushRequest> cannot allocate the request: the exception      *)
(* leaves forceFlush, and nothing gives the unit of activeFlushCallers back. *)
FlushThrows(f) ==
    /\ AllocationMayFail
    /\ FlushAt(f, "enqueue", "done")
    /\ path' = [path EXCEPT ![f] = "thrown"]
    /\ UNCHANGED <<before, active, result, requests, answer, wcVars, othersDuringFlush>>

(* Where each path goes after the section. *)
AfterSection(f) ==
    CASE path[f] = "early"  -> "readEmpty"
      [] path[f] = "queued" -> "wake"
      [] OTHER              -> "done"

(* What it has returned there: only a failed enqueue returns at once. *)
SectionResult(f, to) ==
    result' = IF to = "done" THEN [result EXCEPT ![f] = "false"] ELSE result

(* activeFlushCallers.fetch_sub(1): the last caller out looks at            *)
(* shutdownRequested again.                                                 *)
FlushLeave(f) ==
    LET to == IF active = 1 THEN "last" ELSE AfterSection(f) IN
    /\ FlushAt(f, "leave", to)
    /\ active' = active - 1
    /\ SectionResult(f, to)
    /\ UNCHANGED <<path, before, requests, answer, wcVars, othersDuringFlush>>

(* The last caller out does not look at shutdownRequested again. *)
FlushLast__LooksAway(f) ==
    /\ FlushAt(f, "last", AfterSection(f))
    /\ SectionResult(f, AfterSection(f))
    /\ UNCHANGED <<path, before, active, requests, answer, wcVars, othersDuringFlush>>

FlushLast(f) ==
    /\ FlushAt(f, "last", AfterSection(f))
    /\ IF shutdownRequested THEN CallForceNotify(f) ELSE UNCHANGED wcVars
    /\ SectionResult(f, AfterSection(f))
    /\ UNCHANGED <<path, before, active, requests, answer, othersDuringFlush>>

(* The early exit leaves the queue to shutdown and promises its success. *)
FlushReadEmpty__Promises(f) ==
    /\ FlushAt(f, "readEmpty", "done")
    /\ result' = [result EXCEPT ![f] = "true"]
    /\ UNCHANGED <<path, before, active, requests, answer, wcVars, othersDuringFlush>>

(* The early exit returns m_queue->empty(). *)
FlushReadEmpty(f) ==
    /\ FlushAt(f, "readEmpty", "done")
    /\ result' = [result EXCEPT ![f] = IF size = 0 THEN "true" ELSE "false"]
    /\ UNCHANGED <<path, before, active, requests, answer, wcVars, othersDuringFlush>>

FlushWake(f) ==
    /\ FlushAt(f, "wake", "await")
    /\ CallForceNotify(f)
    /\ UNCHANGED <<path, before, active, result, requests, answer, othersDuringFlush>>

(* done.try_acquire_until(deadline) and the load of ok. *)
FlushAwait(f) ==
    /\ FlushAt(f, "await", "done")
    /\ \/ answer[f] # "none" /\ result' = [result EXCEPT ![f] = answer[f]]
       \/ late[f] /\ result' = [result EXCEPT ![f] = "false"]
    /\ UNCHANGED <<path, before, active, requests, answer, wcVars, othersDuringFlush>>

(* The steps of a call that has begun. *)
FlushStep(f) ==
    \/ FlushCheckShutdown(f) \/ FlushCheckStopped(f) \/ FlushEnqueue(f)
    \/ FlushEnqueueFails(f) \/ FlushThrows(f) \/ FlushLeave(f) \/ FlushLast(f)
    \/ FlushReadEmpty(f) \/ FlushWake(f) \/ FlushAwait(f)

----------------------------------------------------------------------------
(* shutdown(timeout). *)

CloseAt(c, from, to) ==
    /\ cpc[c] = from /\ ntf[c] = "quiet"
    /\ cpc' = [cpc EXCEPT ![c] = to]

othersDuringClose == <<droppedSpans, flushVars, requests, answer, stopVars, late, w, handVars>>

(* shutdownRequested.store(true), then forceNotify(). *)
CloseBegin(c) ==
    /\ CloseAt(c, "idle", "claim")
    /\ RequestShutdown
    /\ CallForceNotify(c)
    /\ UNCHANGED <<cok, joinClaimed, exporterShutdown, exporterClosed, othersDuringClose>>

(* A caller that finds the join claimed does not wait for the worker. *)
CloseClaim__OthersGoOn(c) ==
    /\ CloseAt(c, "claim", IF joinClaimed THEN "readDrain" ELSE "join")
    /\ joinClaimed' = TRUE
    /\ UNCHANGED <<cok, exporterShutdown, exporterClosed, sqVars, wcVars, othersDuringClose>>

(* joinClaimed.exchange(true): the first caller joins, the others poll. *)
CloseClaim(c) ==
    /\ CloseAt(c, "claim", IF joinClaimed THEN "poll" ELSE "join")
    /\ joinClaimed' = TRUE
    /\ UNCHANGED <<cok, exporterShutdown, exporterClosed, sqVars, wcVars, othersDuringClose>>

(* m_worker.join() has no deadline. *)
CloseJoin(c) ==
    /\ CloseAt(c, "join", "readDrain")
    /\ w.pc = "stopped"
    /\ UNCHANGED <<cok, joinClaimed, exporterShutdown, exporterClosed,
                   sqVars, wcVars, othersDuringClose>>

(* The polling loop ends on workerStopped or past the deadline. *)
ClosePoll(c) ==
    /\ CloseAt(c, "poll", "readDrain")
    /\ workerStopped \/ late[c]
    /\ cok' = [cok EXCEPT ![c] = workerStopped]
    /\ UNCHANGED <<joinClaimed, exporterShutdown, exporterClosed,
                   sqVars, wcVars, othersDuringClose>>

(* shutdownDrainOk.load(). *)
CloseReadDrain(c) ==
    /\ CloseAt(c, "readDrain", "exporter")
    /\ cok' = [cok EXCEPT ![c] = shutdownDrainOk /\ cok[c]]
    /\ UNCHANGED <<joinClaimed, exporterShutdown, exporterClosed,
                   sqVars, wcVars, othersDuringClose>>

(* exporterShutdown.exchange(true). *)
CloseExporterClaim(c) ==
    /\ CloseAt(c, "exporter", IF exporterShutdown THEN "finish" ELSE "closeExporter")
    /\ exporterShutdown' = TRUE
    /\ UNCHANGED <<cok, joinClaimed, exporterClosed, sqVars, wcVars, othersDuringClose>>

(* m_exporter->shutdown(timeout), with any result. *)
CloseExporter(c) ==
    /\ CloseAt(c, "closeExporter", "finish")
    /\ exporterClosed' = TRUE
    /\ \E success \in ExporterSays : cok' = [cok EXCEPT ![c] = success /\ cok[c]]
    /\ UNCHANGED <<joinClaimed, exporterShutdown, sqVars, wcVars, othersDuringClose>>

(* return ok && now <= deadline. *)
CloseReturn(c) ==
    /\ CloseAt(c, "finish", "done")
    /\ cok' = [cok EXCEPT ![c] = cok[c] /\ ~late[c]]
    /\ UNCHANGED <<joinClaimed, exporterShutdown, exporterClosed,
                   sqVars, wcVars, othersDuringClose>>

CloseStep(c) ==
    \/ CloseClaim(c) \/ CloseJoin(c) \/ ClosePoll(c) \/ CloseReadDrain(c)
    \/ CloseExporterClaim(c) \/ CloseExporter(c) \/ CloseReturn(c)

(* A deadline passes, for good.  Nobody else sees the clock, so it passes    *)
(* where someone is about to look: a caller that waits or returns, or the    *)
(* worker on the request.                                                    *)
Expire(t) ==
    /\ ~late[t]
    /\ \/ t \in Flushers /\ fpc[t] = "await" /\ ntf[t] = "quiet"
       \/ t \in Flushers /\ w.request = t /\ w.pc \in {"deadline", "drained"}
       \/ t \in Closers /\ cpc[t] \in {"poll", "finish"}
    /\ late' = [late EXCEPT ![t] = TRUE]
    /\ UNCHANGED <<sqVars, wcVars, droppedSpans, flushVars, requests, answer,
                   closeVars, stopVars, w, handVars>>

----------------------------------------------------------------------------
(* workerLoop. *)

othersDuringWork == <<droppedSpans, flushVars, closeVars, late>>

WorkerAt(from) == w.pc = from

(* waitFor(flush_interval) at the top of the loop, waitFor(1ms) in          *)
(* drainUntilIdle: both take tokens from the same semaphore.                *)
WorkerWaits ==
    /\ WorkerAt("loop") \/ WorkerAt("nap")
    /\ StartWait \/ Acquire
    /\ UNCHANGED <<w, sqVars, requests, answer, stopVars, handVars, othersDuringWork>>

WorkerWakes ==
    /\ \/ /\ WorkerAt("loop")
          /\ w' = [w EXCEPT !.pc = "load", !.elapsed = (waiter = "waiting")]
       \/ /\ WorkerAt("nap")
          /\ w' = [w EXCEPT !.pc = "deadline"]
    /\ ClearPending \/ TimeOut
    /\ UNCHANGED <<sqVars, requests, answer, stopVars, handVars, othersDuringWork>>

WorkerLoadShutdown ==
    /\ WorkerAt("load")
    /\ w' = [w EXCEPT !.pc = "requests", !.sawShutdown = shutdownRequested,
                      !.site = "top", !.any = FALSE]
    /\ UNCHANGED <<sqVars, wcVars, requests, answer, stopVars, handVars, othersDuringWork>>

(* completeFlushRequests: flushRequests.try_dequeue finds a request (in no  *)
(* particular order between callers) and completeFlushRequest begins.       *)
TakeRequest ==
    /\ WorkerAt("requests")
    /\ \E f \in requests :
          /\ requests' = requests \ {f}
          /\ w' = [w EXCEPT !.pc = "deadline", !.drain = "flush", !.request = f,
                            !.ok = TRUE, !.any = TRUE]
    /\ UNCHANGED <<sqVars, wcVars, answer, stopVars, handVars, othersDuringWork>>

(* ... finds none, and the caller of completeFlushRequests goes on: from    *)
(* the top of the loop to `continue`, to the shutdown drain or to the       *)
(* regular drain; after the shutdown drain to the exit test; in the exit    *)
(* test to `continue` or to the end.                                        *)
NoMoreRequests ==
    /\ WorkerAt("requests")
    /\ requests = {}
    /\ w' = CASE w.site = "drained" -> [w EXCEPT !.pc = "active"]
              [] w.site # "drained" /\ w.any -> LoopTop
              [] w.site = "exit" /\ ~w.any -> [w EXCEPT !.pc = "finalFlush"]
              [] w.site = "top" /\ ~w.any /\ w.sawShutdown ->
                    [w EXCEPT !.pc = "deadline", !.drain = "shutdown", !.ok = TRUE]
              [] OTHER -> [w EXCEPT !.pc = "ready"]
    /\ UNCHANGED <<sqVars, wcVars, requests, answer, stopVars, handVars, othersDuringWork>>

(* drainUntilIdle(deadline); the shutdown drain has no deadline. *)
PastDeadline == w.drain = "flush" /\ late[w.request]

DrainCheckDeadline ==
    /\ WorkerAt("deadline")
    /\ w' = IF PastDeadline THEN [w EXCEPT !.pc = "drained"]
                            ELSE [w EXCEPT !.pc = "pop", !.exportedAny = FALSE]
    /\ UNCHANGED <<sqVars, wcVars, requests, answer, stopVars, handVars, othersDuringWork>>

(* drainQueue returned 0: both loops break. *)
DrainFindsNothing ==
    /\ WorkerAt("pop")
    /\ PopSeesEmpty \/ DequeueNothing
    /\ w' = IF w.drain = "ready" THEN LoopTop ELSE [w EXCEPT !.pc = "idleCheck"]
    /\ UNCHANGED <<wcVars, requests, answer, stopVars, handVars, othersDuringWork>>

DrainPops ==
    /\ WorkerAt("pop")
    /\ PopSeesWork \/ Dequeue \/ Subtract
    /\ UNCHANGED <<w, wcVars, requests, answer, stopVars, handVars, othersDuringWork>>

(* exportBatch: exportSpans answers as it likes; a failed batch is not      *)
(* retried.  Nothing catches an exception here: one would end the program,  *)
(* so that an exporter is taken to answer.                                  *)
ExportBatch ==
    /\ WorkerAt("pop")
    /\ Deliver
    /\ \E success \in ExporterSays :
          /\ exported' = IF success THEN exported \cup batch ELSE exported
          /\ failed' = IF success THEN failed ELSE failed \cup batch
          /\ w' = IF w.drain = "ready" THEN [w EXCEPT !.pc = "readyLoop"]
                  ELSE [w EXCEPT !.exportedAny = TRUE, !.ok = success /\ w.ok]
    /\ UNCHANGED <<wcVars, requests, answer, stopVars, othersDuringWork>>

(* if (m_queue->empty()) break; if (!exportedAny) waitFor(1ms). *)
DrainCheckIdle ==
    /\ WorkerAt("idleCheck")
    /\ w' = [w EXCEPT !.pc = IF size = 0 THEN "drained"
                             ELSE IF w.exportedAny THEN "deadline" ELSE "nap"]
    /\ UNCHANGED <<sqVars, wcVars, requests, answer, stopVars, handVars, othersDuringWork>>

(* The deadline is not looked at again. *)
DrainReturns__IgnoresDeadline ==
    /\ WorkerAt("drained")
    /\ w' = IF w.drain = "flush"
              THEN [w EXCEPT !.pc = "answer", !.exportedAny = FALSE]
              ELSE [w EXCEPT !.pc = "requests", !.shutdownOk = w.ok, !.ok = TRUE,
                             !.drain = "ready", !.exportedAny = FALSE, !.site = "drained",
                             !.any = FALSE]
    /\ UNCHANGED <<sqVars, wcVars, requests, answer, stopVars, handVars, othersDuringWork>>

(* return ok && now <= deadline, to completeFlushRequest or to the loop. *)
DrainReturns ==
    /\ WorkerAt("drained")
    /\ LET drainOk == w.ok /\ ~PastDeadline IN
       w' = IF w.drain = "flush"
              THEN [w EXCEPT !.pc = "answer", !.ok = drainOk, !.exportedAny = FALSE]
              ELSE [w EXCEPT !.pc = "requests", !.shutdownOk = drainOk, !.ok = TRUE,
                             !.drain = "ready", !.exportedAny = FALSE, !.site = "drained",
                             !.any = FALSE]
    /\ UNCHANGED <<sqVars, wcVars, requests, answer, stopVars, handVars, othersDuringWork>>

(* m_exporter->forceFlush(remaining), request->ok.store, done.release. *)
AnswerRequest ==
    /\ WorkerAt("answer")
    /\ \E success \in ExporterSays :
          answer' = [answer EXCEPT ![w.request] = IF success /\ w.ok THEN "true" ELSE "false"]
    /\ w' = [w EXCEPT !.pc = "requests", !.drain = "ready", !.request = None, !.ok = TRUE]
    /\ UNCHANGED <<sqVars, wcVars, requests, stopVars, handVars, othersDuringWork>>

(* The exit test without activeFlushCallers, or without the queue. *)
ExitCheckActive__Skipped ==
    /\ WorkerAt("active")
    /\ w' = [w EXCEPT !.pc = "lastEmpty"]
    /\ UNCHANGED <<sqVars, wcVars, requests, answer, stopVars, handVars, othersDuringWork>>

(* The exit test: activeFlushCallers = 0, then an empty queue, then no      *)
(* flush request left.                                                      *)
ExitCheckActive ==
    /\ WorkerAt("active")
    /\ w' = IF active = 0 THEN [w EXCEPT !.pc = "lastEmpty"] ELSE LoopTop
    /\ UNCHANGED <<sqVars, wcVars, requests, answer, stopVars, handVars, othersDuringWork>>

ExitCheckEmpty ==
    /\ WorkerAt("lastEmpty")
    /\ w' = IF size = 0 THEN [w EXCEPT !.pc = "requests", !.site = "exit", !.any = FALSE]
                        ELSE LoopTop
    /\ UNCHANGED <<sqVars, wcVars, requests, answer, stopVars, handVars, othersDuringWork>>

(* m_exporter->forceFlush(0), shutdownDrainOk.store. *)
FinalFlush ==
    /\ WorkerAt("finalFlush")
    /\ \E success \in ExporterSays : shutdownDrainOk' = (success /\ w.shutdownOk)
    /\ w' = [LoopTop EXCEPT !.pc = "stop"]
    /\ UNCHANGED <<workerStopped, sqVars, wcVars, requests, answer, handVars, othersDuringWork>>

(* workerStopped.store(true), the thread ends. *)
WorkerStop ==
    /\ WorkerAt("stop")
    /\ workerStopped' = TRUE
    /\ w' = [w EXCEPT !.pc = "stopped"]
    /\ UNCHANGED <<shutdownDrainOk, sqVars, wcVars, requests, answer, handVars, othersDuringWork>>

(* The regular pass over the queue. *)
DrainPartial == w.elapsed \/ ScheduleMode = "kOnEnd"

ReadyCheck ==
    /\ WorkerAt("ready")
    /\ w' = IF ~DrainPartial /\ size < MaxBatch THEN LoopTop
                                               ELSE [w EXCEPT !.pc = "readyLoop"]
    /\ UNCHANGED <<sqVars, wcVars, requests, answer, stopVars, handVars, othersDuringWork>>

DrainReadyBatches ==
    /\ WorkerAt("readyLoop")
    /\ w' = IF size >= MaxBatch \/ (DrainPartial /\ size # 0)
              THEN [w EXCEPT !.pc = "pop", !.drain = "ready"]
              ELSE LoopTop
    /\ UNCHANGED <<sqVars, wcVars, requests, answer, stopVars, handVars, othersDuringWork>>

WorkerStep ==
    \/ WorkerWaits \/ WorkerWakes \/ WorkerLoadShutdown
    \/ TakeRequest \/ NoMoreRequests
    \/ DrainCheckDeadline \/ DrainFindsNothing \/ DrainPops \/ ExportBatch
    \/ DrainCheckIdle \/ DrainReturns \/ AnswerRequest
    \/ ExitCheckActive \/ ExitCheckEmpty \/ FinalFlush \/ WorkerStop
    \/ ReadyCheck \/ DrainReadyBatches

----------------------------------------------------------------------------
(* Every call has returned and the worker has ended. *)
Terminated ==
    /\ w.pc = "stopped"
    /\ \A s \in Spans : push[s] \in {"accepted", "full", "closed"}
    /\ \A f \in Flushers : fpc[f] = "done"
    /\ \A c \in Closers : cpc[c] = "done"
    /\ \A t \in Threads : ntf[t] = "quiet"
    /\ UNCHANGED vars

Next ==
    \/ \E s \in Spans : OnEnd(s) \/ PushGoesOn(s) \/ PushAccepted(s) \/ PushRefused(s)
    \/ \E t \in Threads : NotifyStep(t)
    \/ \E f \in Flushers : FlushNegativeTimeout(f) \/ FlushEnter(f) \/ FlushStep(f)
    \/ \E c \in Closers : CloseBegin(c) \/ CloseStep(c)
    \/ \E t \in Flushers \cup Closers : Expire(t)
    \/ WorkerStep
    \/ Terminated

Spec == Init /\ [][Next]_vars

(* A thread inside a call is scheduled again, waits end (the exporter's     *)
(* calls return, flush_interval passes).  No call is bound to start, and no *)
(* deadline to pass.                                                        *)
Fairness ==
    /\ WF_vars(WorkerStep)
    /\ \A s \in Spans :
          WF_vars(PushGoesOn(s) \/ PushAccepted(s) \/ PushRefused(s) \/ NotifyStep(s))
    /\ \A f \in Flushers : WF_vars(FlushStep(f) \/ NotifyStep(f))
    /\ \A c \in Closers : WF_vars(CloseStep(c) \/ NotifyStep(c))

FairSpec == Spec /\ Fairness

----------------------------------------------------------------------------
(* Every accepted span is in exactly one place: the queue, the worker's     *)
(* batch, or handed to the exporter once.                                   *)
ExportedOnce ==
    /\ Accepted = spans \cup batch \cup Handed
    /\ Cardinality(Accepted) = Cardinality(spans) + Cardinality(batch)
                                 + Cardinality(exported) + Cardinality(failed)

(* Graceful shutdown: once the worker has stopped, every span onEnd          *)
(* accepted has been handed to the exporter, and no push can still slip a    *)
(* span into the abandoned queue, even one that read shutdownRequested =     *)
(* FALSE just before the store.                                              *)
NoStrandedSpan == workerStopped => Sealed /\ batch = {} /\ Accepted \subseteq Handed

(* A forceFlush that races with shutdown is never forgotten: once the worker *)
(* has stopped every request it was sent has its answer and none can still   *)
(* be enqueued (the activeFlushCallers hand-shake).                          *)
NoLostFlush ==
    workerStopped =>
        /\ requests = {}
        /\ \A f \in Flushers :
              /\ fpc[f] # "enqueue"
              /\ path[f] = "queued" => answer[f] # "none"

(* A forceFlush the worker answers with true has handed to the exporter      *)
(* every span that was accepted before the call.                             *)
FlushCovers ==
    \A f \in Flushers :
        path[f] = "queued" /\ result[f] = "true" => before[f] \subseteq Handed

(* A shutdown that returns true found the worker stopped, hence every        *)
(* accepted span handed over, whichever caller joined and whichever polled.  *)
ShutdownMeansDrained ==
    \A c \in Closers :
        cpc[c] = "done" /\ cok[c] => workerStopped /\ Accepted \subseteq Handed

(* A forceFlush that returns true, by the worker's answer or by the early    *)
(* exit that races with shutdown, leaves no span accepted before it in the   *)
(* queue: each has been handed over or is in the batch the worker is about   *)
(* to hand over.                                                             *)
FlushTrueMeansTaken ==
    \A f \in Flushers : result[f] = "true" => before[f] \cap spans = {}

(* The exporter is closed after the worker has stopped, so that no batch     *)
(* meets a closed exporter, unless the deadline of a shutdown has passed     *)
(* (only one caller joins, and one may close the exporter).                  *)
ExporterClosedLast == exporterClosed => workerStopped \/ \E c \in Closers : late[c]

(* In mode kOnEnd no accepted span waits for the timer: when the worker      *)
(* sleeps with no token and no producer is on its way to notify it, the      *)
(* queue is empty.  (A flush whose deadline passes leaves its spans to the   *)
(* timer, which is what the guard on late excludes.)                         *)
OnEndWakeup ==
    ( /\ ScheduleMode = "kOnEnd"
      /\ \A f \in Flushers : ~late[f]
      /\ w.pc = "loop" /\ waiter = "waiting" /\ signal = 0
      /\ \A t \in Threads : ntf[t] = "quiet" )
    => spans = {}

(* forceFlush threw out of its activeFlushCallers section. *)
SectionLeaked == \E f \in Flushers : path[f] = "thrown"

(* Flush callers never leave a shutdown to the timer: when no span has been  *)
(* ended and the worker sleeps with no token and nobody about to notify it,  *)
(* some flush caller is still on its way out of the activeFlushCallers       *)
(* section, and will look at shutdownRequested as the last one does.         *)
ShutdownWakeup ==
    ( /\ shutdownRequested /\ \A s \in Spans : push[s] = "new"
      /\ w.pc = "loop" /\ waiter = "waiting" /\ signal = 0
      /\ \A t \in Threads : ntf[t] = "quiet" )
    => \/ \E f \in Flushers : fpc[f] \in {"checkShutdown", "checkStopped", "enqueue",
                                          "leave", "last", "wake"}
       \/ SectionLeaked

(* Everything ends: forceFlush returns even without its deadline, because   *)
(* the worker or the early exit serves it, and shutdown ends the worker,     *)
(* whatever producers and flush callers are under way, and although          *)
(* wake-ups can be consumed by others, and then returns.  Each call is made  *)
(* once, so it is enough that time and again none is under way.  After a     *)
(* forceFlush that threw (SectionLeaked), the flushes end all the same, and  *)
(* shutdown does not: LeakBlocksExit is about that.                          *)
CallsReturn ==
    []<>( /\ \A f \in Flushers : fpc[f] \in {"idle", "done"}
          /\ \/ SectionLeaked
             \/ /\ \A c \in Closers : cpc[c] \in {"idle", "done"}
                /\ shutdownRequested => workerStopped )

(* What the exemption stands for.  docs/plans/2026-05-19-galay-tracing-      *)
(* design.md:283-284 has shutdown stop the worker, and no destructor block   *)
(* for ever; but once a forceFlush has thrown the worker cannot stop: its    *)
(* exit test waits for activeFlushCallers = 0, and CloseJoin for the worker. *)
LeakBlocksExit == SectionLeaked => ~workerStopped

----------------------------------------------------------------------------
(* The processor as its users see it. *)
Fate == [s \in Spans |->
            CASE push[s] = "accepted" /\ s \in exported -> "exported"
              [] push[s] = "accepted" /\ s \in failed   -> "failed"
              [] push[s] = "accepted" /\ s \notin Handed -> "pending"
              [] push[s] = "full"   -> "dropped"
              [] push[s] = "closed" -> "refused"
              [] OTHER -> "new"]

Pipeline == INSTANCE SpanPipeline
                WITH fate <- Fate, closing <- shutdownRequested, stopped <- workerStopped,
                     Room <- Capacity + MaxBatch

(* BatchSpanProcessor implements SpanPipeline: whatever the interleaving, a *)
(* span is accepted or refused once, handed over once, with at most a batch *)
(* beyond queue_capacity pending, and never accepted after the worker's     *)
(* last look at the queue.                                                  *)
ImplementsPipeline == Pipeline!Spec

=============================================================================
