----------------------------- MODULE SpanQueue -----------------------------
(***************************************************************************)
(* BatchSpanProcessor::SpanQueue (kernel/batch_span_processor.cc): a       *)
(* moodycamel::ConcurrentQueue of spans beside an atomic counter `size`    *)
(* that admits at most `capacity` spans.  Any number of threads are inside *)
(* tryPush, one call per span; the worker thread alone is inside           *)
(* tryPopBulk.  The counter and the queue are two variables of the program *)
(* and no lock ties them, so every atomic access is a step of its own.     *)
(***************************************************************************)
EXTENDS Integers, FiniteSets

CONSTANTS Spans,          \* the spans handed to tryPush, each at most once
          QueueCapacity,  \* BatchSpanProcessorConfig::queue_capacity as given
          MaxBatchSize,   \* BatchSpanProcessorConfig::max_batch_size as given
          AllocationMayFail  \* whether ConcurrentQueue::enqueue may run out of memory

ASSUME SpanQueueAssumption ==
    /\ IsFiniteSet(Spans)
    /\ QueueCapacity \in Nat /\ MaxBatchSize \in Nat
    /\ AllocationMayFail \in BOOLEAN

(* normalizeConfig: a capacity of at least 1, a batch between 1 and it. *)
Capacity == IF QueueCapacity < 1 THEN 1 ELSE QueueCapacity

MaxBatch == IF MaxBatchSize < 1 THEN 1
            ELSE IF MaxBatchSize > Capacity THEN Capacity ELSE MaxBatchSize

VARIABLES
    size,               \* SpanQueue::size
    spans,              \* the contents of SpanQueue::spans (order is not kept:
                        \* the queue promises none between producers)
    push,               \* push[s]: where the call tryPush(s) is
    previous,           \* previous[s]: what its fetch_add returned (0 outside)
    shutdownRequested,  \* WorkerControl::shutdownRequested, passed by reference
    pop,                \* where the worker is in tryPopBulk
    batch               \* the spans of the worker's batch vector

sqVars == <<size, spans, push, previous, shutdownRequested, pop, batch>>

PushState == {"new",                    \* tryPush not called yet
              "reserved",               \* size incremented, below capacity
              "enqueue",                \* has read shutdownRequested = FALSE
              "undoFull", "undoClosed", \* about to decrement size again
              "accepted", "full", "closed"} \* returned kAccepted, kFull, kClosed

PopState == {"idle",       \* not in tryPopBulk, the batch is empty
             "dequeue",    \* has read size # 0
             "subtract",   \* has dequeued the batch, size not yet decremented
             "delivered"}  \* tryPopBulk returned, the worker holds the batch

SQTypeOK ==
    /\ size \in Nat
    /\ spans \in SUBSET Spans
    /\ push \in [Spans -> PushState]
    /\ previous \in [Spans -> Nat]
    /\ shutdownRequested \in BOOLEAN
    /\ pop \in PopState
    /\ batch \in SUBSET Spans

SQInit ==
    /\ size = 0
    /\ spans = {}
    /\ push = [s \in Spans |-> "new"]
    /\ previous = [s \in Spans |-> 0]
    /\ shutdownRequested = FALSE
    /\ pop = "idle"
    /\ batch = {}

----------------------------------------------------------------------------
(* SpanQueue::tryPush, one action per atomic access. *)

PushAt(s, from, to) ==
    /\ push[s] = from
    /\ push' = [push EXCEPT ![s] = to]

ConsumerIdle == UNCHANGED <<pop, batch>>

(* The definitions with a double underscore are deliberate mistakes: each is *)
(* a plausible bug in the definition that follows, kept to show that the     *)
(* properties notice it.  The specification uses none of them.               *)
Reserve__OneTooMany(s) ==
    /\ PushAt(s, "new", IF size > Capacity THEN "undoFull" ELSE "reserved")
    /\ previous' = [previous EXCEPT ![s] = size]
    /\ size' = size + 1
    /\ UNCHANGED <<spans, shutdownRequested>> /\ ConsumerIdle

(* size.fetch_add(1) and the comparison of its result with capacity. *)
Reserve(s) ==
    /\ PushAt(s, "new", IF size >= Capacity THEN "undoFull" ELSE "reserved")
    /\ previous' = [previous EXCEPT ![s] = size]
    /\ size' = size + 1
    /\ UNCHANGED <<spans, shutdownRequested>> /\ ConsumerIdle

CheckClosed__Ignored(s) ==
    /\ PushAt(s, "reserved", "enqueue")
    /\ UNCHANGED <<size, spans, previous, shutdownRequested>> /\ ConsumerIdle

(* shutdownRequested.load(). *)
CheckClosed(s) ==
    /\ PushAt(s, "reserved", IF shutdownRequested THEN "undoClosed" ELSE "enqueue")
    /\ UNCHANGED <<size, spans, previous, shutdownRequested>> /\ ConsumerIdle

(* spans.enqueue(span) succeeds; the caller reads queuedCount = previous + 1. *)
Enqueue(s) ==
    /\ PushAt(s, "enqueue", "accepted")
    /\ spans' = spans \cup {s}
    /\ previous' = [previous EXCEPT ![s] = 0]
    /\ UNCHANGED <<size, shutdownRequested>> /\ ConsumerIdle

(* The failed branch does not give the unit back. *)
EnqueueFails__NotUndone(s) ==
    /\ AllocationMayFail
    /\ PushAt(s, "enqueue", "full")
    /\ UNCHANGED <<size, spans, previous, shutdownRequested>> /\ ConsumerIdle

(* spans.enqueue(span) cannot allocate a block. *)
EnqueueFails(s) ==
    /\ AllocationMayFail
    /\ PushAt(s, "enqueue", "undoFull")
    /\ UNCHANGED <<size, spans, previous, shutdownRequested>> /\ ConsumerIdle

(* kClosed returns without the fetch_sub. *)
Undo__NotWhenClosed(s) ==
    /\ \/ PushAt(s, "undoFull", "full") /\ size' = size - 1
       \/ PushAt(s, "undoClosed", "closed") /\ size' = size
    /\ previous' = [previous EXCEPT ![s] = 0]
    /\ UNCHANGED <<spans, shutdownRequested>> /\ ConsumerIdle

(* size.fetch_sub(1), then return kFull or kClosed. *)
Undo(s) ==
    /\ \/ PushAt(s, "undoFull", "full")
       \/ PushAt(s, "undoClosed", "closed")
    /\ size' = size - 1
    /\ previous' = [previous EXCEPT ![s] = 0]
    /\ UNCHANGED <<spans, shutdownRequested>> /\ ConsumerIdle

----------------------------------------------------------------------------
(* SpanQueue::tryPopBulk, called by the worker with maxCount = MaxBatch > 0. *)

PopAt(from, to) == pop = from /\ pop' = to

ProducersIdle == UNCHANGED <<push, previous, shutdownRequested>>

(* size.load() = 0: return 0. *)
PopSeesEmpty ==
    /\ PopAt("idle", "idle")
    /\ size = 0
    /\ UNCHANGED <<size, spans, batch>> /\ ProducersIdle

(* size.load() # 0: go on to the queue. *)
PopSeesWork ==
    /\ PopAt("idle", "dequeue")
    /\ size # 0
    /\ UNCHANGED <<size, spans, batch>> /\ ProducersIdle

(* The batch is copied out of the queue and not removed. *)
Dequeue__Peeks ==
    /\ PopAt("dequeue", "subtract")
    /\ \E b \in SUBSET spans : b # {} /\ Cardinality(b) <= MaxBatch /\ batch' = b
    /\ UNCHANGED <<size, spans>> /\ ProducersIdle

(* spans.try_dequeue_bulk returns what it found, at most maxCount.  Spans    *)
(* enqueued while it walks over the producers may or may not be among them.  *)
Dequeue ==
    /\ PopAt("dequeue", "subtract")
    /\ \E b \in SUBSET spans :
          /\ b # {} /\ Cardinality(b) <= MaxBatch
          /\ batch' = b
          /\ spans' = spans \ b
    /\ UNCHANGED size /\ ProducersIdle

(* spans.try_dequeue_bulk finds every producer empty (size counts a push   *)
(* that has not reached the queue): return 0.                              *)
DequeueNothing ==
    /\ PopAt("dequeue", "idle")
    /\ spans = {}
    /\ UNCHANGED <<size, spans, batch>> /\ ProducersIdle

(* size.fetch_sub(count), return count. *)
Subtract ==
    /\ PopAt("subtract", "delivered")
    /\ size' = size - Cardinality(batch)
    /\ UNCHANGED <<spans, batch>> /\ ProducersIdle

(* The caller of tryPopBulk is done with the batch vector. *)
Deliver ==
    /\ PopAt("delivered", "idle")
    /\ batch' = {}
    /\ UNCHANGED <<size, spans>> /\ ProducersIdle

(* BatchSpanProcessor::shutdown stores TRUE; nothing ever stores FALSE. *)
RequestShutdown ==
    /\ shutdownRequested' = TRUE
    /\ UNCHANGED <<size, spans, push, previous>> /\ ConsumerIdle

TryPush(s) ==
    Reserve(s) \/ CheckClosed(s) \/ Enqueue(s) \/ EnqueueFails(s) \/ Undo(s)

TryPopBulk ==
    PopSeesEmpty \/ PopSeesWork \/ Dequeue \/ DequeueNothing \/ Subtract

SQNext == (\E s \in Spans : TryPush(s)) \/ TryPopBulk \/ Deliver \/ RequestShutdown

SQSpec == SQInit /\ [][SQNext]_sqVars

----------------------------------------------------------------------------
(* Pushes that hold one unit of size without a span in the queue. *)
Reserving == {s \in Spans : push[s] \in {"reserved", "enqueue", "undoFull", "undoClosed"}}

(* The pushes among them that may still enqueue. *)
Admitted == {s \in Spans : push[s] \in {"reserved", "enqueue"}}

(* Dequeued spans that size still counts. *)
Unsubtracted == IF pop = "subtract" THEN batch ELSE {}

(* size never drifts from what it counts: the pushes in flight, the queued  *)
(* spans and the batch tryPopBulk has not subtracted yet.  The undo of a    *)
(* refused push and the bulk fetch_sub must balance in every interleaving;  *)
(* an imbalance would leave the worker waiting for a queue that never       *)
(* empties, or wrap the unsigned counter.                                   *)
SizeAccounting ==
    size = Cardinality(Reserving) + Cardinality(spans) + Cardinality(Unsubtracted)

(* queue_capacity is a hard bound: the queued spans, with the pushes that   *)
(* may still enqueue, never exceed it, although the counter and the queue   *)
(* are updated in separate steps and concurrent refusals overshoot size.    *)
CapacityBound == Cardinality(spans) + Cardinality(Admitted) <= Capacity

(* A span is where its push left it: in the queue or in the worker's batch  *)
(* only after tryPush accepted it, and never in both (exported twice).      *)
NoDuplicate ==
    /\ spans \cap batch = {}
    /\ \A s \in spans \cup batch : push[s] = "accepted"
    /\ batch # {} <=> pop \in {"subtract", "delivered"}

(* Nothing can enter the queue any more. *)
Sealed ==
    /\ shutdownRequested
    /\ spans = {}
    /\ \A s \in Spans : push[s] # "enqueue"

(* The test the worker stops on: once shutdown is requested, reading         *)
(* size = 0 means that the queue is sealed, although a push may have read    *)
(* shutdownRequested = FALSE before and may be about to enqueue.             *)
EmptySeals == shutdownRequested /\ size = 0 => Sealed

(* ... and a sealed queue stays sealed, whatever the producers do next. *)
StaysSealed == [][Sealed => Sealed']_sqVars

(* Refused pushes that have not given their unit of size back yet. *)
Refused == {s \in Spans : push[s] \in {"undoFull", "undoClosed"}}

(* The room that is really taken: queued spans, pushes that may still        *)
(* enqueue, and the batch being popped.                                      *)
RoomTaken == Cardinality(spans) + Cardinality(Admitted) + Cardinality(Unsubtracted)

(* A span is dropped for lack of room with capacity to spare only while      *)
(* another refusal is being undone: refusals leave nothing behind that would *)
(* go on shrinking the queue.                                                *)
LoneDropOnlyWhenFull ==
    [][\A s \in Spans : push[s] = "new" /\ push'[s] = "undoFull" /\ Refused = {}
          => RoomTaken >= Capacity]_sqVars

(* What batch_span_processor.h:38, 48, 69 and 90 say: a span is dropped when *)
(* the queue is full.  The code also drops spans on account of refusals that *)
(* tryPush has counted in size and not undone yet, even over an empty queue. *)
DocDropOnlyWhenFull ==
    [][\A s \in Spans : push[s] = "new" /\ push'[s] = "undoFull"
          => RoomTaken >= Capacity]_sqVars

=============================================================================
