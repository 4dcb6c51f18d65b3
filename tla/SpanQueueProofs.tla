--------------------------- MODULE SpanQueueProofs ---------------------------
(***************************************************************************)
(* The span queue is correct for any number of spans, any capacity and any *)
(* batch size.  The inductive invariant is the conjunction of the type     *)
(* invariant, NoDuplicate, SizeAccounting and CapacityBound: size \in Nat  *)
(* needs the accounting (the counter is decremented), the accounting needs *)
(* NoDuplicate (a span leaves the push and enters the queue at once), and  *)
(* the bound needs the accounting (it is the counter that is compared).    *)
(***************************************************************************)
EXTENDS SpanQueue, FiniteSetTheorems, TLAPS

SQInv == SQTypeOK /\ NoDuplicate /\ SizeAccounting /\ CapacityBound

(* normalizeConfig leaves a capacity of at least 1 and a batch size between  *)
(* 1 and the capacity, whatever the configuration says.                      *)
LEMMA ConfigNormalized == Capacity \in Nat /\ Capacity >= 1 /\ MaxBatch \in 1..Capacity
BY SpanQueueAssumption DEF Capacity, MaxBatch

(* Every set of spans is finite, so that its cardinality is a number. *)
LEMMA SpanSets == ASSUME NEW S \in SUBSET Spans
                  PROVE  IsFiniteSet(S) /\ Cardinality(S) \in Nat
BY SpanQueueAssumption, FS_Subset, FS_CardinalityType

(* Adding a span to a set of spans adds one to its cardinality. *)
LEMMA CardAdd == ASSUME NEW S \in SUBSET Spans, NEW s, s \notin S
                 PROVE  Cardinality(S \cup {s}) = Cardinality(S) + 1
BY SpanSets, FS_AddElement

(* Removing a span from a set of spans takes one off its cardinality. *)
LEMMA CardRemove == ASSUME NEW S \in SUBSET Spans, NEW s \in S
                    PROVE  Cardinality(S \ {s}) = Cardinality(S) - 1
BY SpanSets, FS_RemoveElement

(* A set and a part of it: the cardinalities add up. *)
LEMMA CardSplit == ASSUME NEW S \in SUBSET Spans, NEW T \in SUBSET S
                   PROVE  Cardinality(S \ T) + Cardinality(T) = Cardinality(S)
<1>1. S \cap T = T /\ T \in SUBSET Spans
  OBVIOUS
<1>2. Cardinality(S \ T) = Cardinality(S) - Cardinality(S \cap T)
  BY SpanSets, FS_Difference
<1>3. Cardinality(S) \in Nat /\ Cardinality(T) \in Nat
  BY <1>1, SpanSets
<1> QED
  BY <1>1, <1>2, <1>3

(* Two sets with nothing in common: the cardinalities add up. *)
LEMMA CardDisjoint == ASSUME NEW S \in SUBSET Spans, NEW T \in SUBSET Spans, S \cap T = {}
                      PROVE  Cardinality(S \cup T) = Cardinality(S) + Cardinality(T)
<1>1. Cardinality(S \cup T) = Cardinality(S) + Cardinality(T) - Cardinality(S \cap T)
  BY SpanSets, FS_Union
<1>2. Cardinality(S) \in Nat /\ Cardinality(T) \in Nat /\ Cardinality(S \cap T) = 0
  BY SpanSets, FS_EmptySet
<1> QED
  BY <1>1, <1>2

(* What the invariants count are numbers. *)
LEMMA Counts == ASSUME SQTypeOK
                PROVE  /\ Cardinality(Reserving) \in Nat
                       /\ Cardinality(Admitted) \in Nat
                       /\ Cardinality(spans) \in Nat
                       /\ Cardinality(Unsubtracted) \in Nat
                       /\ Unsubtracted \in SUBSET Spans
                       /\ Reserving \in SUBSET Spans
                       /\ Admitted \in SUBSET Reserving
                       /\ Cardinality(Admitted) <= Cardinality(Reserving)
<1>1. /\ Reserving \in SUBSET Spans
      /\ Admitted \in SUBSET Reserving
      /\ Unsubtracted \in SUBSET Spans
      /\ spans \in SUBSET Spans
  BY DEF SQTypeOK, Reserving, Admitted, Unsubtracted
<1>2. IsFiniteSet(Reserving)
  BY <1>1, SpanSets
<1>3. Cardinality(Admitted) <= Cardinality(Reserving)
  BY <1>1, <1>2, FS_Subset
<1> QED
  BY <1>1, <1>3, SpanSets

(* The strengthened queue invariant holds of a fresh queue. *)
LEMMA InvInit == SQInit => SQInv
<1> SUFFICES ASSUME SQInit PROVE SQInv
  OBVIOUS
<1>1. SQTypeOK
  <2>1. shutdownRequested \in BOOLEAN
    BY Zenon DEF SQInit
  <2> QED
    BY <2>1 DEF SQInit, SQTypeOK, PushState, PopState
<1>2. NoDuplicate
  BY DEF SQInit, NoDuplicate
<1>3. Reserving = {} /\ Admitted = {} /\ Unsubtracted = {} /\ spans = {} /\ size = 0
  BY DEF SQInit, Reserving, Admitted, Unsubtracted
<1>4. Cardinality({}) = 0
  BY FS_EmptySet
<1> QED
  BY <1>1, <1>2, <1>3, <1>4, ConfigNormalized DEF SQInv, SizeAccounting, CapacityBound

(* What a push step changes in the sets that the invariants count. *)
LEMMA PushStep == ASSUME SQInv, NEW s \in Spans, TryPush(s)
                  PROVE  SQInv'
<1> USE DEF SQInv
<1>a. ConsumerIdle /\ Unsubtracted' = Unsubtracted
  BY
          DEF TryPush, Reserve, CheckClosed, Enqueue, EnqueueFails, Undo, ConsumerIdle,
          Unsubtracted
<1>b. Capacity \in Nat /\ Capacity >= 1
  BY ConfigNormalized
<1>1. CASE Reserve(s)
  <2>1. Reserving' = Reserving \cup {s} /\ s \notin Reserving
    BY <1>1 DEF Reserve, PushAt, Reserving, SQTypeOK
  <2>2. Cardinality(Reserving') = Cardinality(Reserving) + 1
    BY <2>1, Counts, CardAdd
  <2>3. SizeAccounting'
    BY <1>1, <1>a, <2>2, Counts DEF Reserve, SizeAccounting
  <2>4. SQTypeOK'
    BY <1>1 DEF Reserve, PushAt, SQTypeOK, ConsumerIdle, PushState
  <2>5. NoDuplicate'
    BY <1>1 DEF Reserve, PushAt, ConsumerIdle, NoDuplicate, SQTypeOK
  <2>6. CapacityBound'
    <3>1. CASE size >= Capacity
      <4>1. Admitted' = Admitted
        BY <1>1, <3>1 DEF Reserve, PushAt, Admitted, SQTypeOK
      <4> QED
        BY <1>1, <4>1 DEF Reserve, CapacityBound
    <3>2. CASE ~(size >= Capacity)
      <4>1. Admitted' = Admitted \cup {s} /\ s \notin Admitted
        BY <1>1, <3>2 DEF Reserve, PushAt, Admitted, SQTypeOK
      <4>2. Cardinality(Admitted') = Cardinality(Admitted) + 1
        BY <4>1, Counts, CardAdd
      <4>3. Cardinality(spans) + Cardinality(Admitted) <= size
        BY Counts DEF SizeAccounting
      <4> QED
        BY <1>1, <1>b, <3>2, <4>2, <4>3, Counts DEF Reserve, CapacityBound, SQTypeOK
    <3> QED
      BY <3>1, <3>2
  <2> QED
    BY <2>3, <2>4, <2>5, <2>6
<1>2. CASE CheckClosed(s) \/ EnqueueFails(s)
  <2>1. Reserving' = Reserving
    BY <1>2 DEF CheckClosed, EnqueueFails, PushAt, Reserving, SQTypeOK
  <2>2. Admitted' = Admitted \/ (s \in Admitted /\ Admitted' = Admitted \ {s})
    BY <1>2 DEF CheckClosed, EnqueueFails, PushAt, Admitted, SQTypeOK
  <2>3. Cardinality(Admitted') <= Cardinality(Admitted)
    BY <2>2, Counts, CardRemove
  <2>4. SQTypeOK'
    BY <1>2 DEF CheckClosed, EnqueueFails, PushAt, SQTypeOK, ConsumerIdle, PushState
  <2>5. NoDuplicate'
    BY <1>2 DEF CheckClosed, EnqueueFails, PushAt, ConsumerIdle, NoDuplicate, SQTypeOK
  <2>6. SizeAccounting'
    BY <1>2, <1>a, <2>1 DEF CheckClosed, EnqueueFails, SizeAccounting
  <2>7. Cardinality(Admitted') \in Nat
    BY <2>2, Counts, CardRemove, SpanSets
  <2>8. CapacityBound'
    BY <1>2, <1>b, <2>3, <2>7, Counts DEF CheckClosed, EnqueueFails, CapacityBound
  <2> QED
    BY <2>4, <2>5, <2>6, <2>8
<1>3. CASE Enqueue(s)
  <2>1. Reserving' = Reserving \ {s} /\ s \in Reserving
    BY <1>3 DEF Enqueue, PushAt, Reserving, SQTypeOK
  <2>2. Admitted' = Admitted \ {s} /\ s \in Admitted
    BY <1>3 DEF Enqueue, PushAt, Admitted, SQTypeOK
  <2>3. spans' = spans \cup {s} /\ s \notin spans /\ s \notin batch
    BY <1>3 DEF Enqueue, PushAt, NoDuplicate
  <2>4. /\ Cardinality(Reserving') = Cardinality(Reserving) - 1
        /\ Cardinality(Admitted') = Cardinality(Admitted) - 1
    BY <2>1, <2>2, Counts, CardRemove
  <2>5. Cardinality(spans') = Cardinality(spans) + 1
    BY <2>3, CardAdd DEF SQTypeOK
  <2>6. SizeAccounting'
    BY <1>3, <1>a, <2>4, <2>5, Counts DEF Enqueue, SizeAccounting
  <2>7. CapacityBound'
    BY <1>b, <2>4, <2>5, Counts DEF CapacityBound
  <2>8. SQTypeOK'
    BY <1>3 DEF Enqueue, PushAt, SQTypeOK, ConsumerIdle, PushState
  <2>9. NoDuplicate'
    BY <1>3, <2>3 DEF Enqueue, PushAt, ConsumerIdle, NoDuplicate, SQTypeOK
  <2> QED
    BY <2>6, <2>7, <2>8, <2>9
<1>4. CASE Undo(s)
  <2>1. Reserving' = Reserving \ {s} /\ s \in Reserving
    BY <1>4 DEF Undo, PushAt, Reserving, SQTypeOK
  <2>2. Admitted' = Admitted
    BY <1>4 DEF Undo, PushAt, Admitted, SQTypeOK
  <2>3. Cardinality(Reserving') = Cardinality(Reserving) - 1
    BY <2>1, Counts, CardRemove
  <2>4. SizeAccounting'
    BY <1>4, <1>a, <2>3, Counts DEF Undo, SizeAccounting
  <2>5. Cardinality(Reserving') \in Nat
    BY <2>1, Counts, SpanSets
  <2>6. size' \in Nat
    BY <1>4, <2>3, <2>5, Counts DEF Undo, SizeAccounting, SQTypeOK
  <2>7. SQTypeOK'
    BY <1>4, <2>6 DEF Undo, PushAt, SQTypeOK, ConsumerIdle, PushState
  <2>8. NoDuplicate'
    BY <1>4 DEF Undo, PushAt, ConsumerIdle, NoDuplicate, SQTypeOK
  <2>9. CapacityBound'
    BY <1>4, <2>2 DEF Undo, CapacityBound
  <2> QED
    BY <2>4, <2>7, <2>8, <2>9
<1> QED
  BY <1>1, <1>2, <1>3, <1>4 DEF TryPush

(* What the worker's steps change there. *)
LEMMA PopStep == ASSUME SQInv, TryPopBulk \/ Deliver
                 PROVE  SQInv'
<1> USE DEF SQInv
<1>a. /\ ProducersIdle
      /\ Reserving' = Reserving /\ Admitted' = Admitted
  BY
          DEF TryPopBulk, PopSeesEmpty, PopSeesWork, Dequeue, DequeueNothing, Subtract,
          Deliver,
         ProducersIdle, Reserving, Admitted
<1>1. CASE PopSeesEmpty \/ PopSeesWork \/ DequeueNothing
  <2>1. UNCHANGED <<size, spans, batch>> /\ pop' \in {"idle", "dequeue"}
        /\ pop \in {"idle", "dequeue"}
    BY <1>1 DEF PopSeesEmpty, PopSeesWork, DequeueNothing, PopAt
  <2>2. Unsubtracted' = Unsubtracted
    BY <2>1 DEF Unsubtracted
  <2> QED
    BY <1>a, <2>1, <2>2
       DEF SQTypeOK, PopState, ProducersIdle, NoDuplicate, SizeAccounting, CapacityBound
<1>2. CASE Dequeue
  <2>1. PICK b \in SUBSET spans : b # {} /\ batch' = b /\ spans' = spans \ b
    BY <1>2 DEF Dequeue
  <2>2. Cardinality(spans \ b) + Cardinality(b) = Cardinality(spans)
    BY <2>1, CardSplit DEF SQTypeOK
  <2>3. Cardinality(b) \in Nat /\ Cardinality(spans \ b) \in Nat
    BY <2>1, SpanSets DEF SQTypeOK
  <2>4. Unsubtracted' = b /\ Unsubtracted = {} /\ Cardinality({}) = 0
    BY <1>2, <2>1, FS_EmptySet DEF Dequeue, PopAt, Unsubtracted
  <2>5. SizeAccounting'
    BY <1>2, <1>a, <2>1, <2>2, <2>3, <2>4, Counts DEF Dequeue, SizeAccounting
  <2>6. CapacityBound'
    BY <1>a, <2>1, <2>2, <2>3, Counts, ConfigNormalized DEF CapacityBound
  <2>7. SQTypeOK'
    BY <1>2, <1>a, <2>1 DEF Dequeue, PopAt, SQTypeOK, PopState, ProducersIdle
  <2>8. NoDuplicate'
    BY <1>2, <1>a, <2>1 DEF Dequeue, PopAt, NoDuplicate, ProducersIdle
  <2> QED
    BY <2>5, <2>6, <2>7, <2>8
<1>3. CASE Subtract
  <2>1. Unsubtracted' = {} /\ Unsubtracted = batch /\ Cardinality({}) = 0
    BY <1>3, FS_EmptySet DEF Subtract, PopAt, Unsubtracted
  <2>2. SizeAccounting' /\ size' \in Nat
    BY <1>3, <1>a, <2>1, Counts DEF Subtract, SizeAccounting
  <2> QED
    BY <1>3, <1>a, <2>2
       DEF Subtract, PopAt, SQTypeOK, PopState, ProducersIdle, NoDuplicate, CapacityBound
<1>4. CASE Deliver
  <2>1. Unsubtracted' = {} /\ Unsubtracted = {}
    BY <1>4 DEF Deliver, PopAt, Unsubtracted
  <2> QED
    BY <1>4, <1>a, <2>1
       DEF Deliver, PopAt, SQTypeOK, PopState, ProducersIdle, NoDuplicate,
           SizeAccounting, CapacityBound
<1> QED
  BY <1>1, <1>2, <1>3, <1>4 DEF TryPopBulk

(* The strengthened queue invariant is inductive. *)
LEMMA InvNext == SQInv /\ [SQNext]_sqVars => SQInv'
<1> SUFFICES ASSUME SQInv, [SQNext]_sqVars PROVE SQInv'
  OBVIOUS
<1>1. CASE RequestShutdown
  BY <1>1 DEF RequestShutdown, ConsumerIdle, SQInv, SQTypeOK, NoDuplicate, SizeAccounting,
              CapacityBound, Reserving, Admitted, Unsubtracted
<1>2. CASE UNCHANGED sqVars
  BY <1>2 DEF sqVars, SQInv, SQTypeOK, NoDuplicate, SizeAccounting,
              CapacityBound, Reserving, Admitted, Unsubtracted
<1> QED
  BY <1>1, <1>2, PushStep, PopStep DEF SQNext

(* The inductive invariant holds of every behaviour of the queue. *)
THEOREM SQInvariant == SQSpec => []SQInv
BY InvInit, InvNext, PTL DEF SQSpec

(* Type correctness; size \in Nat says that no fetch_sub ever wraps the      *)
(* unsigned counter.                                                         *)
THEOREM SQTypeCorrect == SQSpec => []SQTypeOK
BY SQInvariant, PTL DEF SQInv

(* The counter equals what it counts in every interleaving. *)
THEOREM SizeIsExact == SQSpec => []SizeAccounting
BY SQInvariant, PTL DEF SQInv

(* queue_capacity is never exceeded by the queued spans and the pushes that  *)
(* may still enqueue.                                                        *)
THEOREM CapacityRespected == SQSpec => []CapacityBound
BY SQInvariant, PTL DEF SQInv

(* No span is both queued and popped, and only accepted ones are either. *)
THEOREM NeverDuplicated == SQSpec => []NoDuplicate
BY SQInvariant, PTL DEF SQInv

(* The invariant gives the stop test: size = 0 after shutdown seals the     *)
(* queue.                                                                   *)
LEMMA EmptySealsState == SQInv => EmptySeals
<1> SUFFICES ASSUME SQInv, shutdownRequested, size = 0 PROVE Sealed
  BY DEF EmptySeals
<1>1. Cardinality(Reserving) = 0 /\ Cardinality(spans) = 0
  BY Counts DEF SQInv, SizeAccounting
<1>2. IsFiniteSet(Reserving) /\ IsFiniteSet(spans)
  BY Counts, SpanSets DEF SQInv, SQTypeOK
<1>3. Reserving = {} /\ spans = {}
  BY <1>1, <1>2, FS_EmptySet
<1> QED
  BY <1>3 DEF Sealed, Reserving

(* The worker's exit test is sound: size = 0 after shutdownRequested means   *)
(* that the queue is empty and no push can enqueue any more.                 *)
THEOREM EmptyMeansSealed == SQSpec => []EmptySeals
BY SQInvariant, EmptySealsState, PTL

(* No step of a producer or of the worker unseals the queue. *)
LEMMA SealedStep == Sealed /\ [SQNext]_sqVars /\ SQTypeOK => Sealed'
<1> SUFFICES ASSUME Sealed, SQTypeOK, [SQNext]_sqVars PROVE Sealed'
  OBVIOUS
<1> USE DEF Sealed, SQTypeOK
<1>1. ASSUME NEW s \in Spans, TryPush(s) PROVE Sealed'
  BY <1>1 DEF TryPush, Reserve, CheckClosed, Enqueue, EnqueueFails, Undo, PushAt
<1>2. CASE TryPopBulk \/ Deliver
  BY <1>2 DEF TryPopBulk, PopSeesEmpty, PopSeesWork, Dequeue, DequeueNothing, Subtract,
              Deliver, ProducersIdle
<1>3. CASE RequestShutdown
  BY <1>3 DEF RequestShutdown
<1>4. CASE UNCHANGED sqVars
  BY <1>4 DEF sqVars
<1> QED
  BY <1>1, <1>2, <1>3, <1>4 DEF SQNext

(* Once sealed, the queue stays sealed: no span is stranded in it later. *)
THEOREM SealedForGood == SQSpec => StaysSealed
BY SealedStep, SQTypeCorrect, PTL DEF SQSpec, StaysSealed

(* A push that finds size >= capacity while no refusal is being undone finds *)
(* the room taken: size counts nothing else then.                            *)
LEMMA LoneDropStep ==
    SQInv /\ [SQNext]_sqVars =>
        \A s \in Spans : push[s] = "new" /\ push'[s] = "undoFull" /\ Refused = {}
          => RoomTaken >= Capacity
<1> SUFFICES ASSUME SQInv, [SQNext]_sqVars, NEW s \in Spans,
                    push[s] = "new", push'[s] = "undoFull", Refused = {}
             PROVE  RoomTaken >= Capacity
  OBVIOUS
<1>1. size >= Capacity
  <2>1. \E t \in Spans : TryPush(t)
    BY DEF SQNext, sqVars, TryPopBulk, PopSeesEmpty, PopSeesWork, Dequeue, DequeueNothing,
           Subtract, Deliver, ProducersIdle, RequestShutdown
  <2> QED
    BY <2>1 DEF TryPush, Reserve, CheckClosed, Enqueue, EnqueueFails, Undo, PushAt,
                SQInv, SQTypeOK
<1>2. Reserving = Admitted
  BY DEF Refused, Reserving, Admitted
<1>3. RoomTaken = size
  BY <1>2, Counts DEF SQInv, SizeAccounting, RoomTaken
<1> QED
  BY <1>1, <1>3

(* A lone refusal for lack of room finds the room taken: refusals leave      *)
(* nothing behind in size.                                                   *)
THEOREM LoneDropsNeedAFullQueue == SQSpec => LoneDropOnlyWhenFull
BY LoneDropStep, SQInvariant, PTL DEF SQSpec, LoneDropOnlyWhenFull

=============================================================================
