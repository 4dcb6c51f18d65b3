-------------------------- MODULE SpanGuardProofs --------------------------
(***************************************************************************)
(* Proofs about SpanGuard: types, ownership of spans by guards, and the    *)
(* identity of traces, for any number of threads, guards, scopes and       *)
(* spans.                                                                  *)
(***************************************************************************)
EXTENDS ScopedSpanGuard, SequenceTheorems, TLAPS

(* What the conversions between TraceContext, SpanContext and the thread's   *)
(* state preserve: only the tracestate is dropped, and it can be put back.   *)
LEMMA Conversions ==
    /\ \A c \in TraceContext : SpanContextOf(c) \in SpanContext
    /\ \A sc \in SpanContext, ts \in Tracestates :
          ToTraceContext(sc, ts) \in TraceContext /\ SpanContextOf(ToTraceContext(sc, ts)) = sc
<1>1. \A c \in TraceContext : SpanContextOf(c) \in SpanContext
  BY DEF TraceContext, SpanContext, SpanContextOf
<1>2. \A sc \in SpanContext, ts \in Tracestates : ToTraceContext(sc, ts) \in TraceContext
  BY DEF TraceContext, SpanContext, ToTraceContext
<1>3. \A sc \in SpanContext, ts \in Tracestates : SpanContextOf(ToTraceContext(sc, ts)) = sc
  BY DEF SpanContext, SpanContextOf, ToTraceContext
<1> QED
  BY <1>1, <1>2, <1>3

(* A cleared state is a state. *)
LEMMA ClearedType == Cleared \in ContextState
BY SpanGuardAssumption DEF Cleared, ContextState

(* setCurrentContext leaves a state in which a thread without a context has  *)
(* no tracestate.                                                            *)
LEMMA StateOfType ==
    ASSUME NEW c \in TraceContext \cup {None}
    PROVE  /\ StateOf(c) \in ContextState
           /\ StateOf(c).spanContext = None => StateOf(c) = Cleared
           /\ StateOf(c).spanContext = IF c = None THEN None ELSE SpanContextOf(c)
<1>1. CASE c = None
  BY <1>1, ClearedType DEF StateOf, Cleared
<1>2. CASE c # None
  <2>1. c \in TraceContext /\ SpanContextOf(c) \in SpanContext /\ c.tracestate \in Tracestates
    BY <1>2, Conversions DEF TraceContext
  <2>2. SpanContextOf(c) # None
    BY <2>1, SpanGuardAssumption
  <2>3. StateOf(c) = [spanContext |-> SpanContextOf(c), tracestate |-> c.tracestate]
    BY <1>2 DEF StateOf
  <2> QED
    BY <1>2, <2>1, <2>2, <2>3 DEF ContextState
<1> QED
  BY <1>1, <1>2

(* The sampler's answer is a decision. *)
LEMMA SampleType ==
    ASSUME sampler \in Sampler, NEW parent \in SpanContext \cup {None}, NEW trace
    PROVE  ShouldSample(sampler, parent, trace) \in BOOLEAN
<1>1. RootDecision(sampler, trace) \in BOOLEAN
  BY DEF RootDecision
<1>2. parent # None => parent.sampled \in BOOLEAN
  BY DEF SpanContext
<1> QED
  BY <1>1, <1>2 DEF ShouldSample

(* The context of a new span: its own id, its parent's trace, and the        *)
(* parent's sampling decision if the sampler is parent-based.                *)
LEMMA NextContextType ==
    ASSUME sampler \in Sampler, NEW parent \in SpanContext \cup {None}, NEW id \in SpanIds
    PROVE  /\ NextContext(parent, id) \in SpanContext
           /\ NextContext(parent, id).span = id
           /\ NextContext(parent, id).trace = IF parent = None THEN id ELSE parent.trace
           /\ NextContext(parent, id).parent = IF parent = None THEN None ELSE parent.span
           /\ NextContext(parent, id).sampled
                = ShouldSample(sampler, parent, NextContext(parent, id).trace)
<1> DEFINE base == IF parent = None THEN RootContext(id) ELSE ChildContext(parent, id)
<1>1. /\ base \in SpanContext
      /\ base.span = id
      /\ base.trace = IF parent = None THEN id ELSE parent.trace
      /\ base.parent = IF parent = None THEN None ELSE parent.span
  BY SpanGuardAssumption DEF RootContext, ChildContext, SpanContext
<1>2. NextContext(parent, id)
        = [base EXCEPT !.sampled = ShouldSample(sampler, parent, base.trace)]
  BY DEF NextContext, ApplySampling
<1>3. ShouldSample(sampler, parent, base.trace) \in BOOLEAN
  BY SampleType
<1> HIDE DEF base
<1> QED
  BY <1>1, <1>2, <1>3 DEF SpanContext

----------------------------------------------------------------------------
(* Type correctness. *)

(* The samplers in use are samplers. *)
LEMMA SamplerType == TypeOK => sampler \in Sampler
<1>1. BuiltInSampler \in Sampler
  BY DEF BuiltInSampler, Sampler
<1> QED
  BY <1>1, SpanGuardAssumption DEF TypeOK

(* Starting a span keeps the types. *)
LEMMA ActivateType ==
    ASSUME TypeOK, NEW t \in Threads, NEW g \in Guards, NEW id \in SpanIds,
           NEW context \in SpanContext, NEW ts \in Tracestates,
           NEW kind \in {"kInternal", "kServer"}, Activate(t, g, id, context, ts, kind)
    PROVE  TypeOK'
<1> DEFINE state == [spanContext |-> context, tracestate |-> ts]
           data == [context |-> context, tracestate |-> ts, kind |-> kind, ended |-> FALSE]
           held == [span |-> id, previous |-> current[t], active |-> TRUE]
<1>1. state \in ContextState /\ state.spanContext # None
  BY SpanGuardAssumption DEF ContextState
<1>2. data \in SpanData
  BY DEF SpanData
<1>3. held \in GuardData
  BY DEF TypeOK, GuardData
<1>4. /\ current' = [current EXCEPT ![t] = state]
      /\ spans' = [spans EXCEPT ![id] = data]
      /\ guard' = [guard EXCEPT ![g] = held]
      /\ UNCHANGED <<scope, sampler, captured>>
  BY DEF Activate
<1> HIDE DEF state, data, held
<1> QED
  BY <1>1, <1>2, <1>3, <1>4 DEF TypeOK

(* What the guard of an active span holds exists. *)
GuardsHold ==
    \A g \in Guards : guard[g] # None /\ guard[g].active => guard[g].span \in Started

(* A trace of this program is named after a span that was started. *)
TracesStarted ==
    \A i \in Started : spans[i].context.trace \in Started \cup (Ids \ SpanIds)

(* The inductive invariant.  OneHolder needs GuardsHold (a guard of a span   *)
(* that does not exist would hold the next one started), Connected needs     *)
(* NoForgedContext (parents are taken from the contexts in use), and         *)
(* WholeTraces needs TracesStarted (a new root shares its trace with nobody).*)
SGInv ==
    /\ TypeOK /\ GuardsHold /\ OneHolder /\ NoForgedContext
    /\ Connected /\ TracesStarted /\ WholeTraces

(* The initial state, in which nothing has been started. *)
LEMMA SGInit == Init => SGInv
<1> SUFFICES ASSUME Init PROVE SGInv
  OBVIOUS
<1>1. TypeOK
  <2>1. sampler \in Samplers \cup {BuiltInSampler}
    BY DEF Init
  <2> QED
    BY <2>1, ClearedType DEF Init, TypeOK
<1>2. Started = {}
  BY DEF Init, Started
<1>3. GuardsHold /\ OneHolder /\ Connected /\ TracesStarted
  BY <1>2 DEF Init, GuardsHold, OneHolder, Connected, TracesStarted
<1>4. NoForgedContext
  BY DEF Init, NoForgedContext, Cleared
<1>5. WholeTraces
  <2>1. Known = {SpanContextOf(c) : c \in Inbound}
    BY <1>2 DEF Known
  <2> QED
    BY <2>1, SpanGuardAssumption
       DEF WholeTraces, ParentBasedOnly, SpanContextOf, IsValid, TraceContext
<1> QED
  BY <1>1, <1>3, <1>4, <1>5 DEF SGInv

(* The contexts in use are contexts. *)
LEMMA KnownType == TypeOK => Known \subseteq SpanContext
<1> SUFFICES ASSUME TypeOK, NEW k \in Known PROVE k \in SpanContext
  OBVIOUS
<1>1. CASE \E i \in Started : k = spans[i].context
  BY <1>1 DEF TypeOK, Started, SpanData
<1>2. CASE \E c \in Inbound : k = SpanContextOf(c)
  BY <1>2, Conversions, SpanGuardAssumption
<1> QED
  BY <1>1, <1>2 DEF Known

(* A step that starts no span and keeps every span's context says nothing    *)
(* new about traces.                                                         *)
LEMMA SameContexts ==
    ASSUME Started' = Started, \A i \in Started : spans'[i].context = spans[i].context
    PROVE  /\ Known' = Known
           /\ Connected => Connected'
           /\ TracesStarted => TracesStarted'
           /\ WholeTraces => WholeTraces'
<1>1. Known' = Known
  BY DEF Known
<1>2. Connected => Connected'
  BY <1>1 DEF Connected
<1>3. TracesStarted => TracesStarted'
  BY DEF TracesStarted
<1>4. WholeTraces => WholeTraces'
  BY <1>1 DEF WholeTraces, ParentBasedOnly
<1> QED
  BY <1>1, <1>2, <1>3, <1>4

(* Span::end changes one bit of one span. *)
LEMMA EndedFacts ==
    ASSUME TypeOK, NEW i \in Started, spans' = Ended(i)
    PROVE  /\ spans' \in [SpanIds -> SpanData \cup {None}]
           /\ Started' = Started
           /\ \A j \in Started : /\ spans'[j].context = spans[j].context
                                 /\ spans[j].ended => spans'[j].ended
                                 /\ j # i => spans'[j] = spans[j]
           /\ spans'[i].ended
<1>1. i \in SpanIds /\ spans[i] \in SpanData
  BY DEF TypeOK, Started
<1> DEFINE new == [spans[i] EXCEPT !.ended = TRUE]
<1>2. new \in SpanData /\ new.context = spans[i].context /\ new.ended
  BY <1>1 DEF SpanData
<1>3. spans' = [spans EXCEPT ![i] = new]
  BY DEF Ended
<1>4. new # None
  BY <1>2, SpanGuardAssumption
<1> HIDE DEF new
<1> QED
  BY <1>1, <1>2, <1>3, <1>4 DEF TypeOK, Started

----------------------------------------------------------------------------
(* Starting a span. *)

(* startSpan and startServerSpan start a span below a valid context the      *)
(* program has seen, or a root.                                              *)
LEMMA StartsBelow ==
    ASSUME SGInv, NEW t \in Threads, NEW g \in Guards, NEW id \in SpanIds,
           StartSpan(t, g, id) \/ \E c \in Available : StartServerSpan(t, g, id, c)
    PROVE  \E parent \in Known \cup {None}, ts \in Tracestates,
             kind \in {"kInternal", "kServer"} :
               /\ parent # None => IsValid(parent)
               /\ Activate(t, g, id, NextContext(parent, id), ts, kind)
<1> USE DEF SGInv
<1>1. CASE StartSpan(t, g, id)
  <2> DEFINE previous == current[t].spanContext
             parent == IF previous # None /\ IsValid(previous) THEN previous ELSE None
             ts == IF previous # None THEN current[t].tracestate ELSE NoTracestate
  <2>1. Activate(t, g, id, NextContext(parent, id), ts, "kInternal")
    BY <1>1 DEF StartSpan
  <2>2. parent \in Known \cup {None} /\ (parent # None => IsValid(parent))
    BY DEF NoForgedContext
  <2>3. ts \in Tracestates
    BY SpanGuardAssumption DEF TypeOK, ContextState
  <2> HIDE DEF parent, ts
  <2> QED
    BY <2>1, <2>2, <2>3
<1>2. ASSUME NEW c \in Available, StartServerSpan(t, g, id, c)
      PROVE  \E parent \in Known \cup {None}, ts \in Tracestates,
               kind \in {"kInternal", "kServer"} :
                 /\ parent # None => IsValid(parent)
                 /\ Activate(t, g, id, NextContext(parent, id), ts, kind)
  <2> DEFINE parent == IF IsValid(c) THEN SpanContextOf(c) ELSE None
             ts == IF IsValid(c) THEN c.tracestate ELSE NoTracestate
  <2>1. Activate(t, g, id, NextContext(parent, id), ts, "kServer")
    BY <1>2 DEF StartServerSpan
  <2>2. SpanContextOf(c) \in Known
    BY DEF Available, NoForgedContext, Known
  <2>3. c \in TraceContext
    BY SpanGuardAssumption DEF Available, TypeOK
  <2>4. IsValid(c) => IsValid(SpanContextOf(c))
    BY DEF IsValid, SpanContextOf
  <2>5. ts \in Tracestates
    BY <2>3, SpanGuardAssumption DEF TraceContext
  <2>6. parent \in Known \cup {None} /\ (parent # None => IsValid(parent))
    BY <2>2, <2>4
  <2> HIDE DEF parent, ts
  <2> QED
    BY <2>1, <2>5, <2>6
<1> QED
  BY <1>1, <1>2

(* The contexts seen grow by the new span's. *)
LEMMA StartedFacts ==
    ASSUME TypeOK, NEW t \in Threads, NEW g \in Guards, NEW id \in SpanIds,
           NEW context \in SpanContext, NEW ts \in Tracestates,
           NEW kind \in {"kInternal", "kServer"}, Activate(t, g, id, context, ts, kind)
    PROVE  /\ id \notin Started /\ Started' = Started \cup {id}
           /\ \A i \in Started : spans'[i] = spans[i]
           /\ spans'[id].context = context /\ ~spans'[id].ended
           /\ Known' = Known \cup {context}
<1> DEFINE data == [context |-> context, tracestate |-> ts, kind |-> kind, ended |-> FALSE]
<1>1. data # None /\ data.context = context /\ ~data.ended
  <2>1. data \in SpanData
    BY DEF SpanData
  <2> QED
    BY <2>1, SpanGuardAssumption
<1>2. spans' = [spans EXCEPT ![id] = data] /\ spans[id] = None
  BY DEF Activate, Unused
<1> HIDE DEF data
<1>3. /\ id \notin Started /\ Started' = Started \cup {id}
      /\ \A i \in Started : spans'[i] = spans[i]
      /\ spans'[id].context = context /\ ~spans'[id].ended
  BY <1>1, <1>2 DEF TypeOK, Started
<1>4. Known' = Known \cup {context}
  BY <1>3 DEF Known
<1> QED
  BY <1>3, <1>4

(* Starting a span preserves the invariant. *)
LEMMA StartStep ==
    ASSUME SGInv, NEW t \in Threads, NEW g \in Guards, NEW id \in SpanIds,
           StartSpan(t, g, id) \/ \E c \in Available : StartServerSpan(t, g, id, c)
    PROVE  SGInv'
<1> USE DEF SGInv
<1>1. PICK parent \in Known \cup {None}, ts \in Tracestates,
           kind \in {"kInternal", "kServer"} :
             /\ parent # None => IsValid(parent)
             /\ Activate(t, g, id, NextContext(parent, id), ts, kind)
  BY StartsBelow
<1> DEFINE context == NextContext(parent, id)
<1>2. parent \in SpanContext \cup {None} /\ sampler \in Sampler
  BY KnownType, SamplerType
<1>3. /\ context \in SpanContext /\ context.span = id
      /\ context.trace = IF parent = None THEN id ELSE parent.trace
      /\ context.parent = IF parent = None THEN None ELSE parent.span
      /\ context.sampled = ShouldSample(sampler, parent, context.trace)
  BY <1>2, NextContextType
<1>4. Activate(t, g, id, context, ts, kind)
  BY <1>1
<1> HIDE DEF context
<1>5. TypeOK'
  BY <1>3, <1>4, ActivateType
<1>6. /\ id \notin Started /\ Started' = Started \cup {id}
      /\ \A i \in Started : spans'[i] = spans[i]
      /\ spans'[id].context = context /\ ~spans'[id].ended
      /\ Known' = Known \cup {context}
  BY <1>3, <1>4, StartedFacts
<1>7. /\ guard[g] = None
      /\ guard' = [guard EXCEPT ![g] = [span |-> id, previous |-> current[t], active |-> TRUE]]
      /\ current' = [current EXCEPT ![t] = [spanContext |-> context, tracestate |-> ts]]
      /\ UNCHANGED <<scope, sampler, captured>>
  BY <1>4 DEF Activate
<1>8. [span |-> id, previous |-> current[t], active |-> TRUE] # None
  <2>1. [span |-> id, previous |-> current[t], active |-> TRUE] \in GuardData
    BY DEF TypeOK, GuardData
  <2> QED
    BY <2>1, SpanGuardAssumption
<1>9. GuardsHold'
  BY <1>6, <1>7 DEF GuardsHold, TypeOK
<1>10. OneHolder'
  <2>1. \A h \in Guards \ {g} : guard'[h] = guard[h]
    BY <1>7 DEF TypeOK
  <2>2. guard'[g] # None /\ guard'[g].active /\ guard'[g].span = id
    BY <1>7, <1>8 DEF TypeOK
  <2>3. Holders(id)' = {g}
    BY <2>1, <2>2, <1>6 DEF Holders, GuardsHold
  <2>4. \A i \in Started : Holders(i)' = Holders(i)
    BY <2>1, <2>2, <1>6, <1>7 DEF Holders
  <2> QED
    BY <2>3, <2>4, <1>6 DEF OneHolder
<1>11. NoForgedContext'
  <2>1. \A u \in Threads : current'[u].spanContext \in Known' \cup {None}
    BY <1>6, <1>7 DEF NoForgedContext, TypeOK
  <2>2. \A h \in Guards : guard'[h] # None
                             => guard'[h].previous.spanContext \in Known' \cup {None}
    BY <1>6, <1>7 DEF NoForgedContext, TypeOK
  <2> QED
    BY <2>1, <2>2, <1>6, <1>7 DEF NoForgedContext
<1>12. Connected'
  <2> DEFINE Below(i, c) ==
        /\ c.span = i
        /\ IF c.parent = None THEN c.trace = i
           ELSE \E p \in Known' : IsValid(p) /\ p.span = c.parent /\ p.trace = c.trace
  <2>1. ASSUME NEW i \in Started PROVE Below(i, spans'[i].context)
    BY <1>6 DEF Connected
  <2>2. Below(id, spans'[id].context)
    <3>1. CASE parent = None
      BY <3>1, <1>3, <1>6
    <3>2. CASE parent # None
      <4>1. parent \in Known' /\ IsValid(parent) /\ parent.span \in Ids
        BY <3>2, <1>1, <1>2, <1>6 DEF SpanContext
      <4>2. context.parent = parent.span /\ context.parent # None
        BY <3>2, <4>1, <1>3, SpanGuardAssumption
      <4>3. context.trace = parent.trace /\ context.span = id
        BY <3>2, <1>3
      <4> QED
        BY <4>1, <4>2, <4>3, <1>6
    <3> QED
      BY <3>1, <3>2
  <2>3. \A i \in Started' : Below(i, spans'[i].context)
    BY <1>6, <2>1, <2>2
  <2> QED
    BY <2>3 DEF Connected, IsValid
<1>13. TracesStarted'
  <2>1. parent # None => parent.trace \in Started \cup (Ids \ SpanIds)
    <3>1. CASE \E i \in Started : parent = spans[i].context
      BY <3>1 DEF TracesStarted
    <3>2. CASE \E c \in Inbound : parent = SpanContextOf(c)
      BY <3>2, SpanGuardAssumption DEF SpanContextOf, TraceContext
    <3> QED
      BY <3>1, <3>2 DEF Known
  <2> QED
    BY <1>3, <1>6, <2>1 DEF TracesStarted
<1>14. WholeTraces'
  <2> SUFFICES ASSUME ParentBasedOnly, NEW d \in Known, IsValid(d), IsValid(context),
                      d.trace = context.trace
               PROVE  d.sampled = context.sampled
    BY <1>6 DEF WholeTraces, ParentBasedOnly
  <2>1. CASE parent = None
    <3>1. d.trace \in Started \cup (Ids \ SpanIds)
      <4>1. CASE \E i \in Started : d = spans[i].context
        BY <4>1 DEF TracesStarted
      <4>2. CASE \E c \in Inbound : d = SpanContextOf(c)
        BY <4>2, SpanGuardAssumption DEF SpanContextOf, TraceContext
      <4> QED
        BY <4>1, <4>2 DEF Known
    <3> QED
      BY <2>1, <3>1, <1>3, <1>6
  <2>2. CASE parent # None
    <3>1. sampler.parentBased
      BY DEF ParentBasedOnly, TypeOK, BuiltInSampler
    <3>2. context.sampled = parent.sampled
      BY <2>2, <3>1, <1>1, <1>3 DEF ShouldSample
    <3>3. d.sampled = parent.sampled
      BY <2>2, <1>1, <1>3 DEF WholeTraces
    <3> QED
      BY <3>2, <3>3
  <2> QED
    BY <2>1, <2>2
<1> QED
  BY <1>5, <1>9, <1>10, <1>11, <1>12, <1>13, <1>14

----------------------------------------------------------------------------
(* Guards. *)

(* restore() ends at most the guard's own span, and puts back a context that *)
(* is known.                                                                 *)
LEMMA RestoreFacts ==
    ASSUME SGInv, NEW t \in Threads, NEW g \in Guards, guard[g] # None, Restore(t, g)
    PROVE  /\ spans' \in [SpanIds -> SpanData \cup {None}]
           /\ current' \in [Threads -> ContextState]
           /\ \A u \in Threads : current'[u].spanContext = None => current'[u] = Cleared
           /\ \A u \in Threads : current'[u].spanContext \in Known \cup {None}
           /\ Started' = Started
           /\ \A i \in Started : /\ spans'[i].context = spans[i].context
                                 /\ spans[i].ended => spans'[i].ended
           /\ guard[g].active => guard[g].span \in Started /\ spans'[guard[g].span].ended
<1> USE DEF SGInv
<1>1. CASE guard[g].active
  <2>1. guard[g].span \in Started /\ spans' = Ended(guard[g].span)
    BY <1>1 DEF Restore, GuardsHold
  <2>2. guard[g].previous \in ContextState
    BY DEF TypeOK, GuardData
  <2>3. /\ Normalized(guard[g].previous) \in ContextState
        /\ Normalized(guard[g].previous).spanContext = None
             => Normalized(guard[g].previous) = Cleared
        /\ Normalized(guard[g].previous).spanContext \in Known \cup {None}
    BY <2>2, ClearedType DEF Normalized, Cleared, NoForgedContext
  <2>4. current' = [current EXCEPT ![t] = Normalized(guard[g].previous)]
    BY <1>1 DEF Restore
  <2>5. /\ current' \in [Threads -> ContextState]
        /\ \A u \in Threads : current'[u].spanContext = None => current'[u] = Cleared
        /\ \A u \in Threads : current'[u].spanContext \in Known \cup {None}
    BY <2>3, <2>4 DEF TypeOK, NoForgedContext
  <2> QED
    BY <2>1, <2>5, EndedFacts
<1>2. CASE ~guard[g].active
  BY <1>2 DEF Restore, TypeOK, NoForgedContext, Started
<1> QED
  BY <1>1, <1>2

(* A guard that holds nothing is a guard. *)
LEMMA InactiveType == Inactive \in GuardData /\ Inactive # None /\ ~Inactive.active
<1>1. Inactive \in GuardData /\ ~Inactive.active
  BY ClearedType DEF Inactive, GuardData
<1> QED
  BY <1>1, SpanGuardAssumption

(* The steps that leave the guards, the spans or both alone. *)
LEMMA OtherParts ==
    ASSUME SGInv, Started' = Started,
           \A i \in Started : /\ spans'[i].context = spans[i].context
                              /\ spans[i].ended => spans'[i].ended
    PROVE  /\ Known' = Known /\ Connected' /\ TracesStarted' /\ WholeTraces'
           /\ UNCHANGED guard => GuardsHold' /\ OneHolder'
<1> USE DEF SGInv
<1>1. Known' = Known /\ Connected' /\ TracesStarted' /\ WholeTraces'
  BY SameContexts
<1>2. UNCHANGED guard => GuardsHold' /\ OneHolder'
  BY DEF GuardsHold, OneHolder, Holders
<1> QED
  BY <1>1, <1>2

(* SpanGuard() preserves the invariant. *)
LEMMA DefaultGuardStep ==
    ASSUME SGInv, NEW g \in Guards, DefaultGuard(g) PROVE SGInv'
<1> USE DEF SGInv
<1>1. Started' = Started /\ UNCHANGED <<current, spans, scope, sampler, captured>>
  BY DEF DefaultGuard, Started
<1>2. guard[g] = None /\ guard' = [guard EXCEPT ![g] = Inactive]
  BY DEF DefaultGuard
<1>3. Known' = Known /\ Connected' /\ TracesStarted' /\ WholeTraces'
  BY <1>1, OtherParts
<1>4. TypeOK'
  BY <1>1, <1>2, InactiveType DEF TypeOK
<1>5. GuardsHold'
  BY <1>1, <1>2, InactiveType DEF GuardsHold, TypeOK
<1>6. OneHolder'
  <2>1. \A i : Holders(i)' = Holders(i)
    BY <1>2, InactiveType DEF Holders, TypeOK
  <2> QED
    BY <1>1, <2>1 DEF OneHolder
<1>7. NoForgedContext'
  BY <1>1, <1>2, <1>3 DEF NoForgedContext, TypeOK, Inactive, Cleared
<1> QED
  BY <1>3, <1>4, <1>5, <1>6, <1>7

(* end() preserves the invariant. *)
LEMMA EndGuardStep ==
    ASSUME SGInv, NEW g \in Guards, EndGuard(g) PROVE SGInv'
<1> USE DEF SGInv
<1>1. guard[g].span \in Started /\ spans' = Ended(guard[g].span)
  BY DEF EndGuard, GuardsHold
<1>2. UNCHANGED <<current, guard, scope, sampler, captured>>
  BY DEF EndGuard
<1>3. /\ spans' \in [SpanIds -> SpanData \cup {None}] /\ Started' = Started
      /\ \A i \in Started : /\ spans'[i].context = spans[i].context
                            /\ spans[i].ended => spans'[i].ended
  BY <1>1, EndedFacts
<1>4. /\ Known' = Known /\ Connected' /\ TracesStarted' /\ WholeTraces'
      /\ GuardsHold' /\ OneHolder'
  BY <1>2, <1>3, OtherParts
<1>5. TypeOK'
  BY <1>2, <1>3 DEF TypeOK
<1>6. NoForgedContext'
  BY <1>2, <1>4 DEF NoForgedContext
<1> QED
  BY <1>4, <1>5, <1>6

(* Handing the members of `from` to g keeps one holder per span, provided    *)
(* the span g held, if any, is ended by the same step.                       *)
LEMMA HandOver ==
    ASSUME SGInv, NEW g \in Guards, NEW from \in Guards, g # from, guard[from] # None,
           guard' = [guard EXCEPT ![g] = guard[from], ![from] = Inactive],
           Started' = Started,
           \A i \in Started : spans[i].ended => spans'[i].ended,
           guard[g] # None /\ guard[g].active => spans'[guard[g].span].ended
    PROVE  /\ guard' \in [Guards -> GuardData \cup {None}]
           /\ GuardsHold' /\ OneHolder'
           /\ \A h \in Guards : guard'[h] # None
                => guard'[h].previous.spanContext \in Known \cup {None}
<1> USE DEF SGInv
<1>1. /\ guard'[g] = guard[from] /\ guard'[from] = Inactive
      /\ \A h \in Guards \ {g, from} : guard'[h] = guard[h]
  BY DEF TypeOK
<1>2. guard' \in [Guards -> GuardData \cup {None}]
  BY InactiveType DEF TypeOK
<1>3. GuardsHold'
  <2> SUFFICES ASSUME NEW h \in Guards, guard'[h] # None, guard'[h].active
               PROVE  guard'[h].span \in Started
    BY DEF GuardsHold
  <2>1. \A a \in Guards : guard[a] # None /\ guard[a].active => guard[a].span \in Started
    BY DEF GuardsHold
  <2>2. h # from
    BY <1>1, InactiveType
  <2> QED
    BY <1>1, <2>1, <2>2
<1>4. \A h \in Guards : guard'[h] # None
        => guard'[h].previous.spanContext \in Known \cup {None}
  <2>1. \A a \in Guards : guard[a] # None
          => guard[a].previous.spanContext \in Known \cup {None}
    BY DEF NoForgedContext
  <2>2. Inactive.previous.spanContext = None
    BY DEF Inactive, Cleared
  <2> QED
    BY <1>1, <2>1, <2>2
<1>5. OneHolder'
  <2> SUFFICES ASSUME NEW i \in Started
               PROVE  /\ \A a, b \in Holders(i)' : a = b
                      /\ ~spans'[i].ended => Holders(i)' # {}
    BY DEF OneHolder
  <2>1. \A a, b \in Holders(i) : a = b
    BY DEF OneHolder
  <2>2. g \in Holders(i)' <=> from \in Holders(i)
    BY <1>1 DEF Holders
  <2>3. from \notin Holders(i)'
    BY <1>1, InactiveType DEF Holders
  <2>4. \A h \in Guards \ {g, from} : h \in Holders(i)' <=> h \in Holders(i)
    BY <1>1 DEF Holders
  <2>5. Holders(i) \subseteq Guards /\ Holders(i)' \subseteq Guards
    BY DEF Holders
  <2>6. \A a, b \in Holders(i)' : a = b
    BY <2>1, <2>2, <2>3, <2>4, <2>5
  <2>7. ASSUME ~spans'[i].ended PROVE Holders(i)' # {}
    <3>1. PICK h \in Guards : h \in Holders(i)
      BY <2>5, <2>7 DEF OneHolder
    <3>2. h # g
      BY <3>1, <2>7 DEF Holders
    <3> QED
      BY <3>1, <3>2, <2>2, <2>4
  <2> QED
    BY <2>6, <2>7
<1> QED
  BY <1>2, <1>3, <1>4, <1>5

(* SpanGuard(SpanGuard&&) preserves the invariant. *)
LEMMA MoveConstructStep ==
    ASSUME SGInv, NEW g \in Guards, NEW from \in Guards, MoveConstruct(g, from)
    PROVE  SGInv'
<1> USE DEF SGInv
<1>1. /\ g # from /\ guard[g] = None /\ guard[from] # None
      /\ guard' = [guard EXCEPT ![g] = guard[from], ![from] = Inactive]
      /\ UNCHANGED <<current, spans, scope, sampler, captured>>
  BY DEF MoveConstruct
<1>2. Started' = Started
  BY <1>1 DEF Started
<1>3. Known' = Known /\ Connected' /\ TracesStarted' /\ WholeTraces'
  BY <1>1, <1>2, OtherParts
<1>4. /\ guard' \in [Guards -> GuardData \cup {None}]
      /\ GuardsHold' /\ OneHolder'
      /\ \A h \in Guards : guard'[h] # None
           => guard'[h].previous.spanContext \in Known \cup {None}
  BY <1>1, <1>2, HandOver
<1>5. TypeOK'
  BY <1>1, <1>4 DEF TypeOK
<1>6. NoForgedContext'
  BY <1>1, <1>3, <1>4 DEF NoForgedContext
<1> QED
  BY <1>3, <1>4, <1>5, <1>6

(* operator=(SpanGuard&&) preserves the invariant. *)
LEMMA MoveAssignStep ==
    ASSUME SGInv, NEW t \in Threads, NEW g \in Guards, NEW from \in Guards,
           MoveAssign(t, g, from)
    PROVE  SGInv'
<1> USE DEF SGInv
<1>1. /\ g # from /\ guard[g] # None /\ guard[from] # None /\ Restore(t, g)
      /\ guard' = [guard EXCEPT ![g] = guard[from], ![from] = Inactive]
      /\ UNCHANGED <<scope, sampler, captured>>
  BY DEF MoveAssign
<1>2. /\ spans' \in [SpanIds -> SpanData \cup {None}]
      /\ current' \in [Threads -> ContextState]
      /\ \A u \in Threads : current'[u].spanContext = None => current'[u] = Cleared
      /\ \A u \in Threads : current'[u].spanContext \in Known \cup {None}
      /\ Started' = Started
      /\ \A i \in Started : /\ spans'[i].context = spans[i].context
                            /\ spans[i].ended => spans'[i].ended
      /\ guard[g].active => spans'[guard[g].span].ended
  BY <1>1, RestoreFacts
<1>3. Known' = Known /\ Connected' /\ TracesStarted' /\ WholeTraces'
  BY <1>2, OtherParts
<1>4. /\ guard' \in [Guards -> GuardData \cup {None}]
      /\ GuardsHold' /\ OneHolder'
      /\ \A h \in Guards : guard'[h] # None
           => guard'[h].previous.spanContext \in Known \cup {None}
  BY <1>1, <1>2, HandOver
<1>5. TypeOK'
  BY <1>1, <1>2, <1>4 DEF TypeOK
<1>6. NoForgedContext'
  BY <1>1, <1>2, <1>3, <1>4 DEF NoForgedContext
<1> QED
  BY <1>3, <1>4, <1>5, <1>6

(* ~SpanGuard() preserves the invariant. *)
LEMMA DestroyGuardStep ==
    ASSUME SGInv, NEW t \in Threads, NEW g \in Guards, DestroyGuard(t, g)
    PROVE  SGInv'
<1> USE DEF SGInv
<1>1. /\ guard[g] # None /\ Restore(t, g) /\ guard' = [guard EXCEPT ![g] = None]
      /\ UNCHANGED <<scope, sampler, captured>>
  BY DEF DestroyGuard
<1>2. /\ spans' \in [SpanIds -> SpanData \cup {None}]
      /\ current' \in [Threads -> ContextState]
      /\ \A u \in Threads : current'[u].spanContext = None => current'[u] = Cleared
      /\ \A u \in Threads : current'[u].spanContext \in Known \cup {None}
      /\ Started' = Started
      /\ \A i \in Started : /\ spans'[i].context = spans[i].context
                            /\ spans[i].ended => spans'[i].ended
      /\ guard[g].active => spans'[guard[g].span].ended
  BY <1>1, RestoreFacts
<1>3. Known' = Known /\ Connected' /\ TracesStarted' /\ WholeTraces'
  BY <1>2, OtherParts
<1>4. guard'[g] = None /\ \A h \in Guards \ {g} : guard'[h] = guard[h]
  BY <1>1 DEF TypeOK
<1>5. TypeOK'
  BY <1>1, <1>2 DEF TypeOK
<1>6. GuardsHold'
  BY <1>2, <1>4 DEF GuardsHold
<1>7. OneHolder'
  <2> SUFFICES ASSUME NEW i \in Started
               PROVE  /\ \A a, b \in Holders(i)' : a = b
                      /\ ~spans'[i].ended => Holders(i)' # {}
    BY <1>2 DEF OneHolder
  <2>1. Holders(i)' = Holders(i) \ {g}
    BY <1>4 DEF Holders
  <2>2. g \in Holders(i) => spans'[i].ended
    BY <1>2 DEF Holders
  <2> QED
    BY <2>1, <2>2, <1>2 DEF OneHolder
<1>8. NoForgedContext'
  BY <1>1, <1>2, <1>3, <1>4 DEF NoForgedContext
<1> QED
  BY <1>3, <1>5, <1>6, <1>7, <1>8

----------------------------------------------------------------------------
(* Contexts, scopes and the sampler. *)

(* The contexts a program can pass on are known. *)
LEMMA AvailableKnown ==
    ASSUME SGInv, NEW c \in Available \cup {None}
    PROVE  /\ c \in TraceContext \cup {None}
           /\ c # None => SpanContextOf(c) \in Known
BY SpanGuardAssumption DEF SGInv, TypeOK, Available, Known, NoForgedContext

(* currentContext() is a known context with the thread's tracestate. *)
LEMMA CurrentKnown ==
    ASSUME SGInv, NEW t \in Threads
    PROVE  /\ CurrentContext(t) \in TraceContext \cup {None}
           /\ CurrentContext(t) # None => SpanContextOf(CurrentContext(t)) \in Known
<1> USE DEF SGInv
<1>1. CASE current[t].spanContext = None
  BY <1>1 DEF CurrentContext
<1>2. CASE current[t].spanContext # None
  <2>1. current[t].spanContext \in SpanContext /\ current[t].tracestate \in Tracestates
    BY <1>2 DEF TypeOK, ContextState
  <2>2. current[t].spanContext \in Known
    BY <1>2 DEF NoForgedContext
  <2>3. CurrentContext(t) = ToTraceContext(current[t].spanContext, current[t].tracestate)
    BY <1>2 DEF CurrentContext
  <2> QED
    BY <2>1, <2>2, <2>3, Conversions
<1> QED
  BY <1>1, <1>2

(* Installing the state of a known context, or none, on a thread. *)
LEMMA InstallStep ==
    ASSUME SGInv, NEW t \in Threads, NEW c \in TraceContext \cup {None},
           c # None => SpanContextOf(c) \in Known,
           current' = [current EXCEPT ![t] = StateOf(c)]
    PROVE  /\ current' \in [Threads -> ContextState]
           /\ \A u \in Threads : current'[u].spanContext = None => current'[u] = Cleared
           /\ \A u \in Threads : current'[u].spanContext \in Known \cup {None}
<1> USE DEF SGInv
<1> DEFINE state == StateOf(c)
<1>1. /\ state \in ContextState
      /\ state.spanContext = None => state = Cleared
      /\ state.spanContext \in Known \cup {None}
  BY StateOfType
<1>2. current' = [current EXCEPT ![t] = state]
  OBVIOUS
<1> HIDE DEF state
<1> QED
  BY <1>1, <1>2 DEF TypeOK, NoForgedContext

(* A step that changes neither spans nor guards preserves the invariant if   *)
(* what it leaves in the threads, the scopes and the capture is known.       *)
LEMMA ContextStep ==
    ASSUME SGInv, UNCHANGED <<spans, guard>>,
           current' \in [Threads -> ContextState],
           \A u \in Threads : current'[u].spanContext = None => current'[u] = Cleared,
           \A u \in Threads : current'[u].spanContext \in Known \cup {None},
           scope' \in [Scopes -> ScopeData \cup {None}],
           \A k \in Scopes : scope'[k] # None /\ scope'[k].previous # None
                                => SpanContextOf(scope'[k].previous) \in Known,
           captured' \in TraceContext \cup {None},
           captured' # None => SpanContextOf(captured') \in Known,
           sampler' \in Samplers \cup {BuiltInSampler}
    PROVE  SGInv'
<1> USE DEF SGInv
<1>1. Started' = Started
  BY DEF Started
<1>2. /\ Known' = Known /\ Connected' /\ TracesStarted' /\ WholeTraces'
      /\ GuardsHold' /\ OneHolder'
  BY <1>1, OtherParts
<1>3. TypeOK'
  BY DEF TypeOK
<1>4. NoForgedContext'
  BY <1>2 DEF NoForgedContext
<1> QED
  BY <1>2, <1>3, <1>4

(* What the invariant says of the variables a step leaves alone, in the form *)
(* ContextStep asks for.                                                     *)
LEMMA Unchanged ==
    ASSUME SGInv
    PROVE  /\ UNCHANGED current =>
                /\ current' \in [Threads -> ContextState]
                /\ \A u \in Threads : current'[u].spanContext = None
                                          => current'[u] = Cleared
                /\ \A u \in Threads : current'[u].spanContext \in Known \cup {None}
           /\ UNCHANGED scope =>
                /\ scope' \in [Scopes -> ScopeData \cup {None}]
                /\ \A k \in Scopes : scope'[k] # None /\ scope'[k].previous # None
                                        => SpanContextOf(scope'[k].previous) \in Known
           /\ UNCHANGED captured =>
                /\ captured' \in TraceContext \cup {None}
                /\ captured' # None => SpanContextOf(captured') \in Known
           /\ UNCHANGED sampler => sampler' \in Samplers \cup {BuiltInSampler}
BY DEF SGInv, TypeOK, NoForgedContext

(* setCurrentContext and clearCurrentContext preserve the invariant. *)
LEMMA SetCurrentContextStep ==
    ASSUME SGInv, NEW t \in Threads, NEW c \in Available \cup {None},
           SetCurrentContext(t, c)
    PROVE  SGInv'
<1>1. current' = [current EXCEPT ![t] = StateOf(c)]
  BY DEF SetCurrentContext
<1>2. UNCHANGED <<spans, guard, scope, sampler, captured>>
  BY DEF SetCurrentContext
<1> QED
  BY <1>1, <1>2, AvailableKnown, InstallStep, Unchanged, ContextStep

(* captureTraceContext preserves the invariant. *)
LEMMA CaptureStep ==
    ASSUME SGInv, NEW t \in Threads, CaptureTraceContext(t)
    PROVE  SGInv'
<1>1. captured' = CurrentContext(t)
  BY DEF CaptureTraceContext
<1>2. UNCHANGED <<current, spans, guard, scope, sampler>>
  BY DEF CaptureTraceContext
<1> QED
  BY <1>1, <1>2, CurrentKnown, Unchanged, ContextStep

(* KernelTraceContextScope(context) preserves the invariant. *)
LEMMA EnterScopeStep ==
    ASSUME SGInv, NEW t \in Threads, NEW k \in Scopes, NEW c \in Available \cup {None},
           EnterScope(t, k, c)
    PROVE  SGInv'
<1> USE DEF SGInv
<1> DEFINE saved == [previous |-> CurrentContext(t)]
<1>1. saved \in ScopeData
  BY CurrentKnown DEF ScopeData
<1>2. saved.previous # None => SpanContextOf(saved.previous) \in Known
  BY CurrentKnown
<1>3. scope' = [scope EXCEPT ![k] = saved]
  BY DEF EnterScope
<1> HIDE DEF saved
<1>4. /\ scope' \in [Scopes -> ScopeData \cup {None}]
      /\ \A j \in Scopes : scope'[j] # None /\ scope'[j].previous # None
                              => SpanContextOf(scope'[j].previous) \in Known
  BY <1>1, <1>2, <1>3 DEF TypeOK, NoForgedContext
<1>5. current' = [current EXCEPT ![t] = StateOf(c)]
  BY DEF EnterScope
<1>6. UNCHANGED <<spans, guard, sampler, captured>>
  BY DEF EnterScope
<1> QED
  BY <1>4, <1>5, <1>6, AvailableKnown, InstallStep, Unchanged, ContextStep

(* ~KernelTraceContextScope() preserves the invariant, whether or not the    *)
(* copy of the tracestate throws.                                            *)
LEMMA ExitScopeStep ==
    ASSUME SGInv, NEW t \in Threads, NEW k \in Scopes, ExitScope(t, k)
    PROVE  SGInv'
<1> USE DEF SGInv
<1>1. scope[k] # None /\ scope' = [scope EXCEPT ![k] = None]
  BY DEF ExitScope
<1>2. UNCHANGED <<spans, guard, sampler, captured>>
  BY DEF ExitScope
<1>3. /\ scope' \in [Scopes -> ScopeData \cup {None}]
      /\ \A j \in Scopes : scope'[j] # None /\ scope'[j].previous # None
                              => SpanContextOf(scope'[j].previous) \in Known
  BY <1>1 DEF TypeOK, NoForgedContext
<1>4. PICK c \in TraceContext \cup {None} :
        /\ c # None => SpanContextOf(c) \in Known
        /\ current' = [current EXCEPT ![t] = StateOf(c)]
  <2>1. CASE current' = [current EXCEPT ![t] = StateOf(scope[k].previous)]
    <3>1. scope[k].previous \in TraceContext \cup {None}
      BY <1>1 DEF TypeOK, ScopeData
    <3>2. scope[k].previous # None => SpanContextOf(scope[k].previous) \in Known
      BY <1>1 DEF NoForgedContext
    <3> QED
      BY <2>1, <3>1, <3>2
  <2>2. CASE current' = [current EXCEPT ![t] = Cleared]
    <3>1. StateOf(None) = Cleared
      BY DEF StateOf
    <3> QED
      BY <2>2, <3>1
  <2> QED
    BY <2>1, <2>2 DEF ExitScope
<1> QED
  BY <1>2, <1>3, <1>4, InstallStep, Unchanged, ContextStep

(* setSampler preserves the invariant: no decision already taken changes. *)
LEMMA SetSamplerStep ==
    ASSUME SGInv, NEW sp \in Samplers \cup {BuiltInSampler}, SetSampler(sp)
    PROVE  SGInv'
<1>1. sampler' = sp
  BY DEF SetSampler
<1>2. UNCHANGED <<current, spans, guard, scope, captured>>
  BY DEF SetSampler
<1> QED
  BY <1>1, <1>2, Unchanged, ContextStep

----------------------------------------------------------------------------
(* Every step preserves the invariant. *)
LEMMA SGNext == SGInv /\ [Next]_vars => SGInv'
<1> SUFFICES ASSUME SGInv, [Next]_vars PROVE SGInv'
  OBVIOUS
<1>1. ASSUME NEW t \in Threads, NEW g \in Guards, NEW id \in SpanIds,
             StartSpan(t, g, id) \/ \E c \in Available : StartServerSpan(t, g, id, c)
      PROVE  SGInv'
  BY <1>1, StartStep
<1>2. ASSUME NEW g \in Guards, DefaultGuard(g) \/ EndGuard(g) PROVE SGInv'
  BY <1>2, DefaultGuardStep, EndGuardStep
<1>3. ASSUME NEW g \in Guards, NEW from \in Guards, MoveConstruct(g, from) PROVE SGInv'
  BY <1>3, MoveConstructStep
<1>4. ASSUME NEW t \in Threads, NEW g \in Guards, NEW from \in Guards,
             MoveAssign(t, g, from)
      PROVE  SGInv'
  BY <1>4, MoveAssignStep
<1>5. ASSUME NEW t \in Threads, NEW g \in Guards, DestroyGuard(t, g) PROVE SGInv'
  BY <1>5, DestroyGuardStep
<1>6. ASSUME NEW t \in Threads, NEW c \in Available \cup {None}, SetCurrentContext(t, c)
      PROVE  SGInv'
  BY <1>6, SetCurrentContextStep
<1>7. ASSUME NEW t \in Threads, CaptureTraceContext(t) PROVE SGInv'
  BY <1>7, CaptureStep
<1>8. ASSUME NEW t \in Threads, NEW k \in Scopes, NEW c \in Available \cup {None},
             EnterScope(t, k, c)
      PROVE  SGInv'
  BY <1>8, EnterScopeStep
<1>9. ASSUME NEW t \in Threads, NEW k \in Scopes, ExitScope(t, k) PROVE SGInv'
  BY <1>9, ExitScopeStep
<1>10. ASSUME NEW sp \in Samplers \cup {BuiltInSampler}, SetSampler(sp) PROVE SGInv'
  BY <1>10, SetSamplerStep
<1>11. CASE UNCHANGED vars
  <2>1. UNCHANGED <<current, spans, guard, scope, sampler, captured>>
    BY <1>11 DEF vars
  <2> QED
    BY <2>1, Unchanged, ContextStep
<1> QED
  BY <1>1, <1>2, <1>3, <1>4, <1>5, <1>6, <1>7, <1>8, <1>9, <1>10, <1>11 DEF Next

(* The invariant holds in every behaviour of the guards, scopes and samplers. *)
THEOREM SGInvariant == Spec => []SGInv
<1> QED
  BY SGInit, SGNext, PTL DEF Spec

(* The types hold, and a thread whose context was cleared or restored to     *)
(* nothing never keeps a tracestate.                                         *)
THEOREM SGTypeCorrect == Spec => []TypeOK
<1>1. SGInv => TypeOK
  BY DEF SGInv
<1> QED
  BY <1>1, SGInvariant, PTL

(* No order of moves, assignments, ends and destructions of guards, on any   *)
(* threads, orphans an open span or gives it two guards.                     *)
THEOREM EverySpanHeld == Spec => []OneHolder
<1>1. SGInv => OneHolder
  BY DEF SGInv
<1> QED
  BY <1>1, SGInvariant, PTL

(* Every context that is current, saved or captured is that of a span        *)
(* started here or received, whatever conversions it went through.           *)
THEOREM ContextsAreKnown == Spec => []NoForgedContext
<1>1. SGInv => NoForgedContext
  BY DEF SGInv
<1> QED
  BY <1>1, SGInvariant, PTL

(* Every span started hangs below a valid known span of its trace, or starts *)
(* a trace of its own.                                                       *)
THEOREM TracesConnected == Spec => []Connected
<1>1. SGInv => Connected
  BY DEF SGInv
<1> QED
  BY <1>1, SGInvariant, PTL

(* With parent-based samplers a trace is sampled as a whole, although the    *)
(* sampler may be replaced between any two of its spans.                     *)
THEOREM TracesWhole == Spec => []WholeTraces
<1>1. SGInv => WholeTraces
  BY DEF SGInv
<1> QED
  BY <1>1, SGInvariant, PTL

----------------------------------------------------------------------------
(* Scoped use implements the stack of contexts. *)

(* What x puts back, given the guards and the scopes. *)
SavedIn(gd, sc, x) == IF x \in Guards THEN gd[x].previous ELSE StateOf(sc[x].previous)

(* The contexts covered on a thread whose nesting is `row` ... *)
Covered(row, gd, sc) == [i \in 1 .. Len(row) |-> SavedIn(gd, sc, row[i])]

(* ... and those with the current one on top. *)
Row(row, gd, sc, top) ==
    [i \in 1 .. (Len(row) + 1) |->
        IF i <= Len(row) THEN SavedIn(gd, sc, row[i]) ELSE top]

(* x saves a context of its thread. *)
IsOpen(gd, sc, x) ==
    \/ x \in Guards /\ gd[x] # None /\ gd[x].active
    \/ x \in Scopes /\ sc[x] # None

(* What is nested is open, and in one place. *)
NestOK ==
    /\ nest \in [Threads -> Seq(Guards \cup Scopes)]
    /\ \A t \in Threads : \A i \in 1 .. Len(nest[t]) : IsOpen(guard, scope, nest[t][i])
    /\ \A t, u \in Threads : \A i \in 1 .. Len(nest[t]), j \in 1 .. Len(nest[u]) :
          nest[t][i] = nest[u][j] => t = u /\ i = j

(* A guard that saved no context saved no tracestate either. *)
SavedNormal ==
    \A g \in Guards :
        guard[g] # None /\ guard[g].previous.spanContext = None
          => guard[g].previous = Cleared

ScopedInv == SGInv /\ NestOK /\ SavedNormal

(* The step leaves what is open, and what it saved, alone, except x. *)
KeptExcept(x) ==
    \A y \in (Guards \cup Scopes) \ {x} : IsOpen(guard, scope, y) =>
        /\ IsOpen(guard', scope', y)
        /\ SavedIn(guard', scope', y) = SavedIn(guard, scope, y)

(* The step leaves all that is open, and what it saved, alone. *)
AllKept ==
    \A y \in Guards \cup Scopes : IsOpen(guard, scope, y) =>
        /\ IsOpen(guard', scope', y)
        /\ SavedIn(guard', scope', y) = SavedIn(guard, scope, y)

(* The stack of a thread, before a step and after it. *)
LEMMA ContextsOf ==
    ASSUME NEW t \in Threads
    PROVE  /\ Contexts[t] = Row(nest[t], guard, scope, current[t])
           /\ Contexts'[t] = Row(nest'[t], guard', scope', current'[t])
BY DEF Contexts, Row, Saved, SavedIn

(* The stack has one context more than there are guards and scopes, and     *)
(* below its top are those they saved.                                      *)
LEMMA RowShape ==
    ASSUME NEW row \in Seq(Guards \cup Scopes), NEW gd, NEW sc, NEW top
    PROVE  /\ Len(Row(row, gd, sc, top)) = Len(row) + 1
           /\ Row(row, gd, sc, top)[Len(row) + 1] = top
           /\ Stack!Below(Row(row, gd, sc, top)) = Covered(row, gd, sc)
           /\ Len(Covered(row, gd, sc)) = Len(row)
<1> DEFINE r == Row(row, gd, sc, top)
<1>1. Len(row) \in Nat
  OBVIOUS
<1>2. /\ DOMAIN r = 1 .. (Len(row) + 1) /\ Len(r) = Len(row) + 1
      /\ r[Len(row) + 1] = top
      /\ \A i \in 1 .. Len(row) : r[i] = SavedIn(gd, sc, row[i])
  BY <1>1 DEF Row
<1>3. SubSeq(r, 1, Len(row)) = [i \in 1 .. Len(row) |-> r[i]]
  BY <1>1
<1>4. SubSeq(r, 1, Len(row)) = Covered(row, gd, sc)
  BY <1>2, <1>3 DEF Covered
<1>5. Len(Covered(row, gd, sc)) = Len(row)
  BY <1>1 DEF Covered
<1> HIDE DEF r
<1>6. Stack!Below(r) = SubSeq(r, 1, Len(row))
  BY <1>1, <1>2 DEF Stack!Below
<1> QED
  BY <1>2, <1>4, <1>5, <1>6 DEF r

(* So has the stack of a thread, before a step ... *)
LEMMA ContextsShape ==
    ASSUME NEW t \in Threads, nest[t] \in Seq(Guards \cup Scopes)
    PROVE  /\ Len(Contexts[t]) = Len(nest[t]) + 1
           /\ Stack!Below(Contexts[t]) = Covered(nest[t], guard, scope)
<1>1. /\ Len(Row(nest[t], guard, scope, current[t])) = Len(nest[t]) + 1
      /\ Stack!Below(Row(nest[t], guard, scope, current[t])) = Covered(nest[t], guard, scope)
  BY RowShape
<1> QED
  BY <1>1, ContextsOf

(* ... and after it. *)
LEMMA ContextsShapeAfter ==
    ASSUME NEW t \in Threads, nest'[t] \in Seq(Guards \cup Scopes)
    PROVE  /\ Len(Contexts'[t]) = Len(nest'[t]) + 1
           /\ Contexts'[t][Len(nest'[t]) + 1] = current'[t]
           /\ Stack!Below(Contexts'[t]) = Covered(nest'[t], guard', scope')
<1>1. /\ Len(Row(nest'[t], guard', scope', current'[t])) = Len(nest'[t]) + 1
      /\ Row(nest'[t], guard', scope', current'[t])[Len(nest'[t]) + 1] = current'[t]
      /\ Stack!Below(Row(nest'[t], guard', scope', current'[t]))
           = Covered(nest'[t], guard', scope')
  BY RowShape
<1> QED
  BY <1>1, ContextsOf

(* The same nesting, with what it saved unchanged, is the same stack. *)
LEMMA SameRow ==
    ASSUME NEW row \in Seq(Guards \cup Scopes), NEW gd, NEW sc, NEW gd2, NEW sc2, NEW top,
           \A i \in 1 .. Len(row) : SavedIn(gd2, sc2, row[i]) = SavedIn(gd, sc, row[i])
    PROVE  /\ Row(row, gd2, sc2, top) = Row(row, gd, sc, top)
           /\ Covered(row, gd2, sc2) = Covered(row, gd, sc)
BY DEF Row, Covered

(* What a new guard or scope covers is the stack as it was. *)
LEMMA PushedRow ==
    ASSUME NEW row \in Seq(Guards \cup Scopes), NEW x \in Guards \cup Scopes,
           NEW gd, NEW sc, NEW gd2, NEW sc2, NEW top,
           \A i \in 1 .. Len(row) : SavedIn(gd2, sc2, row[i]) = SavedIn(gd, sc, row[i]),
           SavedIn(gd2, sc2, x) = top
    PROVE  Covered(Append(row, x), gd2, sc2) = Row(row, gd, sc, top)
<1>1. /\ Len(Append(row, x)) = Len(row) + 1 /\ Append(row, x)[Len(row) + 1] = x
      /\ \A i \in 1 .. Len(row) : Append(row, x)[i] = row[i]
      /\ Len(row) \in Nat
  OBVIOUS
<1>2. \A i \in 1 .. (Len(row) + 1) : i <= Len(row) => i \in 1 .. Len(row)
  BY <1>1
<1> QED
  BY <1>1, <1>2 DEF Row, Covered

----------------------------------------------------------------------------
(* What is nested is nested once. *)
LEMMA NestedOnce ==
    ASSUME NestOK, NEW u \in Threads, NEW v \in Threads, NEW i \in 1 .. Len(nest[u]),
           NEW j \in 1 .. Len(nest[v]), nest[u][i] = nest[v][j]
    PROVE  u = v /\ i = j
BY DEF NestOK

(* Opening: x, not open before, is nested last on thread t. *)
LEMMA OpenNest ==
    ASSUME NestOK, NEW t \in Threads, NEW x \in Guards \cup Scopes,
           ~IsOpen(guard, scope, x), IsOpen(guard', scope', x), KeptExcept(x), Enters(t, x)
    PROVE  NestOK' /\ \A u \in Threads, i \in Nat : i \in 1 .. Len(nest[u]) =>
                         SavedIn(guard', scope', nest[u][i]) = SavedIn(guard, scope, nest[u][i])
<1>a. nest \in [Threads -> Seq(Guards \cup Scopes)]
  BY DEF NestOK
<1>b. \A u, v \in Threads : \A i \in 1 .. Len(nest[u]), j \in 1 .. Len(nest[v]) :
         nest[u][i] = nest[v][j] => u = v /\ i = j
  BY DEF NestOK
<1>1. \A u \in Threads : \A i \in 1 .. Len(nest[u]) :
         /\ nest[u][i] \in (Guards \cup Scopes) \ {x}
         /\ IsOpen(guard', scope', nest[u][i])
         /\ SavedIn(guard', scope', nest[u][i]) = SavedIn(guard, scope, nest[u][i])
  <2> SUFFICES ASSUME NEW u \in Threads, NEW i \in 1 .. Len(nest[u])
               PROVE  /\ nest[u][i] \in (Guards \cup Scopes) \ {x}
                      /\ IsOpen(guard', scope', nest[u][i])
                      /\ SavedIn(guard', scope', nest[u][i]) = SavedIn(guard, scope, nest[u][i])
    OBVIOUS
  <2>1. nest[u][i] \in Guards \cup Scopes
    BY <1>a
  <2>2. IsOpen(guard, scope, nest[u][i]) /\ nest[u][i] # x
    BY DEF NestOK
  <2> QED
    BY <2>1, <2>2 DEF KeptExcept
<1>2. nest' = [nest EXCEPT ![t] = Append(nest[t], x)]
  BY DEF Enters
<1>3. nest' \in [Threads -> Seq(Guards \cup Scopes)]
  BY <1>a, <1>2
<1>4. /\ Len(nest'[t]) = Len(nest[t]) + 1 /\ nest'[t][Len(nest[t]) + 1] = x
      /\ \A i \in 1 .. Len(nest[t]) : nest'[t][i] = nest[t][i]
      /\ \A u \in Threads \ {t} : nest'[u] = nest[u]
      /\ \A u \in Threads : Len(nest[u]) \in Nat
  BY <1>a, <1>2
<1>5. \A u \in Threads : \A i \in 1 .. Len(nest'[u]) :
         \/ i \in 1 .. Len(nest[u]) /\ nest'[u][i] = nest[u][i]
         \/ u = t /\ i = Len(nest[t]) + 1 /\ nest'[u][i] = x
  BY <1>4
<1>6. ASSUME NEW u \in Threads, NEW i \in 1 .. Len(nest'[u])
      PROVE  IsOpen(guard', scope', nest'[u][i])
  BY <1>1, <1>5
<1>7. ASSUME NEW u \in Threads, NEW v \in Threads, NEW i \in 1 .. Len(nest'[u]),
             NEW j \in 1 .. Len(nest'[v]), nest'[u][i] = nest'[v][j]
      PROVE  u = v /\ i = j
  <2>1. CASE i \in 1 .. Len(nest[u]) /\ nest'[u][i] = nest[u][i]
    <3>1. nest'[v][j] # x
      BY <1>1, <1>7, <2>1
    <3>2. j \in 1 .. Len(nest[v]) /\ nest'[v][j] = nest[v][j]
      BY <1>5, <3>1
    <3>3. nest[u][i] = nest[v][j]
      BY <1>7, <2>1, <3>2
    <3> QED
      BY <1>b, <2>1, <3>2, <3>3
  <2>2. CASE u = t /\ i = Len(nest[t]) + 1 /\ nest'[u][i] = x
    <3>1. ~(j \in 1 .. Len(nest[v]) /\ nest'[v][j] = nest[v][j])
      BY <1>1, <1>7, <2>2
    <3>2. v = t /\ j = Len(nest[t]) + 1
      BY <1>5, <3>1
    <3> QED
      BY <2>2, <3>2
  <2> QED
    BY <1>5, <2>1, <2>2
<1> QED
  BY <1>1, <1>3, <1>6, <1>7 DEF NestOK

(* Closing: x, nested last on thread t, leaves. *)
LEMMA CloseNest ==
    ASSUME NestOK, NEW t \in Threads, NEW x \in Guards \cup Scopes,
           KeptExcept(x), Leaves(t, x)
    PROVE  /\ NestOK'
           /\ Len(nest[t]) \in Nat \ {0}
           /\ x = nest[t][Len(nest[t])]
           /\ \A i \in 1 .. (Len(nest[t]) - 1) :
                 SavedIn(guard', scope', nest[t][i]) = SavedIn(guard, scope, nest[t][i])
           /\ \A u \in Threads \ {t} : \A i \in 1 .. Len(nest[u]) :
                 SavedIn(guard', scope', nest[u][i]) = SavedIn(guard, scope, nest[u][i])
<1>a. nest \in [Threads -> Seq(Guards \cup Scopes)]
  BY DEF NestOK
<1>b. nest[t] # <<>> /\ nest[t] \in Seq(Guards \cup Scopes)
  BY <1>a DEF Leaves
<1>c. Len(nest[t]) \in Nat \ {0}
  BY <1>b, EmptySeq
<1>d. x = nest[t][Len(nest[t])] /\ Len(nest[t]) \in 1 .. Len(nest[t])
  BY <1>c DEF Leaves
<1>1. \A u \in Threads : \A i \in 1 .. Len(nest[u]) :
         nest[u][i] = x \/ /\ IsOpen(guard', scope', nest[u][i])
                           /\ SavedIn(guard', scope', nest[u][i])
                                = SavedIn(guard, scope, nest[u][i])
  <2> SUFFICES ASSUME NEW u \in Threads, NEW i \in 1 .. Len(nest[u]), nest[u][i] # x
               PROVE  /\ IsOpen(guard', scope', nest[u][i])
                      /\ SavedIn(guard', scope', nest[u][i]) = SavedIn(guard, scope, nest[u][i])
    OBVIOUS
  <2>1. nest[u][i] \in Guards \cup Scopes
    BY <1>a
  <2>2. IsOpen(guard, scope, nest[u][i])
    BY DEF NestOK
  <2> QED
    BY <2>1, <2>2 DEF KeptExcept
<1>2. nest' = [nest EXCEPT ![t] = SubSeq(nest[t], 1, Len(nest[t]) - 1)]
  BY DEF Leaves
<1>3. nest' \in [Threads -> Seq(Guards \cup Scopes)]
  BY <1>a, <1>2
<1>4. /\ Len(nest'[t]) = Len(nest[t]) - 1
      /\ \A i \in 1 .. (Len(nest[t]) - 1) : nest'[t][i] = nest[t][i]
      /\ \A u \in Threads \ {t} : nest'[u] = nest[u]
  <2>1. PICK row \in Seq(Guards \cup Scopes) : row = nest[t]
    BY <1>a
  <2>a. PICK n : n = Len(row) - 1
    OBVIOUS
  <2>2. n \in Nat /\ Len(row) = n + 1
    BY <1>c, <2>1, <2>a
  <2>3. nest'[t] = SubSeq(row, 1, n) /\ \A u \in Threads \ {t} : nest'[u] = nest[u]
    BY <1>a, <1>2, <2>1, <2>2
  <2>4. Len(SubSeq(row, 1, n)) = n /\ \A i \in 1 .. n : SubSeq(row, 1, n)[i] = row[i]
    BY <2>2
  <2> QED
    BY <2>1, <2>2, <2>3, <2>4
<1>5. \A u \in Threads : \A i \in 1 .. Len(nest[u]) :
         nest[u][i] = x => u = t /\ i = Len(nest[t])
  BY <1>d DEF NestOK
<1>6. \A u \in Threads : \A i \in 1 .. Len(nest'[u]) :
         /\ i \in 1 .. Len(nest[u]) /\ nest'[u][i] = nest[u][i]
         /\ ~(u = t /\ i = Len(nest[t]))
  BY <1>c, <1>4
<1>7. ASSUME NEW u \in Threads, NEW i \in 1 .. Len(nest'[u])
      PROVE  IsOpen(guard', scope', nest'[u][i])
  BY <1>1, <1>5, <1>6
<1>8. ASSUME NEW u \in Threads, NEW v \in Threads, NEW i \in 1 .. Len(nest'[u]),
             NEW j \in 1 .. Len(nest'[v]), nest'[u][i] = nest'[v][j]
      PROVE  u = v /\ i = j
  <2>1. i \in 1 .. Len(nest[u]) /\ nest'[u][i] = nest[u][i]
    BY <1>6
  <2>2. j \in 1 .. Len(nest[v]) /\ nest'[v][j] = nest[v][j]
    BY <1>6
  <2>3. nest[u][i] = nest[v][j]
    BY <1>8, <2>1, <2>2
  <2> QED
    BY <2>1, <2>2, <2>3, NestedOnce
<1>9. NestOK'
  BY <1>3, <1>7, <1>8 DEF NestOK
<1>10. ASSUME NEW i \in 1 .. (Len(nest[t]) - 1)
       PROVE  SavedIn(guard', scope', nest[t][i]) = SavedIn(guard, scope, nest[t][i])
  <2>1. i \in 1 .. Len(nest[t]) /\ i # Len(nest[t])
    BY <1>c
  <2> QED
    BY <1>1, <1>5, <2>1
<1>11. ASSUME NEW u \in Threads \ {t}, NEW i \in 1 .. Len(nest[u])
       PROVE  SavedIn(guard', scope', nest[u][i]) = SavedIn(guard, scope, nest[u][i])
  BY <1>1, <1>5
<1> QED
  BY <1>c, <1>d, <1>9, <1>10, <1>11

(* Keeping: nothing is opened or closed. *)
LEMMA KeepNest ==
    ASSUME NestOK, UNCHANGED nest, AllKept
    PROVE  /\ NestOK'
           /\ \A u \in Threads : \A i \in 1 .. Len(nest[u]) :
                 SavedIn(guard', scope', nest[u][i]) = SavedIn(guard, scope, nest[u][i])
<1>a. nest \in [Threads -> Seq(Guards \cup Scopes)]
  BY DEF NestOK
<1>1. ASSUME NEW u \in Threads, NEW i \in 1 .. Len(nest[u])
      PROVE  /\ IsOpen(guard', scope', nest[u][i])
             /\ SavedIn(guard', scope', nest[u][i]) = SavedIn(guard, scope, nest[u][i])
  <2>1. nest[u][i] \in Guards \cup Scopes
    BY <1>a
  <2>2. IsOpen(guard, scope, nest[u][i])
    BY DEF NestOK
  <2> QED
    BY <2>1, <2>2 DEF AllKept
<1> QED
  BY <1>a, <1>1 DEF NestOK

(* Moving: g takes the place of `from`, and what `from` saved. *)
LEMMA MoveNest ==
    ASSUME NestOK, NEW g \in Guards, NEW from \in Guards, g # from,
           ~IsOpen(guard, scope, g), TakesPlace(g, from),
           IsOpen(guard, scope, from) => IsOpen(guard', scope', g),
           SavedIn(guard', scope', g) = SavedIn(guard, scope, from),
           \A y \in (Guards \cup Scopes) \ {g, from} :
              IsOpen(guard', scope', y) = IsOpen(guard, scope, y)
                /\ SavedIn(guard', scope', y) = SavedIn(guard, scope, y)
    PROVE  /\ NestOK'
           /\ \A u \in Threads :
                 /\ Len(nest'[u]) = Len(nest[u])
                 /\ \A i \in 1 .. Len(nest[u]) :
                       SavedIn(guard', scope', nest'[u][i]) = SavedIn(guard, scope, nest[u][i])
<1>a. nest \in [Threads -> Seq(Guards \cup Scopes)]
  BY DEF NestOK
<1>1. \A u \in Threads :
         nest'[u] = [i \in DOMAIN nest[u] |-> IF nest[u][i] = from THEN g ELSE nest[u][i]]
  BY DEF TakesPlace
<1>2. ASSUME NEW u \in Threads
      PROVE  /\ nest'[u] \in Seq(Guards \cup Scopes) /\ Len(nest'[u]) = Len(nest[u])
             /\ \A i \in 1 .. Len(nest[u]) :
                   nest'[u][i] = IF nest[u][i] = from THEN g ELSE nest[u][i]
  <2>1. PICK row \in Seq(Guards \cup Scopes) : row = nest[u]
    BY <1>a
  <2>2. PICK moved : moved = [i \in DOMAIN row |-> IF row[i] = from THEN g ELSE row[i]]
    OBVIOUS
  <2>3. /\ Len(row) \in Nat /\ DOMAIN row = 1 .. Len(row)
        /\ \A i \in 1 .. Len(row) : row[i] \in Guards \cup Scopes
    OBVIOUS
  <2>4. moved \in [1 .. Len(row) -> Guards \cup Scopes]
    BY <2>2, <2>3
  <2>5. moved \in Seq(Guards \cup Scopes) /\ Len(moved) = Len(row)
    BY <2>3, <2>4
  <2>6. nest'[u] = moved
    BY <1>1, <2>1, <2>2
  <2> QED
    BY <2>1, <2>2, <2>3, <2>5, <2>6
<1>3. ASSUME NEW u \in Threads, NEW i \in 1 .. Len(nest[u])
      PROVE  /\ nest[u][i] \in Guards \cup Scopes /\ nest[u][i] # g
             /\ IsOpen(guard, scope, nest[u][i])
  BY <1>a DEF NestOK
<1>4. ASSUME NEW u \in Threads, NEW i \in 1 .. Len(nest[u])
      PROVE  /\ IsOpen(guard', scope', nest'[u][i])
             /\ SavedIn(guard', scope', nest'[u][i]) = SavedIn(guard, scope, nest[u][i])
  <2>1. CASE nest[u][i] = from
    BY <1>2, <1>3, <2>1
  <2>2. CASE nest[u][i] # from
    BY <1>2, <1>3, <2>2
  <2> QED
    BY <2>1, <2>2
<1>5. ASSUME NEW u \in Threads, NEW v \in Threads, NEW i \in 1 .. Len(nest[u]),
             NEW j \in 1 .. Len(nest[v]), nest'[u][i] = nest'[v][j]
      PROVE  u = v /\ i = j
  <2>1. nest[u][i] = nest[v][j]
    BY <1>2, <1>3, <1>5
  <2> QED
    BY <2>1 DEF NestOK
<1>6. nest' \in [Threads -> Seq(Guards \cup Scopes)]
  <2>1. nest' = [u \in Threads |-> nest'[u]]
    BY DEF TakesPlace
  <2> QED
    BY <1>2, <2>1
<1> QED
  BY <1>2, <1>4, <1>5, <1>6 DEF NestOK

----------------------------------------------------------------------------
(* The stacks of the other threads stay as they are. *)
LEMMA OtherRows ==
    ASSUME NestOK, NEW t \in Threads, NEW u \in Threads \ {t}, nest'[u] = nest[u],
           current'[u] = current[u],
           \A i \in 1 .. Len(nest[u]) :
              SavedIn(guard', scope', nest[u][i]) = SavedIn(guard, scope, nest[u][i])
    PROVE  Contexts'[u] = Contexts[u]
<1>1. nest[u] \in Seq(Guards \cup Scopes)
  BY DEF NestOK
<1>2. Row(nest[u], guard', scope', current[u]) = Row(nest[u], guard, scope, current[u])
  BY <1>1, SameRow
<1> QED
  BY <1>2, ContextsOf

(* The context a step leaves on top is a context. *)
LEMMA TopIsContext ==
    ASSUME NestOK', TypeOK', NEW t \in Threads
    PROVE  Stack!Top(Contexts'[t]) \in ContextState
<1>1. nest'[t] \in Seq(Guards \cup Scopes)
  BY DEF NestOK
<1>2. Len(Contexts'[t]) = Len(nest'[t]) + 1 /\ Contexts'[t][Len(nest'[t]) + 1] = current'[t]
  BY <1>1, ContextsShapeAfter
<1>3. current'[t] \in ContextState
  BY DEF TypeOK
<1> QED
  BY <1>2, <1>3 DEF Stack!Top

(* A guard or scope opened on t pushes. *)
LEMMA OpeningPushes ==
    ASSUME NestOK, TypeOK', NEW t \in Threads, NEW x \in Guards \cup Scopes,
           ~IsOpen(guard, scope, x), IsOpen(guard', scope', x), KeptExcept(x), Enters(t, x),
           SavedIn(guard', scope', x) = current[t],
           \A u \in Threads \ {t} : current'[u] = current[u]
    PROVE  NestOK' /\ Stack!Next
<1>1. NestOK' /\ \A u \in Threads, i \in Nat : i \in 1 .. Len(nest[u]) =>
                    SavedIn(guard', scope', nest[u][i]) = SavedIn(guard, scope, nest[u][i])
  BY OpenNest
<1>2. /\ nest[t] \in Seq(Guards \cup Scopes) /\ nest'[t] \in Seq(Guards \cup Scopes)
      /\ nest'[t] = Append(nest[t], x) /\ \A u \in Threads \ {t} : nest'[u] = nest[u]
  BY <1>1 DEF NestOK, Enters
<1>3. \A i \in 1 .. Len(nest[t]) :
         SavedIn(guard', scope', nest[t][i]) = SavedIn(guard, scope, nest[t][i])
  BY <1>1, <1>2
<1>4. Covered(nest'[t], guard', scope') = Row(nest[t], guard, scope, current[t])
  BY <1>2, <1>3, PushedRow
<1>5. Stack!Open(t)
  <2>1. Len(nest'[t]) = Len(nest[t]) + 1
    BY <1>2
  <2>2. Len(Contexts'[t]) = Len(nest'[t]) + 1 /\ Len(Contexts[t]) = Len(nest[t]) + 1
    BY <1>2, ContextsShape, ContextsShapeAfter
  <2>3. Stack!Below(Contexts'[t]) = Contexts[t]
    BY <1>2, <1>4, ContextsOf, ContextsShapeAfter
  <2> QED
    BY <2>1, <2>2, <2>3 DEF Stack!Open
<1>6. ASSUME NEW u \in Threads \ {t} PROVE Contexts'[u] = Contexts[u]
  <2>1. \A i \in 1 .. Len(nest[u]) :
           SavedIn(guard', scope', nest[u][i]) = SavedIn(guard, scope, nest[u][i])
    BY <1>1
  <2> QED
    BY <1>2, <2>1, OtherRows
<1> QED
  BY <1>1, <1>5, <1>6, TopIsContext DEF Stack!Next

(* The guard or scope opened last on t pops when it is closed. *)
LEMMA ClosingPops ==
    ASSUME NestOK, TypeOK', NEW t \in Threads, NEW x \in Guards \cup Scopes,
           KeptExcept(x), Leaves(t, x), current'[t] = SavedIn(guard, scope, x),
           \A u \in Threads \ {t} : current'[u] = current[u]
    PROVE  NestOK' /\ Stack!Next
<1>1. /\ NestOK'
      /\ Len(nest[t]) \in Nat \ {0} /\ x = nest[t][Len(nest[t])]
      /\ \A i \in 1 .. (Len(nest[t]) - 1) :
            SavedIn(guard', scope', nest[t][i]) = SavedIn(guard, scope, nest[t][i])
      /\ \A u \in Threads \ {t} : \A i \in 1 .. Len(nest[u]) :
            SavedIn(guard', scope', nest[u][i]) = SavedIn(guard, scope, nest[u][i])
  BY CloseNest
<1>2. /\ nest[t] \in Seq(Guards \cup Scopes) /\ nest'[t] \in Seq(Guards \cup Scopes)
      /\ nest'[t] = SubSeq(nest[t], 1, Len(nest[t]) - 1)
      /\ \A u \in Threads \ {t} : nest'[u] = nest[u]
  BY <1>1 DEF NestOK, Leaves
<1>3. PICK n : n = Len(nest[t]) - 1
  OBVIOUS
<1>4. n \in Nat /\ Len(nest[t]) = n + 1
  BY <1>1, <1>3
<1>5. Row(SubSeq(nest[t], 1, n), guard', scope', SavedIn(guard, scope, nest[t][n + 1]))
        = Covered(nest[t], guard, scope)
  <2>1. PICK row, short, top :
          row = nest[t] /\ short = SubSeq(row, 1, n) /\ top = SavedIn(guard, scope, row[n + 1])
    OBVIOUS
  <2>2. \A i \in 1 .. n : SavedIn(guard', scope', row[i]) = SavedIn(guard, scope, row[i])
    BY <1>1, <1>3, <2>1
  <2>3. Len(short) = n /\ \A i \in 1 .. n : short[i] = row[i]
    BY <1>2, <1>4, <2>1
  <2>4. \A i \in 1 .. (n + 1) : (i <= n => i \in 1 .. n) /\ (~(i <= n) => i = n + 1)
    BY <1>4
  <2>5. Row(short, guard', scope', top) = Covered(row, guard, scope)
    BY <1>4, <2>1, <2>2, <2>3, <2>4 DEF Row, Covered
  <2> QED
    BY <2>1, <2>5
<1>6. Contexts'[t] = Covered(nest[t], guard, scope)
  BY <1>1, <1>2, <1>3, <1>4, <1>5, ContextsOf
<1>7. Stack!Close(t)
  <2>1. Len(Contexts[t]) = n + 2 /\ Stack!Below(Contexts[t]) = Covered(nest[t], guard, scope)
    BY <1>2, <1>4, ContextsShape
  <2> QED
    BY <1>4, <1>6, <2>1 DEF Stack!Close
<1>8. ASSUME NEW u \in Threads \ {t} PROVE Contexts'[u] = Contexts[u]
  BY <1>1, <1>2, OtherRows
<1> QED
  BY <1>1, <1>7, <1>8, TopIsContext DEF Stack!Next

(* A step on t that opens and closes nothing replaces the top at most. *)
LEMMA KeepingReplaces ==
    ASSUME NestOK, TypeOK', NEW t \in Threads, UNCHANGED nest, AllKept,
           \A u \in Threads \ {t} : current'[u] = current[u]
    PROVE  NestOK' /\ Stack!Next
<1>1. /\ NestOK'
      /\ \A u \in Threads : \A i \in 1 .. Len(nest[u]) :
            SavedIn(guard', scope', nest[u][i]) = SavedIn(guard, scope, nest[u][i])
  BY KeepNest
<1>2. nest[t] \in Seq(Guards \cup Scopes) /\ nest' = nest
  BY DEF NestOK
<1>3. Stack!Replace(t)
  <2>1. Covered(nest[t], guard', scope') = Covered(nest[t], guard, scope)
    <3>1. \A i \in 1 .. Len(nest[t]) :
             SavedIn(guard', scope', nest[t][i]) = SavedIn(guard, scope, nest[t][i])
      BY <1>1
    <3> QED
      BY <3>1 DEF Covered
  <2>2. /\ Len(Contexts'[t]) = Len(nest[t]) + 1 /\ Len(Contexts[t]) = Len(nest[t]) + 1
        /\ Stack!Below(Contexts'[t]) = Covered(nest[t], guard', scope')
        /\ Stack!Below(Contexts[t]) = Covered(nest[t], guard, scope)
    BY <1>2, ContextsShape, ContextsShapeAfter
  <2> QED
    BY <2>1, <2>2 DEF Stack!Replace
<1>4. ASSUME NEW u \in Threads \ {t} PROVE Contexts'[u] = Contexts[u]
  BY <1>1, <1>2, OtherRows
<1> QED
  BY <1>1, <1>3, <1>4, TopIsContext DEF Stack!Next

(* A guard that takes the place of another changes no stack. *)
LEMMA MovingKeeps ==
    ASSUME NestOK, NEW g \in Guards, NEW from \in Guards, g # from, UNCHANGED current,
           ~IsOpen(guard, scope, g), TakesPlace(g, from),
           IsOpen(guard, scope, from) => IsOpen(guard', scope', g),
           SavedIn(guard', scope', g) = SavedIn(guard, scope, from),
           \A y \in (Guards \cup Scopes) \ {g, from} :
              IsOpen(guard', scope', y) = IsOpen(guard, scope, y)
                /\ SavedIn(guard', scope', y) = SavedIn(guard, scope, y)
    PROVE  NestOK' /\ UNCHANGED Contexts
<1>1. /\ NestOK'
      /\ \A u \in Threads :
            /\ Len(nest'[u]) = Len(nest[u])
            /\ \A i \in 1 .. Len(nest[u]) :
                  SavedIn(guard', scope', nest'[u][i]) = SavedIn(guard, scope, nest[u][i])
  BY MoveNest
<1>2. ASSUME NEW u \in Threads PROVE Contexts'[u] = Contexts[u]
  <2>1. Len(nest[u]) \in Nat
    BY DEF NestOK
  <2>2. \A i \in 1 .. (Len(nest[u]) + 1) : i <= Len(nest[u]) => i \in 1 .. Len(nest[u])
    BY <2>1
  <2>3. Row(nest'[u], guard', scope', current[u]) = Row(nest[u], guard, scope, current[u])
    BY <1>1, <2>2 DEF Row
  <2> QED
    BY <2>3, ContextsOf
<1>3. Contexts = [u \in Threads |-> Contexts[u]] /\ Contexts' = [u \in Threads |-> Contexts'[u]]
  BY DEF Contexts
<1> QED
  BY <1>1, <1>2, <1>3

----------------------------------------------------------------------------
(* What startSpan and startServerSpan change: the guard saves the context    *)
(* that the new one covers.                                                  *)
LEMMA StartSaves ==
    ASSUME SGInv, NEW t \in Threads, NEW g \in Guards, NEW id \in SpanIds,
           StartSpan(t, g, id) \/ \E c \in Available : StartServerSpan(t, g, id, c)
    PROVE  /\ guard[g] = None /\ scope' = scope
           /\ guard'[g] # None /\ guard'[g].active /\ guard'[g].previous = current[t]
           /\ \A h \in Guards \ {g} : guard'[h] = guard[h]
           /\ \A u \in Threads \ {t} : current'[u] = current[u]
<1>a. TypeOK
  BY DEF SGInv
<1>1. PICK context, ts, kind : Activate(t, g, id, context, ts, kind)
  BY StartsBelow
<1> DEFINE held == [span |-> id, previous |-> current[t], active |-> TRUE]
<1>2. held \in GuardData /\ held # None
  <2>1. current[t] \in ContextState
    BY <1>a DEF TypeOK
  <2>2. held \in GuardData
    BY <2>1 DEF GuardData
  <2> HIDE DEF held
  <2> QED
    BY <2>2, SpanGuardAssumption
<1>3. held.active /\ held.previous = current[t]
  OBVIOUS
<1>4. guard' = [guard EXCEPT ![g] = held] /\ guard[g] = None /\ scope' = scope
  BY <1>1 DEF Activate
<1>5. \A u \in Threads \ {t} : current'[u] = current[u]
  BY <1>a, <1>1 DEF Activate, TypeOK
<1> HIDE DEF held
<1> QED
  BY <1>a, <1>2, <1>3, <1>4, <1>5 DEF TypeOK

(* What a thread's context is saved as can be installed again. *)
LEMMA CapturedIsRestored ==
    ASSUME TypeOK, NEW t \in Threads
    PROVE  StateOf(CurrentContext(t)) = current[t]
<1>1. CASE current[t].spanContext = None
  BY <1>1 DEF TypeOK, CurrentContext, StateOf
<1>2. CASE current[t].spanContext # None
  <2>1. /\ current[t] \in ContextState
        /\ current[t].spanContext \in SpanContext /\ current[t].tracestate \in Tracestates
    BY <1>2 DEF TypeOK, ContextState
  <2>2. /\ CurrentContext(t) = ToTraceContext(current[t].spanContext, current[t].tracestate)
        /\ CurrentContext(t) \in TraceContext
        /\ SpanContextOf(CurrentContext(t)) = current[t].spanContext
    BY <1>2, <2>1, Conversions DEF CurrentContext
  <2>3. CurrentContext(t) # None /\ CurrentContext(t).tracestate = current[t].tracestate
    BY <2>2, SpanGuardAssumption DEF ToTraceContext
  <2>4. StateOf(CurrentContext(t))
          = [spanContext |-> current[t].spanContext, tracestate |-> current[t].tracestate]
    BY <2>2, <2>3 DEF StateOf
  <2> QED
    BY <2>1, <2>4 DEF ContextState
<1> QED
  BY <1>1, <1>2

(* Every step leaves the guards with normalized contexts. *)
LEMMA SavedNormalStep == ScopedInv /\ [Next]_vars => SavedNormal'
<1> SUFFICES ASSUME SGInv, SavedNormal, [Next]_vars PROVE SavedNormal'
  BY DEF ScopedInv
<1>a. /\ TypeOK /\ guard \in [Guards -> GuardData \cup {None}]
      /\ Inactive.previous = Cleared
  BY DEF SGInv, TypeOK, Inactive
<1>1. ASSUME NEW t \in Threads, NEW g \in Guards, NEW id \in SpanIds,
             StartSpan(t, g, id) \/ \E c \in Available : StartServerSpan(t, g, id, c)
      PROVE  SavedNormal'
  BY <1>1, <1>a, StartSaves DEF SavedNormal, TypeOK
<1>2. ASSUME NEW g \in Guards, DefaultGuard(g) PROVE SavedNormal'
  BY <1>2, <1>a DEF DefaultGuard, SavedNormal
<1>3. ASSUME NEW g \in Guards, NEW from \in Guards,
             MoveConstruct(g, from) \/ \E t \in Threads : MoveAssign(t, g, from)
      PROVE  SavedNormal'
  <2>1. guard' = [guard EXCEPT ![g] = guard[from], ![from] = Inactive]
    BY <1>3 DEF MoveConstruct, MoveAssign
  <2> QED
    BY <1>a, <2>1 DEF SavedNormal
<1>4. ASSUME NEW t \in Threads, NEW g \in Guards, DestroyGuard(t, g) PROVE SavedNormal'
  BY <1>4, <1>a DEF DestroyGuard, SavedNormal
<1>5. CASE UNCHANGED guard
  BY <1>5 DEF SavedNormal
<1>6. ASSUME \/ \E g \in Guards : EndGuard(g)
             \/ \E t \in Threads, c \in Available \cup {None} : SetCurrentContext(t, c)
             \/ \E t \in Threads : CaptureTraceContext(t)
             \/ \E t \in Threads, k \in Scopes, c \in Available \cup {None} :
                   EnterScope(t, k, c)
             \/ \E t \in Threads, k \in Scopes : ExitScope(t, k)
             \/ \E sp \in Samplers \cup {BuiltInSampler} : SetSampler(sp)
             \/ UNCHANGED vars
      PROVE  UNCHANGED guard
  BY <1>6 DEF EndGuard, SetCurrentContext, CaptureTraceContext, EnterScope, ExitScope,
              SetSampler, vars
<1> QED
  BY <1>1, <1>2, <1>3, <1>4, <1>5, <1>6 DEF Next

(* startSpan, startServerSpan and a context scope push a context. *)
LEMMA OpensStep ==
    ASSUME ScopedInv, TypeOK', NEW t \in Threads, Opens(t)
    PROVE  NestOK' /\ Stack!Next
<1>a. SGInv /\ NestOK /\ TypeOK /\ Guards \cap Scopes = {}
  BY ScopedAssumption DEF ScopedInv, SGInv
<1>1. ASSUME NEW g \in Guards, NEW id \in SpanIds, Enters(t, g),
             StartSpan(t, g, id) \/ \E c \in Available : StartServerSpan(t, g, id, c)
      PROVE  NestOK' /\ Stack!Next
  <2>1. /\ guard[g] = None /\ scope' = scope
        /\ guard'[g] # None /\ guard'[g].active /\ guard'[g].previous = current[t]
        /\ \A h \in Guards \ {g} : guard'[h] = guard[h]
        /\ \A u \in Threads \ {t} : current'[u] = current[u]
    BY <1>1, <1>a, StartSaves
  <2>2. /\ ~IsOpen(guard, scope, g) /\ IsOpen(guard', scope', g)
        /\ SavedIn(guard', scope', g) = current[t]
    BY <2>1, <1>a DEF IsOpen, SavedIn
  <2>3. KeptExcept(g)
    BY <2>1 DEF KeptExcept, IsOpen, SavedIn
  <2> QED
    BY <1>1, <1>a, <2>1, <2>2, <2>3, OpeningPushes
<1>2. ASSUME NEW k \in Scopes, NEW c, EnterScope(t, k, c), Enters(t, k)
      PROVE  NestOK' /\ Stack!Next
  <2> DEFINE saved == [previous |-> CurrentContext(t)]
  <2>1. /\ scope[k] = None /\ scope' = [scope EXCEPT ![k] = saved] /\ guard' = guard
        /\ \A u \in Threads \ {t} : current'[u] = current[u]
    BY <1>2, <1>a DEF EnterScope, TypeOK
  <2>2. saved # None /\ StateOf(saved.previous) = current[t]
    <3>1. saved \in ScopeData
      BY <1>a, CurrentKnown DEF ScopeData
    <3> QED
      BY <1>a, <3>1, CapturedIsRestored, SpanGuardAssumption
  <2> HIDE DEF saved
  <2>3. scope'[k] = saved /\ \A h \in Scopes \ {k} : scope'[h] = scope[h]
    BY <2>1, <1>a DEF TypeOK
  <2>4. /\ ~IsOpen(guard, scope, k) /\ IsOpen(guard', scope', k)
        /\ SavedIn(guard', scope', k) = current[t]
    BY <2>1, <2>2, <2>3, <1>a DEF IsOpen, SavedIn
  <2>5. KeptExcept(k)
    BY <2>1, <2>3 DEF KeptExcept, IsOpen, SavedIn
  <2> QED
    BY <1>2, <1>a, <2>1, <2>4, <2>5, OpeningPushes
<1> QED
  BY <1>1, <1>2 DEF Opens

(* The end of the innermost guard or scope uncovers what it covered. *)
LEMMA ClosesStep ==
    ASSUME ScopedInv, TypeOK', ~AllocationMayFail, NEW t \in Threads, Closes(t)
    PROVE  NestOK' /\ Stack!Next
<1>a. NestOK /\ TypeOK /\ Guards \cap Scopes = {} /\ SavedNormal
  BY ScopedAssumption DEF ScopedInv, SGInv
<1>1. ASSUME NEW g \in Guards, guard[g] # None, guard[g].active, DestroyGuard(t, g),
             Leaves(t, g)
      PROVE  NestOK' /\ Stack!Next
  <2>1. Normalized(guard[g].previous) = guard[g].previous
    BY <1>1, <1>a DEF SavedNormal, Normalized
  <2>2. current' = [current EXCEPT ![t] = guard[g].previous] /\ scope' = scope
        /\ \A h \in Guards \ {g} : guard'[h] = guard[h]
    BY <1>1, <1>a, <2>1 DEF DestroyGuard, Restore, TypeOK
  <2>3. /\ current'[t] = SavedIn(guard, scope, g)
        /\ \A u \in Threads \ {t} : current'[u] = current[u]
    BY <2>2, <1>a DEF SavedIn, TypeOK
  <2>4. KeptExcept(g)
    BY <2>2 DEF KeptExcept, IsOpen, SavedIn
  <2> QED
    BY <1>1, <1>a, <2>3, <2>4, ClosingPops
<1>2. ASSUME NEW k \in Scopes, ExitScope(t, k), Leaves(t, k) PROVE NestOK' /\ Stack!Next
  <2>1. current' = [current EXCEPT ![t] = StateOf(scope[k].previous)] /\ guard' = guard
        /\ \A h \in Scopes \ {k} : scope'[h] = scope[h]
    BY <1>2, <1>a DEF ExitScope, TypeOK
  <2>2. /\ current'[t] = SavedIn(guard, scope, k)
        /\ \A u \in Threads \ {t} : current'[u] = current[u]
    BY <2>1, <1>a DEF SavedIn, TypeOK
  <2>3. KeptExcept(k)
    BY <2>1 DEF KeptExcept, IsOpen, SavedIn
  <2> QED
    BY <1>2, <1>a, <2>2, <2>3, ClosingPops
<1> QED
  BY <1>1, <1>2 DEF Closes

(* A moved guard keeps its place. *)
LEMMA MovesStep ==
    ASSUME ScopedInv, Moves
    PROVE  NestOK' /\ UNCHANGED Contexts
<1>a. NestOK /\ TypeOK /\ Guards \cap Scopes = {}
  BY ScopedAssumption DEF ScopedInv, SGInv
<1>1. PICK g \in Guards, from \in Guards :
        /\ \/ MoveConstruct(g, from)
           \/ /\ guard[g] # None /\ ~guard[g].active
              /\ \E t \in Threads : MoveAssign(t, g, from)
        /\ TakesPlace(g, from)
  BY DEF Moves
<1>2. /\ g # from /\ ~IsOpen(guard, scope, g) /\ guard[from] # None
      /\ guard' = [guard EXCEPT ![g] = guard[from], ![from] = Inactive]
      /\ UNCHANGED <<current, scope>>
  BY <1>1, <1>a DEF MoveConstruct, MoveAssign, Restore, IsOpen
<1>3. guard'[g] = guard[from] /\ \A h \in Guards \ {g, from} : guard'[h] = guard[h]
  BY <1>2, <1>a DEF TypeOK
<1>4. /\ IsOpen(guard, scope, from) => IsOpen(guard', scope', g)
      /\ SavedIn(guard', scope', g) = SavedIn(guard, scope, from)
  BY <1>3, <1>a DEF IsOpen, SavedIn
<1>5. ASSUME NEW y \in (Guards \cup Scopes) \ {g, from}
      PROVE  /\ IsOpen(guard', scope', y) = IsOpen(guard, scope, y)
             /\ SavedIn(guard', scope', y) = SavedIn(guard, scope, y)
  <2>1. y \in Guards => guard'[y] = guard[y]
    BY <1>3
  <2> QED
    BY <1>2, <2>1 DEF IsOpen, SavedIn
<1> QED
  BY <1>1, <1>2, <1>4, <1>5, <1>a, MovingKeeps

(* What changes no nesting replaces the current context at most. *)
LEMMA OthersStep ==
    ASSUME ScopedInv, TypeOK', NEW t \in Threads, Others(t)
    PROVE  NestOK' /\ Stack!Next
<1>a. NestOK /\ TypeOK /\ UNCHANGED nest
  BY DEF ScopedInv, SGInv, Others
<1>1. ASSUME NEW g \in Guards, DefaultGuard(g) PROVE NestOK' /\ Stack!Next
  <2>1. /\ guard[g] = None /\ UNCHANGED <<current, scope>>
        /\ \A h \in Guards \ {g} : guard'[h] = guard[h]
    BY <1>1, <1>a DEF DefaultGuard, TypeOK
  <2>2. ~IsOpen(guard, scope, g)
    BY <2>1, ScopedAssumption DEF IsOpen
  <2>3. AllKept
    BY <2>1, <2>2 DEF AllKept, IsOpen, SavedIn
  <2> QED
    BY <1>a, <2>1, <2>3, KeepingReplaces
<1>2. ASSUME NEW g \in Guards, guard[g] # None, ~guard[g].active, DestroyGuard(t, g)
      PROVE  NestOK' /\ Stack!Next
  <2>1. /\ UNCHANGED <<current, scope>>
        /\ \A h \in Guards \ {g} : guard'[h] = guard[h]
    BY <1>2, <1>a DEF DestroyGuard, Restore, TypeOK
  <2>2. ~IsOpen(guard, scope, g)
    BY <1>2, ScopedAssumption DEF IsOpen
  <2>3. AllKept
    BY <2>1, <2>2 DEF AllKept, IsOpen, SavedIn
  <2> QED
    BY <1>a, <2>1, <2>3, KeepingReplaces
<1>3. CASE UNCHANGED <<guard, scope>> /\ \A u \in Threads \ {t} : current'[u] = current[u]
  <2>1. AllKept
    BY <1>3 DEF AllKept
  <2> QED
    BY <1>3, <1>a, <2>1, KeepingReplaces
<1>4. ASSUME \/ \E g \in Guards : EndGuard(g)
             \/ \E c \in Available \cup {None} : SetCurrentContext(t, c)
             \/ CaptureTraceContext(t)
             \/ \E sp \in Samplers \cup {BuiltInSampler} : SetSampler(sp)
      PROVE  UNCHANGED <<guard, scope>> /\ \A u \in Threads \ {t} : current'[u] = current[u]
  BY <1>4, <1>a DEF EndGuard, SetCurrentContext, CaptureTraceContext, SetSampler, TypeOK
<1> QED
  BY <1>1, <1>2, <1>3, <1>4 DEF Others

(* Scoped use is a use of the guards and scopes. *)
LEMMA ScopedIsNext == [ScopedNext]_scopedVars => [Next]_vars
<1> SUFFICES ASSUME [ScopedNext]_scopedVars PROVE [Next]_vars
  OBVIOUS
<1>1. CASE UNCHANGED scopedVars
  BY <1>1 DEF scopedVars
<1>2. CASE Moves
  BY <1>2 DEF Moves, Next
<1>3. ASSUME NEW t \in Threads, Opens(t) PROVE Next
  BY <1>3 DEF Opens, Next
<1>4. ASSUME NEW t \in Threads, Closes(t) PROVE Next
  BY <1>4 DEF Closes, Next
<1>5. ASSUME NEW t \in Threads, Others(t) PROVE Next
  BY <1>5 DEF Others, Next
<1> QED
  BY <1>1, <1>2, <1>3, <1>4, <1>5 DEF ScopedNext

(* The scoped invariant is inductive, and every step is one of the stacks. *)
LEMMA ScopedStep ==
    ASSUME ~AllocationMayFail
    PROVE  ScopedInv /\ [ScopedNext]_scopedVars => ScopedInv' /\ [Stack!Next]_Contexts
<1> SUFFICES ASSUME ScopedInv, [ScopedNext]_scopedVars
             PROVE  ScopedInv' /\ [Stack!Next]_Contexts
  OBVIOUS
<1>1. SGInv' /\ TypeOK' /\ SavedNormal'
  BY ScopedIsNext, SGNext, SavedNormalStep DEF ScopedInv, SGInv
<1>2. CASE UNCHANGED scopedVars
  <2>1. NestOK'
    BY <1>2 DEF ScopedInv, NestOK, scopedVars, vars
  <2>2. UNCHANGED Contexts
    BY <1>2 DEF Contexts, Saved, scopedVars, vars
  <2> QED
    BY <1>1, <2>1, <2>2 DEF ScopedInv
<1>3. CASE Moves
  BY <1>1, <1>3, MovesStep DEF ScopedInv
<1>4. ASSUME NEW t \in Threads, Opens(t) \/ Closes(t) \/ Others(t)
      PROVE  NestOK' /\ Stack!Next
  BY <1>1, <1>4, OpensStep, ClosesStep, OthersStep
<1> QED
  BY <1>1, <1>2, <1>3, <1>4 DEF ScopedNext, ScopedInv

(* The contexts of each thread are a stack, for any number of threads,       *)
(* guards, scopes and spans: used in the order of their blocks, guards and   *)
(* scopes restore exactly the context they found, and none disturbs another  *)
(* thread.  A scope whose copy of the saved context throws clears it         *)
(* instead; the theorem is about programs that do not run out of memory.     *)
THEOREM ScopedUseIsStack == ~AllocationMayFail => (ScopedSpec => ImplementsStack)
<1> SUFFICES ASSUME ~AllocationMayFail PROVE ScopedSpec => ImplementsStack
  OBVIOUS
<1>1. ScopedInit => ScopedInv
  <2> SUFFICES ASSUME ScopedInit PROVE ScopedInv
    OBVIOUS
  <2>1. SGInv /\ \A g \in Guards : guard[g] = None
    BY SGInit DEF ScopedInit, Init
  <2>2. NestOK
    BY DEF ScopedInit, NestOK
  <2> QED
    BY <2>1, <2>2 DEF ScopedInv, SavedNormal
<1>2. ScopedInit => Stack!Init
  <2> SUFFICES ASSUME ScopedInit, NEW t \in Threads PROVE Contexts[t] = <<Cleared>>
    BY DEF Stack!Init, Contexts
  <2>1. nest[t] = <<>> /\ current[t] = Cleared
    BY DEF ScopedInit, Init
  <2>2. Contexts[t] = Row(<<>>, guard, scope, Cleared)
    BY <2>1, ContextsOf
  <2>3. Row(<<>>, guard, scope, Cleared) = [i \in 1 .. 1 |-> Cleared]
    <3>1. Len(<<>>) = 0
      OBVIOUS
    <3>2. Row(<<>>, guard, scope, Cleared)
            = [i \in 1 .. (0 + 1) |-> IF i <= 0 THEN SavedIn(guard, scope, <<>>[i])
                                       ELSE Cleared]
      BY <3>1 DEF Row
    <3>3. 1 .. (0 + 1) = 1 .. 1 /\ \A i \in 1 .. 1 : ~(i <= 0)
      OBVIOUS
    <3> QED
      BY <3>2, <3>3
  <2>4. [i \in 1 .. 1 |-> Cleared] = <<Cleared>>
    <3> DEFINE c == Cleared
    <3> HIDE DEF c
    <3>1. [i \in 1 .. 1 |-> c] = <<c>>
      OBVIOUS
    <3> QED
      BY <3>1 DEF c
  <2> QED
    BY <2>2, <2>3, <2>4
<1>3. ScopedInv /\ [ScopedNext]_scopedVars => ScopedInv' /\ [Stack!Next]_Contexts
  BY ScopedStep
<1> QED
  BY <1>1, <1>2, <1>3, PTL DEF ScopedSpec, ImplementsStack, Stack!Spec

=============================================================================
