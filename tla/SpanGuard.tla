----------------------------- MODULE SpanGuard -----------------------------
(***************************************************************************)
(* Starting and ending spans: the thread-local context                     *)
(* (context/context_storage.cc), startSpan, startServerSpan and the RAII   *)
(* guard that restores the previous context (kernel/span_guard.cc), the    *)
(* process-wide sampler (kernel/sampler.cc) and the context scope for      *)
(* kernel callbacks (adapters/kernel_context.h).                           *)
(*                                                                         *)
(* The calls touch one thread's storage and load the sampler once, so each *)
(* call is one step.  Nothing in the code ties a guard to the thread or to *)
(* the block that made it: here guards are moved and destroyed by any      *)
(* thread in any order (ScopedSpanGuard restricts the order).              *)
(***************************************************************************)
CONSTANTS Threads,
          Guards,       \* SpanGuard objects
          Scopes,       \* KernelTraceContextScope objects
          SpanIds,      \* the ids SpanId::random() may return, each once
          Ids,          \* every id: SpanIds, the ids of other services, Zero
          Zero,         \* the all-zero id, which is not valid
          None,         \* std::nullopt
          Tracestates,  \* W3C tracestate strings
          NoTracestate, \* the empty one
          Inbound,      \* the TraceContexts that reach the program from outside
          Samplers,     \* the samplers the program installs
          LowTraces,    \* the traces TraceIdRatioSampler accepts
          AllocationMayFail  \* whether copying a tracestate may run out of memory

(* The identity a span carries; a TraceContext adds the tracestate. *)
SpanContext == [trace : Ids, span : Ids, parent : Ids \cup {None}, sampled : BOOLEAN]

TraceContext == [trace : Ids, span : Ids, parent : Ids \cup {None}, sampled : BOOLEAN,
                 tracestate : Tracestates]

(* A sampler decides for roots, and leaves children to their parent or not. *)
Sampler == [parentBased : BOOLEAN, root : {"on", "off", "ratio"}]

BuiltInSampler == [parentBased |-> TRUE, root |-> "on"]

(* detail::CurrentContextState *)
ContextState == [spanContext : SpanContext \cup {None}, tracestate : Tracestates]

Cleared == [spanContext |-> None, tracestate |-> NoTracestate]

SpanData == [context : SpanContext, tracestate : Tracestates,
             kind : {"kInternal", "kServer"}, ended : BOOLEAN]

(* m_span, m_previousContext with m_previousTracestate, m_active *)
GuardData == [span : SpanIds \cup {None}, previous : ContextState, active : BOOLEAN]

(* m_previous *)
ScopeData == [previous : TraceContext \cup {None}]

ASSUME SpanGuardAssumption ==
    /\ SpanIds \subseteq Ids /\ Zero \in Ids \ SpanIds
    /\ None \notin Ids /\ None \notin SpanContext /\ None \notin TraceContext
    /\ None \notin SpanData /\ None \notin GuardData /\ None \notin ScopeData
    /\ NoTracestate \in Tracestates
    /\ Inbound \subseteq TraceContext
    /\ \A c \in Inbound : c.trace \notin SpanIds /\ c.span \notin SpanIds
    /\ Samplers \subseteq Sampler
    /\ AllocationMayFail \in BOOLEAN

VARIABLES
    current,   \* current[t]: t_currentContext of thread t
    spans,     \* spans[i]: the Span with id i, None while no such span
    guard,     \* guard[g]: the members of SpanGuard object g, None while it does not exist
    scope,     \* scope[k]: the member of scope object k, None while it does not exist
    sampler,   \* g_sampler
    captured   \* the result of the last captureTraceContext

vars == <<current, spans, guard, scope, sampler, captured>>

(* Types; a thread without a context has no tracestate either. *)
TypeOK ==
    /\ current \in [Threads -> ContextState]
    /\ \A t \in Threads : current[t].spanContext = None => current[t] = Cleared
    /\ spans \in [SpanIds -> SpanData \cup {None}]
    /\ guard \in [Guards -> GuardData \cup {None}]
    /\ scope \in [Scopes -> ScopeData \cup {None}]
    /\ sampler \in Samplers \cup {BuiltInSampler}
    /\ captured \in TraceContext \cup {None}

Init ==
    /\ current = [t \in Threads |-> Cleared]
    /\ spans = [i \in SpanIds |-> None]
    /\ guard = [g \in Guards |-> None]
    /\ scope = [k \in Scopes |-> None]
    /\ sampler = BuiltInSampler
    /\ captured = None

----------------------------------------------------------------------------
(* Contexts and their conversions. *)

IsValid(c) == c.trace # Zero /\ c.span # Zero

(* SpanContext(const TraceContext&) drops the tracestate ... *)
SpanContextOf(c) ==
    [trace |-> c.trace, span |-> c.span, parent |-> c.parent, sampled |-> c.sampled]

(* The definitions with a double underscore are deliberate mistakes: each is *)
(* a plausible bug in the definition that follows, kept to show that the     *)
(* properties notice it.  The specification uses none of them.               *)

(* The parent is not carried over. *)
ToTraceContext__ForgetsParent(sc, ts) ==
    [trace |-> sc.trace, span |-> sc.span, parent |-> None, sampled |-> sc.sampled,
     tracestate |-> ts]

(* ... and SpanContext::toTraceContext puts one back. *)
ToTraceContext(sc, ts) ==
    [trace |-> sc.trace, span |-> sc.span, parent |-> sc.parent, sampled |-> sc.sampled,
     tracestate |-> ts]

(* detail::setCurrentContextState *)
Normalized(state) == IF state.spanContext = None THEN Cleared ELSE state

(* currentContext() *)
CurrentContext(t) ==
    IF current[t].spanContext = None THEN None
    ELSE ToTraceContext(current[t].spanContext, current[t].tracestate)

(* setCurrentContext(context), as the state it leaves *)
StateOf(context) ==
    IF context = None THEN Cleared
    ELSE [spanContext |-> SpanContextOf(context), tracestate |-> context.tracestate]

----------------------------------------------------------------------------
(* Sampling. *)

(* AlwaysOn, AlwaysOff or TraceIdRatio *)
RootDecision(sp, trace) == sp.root = "on" \/ (sp.root = "ratio" /\ trace \in LowTraces)

ShouldSample(sp, parent, trace) ==
    IF sp.parentBased /\ parent # None /\ IsValid(parent)
      THEN parent.sampled
      ELSE RootDecision(sp, trace)

(* A child asks the root sampler again. *)
ApplySampling__IgnoresParent(c, parent) ==
    [c EXCEPT !.sampled = ShouldSample(sampler, None, c.trace)]

(* The sampler installed at this moment sets or clears the sampled flag. *)
ApplySampling(c, parent) == [c EXCEPT !.sampled = ShouldSample(sampler, parent, c.trace)]

(* TraceId::random() makes a new trace, named here after its first span. *)
RootContext(id) == [trace |-> id, span |-> id, parent |-> None, sampled |-> FALSE]

(* The child hangs below its grandparent. *)
ChildContext__OfGrandparent(parent, id) ==
    [trace |-> parent.trace, span |-> id, parent |-> parent.parent,
     sampled |-> parent.sampled]

ChildContext(parent, id) ==
    [trace |-> parent.trace, span |-> id, parent |-> parent.span,
     sampled |-> parent.sampled]

(* A context for span id below `parent`, or a root when there is none. *)
NextContext(parent, id) ==
    ApplySampling(IF parent = None THEN RootContext(id) ELSE ChildContext(parent, id),
                  parent)

----------------------------------------------------------------------------
(* startSpan and startServerSpan: the guard is built where they return it. *)

(* Spans not started yet. *)
Unused == {i \in SpanIds : spans[i] = None}

(* The previous context is read after the new one is installed. *)
Activate__SavesTooLate(t, g, id, context, tracestate, kind) ==
    LET new == [spanContext |-> context, tracestate |-> tracestate] IN
    /\ guard[g] = None /\ id \in Unused
    /\ spans' = [spans EXCEPT ![id] = [context |-> context, tracestate |-> tracestate,
                                       kind |-> kind, ended |-> FALSE]]
    /\ current' = [current EXCEPT ![t] = new]
    /\ guard' = [guard EXCEPT ![g] = [span |-> id, previous |-> new, active |-> TRUE]]
    /\ UNCHANGED <<scope, sampler, captured>>

Activate(t, g, id, context, tracestate, kind) ==
    /\ guard[g] = None /\ id \in Unused
    /\ spans' = [spans EXCEPT ![id] = [context |-> context, tracestate |-> tracestate,
                                       kind |-> kind, ended |-> FALSE]]
    /\ current' = [current EXCEPT ![t] = [spanContext |-> context,
                                          tracestate |-> tracestate]]
    /\ guard' = [guard EXCEPT ![g] = [span |-> id, previous |-> current[t],
                                      active |-> TRUE]]
    /\ UNCHANGED <<scope, sampler, captured>>

StartSpan(t, g, id) ==
    LET previous == current[t].spanContext
        parent == IF previous # None /\ IsValid(previous) THEN previous ELSE None
        tracestate == IF previous # None THEN current[t].tracestate ELSE NoTracestate
    IN  Activate(t, g, id, NextContext(parent, id), tracestate, "kInternal")

StartServerSpan(t, g, id, inbound) ==
    LET parent == IF IsValid(inbound) THEN SpanContextOf(inbound) ELSE None
        tracestate == IF IsValid(inbound) THEN inbound.tracestate ELSE NoTracestate
    IN  Activate(t, g, id, NextContext(parent, id), tracestate, "kServer")

----------------------------------------------------------------------------
(* SpanGuard. *)

Inactive == [span |-> None, previous |-> Cleared, active |-> FALSE]

(* SpanGuard(), before anything is moved into it. *)
DefaultGuard(g) ==
    /\ guard[g] = None
    /\ guard' = [guard EXCEPT ![g] = Inactive]
    /\ UNCHANGED <<current, spans, scope, sampler, captured>>

(* Span::end() is idempotent. *)
Ended(id) == [spans EXCEPT ![id] = [spans[id] EXCEPT !.ended = TRUE]]

(* SpanGuard(SpanGuard&& from).  What else a moved-from guard holds is not   *)
(* read again.                                                               *)
MoveConstruct(g, from) ==
    /\ guard[g] = None /\ guard[from] # None
    /\ guard' = [guard EXCEPT ![g] = guard[from], ![from] = Inactive]
    /\ UNCHANGED <<current, spans, scope, sampler, captured>>

(* end() ends the span and leaves the guard as it is. *)
EndGuard(g) ==
    /\ guard[g] # None
    /\ guard[g].active
    /\ spans' = Ended(guard[g].span)
    /\ UNCHANGED <<current, guard, scope, sampler, captured>>

(* restore(), on thread t: end the span and put the previous context back.  *)
(* The saved state is moved, which cannot throw.                            *)
Restore(t, g) ==
    IF guard[g].active
      THEN /\ spans' = Ended(guard[g].span)
           /\ current' = [current EXCEPT ![t] = Normalized(guard[g].previous)]
      ELSE UNCHANGED <<spans, current>>

(* The assigned-to guard's own span is forgotten. *)
MoveAssign__WithoutRestore(t, g, from) ==
    /\ g # from /\ guard[g] # None /\ guard[from] # None
    /\ guard' = [guard EXCEPT ![g] = guard[from], ![from] = Inactive]
    /\ UNCHANGED <<spans, current, scope, sampler, captured>>

(* operator=(SpanGuard&& from) *)
MoveAssign(t, g, from) ==
    /\ g # from /\ guard[g] # None /\ guard[from] # None
    /\ Restore(t, g)
    /\ guard' = [guard EXCEPT ![g] = guard[from], ![from] = Inactive]
    /\ UNCHANGED <<scope, sampler, captured>>

(* ~SpanGuard() *)
DestroyGuard(t, g) ==
    /\ guard[g] # None
    /\ Restore(t, g)
    /\ guard' = [guard EXCEPT ![g] = None]
    /\ UNCHANGED <<scope, sampler, captured>>

----------------------------------------------------------------------------
(* The contexts a program can pass on: what it received, what it captured. *)
Available == Inbound \cup ({captured} \ {None})

(* Clearing leaves the tracestate behind. *)
SetCurrentContext__KeepsTracestate(t, context) ==
    /\ current' = [current EXCEPT ![t] = IF context = None
                                          THEN [current[t] EXCEPT !.spanContext = None]
                                          ELSE StateOf(context)]
    /\ UNCHANGED <<spans, guard, scope, sampler, captured>>

(* setCurrentContext(context); without a context it is clearCurrentContext(). *)
SetCurrentContext(t, context) ==
    /\ current' = [current EXCEPT ![t] = StateOf(context)]
    /\ UNCHANGED <<spans, guard, scope, sampler, captured>>

CaptureTraceContext(t) ==
    /\ captured' = CurrentContext(t)
    /\ UNCHANGED <<current, spans, guard, scope, sampler>>

(* KernelTraceContextScope(context): m_previous(currentContext()), then set. *)
EnterScope(t, k, context) ==
    /\ scope[k] = None
    /\ scope' = [scope EXCEPT ![k] = [previous |-> CurrentContext(t)]]
    /\ current' = [current EXCEPT ![t] = StateOf(context)]
    /\ UNCHANGED <<spans, guard, sampler, captured>>

(* ~KernelTraceContextScope(): the copy may throw, then the context is      *)
(* cleared.                                                                 *)
ExitScope(t, k) ==
    /\ scope[k] # None
    /\ \/ current' = [current EXCEPT ![t] = StateOf(scope[k].previous)]
       \/ AllocationMayFail /\ current' = [current EXCEPT ![t] = Cleared]
    /\ scope' = [scope EXCEPT ![k] = None]
    /\ UNCHANGED <<spans, guard, sampler, captured>>

(* setSampler(sp); a null pointer brings the built-in sampler back. *)
SetSampler(sp) ==
    /\ sampler' = sp
    /\ UNCHANGED <<current, spans, guard, scope, captured>>

Next ==
    \/ \E t \in Threads, g \in Guards, id \in SpanIds :
          \/ StartSpan(t, g, id)
          \/ \E c \in Available : StartServerSpan(t, g, id, c)
    \/ \E g \in Guards : DefaultGuard(g) \/ EndGuard(g)
    \/ \E g, from \in Guards : MoveConstruct(g, from)
    \/ \E t \in Threads, g, from \in Guards : MoveAssign(t, g, from)
    \/ \E t \in Threads, g \in Guards : DestroyGuard(t, g)
    \/ \E t \in Threads, c \in Available \cup {None} : SetCurrentContext(t, c)
    \/ \E t \in Threads : CaptureTraceContext(t)
    \/ \E t \in Threads, k \in Scopes, c \in Available \cup {None} : EnterScope(t, k, c)
    \/ \E t \in Threads, k \in Scopes : ExitScope(t, k)
    \/ \E sp \in Samplers \cup {BuiltInSampler} : SetSampler(sp)

Spec == Init /\ [][Next]_vars

----------------------------------------------------------------------------
Started == {i \in SpanIds : spans[i] # None}

Holders(i) == {g \in Guards : guard[g] # None /\ guard[g].active /\ guard[g].span = i}

(* Ownership survives the moves: a started span that has not been ended is  *)
(* held by a guard that will end it, and no two guards hold the same span   *)
(* (a second holder would restore the context a second time).               *)
OneHolder ==
    \A i \in Started :
        /\ \A g, h \in Holders(i) : g = h
        /\ ~spans[i].ended => Holders(i) # {}

(* The identities the program has seen: its own spans', and those received. *)
Known == {spans[i].context : i \in Started} \cup {SpanContextOf(c) : c \in Inbound}

(* A context that can become a parent names a span that exists: whatever is *)
(* current, saved in a guard or a scope, or captured for another thread is  *)
(* the full identity of a started or received span, after any number of     *)
(* conversions between SpanContext and TraceContext.                        *)
NoForgedContext ==
    /\ \A t \in Threads : current[t].spanContext \in Known \cup {None}
    /\ \A g \in Guards : guard[g] # None
                           => guard[g].previous.spanContext \in Known \cup {None}
    /\ \A k \in Scopes : scope[k] # None /\ scope[k].previous # None
                           => SpanContextOf(scope[k].previous) \in Known
    /\ captured # None => SpanContextOf(captured) \in Known

(* Traces are connected: a span's parent is a span of the same trace that   *)
(* was started here or received, and a span without one starts its trace.   *)
Connected ==
    \A i \in Started :
        LET c == spans[i].context IN
        /\ c.span = i
        /\ IF c.parent = None THEN c.trace = i
           ELSE \E p \in Known : IsValid(p) /\ p.span = c.parent /\ p.trace = c.trace

(* Every sampler is parent-based and the services agree on each trace. *)
ParentBasedOnly ==
    /\ \A sp \in Samplers : sp.parentBased
    /\ \A c, d \in Inbound : IsValid(c) /\ IsValid(d) /\ c.trace = d.trace
                                => c.sampled = d.sampled

(* A trace is exported whole or not at all: with parent-based samplers, all *)
(* its spans carry the same decision, although the sampler may be replaced  *)
(* between any two of them and the context travels through threads, scopes  *)
(* and moved guards.                                                        *)
WholeTraces ==
    ParentBasedOnly =>
        \A c, d \in Known : IsValid(c) /\ IsValid(d) /\ c.trace = d.trace
                               => c.sampled = d.sampled

=============================================================================
