---------------------------- MODULE MCSpanGuard ----------------------------
(* Small instances of SpanGuard and ScopedSpanGuard for TLC. *)
EXTENDS ScopedSpanGuard, TLC

CONSTANTS r1, ts   \* a trace of another service, and its tracestate

MCIds == SpanIds \cup {r1, Zero}

MCTracestates == {ts, NoTracestate}

Remote(trace, tracestate) ==
    [trace |-> trace, span |-> trace, parent |-> None, sampled |-> FALSE,
     tracestate |-> tracestate]

(* A context that is not valid: its tracestate is inherited all the same. *)
MCInvalid == {Remote(Zero, ts)}

(* An unsampled trace of another service, where tracestates do not matter. *)
MCRemote == {Remote(r1, NoTracestate)}

(* The built-in sampler accepts every root, this one only some. *)
MCSamplers == {[parentBased |-> TRUE, root |-> "ratio"]}

(* SpanGuard alone: the nesting is not kept. *)
UnscopedSpec == ScopedInit /\ [][Next /\ UNCHANGED nest]_scopedVars

Symmetry == Permutations(Guards) \cup Permutations(Threads)

=============================================================================
