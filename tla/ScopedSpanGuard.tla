-------------------------- MODULE ScopedSpanGuard --------------------------
(***************************************************************************)
(* SpanGuard as the documents tell programs to use it (docs/02): a guard   *)
(* or a context scope stays on the thread that made it, and what was       *)
(* opened last is closed first.  A guard may still be moved, its place in  *)
(* the nesting moves with it.                                              *)
(***************************************************************************)
EXTENDS SpanGuard, Sequences, Integers

(* A guard and a scope are different objects. *)
ASSUME ScopedAssumption == Guards \cap Scopes = {}

VARIABLE nest   \* nest[t]: the active guards and the scopes of t, the innermost last

scopedVars == <<vars, nest>>

ScopedInit == Init /\ nest = [t \in Threads |-> <<>>]

Enters(t, x) == nest' = [nest EXCEPT ![t] = Append(nest[t], x)]

Leaves(t, x) ==
    /\ nest[t] # <<>> /\ nest[t][Len(nest[t])] = x
    /\ nest' = [nest EXCEPT ![t] = SubSeq(nest[t], 1, Len(nest[t]) - 1)]

(* x takes the place of y. *)
TakesPlace(x, y) ==
    nest' = [t \in Threads |->
                [i \in DOMAIN nest[t] |-> IF nest[t][i] = y THEN x ELSE nest[t][i]]]

Opens(t) ==
    \/ \E g \in Guards, id \in SpanIds :
          /\ StartSpan(t, g, id) \/ \E c \in Available : StartServerSpan(t, g, id, c)
          /\ Enters(t, g)
    \/ \E k \in Scopes, c \in Available \cup {None} : EnterScope(t, k, c) /\ Enters(t, k)

Closes(t) ==
    \/ \E g \in Guards :
          /\ guard[g] # None /\ guard[g].active
          /\ DestroyGuard(t, g) /\ Leaves(t, g)
    \/ \E k \in Scopes : ExitScope(t, k) /\ Leaves(t, k)

(* Into a guard that holds nothing, or that does not exist yet. *)
Moves ==
    \E g, from \in Guards :
        /\ \/ MoveConstruct(g, from)
           \/ /\ guard[g] # None /\ ~guard[g].active
              /\ \E t \in Threads : MoveAssign(t, g, from)
        /\ TakesPlace(g, from)

(* guard = startSpan(...), the innermost guard assigned the one just made. *)
Reassigns(t) ==
    \E g, from \in Guards :
        /\ Len(nest[t]) > 1 /\ nest[t][Len(nest[t]) - 1] = g
        /\ MoveAssign(t, g, from) /\ Leaves(t, from)

(* What changes no nesting. *)
Others(t) ==
    /\ \/ \E g \in Guards : DefaultGuard(g) \/ EndGuard(g)
       \/ \E g \in Guards : guard[g] # None /\ ~guard[g].active /\ DestroyGuard(t, g)
       \/ \E c \in Available \cup {None} : SetCurrentContext(t, c)
       \/ CaptureTraceContext(t)
       \/ \E sp \in Samplers \cup {BuiltInSampler} : SetSampler(sp)
    /\ UNCHANGED nest

ScopedNext == Moves \/ \E t \in Threads : Opens(t) \/ Closes(t) \/ Others(t)

ScopedSpec == ScopedInit /\ [][ScopedNext]_scopedVars

(* A program that only starts and ends spans, and reuses its guards. *)
ReassigningNext == Moves \/ \E t \in Threads : Opens(t) \/ Closes(t) \/ Reassigns(t)

ReassigningSpec == ScopedInit /\ [][ReassigningNext]_scopedVars

----------------------------------------------------------------------------
(* What x will put back. *)
Saved(x) == IF x \in Guards THEN guard[x].previous ELSE StateOf(scope[x].previous)

Contexts == [t \in Threads |->
                [i \in 1..(Len(nest[t]) + 1) |->
                    IF i <= Len(nest[t]) THEN Saved(nest[t][i]) ELSE current[t]]]

Stack == INSTANCE ContextStack
             WITH stack <- Contexts, Contexts <- ContextState, Empty <- Cleared

(* Scoped use implements the stack: every guard and every scope restores     *)
(* exactly the context it found, tracestate and parent included, however     *)
(* guards are moved meanwhile, and no thread disturbs another's.             *)
ImplementsStack == Stack!Spec

(* "The destructor ends the span and restores the previous context", "root   *)
(* is restored": a thread that only starts and ends spans has no context      *)
(* left when its last guard is gone.                                         *)
NothingLeftBehind ==
    \A t \in Threads : nest[t] = <<>> => current[t] = Cleared

=============================================================================
