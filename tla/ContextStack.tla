---------------------------- MODULE ContextStack ----------------------------
(***************************************************************************)
(* What scoped spans promise their threads: the contexts of a thread form  *)
(* a stack of its own.  Opening a scope pushes a context, closing it       *)
(* uncovers exactly the one below, and nothing but the top can be          *)
(* replaced.                                                               *)
(***************************************************************************)
EXTENDS Sequences, Integers

CONSTANTS Threads, Contexts, Empty

VARIABLE stack   \* stack[t]: the contexts of thread t, the current one last

Init == stack = [t \in Threads |-> <<Empty>>]

(* The contexts that stay covered while the top changes. *)
Below(st) == SubSeq(st, 1, Len(st) - 1)

Top(st) == st[Len(st)]

Open(t) ==
    /\ Len(stack'[t]) = Len(stack[t]) + 1
    /\ Below(stack'[t]) = stack[t]

Close(t) ==
    /\ Len(stack[t]) > 1
    /\ stack'[t] = Below(stack[t])

Replace(t) ==
    /\ Len(stack'[t]) = Len(stack[t])
    /\ Below(stack'[t]) = Below(stack[t])

Next ==
    \E t \in Threads :
        /\ Open(t) \/ Close(t) \/ Replace(t)
        /\ Top(stack'[t]) \in Contexts
        /\ \A u \in Threads \ {t} : stack'[u] = stack[u]

Spec == Init /\ [][Next]_stack

=============================================================================
