------------------------------ MODULE SinkList ------------------------------
(***************************************************************************)
(* What a Logger promises: its sinks are one list, addSink and clearSinks  *)
(* change the list in one step each, and a record goes to the sinks that   *)
(* were in the list at one moment of the call, in order and once each.     *)
(***************************************************************************)
EXTENDS Naturals, Sequences

CONSTANTS Loggers, Sinks, Configs, Calls, None,
          InitialSinks   \* InitialSinks[l]: the sinks a logger starts with

VARIABLES
    sinks,    \* sinks[l]: the list of logger l
    changed,  \* changed[k]: what configuring call k did, None until it returns
    view,     \* view[c]: the list call c publishes to, None before it is fixed
    got       \* got[c]: the sinks that have received the record of call c

vars == <<sinks, changed, view, got>>

Init ==
    /\ sinks = InitialSinks
    /\ changed = [k \in Configs |-> None]
    /\ view = [c \in Calls |-> None]
    /\ got = [c \in Calls |-> <<>>]

(* addSink(sink) of a logger, or clearSinks() when sink is None; a call with  *)
(* no logger configures something else.                                       *)
Configure(k, logger, sink) ==
    /\ changed[k] = None
    /\ changed' = [changed EXCEPT ![k] = [logger |-> logger, sink |-> sink]]
    /\ sinks' = IF logger = None THEN sinks
                ELSE [sinks EXCEPT ![logger] = IF sink = None THEN <<>>
                                                              ELSE Append(@, sink)]
    /\ UNCHANGED <<view, got>>

(* The moment at which the call sees the list. *)
Publish(c) ==
    /\ view[c] = None
    /\ \E l \in Loggers : view' = [view EXCEPT ![c] = sinks[l]]
    /\ UNCHANGED <<sinks, changed, got>>

Deliver(c) ==
    /\ view[c] # None
    /\ Len(got[c]) < Len(view[c])
    /\ got' = [got EXCEPT ![c] = Append(@, view[c][Len(@) + 1])]
    /\ UNCHANGED <<sinks, changed, view>>

Next ==
    \/ \E k \in Configs, l \in Loggers \cup {None}, s \in Sinks \cup {None} :
            Configure(k, l, s)
    \/ \E c \in Calls : Publish(c) \/ Deliver(c)

Spec == Init /\ [][Next]_vars

=============================================================================
