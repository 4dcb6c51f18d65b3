---------------------------- MODULE SpanPipeline ----------------------------
(***************************************************************************)
(* What a batch processor promises for each span it is given, with no      *)
(* queue, thread or signal: a span is accepted or refused at once, an      *)
(* accepted span is handed to the exporter exactly once in a bounded batch *)
(* with its neighbours, and the pipeline stops only when nothing accepted  *)
(* is left, after which nothing is accepted any more.                      *)
(***************************************************************************)
EXTENDS Integers, FiniteSets

CONSTANTS Spans,
          Room,      \* the most spans that are accepted and not yet handed over
          MaxBatch   \* the most spans handed over at once

VARIABLES
    fate,      \* fate[s]: what has become of span s
    closing,   \* the pipeline has been asked to stop
    stopped    \* it has stopped

pipelineVars == <<fate, closing, stopped>>

Pending == {s \in Spans : fate[s] = "pending"}

Init ==
    /\ fate = [s \in Spans |-> "new"]
    /\ closing = FALSE
    /\ stopped = FALSE

Accept(s) ==
    /\ fate[s] = "new" /\ ~stopped
    /\ Cardinality(Pending) < Room
    /\ fate' = [fate EXCEPT ![s] = "pending"]
    /\ UNCHANGED <<closing, stopped>>

(* The caller may lose a span to a full queue at any time ... *)
Drop(s) ==
    /\ fate[s] = "new"
    /\ fate' = [fate EXCEPT ![s] = "dropped"]
    /\ UNCHANGED <<closing, stopped>>

(* ... but is told that the pipeline is closed only when it is. *)
Refuse(s) ==
    /\ fate[s] = "new" /\ closing
    /\ fate' = [fate EXCEPT ![s] = "refused"]
    /\ UNCHANGED <<closing, stopped>>

(* One call of exportSpans, with the result it had for the whole batch. *)
HandOver(b, outcome) ==
    /\ b # {} /\ Cardinality(b) <= MaxBatch
    /\ fate' = [s \in Spans |-> IF s \in b THEN outcome ELSE fate[s]]
    /\ UNCHANGED <<closing, stopped>>

RequestStop ==
    /\ closing' = TRUE
    /\ UNCHANGED <<fate, stopped>>

Stop ==
    /\ closing /\ Pending = {}
    /\ stopped' = TRUE
    /\ UNCHANGED <<fate, closing>>

Next ==
    \/ \E s \in Spans : Accept(s) \/ Drop(s) \/ Refuse(s)
    \/ \E b \in SUBSET Pending, outcome \in {"exported", "failed"} : HandOver(b, outcome)
    \/ RequestStop
    \/ Stop

Spec == Init /\ [][Next]_pipelineVars

=============================================================================
