------------------------ MODULE MCBatchSpanProcessor ------------------------
(* Small instances of BatchSpanProcessor for TLC. *)
EXTENDS BatchSpanProcessor, TLC

MCThreads == Spans \cup Flushers \cup Closers

(* The calls of one kind are interchangeable. *)
Symmetry == Permutations(Spans) \cup Permutations(Flushers) \cup Permutations(Closers)

(* One run over two small instances: flushes beside a shutdown, or one flush *)
(* beside the producers.                                                     *)
Begun ==
    {s \in Spans : push[s] # "new"} \cup {f \in Flushers : fpc[f] # "idle"}
        \cup {c \in Closers : cpc[c] # "idle"}

TwoInstances ==
    \/ Begun \cap Spans = {}
    \/ Begun \cap Closers = {} /\ Cardinality(Begun \cap Flushers) <= 1

=============================================================================
