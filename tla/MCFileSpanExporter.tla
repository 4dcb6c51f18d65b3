------------------------- MODULE MCFileSpanExporter -------------------------
(* An instance of FileSpanExporter for TLC. *)
EXTENDS FileSpanExporter

CONSTANTS e1, e2, e3  \* members of Exports

(* Two batches that can be torn apart and an empty one. *)
TwoAndTwoAndNone == [e \in Exports |-> IF e = e3 THEN 0 ELSE 2]

SomeContent == << <<"before", 1>> >>

=============================================================================
