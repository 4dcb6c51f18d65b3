--------------------------- MODULE MCTraceparent ---------------------------
(* An instance of Traceparent for TLC. *)
EXTENDS Traceparent

(* One non-zero byte at an end of each id: a change can make the id invalid. *)
Ids(n, at, byte) == [i \in 1 .. n |-> IF i = at THEN byte ELSE 0]

SomeContexts ==
    {[traceId |-> Ids(16, 1, 16), spanId |-> Ids(8, 8, 1), traceFlags |-> 1,
      tracestate |-> "k=v"],
     [traceId |-> Ids(16, 16, 175), spanId |-> Ids(8, 1, 250), traceFlags |-> 254,
      tracestate |-> ""]}

(* The ends of the ranges of digits, their neighbours and the separator. *)
SomeCharacters == {45, 47, 48, 57, 58, 64, 65, 70, 71, 96, 97, 102, 103, 200}

(* The ends of the fields and the separators. *)
SomePositions == {1, 2, 3, 4, 35, 36, 37, 52, 53, 54, 55}

=============================================================================
