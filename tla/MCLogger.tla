------------------------------ MODULE MCLogger ------------------------------
(* Instances of Logger for TLC. *)
EXTENDS Logger

Context == [trace |-> "t", span |-> "s", flags |-> 1, state |-> "ts", parent |-> "p"]

SomeContexts == {Context}

(* A message and an event with a field, with and without a context. *)
SomeRequests ==
    {[form |-> "plain", text |-> <<"m">>, fields |-> <<>>, level |-> 2, context |-> None],
     [form |-> "structured", text |-> <<"n">>, fields |-> <<"f">>, level |-> 4,
      context |-> Context]}

OneRequest ==
    {[form |-> "plain", text |-> <<"m">>, fields |-> <<>>, level |-> 2, context |-> None]}

SomeThresholds == {kError}

=============================================================================
