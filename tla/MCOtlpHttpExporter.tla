------------------------- MODULE MCOtlpHttpExporter -------------------------
(* An instance of OtlpHttpExporter for TLC. *)
EXTENDS OtlpHttpExporter

(* Characters that JSON wants escaped, those around them and those that its *)
(* escapes are written with.                                                *)
Awkward == <<0, 9, 10, 13, 31, 32, 34, 47, 92, 110, 117, 200>>

OneIdentity == {[trace |-> "t", span |-> "s", parent |-> None, name |-> Awkward, state |-> <<>>]}

SomeStatuses == {[code |-> "kUnset", message |-> <<9>>]}

SomeAttributes == {SpanAttribute(<<97>>, "kString", <<92, 34>>)}

Other == [identity |-> [trace |-> "t", span |-> "o", parent |-> "s", name |-> <<98>>,
                        state |-> <<107, 61, 34>>],
          kind |-> "kClient", status |-> [code |-> "kError", message |-> <<10>>],
          attributes |-> <<SpanAttribute(<<>>, "kBool", TRUE), SpanAttribute(<<98>>, "kUInt64", 7)>>,
          startedAt |-> 0, endedAt |-> 0, ended |-> TRUE]

OneOther == <<Other>>

Setup(transport, endpoint, headers) ==
    [transport |-> transport, endpoint |-> endpoint, headers |-> headers, reject |-> TRUE,
     resource |-> <<>>, scope |-> [name |-> <<103>>, version |-> <<>>]]

Header(name, case, value) == [name |-> name, case |-> case, value |-> value]

SomeSetups ==
    {Setup("galay", "http", <<Header("content-type", "mixed", "x"), Header("host", "mixed", "h"),
                              Header("host", "mixed", "i")>>),
     [Setup("galay", "https", <<>>) EXCEPT !.reject = FALSE],
     Setup("galay", "invalid", <<>>),
     [Setup("custom", "http", <<Header("x-key", "mixed", "k")>>) EXCEPT !.resource = Other.attributes,
                                        !.scope.version = <<49, 9>>],
     Setup("unavailable", "http", <<>>)}

=============================================================================
