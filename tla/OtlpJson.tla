------------------------------ MODULE OtlpJson ------------------------------
(***************************************************************************)
(* The body and the headers of an OTLP/HTTP request                        *)
(* (kernel/otlp_http_exporter.cc), and what a receiver reads from them.    *)
(*                                                                         *)
(* A JSON object is a function from the keys it has to their values, a     *)
(* JSON string a sequence of character codes, quotes included.             *)
(***************************************************************************)
EXTENDS Naturals, Sequences, SequencesExt

CONSTANT None

kHex(d) == IF d < 10 THEN 48 + d ELSE 87 + d

(* Quotes go out as they are. *)
EscapeChar__Raw(ch) ==
    CASE ch = 92 -> <<92, 92>>
      [] ch < 32 -> <<92, 117, 48, 48, kHex(ch \div 16), kHex(ch % 16)>>
      [] OTHER -> <<ch>>

EscapeChar(ch) ==
    CASE ch \in {34, 92} -> <<92, ch>>
      [] ch = 10 -> <<92, 110>>
      [] ch = 13 -> <<92, 114>>
      [] ch = 9 -> <<92, 116>>
      [] ch < 32 /\ ch \notin {9, 10, 13} ->
            <<92, 117, 48, 48, kHex(ch \div 16), kHex(ch % 16)>>
      [] OTHER -> <<ch>>

(* appendJsonString *)
JsonString(s) == <<34>> \o FlattenSeq([i \in DOMAIN s |-> EscapeChar(s[i])]) \o <<34>>

otlpSpanKindName ==
    [kInternal |-> "SPAN_KIND_INTERNAL", kServer |-> "SPAN_KIND_SERVER",
     kClient |-> "SPAN_KIND_CLIENT", kProducer |-> "SPAN_KIND_PRODUCER",
     kConsumer |-> "SPAN_KIND_CONSUMER"]

otlpStatusCodeName ==
    [kUnset |-> "STATUS_CODE_UNSET", kOk |-> "STATUS_CODE_OK", kError |-> "STATUS_CODE_ERROR"]

(* Attribute values have one of five types; numbers keep their digits. *)
AttributeValueKey ==
    [kInt64 |-> "intValue", kUInt64 |-> "intValue", kDouble |-> "doubleValue",
     kBool |-> "boolValue", kString |-> "stringValue"]

AttributeValue(v) ==
    [k \in {AttributeValueKey[v.type]} |->
        IF v.type = "kString" THEN JsonString(v.value) ELSE v.value]

AttributeArray(attributes) ==
    [i \in DOMAIN attributes |-> [key |-> JsonString(attributes[i].name),
                                  value |-> AttributeValue(attributes[i].value)]]

(* The keys of `all` that are present. *)
JsonObject(all, present) == [k \in present |-> all[k]]

Status(status) ==
    JsonObject([code |-> otlpStatusCodeName[status.code], message |-> JsonString(status.message)],
           {"code"} \cup {k \in {"message"} : status.message # <<>>})

(* One element of "spans". *)
SpanObject(x) ==
    JsonObject([traceId |-> x.identity.trace, spanId |-> x.identity.span,
            name |-> JsonString(x.identity.name), kind |-> otlpSpanKindName[x.kind],
            parentSpanId |-> x.identity.parent, traceState |-> JsonString(x.identity.state),
            attributes |-> AttributeArray(x.attributes), status |-> Status(x.status)],
           {"traceId", "spanId", "name", "kind"}
             \cup {k \in {"parentSpanId"} : x.identity.parent # None}
             \cup {k \in {"traceState"} : x.identity.state # <<>>}
             \cup {k \in {"attributes"} : x.attributes # <<>>}
             \cup {k \in {"status"} : x.status.code # "kUnset" \/ x.status.message # <<>>})

Scope(scope) ==
    JsonObject([name |-> JsonString(scope.name), version |-> JsonString(scope.version)],
           {"name"} \cup {k \in {"version"} : scope.version # <<>>})

(* buildOtlpJsonBody *)
JsonBody(spans, config) ==
    JsonObject([resource |-> AttributeArray(config.resource),
            scope |-> Scope(config.scope),
            spans |-> [i \in DOMAIN spans |-> SpanObject(spans[i])]],
           {"scope", "spans"} \cup {k \in {"resource"} : config.resource # <<>>})

(* Header names are [name, case]: the same name may be spelled in two ways.  *)
(* makeHeaders: the content type comes first unless the program gives one.   *)
HasHeader(headers, name) == \E i \in DOMAIN headers : headers[i].name = name

MakeHeaders(given) ==
    IF HasHeader(given, "content-type") THEN given
    ELSE <<[name |-> "content-type", case |-> "lower", value |-> "application/json"]>> \o given

(* sendWithGalayHttp: the content type is taken out, a header given twice in *)
(* one spelling keeps its last value, missing ones get defaults.             *)
LastValue(headers, at) == headers[CHOOSE i \in at : \A j \in at : j <= i].value

DefaultHeaders == {"host", "accept", "user-agent", "connection"}

RequestHeaders(headers) ==
    LET at(name) == {i \in DOMAIN headers : headers[i].name = name}
        rest == DOMAIN headers \ at("content-type")
        spelled(i) == {j \in rest : headers[j].name = headers[i].name /\ headers[j].case = headers[i].case}
    IN [contentType |-> IF HasHeader(headers, "content-type")
                        THEN LastValue(headers, at("content-type")) ELSE "application/json",
        fields |-> {<<headers[i].name, LastValue(headers, spelled(i))>> : i \in rest}
                   \cup {<<n, "default">> : n \in {d \in DefaultHeaders : ~HasHeader(headers, d)}}]

----------------------------------------------------------------------------
(* What a receiver of OTLP reads. *)

(* A JSON string (RFC 8259, section 7): between two quotes, characters       *)
(* other than quotes, backslashes and control characters, and the escapes    *)
(* the standard has, with one letter or with four hexadecimal digits.        *)
ShortEscape ==
    [c \in {34, 47, 92, 98, 102, 110, 114, 116} |->
        CASE c = 98 -> 8 [] c = 102 -> 12 [] c = 110 -> 10 [] c = 114 -> 13 [] c = 116 -> 9
          [] OTHER -> c]

HexDigit == [c \in (48 .. 57) \cup (65 .. 70) \cup (97 .. 102) |->
                IF c <= 57 THEN c - 48 ELSE IF c <= 70 THEN c - 55 ELSE c - 87]

PlainAt(inner, i) == inner[i] >= 32 /\ inner[i] \notin {34, 92}

ShortAt(inner, i) ==
    inner[i] = 92 /\ i + 1 <= Len(inner) /\ inner[i + 1] \in DOMAIN ShortEscape

UnicodeAt(inner, i) ==
    /\ inner[i] = 92 /\ i + 5 <= Len(inner) /\ inner[i + 1] = 117
    /\ \A j \in i + 2 .. i + 5 : inner[j] \in DOMAIN HexDigit

UnicodeValue(inner, i) ==
    4096 * HexDigit[inner[i + 2]] + 256 * HexDigit[inner[i + 3]]
      + 16 * HexDigit[inner[i + 4]] + HexDigit[inner[i + 5]]

(* What the characters from the i-th on can be read as, given the readings   *)
(* from each later one on: {} where these rules are broken.                  *)
ReadAt(inner, read, i) ==
    IF i > Len(inner) THEN {<<>>}
    ELSE IF PlainAt(inner, i) THEN {<<inner[i]>> \o rest : rest \in read[i + 1]}
    ELSE IF ShortAt(inner, i) THEN {<<ShortEscape[inner[i + 1]]>> \o rest : rest \in read[i + 2]}
    ELSE IF UnicodeAt(inner, i) THEN {<<UnicodeValue(inner, i)>> \o rest : rest \in read[i + 6]}
    ELSE {}

(* What a text can be read as: one string if it is a JSON string, none if it *)
(* is not quoted, or has a bare quote or control character, or an escape     *)
(* that is unknown or cut off.                                               *)
Readings(text) ==
    LET inner == SubSeq(text, 2, Len(text) - 1)
        read[i \in 1 .. Len(inner) + 1] == ReadAt(inner, read, i)
    IN IF Len(text) >= 2 /\ text[1] = 34 /\ text[Len(text)] = 34 THEN read[1] ELSE {}

ReadString(text) ==
    IF Readings(text) = {} THEN None ELSE CHOOSE s \in Readings(text) : TRUE

(* A key that is absent means the default of the protocol. *)
Get(object, key, default) == IF key \in DOMAIN object THEN object[key] ELSE default

ReadStringOf(object, key) == ReadString(Get(object, key, <<34, 34>>))

ReadAttributes(list) ==
    [i \in DOMAIN list |->
        [name |-> ReadString(list[i].key),
         value |-> LET v == list[i].value IN
                   IF "stringValue" \in DOMAIN v THEN ReadString(v["stringValue"])
                   ELSE v[CHOOSE k \in DOMAIN v : TRUE]]]

ReadSpan(object) ==
    LET status == Get(object, "status", [code |-> "STATUS_CODE_UNSET"]) IN
    [trace |-> object["traceId"], span |-> object["spanId"],
     parent |-> Get(object, "parentSpanId", None), name |-> ReadStringOf(object, "name"),
     state |-> ReadStringOf(object, "traceState"), kind |-> object["kind"],
     attributes |-> ReadAttributes(Get(object, "attributes", <<>>)),
     code |-> status["code"], message |-> ReadStringOf(status, "message")]

(* What it should read: attributes without the type of their numbers, spans  *)
(* without their times and flags.                                            *)
Named(attributes) ==
    [i \in DOMAIN attributes |-> [name |-> attributes[i].name,
                                  value |-> attributes[i].value.value]]

Meaning(x) ==
    [trace |-> x.identity.trace, span |-> x.identity.span, parent |-> x.identity.parent,
     name |-> x.identity.name, state |-> x.identity.state, kind |-> otlpSpanKindName[x.kind],
     attributes |-> Named(x.attributes),
     code |-> otlpStatusCodeName[x.status.code], message |-> x.status.message]

=============================================================================
