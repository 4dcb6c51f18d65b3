----------------------------- MODULE Traceparent -----------------------------
(***************************************************************************)
(* The W3C traceparent header (context/traceparent.cc) and the hexadecimal *)
(* form of trace and span ids (common/id_format.h, id_format.cc,           *)
(* trace_id.h, span_id.h).  A string is a sequence of character codes, an  *)
(* id a sequence of bytes.                                                 *)
(*                                                                         *)
(* The state machine is a chain of services: one writes the header of a    *)
(* request, characters are changed, added or lost on the way, the next one *)
(* reads the header and goes on with the context it got.                   *)
(***************************************************************************)
EXTENDS Integers, Sequences, FiniteSets

CONSTANTS Contexts,   \* the contexts first senders have
          Characters, \* what damage writes into a header
          Positions,  \* where it does so
          MaxEdits,   \* bound of the model: damages in a chain
          MaxHops,    \* bound of the model: requests in a chain
          None

kTraceparentLength == 55
kSeparator == 45
TraceIdBytes == 16
SpanIdBytes == 8

Byte == 0 .. 255
Char == 0 .. 255

(* A TraceContext that came over the wire: it has no parent. *)
TraceContext ==
    [traceId : [1 .. TraceIdBytes -> Byte], spanId : [1 .. SpanIdBytes -> Byte],
     traceFlags : Byte, tracestate : STRING]

HasNonZeroByte(bytes) == \E i \in DOMAIN bytes : bytes[i] # 0

IsValid(ctx) == HasNonZeroByte(ctx.traceId) /\ HasNonZeroByte(ctx.spanId)

TraceparentError ==
    {"kMalformed", "kUnsupportedVersion", "kInvalidTraceId", "kInvalidSpanId", "kInvalidFlags"}

ASSUME TraceparentAssumption ==
    /\ Contexts \subseteq {ctx \in TraceContext : IsValid(ctx)}
    /\ Characters \subseteq Char
    /\ None \notin TraceparentError /\ None \notin Seq(Byte)
    /\ MaxEdits \in Nat /\ MaxHops \in Nat

----------------------------------------------------------------------------
(* The conversions.  The definitions with a double underscore are deliberate *)
(* mistakes, kept to show that the properties notice them.                   *)

(* 'g' counts as a digit. *)
HexValue__UpToG(ch) ==
    IF ch \in 48 .. 57 THEN ch - 48
    ELSE IF ch \in 97 .. 103 THEN ch - 97 + 10
    ELSE IF ch \in 65 .. 70 THEN ch - 65 + 10
    ELSE -1

HexValue(ch) ==
    IF ch \in 48 .. 57 THEN ch - 48
    ELSE IF ch \in 97 .. 102 THEN ch - 97 + 10
    ELSE IF ch \in 65 .. 70 THEN ch - 65 + 10
    ELSE -1

(* Capital letters. *)
HexDigits__Upper(d) == IF d < 10 THEN 48 + d ELSE 55 + d

(* kHexDigits[d] *)
HexDigits(d) == IF d < 10 THEN 48 + d ELSE 87 + d

(* parseHex: None when the length or a character is wrong. *)
ParseHex(hex, len) ==
    IF Len(hex) # 2 * len \/ \E i \in DOMAIN hex : HexValue(hex[i]) < 0 THEN None
    ELSE [i \in 1 .. len |-> 16 * HexValue(hex[2 * i - 1]) + HexValue(hex[2 * i])]

(* The low digit comes first. *)
FormatHex__Swapped(bytes) ==
    [i \in 1 .. 2 * Len(bytes) |->
        IF i % 2 = 1 THEN HexDigits(bytes[(i + 1) \div 2] % 16)
                     ELSE HexDigits(bytes[i \div 2] \div 16)]

FormatHex(bytes) ==
    [i \in 1 .. 2 * Len(bytes) |->
        IF i % 2 = 1 THEN HexDigits(bytes[(i + 1) \div 2] \div 16)
                     ELSE HexDigits(bytes[i \div 2] % 16)]

Zero(len) == [i \in 1 .. len |-> 0]

(* TraceId::fromHex, SpanId::fromHex *)
FromHex(hex, len) ==
    LET id == ParseHex(hex, len) IN
    IF id = None THEN Zero(len) ELSE IF ~HasNonZeroByte(id) THEN Zero(len) ELSE id

(* substr, with a first index of 0 *)
Substr(value, pos, count) == SubSeq(value, pos + 1, pos + count)

HasExpectedSeparators(value) ==
    /\ Len(value) = kTraceparentLength
    /\ value[2 + 1] = kSeparator /\ value[35 + 1] = kSeparator /\ value[52 + 1] = kSeparator

Rejected(error) == [error |-> error, context |-> None]

(* extractTraceparent; parseFlags is parseHex of one byte. *)
Extract(value, tracestate) ==
    IF ~HasExpectedSeparators(value) THEN Rejected("kMalformed")
    ELSE IF Substr(value, 0, 2) # <<48, 48>> THEN Rejected("kUnsupportedVersion")
    ELSE LET traceId == FromHex(Substr(value, 3, 2 * TraceIdBytes), TraceIdBytes)
             spanId == FromHex(Substr(value, 36, 2 * SpanIdBytes), SpanIdBytes)
             flags == ParseHex(Substr(value, 53, 2), 1) IN
         IF ~HasNonZeroByte(traceId) THEN Rejected("kInvalidTraceId")
         ELSE IF ~HasNonZeroByte(spanId) THEN Rejected("kInvalidSpanId")
         ELSE IF flags = None THEN Rejected("kInvalidFlags")
         ELSE [error |-> None,
               context |-> [traceId |-> traceId, spanId |-> spanId,
                            traceFlags |-> flags[1], tracestate |-> tracestate]]

(* injectTraceparent *)
Inject(ctx) ==
    IF ~IsValid(ctx) THEN <<>>
    ELSE <<48, 48, kSeparator>> \o FormatHex(ctx.traceId) \o <<kSeparator>>
           \o FormatHex(ctx.spanId) \o <<kSeparator>>
           \o <<HexDigits(ctx.traceFlags \div 16), HexDigits(ctx.traceFlags % 16)>>

(* injectTracestate *)
InjectTracestate(ctx) == ctx.tracestate

----------------------------------------------------------------------------
VARIABLES
    sent,    \* the context of the service that sends next
    header,  \* the traceparent and tracestate on the way, None when there are none
    edits,   \* how often traceparents were damaged
    got,     \* what the receiver made of them, None before it did
    hops

vars == <<sent, header, edits, got, hops>>

TypeOK ==
    /\ sent \in TraceContext /\ IsValid(sent)
    /\ header # None => header \in [parent : Seq(Char), state : STRING]
    /\ edits \in 0 .. MaxEdits /\ hops \in 0 .. MaxHops
    /\ got # None =>
          \/ got.context = None /\ got.error \in TraceparentError
          \/ got.error = None /\ got.context \in TraceContext /\ IsValid(got.context)

Init == sent \in Contexts /\ header = None /\ edits = 0 /\ got = None /\ hops = 0

Send ==
    /\ header = None /\ hops < MaxHops
    /\ header' = [parent |-> Inject(sent), state |-> InjectTracestate(sent)]
    /\ hops' = hops + 1
    /\ UNCHANGED <<sent, edits, got>>

DamageTo(parent) ==
    /\ header # None /\ got = None /\ edits < MaxEdits
    /\ header' = [header EXCEPT !.parent = parent]
    /\ edits' = edits + 1
    /\ UNCHANGED <<sent, got, hops>>

Damage ==
    /\ header # None
    /\ \/ \E i \in Positions \cap DOMAIN header.parent, ch \in Characters :
              DamageTo([header.parent EXCEPT ![i] = ch])
       \/ \E ch \in Characters : DamageTo(Append(header.parent, ch))
       \/ header.parent # <<>> /\ DamageTo(Tail(header.parent))

Receive ==
    /\ header # None /\ got = None
    /\ got' = Extract(header.parent, header.state)
    /\ UNCHANGED <<sent, header, edits, hops>>

(* The receiver sends on with the context it got. *)
Forward ==
    /\ got # None /\ got.error = None
    /\ sent' = got.context
    /\ header' = None /\ got' = None
    /\ UNCHANGED <<edits, hops>>

Next == Send \/ Damage \/ Receive \/ Forward

Spec == Init /\ [][Next]_vars

----------------------------------------------------------------------------
(* The properties. *)

Accepted == got # None /\ got.error = None

(* A header that was not damaged gives the receiver the context of the       *)
(* sender, flags and tracestate included (injectTraceparent, then            *)
(* extractTraceparent, over several hops).                                   *)
IntactArrives ==
    got # None /\ header.parent = Inject(sent) => got.error = None /\ got.context = sent

IsHex(ch) == ch \in (48 .. 57) \cup (97 .. 102) \cup (65 .. 70)

Separators(value) == {i \in DOMAIN value : value[i] = kSeparator}

AllHex(field) == \A i \in DOMAIN field : IsHex(field[i])
AllZeros(field) == \A i \in DOMAIN field : field[i] = 48

Fields(version, traceId, spanId, flags) ==
    /\ version = <<48, 48>>
    /\ Len(traceId) = 32 /\ AllHex(traceId) /\ ~AllZeros(traceId)
    /\ Len(spanId) = 16 /\ AllHex(spanId) /\ ~AllZeros(spanId)
    /\ Len(flags) = 2 /\ AllHex(flags)

(* The grammar version-traceid-spanid-flags, by its separators and not by    *)
(* offsets: four fields of hexadecimal digits, the ids not all zeros.        *)
WellFormed(value) ==
    \E a, b, c \in Separators(value) :
        /\ a < b /\ b < c /\ Separators(value) = {a, b, c}
        /\ Fields(SubSeq(value, 1, a - 1), SubSeq(value, a + 1, b - 1),
                  SubSeq(value, b + 1, c - 1), SubSeq(value, c + 1, Len(value)))

(* Exactly the headers of the grammar are accepted, whatever was changed,    *)
(* added or lost at a field's edge (extractTraceparent, fromHex, parseHex).  *)
AcceptsGrammar == got # None => (Accepted <=> WellFormed(header.parent))

Lower(value) == [i \in DOMAIN value |-> IF value[i] \in 65 .. 70 THEN value[i] + 32 ELSE value[i]]

(* What is accepted is read without loss and sent on in small letters: the   *)
(* next service gets the same ids and flags (toHex, injectTraceparent).      *)
ForwardsSame == Accepted => Inject(got.context) = Lower(header.parent)

=============================================================================
