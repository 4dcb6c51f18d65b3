-------------------------------- MODULE Span --------------------------------
(***************************************************************************)
(* Span (kernel/span.h, kernel/span.cc) from its construction on: kind,    *)
(* status, the bounded list of attributes, and the times that are taken    *)
(* only when the process-wide timing policy asks for them.                 *)
(***************************************************************************)
EXTENDS Naturals, Sequences

CONSTANTS Spans,
          Identities,      \* the names, contexts and tracestates spans start with
          Kinds, Statuses, \* the arguments of setKind and setStatus
          Attributes,      \* the arguments of setAttribute
          kMaxAttributes,
          MaxClock,        \* bound of the model: the last reading of Span::Clock
          None

SpanTimingPolicy == {"kDisabled", "kEnabled"}
SpanKind == {"kInternal", "kServer", "kClient", "kProducer", "kConsumer"}
SpanStatusCode == {"kUnset", "kOk", "kError"}
SpanAttributeType == {"kInt64", "kUInt64", "kDouble", "kBool", "kString"}

(* spanAttribute: every overload makes a value of one of the five types. *)
SpanAttribute(name, type, value) == [name |-> name, value |-> [type |-> type, value |-> value]]

(* Strings are sequences of character codes. *)
Char == 0 .. 255
String == Seq(Char)

IsIdentity(identity) == identity.name \in String /\ identity.state \in String

IsStatus(status) == status.code \in SpanStatusCode /\ status.message \in String

IsAttribute(attribute) ==
    /\ attribute.name \in String
    /\ attribute.value.type \in SpanAttributeType
    /\ attribute.value.type = "kString" => attribute.value.value \in String

ASSUME SpanAssumption ==
    /\ Kinds \subseteq SpanKind
    /\ \A identity \in Identities : IsIdentity(identity)
    /\ \A status \in Statuses : IsStatus(status)
    /\ \A attribute \in Attributes : IsAttribute(attribute)
    /\ kMaxAttributes \in Nat /\ MaxClock \in Nat \ {0}

VARIABLES
    policy,  \* g_spanTimingPolicy
    clock,   \* the steady clock, whose epoch (0) has passed
    span     \* span[s]: the Span object, None before its construction

spanVars == <<policy, clock, span>>

Epoch == 0

SpanRecord == [identity : Identities, kind : Kinds \cup {"kInternal"},
               status : Statuses \cup {[code |-> "kUnset", message |-> <<>>]},
               attributes : Seq(Attributes), startedAt : 0 .. MaxClock,
               endedAt : 0 .. MaxClock, ended : BOOLEAN]

SpanTypeOK ==
    /\ policy \in SpanTimingPolicy
    /\ clock \in 1 .. MaxClock
    /\ span \in [Spans -> SpanRecord \cup {None}]
    /\ \A s \in Spans : span[s] # None => Len(span[s].attributes) <= kMaxAttributes

SpanInit ==
    /\ policy = "kDisabled" /\ clock = 1
    /\ span = [s \in Spans |-> None]

Started == {s \in Spans : span[s] # None}

SetSpanTimingPolicy(p) == policy' = p /\ UNCHANGED <<clock, span>>

Tick == clock < MaxClock /\ clock' = clock + 1 /\ UNCHANGED <<policy, span>>

(* Span::Span with a timing policy; without one it is the process-wide one. *)
Construct(s, identity, timing) ==
    /\ span[s] = None
    /\ span' = [span EXCEPT ![s] =
                  [identity |-> identity, kind |-> "kInternal",
                   status |-> [code |-> "kUnset", message |-> <<>>], attributes |-> <<>>,
                   startedAt |-> IF timing = "kEnabled" THEN clock ELSE Epoch,
                   endedAt |-> Epoch, ended |-> FALSE]]
    /\ UNCHANGED <<policy, clock>>

SetKind(s, kind) ==
    /\ s \in Started
    /\ span' = [span EXCEPT ![s].kind = kind]
    /\ UNCHANGED <<policy, clock>>

SetStatus(s, status) ==
    /\ s \in Started
    /\ span' = [span EXCEPT ![s].status = status]
    /\ UNCHANGED <<policy, clock>>

(* setAttribute returns false, and changes nothing, when the list is full. *)
SetAttribute(s, attribute) ==
    /\ s \in Started /\ Len(span[s].attributes) < kMaxAttributes
    /\ span' = [span EXCEPT ![s].attributes = Append(@, attribute)]
    /\ UNCHANGED <<policy, clock>>

(* The definitions with a double underscore are deliberate mistakes, kept to *)
(* show that the properties notice them.                                     *)

(* The end is timed when the policy asks for it now. *)
End__AsksPolicy(s) ==
    /\ s \in Started
    /\ span' = [span EXCEPT ![s].ended = TRUE,
                            ![s].endedAt = IF ~span[s].ended /\ policy = "kEnabled"
                                           THEN clock ELSE @]
    /\ UNCHANGED <<policy, clock>>

(* end() is not idempotent. *)
End__Again(s) ==
    /\ s \in Started
    /\ span' = [span EXCEPT ![s].ended = TRUE,
                            ![s].endedAt = IF span[s].startedAt # Epoch THEN clock ELSE @]
    /\ UNCHANGED <<policy, clock>>

(* Span::end *)
End(s) ==
    /\ s \in Started
    /\ span' = [span EXCEPT ![s].ended = TRUE,
                            ![s].endedAt = IF ~span[s].ended /\ span[s].startedAt # Epoch
                                           THEN clock ELSE @]
    /\ UNCHANGED <<policy, clock>>

SpanNext ==
    \/ \E p \in SpanTimingPolicy : SetSpanTimingPolicy(p)
    \/ Tick
    \/ \E s \in Spans :
          \/ \E identity \in Identities, timing \in {policy} \cup SpanTimingPolicy :
                Construct(s, identity, timing)
          \/ \E kind \in Kinds : SetKind(s, kind)
          \/ \E status \in Statuses : SetStatus(s, status)
          \/ \E attribute \in Attributes : SetAttribute(s, attribute)
          \/ End(s)

(* An ended span has both times or neither, in order, however the timing     *)
(* policy changed between its start and its end (Span::Span, Span::end).     *)
TimesMatch ==
    \A s \in Started : LET x == span[s] IN
        /\ x.ended => ((x.startedAt = Epoch) <=> (x.endedAt = Epoch)) /\ x.startedAt <= x.endedAt
        /\ ~x.ended => x.endedAt = Epoch

(* What end() recorded first stays, however often end() is called and the    *)
(* policy and the clock change (Span::end; SpanGuard calls it again).        *)
FirstEndCounts ==
    [][\A s \in Started : span[s].ended =>
            span'[s].ended /\ span'[s].endedAt = span[s].endedAt]_span

=============================================================================
