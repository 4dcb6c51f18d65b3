----------------------- MODULE OtlpHttpExporterProofs -----------------------
(***************************************************************************)
(* Spans and their OTLP export, for any number of spans and exports, any   *)
(* clock, any configuration and any set of status codes.                   *)
(*                                                                         *)
(* First the invariant of the calls and what follows from it, then what a  *)
(* receiver reads: strings, for which an induction over sets of naturals   *)
(* is derived from the pigeonhole principle (SetInduction), the body, the  *)
(* headers and the request.                                                *)
(***************************************************************************)
EXTENDS OtlpHttpExporter, SequenceTheorems, FiniteSetTheorems, TLAPS

(* No time was read from the clock before it got there. *)
Clocked == \A s \in Started : span[s].startedAt <= clock /\ span[s].endedAt <= clock

SpanInv == SpanTypeOK /\ TimesMatch /\ Clocked

(* The status of a call is the answer of a server to this very request. *)
Answers ==
    \A e \in Exports :
        /\ call[e].status # 0 => wire[e].at = "answered" /\ wire[e].code = call[e].status
        /\ call[e].pc \in {"idle", "sending", "locked", "spawned", "connecting", "posting"}
             => call[e].status = 0

(* A call reports success only for its status, or for an empty batch. *)
Results ==
    \A e \in Exports :
        /\ call[e].pc = "idle" => call[e].batch = <<>>
        /\ call[e].result = TRUE => /\ call[e].pc = "done"
                                    /\ call[e].batch = <<>> \/ call[e].status \in 200 .. 299

(* The client is open only while a request is posted or the client closed, ... *)
Opened == \A e \in Exports : conn[e] = "open" => call[e].pc \in {"posting", "closing"}

(* ... and all of that happens with the lock of the transport. *)
Holds ==
    \A e \in Exports :
        call[e].pc \in {"locked", "spawned", "connecting", "posting", "closing"} => mutex = e

Inv == TypeOK /\ SpanInv /\ Answers /\ Results /\ Opened /\ Holds

(* The transport never has two connections at a time. *)
OneConnection == \A e, f \in Exports : conn[e] = "open" /\ conn[f] = "open" => e = f

----------------------------------------------------------------------------
(* Spans. *)

LEMMA SpanInitInv == SpanInit => SpanInv
<1> SUFFICES ASSUME SpanInit PROVE SpanInv
  OBVIOUS
<1>1. Started = {}
  BY DEF SpanInit, Started
<1>2. SpanTypeOK
  BY SpanAssumption DEF SpanInit, SpanTypeOK, SpanTimingPolicy
<1> QED
  BY <1>1, <1>2 DEF SpanInv, TimesMatch, Clocked

(* A started span is a record. *)
LEMMA StartedRecord == ASSUME SpanTypeOK, NEW s \in Started
                       PROVE  /\ s \in Spans /\ span[s] \in SpanRecord
                              /\ span[s].startedAt \in 0 .. MaxClock
                              /\ span[s].endedAt \in 0 .. MaxClock
                              /\ span[s].ended \in BOOLEAN
<1>1. s \in Spans /\ span[s] \in SpanRecord
  BY DEF SpanTypeOK, Started
<1> QED
  BY <1>1 DEF SpanRecord

(* One span is replaced by another record whose times are right. *)
LEMMA ChangeOne ==
    ASSUME SpanInv, NEW s \in Spans, NEW x \in SpanRecord, Len(x.attributes) <= kMaxAttributes,
           span' = [span EXCEPT ![s] = x], UNCHANGED <<policy, clock>>,
           x.ended => ((x.startedAt = Epoch) <=> (x.endedAt = Epoch)) /\ x.startedAt <= x.endedAt,
           ~x.ended => x.endedAt = Epoch,
           x.startedAt <= clock, x.endedAt <= clock
    PROVE  SpanInv'
<1>1. \A t \in Spans : span'[t] = IF t = s THEN x ELSE span[t]
  BY DEF SpanInv, SpanTypeOK
<1>2. SpanTypeOK'
  BY <1>1 DEF SpanInv, SpanTypeOK
<1>3. \A t \in Started' : t = s \/ (t \in Started /\ span'[t] = span[t])
  BY <1>1 DEF Started
<1>4. TimesMatch'
  BY <1>1, <1>3 DEF SpanInv, TimesMatch, Started
<1>5. Clocked'
  BY <1>1, <1>3 DEF SpanInv, Clocked, Started
<1> QED
  BY <1>2, <1>4, <1>5 DEF SpanInv

LEMMA ConstructStep ==
    ASSUME SpanInv, NEW s \in Spans, NEW identity \in Identities, NEW timing,
           Construct(s, identity, timing)
    PROVE  SpanInv'
<1> DEFINE x == [identity |-> identity, kind |-> "kInternal",
                 status |-> [code |-> "kUnset", message |-> <<>>], attributes |-> <<>>,
                 startedAt |-> IF timing = "kEnabled" THEN clock ELSE Epoch,
                 endedAt |-> Epoch, ended |-> FALSE]
<1>1. clock \in 1 .. MaxClock /\ MaxClock \in Nat /\ kMaxAttributes \in Nat
  BY SpanAssumption DEF SpanInv, SpanTypeOK
<1>2. x.startedAt \in 0 .. MaxClock /\ x.startedAt <= clock /\ x.endedAt = 0 /\ ~x.ended
  BY <1>1 DEF Epoch
<1>3. x.attributes = <<>> /\ <<>> \in Seq(Attributes) /\ Len(x.attributes) <= kMaxAttributes
  BY <1>1
<1>4. x \in SpanRecord
  BY <1>1, <1>2, <1>3 DEF SpanRecord, Epoch
<1>5. span' = [span EXCEPT ![s] = x] /\ UNCHANGED <<policy, clock>>
  BY DEF Construct
<1>6. x.endedAt = Epoch /\ x.endedAt <= clock
  BY <1>1, <1>2 DEF Epoch
<1> HIDE DEF x
<1> QED
  BY <1>2, <1>3, <1>4, <1>5, <1>6, ChangeOne

(* A change of a span that leaves its times alone. *)
LEMMA SetStep ==
    ASSUME SpanInv, NEW s \in Started, NEW x \in SpanRecord, Len(x.attributes) <= kMaxAttributes,
           x.startedAt = span[s].startedAt, x.endedAt = span[s].endedAt, x.ended = span[s].ended,
           span' = [span EXCEPT ![s] = x], UNCHANGED <<policy, clock>>
    PROVE  SpanInv'
<1>1. s \in Spans
  BY DEF Started
<1>2. /\ x.ended => ((x.startedAt = Epoch) <=> (x.endedAt = Epoch)) /\ x.startedAt <= x.endedAt
      /\ ~x.ended => x.endedAt = Epoch
      /\ x.startedAt <= clock /\ x.endedAt <= clock
  BY DEF SpanInv, TimesMatch, Clocked
<1> QED
  BY <1>1, <1>2, ChangeOne

LEMMA SetKindStep == ASSUME SpanInv, NEW s \in Spans, NEW kind \in Kinds, SetKind(s, kind)
                     PROVE  SpanInv'
<1>1. s \in Started /\ span[s] \in SpanRecord
  BY StartedRecord DEF SetKind, SpanInv
<1> DEFINE x == [span[s] EXCEPT !.kind = kind]
<1>2. x \in SpanRecord
  BY <1>1 DEF SpanRecord
<1>3. /\ Len(x.attributes) <= kMaxAttributes
      /\ x.startedAt = span[s].startedAt /\ x.endedAt = span[s].endedAt /\ x.ended = span[s].ended
  BY <1>1 DEF SpanRecord, SpanInv, SpanTypeOK, Started
<1>4. span' = [span EXCEPT ![s] = x] /\ UNCHANGED <<policy, clock>>
  BY DEF SetKind
<1> HIDE DEF x
<1> QED
  BY <1>1, <1>2, <1>3, <1>4, SetStep

LEMMA SetStatusStep == ASSUME SpanInv, NEW s \in Spans, NEW status \in Statuses, SetStatus(s, status)
                       PROVE  SpanInv'
<1>1. s \in Started /\ span[s] \in SpanRecord
  BY StartedRecord DEF SetStatus, SpanInv
<1> DEFINE x == [span[s] EXCEPT !.status = status]
<1>2. x \in SpanRecord
  BY <1>1 DEF SpanRecord
<1>3. /\ Len(x.attributes) <= kMaxAttributes
      /\ x.startedAt = span[s].startedAt /\ x.endedAt = span[s].endedAt /\ x.ended = span[s].ended
  BY <1>1 DEF SpanRecord, SpanInv, SpanTypeOK, Started
<1>4. span' = [span EXCEPT ![s] = x] /\ UNCHANGED <<policy, clock>>
  BY DEF SetStatus
<1> HIDE DEF x
<1> QED
  BY <1>1, <1>2, <1>3, <1>4, SetStep

LEMMA SetAttributeStep ==
    ASSUME SpanInv, NEW s \in Spans, NEW attribute \in Attributes, SetAttribute(s, attribute)
    PROVE  SpanInv'
<1>1. s \in Started /\ span[s] \in SpanRecord /\ Len(span[s].attributes) < kMaxAttributes
  BY StartedRecord DEF SetAttribute, SpanInv
<1>2. span[s].attributes \in Seq(Attributes)
  BY <1>1 DEF SpanRecord
<1>3. /\ Append(span[s].attributes, attribute) \in Seq(Attributes)
      /\ Len(Append(span[s].attributes, attribute)) <= kMaxAttributes
  BY <1>1, <1>2, AppendProperties, LenProperties, SpanAssumption
<1> DEFINE x == [span[s] EXCEPT !.attributes = Append(span[s].attributes, attribute)]
<1>4. x \in SpanRecord
  BY <1>1, <1>3 DEF SpanRecord
<1>5. /\ Len(x.attributes) <= kMaxAttributes
      /\ x.startedAt = span[s].startedAt /\ x.endedAt = span[s].endedAt /\ x.ended = span[s].ended
  BY <1>1, <1>3 DEF SpanRecord
<1>6. span' = [span EXCEPT ![s] = x] /\ UNCHANGED <<policy, clock>>
  BY DEF SetAttribute
<1> HIDE DEF x
<1> QED
  BY <1>1, <1>4, <1>5, <1>6, SetStep

LEMMA EndStep == ASSUME SpanInv, NEW s \in Spans, End(s)
                 PROVE  SpanInv'
<1>1. /\ s \in Started /\ span[s] \in SpanRecord
      /\ span[s].startedAt \in 0 .. MaxClock /\ span[s].endedAt \in 0 .. MaxClock
      /\ span[s].ended \in BOOLEAN
  BY StartedRecord DEF End, SpanInv
<1>2. clock \in 1 .. MaxClock /\ MaxClock \in Nat
  BY SpanAssumption DEF SpanInv, SpanTypeOK
<1> DEFINE at == IF ~span[s].ended /\ span[s].startedAt # Epoch THEN clock ELSE span[s].endedAt
           x == [span[s] EXCEPT !.ended = TRUE, !.endedAt = at]
<1>3. at \in 0 .. MaxClock
  BY <1>1, <1>2
<1>4. x \in SpanRecord
  BY <1>1, <1>3 DEF SpanRecord
<1>5. /\ x.attributes = span[s].attributes /\ x.startedAt = span[s].startedAt
      /\ x.endedAt = at /\ x.ended
  BY <1>1 DEF SpanRecord
<1>6. Len(x.attributes) <= kMaxAttributes
  BY <1>1, <1>5 DEF SpanInv, SpanTypeOK, Started
<1>7. /\ (span[s].startedAt = Epoch) <=> (at = Epoch)
      /\ span[s].startedAt <= at /\ span[s].startedAt <= clock /\ at <= clock
  BY <1>1, <1>2 DEF SpanInv, TimesMatch, Clocked, Epoch
<1>8. span' = [span EXCEPT ![s] = x] /\ UNCHANGED <<policy, clock>>
  BY DEF End
<1> HIDE DEF x, at
<1> QED
  BY <1>4, <1>5, <1>6, <1>7, <1>8, ChangeOne

LEMMA PolicyStep == ASSUME SpanInv, NEW p \in SpanTimingPolicy, SetSpanTimingPolicy(p)
                    PROVE  SpanInv'
BY DEF SpanInv, SetSpanTimingPolicy, SpanTypeOK, TimesMatch, Clocked, Started

LEMMA TickStep == ASSUME SpanInv, Tick PROVE SpanInv'
<1>1. SpanTypeOK' /\ TimesMatch'
  BY SpanAssumption DEF SpanInv, Tick, SpanTypeOK, TimesMatch, Started
<1>2. Clocked'
  <2> SUFFICES ASSUME NEW s \in Started
               PROVE  span[s].startedAt <= clock + 1 /\ span[s].endedAt <= clock + 1
    BY DEF Tick, Clocked, Started
  <2>1. span[s].startedAt \in 0 .. MaxClock /\ span[s].endedAt \in 0 .. MaxClock
    BY StartedRecord DEF SpanInv
  <2> QED
    BY <2>1, SpanAssumption DEF SpanInv, SpanTypeOK, Clocked
<1> QED
  BY <1>1, <1>2 DEF SpanInv

LEMMA SpanNextInv == SpanInv /\ SpanNext => SpanInv'
<1> SUFFICES ASSUME SpanInv, SpanNext PROVE SpanInv'
  OBVIOUS
<1> QED
  BY PolicyStep, TickStep, ConstructStep, SetKindStep, SetStatusStep, SetAttributeStep, EndStep
     DEF SpanNext

----------------------------------------------------------------------------
(* The exporter. *)

LEMMA InvInit == Init => Inv
<1> SUFFICES ASSUME Init PROVE Inv
  OBVIOUS
<1>1. SpanInv
  BY SpanInitInv DEF Init
<1>2. IdleCall \in [pc : Positions, batch : Seq(Exported), onScheduler : BOOLEAN,
                    status : StatusCodes \cup {0}, result : BOOLEAN \cup {None}]
  BY EmptySeq DEF IdleCall, Positions
<1>3. TypeOK
  BY <1>1, <1>2 DEF Init, TypeOK, SpanInv
<1>4. \A e \in Exports : /\ call[e].pc = "idle" /\ call[e].batch = <<>> /\ call[e].status = 0
                        /\ call[e].result = None /\ conn[e] = "none"
  BY DEF Init, IdleCall
<1>5. None # TRUE
  BY OtlpAssumption, Zenon
<1> QED
  BY <1>1, <1>3, <1>4, <1>5 DEF Inv, Answers, Results, Opened, Holds

(* The records that describe a call and its request. *)
CallRecord == [pc : Positions, batch : Seq(Exported), onScheduler : BOOLEAN,
               status : StatusCodes \cup {0}, result : BOOLEAN \cup {None}]

WireRecord == [at : {"nowhere", "sent", "received", "answered"}, code : StatusCodes \cup {0}]

(* Most steps of a call change its own record, and of the rest only what     *)
(* their arguments say: the invariant is a matter of the call itself.        *)
LEMMA OneCall ==
    ASSUME Inv, NEW e \in Exports, NEW c \in CallRecord, NEW w \in WireRecord,
           NEW n \in {"none", "open", "closed", "unwound"},
           call' = [call EXCEPT ![e] = c],
           wire' = [wire EXCEPT ![e] = w],
           conn' = [conn EXCEPT ![e] = n],
           UNCHANGED <<spanVars, config>>, runtime' \in BOOLEAN,
           c.status # 0 => w.at = "answered" /\ w.code = c.status,
           c.pc \in {"idle", "sending", "locked", "spawned", "connecting", "posting"}
             => c.status = 0,
           c.pc = "idle" => c.batch = <<>>,
           c.result = TRUE => c.pc = "done" /\ (c.batch = <<>> \/ c.status \in 200 .. 299),
           n = "open" => c.pc \in {"posting", "closing"},
           c.pc \in {"locked", "spawned", "connecting", "posting", "closing"} => mutex' = e,
           \/ mutex' = mutex
           \/ mutex = None /\ mutex' = e
           \/ mutex = e /\ mutex' = None
    PROVE  Inv'
<1> USE DEF Inv
<1>1. /\ \A f \in Exports : call'[f] = IF f = e THEN c ELSE call[f]
      /\ \A f \in Exports : wire'[f] = IF f = e THEN w ELSE wire[f]
      /\ \A f \in Exports : conn'[f] = IF f = e THEN n ELSE conn[f]
      /\ policy' = policy /\ clock' = clock /\ span' = span /\ config' = config
  BY DEF TypeOK, spanVars
<1>2. SpanInv'
  BY <1>1 DEF SpanInv, SpanTypeOK, TimesMatch, Clocked, Started
<1>3. TypeOK'
  <2>1. call' \in [Exports -> CallRecord] /\ wire' \in [Exports -> WireRecord]
    BY DEF TypeOK, CallRecord, WireRecord
  <2>2. mutex' \in Exports \cup {None} /\ runtime' \in BOOLEAN
    BY DEF TypeOK
  <2>3. conn' \in [Exports -> {"none", "open", "closed", "unwound"}]
    BY DEF TypeOK
  <2> QED
    BY <1>1, <1>2, <2>1, <2>2, <2>3 DEF TypeOK, SpanInv, CallRecord, WireRecord
<1>4. Answers'
  BY <1>1 DEF Answers
<1>5. Results'
  BY <1>1 DEF Results
<1>6. Opened'
  BY <1>1 DEF Opened
<1>7. Holds'
  BY <1>1, OtlpAssumption DEF Holds
<1> QED
  BY <1>2, <1>3, <1>4, <1>5, <1>6, <1>7

(* What the invariant says of one call. *)
LEMMA OfCall == ASSUME Inv, NEW e \in Exports
                PROVE  /\ call[e] \in CallRecord /\ wire[e] \in WireRecord
                       /\ conn[e] \in {"none", "open", "closed", "unwound"}
                       /\ runtime \in BOOLEAN
BY DEF Inv, TypeOK, CallRecord, WireRecord

(* The steps of a call. *)

LEMMA ExportNothingStep == ASSUME Inv, NEW e \in Exports, ExportNothing(e) PROVE Inv'
<1> DEFINE c == [call[e] EXCEPT !.pc = "done", !.result = TRUE]
           w == wire[e]
           n == conn[e]
<1>1. c \in CallRecord /\ w \in WireRecord /\ n \in {"none", "open", "closed", "unwound"}
  BY OfCall DEF CallRecord, WireRecord, Positions, ExportNothing, At
<1>a. /\ c.pc = "done"
      /\ c.batch = call[e].batch
      /\ c.status = call[e].status
      /\ c.result = TRUE
  BY OfCall DEF CallRecord
<1>2. /\ call' = [call EXCEPT ![e] = c] /\ wire' = [wire EXCEPT ![e] = w]
      /\ conn' = [conn EXCEPT ![e] = n]
  BY OfCall DEF ExportNothing, At, Inv, TypeOK
<1>3. UNCHANGED <<spanVars, config>> /\ runtime' \in BOOLEAN
  BY OfCall DEF ExportNothing, At
<1>4. /\ c.status # 0 => w.at = "answered" /\ w.code = c.status
      /\ c.pc \in {"idle", "sending", "locked", "spawned", "connecting", "posting"} => c.status = 0
  BY OfCall DEF Inv, Answers, CallRecord, WireRecord, ExportNothing, At
<1>5. /\ c.pc = "idle" => c.batch = <<>>
      /\ c.result = TRUE => c.pc = "done" /\ (c.batch = <<>> \/ c.status \in 200 .. 299)
  BY <1>a DEF Inv, Results, ExportNothing, At
<1>6. /\ n = "open" => c.pc \in {"posting", "closing"}
      /\ c.pc \in {"locked", "spawned", "connecting", "posting", "closing"} => mutex' = e
      /\ mutex' = mutex \/ (mutex = None /\ mutex' = e) \/ (mutex = e /\ mutex' = None)
  BY OfCall DEF Inv, Opened, Holds, CallRecord, ExportNothing, At
<1> HIDE DEF c, w, n
<1> QED
  BY <1>1, <1>2, <1>3, <1>4, <1>5, <1>6, OneCall

LEMMA BeginExportStep == ASSUME Inv, NEW e \in Exports, NEW s \in Spans, NEW sched \in BOOLEAN, BeginExport(e, s, sched) PROVE Inv'
<1>b. Append(Others, span[s]) \in Seq(Exported)
  <2>1. Others \in Seq(Exported)
    BY OtlpAssumption, SeqMonotonic DEF Exported
  <2>2. span[s] \in Exported
    BY StartedRecord DEF BeginExport, Inv, SpanInv, Exported
  <2> QED
    BY <2>1, <2>2, AppendProperties
<1> DEFINE c == [call[e] EXCEPT !.pc = "sending", !.batch = Append(Others, span[s]), !.onScheduler = sched]
           w == wire[e]
           n == conn[e]
<1>1. c \in CallRecord /\ w \in WireRecord /\ n \in {"none", "open", "closed", "unwound"}
  BY OfCall, <1>b DEF CallRecord, WireRecord, Positions, BeginExport, At
<1>a. /\ c.pc = "sending"
      /\ c.batch = Append(Others, span[s])
      /\ c.status = call[e].status
      /\ c.result = call[e].result
  BY OfCall DEF CallRecord
<1>2. /\ call' = [call EXCEPT ![e] = c] /\ wire' = [wire EXCEPT ![e] = w]
      /\ conn' = [conn EXCEPT ![e] = n]
  BY OfCall DEF BeginExport, At, Inv, TypeOK
<1>3. UNCHANGED <<spanVars, config>> /\ runtime' \in BOOLEAN
  BY OfCall DEF BeginExport, At
<1>4. /\ c.status # 0 => w.at = "answered" /\ w.code = c.status
      /\ c.pc \in {"idle", "sending", "locked", "spawned", "connecting", "posting"} => c.status = 0
  BY OfCall, <1>b DEF Inv, Answers, CallRecord, WireRecord, BeginExport, At
<1>5. /\ c.pc = "idle" => c.batch = <<>>
      /\ c.result = TRUE => c.pc = "done" /\ (c.batch = <<>> \/ c.status \in 200 .. 299)
  BY <1>a, <1>b DEF Inv, Results, BeginExport, At
<1>6. /\ n = "open" => c.pc \in {"posting", "closing"}
      /\ c.pc \in {"locked", "spawned", "connecting", "posting", "closing"} => mutex' = e
      /\ mutex' = mutex \/ (mutex = None /\ mutex' = e) \/ (mutex = e /\ mutex' = None)
  BY OfCall DEF Inv, Opened, Holds, CallRecord, BeginExport, At
<1> HIDE DEF c, w, n
<1> QED
  BY <1>1, <1>2, <1>3, <1>4, <1>5, <1>6, OneCall

LEMMA UnavailableStep == ASSUME Inv, NEW e \in Exports, Unavailable(e) PROVE Inv'
<1> DEFINE c == [call[e] EXCEPT !.pc = "responded", !.status = 0]
           w == wire[e]
           n == conn[e]
<1>1. c \in CallRecord /\ w \in WireRecord /\ n \in {"none", "open", "closed", "unwound"}
  BY OfCall DEF CallRecord, WireRecord, Positions, Unavailable, At, Goes, Responds
<1>a. /\ c.pc = "responded"
      /\ c.batch = call[e].batch
      /\ c.status = 0
      /\ c.result = call[e].result
  BY OfCall DEF CallRecord
<1>2. /\ call' = [call EXCEPT ![e] = c] /\ wire' = [wire EXCEPT ![e] = w]
      /\ conn' = [conn EXCEPT ![e] = n]
  BY OfCall DEF Unavailable, At, Goes, Responds, Inv, TypeOK
<1>3. UNCHANGED <<spanVars, config>> /\ runtime' \in BOOLEAN
  BY OfCall DEF Unavailable, At, Goes, Responds
<1>4. /\ c.status # 0 => w.at = "answered" /\ w.code = c.status
      /\ c.pc \in {"idle", "sending", "locked", "spawned", "connecting", "posting"} => c.status = 0
  BY OfCall DEF Inv, Answers, CallRecord, WireRecord, Unavailable, At, Goes, Responds
<1>5. /\ c.pc = "idle" => c.batch = <<>>
      /\ c.result = TRUE => c.pc = "done" /\ (c.batch = <<>> \/ c.status \in 200 .. 299)
  BY <1>a DEF Inv, Results, Unavailable, At, Goes, Responds
<1>6. /\ n = "open" => c.pc \in {"posting", "closing"}
      /\ c.pc \in {"locked", "spawned", "connecting", "posting", "closing"} => mutex' = e
      /\ mutex' = mutex \/ (mutex = None /\ mutex' = e) \/ (mutex = e /\ mutex' = None)
  BY OfCall DEF Inv, Opened, Holds, CallRecord, Unavailable, At, Goes, Responds
<1> HIDE DEF c, w, n
<1> QED
  BY <1>1, <1>2, <1>3, <1>4, <1>5, <1>6, OneCall

LEMMA CustomAnswersStep == ASSUME Inv, NEW e \in Exports, NEW status \in StatusCodes, CustomAnswers(e, status) PROVE Inv'
<1> DEFINE c == [call[e] EXCEPT !.pc = "responded", !.status = status]
           w == [at |-> "answered", code |-> status]
           n == conn[e]
<1>1. c \in CallRecord /\ w \in WireRecord /\ n \in {"none", "open", "closed", "unwound"}
  BY OfCall DEF CallRecord, WireRecord, Positions, CustomAnswers, At, Goes, Responds
<1>a. /\ c.pc = "responded"
      /\ c.batch = call[e].batch
      /\ c.status = status
      /\ c.result = call[e].result
  BY OfCall DEF CallRecord
<1>2. /\ call' = [call EXCEPT ![e] = c] /\ wire' = [wire EXCEPT ![e] = w]
      /\ conn' = [conn EXCEPT ![e] = n]
  BY OfCall DEF CustomAnswers, At, Goes, Responds, Inv, TypeOK
<1>3. UNCHANGED <<spanVars, config>> /\ runtime' \in BOOLEAN
  BY OfCall DEF CustomAnswers, At, Goes, Responds
<1>4. /\ c.status # 0 => w.at = "answered" /\ w.code = c.status
      /\ c.pc \in {"idle", "sending", "locked", "spawned", "connecting", "posting"} => c.status = 0
  BY OfCall DEF Inv, Answers, CallRecord, WireRecord, CustomAnswers, At, Goes, Responds
<1>5. /\ c.pc = "idle" => c.batch = <<>>
      /\ c.result = TRUE => c.pc = "done" /\ (c.batch = <<>> \/ c.status \in 200 .. 299)
  BY <1>a DEF Inv, Results, CustomAnswers, At, Goes, Responds
<1>6. /\ n = "open" => c.pc \in {"posting", "closing"}
      /\ c.pc \in {"locked", "spawned", "connecting", "posting", "closing"} => mutex' = e
      /\ mutex' = mutex \/ (mutex = None /\ mutex' = e) \/ (mutex = e /\ mutex' = None)
  BY OfCall DEF Inv, Opened, Holds, CallRecord, CustomAnswers, At, Goes, Responds
<1> HIDE DEF c, w, n
<1> QED
  BY <1>1, <1>2, <1>3, <1>4, <1>5, <1>6, OneCall

LEMMA SendThrowsStep == ASSUME Inv, NEW e \in Exports, SendThrows(e) PROVE Inv'
<1> DEFINE c == [call[e] EXCEPT !.pc = "done", !.result = FALSE]
           w == wire[e]
           n == conn[e]
<1>1. c \in CallRecord /\ w \in WireRecord /\ n \in {"none", "open", "closed", "unwound"}
  BY OfCall DEF CallRecord, WireRecord, Positions, SendThrows, At
<1>a. /\ c.pc = "done"
      /\ c.batch = call[e].batch
      /\ c.status = call[e].status
      /\ c.result = FALSE
  BY OfCall DEF CallRecord
<1>2. /\ call' = [call EXCEPT ![e] = c] /\ wire' = [wire EXCEPT ![e] = w]
      /\ conn' = [conn EXCEPT ![e] = n]
  BY OfCall DEF SendThrows, At, Inv, TypeOK
<1>3. UNCHANGED <<spanVars, config>> /\ runtime' \in BOOLEAN
  BY OfCall DEF SendThrows, At
<1>4. /\ c.status # 0 => w.at = "answered" /\ w.code = c.status
      /\ c.pc \in {"idle", "sending", "locked", "spawned", "connecting", "posting"} => c.status = 0
  BY OfCall DEF Inv, Answers, CallRecord, WireRecord, SendThrows, At
<1>5. /\ c.pc = "idle" => c.batch = <<>>
      /\ c.result = TRUE => c.pc = "done" /\ (c.batch = <<>> \/ c.status \in 200 .. 299)
  BY <1>a DEF Inv, Results, SendThrows, At
<1>6. /\ n = "open" => c.pc \in {"posting", "closing"}
      /\ c.pc \in {"locked", "spawned", "connecting", "posting", "closing"} => mutex' = e
      /\ mutex' = mutex \/ (mutex = None /\ mutex' = e) \/ (mutex = e /\ mutex' = None)
  BY OfCall DEF Inv, Opened, Holds, CallRecord, SendThrows, At
<1> HIDE DEF c, w, n
<1> QED
  BY <1>1, <1>2, <1>3, <1>4, <1>5, <1>6, OneCall

LEMMA FinishStep == ASSUME Inv, NEW e \in Exports, Finish(e) PROVE Inv'
<1>b. call[e].status \in Nat
  <2>1. call[e].status \in StatusCodes \cup {0}
    BY OfCall DEF CallRecord
  <2>2. StatusCodes \subseteq Nat
    BY OtlpAssumption
  <2>3. 0 \in Nat
    OBVIOUS
  <2> QED
    BY <2>1, <2>2, <2>3, Zenon
<1>c. PICK ok \in BOOLEAN : ok = (call[e].status >= 200 /\ call[e].status < 300)
  BY Zenon
<1>d. ok = TRUE => call[e].status \in 200 .. 299
  <2>1. ok = TRUE => call[e].status >= 200 /\ call[e].status < 300
    BY <1>c, Zenon
  <2> QED
    BY <1>b, <2>1
<1> DEFINE c == [call[e] EXCEPT !.pc = "done", !.result = ok]
           w == wire[e]
           n == conn[e]
<1>1. c \in CallRecord /\ w \in WireRecord /\ n \in {"none", "open", "closed", "unwound"}
  BY OfCall DEF CallRecord, WireRecord, Positions, Finish, At
<1>a. /\ c.pc = "done" /\ c.batch = call[e].batch /\ c.status = call[e].status /\ c.result = ok
  BY OfCall DEF CallRecord
<1>2. /\ call' = [call EXCEPT ![e] = c] /\ wire' = [wire EXCEPT ![e] = w]
      /\ conn' = [conn EXCEPT ![e] = n]
  BY <1>c, OfCall, Zenon DEF Finish, At, Inv, TypeOK
<1>3. UNCHANGED <<spanVars, config>> /\ runtime' \in BOOLEAN
  BY OfCall DEF Finish, At
<1>4. /\ c.status # 0 => w.at = "answered" /\ w.code = c.status
      /\ c.pc \in {"idle", "sending", "locked", "spawned", "connecting", "posting"} => c.status = 0
  BY OfCall DEF Inv, Answers, CallRecord, WireRecord, Finish, At
<1>5. /\ c.pc = "idle" => c.batch = <<>>
      /\ c.result = TRUE => c.pc = "done" /\ (c.batch = <<>> \/ c.status \in 200 .. 299)
  BY <1>a, <1>d DEF Inv, Results, Finish, At
<1>6. /\ n = "open" => c.pc \in {"posting", "closing"}
      /\ c.pc \in {"locked", "spawned", "connecting", "posting", "closing"} => mutex' = e
      /\ mutex' = mutex \/ (mutex = None /\ mutex' = e) \/ (mutex = e /\ mutex' = None)
  BY OfCall DEF Inv, Opened, Holds, CallRecord, Finish, At
<1> HIDE DEF c, w, n
<1> QED
  BY <1>1, <1>2, <1>3, <1>4, <1>5, <1>6, OneCall

LEMMA RejectStep == ASSUME Inv, NEW e \in Exports, Reject(e) PROVE Inv'
<1> DEFINE c == [call[e] EXCEPT !.pc = "responded", !.status = 0]
           w == wire[e]
           n == conn[e]
<1>1. c \in CallRecord /\ w \in WireRecord /\ n \in {"none", "open", "closed", "unwound"}
  BY OfCall DEF CallRecord, WireRecord, Positions, Reject, At, Goes, Responds
<1>a. /\ c.pc = "responded"
      /\ c.batch = call[e].batch
      /\ c.status = 0
      /\ c.result = call[e].result
  BY OfCall DEF CallRecord
<1>2. /\ call' = [call EXCEPT ![e] = c] /\ wire' = [wire EXCEPT ![e] = w]
      /\ conn' = [conn EXCEPT ![e] = n]
  BY OfCall DEF Reject, At, Goes, Responds, Inv, TypeOK
<1>3. UNCHANGED <<spanVars, config>> /\ runtime' \in BOOLEAN
  BY OfCall DEF Reject, At, Goes, Responds
<1>4. /\ c.status # 0 => w.at = "answered" /\ w.code = c.status
      /\ c.pc \in {"idle", "sending", "locked", "spawned", "connecting", "posting"} => c.status = 0
  BY OfCall DEF Inv, Answers, CallRecord, WireRecord, Reject, At, Goes, Responds
<1>5. /\ c.pc = "idle" => c.batch = <<>>
      /\ c.result = TRUE => c.pc = "done" /\ (c.batch = <<>> \/ c.status \in 200 .. 299)
  BY <1>a DEF Inv, Results, Reject, At, Goes, Responds
<1>6. /\ n = "open" => c.pc \in {"posting", "closing"}
      /\ c.pc \in {"locked", "spawned", "connecting", "posting", "closing"} => mutex' = e
      /\ mutex' = mutex \/ (mutex = None /\ mutex' = e) \/ (mutex = e /\ mutex' = None)
  BY OfCall DEF Inv, Opened, Holds, CallRecord, Reject, At, Goes, Responds
<1> HIDE DEF c, w, n
<1> QED
  BY <1>1, <1>2, <1>3, <1>4, <1>5, <1>6, OneCall

LEMMA LockStep == ASSUME Inv, NEW e \in Exports, Lock(e) PROVE Inv'
<1> DEFINE c == [call[e] EXCEPT !.pc = "locked"]
           w == wire[e]
           n == conn[e]
<1>1. c \in CallRecord /\ w \in WireRecord /\ n \in {"none", "open", "closed", "unwound"}
  BY OfCall DEF CallRecord, WireRecord, Positions, Lock, At, Goes, Responds
<1>a. /\ c.pc = "locked"
      /\ c.batch = call[e].batch
      /\ c.status = call[e].status
      /\ c.result = call[e].result
  BY OfCall DEF CallRecord
<1>2. /\ call' = [call EXCEPT ![e] = c] /\ wire' = [wire EXCEPT ![e] = w]
      /\ conn' = [conn EXCEPT ![e] = n]
  BY OfCall DEF Lock, At, Goes, Responds, Inv, TypeOK
<1>3. UNCHANGED <<spanVars, config>> /\ runtime' \in BOOLEAN
  BY OfCall DEF Lock, At, Goes, Responds
<1>4. /\ c.status # 0 => w.at = "answered" /\ w.code = c.status
      /\ c.pc \in {"idle", "sending", "locked", "spawned", "connecting", "posting"} => c.status = 0
  BY OfCall DEF Inv, Answers, CallRecord, WireRecord, Lock, At, Goes, Responds
<1>5. /\ c.pc = "idle" => c.batch = <<>>
      /\ c.result = TRUE => c.pc = "done" /\ (c.batch = <<>> \/ c.status \in 200 .. 299)
  BY <1>a DEF Inv, Results, Lock, At, Goes, Responds
<1>6. /\ n = "open" => c.pc \in {"posting", "closing"}
      /\ c.pc \in {"locked", "spawned", "connecting", "posting", "closing"} => mutex' = e
      /\ mutex' = mutex \/ (mutex = None /\ mutex' = e) \/ (mutex = e /\ mutex' = None)
  BY OfCall DEF Inv, Opened, Holds, CallRecord, Lock, At, Goes, Responds
<1> HIDE DEF c, w, n
<1> QED
  BY <1>1, <1>2, <1>3, <1>4, <1>5, <1>6, OneCall

LEMMA SpawnStep == ASSUME Inv, NEW e \in Exports, Spawn(e) PROVE Inv'
<1> DEFINE c == [call[e] EXCEPT !.pc = "spawned"]
           w == wire[e]
           n == conn[e]
<1>1. c \in CallRecord /\ w \in WireRecord /\ n \in {"none", "open", "closed", "unwound"}
  BY OfCall DEF CallRecord, WireRecord, Positions, Spawn, At, Goes, Responds
<1>a. /\ c.pc = "spawned"
      /\ c.batch = call[e].batch
      /\ c.status = call[e].status
      /\ c.result = call[e].result
  BY OfCall DEF CallRecord
<1>2. /\ call' = [call EXCEPT ![e] = c] /\ wire' = [wire EXCEPT ![e] = w]
      /\ conn' = [conn EXCEPT ![e] = n]
  BY OfCall DEF Spawn, At, Goes, Responds, Inv, TypeOK
<1>3. UNCHANGED <<spanVars, config>> /\ runtime' \in BOOLEAN
  BY OfCall DEF Spawn, At, Goes, Responds
<1>4. /\ c.status # 0 => w.at = "answered" /\ w.code = c.status
      /\ c.pc \in {"idle", "sending", "locked", "spawned", "connecting", "posting"} => c.status = 0
  BY OfCall DEF Inv, Answers, CallRecord, WireRecord, Spawn, At, Goes, Responds
<1>5. /\ c.pc = "idle" => c.batch = <<>>
      /\ c.result = TRUE => c.pc = "done" /\ (c.batch = <<>> \/ c.status \in 200 .. 299)
  BY <1>a DEF Inv, Results, Spawn, At, Goes, Responds
<1>6. /\ n = "open" => c.pc \in {"posting", "closing"}
      /\ c.pc \in {"locked", "spawned", "connecting", "posting", "closing"} => mutex' = e
      /\ mutex' = mutex \/ (mutex = None /\ mutex' = e) \/ (mutex = e /\ mutex' = None)
  BY OfCall DEF Inv, Opened, Holds, CallRecord, Spawn, At, Goes, Responds
<1> HIDE DEF c, w, n
<1> QED
  BY <1>1, <1>2, <1>3, <1>4, <1>5, <1>6, OneCall

LEMMA ParseEndpointStep == ASSUME Inv, NEW e \in Exports, ParseEndpoint(e) PROVE Inv'
<1> DEFINE c == [call[e] EXCEPT !.pc = IF config.endpoint = "http" THEN "connecting" ELSE "responded",
                             !.status = IF config.endpoint = "http" THEN call[e].status ELSE 0]
           w == wire[e]
           n == conn[e]
<1>1. c \in CallRecord /\ w \in WireRecord /\ n \in {"none", "open", "closed", "unwound"}
  BY OfCall DEF CallRecord, WireRecord, Positions, ParseEndpoint, At, Goes, Responds
<1>a. /\ c.pc = IF config.endpoint = "http" THEN "connecting" ELSE "responded"
      /\ c.batch = call[e].batch
      /\ c.status = IF config.endpoint = "http" THEN call[e].status ELSE 0
      /\ c.result = call[e].result
  BY OfCall DEF CallRecord
<1>2. /\ call' = [call EXCEPT ![e] = c] /\ wire' = [wire EXCEPT ![e] = w]
      /\ conn' = [conn EXCEPT ![e] = n]
  BY OfCall DEF ParseEndpoint, At, Goes, Responds, Inv, TypeOK
<1>3. UNCHANGED <<spanVars, config>> /\ runtime' \in BOOLEAN
  BY OfCall DEF ParseEndpoint, At, Goes, Responds
<1>4. /\ c.status # 0 => w.at = "answered" /\ w.code = c.status
      /\ c.pc \in {"idle", "sending", "locked", "spawned", "connecting", "posting"} => c.status = 0
  BY OfCall DEF Inv, Answers, CallRecord, WireRecord, ParseEndpoint, At, Goes, Responds
<1>5. /\ c.pc = "idle" => c.batch = <<>>
      /\ c.result = TRUE => c.pc = "done" /\ (c.batch = <<>> \/ c.status \in 200 .. 299)
  BY <1>a DEF Inv, Results, ParseEndpoint, At, Goes, Responds
<1>6. /\ n = "open" => c.pc \in {"posting", "closing"}
      /\ c.pc \in {"locked", "spawned", "connecting", "posting", "closing"} => mutex' = e
      /\ mutex' = mutex \/ (mutex = None /\ mutex' = e) \/ (mutex = e /\ mutex' = None)
  BY OfCall DEF Inv, Opened, Holds, CallRecord, ParseEndpoint, At, Goes, Responds
<1> HIDE DEF c, w, n
<1> QED
  BY <1>1, <1>2, <1>3, <1>4, <1>5, <1>6, OneCall

LEMMA ConnectStep == ASSUME Inv, NEW e \in Exports, Connect(e) PROVE Inv'
<1> DEFINE c == [call[e] EXCEPT !.pc = "posting"]
           w == [wire[e] EXCEPT !.at = "sent"]
           n == "open"
<1>1. c \in CallRecord /\ w \in WireRecord /\ n \in {"none", "open", "closed", "unwound"}
  BY OfCall DEF CallRecord, WireRecord, Positions, Connect, At, Goes, Responds
<1>a. /\ c.pc = "posting"
      /\ c.batch = call[e].batch
      /\ c.status = call[e].status
      /\ c.result = call[e].result
  BY OfCall DEF CallRecord
<1>2. /\ call' = [call EXCEPT ![e] = c] /\ wire' = [wire EXCEPT ![e] = w]
      /\ conn' = [conn EXCEPT ![e] = n]
  BY OfCall DEF Connect, At, Goes, Responds, Inv, TypeOK
<1>3. UNCHANGED <<spanVars, config>> /\ runtime' \in BOOLEAN
  BY OfCall DEF Connect, At, Goes, Responds
<1>4. /\ c.status # 0 => w.at = "answered" /\ w.code = c.status
      /\ c.pc \in {"idle", "sending", "locked", "spawned", "connecting", "posting"} => c.status = 0
  BY OfCall DEF Inv, Answers, CallRecord, WireRecord, Connect, At, Goes, Responds
<1>5. /\ c.pc = "idle" => c.batch = <<>>
      /\ c.result = TRUE => c.pc = "done" /\ (c.batch = <<>> \/ c.status \in 200 .. 299)
  BY <1>a DEF Inv, Results, Connect, At, Goes, Responds
<1>6. /\ n = "open" => c.pc \in {"posting", "closing"}
      /\ c.pc \in {"locked", "spawned", "connecting", "posting", "closing"} => mutex' = e
      /\ mutex' = mutex \/ (mutex = None /\ mutex' = e) \/ (mutex = e /\ mutex' = None)
  BY OfCall DEF Inv, Opened, Holds, CallRecord, Connect, At, Goes, Responds
<1> HIDE DEF c, w, n
<1> QED
  BY <1>1, <1>2, <1>3, <1>4, <1>5, <1>6, OneCall

LEMMA ConnectFailsStep == ASSUME Inv, NEW e \in Exports, ConnectFails(e) PROVE Inv'
<1> DEFINE c == [call[e] EXCEPT !.pc = "responded", !.status = 0]
           w == wire[e]
           n == conn[e]
<1>1. c \in CallRecord /\ w \in WireRecord /\ n \in {"none", "open", "closed", "unwound"}
  BY OfCall DEF CallRecord, WireRecord, Positions, ConnectFails, At, Goes, Responds
<1>a. /\ c.pc = "responded"
      /\ c.batch = call[e].batch
      /\ c.status = 0
      /\ c.result = call[e].result
  BY OfCall DEF CallRecord
<1>2. /\ call' = [call EXCEPT ![e] = c] /\ wire' = [wire EXCEPT ![e] = w]
      /\ conn' = [conn EXCEPT ![e] = n]
  BY OfCall DEF ConnectFails, At, Goes, Responds, Inv, TypeOK
<1>3. UNCHANGED <<spanVars, config>> /\ runtime' \in BOOLEAN
  BY OfCall DEF ConnectFails, At, Goes, Responds
<1>4. /\ c.status # 0 => w.at = "answered" /\ w.code = c.status
      /\ c.pc \in {"idle", "sending", "locked", "spawned", "connecting", "posting"} => c.status = 0
  BY OfCall DEF Inv, Answers, CallRecord, WireRecord, ConnectFails, At, Goes, Responds
<1>5. /\ c.pc = "idle" => c.batch = <<>>
      /\ c.result = TRUE => c.pc = "done" /\ (c.batch = <<>> \/ c.status \in 200 .. 299)
  BY <1>a DEF Inv, Results, ConnectFails, At, Goes, Responds
<1>6. /\ n = "open" => c.pc \in {"posting", "closing"}
      /\ c.pc \in {"locked", "spawned", "connecting", "posting", "closing"} => mutex' = e
      /\ mutex' = mutex \/ (mutex = None /\ mutex' = e) \/ (mutex = e /\ mutex' = None)
  BY OfCall DEF Inv, Opened, Holds, CallRecord, ConnectFails, At, Goes, Responds
<1> HIDE DEF c, w, n
<1> QED
  BY <1>1, <1>2, <1>3, <1>4, <1>5, <1>6, OneCall

LEMMA ServerReceivesStep == ASSUME Inv, NEW e \in Exports, ServerReceives(e) PROVE Inv'
<1> DEFINE c == call[e]
           w == [wire[e] EXCEPT !.at = "received"]
           n == conn[e]
<1>1. c \in CallRecord /\ w \in WireRecord /\ n \in {"none", "open", "closed", "unwound"}
  BY OfCall DEF CallRecord, WireRecord, Positions, ServerReceives, At, Goes, Responds
<1>a. /\ c.pc = call[e].pc
      /\ c.batch = call[e].batch
      /\ c.status = call[e].status
      /\ c.result = call[e].result
  BY OfCall DEF CallRecord
<1>2. /\ call' = [call EXCEPT ![e] = c] /\ wire' = [wire EXCEPT ![e] = w]
      /\ conn' = [conn EXCEPT ![e] = n]
  BY OfCall DEF ServerReceives, At, Goes, Responds, Inv, TypeOK
<1>3. UNCHANGED <<spanVars, config>> /\ runtime' \in BOOLEAN
  BY OfCall DEF ServerReceives, At, Goes, Responds
<1>4. /\ c.status # 0 => w.at = "answered" /\ w.code = c.status
      /\ c.pc \in {"idle", "sending", "locked", "spawned", "connecting", "posting"} => c.status = 0
  BY OfCall DEF Inv, Answers, CallRecord, WireRecord, ServerReceives, At, Goes, Responds
<1>5. /\ c.pc = "idle" => c.batch = <<>>
      /\ c.result = TRUE => c.pc = "done" /\ (c.batch = <<>> \/ c.status \in 200 .. 299)
  BY <1>a DEF Inv, Results, ServerReceives, At, Goes, Responds
<1>6. /\ n = "open" => c.pc \in {"posting", "closing"}
      /\ c.pc \in {"locked", "spawned", "connecting", "posting", "closing"} => mutex' = e
      /\ mutex' = mutex \/ (mutex = None /\ mutex' = e) \/ (mutex = e /\ mutex' = None)
  BY OfCall DEF Inv, Opened, Holds, CallRecord, ServerReceives, At, Goes, Responds
<1> HIDE DEF c, w, n
<1> QED
  BY <1>1, <1>2, <1>3, <1>4, <1>5, <1>6, OneCall

LEMMA PostAnsweredStep == ASSUME Inv, NEW e \in Exports, NEW status \in StatusCodes, PostAnswered(e, status) PROVE Inv'
<1> DEFINE c == [call[e] EXCEPT !.pc = "closing", !.status = status]
           w == [at |-> "answered", code |-> status]
           n == conn[e]
<1>1. c \in CallRecord /\ w \in WireRecord /\ n \in {"none", "open", "closed", "unwound"}
  BY OfCall DEF CallRecord, WireRecord, Positions, PostAnswered, At, Goes, Responds
<1>a. /\ c.pc = "closing"
      /\ c.batch = call[e].batch
      /\ c.status = status
      /\ c.result = call[e].result
  BY OfCall DEF CallRecord
<1>2. /\ call' = [call EXCEPT ![e] = c] /\ wire' = [wire EXCEPT ![e] = w]
      /\ conn' = [conn EXCEPT ![e] = n]
  BY OfCall DEF PostAnswered, At, Goes, Responds, Inv, TypeOK
<1>3. UNCHANGED <<spanVars, config>> /\ runtime' \in BOOLEAN
  BY OfCall DEF PostAnswered, At, Goes, Responds
<1>4. /\ c.status # 0 => w.at = "answered" /\ w.code = c.status
      /\ c.pc \in {"idle", "sending", "locked", "spawned", "connecting", "posting"} => c.status = 0
  BY OfCall DEF Inv, Answers, CallRecord, WireRecord, PostAnswered, At, Goes, Responds
<1>5. /\ c.pc = "idle" => c.batch = <<>>
      /\ c.result = TRUE => c.pc = "done" /\ (c.batch = <<>> \/ c.status \in 200 .. 299)
  BY <1>a DEF Inv, Results, PostAnswered, At, Goes, Responds
<1>6. /\ n = "open" => c.pc \in {"posting", "closing"}
      /\ c.pc \in {"locked", "spawned", "connecting", "posting", "closing"} => mutex' = e
      /\ mutex' = mutex \/ (mutex = None /\ mutex' = e) \/ (mutex = e /\ mutex' = None)
  BY OfCall DEF Inv, Opened, Holds, CallRecord, PostAnswered, At, Goes, Responds
<1> HIDE DEF c, w, n
<1> QED
  BY <1>1, <1>2, <1>3, <1>4, <1>5, <1>6, OneCall

LEMMA PostFailsStep == ASSUME Inv, NEW e \in Exports, PostFails(e) PROVE Inv'
<1> DEFINE c == [call[e] EXCEPT !.pc = "closing", !.status = 0]
           w == wire[e]
           n == conn[e]
<1>1. c \in CallRecord /\ w \in WireRecord /\ n \in {"none", "open", "closed", "unwound"}
  BY OfCall DEF CallRecord, WireRecord, Positions, PostFails, At, Goes, Responds
<1>a. /\ c.pc = "closing"
      /\ c.batch = call[e].batch
      /\ c.status = 0
      /\ c.result = call[e].result
  BY OfCall DEF CallRecord
<1>2. /\ call' = [call EXCEPT ![e] = c] /\ wire' = [wire EXCEPT ![e] = w]
      /\ conn' = [conn EXCEPT ![e] = n]
  BY OfCall DEF PostFails, At, Goes, Responds, Inv, TypeOK
<1>3. UNCHANGED <<spanVars, config>> /\ runtime' \in BOOLEAN
  BY OfCall DEF PostFails, At, Goes, Responds
<1>4. /\ c.status # 0 => w.at = "answered" /\ w.code = c.status
      /\ c.pc \in {"idle", "sending", "locked", "spawned", "connecting", "posting"} => c.status = 0
  BY OfCall DEF Inv, Answers, CallRecord, WireRecord, PostFails, At, Goes, Responds
<1>5. /\ c.pc = "idle" => c.batch = <<>>
      /\ c.result = TRUE => c.pc = "done" /\ (c.batch = <<>> \/ c.status \in 200 .. 299)
  BY <1>a DEF Inv, Results, PostFails, At, Goes, Responds
<1>6. /\ n = "open" => c.pc \in {"posting", "closing"}
      /\ c.pc \in {"locked", "spawned", "connecting", "posting", "closing"} => mutex' = e
      /\ mutex' = mutex \/ (mutex = None /\ mutex' = e) \/ (mutex = e /\ mutex' = None)
  BY OfCall DEF Inv, Opened, Holds, CallRecord, PostFails, At, Goes, Responds
<1> HIDE DEF c, w, n
<1> QED
  BY <1>1, <1>2, <1>3, <1>4, <1>5, <1>6, OneCall

LEMMA CloseClientStep == ASSUME Inv, NEW e \in Exports, CloseClient(e) PROVE Inv'
<1> DEFINE c == [call[e] EXCEPT !.pc = "responded"]
           w == wire[e]
           n == "closed"
<1>1. c \in CallRecord /\ w \in WireRecord /\ n \in {"none", "open", "closed", "unwound"}
  BY OfCall DEF CallRecord, WireRecord, Positions, CloseClient, At, Goes, Responds
<1>a. /\ c.pc = "responded"
      /\ c.batch = call[e].batch
      /\ c.status = call[e].status
      /\ c.result = call[e].result
  BY OfCall DEF CallRecord
<1>2. /\ call' = [call EXCEPT ![e] = c] /\ wire' = [wire EXCEPT ![e] = w]
      /\ conn' = [conn EXCEPT ![e] = n]
  BY OfCall DEF CloseClient, At, Goes, Responds, Inv, TypeOK
<1>3. UNCHANGED <<spanVars, config>> /\ runtime' \in BOOLEAN
  BY OfCall DEF CloseClient, At, Goes, Responds
<1>4. /\ c.status # 0 => w.at = "answered" /\ w.code = c.status
      /\ c.pc \in {"idle", "sending", "locked", "spawned", "connecting", "posting"} => c.status = 0
  BY OfCall DEF Inv, Answers, CallRecord, WireRecord, CloseClient, At, Goes, Responds
<1>5. /\ c.pc = "idle" => c.batch = <<>>
      /\ c.result = TRUE => c.pc = "done" /\ (c.batch = <<>> \/ c.status \in 200 .. 299)
  BY <1>a DEF Inv, Results, CloseClient, At, Goes, Responds
<1>6. /\ n = "open" => c.pc \in {"posting", "closing"}
      /\ c.pc \in {"locked", "spawned", "connecting", "posting", "closing"} => mutex' = e
      /\ mutex' = mutex \/ (mutex = None /\ mutex' = e) \/ (mutex = e /\ mutex' = None)
  BY OfCall DEF Inv, Opened, Holds, CallRecord, CloseClient, At, Goes, Responds
<1> HIDE DEF c, w, n
<1> QED
  BY <1>1, <1>2, <1>3, <1>4, <1>5, <1>6, OneCall

LEMMA CoroutineThrowsStep == ASSUME Inv, NEW e \in Exports, CoroutineThrows(e) PROVE Inv'
<1> DEFINE c == [call[e] EXCEPT !.pc = "responded", !.status = 0]
           w == wire[e]
           n == IF conn[e] = "open" THEN "unwound" ELSE conn[e]
<1>1. c \in CallRecord /\ w \in WireRecord /\ n \in {"none", "open", "closed", "unwound"}
  BY OfCall DEF CallRecord, WireRecord, Positions, CoroutineThrows, At, Goes, Responds
<1>a. /\ c.pc = "responded"
      /\ c.batch = call[e].batch
      /\ c.status = 0
      /\ c.result = call[e].result
  BY OfCall DEF CallRecord
<1>2. /\ call' = [call EXCEPT ![e] = c] /\ wire' = [wire EXCEPT ![e] = w]
      /\ conn' = [conn EXCEPT ![e] = n]
  BY OfCall DEF CoroutineThrows, At, Goes, Responds, Inv, TypeOK
<1>3. UNCHANGED <<spanVars, config>> /\ runtime' \in BOOLEAN
  BY OfCall DEF CoroutineThrows, At, Goes, Responds
<1>4. /\ c.status # 0 => w.at = "answered" /\ w.code = c.status
      /\ c.pc \in {"idle", "sending", "locked", "spawned", "connecting", "posting"} => c.status = 0
  BY OfCall DEF Inv, Answers, CallRecord, WireRecord, CoroutineThrows, At, Goes, Responds
<1>5. /\ c.pc = "idle" => c.batch = <<>>
      /\ c.result = TRUE => c.pc = "done" /\ (c.batch = <<>> \/ c.status \in 200 .. 299)
  BY <1>a DEF Inv, Results, CoroutineThrows, At, Goes, Responds
<1>6. /\ n = "open" => c.pc \in {"posting", "closing"}
      /\ c.pc \in {"locked", "spawned", "connecting", "posting", "closing"} => mutex' = e
      /\ mutex' = mutex \/ (mutex = None /\ mutex' = e) \/ (mutex = e /\ mutex' = None)
  BY OfCall DEF Inv, Opened, Holds, CallRecord, CoroutineThrows, At, Goes, Responds
<1> HIDE DEF c, w, n
<1> QED
  BY <1>1, <1>2, <1>3, <1>4, <1>5, <1>6, OneCall

(* The inductive invariant is kept by every step. *)
LEMMA NextInv == Inv /\ [Next]_vars => Inv'
<1> SUFFICES ASSUME Inv, [Next]_vars PROVE Inv'
  OBVIOUS
<1>1. CASE SpanStep
  <2>1. SpanInv' /\ UNCHANGED <<config, mutex, runtime, call, wire, conn>>
    BY <1>1, SpanNextInv DEF SpanStep, otlpVars, Inv
  <2>2. TypeOK'
    BY <2>1 DEF Inv, TypeOK, SpanInv
  <2> QED
    BY <2>1, <2>2 DEF Inv, Answers, Results, Opened, Holds
<1>2. ASSUME NEW e \in Exports, ExportStep(e) PROVE Inv'
  <2>1. CASE Progress(e)
    BY <2>1, UnavailableStep, CustomAnswersStep, SendThrowsStep, FinishStep, RejectStep,
       LockStep, SpawnStep, ParseEndpointStep, ConnectFailsStep, PostFailsStep, CloseClientStep
       DEF Progress
  <2> QED
    BY <1>2, <2>1, ExportNothingStep, BeginExportStep, ConnectStep, ServerReceivesStep,
       PostAnsweredStep, CoroutineThrowsStep
       DEF ExportStep
<1>3. CASE UNCHANGED vars
  <2>1. UNCHANGED <<policy, clock, span, config, mutex, runtime, call, wire, conn>>
    BY <1>3 DEF vars, spanVars, otlpVars
  <2>2. SpanInv'
    BY <2>1 DEF Inv, SpanInv, SpanTypeOK, TimesMatch, Clocked, Started
  <2>3. TypeOK'
    BY <2>1, <2>2 DEF Inv, SpanInv, TypeOK
  <2> QED
    BY <2>1, <2>2, <2>3 DEF Inv, Answers, Results, Opened, Holds
<1> QED
  BY <1>1, <1>2, <1>3 DEF Next

----------------------------------------------------------------------------
(* The theorems. *)

(* The inductive invariant. *)
THEOREM Invariance == Spec => []Inv
<1>1. Init => Inv
  BY InvInit
<1> QED
  BY <1>1, NextInv, PTL DEF Spec

(* The variables keep their types, and no span more attributes than fit. *)
THEOREM TypeCorrect == Spec => []TypeOK
<1>1. Inv => TypeOK
  BY DEF Inv
<1> QED
  BY <1>1, Invariance, PTL

(* An ended span has both its times or none, in order, whatever was done to  *)
(* the timing policy between Span::Span and Span::end.                       *)
THEOREM TimesAlwaysMatch == Spec => []TimesMatch
<1>1. Inv => TimesMatch
  BY DEF Inv, SpanInv
<1> QED
  BY <1>1, Invariance, PTL

(* Nothing changes the end of a span once Span::end has recorded it. *)
THEOREM EndIsFinal == Spec => FirstEndCounts
<1> DEFINE Keeps == \A s \in Started : span[s].ended =>
                        span'[s].ended /\ span'[s].endedAt = span[s].endedAt
<1>1. Inv /\ [Next]_vars => [Keeps]_span
  <2>0. [Next]_vars => SpanNext \/ span' = span
    <3>1. ASSUME NEW e \in Exports, ExportStep(e) PROVE UNCHANGED spanVars
      <4>1. CASE Progress(e)
        <5>1. CASE Unavailable(e)
          BY <5>1, Zenon DEF Unavailable
        <5>2. CASE \E status \in StatusCodes : CustomAnswers(e, status)
          BY <5>2, Zenon DEF CustomAnswers
        <5>3. CASE SendThrows(e)
          BY <5>3, Zenon DEF SendThrows
        <5>4. CASE Finish(e)
          BY <5>4, Zenon DEF Finish
        <5>5. CASE Reject(e)
          BY <5>5, Zenon DEF Reject
        <5>6. CASE Lock(e)
          BY <5>6, Zenon DEF Lock
        <5>7. CASE Spawn(e)
          BY <5>7, Zenon DEF Spawn
        <5>8. CASE ParseEndpoint(e)
          BY <5>8, Zenon DEF ParseEndpoint
        <5>9. CASE ConnectFails(e) \/ PostFails(e) \/ CloseClient(e)
          BY <5>9, Zenon DEF ConnectFails, PostFails, CloseClient
        <5> QED
          BY <4>1, <5>1, <5>2, <5>3, <5>4, <5>5, <5>6, <5>7, <5>8, <5>9 DEF Progress
      <4>2. CASE ExportNothing(e) \/ Connect(e) \/ ServerReceives(e) \/ CoroutineThrows(e)
        BY <4>2, Zenon DEF ExportNothing, Connect, ServerReceives, CoroutineThrows
      <4>3. CASE \E s \in Spans, sched \in BOOLEAN : BeginExport(e, s, sched)
        BY <4>3, Zenon DEF BeginExport
      <4>4. CASE \E status \in StatusCodes : PostAnswered(e, status)
        BY <4>4, Zenon DEF PostAnswered
      <4> QED
        BY <3>1, <4>1, <4>2, <4>3, <4>4 DEF ExportStep
    <3> QED
      BY <3>1 DEF Next, SpanStep, spanVars, vars
  <2> SUFFICES ASSUME Inv, SpanNext, NEW s \in Started, span[s].ended
               PROVE  span'[s].ended /\ span'[s].endedAt = span[s].endedAt
    BY <2>0
  <2>1. s \in Spans /\ span[s] \in SpanRecord
    BY StartedRecord DEF Inv, SpanInv
  <2>2. span \in [Spans -> SpanRecord \cup {None}]
    BY DEF Inv, SpanInv, SpanTypeOK
  <2>3. CASE span' = span
    BY <2>3
  <2>4. ASSUME NEW t \in Spans, End(t)
        PROVE  span'[s].ended /\ span'[s].endedAt = span[s].endedAt
    BY <2>1, <2>2, <2>4 DEF End, SpanRecord
  <2>5. ASSUME NEW t \in Spans, NEW identity, NEW timing, Construct(t, identity, timing)
        PROVE  span'[s] = span[s]
    BY <2>1, <2>2, <2>5 DEF Construct, Started
  <2>6. ASSUME NEW t \in Spans, NEW kind, SetKind(t, kind)
        PROVE  span'[s].ended = span[s].ended /\ span'[s].endedAt = span[s].endedAt
    BY <2>1, <2>2, <2>6 DEF SetKind, SpanRecord
  <2>7. ASSUME NEW t \in Spans, NEW status, SetStatus(t, status)
        PROVE  span'[s].ended = span[s].ended /\ span'[s].endedAt = span[s].endedAt
    BY <2>1, <2>2, <2>7 DEF SetStatus, SpanRecord
  <2>8. ASSUME NEW t \in Spans, NEW attribute, SetAttribute(t, attribute)
        PROVE  span'[s].ended = span[s].ended /\ span'[s].endedAt = span[s].endedAt
    BY <2>1, <2>2, <2>8 DEF SetAttribute, SpanRecord
  <2> QED
    BY <2>3, <2>4, <2>5, <2>6, <2>7, <2>8 DEF SpanNext, SetSpanTimingPolicy, Tick
<1> QED
  BY <1>1, Invariance, PTL DEF Spec, FirstEndCounts

(* exportSpans reports success only when a server answered this very request *)
(* with 2xx, or there was nothing to send.                                   *)
THEOREM ResultsAreHonest == Spec => []ResultHonest
<1>0. \A code \in 200 .. 299 : code # 0
  OBVIOUS
<1>1. Inv => ResultHonest
  <2> SUFFICES ASSUME Inv, NEW e \in Exports, call[e].result = TRUE, call[e].batch # <<>>
               PROVE  wire[e].at = "answered" /\ wire[e].code \in 200 .. 299
    BY DEF ResultHonest
  <2>1. call[e].status \in 200 .. 299
    BY DEF Inv, Results
  <2>2. call[e].status # 0
    BY <1>0, <2>1, Zenon
  <2>3. wire[e].at = "answered" /\ wire[e].code = call[e].status
    BY <2>2, Zenon DEF Inv, Answers
  <2> QED
    BY <2>1, <2>3, Zenon
<1> QED
  BY <1>1, Invariance, PTL

(* No way out of sendWithGalayHttp leaves a connection open. *)
THEOREM ConnectionsAreClosed == Spec => []ConnectionsClosed
<1>1. Inv => ConnectionsClosed
  BY DEF Inv, Opened, ConnectionsClosed
<1> QED
  BY <1>1, Invariance, PTL

(* The lock of GalayHttpTransportState::send is held from before the         *)
(* connection is made until it is closed: there is never a second one.       *)
THEOREM OneConnectionAtATime == Spec => []OneConnection
<1>1. Inv => OneConnection
  BY DEF Inv, Opened, Holds, OneConnection
<1> QED
  BY <1>1, Invariance, PTL

----------------------------------------------------------------------------
(* Strings: what appendJsonString writes, a receiver reads. *)

(* A set of naturals with 0 and the successors of its elements has them all. *)
LEMMA SetInduction ==
    ASSUME NEW S \in SUBSET Nat, 0 \in S, \A n \in S : n + 1 \in S
    PROVE  S = Nat
<1> SUFFICES ASSUME NEW k \in Nat, k \notin S PROVE FALSE
  OBVIOUS
<1> DEFINE T == S \cap (0 .. k)
<1>1. IsFiniteSet(T) /\ 0 \in T
  <2>1. IsFiniteSet(0 .. k)
    BY FS_Interval
  <2> QED
    BY <2>1, FS_Subset
<1>2. IsFiniteSet(T \ {0}) /\ Cardinality(T \ {0}) < Cardinality(T)
  <2> HIDE DEF T
  <2>1. Cardinality(T) \in Nat
    BY <1>1, FS_CardinalityType
  <2>2. IsFiniteSet(T \ {0}) /\ Cardinality(T \ {0}) = Cardinality(T) - 1
    BY <1>1, FS_RemoveElement
  <2> QED
    BY <2>1, <2>2
<1> DEFINE next == [n \in T |-> n + 1]
<1>3. next \in [T -> T \ {0}]
  OBVIOUS
<1>4. PICK x, y \in T : x # y /\ next[x] = next[y]
  <2> HIDE DEF T, next
  <2> QED
    BY <1>1, <1>2, <1>3, FS_PigeonHole
<1> QED
  BY <1>4

(* The escapes. *)
LEMMA EscapeValue ==
    ASSUME NEW ch \in Nat
    PROVE  /\ ch \in {34, 92} => EscapeChar(ch) = <<92, ch>>
           /\ ch = 10 => EscapeChar(ch) = <<92, 110>>
           /\ ch = 13 => EscapeChar(ch) = <<92, 114>>
           /\ ch = 9 => EscapeChar(ch) = <<92, 116>>
           /\ ch < 32 /\ ch \notin {9, 10, 13} =>
                EscapeChar(ch) = <<92, 117, 48, 48, kHex(ch \div 16), kHex(ch % 16)>>
           /\ ch >= 32 /\ ch \notin {34, 92} => EscapeChar(ch) = <<ch>>
<1>1. ch \in {34, 92} => EscapeChar(ch) = <<92, ch>>
  BY DEF EscapeChar
<1>2. ch = 10 => EscapeChar(ch) = <<92, 110>>
  BY DEF EscapeChar
<1>3. ch = 13 => EscapeChar(ch) = <<92, 114>>
  BY DEF EscapeChar
<1>4. ch = 9 => EscapeChar(ch) = <<92, 116>>
  BY DEF EscapeChar
<1>5. ASSUME ch < 32, ch \notin {9, 10, 13}
      PROVE  EscapeChar(ch) = <<92, 117, 48, 48, kHex(ch \div 16), kHex(ch % 16)>>
  BY <1>5 DEF EscapeChar
<1>6. ASSUME ch >= 32, ch \notin {34, 92} PROVE EscapeChar(ch) = <<ch>>
  BY <1>6 DEF EscapeChar
<1> QED
  BY <1>1, <1>2, <1>3, <1>4, <1>5, <1>6

(* An escape is printable and not empty. *)
LEMMA Escaped ==
    ASSUME NEW ch \in Char
    PROVE  /\ EscapeChar(ch) \in Seq(32 .. 255)
           /\ Len(EscapeChar(ch)) \in 1 .. 6
<1>1. ch \in Nat /\ ch <= 255
  BY DEF Char
<1>2. ASSUME NEW c \in 32 .. 255
      PROVE  /\ <<c>> \in Seq(32 .. 255) /\ Len(<<c>>) = 1
             /\ <<92, c>> \in Seq(32 .. 255) /\ Len(<<92, c>>) = 2
  BY <1>2
<1>6. 1 \in 1 .. 6 /\ 2 \in 1 .. 6
  OBVIOUS
<1>3. CASE ch < 32 /\ ch \notin {9, 10, 13}
  <2>1. ch \div 16 \in 0 .. 15 /\ ch % 16 \in 0 .. 15
    BY <1>1, <1>3
  <2>2. kHex(ch \div 16) \in 32 .. 255 /\ kHex(ch % 16) \in 32 .. 255
    BY <2>1 DEF kHex
  <2>3. ASSUME NEW a \in 32 .. 255, NEW b \in 32 .. 255
        PROVE  /\ <<92, 117, 48, 48, a, b>> \in Seq(32 .. 255)
               /\ Len(<<92, 117, 48, 48, a, b>>) = 6
    OBVIOUS
  <2>4. EscapeChar(ch) = <<92, 117, 48, 48, kHex(ch \div 16), kHex(ch % 16)>>
    BY <1>1, <1>3, EscapeValue, Zenon
  <2>5. PICK a \in 32 .. 255, b \in 32 .. 255 : EscapeChar(ch) = <<92, 117, 48, 48, a, b>>
    BY <2>2, <2>4, Zenon
  <2>6. 6 \in 1 .. 6
    OBVIOUS
  <2> QED
    BY <2>3, <2>5, <2>6, Zenon
<1>4. CASE ch \in {9, 10, 13}
  <2>1. PICK c \in 32 .. 255 : EscapeChar(ch) = <<92, c>>
    BY <1>4, EscapeValue
  <2> QED
    BY <2>1, <1>2, <1>6, Zenon
<1>5. CASE ch >= 32
  <2>1. ch \in 32 .. 255 /\ (EscapeChar(ch) = <<92, ch>> \/ EscapeChar(ch) = <<ch>>)
    BY <1>1, <1>5, EscapeValue
  <2> QED
    BY <2>1, <1>2, <1>6, Zenon
<1> QED
  BY <1>1, <1>3, <1>4, <1>5

(* Its result, by the characters it looks at. *)
Then(c, rests) == {<<c>> \o rest : rest \in rests}

ReadsAt(inner, read, i) ==
    /\ i > Len(inner) => ReadAt(inner, read, i) = {<<>>}
    /\ i <= Len(inner) /\ PlainAt(inner, i) =>
         ReadAt(inner, read, i) = Then(inner[i], read[i + 1])
    /\ i <= Len(inner) /\ ShortAt(inner, i) =>
         ReadAt(inner, read, i) = Then(ShortEscape[inner[i + 1]], read[i + 2])
    /\ i <= Len(inner) /\ UnicodeAt(inner, i) =>
         ReadAt(inner, read, i) = Then(UnicodeValue(inner, i), read[i + 6])

LEMMA ReadAtValue ==
    ASSUME NEW inner \in Seq(Nat), NEW read, NEW i \in Nat
    PROVE  ReadsAt(inner, read, i)
<1>1. Len(inner) \in Nat /\ (i <= Len(inner) => ~(i > Len(inner)))
  OBVIOUS
<1>2. ShortAt(inner, i) => ~PlainAt(inner, i)
  BY DEF ShortAt, PlainAt
<1>3. UnicodeAt(inner, i) => ~PlainAt(inner, i) /\ ~ShortAt(inner, i)
  BY DEF UnicodeAt, ShortAt, PlainAt, ShortEscape
<1> QED
  BY <1>1, <1>2, <1>3, Zenon DEF ReadsAt, ReadAt, Then

(* The digits and letters of the escapes are read as they were written. *)
LEMMA HexRead == \A d \in 0 .. 15 : kHex(d) \in DOMAIN HexDigit /\ HexDigit[kHex(d)] = d
<1> SUFFICES ASSUME NEW d \in 0 .. 15
             PROVE  kHex(d) \in DOMAIN HexDigit /\ HexDigit[kHex(d)] = d
  OBVIOUS
<1>1. CASE d < 10
  BY <1>1 DEF HexDigit, kHex
<1>2. CASE d >= 10
  BY <1>2 DEF HexDigit, kHex
<1> QED
  BY <1>1, <1>2

LEMMA ShortRead ==
    /\ {34, 92, 110, 114, 116} \subseteq DOMAIN ShortEscape
    /\ ShortEscape[34] = 34 /\ ShortEscape[92] = 92
    /\ ShortEscape[110] = 10 /\ ShortEscape[114] = 13 /\ ShortEscape[116] = 9
BY DEF ShortEscape

(* What it reads of an escape. *)
LEMMA ReadEscaped ==
    ASSUME NEW ch \in Char, NEW inner \in Seq(Nat), NEW read, NEW i \in Nat \ {0},
           i + Len(EscapeChar(ch)) - 1 <= Len(inner),
           \A j \in 1 .. Len(EscapeChar(ch)) : inner[i + j - 1] = EscapeChar(ch)[j]
    PROVE  ReadAt(inner, read, i) = Then(ch, read[i + Len(EscapeChar(ch))])
<1>1. ch \in Nat /\ ch <= 255 /\ Len(inner) \in Nat /\ i \in Nat
  <2>1. ch \in 0 .. 255
    BY DEF Char
  <2> QED
    BY <2>1
<1>r. ReadsAt(inner, read, i)
  BY <1>1, ReadAtValue
<1> DEFINE E == EscapeChar(ch)
<1>2. i + Len(E) - 1 <= Len(inner) /\ \A j \in 1 .. Len(E) : inner[i + j - 1] = E[j]
  OBVIOUS
<1>3. ASSUME NEW c \in DOMAIN ShortEscape, c \in Nat, EscapeChar(ch) = <<92, c>>,
             ShortEscape[c] = ch
      PROVE  ReadAt(inner, read, i) = Then(ch, read[i + Len(EscapeChar(ch))])
  <2>1. E = <<92, c>>
    BY <1>3
  <2> HIDE DEF E
  <2>2. Len(E) = 2 /\ E[1] = 92 /\ E[2] = c
    BY <2>1
  <2>3. /\ inner[i] = 92 /\ inner[i + 1] = c /\ i <= Len(inner) /\ i + 1 <= Len(inner)
        /\ i + Len(E) = i + 2
    BY <1>1, <1>2, <2>2
  <2>4. ShortAt(inner, i)
    BY <1>3, <2>3, Zenon DEF ShortAt
  <2> QED
    BY <1>3, <1>r, <2>3, <2>4, Zenon DEF ReadsAt, E
<1>4. CASE ch \in {34, 92}
  <2>1. EscapeChar(ch) = <<92, ch>> /\ ch \in DOMAIN ShortEscape /\ ShortEscape[ch] = ch
    BY <1>1, <1>4, EscapeValue, ShortRead
  <2> QED
    BY <1>1, <1>3, <2>1, Zenon
<1>5. CASE ch \in {9, 10, 13}
  <2>1. PICK c \in {110, 114, 116} : EscapeChar(ch) = <<92, c>> /\ ShortEscape[c] = ch
    BY <1>1, <1>5, EscapeValue, ShortRead
  <2>2. c \in DOMAIN ShortEscape /\ c \in Nat
    BY ShortRead
  <2> QED
    BY <1>3, <2>1, <2>2, Zenon
<1>8. CASE ch < 32 /\ ch \notin {9, 10, 13}
  <2>1. PICK q \in 0 .. 15, r \in 0 .. 15 : q = ch \div 16 /\ r = ch % 16 /\ 16 * q + r = ch
    BY <1>1, <1>8
  <2> DEFINE a == kHex(q)
             b == kHex(r)
  <2>2. /\ HexDigit[a] = q /\ HexDigit[b] = r /\ HexDigit[48] = 0
        /\ a \in DOMAIN HexDigit /\ b \in DOMAIN HexDigit /\ 48 \in DOMAIN HexDigit
    <3>1. 0 \in 0 .. 15 /\ kHex(0) = 48
      BY DEF kHex
    <3> QED
      BY <3>1, HexRead, Zenon
  <2>3. E = <<92, 117, 48, 48, a, b>>
    BY <1>1, <1>8, <2>1, EscapeValue, Zenon
  <2> HIDE DEF E, a, b
  <2>4. /\ Len(E) = 6 /\ E[1] = 92 /\ E[2] = 117 /\ E[3] = 48 /\ E[4] = 48
        /\ E[5] = a /\ E[6] = b
    BY <2>3
  <2>5. /\ inner[i] = 92 /\ inner[i + 1] = 117 /\ i <= Len(inner) /\ i + 5 <= Len(inner)
        /\ inner[i + 2] = 48 /\ inner[i + 3] = 48
        /\ inner[i + 4] = a /\ inner[i + 5] = b /\ i + Len(E) = i + 6
    BY <1>1, <1>2, <2>4
  <2>6. \A j \in i + 2 .. i + 5 : inner[j] \in DOMAIN HexDigit
    <3>1. \A j \in i + 2 .. i + 5 : j = i + 2 \/ j = i + 3 \/ j = i + 4 \/ j = i + 5
      BY <1>1
    <3> QED
      BY <2>2, <2>5, <3>1, Zenon
  <2>7. UnicodeAt(inner, i)
    BY <2>5, <2>6, Zenon DEF UnicodeAt
  <2>8. UnicodeValue(inner, i) = ch
    <3>1. /\ HexDigit[inner[i + 2]] = 0 /\ HexDigit[inner[i + 3]] = 0
          /\ HexDigit[inner[i + 4]] = q /\ HexDigit[inner[i + 5]] = r
      BY <2>2, <2>5, Zenon
    <3>2. q \in Nat /\ r \in Nat
      OBVIOUS
    <3>3. UnicodeValue(inner, i) = 16 * q + r
      BY <3>1, <3>2 DEF UnicodeValue
    <3> QED
      BY <2>1, <3>3, Zenon
  <2> QED
    BY <1>r, <2>5, <2>7, <2>8, Zenon DEF ReadsAt, E
<1>9. CASE ch >= 32 /\ ch \notin {34, 92}
  <2>1. E = <<ch>>
    BY <1>1, <1>9, EscapeValue
  <2> HIDE DEF E
  <2>2. Len(E) = 1 /\ E[1] = ch
    BY <2>1
  <2>3. inner[i] = ch /\ i <= Len(inner) /\ i + Len(E) = i + 1
    BY <1>1, <1>2, <2>2
  <2>4. PlainAt(inner, i)
    BY <1>9, <2>3, Zenon DEF PlainAt
  <2> QED
    BY <1>r, <2>3, <2>4, Zenon DEF ReadsAt, E
<1>10. \/ ch \in {34, 92} \/ ch \in {9, 10, 13}
       \/ ch < 32 /\ ch \notin {9, 10, 13}
       \/ ch >= 32 /\ ch \notin {34, 92}
  BY <1>1
<1> QED
  BY <1>10, <1>4, <1>5, <1>8, <1>9, Zenon

(* The function of Readings, and that there is one. *)
ReaderOf(inner) ==
    CHOOSE read : read = [i \in 1 .. Len(inner) + 1 |-> ReadAt(inner, read, i)]

(* It looks ahead only, and no further than behind the last character. *)
LEMMA ReadsAhead ==
    ASSUME NEW inner \in Seq(Nat), NEW f, NEW g, NEW i \in Nat,
           \A k \in i + 1 .. Len(inner) + 1 : f[k] = g[k]
    PROVE  ReadAt(inner, f, i) = ReadAt(inner, g, i)
<1>0. Len(inner) \in Nat
  OBVIOUS
<1>1. CASE i > Len(inner)
  BY <1>1, Zenon DEF ReadAt
<1>2. CASE ~(i > Len(inner))
  <2>1. f[i + 1] = g[i + 1]
    BY <1>0, <1>2
  <2>2. ShortAt(inner, i) => f[i + 2] = g[i + 2]
    BY <1>0, <1>2 DEF ShortAt
  <2>3. UnicodeAt(inner, i) => f[i + 6] = g[i + 6]
    BY <1>0, <1>2 DEF UnicodeAt
  <2>4. CASE PlainAt(inner, i)
    BY <1>2, <2>1, <2>4, Zenon DEF ReadAt
  <2>5. CASE ~PlainAt(inner, i) /\ ShortAt(inner, i)
    BY <1>2, <2>2, <2>5, Zenon DEF ReadAt
  <2>6. CASE ~PlainAt(inner, i) /\ ~ShortAt(inner, i) /\ UnicodeAt(inner, i)
    BY <1>2, <2>3, <2>6, Zenon DEF ReadAt
  <2>7. CASE ~PlainAt(inner, i) /\ ~ShortAt(inner, i) /\ ~UnicodeAt(inner, i)
    BY <1>2, <2>7, Zenon DEF ReadAt
  <2> QED
    BY <2>4, <2>5, <2>6, <2>7, Zenon
<1> QED
  BY <1>1, <1>2, Zenon

(* The function, as far as the last n characters. *)
ReadsLast(inner, f, n) ==
    /\ f = [i \in 1 .. Len(inner) + 1 |-> f[i]]
    /\ \A i \in 1 .. Len(inner) + 1 : i > Len(inner) - n => f[i] = ReadAt(inner, f, i)

LEMMA ReadsNone ==
    ASSUME NEW inner \in Seq(Nat)
    PROVE  \E f : ReadsLast(inner, f, 0)
<1> DEFINE D == 1 .. Len(inner) + 1
           f == [i \in D |-> {<<>>}]
<1>0. Len(inner) \in Nat
  OBVIOUS
<1>1. f = [i \in D |-> f[i]]
  OBVIOUS
<1>2. ASSUME NEW i \in D, i > Len(inner) - 0 PROVE f[i] = ReadAt(inner, f, i)
  <2>1. f[i] = {<<>>} /\ i > Len(inner)
    BY <1>0, <1>2
  <2> QED
    BY <2>1, Zenon DEF ReadAt
<1> HIDE DEF f
<1>3. ReadsLast(inner, f, 0)
  BY <1>1, <1>2, Zenon DEF ReadsLast
<1> QED
  BY <1>3, Zenon

LEMMA ReadsOneMore ==
    ASSUME NEW inner \in Seq(Nat), NEW n \in Nat, NEW f, ReadsLast(inner, f, n)
    PROVE  \E g : ReadsLast(inner, g, n + 1)
<1> DEFINE L == Len(inner)
           D == 1 .. L + 1
           g == [i \in D |-> IF i = L - n THEN ReadAt(inner, f, i) ELSE f[i]]
<1>1. L \in Nat
  OBVIOUS
<1>2. g = [i \in D |-> g[i]]
  OBVIOUS
<1>3. \A i \in D : i > L - n => f[i] = ReadAt(inner, f, i)
  BY Zenon DEF ReadsLast
<1>4. \A i \in D : g[i] = IF i = L - n THEN ReadAt(inner, f, i) ELSE f[i]
  BY Zenon
<1>5. D = 1 .. L + 1
  OBVIOUS
<1> HIDE DEF g, L, D
<1>6. ASSUME NEW i \in D, i > L - (n + 1) PROVE g[i] = ReadAt(inner, g, i)
  <2>0. i \in Nat /\ i \in 1 .. L + 1
    BY <1>1, <1>5
  <2>1. g[i] = ReadAt(inner, f, i)
    <3>1. CASE i = L - n
      BY <3>1, <1>4, Zenon
    <3>2. CASE i # L - n
      <4>1. i > L - n
        BY <1>1, <1>6, <2>0, <3>2
      <4> QED
        BY <1>3, <1>4, <3>2, <4>1, Zenon
    <3> QED
      BY <3>1, <3>2, Zenon
  <2>2. ASSUME NEW k \in i + 1 .. L + 1 PROVE f[k] = g[k]
    <3>1. k \in 1 .. L + 1 /\ k # L - n
      BY <1>1, <1>6, <2>0
    <3> QED
      BY <1>4, <1>5, <3>1, Zenon
  <2>3. \A k \in i + 1 .. Len(inner) + 1 : f[k] = g[k]
    BY <2>2, Zenon DEF L
  <2>4. ReadAt(inner, f, i) = ReadAt(inner, g, i)
    BY <2>0, <2>3, ReadsAhead, Zenon
  <2> QED
    BY <2>1, <2>4, Zenon
<1>7. ReadsLast(inner, g, n + 1)
  BY <1>2, <1>6, Zenon DEF ReadsLast, L, D
<1> QED
  BY <1>7, Zenon

LEMMA ReaderExists ==
    ASSUME NEW inner \in Seq(Nat)
    PROVE  \A i \in 1 .. Len(inner) + 1 :
              ReaderOf(inner)[i] = ReadAt(inner, ReaderOf(inner), i)
<1> DEFINE S == {n \in Nat : \E f : ReadsLast(inner, f, n)}
<1>0. Len(inner) \in Nat
  OBVIOUS
<1>1. S \in SUBSET Nat /\ 0 \in S
  BY ReadsNone
<1>2. ASSUME NEW n \in S PROVE n + 1 \in S
  <2>1. n \in Nat /\ n + 1 \in Nat
    OBVIOUS
  <2>2. PICK f : ReadsLast(inner, f, n)
    BY <1>2, Zenon
  <2> QED
    BY <2>1, <2>2, ReadsOneMore, Zenon
<1>3. S = Nat
  <2> HIDE DEF S
  <2> QED
    BY <1>1, <1>2, SetInduction, Zenon
<1>4. PICK f : ReadsLast(inner, f, Len(inner))
  BY <1>0, <1>3, Zenon
<1>5. \A i \in 1 .. Len(inner) + 1 : i > Len(inner) - Len(inner)
  BY <1>0
<1>6. f = [i \in 1 .. Len(inner) + 1 |-> ReadAt(inner, f, i)]
  BY <1>4, <1>5, Zenon DEF ReadsLast
<1>7. ReaderOf(inner) = [i \in 1 .. Len(inner) + 1 |-> ReadAt(inner, ReaderOf(inner), i)]
  BY <1>6, Zenon DEF ReaderOf
<1> DEFINE r == ReaderOf(inner)
<1> HIDE DEF r
<1>8. r = [i \in 1 .. Len(inner) + 1 |-> ReadAt(inner, r, i)]
  BY <1>7, Zenon DEF r
<1>9. \A i \in 1 .. Len(inner) + 1 : r[i] = ReadAt(inner, r, i)
  BY <1>8, Zenon
<1> QED
  BY <1>9, Zenon DEF r

(* What a quoted text can be read as, and the string that then is read. *)
LEMMA ReadingsAre ==
    ASSUME NEW text, Len(text) >= 2, text[1] = 34, text[Len(text)] = 34
    PROVE  Readings(text) = ReaderOf(SubSeq(text, 2, Len(text) - 1))[1]
BY Zenon DEF Readings, ReaderOf

LEMMA OneReading ==
    ASSUME NEW text, NEW s, Readings(text) = {s}
    PROVE  ReadString(text) = s
<1>1. (CHOOSE x \in {s} : TRUE) = s
  OBVIOUS
<1>2. {s} # {}
  OBVIOUS
<1> QED
  BY <1>1, <1>2, Zenon DEF ReadString

----------------------------------------------------------------------------
(* FlattenSeq's function, and that there is one. *)
FlatAt(seqs, f, i) == IF i = 1 THEN seqs[i] ELSE f[i - 1] \o seqs[i]

FlattenOf(seqs) ==
    CHOOSE flatten : flatten = [i \in 1 .. Len(seqs) |->
                                   IF i = 1 THEN seqs[i] ELSE flatten[i - 1] \o seqs[i]]

LEMMA FlattenSeqIs ==
    ASSUME NEW seqs, Len(seqs) # 0
    PROVE  FlattenSeq(seqs) = FlattenOf(seqs)[Len(seqs)]
BY Zenon DEF FlattenSeq, FlattenOf

(* The function, as far as the first n sequences. *)
FlattensFirst(seqs, f, n) ==
    /\ f = [i \in 1 .. Len(seqs) |-> f[i]]
    /\ \A i \in 1 .. Len(seqs) : i <= n => f[i] = FlatAt(seqs, f, i)

LEMMA FlattensOneMore ==
    ASSUME NEW seqs, Len(seqs) \in Nat, NEW n \in Nat, NEW f, FlattensFirst(seqs, f, n)
    PROVE  \E g : FlattensFirst(seqs, g, n + 1)
<1> DEFINE D == 1 .. Len(seqs)
           g == [i \in D |-> IF i = n + 1 THEN FlatAt(seqs, f, i) ELSE f[i]]
<1>1. g = [i \in D |-> g[i]]
  OBVIOUS
<1>2. \A i \in D : i <= n => f[i] = FlatAt(seqs, f, i)
  BY Zenon DEF FlattensFirst
<1>3. \A i \in D : g[i] = IF i = n + 1 THEN FlatAt(seqs, f, i) ELSE f[i]
  BY Zenon
<1>4. D = 1 .. Len(seqs)
  OBVIOUS
<1> HIDE DEF g, D
<1>5. ASSUME NEW i \in D, i <= n + 1 PROVE g[i] = FlatAt(seqs, g, i)
  <2>1. g[i] = FlatAt(seqs, f, i)
    <3>1. CASE i = n + 1
      BY <3>1, <1>3, Zenon
    <3>2. CASE i # n + 1
      <4>1. i <= n
        BY <1>4, <1>5, <3>2
      <4> QED
        BY <1>2, <1>3, <3>2, <4>1, Zenon
    <3> QED
      BY <3>1, <3>2, Zenon
  <2>2. CASE i = 1
    BY <2>1, <2>2, Zenon DEF FlatAt
  <2>3. CASE i # 1
    <3>1. i - 1 \in D /\ i - 1 # n + 1
      BY <1>4, <1>5, <2>3
    <3>2. g[i - 1] = f[i - 1]
      BY <1>3, <3>1, Zenon
    <3> QED
      BY <2>1, <2>3, <3>2, Zenon DEF FlatAt
  <2> QED
    BY <2>2, <2>3, Zenon
<1>6. FlattensFirst(seqs, g, n + 1)
  BY <1>1, <1>5, Zenon DEF FlattensFirst, D
<1> QED
  BY <1>6, Zenon

LEMMA FlattenExists ==
    ASSUME NEW seqs, Len(seqs) \in Nat
    PROVE  \A i \in 1 .. Len(seqs) : FlattenOf(seqs)[i] = FlatAt(seqs, FlattenOf(seqs), i)
<1> DEFINE S == {n \in Nat : \E f : FlattensFirst(seqs, f, n)}
<1>1. S \in SUBSET Nat /\ 0 \in S
  <2> DEFINE f == [i \in 1 .. Len(seqs) |-> <<>>]
  <2>1. f = [i \in 1 .. Len(seqs) |-> f[i]] /\ \A i \in 1 .. Len(seqs) : ~(i <= 0)
    OBVIOUS
  <2> HIDE DEF f
  <2>2. FlattensFirst(seqs, f, 0)
    BY <2>1, Zenon DEF FlattensFirst
  <2>3. 0 \in Nat
    OBVIOUS
  <2> QED
    BY <2>2, <2>3, Zenon
<1>2. ASSUME NEW n \in S PROVE n + 1 \in S
  <2>1. n \in Nat /\ n + 1 \in Nat
    OBVIOUS
  <2>2. PICK f : FlattensFirst(seqs, f, n)
    BY <1>2, Zenon
  <2> QED
    BY <2>1, <2>2, FlattensOneMore, Zenon
<1>3. S = Nat
  <2> HIDE DEF S
  <2> QED
    BY <1>1, <1>2, SetInduction, Zenon
<1>4. PICK f : FlattensFirst(seqs, f, Len(seqs))
  BY <1>3, Zenon
<1>5. \A i \in 1 .. Len(seqs) : i <= Len(seqs)
  OBVIOUS
<1>6. f = [i \in 1 .. Len(seqs) |-> FlatAt(seqs, f, i)]
  BY <1>4, <1>5, Zenon DEF FlattensFirst
<1>7. f = [i \in 1 .. Len(seqs) |-> IF i = 1 THEN seqs[i] ELSE f[i - 1] \o seqs[i]]
  BY <1>6, Zenon DEF FlatAt
<1>8. FlattenOf(seqs) = [i \in 1 .. Len(seqs) |->
          IF i = 1 THEN seqs[i] ELSE FlattenOf(seqs)[i - 1] \o seqs[i]]
  BY <1>7, Zenon DEF FlattenOf
<1> DEFINE r == FlattenOf(seqs)
<1> HIDE DEF r
<1>9. r = [i \in 1 .. Len(seqs) |-> IF i = 1 THEN seqs[i] ELSE r[i - 1] \o seqs[i]]
  BY <1>8, Zenon DEF r
<1>10. \A i \in 1 .. Len(seqs) : r[i] = FlatAt(seqs, r, i)
  BY <1>9, Zenon DEF FlatAt
<1> QED
  BY <1>10, Zenon DEF r

----------------------------------------------------------------------------
(* The escapes of a string, and those of its first k characters in a row. *)
Escapes(s) == [i \in DOMAIN s |-> EscapeChar(s[i])]

Prefix(s, k) == IF k = 0 THEN <<>> ELSE FlattenOf(Escapes(s))[k]

LEMMA EscapesTyped ==
    ASSUME NEW s \in String
    PROVE  /\ Len(s) \in Nat /\ DOMAIN s = 1 .. Len(s) /\ Len(Escapes(s)) = Len(s)
           /\ \A k \in 1 .. Len(s) :
                /\ s[k] \in Char /\ Escapes(s)[k] = EscapeChar(s[k])
                /\ EscapeChar(s[k]) \in Seq(32 .. 255) /\ Len(EscapeChar(s[k])) \in 1 .. 6
<1>1. /\ s \in Seq(Char) /\ Len(s) \in Nat /\ DOMAIN s = 1 .. Len(s)
      /\ \A k \in 1 .. Len(s) : s[k] \in Char
  BY DEF String
<1>2. \A k \in 1 .. Len(s) : EscapeChar(s[k]) \in Seq(32 .. 255) /\ Len(EscapeChar(s[k])) \in 1 .. 6
  BY <1>1, Escaped, Zenon
<1>3. Escapes(s) = [i \in 1 .. Len(s) |-> EscapeChar(s[i])]
  BY <1>1, Zenon DEF Escapes
<1>4. \A k \in 1 .. Len(s) : Escapes(s)[k] = EscapeChar(s[k])
  BY <1>3, Zenon
<1>5. Len(Escapes(s)) = Len(s)
  <2> DEFINE e == Escapes(s)
  <2>1. e \in Seq(Seq(32 .. 255)) /\ DOMAIN e = 1 .. Len(s)
    <3> DEFINE T == Seq(32 .. 255)
    <3> HIDE DEF T
    <3>1. \A i \in 1 .. Len(s) : EscapeChar(s[i]) \in T
      BY <1>2, Zenon DEF T
    <3>2. [i \in 1 .. Len(s) |-> EscapeChar(s[i])] \in Seq(T)
      BY <1>1, <3>1
    <3> QED
      BY <1>3, <3>2, Zenon DEF T
  <2> HIDE DEF e
  <2>2. Len(e) = Len(s)
    BY <1>1, <2>1
  <2> QED
    BY <2>2, Zenon DEF e
<1> QED
  BY <1>1, <1>2, <1>4, <1>5, Zenon

LEMMA PrefixNext ==
    ASSUME NEW s \in String, NEW k \in 1 .. Len(s), Prefix(s, k - 1) \in Seq(32 .. 255)
    PROVE  Prefix(s, k) = Prefix(s, k - 1) \o EscapeChar(s[k])
<1>1. Len(s) \in Nat /\ k \in Nat /\ k # 0 /\ k \in 1 .. Len(s)
  BY EscapesTyped
<1>2. Prefix(s, k) = FlatAt(Escapes(s), FlattenOf(Escapes(s)), k)
  BY <1>1, FlattenExists, EscapesTyped, Zenon DEF Prefix
<1>3. Escapes(s)[k] = EscapeChar(s[k]) /\ EscapeChar(s[k]) \in Seq(32 .. 255)
  BY <1>1, EscapesTyped, Zenon
<1>4. CASE k = 1
  <2>1. Prefix(s, k) = EscapeChar(s[k])
    BY <1>2, <1>3, <1>4, Zenon DEF FlatAt
  <2>2. k - 1 = 0
    BY <1>4
  <2>3. Prefix(s, k - 1) = <<>>
    BY <2>2, Zenon DEF Prefix
  <2>4. \A e \in Seq(32 .. 255) : <<>> \o e = e
    OBVIOUS
  <2> QED
    BY <1>3, <2>1, <2>3, <2>4, Zenon
<1>5. CASE k # 1
  <2>1. k - 1 # 0
    BY <1>1, <1>5
  <2> QED
    BY <1>2, <1>3, <1>5, <2>1, Zenon DEF FlatAt, Prefix
<1> QED
  BY <1>4, <1>5, Zenon

LEMMA PrefixTyped ==
    ASSUME NEW s \in String
    PROVE  \A k \in 0 .. Len(s) : Prefix(s, k) \in Seq(32 .. 255)
<1> DEFINE S == {k \in Nat : k <= Len(s) => Prefix(s, k) \in Seq(32 .. 255)}
<1>0. Len(s) \in Nat
  BY EscapesTyped
<1>1. S \in SUBSET Nat /\ 0 \in S
  <2>1. <<>> \in Seq(32 .. 255) /\ 0 \in Nat
    OBVIOUS
  <2>2. Prefix(s, 0) = <<>>
    BY Zenon DEF Prefix
  <2> QED
    BY <2>1, <2>2, Zenon
<1>2. ASSUME NEW k \in S PROVE k + 1 \in S
  <2>1. k \in Nat /\ (k <= Len(s) => Prefix(s, k) \in Seq(32 .. 255))
    BY <1>2, Zenon
  <2>2. ASSUME k + 1 <= Len(s) PROVE Prefix(s, k + 1) \in Seq(32 .. 255)
    <3>1. k <= Len(s) /\ k + 1 \in 1 .. Len(s) /\ (k + 1) - 1 = k
      BY <1>0, <2>1, <2>2
    <3>2. Prefix(s, k) \in Seq(32 .. 255) /\ EscapeChar(s[k + 1]) \in Seq(32 .. 255)
      BY <2>1, <3>1, EscapesTyped, Zenon
    <3>3. Prefix(s, k + 1) = Prefix(s, k) \o EscapeChar(s[k + 1])
      BY <3>1, <3>2, PrefixNext, Zenon
    <3>4. \A p, e \in Seq(32 .. 255) : p \o e \in Seq(32 .. 255)
      OBVIOUS
    <3> QED
      BY <3>2, <3>3, <3>4, Zenon
  <2>3. k + 1 \in Nat
    BY <2>1
  <2> QED
    BY <2>2, <2>3, Zenon
<1>3. S = Nat
  <2> HIDE DEF S
  <2> QED
    BY <1>1, <1>2, SetInduction, Zenon
<1>4. \A k \in 0 .. Len(s) : k \in Nat /\ k <= Len(s)
  BY <1>0
<1> QED
  BY <1>3, <1>4, Zenon

(* Where the escape of the k-th character is, in all that follows. *)
LEMMA EscapePlace ==
    ASSUME NEW s \in String, NEW k \in 1 .. Len(s)
    PROVE  LET e == EscapeChar(s[k]) IN
           /\ Prefix(s, k) = Prefix(s, k - 1) \o e
           /\ Prefix(s, k) \in Seq(32 .. 255) /\ Prefix(s, k - 1) \in Seq(32 .. 255)
           /\ Len(Prefix(s, k)) = Len(Prefix(s, k - 1)) + Len(e)
           /\ \A j \in 1 .. Len(Prefix(s, k - 1)) : Prefix(s, k)[j] = Prefix(s, k - 1)[j]
           /\ \A j \in 1 .. Len(e) : Prefix(s, k)[Len(Prefix(s, k - 1)) + j] = e[j]
<1>0. Len(s) \in Nat /\ k \in 0 .. Len(s) /\ k - 1 \in 0 .. Len(s)
  <2>1. Len(s) \in Nat
    BY EscapesTyped
  <2> QED
    BY <2>1
<1> DEFINE e == EscapeChar(s[k])
           p == Prefix(s, k - 1)
           q == Prefix(s, k)
<1>1. p \in Seq(32 .. 255) /\ q \in Seq(32 .. 255) /\ e \in Seq(32 .. 255)
  BY <1>0, PrefixTyped, EscapesTyped, Zenon
<1>2. q = p \o e
  BY <1>1, PrefixNext, Zenon
<1> HIDE DEF e, p, q
<1>3. /\ Len(q) = Len(p) + Len(e) /\ \A j \in 1 .. Len(p) : q[j] = p[j]
      /\ \A j \in 1 .. Len(e) : q[Len(p) + j] = e[j]
  BY <1>1, <1>2
<1> QED
  BY <1>1, <1>2, <1>3, Zenon DEF e, p, q

LEMMA PrefixGrows ==
    ASSUME NEW s \in String, NEW k \in 0 .. Len(s)
    PROVE  /\ Len(Prefix(s, k)) <= Len(Prefix(s, Len(s)))
           /\ \A j \in 1 .. Len(Prefix(s, k)) : Prefix(s, Len(s))[j] = Prefix(s, k)[j]
<1> DEFINE P == Prefix(s, k)
           Kept(m) == /\ Len(P) <= Len(Prefix(s, m))
                      /\ \A j \in 1 .. Len(P) : Prefix(s, m)[j] = P[j]
           S == {d \in Nat : k + d <= Len(s) => Kept(k + d)}
<1>0. Len(s) \in Nat /\ k \in Nat /\ k <= Len(s) /\ k + 0 = k
  <2>1. Len(s) \in Nat
    BY EscapesTyped
  <2> QED
    BY <2>1
<1>1. P \in Seq(32 .. 255) /\ Len(P) \in Nat
  <2>1. P \in Seq(32 .. 255)
    BY PrefixTyped, Zenon
  <2> HIDE DEF P
  <2> QED
    BY <2>1
<1>2. S \in SUBSET Nat /\ 0 \in S
  <2>1. Len(P) <= Len(P) /\ 0 \in Nat
    BY <1>1
  <2> QED
    BY <1>0, <2>1, Zenon
<1> HIDE DEF P
<1>3. ASSUME NEW d \in S PROVE d + 1 \in S
  <2>1. d \in Nat /\ (k + d <= Len(s) => Kept(k + d))
    BY <1>3, Zenon
  <2>2. ASSUME k + (d + 1) <= Len(s) PROVE Kept(k + (d + 1))
    <3> DEFINE m == k + (d + 1)
    <3>1. m \in 1 .. Len(s) /\ m - 1 = k + d /\ k + d <= Len(s)
      BY <1>0, <2>1, <2>2
    <3> DEFINE old == Prefix(s, m - 1)
               new == Prefix(s, m)
    <3> HIDE DEF m
    <3>2. Len(P) <= Len(old) /\ \A j \in 1 .. Len(P) : old[j] = P[j]
      BY <2>1, <3>1, Zenon
    <3>3. EscapeChar(s[m]) \in Seq(32 .. 255)
      BY <3>1, EscapesTyped, Zenon
    <3>8. /\ old \in Seq(32 .. 255)
          /\ Len(new) = Len(old) + Len(EscapeChar(s[m]))
          /\ \A j \in 1 .. Len(old) : new[j] = old[j]
      <4>1. m \in 1 .. Len(s)
        BY <3>1, Zenon
      <4> QED
        BY <4>1, EscapePlace
    <3> HIDE DEF old, new
    <3>4. Len(old) \in Nat /\ Len(EscapeChar(s[m])) \in Nat
      BY <3>3, <3>8
    <3>5. Len(P) <= Len(new)
      BY <1>1, <3>2, <3>8, <3>4
    <3>6. \A j \in 1 .. Len(P) : j \in 1 .. Len(old)
      BY <1>1, <3>2, <3>4
    <3>7. \A j \in 1 .. Len(P) : new[j] = P[j]
      BY <3>2, <3>8, <3>6, Zenon
    <3> QED
      BY <3>5, <3>7, Zenon DEF new, m
  <2>3. d + 1 \in Nat
    BY <2>1
  <2> QED
    BY <2>2, <2>3, Zenon
<1>4. S = Nat
  <2> HIDE DEF S
  <2> QED
    BY <1>2, <1>3, SetInduction, Zenon
<1>5. Len(s) - k \in Nat /\ k + (Len(s) - k) = Len(s) /\ Len(s) <= Len(s)
  BY <1>0
<1>6. Kept(k + (Len(s) - k))
  BY <1>4, <1>5, Zenon
<1> QED
  BY <1>5, <1>6, Zenon DEF P

(* Reading the escapes of a string gives the string. *)
LEMMA ReadsBack ==
    ASSUME NEW s \in String
    PROVE  ReaderOf(Prefix(s, Len(s)))[1] = {s}
<1> DEFINE n == Len(s)
           inner == Prefix(s, n)
           read == ReaderOf(inner)
           S == {d \in Nat : d <= n => read[Len(Prefix(s, n - d)) + 1] = {SubSeq(s, n - d + 1, n)}}
<1>1. n \in Nat /\ n \in 0 .. n /\ s \in Seq(Char)
  <2>1. n \in Nat
    BY EscapesTyped
  <2> QED
    BY <2>1 DEF String
<1>2. inner \in Seq(32 .. 255) /\ inner \in Seq(Nat) /\ Len(inner) \in Nat
  <2>1. inner \in Seq(32 .. 255)
    BY <1>1, PrefixTyped, Zenon
  <2> HIDE DEF inner
  <2>2. Seq(32 .. 255) \subseteq Seq(Nat)
    <3>1. 32 .. 255 \subseteq Nat
      OBVIOUS
    <3> QED
      BY <3>1, SeqMonotonic
  <2>3. inner \in Seq(Nat)
    BY <2>1, <2>2, Zenon
  <2>4. Len(inner) \in Nat
    BY <2>3
  <2> QED
    BY <2>1, <2>3, <2>4, Zenon
<1>3. \A i \in 1 .. Len(inner) + 1 : read[i] = ReadAt(inner, read, i)
  BY <1>2, ReaderExists, Zenon
<1>4. \A k \in 0 .. n : /\ Len(Prefix(s, k)) <= Len(inner)
                       /\ \A j \in 1 .. Len(Prefix(s, k)) : inner[j] = Prefix(s, k)[j]
  BY PrefixGrows, Zenon
<1>5. inner = Prefix(s, n) /\ n = Len(s)
  OBVIOUS
<1> HIDE DEF inner, read, n
<1>6. S \in SUBSET Nat /\ 0 \in S
  <2>1. 0 \in Nat /\ n - 0 = n /\ Len(inner) + 1 \in 1 .. Len(inner) + 1
        /\ Len(inner) + 1 > Len(inner) /\ SubSeq(s, n + 1, n) = <<>>
    BY <1>1, <1>2, <1>5
  <2>2. read[Len(inner) + 1] = {<<>>}
    BY <1>2, <1>3, <2>1, Zenon DEF ReadAt
  <2> QED
    BY <1>5, <2>1, <2>2, Zenon
<1>7. ASSUME NEW d \in S PROVE d + 1 \in S
  <2>1. d \in Nat /\ (d <= n => read[Len(Prefix(s, n - d)) + 1] = {SubSeq(s, n - d + 1, n)})
    BY <1>7, Zenon
  <2>2. ASSUME d + 1 <= n
        PROVE  read[Len(Prefix(s, n - (d + 1))) + 1] = {SubSeq(s, n - (d + 1) + 1, n)}
    <3> DEFINE k == n - d
    <3>1. k \in 1 .. n /\ k \in 0 .. n /\ n - (d + 1) = k - 1 /\ (k - 1) + 1 = k /\ d <= n
      BY <1>1, <2>1, <2>2
    <3>2. read[Len(Prefix(s, k)) + 1] = {SubSeq(s, k + 1, n)}
      BY <2>1, <3>1, Zenon
    <3> HIDE DEF k
    <3> DEFINE p == Prefix(s, k - 1)
               q == Prefix(s, k)
               e == EscapeChar(s[k])
               i == Len(p) + 1
    <3>3. s[k] \in Char /\ e \in Seq(32 .. 255)
      BY <1>5, <3>1, EscapesTyped, Zenon
    <3>4. /\ q \in Seq(32 .. 255) /\ p \in Seq(32 .. 255) /\ Len(q) = Len(p) + Len(e)
          /\ \A j \in 1 .. Len(e) : q[Len(p) + j] = e[j]
      <4>1. k \in 1 .. Len(s)
        BY <1>5, <3>1, Zenon
      <4> QED
        BY <4>1, EscapePlace
    <3>5. Len(q) <= Len(inner) /\ \A j \in 1 .. Len(q) : inner[j] = q[j]
      BY <1>4, <3>1, Zenon
    <3> HIDE DEF p, q, e
    <3>6. Len(p) \in Nat /\ Len(e) \in Nat /\ Len(q) \in Nat
      BY <3>3, <3>4
    <3>7. /\ i \in Nat \ {0} /\ i \in 1 .. Len(inner) + 1
          /\ i + Len(e) - 1 <= Len(inner) /\ i + Len(e) = Len(q) + 1
      BY <1>2, <3>4, <3>5, <3>6
    <3>8. ASSUME NEW j \in 1 .. Len(e) PROVE inner[i + j - 1] = e[j]
      <4>1. Len(p) + j \in 1 .. Len(q) /\ i + j - 1 = Len(p) + j
        BY <3>4, <3>6
      <4> QED
        BY <3>4, <3>5, <4>1, Zenon
    <3> HIDE DEF i
    <3>9. ReadAt(inner, read, i) = Then(s[k], read[i + Len(e)])
      <4>1. \A j \in 1 .. Len(EscapeChar(s[k])) : inner[i + j - 1] = EscapeChar(s[k])[j]
        BY <3>8, Zenon DEF e
      <4>2. i \in Nat \ {0} /\ i + Len(EscapeChar(s[k])) - 1 <= Len(inner)
        BY <3>7, Zenon DEF e
      <4>3. inner \in Seq(Nat) /\ s[k] \in Char
        BY <1>2, <3>3, Zenon
      <4>4. ReadAt(inner, read, i) = Then(s[k], read[i + Len(EscapeChar(s[k]))])
        BY <4>1, <4>2, <4>3, ReadEscaped
      <4> QED
        BY <4>4, Zenon DEF e
    <3>10. read[i] = {<<s[k]>> \o SubSeq(s, k + 1, n)}
      <4>1. read[i] = Then(s[k], {SubSeq(s, k + 1, n)})
        BY <1>3, <3>2, <3>7, <3>9, Zenon DEF q
      <4>2. \A c, r : Then(c, {r}) = {<<c>> \o r}
        BY Zenon DEF Then
      <4> QED
        BY <4>1, <4>2, Zenon
    <3>11. <<s[k]>> \o SubSeq(s, k + 1, n) = SubSeq(s, k, n)
      <4>1. k \in 1 .. Len(s)
        BY <1>5, <3>1
      <4> QED
        BY <1>1, <1>5, <4>1
    <3> QED
      BY <3>1, <3>10, <3>11, Zenon DEF i, p
  <2>3. d + 1 \in Nat
    BY <2>1
  <2> QED
    BY <2>2, <2>3, Zenon
<1>8. S = Nat
  <2> HIDE DEF S
  <2> QED
    BY <1>6, <1>7, SetInduction, Zenon
<1>9. n <= n /\ n - n = 0 /\ n - n + 1 = 1 /\ Len(<<>>) + 1 = 1
  BY <1>1
<1>10. read[Len(Prefix(s, n - n)) + 1] = {SubSeq(s, n - n + 1, n)}
  BY <1>1, <1>8, <1>9, Zenon
<1>11. Prefix(s, n - n) = <<>>
  BY <1>9, Zenon DEF Prefix
<1>12. read[1] = {SubSeq(s, 1, n)}
  BY <1>9, <1>10, <1>11, Zenon
<1>13. SubSeq(s, 1, n) = s
  BY <1>1, <1>5
<1> QED
  BY <1>12, <1>13, Zenon DEF read, inner, n

(* What appendJsonString writes is a JSON string, whatever characters are   *)
(* in it: by the rules of JSON it has one reading, the string it was given. *)
THEOREM StringRead ==
    \A s \in String : Readings(JsonString(s)) = {s} /\ ReadString(JsonString(s)) = s
<1> SUFFICES ASSUME NEW s \in String
             PROVE  Readings(JsonString(s)) = {s} /\ ReadString(JsonString(s)) = s
  OBVIOUS
<1> DEFINE inner == Prefix(s, Len(s))
<1>1. Len(s) \in Nat /\ Len(s) \in 0 .. Len(s)
  <2>1. Len(s) \in Nat
    BY EscapesTyped
  <2> QED
    BY <2>1
<1>2. inner \in Seq(32 .. 255)
  BY <1>1, PrefixTyped, Zenon
<1>3. FlattenSeq(Escapes(s)) = inner
  <2>1. Len(Escapes(s)) = Len(s) /\ DOMAIN s = 1 .. Len(s)
    BY EscapesTyped, Zenon
  <2>2. CASE Len(s) = 0
    <3>1. FlattenSeq(Escapes(s)) = Escapes(s)
      BY <2>1, <2>2, Zenon DEF FlattenSeq
    <3>2. Escapes(s) = [i \in {} |-> EscapeChar(s[i])]
      <4>1. DOMAIN s = {}
        BY <2>1, <2>2
      <4> QED
        BY <4>1, Zenon DEF Escapes
    <3>3. [i \in {} |-> EscapeChar(s[i])] = <<>>
      OBVIOUS
    <3> QED
      BY <2>2, <3>1, <3>2, <3>3, Zenon DEF Prefix
  <2>3. CASE Len(s) # 0
    <3>1. FlattenSeq(Escapes(s)) = FlattenOf(Escapes(s))[Len(Escapes(s))]
      BY <2>1, <2>3, FlattenSeqIs, Zenon
    <3> QED
      BY <2>1, <2>3, <3>1, Zenon DEF Prefix
  <2> QED
    BY <2>2, <2>3, Zenon
<1>4. JsonString(s) = <<34>> \o inner \o <<34>>
  BY <1>3, Zenon DEF JsonString, Escapes
<1> DEFINE text == <<34>> \o inner \o <<34>>
<1>5. /\ SubSeq(text, 2, Len(text) - 1) = inner
      /\ Len(text) >= 2 /\ text[1] = 34 /\ text[Len(text)] = 34
  <2> HIDE DEF inner
  <2>1. PICK n \in Nat : n = Len(inner)
    BY <1>2
  <2> DEFINE t == <<34>> \o inner \o <<34>>
  <2>2. /\ t \in Seq(32 .. 255) /\ Len(t) = n + 2 /\ \A i \in 1 .. n : t[i + 1] = inner[i]
        /\ t[1] = 34 /\ t[n + 2] = 34
    BY <1>2, <2>1
  <2> HIDE DEF t
  <2>5. Len(t) - 1 = n + 1
    BY <2>2
  <2>6. 2 \in 1 .. Len(t) + 1 /\ n + 1 \in 2 - 1 .. Len(t)
    BY <2>2
  <2>7. /\ SubSeq(t, 2, n + 1) \in Seq(32 .. 255) /\ Len(SubSeq(t, 2, n + 1)) = (n + 1) - 2 + 1
        /\ \A i \in 1 .. (n + 1) - 2 + 1 : SubSeq(t, 2, n + 1)[i] = t[2 + i - 1]
    <3> DEFINE T == 32 .. 255
               u == SubSeq(t, 2, n + 1)
    <3>1. t \in Seq(T) /\ Len(t) = n + 2
      BY <2>2, Zenon
    <3> HIDE DEF T
    <3>2. \A i \in 2 .. n + 1 : t[i] \in T
      BY <3>1
    <3>3. PICK a \in Int, b \in Int : a = 2 /\ b = n + 1
      OBVIOUS
    <3>6. \A i \in a .. b : t[i] \in T
      BY <3>2, <3>3, Zenon
    <3>7. /\ SubSeq(t, a, b) \in Seq(T) /\ Len(SubSeq(t, a, b)) = IF a <= b THEN b - a + 1 ELSE 0
          /\ \A i \in 1 .. b - a + 1 : SubSeq(t, a, b)[i] = t[a + i - 1]
      BY <3>6, SubSeqProperties
    <3>4. /\ u \in Seq(T) /\ Len(u) = IF 2 <= n + 1 THEN (n + 1) - 2 + 1 ELSE 0
          /\ \A i \in 1 .. (n + 1) - 2 + 1 : u[i] = t[2 + i - 1]
      BY <3>3, <3>7, Zenon
    <3> HIDE DEF u
    <3>5. Len(u) = (n + 1) - 2 + 1
      BY <3>4
    <3> QED
      BY <3>4, <3>5, Zenon DEF u, T
  <2>8. (n + 1) - 2 + 1 = n /\ \A i \in 1 .. n : 2 + i - 1 = i + 1
    OBVIOUS
  <2>3. /\ SubSeq(t, 2, Len(t) - 1) \in Seq(32 .. 255) /\ Len(SubSeq(t, 2, Len(t) - 1)) = n
        /\ \A i \in 1 .. n : SubSeq(t, 2, Len(t) - 1)[i] = t[i + 1]
    BY <2>5, <2>7, <2>8, Zenon
  <2>4. SubSeq(t, 2, Len(t) - 1) = inner
    BY <1>2, <2>1, <2>2, <2>3, SeqEqual
  <2>9. Len(t) >= 2 /\ t[1] = 34 /\ t[Len(t)] = 34
    BY <2>2
  <2> QED
    BY <2>4, <2>9, Zenon DEF t
<1>6. ReaderOf(inner)[1] = {s}
  BY ReadsBack, Zenon
<1>7. Readings(text) = ReaderOf(SubSeq(text, 2, Len(text) - 1))[1]
  <2> HIDE DEF text
  <2> QED
    BY <1>5, ReadingsAre, Zenon
<1>8. Readings(JsonString(s)) = {s}
  BY <1>4, <1>5, <1>6, <1>7, Zenon
<1> QED
  BY <1>8, OneReading, Zenon

----------------------------------------------------------------------------
(* The body: what buildOtlpJsonBody writes, a receiver reads. *)

LEMMA EmptyRead == ReadString(<<34, 34>>) = <<>>
<1>1. <<>> \in String
  BY DEF String
<1>2. FlattenSeq([i \in DOMAIN <<>> |-> EscapeChar((<<>>)[i])]) = <<>>
  <2>1. [i \in DOMAIN <<>> |-> EscapeChar((<<>>)[i])] = <<>>
    OBVIOUS
  <2>2. FlattenSeq(<<>>) = <<>>
    <3>1. Len(<<>>) = 0
      OBVIOUS
    <3> QED
      BY <3>1, Zenon DEF FlattenSeq
  <2> QED
    BY <2>1, <2>2, Zenon
<1>3. <<34>> \o <<>> \o <<34>> = <<34, 34>>
  <2>1. <<34>> \o <<>> = <<34>>
    OBVIOUS
  <2> DEFINE t == <<34>> \o <<34>>
             u == <<34, 34>>
  <2>2. t \in Seq(Nat) /\ Len(t) = 2 /\ t[1] = 34 /\ t[2] = 34
    OBVIOUS
  <2>3. u \in Seq(Nat) /\ Len(u) = 2 /\ u[1] = 34 /\ u[2] = 34
    OBVIOUS
  <2> HIDE DEF t, u
  <2>4. t = u
    <3>1. \A i \in 1 .. 2 : t[i] = u[i]
      BY <2>2, <2>3
    <3> QED
      BY <2>2, <2>3, <3>1, SeqEqual
  <2> QED
    BY <2>1, <2>4, Zenon DEF t, u
<1>4. JsonString(<<>>) = <<34, 34>>
  BY <1>2, <1>3, Zenon DEF JsonString
<1> QED
  BY <1>1, <1>4, StringRead, Zenon

LEMMA ValueRead ==
    ASSUME NEW a, IsAttribute(a)
    PROVE  LET v == AttributeValue(a.value)
           IN (IF "stringValue" \in DOMAIN v THEN ReadString(v["stringValue"])
               ELSE v[CHOOSE k \in DOMAIN v : TRUE]) = a.value.value
<1> DEFINE key == AttributeValueKey[a.value.type]
           v == AttributeValue(a.value)
<1>1. DOMAIN v = {key}
  BY Zenon DEF AttributeValue
<1>2. v[key] = IF a.value.type = "kString" THEN JsonString(a.value.value) ELSE a.value.value
  BY Zenon DEF AttributeValue
<1>3. a.value.type = "kString" <=> key = "stringValue"
  BY DEF AttributeValueKey, IsAttribute, SpanAttributeType
<1>4. CASE a.value.type = "kString"
  BY <1>1, <1>2, <1>3, <1>4, StringRead, Zenon DEF IsAttribute
<1>5. CASE a.value.type # "kString"
  <2>1. (CHOOSE k \in DOMAIN v : TRUE) = key
    BY <1>1
  <2> QED
    BY <1>1, <1>2, <1>3, <1>5, <2>1, Zenon
<1> QED
  BY <1>4, <1>5, Zenon

LEMMA AttributesRead ==
    ASSUME NEW list, \A i \in DOMAIN list : IsAttribute(list[i])
    PROVE  ReadAttributes(AttributeArray(list)) = Named(list)
<1> DEFINE array == AttributeArray(list)
           value(v) == IF "stringValue" \in DOMAIN v THEN ReadString(v["stringValue"])
                       ELSE v[CHOOSE k \in DOMAIN v : TRUE]
<1>1. DOMAIN array = DOMAIN list
  BY Zenon DEF AttributeArray
<1>2. ASSUME NEW i \in DOMAIN list
      PROVE  ReadString(array[i].key) = list[i].name /\ value(array[i].value) = list[i].value.value
  <2>1. array[i] = [key |-> JsonString(list[i].name), value |-> AttributeValue(list[i].value)]
    BY Zenon DEF AttributeArray
  <2>2. array[i].key = JsonString(list[i].name) /\ array[i].value = AttributeValue(list[i].value)
    BY <2>1
  <2>3. list[i].name \in String
    BY DEF IsAttribute
  <2> QED
    BY <2>2, <2>3, StringRead, ValueRead, Zenon
<1> HIDE DEF array, value
<1>3. [i \in DOMAIN array |-> [name |-> ReadString(array[i].key), value |-> value(array[i].value)]]
        = [i \in DOMAIN list |-> [name |-> list[i].name, value |-> list[i].value.value]]
  BY <1>1, <1>2, Zenon
<1> QED
  BY <1>3, Zenon DEF ReadAttributes, Named, array, value

(* A key of an object, or what its absence means. *)
LEMMA GetKey ==
    ASSUME NEW all, NEW present, NEW key, NEW default
    PROVE  /\ key \in present => Get(JsonObject(all, present), key, default) = all[key]
           /\ key \notin present => Get(JsonObject(all, present), key, default) = default
  BY Zenon DEF JsonObject, Get

LEMMA HasKey ==
    ASSUME NEW all, NEW present, NEW key \in present
    PROVE  JsonObject(all, present)[key] = all[key]
  BY Zenon DEF JsonObject

(* A string that is left out when it is empty. *)
LEMMA OptionalRead ==
    ASSUME NEW all, NEW present, NEW key, NEW s \in String,
           all[key] = JsonString(s), s # <<>> => key \in present
    PROVE  ReadStringOf(JsonObject(all, present), key) = s
<1>1. CASE key \in present
  <2>1. Get(JsonObject(all, present), key, <<34, 34>>) = JsonString(s)
    BY <1>1, GetKey
  <2> QED
    BY <2>1, StringRead, Zenon DEF ReadStringOf
<1>2. CASE key \notin present
  <2>1. Get(JsonObject(all, present), key, <<34, 34>>) = <<34, 34>>
    BY <1>2, GetKey
  <2> QED
    BY <1>2, <2>1, EmptyRead, Zenon DEF ReadStringOf
<1> QED
  BY <1>1, <1>2, Zenon

LEMMA StatusRead ==
    ASSUME NEW status, IsStatus(status)
    PROVE  /\ Status(status)["code"] = otlpStatusCodeName[status.code]
           /\ ReadStringOf(Status(status), "message") = status.message
<1> DEFINE all == [code |-> otlpStatusCodeName[status.code], message |-> JsonString(status.message)]
           present == {"code"} \cup {k \in {"message"} : status.message # <<>>}
<1>1. all["code"] = otlpStatusCodeName[status.code] /\ all["message"] = JsonString(status.message)
  OBVIOUS
<1>2. "code" \in present /\ (status.message # <<>> => "message" \in present)
  OBVIOUS
<1> HIDE DEF all, present
<1>3. JsonObject(all, present)["code"] = otlpStatusCodeName[status.code]
  BY <1>1, <1>2, HasKey
<1>4. ReadStringOf(JsonObject(all, present), "message") = status.message
  BY <1>1, <1>2, OptionalRead DEF IsStatus
<1> QED
  BY <1>3, <1>4, Zenon DEF Status, all, present

LEMMA SpanRead == ASSUME NEW x, IsSpan(x) PROVE ReadSpan(SpanObject(x)) = Meaning(x)
<1> DEFINE all ==
             [traceId |-> x.identity.trace, spanId |-> x.identity.span,
              name |-> JsonString(x.identity.name), kind |-> otlpSpanKindName[x.kind],
              parentSpanId |-> x.identity.parent, traceState |-> JsonString(x.identity.state),
              attributes |-> AttributeArray(x.attributes), status |-> Status(x.status)]
           present ==
             {"traceId", "spanId", "name", "kind"}
               \cup {k \in {"parentSpanId"} : x.identity.parent # None}
               \cup {k \in {"traceState"} : x.identity.state # <<>>}
               \cup {k \in {"attributes"} : x.attributes # <<>>}
               \cup {k \in {"status"} : x.status.code # "kUnset" \/ x.status.message # <<>>}
           object == JsonObject(all, present)
           status == Get(object, "status", [code |-> "STATUS_CODE_UNSET"])
<1>1. /\ all["traceId"] = x.identity.trace /\ all["spanId"] = x.identity.span
      /\ all["name"] = JsonString(x.identity.name) /\ all["kind"] = otlpSpanKindName[x.kind]
      /\ all["parentSpanId"] = x.identity.parent
      /\ all["traceState"] = JsonString(x.identity.state)
      /\ all["attributes"] = AttributeArray(x.attributes) /\ all["status"] = Status(x.status)
  OBVIOUS
<1>2. /\ "traceId" \in present /\ "spanId" \in present /\ "name" \in present /\ "kind" \in present
      /\ "parentSpanId" \in present <=> x.identity.parent # None
      /\ "traceState" \in present <=> x.identity.state # <<>>
      /\ "attributes" \in present <=> x.attributes # <<>>
      /\ "status" \in present <=> x.status.code # "kUnset" \/ x.status.message # <<>>
  OBVIOUS
<1>3. /\ x.identity.name \in String /\ x.identity.state \in String /\ IsStatus(x.status)
      /\ \A i \in DOMAIN x.attributes : IsAttribute(x.attributes[i])
  BY Zenon DEF IsSpan, IsIdentity
<1>4. SpanObject(x) = object
  BY Zenon DEF SpanObject
<1> HIDE DEF all, present
<1>5. /\ object["traceId"] = x.identity.trace /\ object["spanId"] = x.identity.span
      /\ object["kind"] = otlpSpanKindName[x.kind]
  BY <1>1, <1>2, HasKey
<1>6. Get(object, "parentSpanId", None) = x.identity.parent
  BY <1>1, <1>2, GetKey
<1>7. /\ ReadStringOf(object, "name") = x.identity.name
      /\ ReadStringOf(object, "traceState") = x.identity.state
  BY <1>1, <1>2, <1>3, OptionalRead
<1>8. ReadAttributes(Get(object, "attributes", <<>>)) = Named(x.attributes)
  <2>1. CASE x.attributes # <<>>
    <3>1. Get(object, "attributes", <<>>) = AttributeArray(x.attributes)
      BY <1>1, <1>2, <2>1, GetKey
    <3> QED
      BY <1>3, <3>1, AttributesRead, Zenon
  <2>2. CASE x.attributes = <<>>
    <3>1. Get(object, "attributes", <<>>) = <<>>
      BY <1>1, <1>2, <2>2, GetKey
    <3>2. ReadAttributes(<<>>) = <<>> /\ Named(<<>>) = <<>>
      BY DEF ReadAttributes, Named
    <3> QED
      BY <2>2, <3>1, <3>2, Zenon
  <2> QED
    BY <2>1, <2>2, Zenon
<1>9. /\ status["code"] = otlpStatusCodeName[x.status.code]
      /\ ReadStringOf(status, "message") = x.status.message
  <2>1. CASE "status" \in present
    <3>1. status = Status(x.status)
      BY <1>1, <2>1, GetKey
    <3> QED
      BY <1>3, <3>1, StatusRead, Zenon
  <2>2. CASE "status" \notin present
    <3>1. status = [code |-> "STATUS_CODE_UNSET"]
      BY <2>2, GetKey
    <3>2. x.status.code = "kUnset" /\ x.status.message = <<>>
      BY <1>2, <2>2, Zenon
    <3>3. otlpStatusCodeName["kUnset"] = "STATUS_CODE_UNSET"
      BY DEF otlpStatusCodeName
    <3>4. [code |-> "STATUS_CODE_UNSET"]["code"] = "STATUS_CODE_UNSET"
      OBVIOUS
    <3>5. "message" \notin DOMAIN [code |-> "STATUS_CODE_UNSET"]
      OBVIOUS
    <3>6. ReadStringOf([code |-> "STATUS_CODE_UNSET"], "message") = <<>>
      BY <3>5, EmptyRead, Zenon DEF ReadStringOf, Get
    <3> QED
      BY <3>1, <3>2, <3>3, <3>4, <3>6, Zenon
  <2> QED
    BY <2>1, <2>2, Zenon
<1> HIDE DEF object
<1> QED
  BY <1>4, <1>5, <1>6, <1>7, <1>8, <1>9, Zenon DEF ReadSpan, Meaning, status

----------------------------------------------------------------------------
(* The headers. *)

(* A nonempty set of positions has a last one. *)
LEMMA LastPlace ==
    ASSUME NEW n \in Nat, NEW at \in SUBSET (1 .. n), at # {}
    PROVE  \E i \in at : \A j \in at : j <= i
<1> SUFFICES ASSUME ~ \E i \in at : \A j \in at : j <= i PROVE FALSE
  OBVIOUS
<1> DEFINE S == {k \in Nat : \E j \in at : j >= k}
<1>1. 0 \in S
  <2>1. PICK j \in at : j \in 1 .. n
    OBVIOUS
  <2> QED
    BY <2>1
<1>2. \A k \in S : k + 1 \in S
  OBVIOUS
<1>3. S \in SUBSET Nat /\ n + 1 \notin S /\ n + 1 \in Nat
  OBVIOUS
<1>4. S = Nat
  <2> HIDE DEF S
  <2> QED
    BY <1>1, <1>2, <1>3, SetInduction
<1> QED
  BY <1>3, <1>4, Zenon

LEMMA LastValueIs ==
    ASSUME NEW headers, NEW n \in Nat, NEW at \in SUBSET (1 .. n), at # {}
    PROVE  \E m \in at : (\A j \in at : j <= m) /\ LastValue(headers, at) = headers[m].value
<1>1. \E i \in at : \A j \in at : j <= i
  BY LastPlace
<1> QED
  BY <1>1, Zenon DEF LastValue

ContentType == [name |-> "content-type", case |-> "lower", value |-> "application/json"]

(* The headers of the program, after the content type if it gave none. *)
Made(given, headers, d) ==
    /\ Len(given) \in Nat /\ DOMAIN given = 1 .. Len(given)
    /\ DOMAIN headers = 1 .. Len(given) + d
    /\ \A i \in 1 .. Len(given) : headers[i + d] = given[i]
    /\ d \in {0, 1}
    /\ d = 0 => HasHeader(given, "content-type")
    /\ d = 1 => headers[1] = ContentType /\ ~HasHeader(given, "content-type")

LEMMA MakeHeadersMade ==
    ASSUME NEW H, NEW given \in Seq(H)
    PROVE  \E d \in {0, 1} : Made(given, MakeHeaders(given), d)
<1>1. Len(given) \in Nat /\ DOMAIN given = 1 .. Len(given)
  OBVIOUS
<1>2. CASE HasHeader(given, "content-type")
  <2>1. MakeHeaders(given) = given
    BY <1>2, Zenon DEF MakeHeaders
  <2>2. Len(given) + 0 = Len(given) /\ \A i \in 1 .. Len(given) : i + 0 = i
    BY <1>1
  <2>3. 0 # 1
    OBVIOUS
  <2>4. Made(given, given, 0)
    BY <1>1, <1>2, <2>2, <2>3, Zenon DEF Made
  <2> QED
    BY <2>1, <2>4, Zenon
<1>3. CASE ~HasHeader(given, "content-type")
  <2> DEFINE headers == <<ContentType>> \o given
  <2>1. MakeHeaders(given) = headers
    BY <1>3, Zenon DEF MakeHeaders, ContentType
  <2>2. /\ DOMAIN headers = 1 .. Len(given) + 1 /\ headers[1] = ContentType
        /\ \A i \in 1 .. Len(given) : headers[i + 1] = given[i]
    <3>1. PICK G : G = H \cup {ContentType}
      OBVIOUS
    <3>2. given \in Seq(G) /\ ContentType \in G
      BY <3>1
    <3> QED
      BY <3>2
  <2>3. 0 # 1
    OBVIOUS
  <2>4. Made(given, headers, 1)
    <3> HIDE DEF headers
    <3> QED
      BY <1>1, <1>3, <2>2, <2>3, Zenon DEF Made
  <2> QED
    BY <2>1, <2>4, Zenon
<1> QED
  BY <1>2, <1>3, Zenon

(* Where a header of the request comes from. *)
LEMMA HeaderPlace ==
    ASSUME NEW given, NEW headers, NEW d, Made(given, headers, d), NEW m \in DOMAIN headers
    PROVE  \/ d = 1 /\ m = 1 /\ headers[m] = ContentType
           \/ m - d \in DOMAIN given /\ headers[m] = given[m - d]
<1>1. /\ Len(given) \in Nat /\ d \in {0, 1} /\ m \in 1 .. Len(given) + d
      /\ DOMAIN given = 1 .. Len(given)
  BY DEF Made
<1>2. CASE d = 1 /\ m = 1
  BY <1>2, Zenon DEF Made
<1>3. CASE ~(d = 1 /\ m = 1)
  <2>1. m - d \in 1 .. Len(given) /\ (m - d) + d = m
    BY <1>1, <1>3
  <2> QED
    BY <1>1, <2>1, Zenon DEF Made
<1> QED
  BY <1>2, <1>3, Zenon

(* Of the program's headers none is missing, and the content type is the     *)
(* program's if it gives one.                                                *)
LEMMA HeadersKept ==
    ASSUME NEW given, NEW headers, NEW d, Made(given, headers, d)
    PROVE  /\ \A i \in DOMAIN given : \E m \in DOMAIN headers : headers[m] = given[i]
           /\ {headers[m].value : m \in {k \in DOMAIN headers : headers[k].name = "content-type"}}
                = ContentTypes(given)
<1> DEFINE types == {h \in {given[i] : i \in DOMAIN given} : h.name = "content-type"}
           at == {k \in DOMAIN headers : headers[k].name = "content-type"}
           values == {headers[m].value : m \in at}
<1>1. /\ Len(given) \in Nat /\ d \in {0, 1} /\ DOMAIN given = 1 .. Len(given)
      /\ DOMAIN headers = 1 .. Len(given) + d
  BY Zenon DEF Made
<1>2. ContentType.name = "content-type" /\ ContentType.value = "application/json"
  BY DEF ContentType
<1>3. HasHeader(given, "content-type") <=> types # {}
  BY Zenon DEF HasHeader
<1>4. ContentTypes(given) = IF types = {} THEN {"application/json"} ELSE {h.value : h \in types}
  BY Zenon DEF ContentTypes
<1>5. ASSUME NEW i \in DOMAIN given PROVE i + d \in DOMAIN headers /\ headers[i + d] = given[i]
  <2>1. i + d \in 1 .. Len(given) + d
    BY <1>1
  <2> QED
    BY <1>1, <2>1, Zenon DEF Made
<1>6. ASSUME NEW m \in at PROVE headers[m].value \in ContentTypes(given)
  <2>1. m \in DOMAIN headers /\ headers[m].name = "content-type"
    BY Zenon
  <2>2. \/ d = 1 /\ m = 1 /\ headers[m] = ContentType
        \/ m - d \in DOMAIN given /\ headers[m] = given[m - d]
    <3> HIDE DEF at
    <3> QED
      BY <2>1, HeaderPlace
  <2>3. CASE d = 1 /\ headers[m] = ContentType
    <3>1. types = {}
      BY <1>3, <2>3, Zenon DEF Made
    <3> QED
      BY <1>2, <1>4, <2>3, <3>1, Zenon
  <2>4. CASE m - d \in DOMAIN given /\ headers[m] = given[m - d]
    <3>1. headers[m] \in types
      BY <2>1, <2>4, Zenon
    <3> HIDE DEF types
    <3>2. types # {} /\ headers[m].value \in {h.value : h \in types}
      BY <3>1, Zenon
    <3> QED
      BY <1>4, <3>2, Zenon
  <2> QED
    BY <2>2, <2>3, <2>4, Zenon
<1>7. ASSUME NEW v \in ContentTypes(given) PROVE v \in values
  <2>1. CASE types = {}
    <3>1. ~HasHeader(given, "content-type") /\ v = "application/json"
      BY <1>3, <1>4, <1>7, <2>1, Zenon
    <3>2. d = 1
      BY <1>1, <3>1, Zenon DEF Made
    <3>3. 1 \in DOMAIN headers
      BY <1>1, <3>2
    <3>4. headers[1] = ContentType
      BY <3>2, Zenon DEF Made
    <3> QED
      BY <1>2, <3>1, <3>3, <3>4, Zenon
  <2>2. CASE types # {}
    <3>1. v \in {h.value : h \in types}
      BY <1>4, <1>7, <2>2, Zenon
    <3>2. PICK i \in DOMAIN given : given[i].name = "content-type" /\ v = given[i].value
      BY <3>1, Zenon
    <3> QED
      BY <1>5, <3>2, Zenon
  <2> QED
    BY <2>1, <2>2, Zenon
<1>8. values = ContentTypes(given)
  <2>1. \A v : v \in values => v \in ContentTypes(given)
    BY <1>6, Zenon
  <2> HIDE DEF values
  <2> QED
    BY <2>1, <1>7
<1> QED
  BY <1>5, <1>8, Zenon

LEMMA ContentTypeKept ==
    ASSUME NEW given, NEW headers, NEW d, Made(given, headers, d)
    PROVE  RequestHeaders(headers).contentType \in ContentTypes(given)
<1> DEFINE at == {i \in DOMAIN headers : headers[i].name = "content-type"}
           n == Len(given) + d
           value == RequestHeaders(headers).contentType
<1>1. {headers[m].value : m \in at} = ContentTypes(given)
  BY HeadersKept, Zenon
<1>2. at # {}
  <2>1. \E v : v \in ContentTypes(given)
    <3> DEFINE types == {h \in {given[i] : i \in DOMAIN given} : h.name = "content-type"}
    <3>1. CASE types = {}
      BY <3>1, Zenon DEF ContentTypes
    <3>2. CASE types # {}
      BY <3>2, Zenon DEF ContentTypes
    <3> QED
      BY <3>1, <3>2, Zenon
  <2> QED
    BY <1>1, <2>1, Zenon
<1>3. HasHeader(headers, "content-type")
  BY <1>2, Zenon DEF HasHeader
<1>4. n \in Nat /\ at \in SUBSET (1 .. n)
  BY DEF Made
<1>5. value = LastValue(headers, at)
  <2>1. \A a, b : [contentType |-> a, fields |-> b].contentType = a
    OBVIOUS
  <2> QED
    BY <1>3, <2>1, Zenon DEF RequestHeaders
<1>6. PICK m \in at : value = headers[m].value
  <2> HIDE DEF at, n, value
  <2> QED
    BY <1>2, <1>4, <1>5, LastValueIs
<1> QED
  BY <1>1, <1>6, Zenon

(* The other headers of the program go out, each with a value it was given   *)
(* in this or a later place; the defaults take the places of missing ones.   *)
LEMMA FieldsKept ==
    ASSUME NEW given, NEW headers, NEW d, Made(given, headers, d),
           \A i \in DOMAIN given : given[i].value # "default"
    PROVE  LET fields == RequestHeaders(headers).fields
           IN /\ \A n \in DefaultHeaders : <<n, "default">> \in fields <=> ~HasHeader(given, n)
              /\ \A i \in DOMAIN given : given[i].name # "content-type" =>
                    \E j \in i .. Len(given) : <<given[i].name, given[j].value>> \in fields
<1> DEFINE rest == DOMAIN headers \ {i \in DOMAIN headers : headers[i].name = "content-type"}
           spelled(i) == {j \in rest : headers[j].name = headers[i].name
                                         /\ headers[j].case = headers[i].case}
           own == {<<headers[i].name, LastValue(headers, spelled(i))>> : i \in rest}
           defaults == {<<n, "default">> : n \in {k \in DefaultHeaders : ~HasHeader(headers, k)}}
           len == Len(given) + d
<1>1. RequestHeaders(headers).fields = own \cup defaults
  <2>1. \A a, b : [contentType |-> a, fields |-> b].fields = b
    OBVIOUS
  <2> QED
    BY <2>1, Zenon DEF RequestHeaders
<1>2. len \in Nat /\ DOMAIN headers = 1 .. len /\ rest \in SUBSET (1 .. len)
  BY DEF Made
<1>3. ASSUME NEW i \in rest
      PROVE  /\ i - d \in DOMAIN given /\ headers[i] = given[i - d]
             /\ headers[i].name # "content-type"
  <2>1. ContentType.name = "content-type"
    BY DEF ContentType
  <2>2. i \in DOMAIN headers /\ headers[i].name # "content-type"
    BY Zenon
  <2>3. \/ headers[i] = ContentType
        \/ i - d \in DOMAIN given /\ headers[i] = given[i - d]
    <3> HIDE DEF rest
    <3> QED
      BY <2>2, HeaderPlace
  <2> QED
    BY <2>1, <2>2, <2>3, Zenon
<1>4. ASSUME NEW i \in rest
      PROVE  \E m \in spelled(i) : i <= m /\ LastValue(headers, spelled(i)) = headers[m].value
  <2>1. i \in spelled(i) /\ spelled(i) \in SUBSET (1 .. len)
    BY <1>2, Zenon
  <2>2. PICK at : at = spelled(i)
    OBVIOUS
  <2>3. PICK m \in at : (\A j \in at : j <= m) /\ LastValue(headers, at) = headers[m].value
    <3>1. at \in SUBSET (1 .. len) /\ at # {}
      BY <2>1, <2>2, Zenon
    <3> HIDE DEF len
    <3> QED
      BY <1>2, <3>1, LastValueIs
  <2> QED
    BY <2>1, <2>2, <2>3, Zenon
<1>5. ASSUME NEW i \in DOMAIN given
      PROVE  i + d \in DOMAIN headers /\ headers[i + d] = given[i] /\ i \in 1 .. Len(given)
  <2>1. /\ Len(given) \in Nat /\ d \in {0, 1} /\ i \in 1 .. Len(given)
        /\ headers[i + d] = given[i]
    BY Zenon DEF Made
  <2>2. i + d \in 1 .. len
    BY <2>1
  <2> QED
    BY <1>2, <2>1, <2>2, Zenon
<1>6. ASSUME NEW n \in DefaultHeaders PROVE <<n, "default">> \in own \cup defaults <=> ~HasHeader(given, n)
  <2>1. n # "content-type"
    BY DEF DefaultHeaders
  <2>2. HasHeader(headers, n) <=> HasHeader(given, n)
    <3>1. ASSUME NEW i \in DOMAIN headers, headers[i].name = n PROVE HasHeader(given, n)
      <4>1. i \in rest
        BY <2>1, <3>1, Zenon
      <4> HIDE DEF rest
      <4> QED
        BY <1>3, <3>1, <4>1, Zenon DEF HasHeader
    <3>2. ASSUME NEW i \in DOMAIN given, given[i].name = n PROVE HasHeader(headers, n)
      BY <1>5, <3>2, Zenon DEF HasHeader
    <3> QED
      BY <3>1, <3>2, Zenon DEF HasHeader
  <2>3. <<n, "default">> \in defaults <=> ~HasHeader(headers, n)
    OBVIOUS
  <2>4. <<n, "default">> \notin own
    <3> SUFFICES ASSUME NEW i \in rest, <<n, "default">> = <<headers[i].name, LastValue(headers, spelled(i))>>
                 PROVE  FALSE
      BY Zenon
    <3>1. PICK m \in spelled(i) : LastValue(headers, spelled(i)) = headers[m].value
      BY <1>4, Zenon
    <3>2. m \in rest
      BY <3>1, Zenon
    <3>3. m - d \in DOMAIN given /\ headers[m] = given[m - d]
      BY <1>3, <3>2, Zenon
    <3>4. given[m - d].value # "default"
      BY <3>3, Zenon
    <3>5. LastValue(headers, spelled(i)) = "default"
      <4> HIDE DEF spelled
      <4> QED
        OBVIOUS
    <3> QED
      BY <3>1, <3>3, <3>4, <3>5, Zenon
  <2> HIDE DEF own, defaults
  <2> QED
    BY <2>2, <2>3, <2>4, Zenon
<1>7. ASSUME NEW i \in DOMAIN given, given[i].name # "content-type"
      PROVE  \E j \in i .. Len(given) : <<given[i].name, given[j].value>> \in own \cup defaults
  <2>1. i + d \in rest /\ headers[i + d] = given[i]
    BY <1>5, <1>7, Zenon
  <2>2. PICK m \in spelled(i + d) :
               i + d <= m /\ LastValue(headers, spelled(i + d)) = headers[m].value
    BY <1>4, <2>1, Zenon
  <2>3. m \in rest
    BY <2>2, Zenon
  <2>4. m - d \in DOMAIN given /\ headers[m] = given[m - d]
    BY <1>3, <2>3, Zenon
  <2>5. m - d \in i .. Len(given)
    <3>1. Len(given) \in Nat /\ d \in {0, 1} /\ m \in 1 .. len /\ DOMAIN given = 1 .. Len(given)
      BY <1>2, <2>3, Zenon DEF Made
    <3>2. m - d \in 1 .. Len(given) /\ i \in 1 .. Len(given)
      BY <2>4, <3>1, Zenon
    <3> QED
      BY <2>2, <3>1, <3>2
  <2>6. <<headers[i + d].name, LastValue(headers, spelled(i + d))>> \in own
    BY <2>1, Zenon
  <2>7. <<given[i].name, given[m - d].value>> \in own
    BY <2>1, <2>2, <2>4, <2>6, Zenon
  <2> HIDE DEF own, defaults
  <2> QED
    BY <2>5, <2>7, Zenon
<1> HIDE DEF own, defaults
<1> QED
  BY <1>1, <1>6, <1>7, Zenon

----------------------------------------------------------------------------
(* The request. *)

(* Whatever is exported is a span. *)
LEMMA ExportedIsSpan == \A x \in Exported : IsSpan(x)
<1> SUFFICES ASSUME NEW x \in Exported PROVE IsSpan(x)
  OBVIOUS
<1>1. CASE x \in SpanRecord
  <2>1. /\ x.identity \in Identities /\ x.kind \in Kinds \cup {"kInternal"}
        /\ x.status \in Statuses \cup {[code |-> "kUnset", message |-> <<>>]}
        /\ x.attributes \in Seq(Attributes)
    BY <1>1 DEF SpanRecord
  <2>2. IsStatus([code |-> "kUnset", message |-> <<>>])
    BY DEF IsStatus, SpanStatusCode, String
  <2>3. \A i \in DOMAIN x.attributes : x.attributes[i] \in Attributes
    BY <2>1
  <2>4. x.kind \in SpanKind
    BY <2>1, SpanAssumption DEF SpanKind
  <2> QED
    BY <2>1, <2>2, <2>3, <2>4, SpanAssumption, Zenon DEF IsSpan
<1>2. CASE x \in {Others[i] : i \in DOMAIN Others}
  BY <1>2, OtlpAssumption, Zenon
<1> QED
  BY <1>1, <1>2, Zenon DEF Exported

(* The parts of the body. *)
LEMMA BodyParts ==
    ASSUME NEW spans, NEW setup
    PROVE  /\ JsonBody(spans, setup).spans = [i \in DOMAIN spans |-> SpanObject(spans[i])]
           /\ JsonBody(spans, setup).scope = Scope(setup.scope)
           /\ Get(JsonBody(spans, setup), "resource", <<>>)
                = IF setup.resource # <<>> THEN AttributeArray(setup.resource) ELSE <<>>
<1> DEFINE all == [resource |-> AttributeArray(setup.resource), scope |-> Scope(setup.scope),
                   spans |-> [i \in DOMAIN spans |-> SpanObject(spans[i])]]
           present == {"scope", "spans"} \cup {k \in {"resource"} : setup.resource # <<>>}
<1>1. /\ all["resource"] = AttributeArray(setup.resource) /\ all["scope"] = Scope(setup.scope)
      /\ all["spans"] = [i \in DOMAIN spans |-> SpanObject(spans[i])]
  OBVIOUS
<1>2. /\ "scope" \in present /\ "spans" \in present
      /\ "resource" \in present <=> setup.resource # <<>>
  OBVIOUS
<1>3. JsonBody(spans, setup) = JsonObject(all, present)
  BY Zenon DEF JsonBody
<1> HIDE DEF all, present
<1>4. JsonObject(all, present)["scope"] = all["scope"] /\ JsonObject(all, present)["spans"] = all["spans"]
  BY <1>2, HasKey
<1>5. Get(JsonObject(all, present), "resource", <<>>)
        = IF setup.resource # <<>> THEN AttributeArray(setup.resource) ELSE <<>>
  BY <1>1, <1>2, GetKey
<1> QED
  BY <1>1, <1>3, <1>4, <1>5, Zenon

LEMMA ScopeRead ==
    ASSUME NEW scope \in [name : String, version : String]
    PROVE  [f \in {"name", "version"} |-> ReadStringOf(Scope(scope), f)] = scope
<1> DEFINE all == [name |-> JsonString(scope.name), version |-> JsonString(scope.version)]
           present == {"name"} \cup {k \in {"version"} : scope.version # <<>>}
<1>1. all["name"] = JsonString(scope.name) /\ all["version"] = JsonString(scope.version)
  OBVIOUS
<1>2. "name" \in present /\ (scope.version # <<>> => "version" \in present)
  OBVIOUS
<1>3. scope.name \in String /\ scope.version \in String
  OBVIOUS
<1>4. Scope(scope) = JsonObject(all, present)
  BY Zenon DEF Scope
<1> HIDE DEF all, present
<1>5. /\ ReadStringOf(Scope(scope), "name") = scope.name
      /\ ReadStringOf(Scope(scope), "version") = scope.version
  BY <1>1, <1>2, <1>3, <1>4, OptionalRead
<1>6. scope = [name |-> scope.name, version |-> scope.version]
  OBVIOUS
<1>7. [f \in {"name", "version"} |-> ReadStringOf(Scope(scope), f)]
        = [name |-> ReadStringOf(Scope(scope), "name"), version |-> ReadStringOf(Scope(scope), "version")]
  OBVIOUS
<1> QED
  BY <1>5, <1>6, <1>7, Zenon

(* The request of every call, to any transport: a receiver reads from its    *)
(* body the spans of the call, the resource and the scope as they were, for  *)
(* spans, names and attributes of any kind and any characters; its headers   *)
(* are the program's where it gives them, and so are those that galay-http   *)
(* posts (buildOtlpJsonBody, appendJsonString, makeHeaders,                  *)
(* sendWithGalayHttp).                                                       *)
THEOREM RequestsAreFaithful == Spec => []RequestFaithful
<1>1. ASSUME TypeOK, NEW e \in Exports
      PROVE  BodyFaithful(e) /\ HeadersFaithful(e) /\ SentFaithful(e)
  <2> DEFINE batch == call[e].batch
             headers == MakeHeaders(config.headers)
             body == JsonBody(batch, config)
  <2>1. Request(e).headers = headers /\ Request(e).body = body
    BY DEF Request
  <2>2. /\ \A i \in DOMAIN config.resource : IsAttribute(config.resource[i])
        /\ config.scope \in [name : String, version : String]
        /\ config.headers \in Seq({config.headers[i] : i \in DOMAIN config.headers})
        /\ \A i \in DOMAIN config.headers : config.headers[i].value # "default"
    BY <1>1, OtlpAssumption, Zenon DEF TypeOK
  <2>3. \A i \in DOMAIN batch : IsSpan(batch[i])
    <3>1. batch \in Seq(Exported)
      BY <1>1 DEF TypeOK
    <3>2. \A i \in DOMAIN batch : batch[i] \in Exported
      BY <3>1
    <3> QED
      BY <3>2, ExportedIsSpan, Zenon
  <2> HIDE DEF batch, headers, body
  <2>4. [i \in DOMAIN body.spans |-> ReadSpan(body.spans[i])] = [i \in DOMAIN batch |-> Meaning(batch[i])]
    <3>1. body.spans = [i \in DOMAIN batch |-> SpanObject(batch[i])]
      BY BodyParts, Zenon DEF body
    <3>2. DOMAIN body.spans = DOMAIN batch /\ \A i \in DOMAIN batch : body.spans[i] = SpanObject(batch[i])
      BY <3>1, Zenon
    <3>3. \A i \in DOMAIN batch : ReadSpan(body.spans[i]) = Meaning(batch[i])
      BY <2>3, <3>2, SpanRead, Zenon
    <3> QED
      BY <3>2, <3>3, Zenon
  <2>5. ReadAttributes(Get(body, "resource", <<>>)) = Named(config.resource)
    <3>1. CASE config.resource # <<>>
      <4>1. Get(body, "resource", <<>>) = AttributeArray(config.resource)
        BY <3>1, BodyParts, Zenon DEF body
      <4> QED
        BY <2>2, <4>1, AttributesRead, Zenon
    <3>2. CASE config.resource = <<>>
      <4>1. Get(body, "resource", <<>>) = <<>>
        BY <3>2, BodyParts, Zenon DEF body
      <4>2. ReadAttributes(<<>>) = <<>> /\ Named(<<>>) = <<>>
        BY DEF ReadAttributes, Named
      <4> QED
        BY <3>2, <4>1, <4>2, Zenon
    <3> QED
      BY <3>1, <3>2, Zenon
  <2>6. [f \in {"name", "version"} |-> ReadStringOf(body.scope, f)] = config.scope
    <3>1. body.scope = Scope(config.scope)
      BY BodyParts, Zenon DEF body
    <3> QED
      BY <2>2, <3>1, ScopeRead, Zenon
  <2>7. PICK d \in {0, 1} : Made(config.headers, headers, d)
    BY <2>2, MakeHeadersMade DEF headers
  <2>8. BodyFaithful(e)
    BY <2>1, <2>4, <2>5, <2>6, Zenon DEF BodyFaithful, batch
  <2>9. HeadersFaithful(e)
    <3> DEFINE Kept(g, h) ==
                 /\ \A i \in DOMAIN g : \E m \in DOMAIN h : h[m] = g[i]
                 /\ {h[m].value : m \in {k \in DOMAIN h : h[k].name = "content-type"}}
                      = ContentTypes(g)
    <3>1. \A g, h, x : Made(g, h, x) => Kept(g, h)
      BY HeadersKept, Zenon
    <3>2. Kept(config.headers, Request(e).headers) <=> HeadersFaithful(e)
      BY Zenon DEF HeadersFaithful
    <3> HIDE DEF Kept
    <3> QED
      BY <2>1, <2>7, <3>1, <3>2, Zenon
  <2>10. SentFaithful(e)
    <3>1. RequestHeaders(headers).contentType \in ContentTypes(config.headers)
      BY <2>7, ContentTypeKept, Zenon
    <3>2. LET fields == RequestHeaders(headers).fields
          IN /\ \A n \in DefaultHeaders :
                   <<n, "default">> \in fields <=> ~HasHeader(config.headers, n)
             /\ \A i \in DOMAIN config.headers : config.headers[i].name # "content-type" =>
                   \E j \in i .. Len(config.headers) :
                      <<config.headers[i].name, config.headers[j].value>> \in fields
      BY <2>2, <2>7, FieldsKept, Zenon
    <3> QED
      BY <2>1, <3>1, <3>2, Zenon DEF SentFaithful, SentHeaders
  <2> QED
    BY <2>8, <2>9, <2>10, Zenon
<1>2. TypeOK => RequestFaithful
  BY <1>1, Zenon DEF RequestFaithful
<1> QED
  BY <1>2, TypeCorrect, PTL
=============================================================================
