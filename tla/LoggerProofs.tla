---------------------------- MODULE LoggerProofs ----------------------------
(***************************************************************************)
(* The safety of Logger, and that it implements SinkList, for any loggers, *)
(* writers, sinks and numbers of calls.                                    *)
(***************************************************************************)
EXTENDS Logger, TLAPS

(* A configuring call holds the mutex of its logger from LockSinks to        *)
(* StoreSnapshot, and nobody else does; what it pushed is what it will       *)
(* publish, as the list it started from is still the current one.            *)
Locks ==
    /\ \A k \in Configs : config[k].pc \in {"locked", "pushed"} =>
          config[k].logger \in Loggers /\ mutex[config[k].logger] = k
    /\ \A k \in Configs : config[k].pc = "pushed" =>
          /\ config[k].at \in DOMAIN snapshots[config[k].logger]
          /\ snapshots[config[k].logger][config[k].at] = NextSinks(k)

(* A call that sets a default configures no logger, and has a live writer or *)
(* none; the snapshot it is about to publish is the one it added.            *)
Pending ==
    \A k \in Configs :
        /\ config[k].pc \in {"setWriter", "storeWriter"} =>
              /\ config[k].logger = None /\ config[k].sink = None
              /\ config[k].writer \notin destroyed
        /\ config[k].pc = "storeWriter" =>
              /\ config[k].at \in DOMAIN erased
              /\ erased[config[k].at] = config[k].writer

(* The default logger and the default writer agree, unless the only call     *)
(* that sets them is under way and will make them agree.                     *)
Agree ==
    ~raced => \/ InDefaults = {} /\ DefaultsAgree
              \/ \E k \in Configs : InDefaults = {k} /\ config[k].writer = defaultLogger

(* The record of a call has arrived, as e, in a form its receiver takes. *)
Arrived(record, e) ==
    /\ e.to \in Structured \/ e.record.form = "plain"
    /\ e.to \in Plain \cup Sinks \/ e.record.form = "structured"
    /\ Content(e.record) = Content(record)
    /\ e.record.level = record.level /\ e.record.context = record.context

(* A logging call x that delivered o has loaded a writer that its pointer    *)
(* still leads to; it has delivered nothing before it publishes, and while   *)
(* it does a prefix of the snapshot it loaded.                               *)
CallOK(x, o) ==
    /\ x.pc # "idle" => /\ x.record \in Made /\ x.loaded \in Writers
                        /\ x.via \in {"default", "given"}
                        /\ x.via = "default" => Pointee(x.ptr) = x.loaded
    /\ x.pc \in {"idle", "bound", "enabled", "publishing", "disabled"} => x.snap = 0 /\ o = <<>>
    /\ x.pc = "publishing" => x.loaded \in Loggers
    /\ x.pc \in {"walking", "thrown"} => x.snap # 0
    /\ x.pc = "done" /\ x.snap = 0 => Len(o) = 1
    /\ x.snap # 0 => /\ x.loaded \in Loggers
                     /\ x.snap \in DOMAIN snapshots[x.loaded]
                     /\ Len(o) <= Len(snapshots[x.loaded][x.snap])
                     /\ \A i \in DOMAIN o : o[i].to = snapshots[x.loaded][x.snap][i]
                     /\ x.pc = "done" => Len(o) = Len(snapshots[x.loaded][x.snap])
    /\ \A i \in DOMAIN o : Arrived(x.record, o[i])

CallsOK == \A c \in Calls : CallOK(call[c], out[c])

(* The default writer is alive. *)
DefaultAlive == Pointee(writerPtr) \notin destroyed

(* If writers are only destroyed once no call holds them, no call holds a    *)
(* destroyed one.                                                            *)
HeldAlive ==
    WaitForCalls => \A c \in Calls : Busy(c) => call[c].loaded \notin destroyed

(* The inductive invariant. *)
Inv == TypeOK /\ Locks /\ Pending /\ Agree /\ CallsOK /\ DefaultAlive /\ HeldAlive

----------------------------------------------------------------------------
(* Records and their conversions. *)

LogContexts == {LogContextOf(ctx) : ctx \in Contexts \cup {None}}

(* A made record has the parts of a request. *)
LEMMA MadeTypes == Made \subseteq RecordWith(LogContexts)
<1> SUFFICES ASSUME NEW r \in Requests
             PROVE  [r EXCEPT !.context = LogContextOf(@)] \in RecordWith(LogContexts)
  BY DEF Made
<1>1. r \in RecordWith(Contexts)
  BY LoggerAssumption
<1>2. LogContextOf(r.context) \in LogContexts
  BY <1>1 DEF RecordWith, LogContexts
<1> QED
  BY <1>1, <1>2 DEF RecordWith

LEMMA ConcatType ==
  ASSUME NEW S, NEW s \in Seq(S), NEW t \in Seq(S)
  PROVE  s \o t \in Seq(S)
OBVIOUS

(* makeLogRecord and the change of form keep name, fields, level, context. *)
LEMMA ConversionsKeep ==
  ASSUME NEW r \in Made
  PROVE  /\ Content(makeLogRecord(r)) = Content(r) /\ makeLogRecord(r).form = "plain"
         /\ makeLogRecord(r).level = r.level /\ makeLogRecord(r).context = r.context
         /\ makeLogRecord(r) \in Records
         /\ LET s == [r EXCEPT !.form = "structured"]
            IN  /\ Content(s) = Content(r) /\ s.form = "structured"
                /\ s.level = r.level /\ s.context = r.context /\ s \in Records
<1>1. r \in RecordWith(LogContexts)
  BY MadeTypes
<1>2. PICK t \in Seq(Parts) : t = r.text \o r.fields
  <2>1. r.text \in Seq(Parts) /\ r.fields \in Seq(Parts)
    BY <1>1 DEF RecordWith
  <2> QED
    BY <2>1, ConcatType, Zenon
<1>3. t \o <<>> = t
  BY <1>2
<1>4. Content(makeLogRecord(r)) = Content(r)
  BY <1>1, <1>2, <1>3 DEF Content, makeLogRecord, RecordWith
<1>5. Content([r EXCEPT !.form = "structured"]) = Content(r)
  BY <1>1 DEF Content, RecordWith
<1>6. makeLogRecord(r) \in Records /\ [r EXCEPT !.form = "structured"] \in Records
  BY Zenon DEF Records
<1>7. /\ makeLogRecord(r).form = "plain"
      /\ makeLogRecord(r).level = r.level /\ makeLogRecord(r).context = r.context
  BY <1>1 DEF makeLogRecord, RecordWith
<1>8. LET s == [r EXCEPT !.form = "structured"]
      IN  s.form = "structured" /\ s.level = r.level /\ s.context = r.context
  BY <1>1 DEF RecordWith
<1> QED
  BY <1>4, <1>5, <1>6, <1>7, <1>8, Zenon

(* Whoever the writer is, the converted record arrives in a form the         *)
(* receiver takes: the writer itself, or a sink of the logger.               *)
LEMMA ConvertedArrives ==
  ASSUME NEW r \in Made, NEW w \in Writers, NEW to,
         (to = w /\ w \notin Loggers) \/ (w \in Loggers /\ to \in Sinks)
  PROVE  /\ [to |-> to, record |-> Converted(r, w)] \in Delivery
         /\ Arrived(r, [to |-> to, record |-> Converted(r, w)])
<1>1. PICK v : v = Converted(r, w)
  OBVIOUS
<1>2. r.form \in {"plain", "structured"}
  BY MadeTypes DEF RecordWith
<1>3. to \in Sinks \cup UserWriters
  BY DEF Writers
<1>4. r \in Records
  BY DEF Records
<1>5. v \in Records /\ Content(v) = Content(r) /\ v.level = r.level /\ v.context = r.context
  BY <1>1, <1>4, ConversionsKeep, Zenon DEF Converted
<1>6. /\ to \in Structured \/ v.form = "plain"
      /\ to \in Plain \cup Sinks \/ v.form = "structured"
  <2>1. CASE w \in Loggers \/ (r.form = "structured" /\ w \notin Structured)
    BY <1>1, <1>3, <2>1, ConversionsKeep, Zenon DEF Converted, UserWriters
  <2> DEFINE s == [r EXCEPT !.form = "structured"]
  <2>2. s.form = "structured"
    BY ConversionsKeep, Zenon
  <2> HIDE DEF s
  <2>3. ASSUME ~(w \in Loggers \/ (r.form = "structured" /\ w \notin Structured))
        PROVE  /\ to \in Structured \/ v.form = "plain"
               /\ to \in Plain \cup Sinks \/ v.form = "structured"
    <3>1. v = IF r.form = "plain" /\ w \notin Plain THEN s ELSE r
      BY <1>1, <2>3, Zenon DEF Converted, s
    <3>2. to = w /\ w \in Structured \cup Plain
      BY <2>3 DEF Writers, UserWriters
    <3> QED
      BY <1>2, <2>2, <2>3, <3>1, <3>2, Zenon
  <2> QED
    BY <2>1, <2>3
<1>7. [to |-> to, record |-> v] \in Delivery
  BY <1>3, <1>5 DEF Delivery
<1>8. Arrived(r, [to |-> to, record |-> v])
  BY <1>5, <1>6 DEF Arrived
<1> QED
  BY <1>1, <1>7, <1>8, Zenon

----------------------------------------------------------------------------
(* A step of a logging call changes its own entries of call and out. *)

(* What the invariant knows of one call. *)
LEMMA OfCall ==
  ASSUME Inv, NEW c \in Calls
  PROVE  call[c] \in CallRecord /\ out[c] \in Seq(Delivery) /\ CallOK(call[c], out[c])
BY DEF Inv, TypeOK, CallsOK

(* A step of a call keeps the invariant when it leaves the call itself right. *)
LEMMA CallChange ==
  ASSUME Inv, OnlyCalls, NEW c \in Calls, NEW x \in CallRecord, NEW o \in Seq(Delivery),
         call' = [call EXCEPT ![c] = x], out' = [out EXCEPT ![c] = o],
         CallOK(x, o),
         WaitForCalls /\ x.pc \in {"bound", "enabled", "publishing", "walking"}
           => x.loaded \notin destroyed
  PROVE  Inv'
<1>1. /\ UNCHANGED <<level, snapshots, snapshot, mutex, config, defaultLogger, erased,
                     writerPtr, raced, destroyed>>
  BY DEF OnlyCalls, sinkVars, defaultVars
<1>2. \A d \in Calls : call'[d] = (IF d = c THEN x ELSE call[d])
                       /\ out'[d] = (IF d = c THEN o ELSE out[d])
  BY DEF Inv, TypeOK
<1>3. call' \in [Calls -> CallRecord] /\ out' \in [Calls -> Seq(Delivery)]
  BY DEF Inv, TypeOK
<1>4. CallRecord' = CallRecord
  BY <1>1 DEF CallRecord
<1>5. TypeOK'
  BY <1>1, <1>3, <1>4 DEF Inv, TypeOK
<1>6. Locks' /\ Pending' /\ DefaultAlive'
  BY <1>1 DEF Inv, Locks, NextSinks, Pending, DefaultAlive, Pointee
<1>7. Agree'
  BY <1>1 DEF Inv, Agree, InDefaults, DefaultsAgree, Pointee
<1>8. \A y, p : CallOK(y, p)' <=> CallOK(y, p)
  BY <1>1 DEF CallOK, Pointee, Arrived
<1>9. CallsOK'
  BY <1>2, <1>8 DEF Inv, CallsOK
<1>10. HeldAlive'
  BY <1>1, <1>2 DEF Inv, HeldAlive, Busy
<1> QED
  BY <1>5, <1>6, <1>7, <1>9, <1>10 DEF Inv

(* A call that is under way holds the writer it loaded. *)
LEMMA HoldsLoaded ==
  ASSUME Inv, NEW c \in Calls, call[c].pc # "idle"
  PROVE  Object(c) = call[c].loaded
BY OfCall, Zenon DEF CallOK, Object

LEMMA SameOut == ASSUME Inv, NEW c \in Calls PROVE [out EXCEPT ![c] = out[c]] = out
BY DEF Inv, TypeOK

(* Every way to start a call loads a live writer. *)
LEMMA BindStep ==
  ASSUME Inv, NEW c \in Calls, NEW request \in Requests, NEW via \in {"default", "given"},
         NEW ptr \in 0 .. Len(erased), NEW writer \in Writers, writer \notin destroyed,
         via = "default" => Pointee(ptr) = writer,
         Bind(c, request, via, ptr, writer)
  PROVE  Inv'
<1>1. PICK m \in Made : m = [request EXCEPT !.context = LogContextOf(@)]
  BY Zenon DEF Made
<1> DEFINE x == [pc |-> "bound", record |-> m, via |-> via, ptr |-> ptr, loaded |-> writer,
                 snap |-> 0]
<1>2. call' = [call EXCEPT ![c] = x]
  BY <1>1, Zenon DEF Bind
<1>3. x \in CallRecord
  BY DEF CallRecord
<1>4. out[c] = <<>>
  BY OfCall DEF Bind, CallAt, CallOK
<1>5. CallOK(x, out[c])
  BY <1>4 DEF CallOK
<1>6. out' = [out EXCEPT ![c] = out[c]] /\ OnlyCalls
  BY SameOut DEF Bind
<1>7. WaitForCalls /\ x.pc \in {"bound", "enabled", "publishing", "walking"}
           => x.loaded \notin destroyed
  OBVIOUS
<1>8. out[c] \in Seq(Delivery)
  BY OfCall
<1> HIDE DEF x
<1> QED
  BY <1>2, <1>3, <1>5, <1>6, <1>7, <1>8, CallChange

LEMMA CheckEnabledStep == ASSUME Inv, NEW c \in Calls, CheckEnabled(c) PROVE Inv'
<1> DEFINE x == [call[c] EXCEPT !.pc = "enabled"]
           o == out[c]
<1>0. call[c] \in CallRecord /\ out[c] \in Seq(Delivery) /\ CallOK(call[c], out[c])
  BY OfCall
<1>1. call' = [call EXCEPT ![c] = x]
  BY <1>0 DEF CheckEnabled, CallGoes, CallRecord, Inv, TypeOK
<1>2. out' = [out EXCEPT ![c] = o] /\ OnlyCalls
  BY SameOut DEF CheckEnabled
<1>3. x \in CallRecord
  BY <1>0 DEF CallRecord, CheckEnabled
<1>4. o \in Seq(Delivery)
  BY <1>0
<1>5. CallOK(x, o)
  BY <1>0 DEF CheckEnabled, CallAt, CallOK, CallRecord
<1>6. x.pc \in {"bound", "enabled", "publishing", "walking"} =>
          call[c].pc \in {"bound", "enabled", "publishing", "walking"} /\ x.loaded = call[c].loaded
  BY <1>0 DEF CheckEnabled, CallAt, CallRecord
<1>7. WaitForCalls /\ x.pc \in {"bound", "enabled", "publishing", "walking"}
           => x.loaded \notin destroyed
  BY <1>6 DEF Inv, HeldAlive, Busy
<1> HIDE DEF x, o
<1> QED
  BY <1>1, <1>2, <1>3, <1>4, <1>5, <1>7, CallChange

LEMMA CheckDisabledStep == ASSUME Inv, NEW c \in Calls, CheckDisabled(c) PROVE Inv'
<1> DEFINE x == [call[c] EXCEPT !.pc = "disabled"]
           o == out[c]
<1>0. call[c] \in CallRecord /\ out[c] \in Seq(Delivery) /\ CallOK(call[c], out[c])
  BY OfCall
<1>1. call' = [call EXCEPT ![c] = x]
  BY <1>0 DEF CheckDisabled, CallGoes, CallRecord, Inv, TypeOK
<1>2. out' = [out EXCEPT ![c] = o] /\ OnlyCalls
  BY SameOut DEF CheckDisabled
<1>3. x \in CallRecord
  BY <1>0 DEF CallRecord, CheckDisabled
<1>4. o \in Seq(Delivery)
  BY <1>0
<1>5. CallOK(x, o)
  BY <1>0 DEF CheckDisabled, CallAt, CallOK, CallRecord
<1>6. x.pc \in {"bound", "enabled", "publishing", "walking"} =>
          call[c].pc \in {"bound", "enabled", "publishing", "walking"} /\ x.loaded = call[c].loaded
  BY <1>0 DEF CheckDisabled, CallAt, CallRecord
<1>7. WaitForCalls /\ x.pc \in {"bound", "enabled", "publishing", "walking"}
           => x.loaded \notin destroyed
  BY <1>6 DEF Inv, HeldAlive, Busy
<1> HIDE DEF x, o
<1> QED
  BY <1>1, <1>2, <1>3, <1>4, <1>5, <1>7, CallChange

LEMMA WriteUserStep == ASSUME Inv, NEW c \in Calls, WriteUser(c) PROVE Inv'
<1> DEFINE x == [call[c] EXCEPT !.pc = "done"]
           o == Append(out[c], [to |-> Object(c), record |-> Converted(call[c].record, Object(c))])
<1>0. call[c] \in CallRecord /\ out[c] \in Seq(Delivery) /\ CallOK(call[c], out[c])
  BY OfCall
<1>a. PICK e : e = [to |-> Object(c), record |-> Converted(call[c].record, Object(c))]
  OBVIOUS
<1>b. call[c].pc = "enabled" /\ out[c] = <<>> /\ call[c].snap = 0
  BY <1>0 DEF WriteUser, CallAt, CallOK
<1>c. e \in Delivery /\ Arrived(call[c].record, e)
  <2>1. call[c].record \in Made /\ call[c].loaded \in Writers /\ Object(c) = call[c].loaded
    BY <1>0, <1>b, HoldsLoaded DEF CallOK
  <2>2. Object(c) \notin Loggers
    BY DEF WriteUser
  <2> QED
    BY <1>a, <2>1, <2>2, ConvertedArrives, Zenon
<1>d. o = <<e>>
  BY <1>a, <1>b
<1>1. call' = [call EXCEPT ![c] = x]
  BY <1>0 DEF WriteUser, CallGoes, CallRecord, Inv, TypeOK
<1>2. out' = [out EXCEPT ![c] = o] /\ OnlyCalls
  BY SameOut DEF WriteUser
<1>3. x \in CallRecord
  BY <1>0 DEF CallRecord, WriteUser
<1>4. o \in Seq(Delivery)
  <2> HIDE DEF o
  <2> QED
    BY <1>c, <1>d
<1>5. CallOK(x, o)
  <2>1. /\ x.pc = "done" /\ x.snap = 0 /\ x.record = call[c].record /\ x.loaded = call[c].loaded
        /\ x.via = call[c].via /\ x.ptr = call[c].ptr
    BY <1>0, <1>b DEF CallRecord
  <2> HIDE DEF x, o
  <2>2. Len(o) = 1 /\ \A i \in DOMAIN o : o[i] = e
    BY <1>d
  <2> QED
    BY <1>0, <1>b, <1>c, <2>1, <2>2, Zenon DEF CallOK
<1>6. x.pc \in {"bound", "enabled", "publishing", "walking"} =>
          call[c].pc \in {"bound", "enabled", "publishing", "walking"} /\ x.loaded = call[c].loaded
  BY <1>0 DEF WriteUser, CallAt, CallRecord
<1>7. WaitForCalls /\ x.pc \in {"bound", "enabled", "publishing", "walking"}
           => x.loaded \notin destroyed
  BY <1>6 DEF Inv, HeldAlive, Busy
<1> HIDE DEF x, o
<1> QED
  BY <1>1, <1>2, <1>3, <1>4, <1>5, <1>7, CallChange

LEMMA WriteLoggerStep == ASSUME Inv, NEW c \in Calls, WriteLogger(c) PROVE Inv'
<1> DEFINE x == [call[c] EXCEPT !.pc = "publishing", !.loaded = Object(c)]
           o == out[c]
<1>0. call[c] \in CallRecord /\ out[c] \in Seq(Delivery) /\ CallOK(call[c], out[c])
  BY OfCall
<1>a. Object(c) = call[c].loaded /\ call[c].loaded \in Loggers /\ call[c].pc = "enabled"
  BY HoldsLoaded DEF WriteLogger, CallAt
<1>1. call' = [call EXCEPT ![c] = x]
  BY <1>0 DEF WriteLogger, CallGoes, CallRecord, Inv, TypeOK
<1>2. out' = [out EXCEPT ![c] = o] /\ OnlyCalls
  BY SameOut DEF WriteLogger
<1>3. x \in CallRecord
  BY <1>0, <1>a DEF CallRecord, Writers
<1>4. o \in Seq(Delivery)
  BY <1>0
<1>5. CallOK(x, o)
  BY <1>0, <1>a DEF CallOK, CallRecord
<1>6. x.pc \in {"bound", "enabled", "publishing", "walking"} =>
          call[c].pc \in {"bound", "enabled", "publishing", "walking"} /\ x.loaded = call[c].loaded
  BY <1>0, <1>a DEF CallRecord
<1>7. WaitForCalls /\ x.pc \in {"bound", "enabled", "publishing", "walking"}
           => x.loaded \notin destroyed
  BY <1>6 DEF Inv, HeldAlive, Busy
<1> HIDE DEF x, o
<1> QED
  BY <1>1, <1>2, <1>3, <1>4, <1>5, <1>7, CallChange

LEMMA LoadSnapshotStep == ASSUME Inv, NEW c \in Calls, LoadSnapshot(c) PROVE Inv'
<1> DEFINE x == [call[c] EXCEPT !.pc = "walking", !.snap = snapshot[call[c].loaded]]
           o == out[c]
<1>0. call[c] \in CallRecord /\ out[c] \in Seq(Delivery) /\ CallOK(call[c], out[c])
  BY OfCall
<1>a. PICK l \in Loggers, n \in Nat : l = call[c].loaded /\ n = snapshot[l]
  BY <1>0 DEF LoadSnapshot, CallAt, CallOK, Inv, TypeOK
<1>b. /\ call[c].pc = "publishing" /\ out[c] = <<>> /\ n \in DOMAIN snapshots[l] /\ n # 0
      /\ Len(snapshots[l][n]) \in Nat
  <2>1. call[c].pc = "publishing" /\ out[c] = <<>>
    BY <1>0 DEF LoadSnapshot, CallAt, CallOK
  <2>2. n \in DOMAIN snapshots[l] /\ snapshots[l] \in Seq(Seq(Sinks))
    BY <1>a DEF Inv, TypeOK
  <2>3. snapshots[l][n] \in Seq(Sinks) /\ n # 0
    BY <2>2
  <2> QED
    BY <2>1, <2>2, <2>3
<1>1. call' = [call EXCEPT ![c] = x]
  BY <1>0 DEF LoadSnapshot, CallGoes, CallRecord, Inv, TypeOK
<1>2. out' = [out EXCEPT ![c] = o] /\ OnlyCalls
  BY SameOut DEF LoadSnapshot
<1>3. x \in CallRecord
  BY <1>0, <1>a DEF CallRecord
<1>4. o \in Seq(Delivery)
  BY <1>0
<1>5. CallOK(x, o)
  <2>1. /\ x.pc = "walking" /\ x.snap = n /\ x.record = call[c].record /\ x.loaded = l
        /\ x.via = call[c].via /\ x.ptr = call[c].ptr
    BY <1>0, <1>a, <1>b DEF CallRecord
  <2> HIDE DEF x
  <2> QED
    BY <1>0, <1>a, <1>b, <2>1 DEF CallOK
<1>6. x.pc \in {"bound", "enabled", "publishing", "walking"} =>
          call[c].pc \in {"bound", "enabled", "publishing", "walking"} /\ x.loaded = call[c].loaded
  BY <1>0 DEF LoadSnapshot, CallAt, CallRecord
<1>7. WaitForCalls /\ x.pc \in {"bound", "enabled", "publishing", "walking"}
           => x.loaded \notin destroyed
  BY <1>6 DEF Inv, HeldAlive, Busy
<1> HIDE DEF x, o
<1> QED
  BY <1>1, <1>2, <1>3, <1>4, <1>5, <1>7, CallChange

LEMMA WriteSinkStep == ASSUME Inv, NEW c \in Calls, WriteSink(c) PROVE Inv'
<1> DEFINE x == call[c]
           o == Append(out[c], [to |-> Walked(c)[Len(out[c]) + 1],
                           record |-> Converted(call[c].record, call[c].loaded)])
<1>0. call[c] \in CallRecord /\ out[c] \in Seq(Delivery) /\ CallOK(call[c], out[c])
  BY OfCall
<1>a. PICK l \in Loggers, n \in Nat : l = call[c].loaded /\ n = call[c].snap
  BY <1>0 DEF WriteSink, CallAt, CallOK, CallRecord
<1>b. PICK list \in Seq(Sinks) : list = snapshots[l][n]
  <2>1. n \in DOMAIN snapshots[l]
    BY <1>0, <1>a DEF WriteSink, CallAt, CallOK
  <2>2. snapshots[l] \in Seq(Seq(Sinks))
    BY DEF Inv, TypeOK
  <2> QED
    BY <2>1, <2>2
<1>c. /\ call[c].pc = "walking" /\ n # 0 /\ Len(out[c]) < Len(list)
      /\ call[c].record \in Made
  BY <1>0, <1>a, <1>b DEF WriteSink, CallAt, CallOK, Walked
<1>d. PICK e : e = [to |-> list[Len(out[c]) + 1], record |-> Converted(call[c].record, l)]
  OBVIOUS
<1>e. list[Len(out[c]) + 1] \in Sinks
  BY <1>0, <1>c
<1>f. e \in Delivery /\ Arrived(call[c].record, e)
  BY <1>c, <1>d, <1>e, ConvertedArrives DEF Writers
<1>g. o = Append(out[c], e)
  BY <1>a, <1>b, <1>d, Zenon DEF Walked
<1>1. call' = [call EXCEPT ![c] = x]
  BY DEF WriteSink, Inv, TypeOK
<1>2. out' = [out EXCEPT ![c] = o] /\ OnlyCalls
  BY Zenon DEF WriteSink
<1>3. x \in CallRecord
  BY <1>0
<1>4. o \in Seq(Delivery)
  BY <1>0, <1>f, <1>g
<1>5. CallOK(x, o)
  <2>1. /\ Len(o) = Len(out[c]) + 1 /\ o[Len(o)] = e
        /\ \A i \in DOMAIN o : (i \in DOMAIN out[c] /\ o[i] = out[c][i]) \/ i = Len(o)
    BY <1>0, <1>f, <1>g
  <2>2. Len(o) <= Len(list) /\ o[Len(o)].to = list[Len(o)] /\ Arrived(call[c].record, o[Len(o)])
    BY <1>0, <1>c, <1>d, <1>f, <2>1
  <2>3. \A i \in DOMAIN o : o[i].to = list[i] /\ Arrived(call[c].record, o[i])
    <3> SUFFICES ASSUME NEW i \in DOMAIN o PROVE o[i].to = list[i] /\ Arrived(call[c].record, o[i])
      OBVIOUS
    <3>1. CASE i = Len(o)
      BY <2>2, <3>1, Zenon
    <3>2. CASE i \in DOMAIN out[c] /\ o[i] = out[c][i]
      BY <1>0, <1>a, <1>b, <1>c, <3>2, Zenon DEF CallOK
    <3> QED
      BY <2>1, <3>1, <3>2
  <2> HIDE DEF o
  <2> QED
    BY <1>0, <1>a, <1>b, <1>c, <2>2, <2>3, Zenon DEF CallOK
<1>6. x.pc \in {"bound", "enabled", "publishing", "walking"} =>
          call[c].pc \in {"bound", "enabled", "publishing", "walking"} /\ x.loaded = call[c].loaded
  BY <1>0 DEF WriteSink, CallAt, CallRecord
<1>7. WaitForCalls /\ x.pc \in {"bound", "enabled", "publishing", "walking"}
           => x.loaded \notin destroyed
  BY <1>6 DEF Inv, HeldAlive, Busy
<1> HIDE DEF x, o
<1> QED
  BY <1>1, <1>2, <1>3, <1>4, <1>5, <1>7, CallChange

LEMMA SinkThrowsStep == ASSUME Inv, NEW c \in Calls, SinkThrows(c) PROVE Inv'
<1> DEFINE x == [call[c] EXCEPT !.pc = "thrown"]
           o == out[c]
<1>0. call[c] \in CallRecord /\ out[c] \in Seq(Delivery) /\ CallOK(call[c], out[c])
  BY OfCall
<1>1. call' = [call EXCEPT ![c] = x]
  BY <1>0 DEF SinkThrows, CallGoes, CallRecord, Inv, TypeOK
<1>2. out' = [out EXCEPT ![c] = o] /\ OnlyCalls
  BY SameOut DEF SinkThrows
<1>3. x \in CallRecord
  BY <1>0 DEF CallRecord, SinkThrows
<1>4. o \in Seq(Delivery)
  BY <1>0
<1>5. CallOK(x, o)
  BY <1>0 DEF SinkThrows, CallAt, CallOK, CallRecord
<1>6. x.pc \in {"bound", "enabled", "publishing", "walking"} =>
          call[c].pc \in {"bound", "enabled", "publishing", "walking"} /\ x.loaded = call[c].loaded
  BY <1>0 DEF SinkThrows, CallAt, CallRecord
<1>7. WaitForCalls /\ x.pc \in {"bound", "enabled", "publishing", "walking"}
           => x.loaded \notin destroyed
  BY <1>6 DEF Inv, HeldAlive, Busy
<1> HIDE DEF x, o
<1> QED
  BY <1>1, <1>2, <1>3, <1>4, <1>5, <1>7, CallChange

LEMMA EndWalkStep == ASSUME Inv, NEW c \in Calls, EndWalk(c) PROVE Inv'
<1> DEFINE x == [call[c] EXCEPT !.pc = "done"]
           o == out[c]
<1>0. call[c] \in CallRecord /\ out[c] \in Seq(Delivery) /\ CallOK(call[c], out[c])
  BY OfCall
<1>1. call' = [call EXCEPT ![c] = x]
  BY <1>0 DEF EndWalk, CallGoes, CallRecord, Inv, TypeOK
<1>2. out' = [out EXCEPT ![c] = o] /\ OnlyCalls
  BY SameOut DEF EndWalk
<1>3. x \in CallRecord
  BY <1>0 DEF CallRecord, EndWalk
<1>4. o \in Seq(Delivery)
  BY <1>0
<1>5. CallOK(x, o)
  <2>1. /\ call[c].pc = "walking" /\ call[c].snap # 0
        /\ Len(out[c]) = Len(snapshots[call[c].loaded][call[c].snap])
    BY <1>0 DEF EndWalk, CallAt, CallOK, Walked
  <2>2. /\ x.pc = "done" /\ x.snap = call[c].snap /\ x.record = call[c].record
        /\ x.loaded = call[c].loaded /\ x.via = call[c].via /\ x.ptr = call[c].ptr
    BY <1>0 DEF CallRecord
  <2> HIDE DEF x
  <2> QED
    BY <1>0, <2>1, <2>2 DEF CallOK
<1>6. x.pc \in {"bound", "enabled", "publishing", "walking"} =>
          call[c].pc \in {"bound", "enabled", "publishing", "walking"} /\ x.loaded = call[c].loaded
  BY <1>0 DEF EndWalk, CallAt, CallRecord
<1>7. WaitForCalls /\ x.pc \in {"bound", "enabled", "publishing", "walking"}
           => x.loaded \notin destroyed
  BY <1>6 DEF Inv, HeldAlive, Busy
<1> HIDE DEF x, o
<1> QED
  BY <1>1, <1>2, <1>3, <1>4, <1>5, <1>7, CallChange

----------------------------------------------------------------------------
(* A step of a configuring call changes its own entry of config. *)

LEMMA OfConfig == ASSUME Inv, NEW k \in Configs PROVE config[k] \in ConfigRecord
BY DEF Inv, TypeOK

(* Snapshots are only ever added: the calls keep what they loaded. *)
LEMMA CallsKept ==
  ASSUME Inv, UNCHANGED <<call, out>>,
         \A l \in Loggers : \A i \in DOMAIN snapshots[l] :
            i \in DOMAIN snapshots'[l] /\ snapshots'[l][i] = snapshots[l][i],
         erased' \in Seq(Writers), Len(erased) <= Len(erased'),
         \A i \in 1 .. Len(erased) : erased'[i] = erased[i]
  PROVE  CallsOK' /\ call' \in [Calls -> CallRecord'] /\ out' \in [Calls -> Seq(Delivery)]
<1>0. erased \in Seq(Writers) /\ Len(erased) \in Nat /\ Len(erased') \in Nat
  BY DEF Inv, TypeOK
<1>1. CallRecord \subseteq CallRecord'
  <2>1. 0 .. Len(erased) \subseteq 0 .. Len(erased')
    BY <1>0
  <2> QED
    BY <2>1 DEF CallRecord
<1>2. \A ptr \in 0 .. Len(erased) : Pointee(ptr)' = Pointee(ptr)
  BY <1>0 DEF Pointee
<1>3. ASSUME NEW c \in Calls PROVE CallOK(call[c], out[c])'
  <2>1. PICK x \in CallRecord, o \in Seq(Delivery) : x = call[c] /\ o = out[c]
    BY OfCall
  <2>2. CallOK(x, o) /\ x.ptr \in 0 .. Len(erased)
    BY <2>1, OfCall, Zenon DEF CallRecord
  <2>3. Pointee(x.ptr)' = Pointee(x.ptr)
    BY <1>2, <2>2
  <2>4. x.snap # 0 => /\ x.snap \in DOMAIN snapshots'[x.loaded]
                      /\ snapshots'[x.loaded][x.snap] = snapshots[x.loaded][x.snap]
    BY <2>2 DEF CallOK
  <2>5. \A i \in DOMAIN o : Arrived(x.record, o[i])'
    BY <2>2 DEF CallOK, Arrived
  <2>6. CallOK(x, o)'
    BY <2>2, <2>3, <2>4, <2>5, Zenon DEF CallOK
  <2> QED
    BY <2>1, <2>6
<1> QED
  BY <1>1, <1>3 DEF Inv, TypeOK, CallsOK

(* Configuring a logger leaves the defaults and the writers alone. *)
LEMMA DefaultsKept ==
  ASSUME Inv, NEW k \in Configs, UNCHANGED <<defaultLogger, erased, writerPtr, raced>>,
         UNCHANGED <<call, destroyed>>,
         \A j \in Configs : j # k => config'[j] = config[j],
         config[k].pc \notin {"setWriter", "storeWriter"},
         config'[k].pc \notin {"setWriter", "storeWriter"}
  PROVE  Pending' /\ Agree' /\ DefaultAlive' /\ HeldAlive'
<1>1. InDefaults' = InDefaults
  BY DEF InDefaults
<1>2. \A j \in InDefaults : config'[j] = config[j] /\ j # k
  BY DEF InDefaults
<1>3. Pointee(writerPtr)' = Pointee(writerPtr)
  BY DEF Pointee
<1>4. Pending'
  BY DEF Inv, Pending
<1>5. DefaultsAgree' <=> DefaultsAgree
  BY <1>1, <1>3, Zenon DEF DefaultsAgree
<1>6. Agree'
  BY <1>1, <1>2, <1>5 DEF Inv, Agree
<1>7. DefaultAlive' /\ HeldAlive'
  BY <1>3 DEF Inv, DefaultAlive, HeldAlive, Busy
<1> QED
  BY <1>4, <1>6, <1>7

LEMMA SetLevelStep ==
  ASSUME Inv, NEW k \in Configs, NEW l \in Loggers, NEW threshold \in Thresholds,
         SetLevel(k, l, threshold)
  PROVE  Inv'
<1> DEFINE x == [pc |-> "done", logger |-> None, sink |-> None, writer |-> None, at |-> 0]
<1>1. /\ \A j \in Configs : config'[j] = IF j = k THEN x ELSE config[j]
      /\ config' \in [Configs -> ConfigRecord]
  <2>1. x \in ConfigRecord /\ config \in [Configs -> ConfigRecord]
    BY DEF ConfigRecord, Inv, TypeOK
  <2> HIDE DEF x
  <2>2. config' = [config EXCEPT ![k] = x]
    BY Zenon DEF SetLevel, Configuring, x
  <2> QED
    BY <2>1, <2>2
<1>2. /\ config[k].pc = "idle" /\ config'[k].pc = "done"
      /\ UNCHANGED <<snapshots, snapshot, mutex, defaultLogger, erased, writerPtr, raced, call,
                     out, destroyed>>
  BY <1>1 DEF SetLevel, ConfigAt, defaultVars
<1> HIDE DEF x
<1>3. Pending' /\ Agree' /\ DefaultAlive' /\ HeldAlive'
  BY <1>1, <1>2, DefaultsKept
<1>4. CallsOK' /\ call' \in [Calls -> CallRecord'] /\ out' \in [Calls -> Seq(Delivery)]
  <2>1. erased \in Seq(Writers) /\ Len(erased) \in Nat
    BY DEF Inv, TypeOK
  <2> QED
    BY <1>2, <2>1, CallsKept
<1>5. Locks'
  BY <1>1, <1>2 DEF Inv, Locks, NextSinks
<1>6. level' \in [Loggers -> Levels \cup {kOff}]
  BY LoggerAssumption DEF Inv, TypeOK, SetLevel
<1>7. TypeOK'
  BY <1>1, <1>2, <1>4, <1>6 DEF Inv, TypeOK
<1> QED
  BY <1>3, <1>4, <1>5, <1>7 DEF Inv

LEMMA LockSinksStep ==
  ASSUME Inv, NEW k \in Configs, NEW l \in Loggers, NEW sink \in Sinks \cup {None},
         LockSinks(k, l, sink)
  PROVE  Inv'
<1> DEFINE x == [pc |-> "locked", logger |-> l, sink |-> sink, writer |-> None, at |-> 0]
<1>1. /\ \A j \in Configs : config'[j] = IF j = k THEN x ELSE config[j]
      /\ config' \in [Configs -> ConfigRecord]
  <2>1. x \in ConfigRecord /\ config \in [Configs -> ConfigRecord]
    BY DEF ConfigRecord, Inv, TypeOK
  <2> HIDE DEF x
  <2>2. config' = [config EXCEPT ![k] = x]
    BY Zenon DEF LockSinks, Configuring, x
  <2> QED
    BY <2>1, <2>2
<1>2. /\ config[k].pc = "idle" /\ config'[k].pc = "locked" /\ config'[k].logger = l
      /\ mutex[l] = None /\ mutex' = [mutex EXCEPT ![l] = k]
      /\ UNCHANGED <<level, snapshots, snapshot, defaultLogger, erased, writerPtr, raced, call,
                     out, destroyed>>
  BY <1>1 DEF LockSinks, ConfigAt, defaultVars
<1> HIDE DEF x
<1>3. Pending' /\ Agree' /\ DefaultAlive' /\ HeldAlive'
  BY <1>1, <1>2, DefaultsKept
<1>4. CallsOK' /\ call' \in [Calls -> CallRecord'] /\ out' \in [Calls -> Seq(Delivery)]
  <2>1. erased \in Seq(Writers) /\ Len(erased) \in Nat
    BY DEF Inv, TypeOK
  <2> QED
    BY <1>2, <2>1, CallsKept
<1>5. /\ mutex' \in [Loggers -> Configs \cup {None}]
      /\ \A m \in Loggers : mutex'[m] = IF m = l THEN k ELSE mutex[m]
  BY <1>2 DEF Inv, TypeOK
<1>6. Locks'
  <2>1. None \notin Configs
    BY LoggerAssumption
  <2> SUFFICES ASSUME NEW j \in Configs
               PROVE  /\ config'[j].pc \in {"locked", "pushed"} =>
                            config'[j].logger \in Loggers /\ mutex'[config'[j].logger] = j
                      /\ config'[j].pc = "pushed" =>
                            /\ config'[j].at \in DOMAIN snapshots'[config'[j].logger]
                            /\ snapshots'[config'[j].logger][config'[j].at] = NextSinks(j)'
    BY DEF Locks
  <2>2. CASE j = k
    BY <1>2, <1>5, <2>2
  <2>3. CASE j # k
    BY <1>1, <1>2, <1>5, <2>1, <2>3 DEF Inv, Locks, NextSinks
  <2> QED
    BY <2>2, <2>3
<1>7. TypeOK'
  BY <1>1, <1>2, <1>4, <1>5 DEF Inv, TypeOK
<1> QED
  BY <1>3, <1>4, <1>6, <1>7 DEF Inv

LEMMA PushSnapshotStep == ASSUME Inv, NEW k \in Configs, PushSnapshot(k) PROVE Inv'
<1>0. config[k] \in ConfigRecord
  BY OfConfig
<1>a. PICK l \in Loggers : l = config[k].logger
  BY DEF PushSnapshot, ConfigAt, Inv, Locks
<1>b. mutex[l] = k /\ config[k].pc = "locked"
  BY <1>a DEF PushSnapshot, ConfigAt, Inv, Locks
<1>c. PICK old \in Seq(Seq(Sinks)) : old = snapshots[l]
  BY DEF Inv, TypeOK
<1>d. snapshot[l] \in DOMAIN old
  BY <1>c DEF Inv, TypeOK
<1>e. PICK list \in Seq(Sinks) : list = NextSinks(k)
  <2>1. old[snapshot[l]] \in Seq(Sinks)
    BY <1>d
  <2>2. config[k].sink # None => config[k].sink \in Sinks
    BY <1>0 DEF ConfigRecord
  <2>3. NextSinks(k) = IF config[k].sink = None THEN <<>>
                       ELSE Append(old[snapshot[l]], config[k].sink)
    BY <1>a, <1>c, Zenon DEF NextSinks
  <2>4. config[k].sink # None => Append(old[snapshot[l]], config[k].sink) \in Seq(Sinks)
    BY <2>1, <2>2
  <2>5. <<>> \in Seq(Sinks)
    OBVIOUS
  <2> QED
    BY <2>3, <2>4, <2>5, Zenon
<1> DEFINE x == [config[k] EXCEPT !.pc = "pushed", !.at = Len(old) + 1]
<1>1. /\ \A j \in Configs : config'[j] = IF j = k THEN x ELSE config[j]
      /\ config' \in [Configs -> ConfigRecord]
  <2>0. Len(old) + 1 \in Nat
    OBVIOUS
  <2>1. x \in ConfigRecord
    BY <1>0, <2>0 DEF ConfigRecord
  <2>2. config \in [Configs -> ConfigRecord]
    BY DEF Inv, TypeOK
  <2>3. config' = [config EXCEPT ![k] = x]
    BY <1>a, <1>c, Zenon DEF PushSnapshot
  <2> HIDE DEF x
  <2> QED
    BY <2>1, <2>2, <2>3
<1>2. /\ config'[k].pc = "pushed" /\ config'[k].logger = l /\ config'[k].at = Len(old) + 1
      /\ config'[k].sink = config[k].sink
  BY <1>0, <1>1, <1>a DEF ConfigRecord
<1> HIDE DEF x
<1>3. /\ snapshots' = [snapshots EXCEPT ![l] = Append(old, list)]
      /\ UNCHANGED <<level, snapshot, mutex, defaultLogger, erased, writerPtr, raced, call,
                     out, destroyed>>
  BY <1>a, <1>c, <1>e, Zenon DEF PushSnapshot, defaultVars
<1>4. /\ \A m \in Loggers : snapshots'[m] = IF m = l THEN Append(old, list) ELSE snapshots[m]
      /\ Append(old, list) \in Seq(Seq(Sinks))
      /\ snapshots' \in [Loggers -> Seq(Seq(Sinks))]
  BY <1>3 DEF Inv, TypeOK
<1>5. \A m \in Loggers : \A i \in DOMAIN snapshots[m] :
         i \in DOMAIN snapshots'[m] /\ snapshots'[m][i] = snapshots[m][i]
  <2>1. \A i \in DOMAIN old : i \in DOMAIN Append(old, list) /\ Append(old, list)[i] = old[i]
    OBVIOUS
  <2> QED
    BY <1>4, <1>c, <2>1, Zenon
<1>6. Pending' /\ Agree' /\ DefaultAlive' /\ HeldAlive'
  BY <1>1, <1>2, <1>3, <1>b, DefaultsKept
<1>7. CallsOK' /\ call' \in [Calls -> CallRecord'] /\ out' \in [Calls -> Seq(Delivery)]
  <2>1. erased \in Seq(Writers) /\ Len(erased) \in Nat
    BY DEF Inv, TypeOK
  <2> QED
    BY <1>3, <1>5, <2>1, CallsKept
<1>8. NextSinks(k)' = list
  <2>1. snapshots'[l][snapshot[l]] = old[snapshot[l]]
    BY <1>5, <1>c, <1>d
  <2>2. snapshot' = snapshot
    BY <1>3
  <2> QED
    BY <1>2, <1>a, <1>c, <1>e, <2>1, <2>2, Zenon DEF NextSinks
<1>9. Locks'
  <2> SUFFICES ASSUME NEW j \in Configs
               PROVE  /\ config'[j].pc \in {"locked", "pushed"} =>
                            config'[j].logger \in Loggers /\ mutex'[config'[j].logger] = j
                      /\ config'[j].pc = "pushed" =>
                            /\ config'[j].at \in DOMAIN snapshots'[config'[j].logger]
                            /\ snapshots'[config'[j].logger][config'[j].at] = NextSinks(j)'
    BY DEF Locks
  <2>1. CASE j = k
    <3>1. config'[j].at \in DOMAIN Append(old, list) /\ Append(old, list)[config'[j].at] = list
      BY <1>2, <2>1
    <3> QED
      BY <1>2, <1>3, <1>4, <1>8, <1>b, <2>1, <3>1
  <2>2. CASE j # k
    <3>1. config'[j] = config[j] /\ (config[j].pc \in {"locked", "pushed"} =>
             config[j].logger # l /\ config[j].logger \in Loggers)
      BY <1>1, <1>b, <2>2 DEF Inv, Locks
    <3> QED
      BY <1>3, <1>4, <2>2, <3>1, Zenon DEF Inv, Locks, NextSinks
  <2> QED
    BY <2>1, <2>2
<1>10. TypeOK'
  <2>1. \A m \in Loggers : snapshot'[m] \in DOMAIN snapshots'[m]
    BY <1>3, <1>5 DEF Inv, TypeOK
  <2> QED
    BY <1>1, <1>3, <1>4, <1>7, <2>1 DEF Inv, TypeOK
<1> QED
  BY <1>6, <1>7, <1>9, <1>10 DEF Inv

LEMMA StoreSnapshotStep == ASSUME Inv, NEW k \in Configs, StoreSnapshot(k) PROVE Inv'
<1>0. config[k] \in ConfigRecord
  BY OfConfig
<1>a. PICK l \in Loggers : l = config[k].logger
  BY DEF StoreSnapshot, ConfigAt, Inv, Locks
<1>b. mutex[l] = k /\ config[k].pc = "pushed" /\ config[k].at \in DOMAIN snapshots[l]
  BY <1>a DEF StoreSnapshot, ConfigAt, Inv, Locks
<1> DEFINE x == [config[k] EXCEPT !.pc = "done"]
<1>1. /\ \A j \in Configs : config'[j] = IF j = k THEN x ELSE config[j]
      /\ config' \in [Configs -> ConfigRecord]
  <2>1. x \in ConfigRecord /\ config \in [Configs -> ConfigRecord]
    BY <1>0 DEF ConfigRecord, Inv, TypeOK
  <2>2. config' = [config EXCEPT ![k] = x]
    BY <1>0 DEF StoreSnapshot, ConfigRecord, Inv, TypeOK
  <2> HIDE DEF x
  <2> QED
    BY <2>1, <2>2
<1>2. config'[k].pc = "done"
  BY <1>0, <1>1 DEF ConfigRecord
<1> HIDE DEF x
<1>3. /\ snapshot' = [snapshot EXCEPT ![l] = config[k].at]
      /\ mutex' = [mutex EXCEPT ![l] = None]
      /\ UNCHANGED <<level, snapshots, defaultLogger, erased, writerPtr, raced, call,
                     out, destroyed>>
  BY <1>a, Zenon DEF StoreSnapshot, defaultVars
<1>4. /\ mutex' \in [Loggers -> Configs \cup {None}] /\ snapshot' \in [Loggers -> Nat]
      /\ \A m \in Loggers : mutex'[m] = IF m = l THEN None ELSE mutex[m]
      /\ \A m \in Loggers : snapshot'[m] = IF m = l THEN config[k].at ELSE snapshot[m]
  BY <1>0, <1>3 DEF Inv, TypeOK, ConfigRecord
<1>5. Pending' /\ Agree' /\ DefaultAlive' /\ HeldAlive'
  BY <1>1, <1>2, <1>3, <1>b, DefaultsKept
<1>6. CallsOK' /\ call' \in [Calls -> CallRecord'] /\ out' \in [Calls -> Seq(Delivery)]
  <2>1. erased \in Seq(Writers) /\ Len(erased) \in Nat
    BY DEF Inv, TypeOK
  <2> QED
    BY <1>3, <2>1, CallsKept
<1>7. Locks'
  <2>1. \A j \in Configs : config'[j].pc \in {"locked", "pushed"} =>
           /\ j # k /\ config'[j] = config[j] /\ config[j].logger # l
           /\ config[j].logger \in Loggers
    BY <1>1, <1>2, <1>b DEF Inv, Locks
  <2> QED
    BY <1>3, <1>4, <2>1 DEF Inv, Locks, NextSinks
<1>8. TypeOK'
  <2>1. \A m \in Loggers : snapshot'[m] \in DOMAIN snapshots'[m]
    BY <1>3, <1>4, <1>b DEF Inv, TypeOK
  <2> QED
    BY <1>1, <1>3, <1>4, <1>6, <2>1 DEF Inv, TypeOK
<1> QED
  BY <1>5, <1>6, <1>7, <1>8 DEF Inv

(* Setting the defaults leaves the lists of sinks alone. *)
LEMMA SinksKept ==
  ASSUME Inv, NEW k \in Configs, UNCHANGED <<snapshots, snapshot, mutex>>,
         \A j \in Configs : j # k => config'[j] = config[j],
         config'[k].pc \notin {"locked", "pushed"}
  PROVE  Locks'
BY DEF Inv, Locks, NextSinks

(* The steps that leave erased as it is. *)
LEMMA ErasedKept ==
  ASSUME Inv, UNCHANGED <<call, out, snapshots, erased>>
  PROVE  CallsOK' /\ call' \in [Calls -> CallRecord'] /\ out' \in [Calls -> Seq(Delivery)]
<1>1. erased \in Seq(Writers) /\ Len(erased) \in Nat
  BY DEF Inv, TypeOK
<1> QED
  BY <1>1, CallsKept

LEMMA SetDefaultLoggerStep ==
  ASSUME Inv, NEW k \in Configs, NEW logger \in Loggers \cup {None}, SetDefaultLogger(k, logger)
  PROVE  Inv'
<1> DEFINE x == [pc |-> "setWriter", logger |-> None, sink |-> None, writer |-> logger, at |-> 0]
<1>1. /\ \A j \in Configs : config'[j] = IF j = k THEN x ELSE config[j]
      /\ config' \in [Configs -> ConfigRecord]
  <2>1. x \in ConfigRecord /\ config \in [Configs -> ConfigRecord]
    BY DEF ConfigRecord, Inv, TypeOK, Writers
  <2> HIDE DEF x
  <2>2. config' = [config EXCEPT ![k] = x]
    BY Zenon DEF SetDefaultLogger, Configuring, x
  <2> QED
    BY <2>1, <2>2
<1>2. /\ config[k].pc = "idle" /\ config'[k].pc = "setWriter" /\ config'[k].logger = None
      /\ config'[k].sink = None /\ config'[k].writer = logger
      /\ UNCHANGED <<level, snapshots, snapshot, mutex, erased, writerPtr, call, out, destroyed>>
  BY <1>1 DEF SetDefaultLogger, ConfigAt, sinkVars
<1> HIDE DEF x
<1>3. Locks'
  BY <1>1, <1>2, SinksKept
<1>4. CallsOK' /\ call' \in [Calls -> CallRecord'] /\ out' \in [Calls -> Seq(Delivery)]
  BY <1>2, ErasedKept
<1>5. Pending'
  <2>1. logger \notin destroyed
    BY LoggerAssumption DEF SetDefaultLogger, Live, Inv, TypeOK
  <2> QED
    BY <1>1, <1>2, <2>1 DEF Inv, Pending
<1>6. DefaultAlive' /\ HeldAlive'
  BY <1>2 DEF Inv, DefaultAlive, HeldAlive, Busy, Pointee
<1>7. Agree'
  <2>1. defaultLogger' = logger /\ raced' = (InDefaults # {})
    BY DEF SetDefaultLogger
  <2>2. InDefaults = {} => InDefaults' = {k}
    BY <1>1, <1>2 DEF InDefaults
  <2> QED
    BY <1>2, <2>1, <2>2, Zenon DEF Agree
<1>8. TypeOK'
  <2>1. defaultLogger' \in Loggers \cup {None} /\ raced' \in BOOLEAN
    BY Zenon DEF SetDefaultLogger
  <2> QED
    BY <1>1, <1>2, <1>4, <2>1 DEF Inv, TypeOK
<1> QED
  BY <1>3, <1>4, <1>5, <1>6, <1>7, <1>8 DEF Inv

LEMMA SetDefaultLogWriterStep ==
  ASSUME Inv, NEW k \in Configs, NEW writer \in Writers \cup {None}, SetDefaultLogWriter(k, writer)
  PROVE  Inv'
<1> DEFINE x == [pc |-> "setWriter", logger |-> None, sink |-> None, writer |-> writer, at |-> 0]
<1>1. /\ \A j \in Configs : config'[j] = IF j = k THEN x ELSE config[j]
      /\ config' \in [Configs -> ConfigRecord]
  <2>1. x \in ConfigRecord /\ config \in [Configs -> ConfigRecord]
    BY DEF ConfigRecord, Inv, TypeOK, Writers
  <2> HIDE DEF x
  <2>2. config' = [config EXCEPT ![k] = x]
    BY Zenon DEF SetDefaultLogWriter, Configuring, x
  <2> QED
    BY <2>1, <2>2
<1>2. /\ config[k].pc = "idle" /\ config'[k].pc = "setWriter" /\ config'[k].logger = None
      /\ config'[k].sink = None /\ config'[k].writer = writer
      /\ UNCHANGED <<level, snapshots, snapshot, mutex, erased, writerPtr, call, out, destroyed>>
  BY <1>1 DEF SetDefaultLogWriter, ConfigAt, sinkVars
<1> HIDE DEF x
<1>3. Locks'
  BY <1>1, <1>2, SinksKept
<1>4. CallsOK' /\ call' \in [Calls -> CallRecord'] /\ out' \in [Calls -> Seq(Delivery)]
  BY <1>2, ErasedKept
<1>5. Pending'
  <2>1. writer \notin destroyed
    BY LoggerAssumption DEF SetDefaultLogWriter, Live, Inv, TypeOK
  <2> QED
    BY <1>1, <1>2, <2>1 DEF Inv, Pending
<1>6. DefaultAlive' /\ HeldAlive'
  BY <1>2 DEF Inv, DefaultAlive, HeldAlive, Busy, Pointee
<1>7. Agree'
  <2>1. raced' = TRUE
    BY DEF SetDefaultLogWriter
  <2> QED
    BY <2>1, Zenon DEF Agree
<1>8. TypeOK'
  <2>1. defaultLogger' = defaultLogger /\ raced' \in BOOLEAN
    BY Zenon DEF SetDefaultLogWriter
  <2> QED
    BY <1>1, <1>2, <1>4, <2>1 DEF Inv, TypeOK
<1> QED
  BY <1>3, <1>4, <1>5, <1>6, <1>7, <1>8 DEF Inv

LEMMA ClearWriterRefStep == ASSUME Inv, NEW k \in Configs, ClearWriterRef(k) PROVE Inv'
<1>0. config[k] \in ConfigRecord /\ erased \in Seq(Writers) /\ Len(erased) \in Nat
  BY OfConfig DEF Inv, TypeOK
<1> DEFINE x == [config[k] EXCEPT !.pc = "done"]
<1>1. /\ \A j \in Configs : config'[j] = IF j = k THEN x ELSE config[j]
      /\ config' \in [Configs -> ConfigRecord]
  <2>0. Len(erased) + 1 \in Nat
    BY <1>0
  <2>1. x \in ConfigRecord
    BY <1>0, <2>0 DEF ConfigRecord
  <2>2. config \in [Configs -> ConfigRecord]
    BY DEF Inv, TypeOK
  <2>3. config' = [config EXCEPT ![k] = x]
    BY Zenon DEF ClearWriterRef
  <2> HIDE DEF x
  <2> QED
    BY <2>1, <2>2, <2>3
<1>2. config'[k].pc = "done" /\ config[k].pc = "setWriter" /\ config[k].writer = None
  BY <1>0, <1>1 DEF ConfigRecord, ClearWriterRef, ConfigAt
<1> HIDE DEF x
<1>3. /\ UNCHANGED <<level, snapshots, snapshot, mutex, defaultLogger, erased, raced, call, out,
                     destroyed>>
      /\ writerPtr' = 0
  BY DEF ClearWriterRef, sinkVars
<1>4. Locks'
  BY <1>1, <1>2, <1>3, SinksKept
<1>5. CallsOK' /\ call' \in [Calls -> CallRecord'] /\ out' \in [Calls -> Seq(Delivery)]
  BY <1>3, ErasedKept
<1>6. Pending'
  BY <1>1, <1>2, <1>3 DEF Inv, Pending
<1>7. /\ Pointee(writerPtr)' = BuiltIn /\ BuiltIn \notin destroyed
      /\ writerPtr' \in 0 .. Len(erased)
  BY <1>0, <1>3 DEF Pointee, Inv, TypeOK
<1>8. DefaultAlive' /\ HeldAlive'
  BY <1>3, <1>7 DEF Inv, DefaultAlive, HeldAlive, Busy, TypeOK
<1>9. Agree'
  <2> SUFFICES ASSUME ~raced PROVE InDefaults' = {} /\ DefaultsAgree'
    BY <1>3 DEF Agree
  <2>1. k \in InDefaults
    BY <1>2 DEF InDefaults
  <2>2. InDefaults = {k} /\ config[k].writer = defaultLogger
    BY <2>1 DEF Inv, Agree
  <2>3. InDefaults' = {}
    BY <1>1, <1>2, <2>2 DEF InDefaults
  <2>4. Pointee(writerPtr)' = IF defaultLogger = None THEN BuiltIn ELSE defaultLogger
    BY <1>2, <1>7, <2>2, LoggerAssumption
  <2> QED
    BY <1>3, <2>3, <2>4 DEF DefaultsAgree
<1>10. TypeOK'
  BY <1>1, <1>3, <1>5, <1>7 DEF Inv, TypeOK
<1> QED
  BY <1>4, <1>5, <1>6, <1>8, <1>9, <1>10 DEF Inv

LEMMA StoreWriterRefStep == ASSUME Inv, NEW k \in Configs, StoreWriterRef(k) PROVE Inv'
<1>0. config[k] \in ConfigRecord /\ erased \in Seq(Writers) /\ Len(erased) \in Nat
  BY OfConfig DEF Inv, TypeOK
<1> DEFINE x == [config[k] EXCEPT !.pc = "done"]
<1>1. /\ \A j \in Configs : config'[j] = IF j = k THEN x ELSE config[j]
      /\ config' \in [Configs -> ConfigRecord]
  <2>0. Len(erased) + 1 \in Nat
    BY <1>0
  <2>1. x \in ConfigRecord
    BY <1>0, <2>0 DEF ConfigRecord
  <2>2. config \in [Configs -> ConfigRecord]
    BY DEF Inv, TypeOK
  <2>3. config' = [config EXCEPT ![k] = x]
    BY Zenon DEF StoreWriterRef
  <2> HIDE DEF x
  <2> QED
    BY <2>1, <2>2, <2>3
<1>2. config'[k].pc = "done" /\ config[k].pc = "storeWriter"
  BY <1>0, <1>1 DEF ConfigRecord, StoreWriterRef, ConfigAt
<1> HIDE DEF x
<1>3. /\ UNCHANGED <<level, snapshots, snapshot, mutex, defaultLogger, erased, raced, call, out,
                     destroyed>>
      /\ writerPtr' = config[k].at
  BY DEF StoreWriterRef, sinkVars
<1>4. Locks'
  BY <1>1, <1>2, <1>3, SinksKept
<1>5. CallsOK' /\ call' \in [Calls -> CallRecord'] /\ out' \in [Calls -> Seq(Delivery)]
  BY <1>3, ErasedKept
<1>6. Pending'
  BY <1>1, <1>2, <1>3 DEF Inv, Pending
<1>7. /\ Pointee(writerPtr)' = config[k].writer /\ config[k].writer \notin destroyed
      /\ config[k].writer \in Writers /\ writerPtr' \in 0 .. Len(erased)
  <2>1. /\ config[k].at \in DOMAIN erased /\ erased[config[k].at] = config[k].writer
        /\ config[k].writer \notin destroyed
    BY <1>2 DEF Inv, Pending
  <2> QED
    BY <1>0, <1>3, <2>1 DEF Pointee
<1>8. DefaultAlive' /\ HeldAlive'
  BY <1>3, <1>7 DEF Inv, DefaultAlive, HeldAlive, Busy, TypeOK
<1>9. Agree'
  <2> SUFFICES ASSUME ~raced PROVE InDefaults' = {} /\ DefaultsAgree'
    BY <1>3 DEF Agree
  <2>1. k \in InDefaults
    BY <1>2 DEF InDefaults
  <2>2. InDefaults = {k} /\ config[k].writer = defaultLogger
    BY <2>1 DEF Inv, Agree
  <2>3. InDefaults' = {}
    BY <1>1, <1>2, <2>2 DEF InDefaults
  <2>4. Pointee(writerPtr)' = IF defaultLogger = None THEN BuiltIn ELSE defaultLogger
    BY <1>2, <1>7, <2>2, LoggerAssumption
  <2> QED
    BY <1>3, <2>3, <2>4 DEF DefaultsAgree
<1>10. TypeOK'
  BY <1>1, <1>3, <1>5, <1>7 DEF Inv, TypeOK
<1> QED
  BY <1>4, <1>5, <1>6, <1>8, <1>9, <1>10 DEF Inv

LEMMA KeepWriterRefStep == ASSUME Inv, NEW k \in Configs, KeepWriterRef(k) PROVE Inv'
<1>0. config[k] \in ConfigRecord /\ erased \in Seq(Writers) /\ Len(erased) \in Nat
  BY OfConfig DEF Inv, TypeOK
<1> DEFINE x == [config[k] EXCEPT !.pc = "storeWriter", !.at = Len(erased) + 1]
<1>1. /\ \A j \in Configs : config'[j] = IF j = k THEN x ELSE config[j]
      /\ config' \in [Configs -> ConfigRecord]
  <2>0. Len(erased) + 1 \in Nat
    BY <1>0
  <2>1. x \in ConfigRecord
    BY <1>0, <2>0 DEF ConfigRecord
  <2>2. config \in [Configs -> ConfigRecord]
    BY DEF Inv, TypeOK
  <2>3. config' = [config EXCEPT ![k] = x]
    BY Zenon DEF KeepWriterRef
  <2> HIDE DEF x
  <2> QED
    BY <2>1, <2>2, <2>3
<1>2. /\ config[k].pc = "setWriter" /\ config[k].writer # None /\ config[k].writer \in Writers
      /\ config'[k].pc = "storeWriter" /\ config'[k].at = Len(erased) + 1
      /\ config'[k].writer = config[k].writer
      /\ config'[k].logger = config[k].logger /\ config'[k].sink = config[k].sink
  BY <1>0, <1>1 DEF ConfigRecord, KeepWriterRef, ConfigAt
<1> HIDE DEF x
<1>3. /\ UNCHANGED <<level, snapshots, snapshot, mutex, defaultLogger, writerPtr, raced, call,
                     out, destroyed>>
      /\ erased' = Append(erased, config[k].writer)
  BY DEF KeepWriterRef, sinkVars
<1>4. /\ erased' \in Seq(Writers) /\ Len(erased') = Len(erased) + 1
      /\ erased'[Len(erased) + 1] = config[k].writer
      /\ \A i \in 1 .. Len(erased) : erased'[i] = erased[i]
      /\ Len(erased) + 1 \in DOMAIN erased'
      /\ \A i \in DOMAIN erased : i \in DOMAIN erased' /\ i \in 1 .. Len(erased)
  BY <1>0, <1>2, <1>3
<1>5. Locks'
  BY <1>1, <1>2, <1>3, SinksKept
<1>6. CallsOK' /\ call' \in [Calls -> CallRecord'] /\ out' \in [Calls -> Seq(Delivery)]
  <2>1. Len(erased) <= Len(erased')
    BY <1>0, <1>4
  <2> QED
    BY <1>3, <1>4, <2>1, CallsKept
<1>7. Pending'
  <2> SUFFICES ASSUME NEW j \in Configs
               PROVE  /\ config'[j].pc \in {"setWriter", "storeWriter"} =>
                            /\ config'[j].logger = None /\ config'[j].sink = None
                            /\ config'[j].writer \notin destroyed'
                      /\ config'[j].pc = "storeWriter" =>
                            /\ config'[j].at \in DOMAIN erased'
                            /\ erased'[config'[j].at] = config'[j].writer
    BY DEF Pending
  <2>1. CASE j = k
    BY <1>2, <1>3, <1>4, <2>1 DEF Inv, Pending
  <2>2. CASE j # k
    <3>1. config'[j] = config[j] /\ destroyed' = destroyed
      BY <1>1, <1>3, <2>2
    <3> QED
      BY <1>4, <3>1, Zenon DEF Inv, Pending
  <2> QED
    BY <2>1, <2>2
<1>8. Pointee(writerPtr)' = Pointee(writerPtr)
  BY <1>0, <1>3, <1>4 DEF Pointee, Inv, TypeOK
<1>9. DefaultAlive' /\ HeldAlive'
  BY <1>3, <1>8 DEF Inv, DefaultAlive, HeldAlive, Busy
<1>10. Agree'
  <2>1. InDefaults' = InDefaults
    BY <1>1, <1>2 DEF InDefaults
  <2>2. \A j \in Configs : config'[j].writer = config[j].writer
    BY <1>1, <1>2
  <2>3. DefaultsAgree' <=> DefaultsAgree
    BY <1>3, <1>8, <2>1 DEF DefaultsAgree
  <2>4. raced' = raced /\ defaultLogger' = defaultLogger
    BY <1>3
  <2> QED
    BY <2>1, <2>2, <2>3, <2>4, Zenon DEF Inv, Agree
<1>11. TypeOK'
  <2>1. writerPtr' \in 0 .. Len(erased')
    BY <1>0, <1>3, <1>4 DEF Inv, TypeOK
  <2> QED
    BY <1>1, <1>3, <1>4, <1>6, <2>1 DEF Inv, TypeOK
<1> QED
  BY <1>5, <1>6, <1>7, <1>9, <1>10, <1>11 DEF Inv

LEMMA DestroyWriterStep == ASSUME Inv, NEW w \in Writers, DestroyWriter(w) PROVE Inv'
<1>1. /\ UNCHANGED <<level, snapshots, snapshot, mutex, config, defaultLogger, erased, writerPtr,
                     raced, call, out>>
      /\ destroyed' = destroyed \cup {w} /\ w # BuiltIn /\ Pointee(writerPtr) # w
  BY DEF DestroyWriter, sinkVars, defaultVars
<1>2. CallsOK' /\ call' \in [Calls -> CallRecord'] /\ out' \in [Calls -> Seq(Delivery)]
  BY <1>1, ErasedKept
<1>3. Locks'
  BY <1>1 DEF Inv, Locks, NextSinks
<1>4. Pending'
  <2>1. \A k \in Configs : config[k].pc \in {"setWriter", "storeWriter"} => config[k].writer # w
    BY DEF DestroyWriter, ConfigAt
  <2> QED
    BY <1>1, <2>1 DEF Inv, Pending
<1>5. Agree' /\ DefaultAlive'
  BY <1>1 DEF Inv, Agree, InDefaults, DefaultsAgree, DefaultAlive, Pointee
<1>6. HeldAlive'
  <2> SUFFICES ASSUME WaitForCalls, NEW c \in Calls, Busy(c) PROVE call[c].loaded \notin destroyed'
    BY <1>1 DEF HeldAlive, Busy
  <2>1. Object(c) = call[c].loaded
    BY HoldsLoaded DEF Busy
  <2>2. Object(c) # w
    BY DEF DestroyWriter
  <2> QED
    BY <1>1, <2>1, <2>2 DEF Inv, HeldAlive
<1>7. TypeOK'
  BY <1>1, <1>2 DEF Inv, TypeOK
<1> QED
  BY <1>2, <1>3, <1>4, <1>5, <1>6, <1>7 DEF Inv

----------------------------------------------------------------------------
(* The invariant holds at first and is kept by every step. *)

LEMMA InvInit == Init => Inv
<1> SUFFICES ASSUME Init PROVE Inv
  OBVIOUS
<1>1. IdleConfig \in ConfigRecord
  BY DEF IdleConfig, ConfigRecord
<1>2. erased = <<>> /\ Len(erased) = 0
  BY DEF Init
<1>3. IdleCall \in CallRecord
  BY <1>2 DEF IdleCall, CallRecord
<1>4. /\ snapshots \in [Loggers -> Seq(Seq(Sinks))] /\ snapshot \in [Loggers -> Nat]
      /\ \A l \in Loggers : snapshot[l] \in DOMAIN snapshots[l]
  <2>1. << <<>>, <<Console>> >> \in Seq(Seq(Sinks)) /\ << <<>> >> \in Seq(Seq(Sinks))
    BY LoggerAssumption
  <2>2. 2 \in DOMAIN << <<>>, <<Console>> >> /\ 1 \in DOMAIN << <<>> >>
    OBVIOUS
  <2>3. PICK a, b : a = << <<>>, <<Console>> >> /\ b = << <<>> >>
    OBVIOUS
  <2>4. /\ snapshots = [l \in Loggers |-> IF l = BuiltIn THEN a ELSE b]
        /\ snapshot = [l \in Loggers |-> IF l = BuiltIn THEN 2 ELSE 1]
    BY <2>3, Zenon DEF Init
  <2>5. a \in Seq(Seq(Sinks)) /\ b \in Seq(Seq(Sinks)) /\ 2 \in DOMAIN a /\ 1 \in DOMAIN b
    BY <2>1, <2>2, <2>3, Zenon
  <2> QED
    BY <2>4, <2>5
<1>5. /\ config = [k \in Configs |-> IdleConfig] /\ call = [c \in Calls |-> IdleCall]
      /\ out = [c \in Calls |-> <<>>] /\ mutex = [l \in Loggers |-> None]
      /\ level = [l \in Loggers |-> kTrace]
      /\ defaultLogger = None /\ writerPtr = 0 /\ destroyed = {} /\ raced = FALSE
  BY DEF Init
<1>6. TypeOK
  <2>1. /\ level \in [Loggers -> Levels \cup {kOff}] /\ mutex \in [Loggers -> Configs \cup {None}]
        /\ config \in [Configs -> ConfigRecord] /\ call \in [Calls -> CallRecord]
        /\ out \in [Calls -> Seq(Delivery)]
    BY <1>1, <1>3, <1>5 DEF Levels, kTrace, kError
  <2>2. /\ erased \in Seq(Writers) /\ writerPtr \in 0 .. Len(erased)
        /\ destroyed \subseteq Writers \ {BuiltIn}
    BY <1>2, <1>5
  <2>3. raced \in BOOLEAN /\ defaultLogger \in Loggers \cup {None}
    BY <1>5, Zenon
  <2> QED
    BY <1>4, <2>1, <2>2, <2>3 DEF TypeOK
<1>7. Locks /\ Pending
  BY <1>5 DEF Locks, Pending, IdleConfig
<1>8. Agree /\ DefaultAlive
  BY <1>5 DEF Agree, InDefaults, IdleConfig, DefaultsAgree, DefaultAlive, Pointee
<1>9. CallsOK /\ HeldAlive
  BY <1>5 DEF CallsOK, CallOK, HeldAlive, Busy, IdleCall
<1> QED
  BY <1>6, <1>7, <1>8, <1>9 DEF Inv

LEMMA NextInv == Inv /\ [Next]_vars => Inv'
<1> SUFFICES ASSUME Inv, [Next]_vars PROVE Inv'
  OBVIOUS
<1>1. ASSUME NEW k \in Configs, ConfigStep(k) PROVE Inv'
  BY <1>1, SetLevelStep, LockSinksStep, PushSnapshotStep, StoreSnapshotStep,
     SetDefaultLoggerStep, SetDefaultLogWriterStep, ClearWriterRefStep, KeepWriterRefStep,
     StoreWriterRefStep DEF ConfigStep
<1>2. ASSUME NEW c \in Calls, StartCall(c) PROVE Inv'
  <2>1. PICK r \in Requests : BindDefault(c, r) \/ \E w \in Writers : BindGiven(c, r, w)
    BY <1>2 DEF StartCall
  <2>2. CASE BindDefault(c, r)
    <3>1. /\ writerPtr \in 0 .. Len(erased) /\ Pointee(writerPtr) \in Writers
          /\ Pointee(writerPtr) \notin destroyed
      BY LoggerAssumption DEF Inv, TypeOK, DefaultAlive, Pointee, Writers
    <3>2. PICK w \in Writers : w = Pointee(writerPtr)
      BY <3>1
    <3>3. Bind(c, r, "default", writerPtr, w)
      BY <2>2, <3>2, Zenon DEF BindDefault
    <3> QED
      BY <3>1, <3>2, <3>3, BindStep
  <2>3. ASSUME NEW w \in Writers, BindGiven(c, r, w) PROVE Inv'
    <3>1. w \notin destroyed /\ 0 \in 0 .. Len(erased) /\ Bind(c, r, "given", 0, w)
      BY <2>3 DEF BindGiven, Live, Inv, TypeOK
    <3> QED
      BY <3>1, BindStep
  <2> QED
    BY <2>1, <2>2, <2>3
<1>3. ASSUME NEW c \in Calls, CallStep(c) PROVE Inv'
  BY <1>3, CheckEnabledStep, CheckDisabledStep, WriteUserStep, WriteLoggerStep,
     LoadSnapshotStep, WriteSinkStep, SinkThrowsStep, EndWalkStep DEF CallStep
<1>4. CASE UNCHANGED vars
  <2>1. UNCHANGED <<level, snapshots, snapshot, mutex, config, defaultLogger, erased, writerPtr,
                    raced, call, out, destroyed>>
    BY <1>4 DEF vars, sinkVars, defaultVars
  <2>2. CallsOK' /\ call' \in [Calls -> CallRecord'] /\ out' \in [Calls -> Seq(Delivery)]
    BY <2>1, ErasedKept
  <2>3. TypeOK'
    BY <2>1, <2>2 DEF Inv, TypeOK
  <2>4. Locks' /\ Pending' /\ HeldAlive'
    BY <2>1 DEF Inv, Locks, NextSinks, Pending, HeldAlive, Busy
  <2>5. Agree' /\ DefaultAlive'
    BY <2>1 DEF Inv, Agree, InDefaults, DefaultsAgree, DefaultAlive, Pointee
  <2> QED
    BY <2>2, <2>3, <2>4, <2>5 DEF Inv
<1> QED
  BY <1>1, <1>2, <1>3, <1>4, DestroyWriterStep DEF Next

----------------------------------------------------------------------------
(* The theorems. *)

(* The inductive invariant. *)
THEOREM Invariance == Spec => []Inv
BY InvInit, NextInv, PTL DEF Spec

(* The variables keep their types: every index is one of an existing snapshot. *)
THEOREM TypeCorrect == Spec => []TypeOK
<1>1. Inv => TypeOK
  BY DEF Inv
<1> QED
  BY <1>1, Invariance, PTL

(* A call that loaded the default writer's pointer finds the same writer     *)
(* there until it ends, whoever replaces the default meanwhile.              *)
THEOREM LoadedWriterStaysOwned == Spec => []LoadedWriterOwned
<1>1. Inv => LoadedWriterOwned
  <2> SUFFICES ASSUME Inv, NEW c \in Calls, Busy(c)
               PROVE  call[c].ptr <= Len(erased) /\ Object(c) = call[c].loaded
    BY DEF LoadedWriterOwned
  <2>1. call[c].ptr \in 0 .. Len(erased) /\ Len(erased) \in Nat
    BY OfCall DEF CallRecord, Inv, TypeOK
  <2> QED
    BY <2>1, HoldsLoaded DEF Busy
<1> QED
  BY <1>1, Invariance, PTL

(* A record reaches its writer once, or every sink of the list once, in a    *)
(* form the receiver takes and with all its content, whichever conversion    *)
(* of ErasedLogWriter::write, writeStructuredFallback and makeLogRecord it   *)
(* goes through.                                                             *)
THEOREM RecordsArrive == Spec => []RecordArrives
<1>1. Inv => RecordArrives
  <2> SUFFICES ASSUME Inv, NEW c \in Calls
               PROVE  /\ \A i \in DOMAIN out[c] : Arrived(call[c].record, out[c][i])
                      /\ CallAt(c, "done") =>
                            Len(out[c]) = IF call[c].snap = 0 THEN 1 ELSE Len(Walked(c))
    BY DEF RecordArrives, Arrived
  <2> QED
    BY OfCall, Zenon DEF CallOK, CallAt, Walked
<1> QED
  BY <1>1, Invariance, PTL

(* When the last setDefaultLogger had the defaults to itself, the default    *)
(* logger and the default writer are the same object.                        *)
THEOREM DefaultsStayTogether == Spec => []DefaultsAgree
<1>1. Inv => DefaultsAgree
  BY DEF Inv, Agree, DefaultsAgree
<1> QED
  BY <1>1, Invariance, PTL

(* If a program destroys a replaced writer only once no call holds it, no    *)
(* call uses a destroyed writer: the discipline that the promise of          *)
(* docs/03-日志关联.md needs, as the pointer alone does not keep it.         *)
THEOREM WaitingKeepsWritersAlive == WaitForCalls => (Spec => []HeldWriterAlive)
<1>1. WaitForCalls /\ Inv => HeldWriterAlive
  <2> SUFFICES ASSUME WaitForCalls, Inv, NEW c \in Calls, Busy(c) PROVE Object(c) \notin destroyed
    BY DEF HeldWriterAlive
  <2>1. Object(c) = call[c].loaded
    BY HoldsLoaded DEF Busy
  <2> QED
    BY <2>1 DEF Inv, HeldAlive
<1> SUFFICES ASSUME WaitForCalls PROVE Spec => []HeldWriterAlive
  OBVIOUS
<1>2. Inv => HeldWriterAlive
  BY <1>1
<1> QED
  BY <1>2, Invariance, PTL

----------------------------------------------------------------------------
(* Logger implements SinkList. *)

Unseen == UNCHANGED <<SinksNow, ChangedBy, ViewOf, GotBy>>

(* What a call sees and has delivered does not change while snapshots are    *)
(* added and calls move without publishing.                                  *)
LEMMA ViewKept ==
  ASSUME Inv,
         \A l \in Loggers : \A i \in DOMAIN snapshots[l] : snapshots'[l][i] = snapshots[l][i],
         \A c \in Calls : call'[c].snap = call[c].snap /\
            (call[c].snap # 0 => call'[c].loaded = call[c].loaded /\ out'[c] = out[c])
  PROVE  ViewOf' = ViewOf /\ GotBy' = GotBy
<1>1. ASSUME NEW c \in Calls
      PROVE  /\ (IF call[c].snap = 0 THEN None ELSE Walked(c))'
                  = IF call[c].snap = 0 THEN None ELSE Walked(c)
             /\ (IF call[c].snap = 0 THEN <<>> ELSE [i \in DOMAIN out[c] |-> out[c][i].to])'
                  = IF call[c].snap = 0 THEN <<>> ELSE [i \in DOMAIN out[c] |-> out[c][i].to]
  <2>1. CASE call[c].snap = 0
    BY <2>1, Zenon
  <2>2. CASE call[c].snap # 0
    <3>1. call[c].loaded \in Loggers /\ call[c].snap \in DOMAIN snapshots[call[c].loaded]
      BY <2>2, OfCall DEF CallOK
    <3>2. /\ call'[c].snap = call[c].snap /\ call'[c].loaded = call[c].loaded
          /\ out'[c] = out[c]
      BY <2>2
    <3>3. snapshots'[call[c].loaded][call[c].snap] = snapshots[call[c].loaded][call[c].snap]
      BY <3>1
    <3> QED
      BY <3>2, <3>3, Zenon DEF Walked
  <2> QED
    BY <2>1, <2>2
<1>2. ViewOf' = ViewOf
  BY <1>1, Zenon DEF ViewOf
<1>3. GotBy' = GotBy
  BY <1>1, Zenon DEF GotBy
<1> QED
  BY <1>2, <1>3

(* The list of a logger changes only when another snapshot is published. *)
LEMMA ListsKept ==
  ASSUME Inv, snapshot' = snapshot,
         \A l \in Loggers : \A i \in DOMAIN snapshots[l] : snapshots'[l][i] = snapshots[l][i]
  PROVE  SinksNow' = SinksNow
<1>1. \A l \in Loggers : Promised(l)' = Promised(l)
  BY DEF Inv, TypeOK, Promised
<1> QED
  BY <1>1, Zenon DEF SinksNow

(* A call that has not returned has changed nothing yet. *)
LEMMA ChangesKept ==
  ASSUME NEW k \in Configs, \A j \in Configs : j # k => config'[j] = config[j],
         config[k].pc # "done", config'[k].pc # "done"
  PROVE  ChangedBy' = ChangedBy
<1>1. ASSUME NEW j \in Configs
      PROVE  (IF ConfigAt(j, "done")
              THEN [logger |-> config[j].logger, sink |-> config[j].sink] ELSE None)'
             = IF ConfigAt(j, "done")
               THEN [logger |-> config[j].logger, sink |-> config[j].sink] ELSE None
  <2>1. CASE j = k
    BY <2>1, Zenon DEF ConfigAt
  <2>2. CASE j # k
    BY <2>2, Zenon DEF ConfigAt
  <2> QED
    BY <2>1, <2>2
<1> QED
  BY <1>1, Zenon DEF ChangedBy

(* The return of a call shows what it did. *)
LEMMA ChangeShown ==
  ASSUME NEW k \in Configs, NEW l, NEW sink,
         \A j \in Configs : j # k => config'[j] = config[j],
         config[k].pc # "done", config'[k].pc = "done",
         config'[k].logger = l, config'[k].sink = sink
  PROVE  /\ ChangedBy[k] = None
         /\ ChangedBy' = [ChangedBy EXCEPT ![k] = [logger |-> l, sink |-> sink]]
<1>1. ChangedBy[k] = None
  BY DEF ChangedBy, ConfigAt
<1>2. PICK x : x = [logger |-> l, sink |-> sink]
  OBVIOUS
<1>3. \A j \in Configs : ChangedBy'[j] = IF j = k THEN x ELSE ChangedBy[j]
  BY <1>2, Zenon DEF ChangedBy, ConfigAt
<1>4. /\ ChangedBy' = [j \in Configs |-> ChangedBy'[j]]
      /\ ChangedBy = [j \in Configs |-> ChangedBy[j]]
  BY DEF ChangedBy
<1>5. ChangedBy' = [ChangedBy EXCEPT ![k] = x]
  BY <1>3, <1>4
<1> QED
  BY <1>1, <1>2, <1>5, Zenon

(* Configuring calls: every step that does not return is unseen, ... *)
LEMMA ConfigUnseen ==
  ASSUME Inv, NEW k \in Configs,
         \/ \E l \in Loggers, sink \in Sinks \cup {None} : LockSinks(k, l, sink)
         \/ \E l \in Loggers \cup {None} : SetDefaultLogger(k, l)
         \/ \E w \in Writers \cup {None} : SetDefaultLogWriter(k, w)
         \/ PushSnapshot(k) \/ KeepWriterRef(k)
  PROVE  Unseen
<1>0. config[k] \in ConfigRecord /\ config \in [Configs -> ConfigRecord]
  BY OfConfig DEF Inv, TypeOK
<1> DEFINE Moves == /\ \A j \in Configs : j # k => config'[j] = config[j]
                    /\ config[k].pc # "done" /\ config'[k].pc # "done"
<1>1. Moves
  <2>1. ASSUME NEW l \in Loggers, NEW sink \in Sinks \cup {None}, LockSinks(k, l, sink)
        PROVE  Moves
    BY <1>0, <2>1 DEF LockSinks, Configuring, ConfigAt, ConfigRecord
  <2>2. ASSUME NEW l \in Loggers \cup {None}, SetDefaultLogger(k, l) PROVE Moves
    BY <1>0, <2>2 DEF SetDefaultLogger, Configuring, ConfigAt, ConfigRecord
  <2>3. ASSUME NEW w \in Writers \cup {None}, SetDefaultLogWriter(k, w) PROVE Moves
    BY <1>0, <2>3 DEF SetDefaultLogWriter, Configuring, ConfigAt, ConfigRecord
  <2>4. CASE PushSnapshot(k)
    BY <1>0, <2>4 DEF PushSnapshot, ConfigAt, ConfigRecord
  <2>5. CASE KeepWriterRef(k)
    BY <1>0, <2>5 DEF KeepWriterRef, ConfigAt, ConfigRecord
  <2> QED
    BY <2>1, <2>2, <2>3, <2>4, <2>5
<1>2. UNCHANGED <<snapshot, call, out>>
  BY DEF LockSinks, SetDefaultLogger, SetDefaultLogWriter, PushSnapshot, KeepWriterRef, sinkVars
<1>3. \A l \in Loggers : \A i \in DOMAIN snapshots[l] : snapshots'[l][i] = snapshots[l][i]
  <2>1. CASE PushSnapshot(k)
    <3>1. PICK l, list : /\ l = config[k].logger /\ list = NextSinks(k)
                         /\ snapshots' = [snapshots EXCEPT ![l] = Append(snapshots[l], list)]
      BY <2>1, Zenon DEF PushSnapshot
    <3> SUFFICES ASSUME NEW m \in Loggers, NEW i \in DOMAIN snapshots[m]
                 PROVE  snapshots'[m][i] = snapshots[m][i]
      OBVIOUS
    <3>2. snapshots \in [Loggers -> Seq(Seq(Sinks))] /\ snapshots[m] \in Seq(Seq(Sinks))
      BY DEF Inv, TypeOK
    <3>3. Append(snapshots[m], list)[i] = snapshots[m][i]
      BY <3>2
    <3> QED
      BY <3>1, <3>2, <3>3
  <2>2. CASE snapshots' = snapshots
    BY <2>2
  <2> QED
    BY <2>1, <2>2 DEF LockSinks, SetDefaultLogger, SetDefaultLogWriter, KeepWriterRef, sinkVars
<1>4. SinksNow' = SinksNow
  BY <1>2, <1>3, ListsKept
<1>5. ChangedBy' = ChangedBy
  BY <1>1, ChangesKept
<1>6. ViewOf' = ViewOf /\ GotBy' = GotBy
  BY <1>2, <1>3, ViewKept
<1> QED
  BY <1>4, <1>5, <1>6 DEF Unseen

(* ... the return of one that configured no logger changes no list, ... *)
LEMMA OtherReturns ==
  ASSUME Inv, NEW k \in Configs,
         \/ \E l \in Loggers, threshold \in Thresholds : SetLevel(k, l, threshold)
         \/ ClearWriterRef(k) \/ StoreWriterRef(k)
  PROVE  SinkLists!Configure(k, None, None)
<1>0. config[k] \in ConfigRecord /\ config \in [Configs -> ConfigRecord]
  BY OfConfig DEF Inv, TypeOK
<1> DEFINE Moves == /\ \A j \in Configs : j # k => config'[j] = config[j]
                    /\ config[k].pc # "done" /\ config'[k].pc = "done"
                    /\ config'[k].logger = None /\ config'[k].sink = None
<1>1. Moves
  <2>1. ASSUME NEW l \in Loggers, NEW threshold \in Thresholds, SetLevel(k, l, threshold)
        PROVE  Moves
    BY <1>0, <2>1 DEF SetLevel, Configuring, ConfigAt
  <2>2. CASE ClearWriterRef(k) \/ StoreWriterRef(k)
    <3>1. /\ config' = [config EXCEPT ![k].pc = "done"]
          /\ config[k].pc \in {"setWriter", "storeWriter"}
      BY <2>2 DEF ClearWriterRef, StoreWriterRef, ConfigAt
    <3>2. config[k].logger = None /\ config[k].sink = None
      BY <3>1 DEF Inv, Pending
    <3> QED
      BY <1>0, <3>1, <3>2 DEF ConfigRecord
  <2> QED
    BY <2>1, <2>2
<1>2. UNCHANGED <<snapshots, snapshot, call, out>>
  BY DEF SetLevel, ClearWriterRef, StoreWriterRef, sinkVars
<1>3. SinksNow' = SinksNow
  BY <1>2, ListsKept
<1>4. ViewOf' = ViewOf /\ GotBy' = GotBy
  BY <1>2, ViewKept
<1>5. /\ ChangedBy[k] = None
      /\ ChangedBy' = [ChangedBy EXCEPT ![k] = [logger |-> None, sink |-> None]]
  BY <1>1, ChangeShown
<1> QED
  BY <1>3, <1>4, <1>5, Zenon DEF SinkLists!Configure

(* ... and the publication of a snapshot is addSink or clearSinks. *)
LEMMA SinksReturn ==
  ASSUME Inv, NEW k \in Configs, StoreSnapshot(k)
  PROVE  /\ SinkLists!Configure(k, config[k].logger, config[k].sink)
         /\ config[k].logger \in Loggers /\ config[k].sink \in Sinks \cup {None}
<1>0. config[k] \in ConfigRecord /\ config \in [Configs -> ConfigRecord]
  BY OfConfig DEF Inv, TypeOK
<1>1. PICK l \in Loggers, sink \in Sinks \cup {None} :
         l = config[k].logger /\ sink = config[k].sink
  BY <1>0 DEF StoreSnapshot, ConfigAt, Inv, Locks, ConfigRecord
<1>2. snapshots[l][config[k].at] = NextSinks(k)
  BY <1>1 DEF StoreSnapshot, ConfigAt, Inv, Locks
<1>3. /\ config' = [config EXCEPT ![k].pc = "done"] /\ config[k].pc = "pushed"
      /\ snapshot' = [snapshot EXCEPT ![l] = config[k].at]
      /\ UNCHANGED <<snapshots, call, out>>
  BY <1>1, Zenon DEF StoreSnapshot, ConfigAt
<1>4. /\ \A j \in Configs : j # k => config'[j] = config[j]
      /\ config[k].pc # "done" /\ config'[k].pc = "done"
      /\ config'[k].logger = l /\ config'[k].sink = sink
  BY <1>0, <1>1, <1>3 DEF ConfigRecord
<1>5. /\ ChangedBy[k] = None
      /\ ChangedBy' = [ChangedBy EXCEPT ![k] = [logger |-> l, sink |-> sink]]
  BY <1>4, ChangeShown
<1>6. ViewOf' = ViewOf /\ GotBy' = GotBy
  BY <1>3, ViewKept
<1>7. SinksNow' = [SinksNow EXCEPT ![l] = IF sink = None THEN <<>> ELSE Append(@, sink)]
  <2>1. PICK list : list = IF sink = None THEN <<>> ELSE Append(SinksNow[l], sink)
    OBVIOUS
  <2>2. list = NextSinks(k)
    <3>1. SinksNow[l] = snapshots[l][snapshot[l]]
      BY DEF SinksNow, Promised
    <3> QED
      BY <1>1, <2>1, <3>1, Zenon DEF NextSinks
  <2>3. \A m \in Loggers : SinksNow'[m] = IF m = l THEN list ELSE SinksNow[m]
    <3> SUFFICES ASSUME NEW m \in Loggers
                 PROVE  snapshots[m][snapshot'[m]] = IF m = l THEN list
                                                              ELSE snapshots[m][snapshot[m]]
      BY <1>3, Zenon DEF SinksNow, Promised
    <3>1. snapshot'[m] = IF m = l THEN config[k].at ELSE snapshot[m]
      BY <1>3 DEF Inv, TypeOK
    <3> QED
      BY <1>2, <2>2, <3>1, Zenon
  <2>4. /\ SinksNow' = [m \in Loggers |-> SinksNow'[m]]
        /\ SinksNow = [m \in Loggers |-> SinksNow[m]]
    BY DEF SinksNow
  <2>5. SinksNow' = [SinksNow EXCEPT ![l] = list]
    BY <2>3, <2>4
  <2> QED
    BY <2>1, <2>5, Zenon
<1>8. l # None
  BY LoggerAssumption DEF Writers
<1>9. SinkLists!Configure(k, l, sink)
  BY <1>5, <1>6, <1>7, <1>8, Zenon DEF SinkLists!Configure
<1> QED
  BY <1>1, <1>9, Zenon

(* A logging call is unseen, ... *)
LEMMA CallUnseen ==
  ASSUME Inv, NEW c \in Calls,
         \/ StartCall(c) \/ CheckEnabled(c) \/ CheckDisabled(c) \/ WriteUser(c)
         \/ WriteLogger(c) \/ SinkThrows(c) \/ EndWalk(c)
  PROVE  Unseen
<1>0. call[c] \in CallRecord /\ call \in [Calls -> CallRecord] /\ out \in [Calls -> Seq(Delivery)]
  BY OfCall DEF Inv, TypeOK
<1> DEFINE Moves == /\ \A d \in Calls : d # c => call'[d] = call[d] /\ out'[d] = out[d]
                    /\ call'[c].snap = call[c].snap
                    /\ call[c].snap # 0 => call'[c].loaded = call[c].loaded /\ out'[c] = out[c]
                    /\ UNCHANGED <<snapshots, snapshot, config>>
<1>1. Moves
  <2>1. ASSUME StartCall(c) PROVE Moves
    <3>1. PICK r, via, ptr, w : Bind(c, r, via, ptr, w)
      BY <2>1, Zenon DEF StartCall, BindDefault, BindGiven
    <3>2. PICK m : m = [r EXCEPT !.context = LogContextOf(@)]
      OBVIOUS
    <3>3. /\ call' = [call EXCEPT ![c] = [pc |-> "bound", record |-> m, via |-> via, ptr |-> ptr,
                                          loaded |-> w, snap |-> 0]]
          /\ out' = out /\ OnlyCalls /\ call[c].pc = "idle"
      BY <3>1, <3>2, Zenon DEF Bind, CallAt
    <3>4. call[c].snap = 0
      BY <3>3, OfCall DEF CallOK
    <3> QED
      BY <1>0, <3>3, <3>4 DEF OnlyCalls, sinkVars
  <2>2. CASE CheckEnabled(c)
    BY <1>0, <2>2 DEF CheckEnabled, CallGoes, CallRecord, OnlyCalls, sinkVars
  <2>3. CASE CheckDisabled(c)
    BY <1>0, <2>3 DEF CheckDisabled, CallGoes, CallRecord, OnlyCalls, sinkVars
  <2>4. CASE WriteUser(c)
    <3>1. call[c].snap = 0
      BY <2>4, OfCall DEF WriteUser, CallAt, CallOK
    <3>2. PICK o : out' = [out EXCEPT ![c] = o]
      BY <2>4, Zenon DEF WriteUser
    <3> QED
      BY <1>0, <2>4, <3>1, <3>2 DEF WriteUser, CallGoes, CallRecord, OnlyCalls, sinkVars
  <2>5. CASE WriteLogger(c)
    <3>1. call[c].snap = 0
      BY <2>5, OfCall DEF WriteLogger, CallAt, CallOK
    <3> QED
      BY <1>0, <2>5, <3>1 DEF WriteLogger, CallRecord, OnlyCalls, sinkVars
  <2>6. CASE SinkThrows(c)
    BY <1>0, <2>6 DEF SinkThrows, CallGoes, CallRecord, OnlyCalls, sinkVars
  <2>7. CASE EndWalk(c)
    BY <1>0, <2>7 DEF EndWalk, CallGoes, CallRecord, OnlyCalls, sinkVars
  <2> QED
    BY <2>1, <2>2, <2>3, <2>4, <2>5, <2>6, <2>7
<1>2. SinksNow' = SinksNow
  BY <1>1, ListsKept
<1>3. ChangedBy' = ChangedBy
  BY <1>1 DEF ChangedBy, ConfigAt
<1>4. ViewOf' = ViewOf /\ GotBy' = GotBy
  BY <1>1, ViewKept
<1> QED
  BY <1>2, <1>3, <1>4 DEF Unseen

(* ... but for the moment it loads the snapshot ... *)
LEMMA LoadPublishes ==
  ASSUME Inv, NEW c \in Calls, LoadSnapshot(c)
  PROVE  SinkLists!Publish(c)
<1>0. call[c] \in CallRecord /\ call \in [Calls -> CallRecord] /\ out \in [Calls -> Seq(Delivery)]
  BY OfCall DEF Inv, TypeOK
<1>1. PICK l \in Loggers, n \in Nat : l = call[c].loaded /\ n = snapshot[l]
  BY OfCall DEF LoadSnapshot, CallAt, CallOK, Inv, TypeOK
<1>2. call[c].snap = 0 /\ out[c] = <<>> /\ n # 0
  <2>1. n \in DOMAIN snapshots[l] /\ snapshots[l] \in Seq(Seq(Sinks))
    BY <1>1 DEF Inv, TypeOK
  <2>2. n # 0
    BY <2>1
  <2> QED
    BY <2>2, OfCall DEF LoadSnapshot, CallAt, CallOK
<1>3. /\ call' = [call EXCEPT ![c].pc = "walking", ![c].snap = n]
      /\ UNCHANGED <<out, snapshots, snapshot, config>>
  BY <1>1, Zenon DEF LoadSnapshot, OnlyCalls, sinkVars
<1>4. /\ \A d \in Calls : d # c => call'[d] = call[d] /\ out'[d] = out[d]
      /\ call'[c].snap = n /\ call'[c].loaded = l /\ out'[c] = <<>>
  BY <1>0, <1>1, <1>2, <1>3 DEF CallRecord
<1>5. SinksNow' = SinksNow /\ ChangedBy' = ChangedBy
  <2>1. SinksNow' = SinksNow
    BY <1>3, ListsKept
  <2> QED
    BY <1>3, <2>1 DEF ChangedBy, ConfigAt
<1>6. PICK list : list = SinksNow[l]
  OBVIOUS
<1>7. ViewOf[c] = None
  BY <1>2 DEF ViewOf
<1>8. \A d \in Calls : ViewOf'[d] = IF d = c THEN list ELSE ViewOf[d]
  <2> SUFFICES ASSUME NEW d \in Calls
               PROVE  (IF call[d].snap = 0 THEN None ELSE Walked(d))'
                      = IF d = c THEN list ELSE IF call[d].snap = 0 THEN None ELSE Walked(d)
    BY Zenon DEF ViewOf
  <2>1. CASE d = c
    <3>1. list = snapshots[l][n]
      BY <1>1, <1>6 DEF SinksNow, Promised
    <3>2. Walked(c)' = snapshots[l][n]
      BY <1>3, <1>4, Zenon DEF Walked
    <3> QED
      BY <1>2, <1>4, <2>1, <3>1, <3>2, Zenon
  <2>2. CASE d # c
    <3>1. call'[d] = call[d] /\ snapshots' = snapshots
      BY <1>3, <1>4, <2>2
    <3> QED
      BY <2>2, <3>1, Zenon DEF Walked
  <2> QED
    BY <2>1, <2>2
<1>9. ViewOf' = [ViewOf EXCEPT ![c] = list]
  <2>1. ViewOf' = [d \in Calls |-> ViewOf'[d]] /\ ViewOf = [d \in Calls |-> ViewOf[d]]
    BY DEF ViewOf
  <2> QED
    BY <1>8, <2>1
<1>10. GotBy' = GotBy
  <2> SUFFICES ASSUME NEW d \in Calls
               PROVE  (IF call[d].snap = 0 THEN <<>> ELSE [i \in DOMAIN out[d] |-> out[d][i].to])'
                      = IF call[d].snap = 0 THEN <<>> ELSE [i \in DOMAIN out[d] |-> out[d][i].to]
    BY Zenon DEF GotBy
  <2>1. CASE d = c
    <3>1. [i \in DOMAIN <<>> |-> <<>>[i].to] = <<>>
      OBVIOUS
    <3> QED
      BY <1>2, <1>4, <2>1, <3>1, Zenon
  <2>2. CASE d # c
    BY <1>4, <2>2, Zenon
  <2> QED
    BY <2>1, <2>2
<1> QED
  BY <1>5, <1>6, <1>7, <1>9, <1>10, Zenon DEF SinkLists!Publish

(* ... and the sinks it then hands the record to. *)
LEMMA WriteDelivers ==
  ASSUME Inv, NEW c \in Calls, WriteSink(c)
  PROVE  SinkLists!Deliver(c)
<1>0. call[c] \in CallRecord /\ out[c] \in Seq(Delivery) /\ out \in [Calls -> Seq(Delivery)]
  BY OfCall DEF Inv, TypeOK
<1>1. PICK l \in Loggers, n \in Nat : l = call[c].loaded /\ n = call[c].snap /\ n # 0
  BY <1>0, OfCall DEF WriteSink, CallAt, CallOK, CallRecord
<1>2. PICK list \in Seq(Sinks) : list = Walked(c)
  <2>1. n \in DOMAIN snapshots[l] /\ snapshots[l] \in Seq(Seq(Sinks))
    BY <1>1, OfCall DEF CallOK, Inv, TypeOK
  <2>2. snapshots[l][n] \in Seq(Sinks)
    BY <2>1
  <2> QED
    BY <1>1, <2>2, Zenon DEF Walked
<1>3. PICK e : e = [to |-> list[Len(out[c]) + 1],
                    record |-> Converted(call[c].record, call[c].loaded)]
  OBVIOUS
<1>4. /\ out' = [out EXCEPT ![c] = Append(out[c], e)] /\ Len(out[c]) < Len(list)
      /\ UNCHANGED <<call, snapshots, snapshot, config>>
  BY <1>2, <1>3, Zenon DEF WriteSink, OnlyCalls, sinkVars
<1>5. e.to = list[Len(out[c]) + 1]
  BY <1>3
<1>6. ViewOf[c] = list /\ list # None
  <2>1. list # None
    BY LoggerAssumption
  <2> QED
    BY <1>1, <1>2, <2>1 DEF ViewOf
<1>7. SinksNow' = SinksNow /\ ChangedBy' = ChangedBy /\ ViewOf' = ViewOf
  <2>1. SinksNow' = SinksNow
    BY <1>4, ListsKept
  <2> QED
    BY <1>4, <2>1 DEF ChangedBy, ConfigAt, ViewOf, Walked
<1>8. GotBy[c] = [i \in DOMAIN out[c] |-> out[c][i].to] /\ Len(GotBy[c]) = Len(out[c])
  <2>1. GotBy[c] = [i \in DOMAIN out[c] |-> out[c][i].to]
    BY <1>1, Zenon DEF GotBy
  <2> QED
    BY <1>0, <2>1
<1>9. [i \in DOMAIN Append(out[c], e) |-> Append(out[c], e)[i].to]
         = Append(GotBy[c], list[Len(out[c]) + 1])
  BY <1>0, <1>5, <1>8
<1>10. \A d \in Calls : GotBy'[d] = IF d = c THEN Append(GotBy[c], list[Len(out[c]) + 1])
                                    ELSE GotBy[d]
  <2> SUFFICES ASSUME NEW d \in Calls
               PROVE  (IF call[d].snap = 0 THEN <<>> ELSE [i \in DOMAIN out[d] |-> out[d][i].to])'
                      = IF d = c THEN Append(GotBy[c], list[Len(out[c]) + 1])
                        ELSE IF call[d].snap = 0 THEN <<>>
                             ELSE [i \in DOMAIN out[d] |-> out[d][i].to]
    BY Zenon DEF GotBy
  <2>1. call' = call /\ out'[d] = IF d = c THEN Append(out[c], e) ELSE out[d]
    BY <1>0, <1>4
  <2>2. CASE d = c
    BY <1>1, <1>9, <2>1, <2>2, Zenon
  <2>3. CASE d # c
    BY <2>1, <2>3, Zenon
  <2> QED
    BY <2>2, <2>3
<1>11. GotBy' = [GotBy EXCEPT ![c] = Append(GotBy[c], list[Len(out[c]) + 1])]
  <2>1. PICK g : g = Append(GotBy[c], list[Len(out[c]) + 1])
    OBVIOUS
  <2>2. GotBy' = [d \in Calls |-> GotBy'[d]] /\ GotBy = [d \in Calls |-> GotBy[d]]
    BY Zenon DEF GotBy
  <2>3. GotBy' = [GotBy EXCEPT ![c] = g]
    BY <1>10, <2>1, <2>2
  <2> QED
    BY <2>1, <2>3, Zenon
<1> QED
  BY <1>4, <1>6, <1>7, <1>8, <1>11, Zenon DEF SinkLists!Deliver

(* At first the lists are the ones the loggers were made with. *)
LEMMA ListsInit == Init => SinkLists!Init
<1> SUFFICES ASSUME Init PROVE SinkLists!Init
  OBVIOUS
<1>1. SinksNow = [l \in Loggers |-> IF l = BuiltIn THEN <<Console>> ELSE <<>>]
  <2> SUFFICES ASSUME NEW l \in Loggers
               PROVE  Promised(l) = IF l = BuiltIn THEN <<Console>> ELSE <<>>
    BY Zenon DEF SinksNow
  <2>1. PICK a, b : a = << <<>>, <<Console>> >> /\ b = << <<>> >>
    OBVIOUS
  <2>2. a[2] = <<Console>> /\ b[1] = <<>>
    BY <2>1
  <2>3. /\ snapshots[l] = (IF l = BuiltIn THEN a ELSE b)
        /\ snapshot[l] = (IF l = BuiltIn THEN 2 ELSE 1)
    BY <2>1, Zenon DEF Init
  <2> QED
    BY <2>2, <2>3, Zenon DEF Promised
<1>2. ChangedBy = [k \in Configs |-> None]
  BY DEF Init, ChangedBy, ConfigAt, IdleConfig
<1>3. ViewOf = [c \in Calls |-> None] /\ GotBy = [c \in Calls |-> <<>>]
  BY DEF Init, ViewOf, GotBy, IdleCall
<1> QED
  BY <1>1, <1>2, <1>3, Zenon DEF SinkLists!Init

LEMMA ListsNext == Inv /\ [Next]_vars => [SinkLists!Next]_(SinkLists!vars)
<1> SUFFICES ASSUME Inv, [Next]_vars PROVE SinkLists!Next \/ UNCHANGED SinkLists!vars
  OBVIOUS
<1>1. Unseen => UNCHANGED SinkLists!vars
  BY DEF Unseen, SinkLists!vars
<1>2. ASSUME NEW k \in Configs, ConfigStep(k) PROVE SinkLists!Next \/ Unseen
  <2>1. CASE StoreSnapshot(k)
    BY <2>1, SinksReturn, Zenon DEF SinkLists!Next
  <2>2. CASE \/ \E l \in Loggers, threshold \in Thresholds : SetLevel(k, l, threshold)
             \/ ClearWriterRef(k) \/ StoreWriterRef(k)
    BY <2>2, OtherReturns, Zenon DEF SinkLists!Next
  <2>3. CASE \/ \E l \in Loggers, sink \in Sinks \cup {None} : LockSinks(k, l, sink)
             \/ \E l \in Loggers \cup {None} : SetDefaultLogger(k, l)
             \/ \E w \in Writers \cup {None} : SetDefaultLogWriter(k, w)
             \/ PushSnapshot(k) \/ KeepWriterRef(k)
    BY <2>3, ConfigUnseen
  <2> QED
    BY <1>2, <2>1, <2>2, <2>3, Zenon DEF ConfigStep
<1>3. ASSUME NEW c \in Calls, StartCall(c) \/ CallStep(c) PROVE SinkLists!Next \/ Unseen
  <2>1. CASE LoadSnapshot(c)
    BY <2>1, LoadPublishes, Zenon DEF SinkLists!Next
  <2>2. CASE WriteSink(c)
    BY <2>2, WriteDelivers, Zenon DEF SinkLists!Next
  <2>3. CASE \/ StartCall(c) \/ CheckEnabled(c) \/ CheckDisabled(c) \/ WriteUser(c)
             \/ WriteLogger(c) \/ SinkThrows(c) \/ EndWalk(c)
    BY <2>3, CallUnseen
  <2> QED
    BY <1>3, <2>1, <2>2, <2>3, Zenon DEF CallStep
<1>4. ASSUME UNCHANGED <<snapshots, snapshot, config, call, out>> PROVE Unseen
  <2>1. SinksNow' = SinksNow
    BY <1>4, ListsKept
  <2>2. ViewOf' = ViewOf /\ GotBy' = GotBy
    BY <1>4, ViewKept
  <2>3. ChangedBy' = ChangedBy
    BY <1>4 DEF ChangedBy, ConfigAt
  <2> QED
    BY <2>1, <2>2, <2>3 DEF Unseen
<1>5. CASE \E w \in Writers : DestroyWriter(w)
  BY <1>1, <1>4, <1>5 DEF DestroyWriter, sinkVars
<1>6. CASE UNCHANGED vars
  BY <1>1, <1>4, <1>6 DEF vars, sinkVars
<1> QED
  BY <1>1, <1>2, <1>3, <1>5, <1>6 DEF Next

(* Copy-on-write lists of sinks, read without a lock, behave as one list     *)
(* that addSink and clearSinks change in one step each, and every record     *)
(* goes to the sinks of one moment (Logger::addSink, clearSinks, publish).   *)
THEOREM LoggerImplementsSinkList == Spec => ImplementsSinkList
<1>1. Init => SinkLists!Init
  BY ListsInit
<1>2. Inv /\ [Next]_vars => [SinkLists!Next]_(SinkLists!vars)
  BY ListsNext
<1> QED
  BY <1>1, <1>2, Invariance, PTL DEF Spec, ImplementsSinkList, SinkLists!Spec

=============================================================================
