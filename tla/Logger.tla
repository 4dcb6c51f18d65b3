------------------------------- MODULE Logger -------------------------------
(***************************************************************************)
(* The logging side (log/logger.h, log/logger.cc): loggers with            *)
(* copy-on-write lists of sinks read without a lock, type-erased writers,  *)
(* the process-wide default logger and default writer, and the calls that  *)
(* log through them: log(), event(), logAt, the macros.                    *)
(*                                                                         *)
(* One action per atomic access, lock or call into user code.  A member of *)
(* Calls is one logging call, a member of Configs one configuring call.    *)
(***************************************************************************)
EXTENDS Naturals, Sequences

CONSTANTS Loggers,      \* Logger objects, the built-in one included
          BuiltIn,      \* builtInDefaultLogger()
          Console,      \* its ConsoleSink
          Structured,   \* writers of the program that take structured records
          Plain,        \* those that take plain records
          Sinks,
          Thresholds,   \* the levels loggers are set to
          Parts,        \* what messages, names and rendered fields are put together from
          Contexts,     \* TraceContexts
          Requests,     \* the records logging calls are made with
          Configs, Calls,
          SinkMayThrow, \* whether LogSink::write may throw
          WaitForCalls, \* whether a writer is only destroyed once no call holds it
          None

UserWriters == Structured \cup Plain
Writers == Loggers \cup UserWriters

(* LogLevel *)
kTrace == 0
kError == 4
kOff == 5
Levels == kTrace .. kError

(* A LogRecord has a message, a StructuredLogRecord a name and fields: `text` *)
(* is the message or the name, a sequence of the parts it is put together     *)
(* from.  The context is a TraceContext or None.                              *)
RecordWith(contexts) ==
    [form : {"plain", "structured"}, text : Seq(Parts), fields : Seq(Parts), level : Levels,
     context : contexts \cup {None}]

ASSUME LoggerAssumption ==
    /\ BuiltIn \in Loggers /\ Console \in Sinks
    /\ Loggers \cap UserWriters = {}
    /\ Thresholds \subseteq Levels \cup {kOff}
    /\ Requests \subseteq RecordWith(Contexts)
    /\ \A r \in Requests : r.form = "plain" => r.fields = <<>>
    /\ None \notin Writers \cup Sinks \cup Configs \cup Seq(Sinks)
    /\ SinkMayThrow \in BOOLEAN /\ WaitForCalls \in BOOLEAN

VARIABLES
    level,          \* level[l]: m_level
    snapshots,      \* snapshots[l]: m_sinkSnapshots
    snapshot,       \* snapshot[l]: m_sinkSnapshot, an index into snapshots[l]
    mutex,          \* mutex[l]: the configuring call that holds m_mutex
    config,         \* config[k]: the position and arguments of configuring call k
    defaultLogger,  \* g_defaultLogger
    erased,         \* g_defaultWriterSnapshots, as the objects they point to
    writerPtr,      \* g_defaultLogWriterPtr, an index into erased, 0 for nullptr
    call,           \* call[c]: the position and arguments of logging call c
    out,            \* out[c]: who has received the record of call c, and as what
    destroyed,      \* writers whose lifetime is over
    raced           \* history: the last setDefaultLogger was not alone in setting
                    \* the defaults, or setDefaultLogWriter was called after it

sinkVars == <<level, snapshots, snapshot, mutex>>
defaultVars == <<defaultLogger, erased, writerPtr, raced>>
vars == <<sinkVars, config, defaultVars, call, out, destroyed>>

IdleConfig == [pc |-> "idle", logger |-> None, sink |-> None, writer |-> None, at |-> 0]

IdleCall == [pc |-> "idle", record |-> None, via |-> None, ptr |-> 0,
             loaded |-> None, snap |-> 0]

(* makeLogContext: tracestate and parent are left out. *)
LogContextOf(ctx) == IF ctx = None THEN None
                     ELSE [trace |-> ctx.trace, span |-> ctx.span, flags |-> ctx.flags]

(* makeLogRecord: the fields are rendered after the name. *)
makeLogRecord(r) == [r EXCEPT !.form = "plain", !.text = r.text \o r.fields, !.fields = <<>>]

(* The records as they are made, and as the conversions leave them. *)
Made == {[r EXCEPT !.context = LogContextOf(@)] : r \in Requests}

Records == Made \cup {[r EXCEPT !.form = "structured"] : r \in Made}
                \cup {makeLogRecord(r) : r \in Made}

ConfigRecord == [pc : {"idle", "locked", "pushed", "setWriter", "storeWriter", "done"},
                 logger : Loggers \cup {None}, sink : Sinks \cup {None},
                 writer : Writers \cup {None}, at : Nat]

CallRecord == [pc : {"idle", "bound", "enabled", "publishing", "walking", "done", "disabled",
                     "thrown"},
               record : Made \cup {None}, via : {"default", "given", None},
               ptr : 0 .. Len(erased), loaded : Writers \cup {None}, snap : Nat]

Delivery == [to : Sinks \cup UserWriters, record : Records]

TypeOK ==
    /\ level \in [Loggers -> Levels \cup {kOff}]
    /\ snapshots \in [Loggers -> Seq(Seq(Sinks))]
    /\ snapshot \in [Loggers -> Nat]
    /\ \A l \in Loggers : snapshot[l] \in DOMAIN snapshots[l]
    /\ mutex \in [Loggers -> Configs \cup {None}]
    /\ config \in [Configs -> ConfigRecord]
    /\ defaultLogger \in Loggers \cup {None}
    /\ erased \in Seq(Writers)
    /\ writerPtr \in 0 .. Len(erased)
    /\ call \in [Calls -> CallRecord]
    /\ out \in [Calls -> Seq(Delivery)]
    /\ destroyed \subseteq Writers \ {BuiltIn}
    /\ raced \in BOOLEAN

(* Logger(): one empty snapshot; the built-in logger has its console sink. *)
Init ==
    /\ level = [l \in Loggers |-> kTrace]
    /\ snapshots = [l \in Loggers |-> IF l = BuiltIn THEN << <<>>, <<Console>> >>
                                                     ELSE << <<>> >>]
    /\ snapshot = [l \in Loggers |-> IF l = BuiltIn THEN 2 ELSE 1]
    /\ mutex = [l \in Loggers |-> None]
    /\ config = [k \in Configs |-> IdleConfig]
    /\ defaultLogger = None /\ erased = <<>> /\ writerPtr = 0
    /\ call = [c \in Calls |-> IdleCall]
    /\ out = [c \in Calls |-> <<>>]
    /\ destroyed = {} /\ raced = FALSE

Live == Writers \ destroyed

----------------------------------------------------------------------------
(* Configuring a logger.                                                     *)
(*                                                                           *)
(* The definitions with a double underscore are deliberate mistakes: each is *)
(* a plausible bug in the definition that follows, kept to show that the     *)
(* properties notice it.  The specification uses none of them.               *)

ConfigAt(k, pc) == config[k].pc = pc

Configuring(k, pc, logger, sink, writer) ==
    config' = [config EXCEPT ![k] = [pc |-> pc, logger |-> logger, sink |-> sink,
                                     writer |-> writer, at |-> 0]]

SetLevel(k, l, threshold) ==
    /\ ConfigAt(k, "idle") /\ l \in Live
    /\ level' = [level EXCEPT ![l] = threshold]
    /\ Configuring(k, "done", None, None, None)
    /\ UNCHANGED <<snapshots, snapshot, mutex, defaultVars, call, out, destroyed>>

(* The list is copied and changed without the lock. *)
LockSinks__Unlocked(k, l, sink) ==
    /\ ConfigAt(k, "idle") /\ l \in Live
    /\ mutex' = [mutex EXCEPT ![l] = k]
    /\ Configuring(k, "locked", l, sink, None)
    /\ UNCHANGED <<level, snapshots, snapshot, defaultVars, call, out, destroyed>>

(* addSink(sink), or clearSinks() when sink is None: take m_mutex.  addSink  *)
(* of a null pointer returns at once and is left out.                        *)
LockSinks(k, l, sink) ==
    /\ ConfigAt(k, "idle") /\ l \in Live
    /\ mutex[l] = None
    /\ mutex' = [mutex EXCEPT ![l] = k]
    /\ Configuring(k, "locked", l, sink, None)
    /\ UNCHANGED <<level, snapshots, snapshot, defaultVars, call, out, destroyed>>

NextSinks(k) ==
    LET l == config[k].logger IN
    IF config[k].sink = None THEN <<>>
    ELSE Append(snapshots[l][snapshot[l]], config[k].sink)

(* Copy the current list, change the copy and keep it with the old ones. *)
PushSnapshot(k) ==
    LET l == config[k].logger IN
    /\ ConfigAt(k, "locked")
    /\ snapshots' = [snapshots EXCEPT ![l] = Append(@, NextSinks(k))]
    /\ config' = [config EXCEPT ![k].pc = "pushed", ![k].at = Len(snapshots[l]) + 1]
    /\ UNCHANGED <<level, snapshot, mutex, defaultVars, call, out, destroyed>>

(* Publish the copy; the lock is released on return. *)
StoreSnapshot(k) ==
    LET l == config[k].logger IN
    /\ ConfigAt(k, "pushed")
    /\ snapshot' = [snapshot EXCEPT ![l] = config[k].at]
    /\ mutex' = [mutex EXCEPT ![l] = None]
    /\ config' = [config EXCEPT ![k].pc = "done"]
    /\ UNCHANGED <<level, snapshots, defaultVars, call, out, destroyed>>

----------------------------------------------------------------------------
(* The default logger and the default writer. *)

InDefaults == {k \in Configs : config[k].pc \in {"setWriter", "storeWriter"}}

(* setDefaultLogger(logger): the first of its two stores.  nullptr is None. *)
SetDefaultLogger(k, logger) ==
    /\ ConfigAt(k, "idle") /\ logger \in Live \cup {None}
    /\ defaultLogger' = logger
    /\ raced' = (InDefaults # {})
    /\ Configuring(k, "setWriter", None, None, logger)
    /\ UNCHANGED <<sinkVars, erased, writerPtr, call, out, destroyed>>

(* setDefaultLogWriter(writer) sets the second one alone. *)
SetDefaultLogWriter(k, writer) ==
    /\ ConfigAt(k, "idle") /\ writer \in Live \cup {None}
    /\ raced' = TRUE
    /\ Configuring(k, "setWriter", None, None, writer)
    /\ UNCHANGED <<sinkVars, defaultLogger, erased, writerPtr, call, out, destroyed>>

(* A null pointer is ignored. *)
ClearWriterRef__Ignored(k) ==
    /\ ConfigAt(k, "setWriter") /\ config[k].writer = None
    /\ config' = [config EXCEPT ![k].pc = "done"]
    /\ UNCHANGED <<sinkVars, defaultVars, call, out, destroyed>>

(* setDefaultLogWriterRef({}) *)
ClearWriterRef(k) ==
    /\ ConfigAt(k, "setWriter") /\ config[k].writer = None
    /\ writerPtr' = 0
    /\ config' = [config EXCEPT ![k].pc = "done"]
    /\ UNCHANGED <<sinkVars, defaultLogger, erased, raced, call, out, destroyed>>

(* The one snapshot is overwritten. *)
KeepWriterRef__DropsOld(k) ==
    /\ ConfigAt(k, "setWriter") /\ config[k].writer # None
    /\ erased' = <<config[k].writer>>
    /\ config' = [config EXCEPT ![k].pc = "storeWriter", ![k].at = 1]
    /\ UNCHANGED <<sinkVars, defaultLogger, writerPtr, raced, call, out, destroyed>>

(* setDefaultLogWriterRef(writer): add a snapshot under the mutex, ... *)
KeepWriterRef(k) ==
    /\ ConfigAt(k, "setWriter") /\ config[k].writer # None
    /\ erased' = Append(erased, config[k].writer)
    /\ config' = [config EXCEPT ![k].pc = "storeWriter", ![k].at = Len(erased) + 1]
    /\ UNCHANGED <<sinkVars, defaultLogger, writerPtr, raced, call, out, destroyed>>

(* ... then publish it outside the mutex. *)
StoreWriterRef(k) ==
    /\ ConfigAt(k, "storeWriter")
    /\ writerPtr' = config[k].at
    /\ config' = [config EXCEPT ![k].pc = "done"]
    /\ UNCHANGED <<sinkVars, defaultLogger, erased, raced, call, out, destroyed>>

----------------------------------------------------------------------------
(* Logging calls. *)

CallAt(c, pc) == call[c].pc = pc

CallGoes(c, pc) == call' = [call EXCEPT ![c].pc = pc]

OnlyCalls == UNCHANGED <<sinkVars, config, defaultVars, destroyed>>

Pointee(ptr) == IF ptr = 0 THEN BuiltIn ELSE erased[ptr]

Bind(c, request, via, ptr, writer) ==
    /\ CallAt(c, "idle")
    /\ call' = [call EXCEPT ![c] =
                  [pc |-> "bound", record |-> [request EXCEPT !.context = LogContextOf(@)],
                   via |-> via, ptr |-> ptr, loaded |-> writer, snap |-> 0]]
    /\ UNCHANGED out
    /\ OnlyCalls

(* defaultLogWriterPtr(): log(context), event(context), logAt,               *)
(* logWithContextAt and the macros for the default writer.  `loaded` is      *)
(* history: what the pointer led to when it was loaded.                      *)
BindDefault(c, request) == Bind(c, request, "default", writerPtr, Pointee(writerPtr))

(* log(context, writer), event(context, writer), Logger::log and             *)
(* logWithContext, GALAY_EVENT_AT: the caller names a writer that takes the  *)
(* form of its record, be it defaultLogger().                                *)
BindGiven(c, request, writer) ==
    /\ writer \in Live
    /\ writer \in Loggers \cup (IF request.form = "plain" THEN Plain ELSE Structured)
    /\ Bind(c, request, "given", 0, writer)

Object(c) == IF call[c].via = "default" THEN Pointee(call[c].ptr) ELSE call[c].loaded

(* isEnabled: a Logger compares with its level, a writer of the program may  *)
(* answer anything.                                                          *)
MayBeEnabled(w, recordLevel) ==
    w \in Loggers => level[w] # kOff /\ recordLevel >= level[w]

MayBeDisabled(w, recordLevel) == w \in Loggers => ~MayBeEnabled(w, recordLevel)

CheckEnabled(c) ==
    /\ CallAt(c, "bound")
    /\ MayBeEnabled(Object(c), call[c].record.level)
    /\ CallGoes(c, "enabled")
    /\ UNCHANGED out
    /\ OnlyCalls

CheckDisabled(c) ==
    /\ CallAt(c, "bound")
    /\ MayBeDisabled(Object(c), call[c].record.level)
    /\ CallGoes(c, "disabled")
    /\ UNCHANGED out
    /\ OnlyCalls

(* A structured record for a writer of plain ones keeps its name alone. *)
Converted__NameOnly(record, w) ==
    IF w \in Loggers \/ (record.form = "structured" /\ w \notin Structured)
    THEN [record EXCEPT !.form = "plain", !.fields = <<>>]
    ELSE IF record.form = "plain" /\ w \notin Plain THEN [record EXCEPT !.form = "structured"]
    ELSE record

(* ErasedLogWriter::write, writeStructuredFallback and Logger::write: the    *)
(* record in a form its writer takes.                                        *)
Converted(record, w) ==
    IF w \in Loggers \/ (record.form = "structured" /\ w \notin Structured)
    THEN makeLogRecord(record)
    ELSE IF record.form = "plain" /\ w \notin Plain THEN [record EXCEPT !.form = "structured"]
    ELSE record

(* writer.write(record) of a writer of the program. *)
WriteUser(c) ==
    LET w == Object(c) IN
    /\ CallAt(c, "enabled") /\ w \notin Loggers
    /\ out' = [out EXCEPT ![c] = Append(@, [to |-> w, record |-> Converted(call[c].record, w)])]
    /\ CallGoes(c, "done")
    /\ OnlyCalls

(* Logger::write converts the record, which is the same whenever it happens *)
(* and left to WriteSink here, and publishes it.                            *)
WriteLogger(c) ==
    /\ CallAt(c, "enabled") /\ Object(c) \in Loggers
    /\ call' = [call EXCEPT ![c].pc = "publishing", ![c].loaded = Object(c)]
    /\ UNCHANGED out
    /\ OnlyCalls

(* The list is read under the configuration mutex. *)
LoadSnapshot__Locks(c) ==
    LET l == call[c].loaded IN
    /\ CallAt(c, "publishing")
    /\ mutex[l] = None
    /\ call' = [call EXCEPT ![c].pc = "walking", ![c].snap = snapshot[l]]
    /\ UNCHANGED out
    /\ OnlyCalls

(* Logger::publish: load the snapshot, ... *)
LoadSnapshot(c) ==
    LET l == call[c].loaded IN
    /\ CallAt(c, "publishing")
    /\ call' = [call EXCEPT ![c].pc = "walking", ![c].snap = snapshot[l]]
    /\ UNCHANGED out
    /\ OnlyCalls

Walked(c) == snapshots[call[c].loaded][call[c].snap]

(* ... hand the record to its next sink, ... *)
WriteSink(c) ==
    /\ CallAt(c, "walking") /\ Len(out[c]) < Len(Walked(c))
    /\ out' = [out EXCEPT ![c] = Append(@, [to |-> Walked(c)[Len(@) + 1],
                              record |-> Converted(call[c].record, call[c].loaded)])]
    /\ UNCHANGED call
    /\ OnlyCalls

(* ... which may throw into the caller, the other sinks left out, ... *)
SinkThrows(c) ==
    /\ SinkMayThrow
    /\ CallAt(c, "walking") /\ Len(out[c]) < Len(Walked(c))
    /\ CallGoes(c, "thrown")
    /\ UNCHANGED out
    /\ OnlyCalls

(* ... until the list is through. *)
EndWalk(c) ==
    /\ CallAt(c, "walking") /\ Len(out[c]) = Len(Walked(c))
    /\ CallGoes(c, "done")
    /\ UNCHANGED out
    /\ OnlyCalls

Busy(c) == call[c].pc \in {"bound", "enabled", "publishing", "walking"}

(* The program destroys a writer that was the default and has been replaced  *)
(* or cleared, and that nobody uses under its own name.                      *)
DestroyWriter(w) ==
    /\ w \in Live \ {BuiltIn} /\ \E i \in DOMAIN erased : erased[i] = w
    /\ defaultLogger # w /\ Pointee(writerPtr) # w
    /\ \A k \in Configs : w \in {config[k].logger, config[k].writer} => ConfigAt(k, "done")
    /\ \A c \in Calls : Busy(c) /\ Object(c) = w => call[c].via = "default" /\ ~WaitForCalls
    /\ destroyed' = destroyed \cup {w}
    /\ UNCHANGED <<sinkVars, config, defaultVars, call, out>>

----------------------------------------------------------------------------
ConfigStep(k) ==
    \/ \E l \in Loggers, threshold \in Thresholds : SetLevel(k, l, threshold)
    \/ \E l \in Loggers, sink \in Sinks \cup {None} : LockSinks(k, l, sink)
    \/ PushSnapshot(k) \/ StoreSnapshot(k)
    \/ \E l \in Loggers \cup {None} : SetDefaultLogger(k, l)
    \/ \E w \in Writers \cup {None} : SetDefaultLogWriter(k, w)
    \/ ClearWriterRef(k) \/ KeepWriterRef(k) \/ StoreWriterRef(k)

StartCall(c) ==
    \E r \in Requests : BindDefault(c, r) \/ \E w \in Writers : BindGiven(c, r, w)

CallStep(c) ==
    \/ CheckEnabled(c) \/ CheckDisabled(c) \/ WriteUser(c) \/ WriteLogger(c)
    \/ LoadSnapshot(c) \/ WriteSink(c) \/ SinkThrows(c) \/ EndWalk(c)

Next ==
    \/ \E k \in Configs : ConfigStep(k)
    \/ \E c \in Calls : StartCall(c) \/ CallStep(c)
    \/ \E w \in Writers : DestroyWriter(w)

Spec == Init /\ [][Next]_vars

(* A logging call goes on by itself; a configuring call may stop anywhere,   *)
(* also while it holds the mutex.                                            *)
FairSpec == Spec /\ \A c \in Calls : WF_vars(CallStep(c))

----------------------------------------------------------------------------
(* The properties. *)

(* The state of the list of sinks as SinkList sees it. *)
Promised(l) == snapshots[l][snapshot[l]]

SinksNow == [l \in Loggers |-> Promised(l)]

ChangedBy == [k \in Configs |->
                IF ConfigAt(k, "done")
                THEN [logger |-> config[k].logger, sink |-> config[k].sink] ELSE None]

ViewOf == [c \in Calls |-> IF call[c].snap = 0 THEN None ELSE Walked(c)]

GotBy == [c \in Calls |-> IF call[c].snap = 0 THEN <<>>
                          ELSE [i \in DOMAIN out[c] |-> out[c][i].to]]

SinkLists == INSTANCE SinkList WITH
    InitialSinks <- [l \in Loggers |-> IF l = BuiltIn THEN <<Console>> ELSE <<>>],
    sinks <- SinksNow, changed <- ChangedBy, view <- ViewOf, got <- GotBy

(* Copy-on-write and lock-free reading look like one list that changes in    *)
(* one step: concurrent addSink and clearSinks lose no update, and a record  *)
(* goes to the sinks of one moment however the list changes during the walk  *)
(* (Logger::addSink, clearSinks, publish).                                   *)
ImplementsSinkList == SinkLists!Spec

(* A call that loaded the default writer's pointer still finds the writer it *)
(* loaded there, however often the default is replaced meanwhile             *)
(* (g_defaultWriterSnapshots keeps the old ones).                            *)
LoadedWriterOwned ==
    \A c \in Calls : Busy(c) => call[c].ptr <= Len(erased) /\ Object(c) = call[c].loaded

Content(r) == r.text \o r.fields

(* A record that passes the level check reaches its writer once (a sink once *)
(* per entry of the list, unless one throws), in a form the writer takes and *)
(* with its name, fields, level and context, whichever fallback it goes      *)
(* through (ErasedLogWriter::write, writeStructuredFallback, makeLogRecord). *)
RecordArrives ==
    \A c \in Calls :
        /\ \A i \in DOMAIN out[c] :
              LET w == out[c][i].to  r == out[c][i].record IN
              /\ w \in Structured \/ r.form = "plain"
              /\ w \in Plain \cup Sinks \/ r.form = "structured"
              /\ Content(r) = Content(call[c].record)
              /\ r.level = call[c].record.level /\ r.context = call[c].record.context
        /\ CallAt(c, "done") => Len(out[c]) = IF call[c].snap = 0 THEN 1 ELSE Len(Walked(c))

(* When the last setDefaultLogger had the defaults to itself, the default    *)
(* logger and the default writer are the same object again, also after they  *)
(* were cleared (setDefaultLogger, defaultLogger, defaultLogWriterPtr).      *)
DefaultsAgree ==
    ~raced /\ InDefaults = {} =>
        Pointee(writerPtr) = IF defaultLogger = None THEN BuiltIn ELSE defaultLogger

(* Logging is lock-free: a call returns or throws even if configuring calls  *)
(* stop for good, also inside the lock (Logger::publish).                    *)
LogCallsReturn == \A c \in Calls : Busy(c) ~> ~Busy(c)

(* A call that has the default writer finds it alive: what                   *)
(* docs/03-日志关联.md promises to a program that clears the default before  *)
(* it destroys the writer.                                                   *)
HeldWriterAlive == \A c \in Calls : Busy(c) => Object(c) \notin destroyed

=============================================================================
