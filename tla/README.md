# galay-tracing: specification, model checking and proofs

TLA+ models of galay-tracing (`src/galay-tracing`), a C++ library for distributed
tracing and logging. The models follow the source line by line in their control
(every atomic access, guard, early return and error path) and abstract its data.
`PROJECT.json` maps every definition to the lines it models.

## 1. The system

| Component | State | Operations | Interacts with |
|---|---|---|---|
| `BatchSpanProcessor` (`kernel/batch_span_processor.cc`) | queue, counter `size`, semaphore, flags, one worker thread | `onEnd`, `forceFlush`, `shutdown`, destructor, `workerLoop` | producers on any thread; a `SpanExporter` called from the worker |
| `SpanGuard`, `startSpan`, `startServerSpan` (`kernel/span_guard.cc`) | the span, the context to restore, `m_active` | start, move, assign, `end`, destroy | thread-local context, sampler |
| Context storage (`context/context_storage.cc`) | one `CurrentContextState` per thread | get, set, clear | guards, kernel scopes, logger |
| Sampler (`kernel/sampler.cc`) | one process-wide pointer | `setSampler`, `shouldSample` | `startSpan`, `startServerSpan` |
| Kernel adapter (`adapters/kernel_context.h`) | the saved `TraceContext` | scope, `captureTraceContext` | context storage, other threads |
| `Span` (`kernel/span.cc`) | kind, status, bounded attributes, times; the process-wide timing policy | construct, `setKind`, `setStatus`, `setAttribute`, `end` | guards, exporters |
| `FileSpanExporter` (`kernel/file_span_exporter.cc`) | a stream, a mutex | `exportSpans`, `forceFlush`, `shutdown` | the worker and shutdown callers |
| `OtlpHttpExporter` (`kernel/otlp_http_exporter.cc`) | configuration, a transport; the transport's mutex and runtime | `exportSpans`; `forceFlush` and `shutdown` do nothing | the worker, galay-http, the program's transport |
| Logger (`log/logger.cc`, `logger.h`) | level, copy-on-write sink snapshots, default logger and writer | `addSink`, `clearSinks`, `write`, `setDefaultLogger`, `setDefaultLogWriter`, `log`, `event` | all threads, sinks, the program's writers |
| Wire formats (`context/traceparent.cc`, `common/id_format.cc`) | none | parse and format ids, W3C headers | HTTP integrations |
| Console sink, macros, spdlog adapter, C++ module | none | formatting, forwarding | logger |

What is hard in it:

* The processor is lock-free. Admission is a counter beside the queue, updated in
  separate steps; the wake-up is a semaphore with a flag that suppresses
  redundant releases; `shutdown` and `forceFlush` race through a counter of
  active flush callers. The properties: nothing accepted is lost or exported
  twice, the queue stays bounded, no wake-up and no flush request is forgotten,
  every call returns, and results are honest.
* Guards can be moved between objects and threads and must still end each span
  once and put the right context back. The properties: one holder per span,
  scoped use is a stack, traces are connected and sampled as a whole.
* The logger's readers take no lock, its sinks are replaced by copy, its writers
  are type-erased with fallbacks in both directions, and its default logger and
  default writer are two pointers. The properties: the sinks behave as one
  atomic list, a record arrives once and whole, the defaults agree again, logging
  never waits for a configuring thread.
* The exporters' failures are sticky or spread over many exits of a coroutine, and
  batches are serialised by a mutex held over slow calls. The properties: results
  are honest, batches stay whole, nothing stays open, every export returns, and
  a receiver reads the spans that were exported.
* Headers are parsed by position. The properties: exactly the grammar is accepted, and
  what was written is read back over any number of hops.

## 2. Modules

| Module | Models | Uses |
|---|---|---|
| `SpanQueue` | the inner class `SpanQueue`: `tryPush`, `tryPopBulk`, `empty` | |
| `WorkerControl` | `notify`, `forceNotify`, `waitFor` | |
| `BatchSpanProcessor` | the whole processor: producers, flush callers, shutdown callers, worker | extends both |
| `SpanPipeline` | what a processor promises its users (abstract) | instantiated by `BatchSpanProcessor` |
| `SpanGuard` | guards, context storage, sampler, kernel scope | |
| `ScopedSpanGuard` | the same, in last-in first-out order | extends `SpanGuard` |
| `ContextStack` | a stack of contexts per thread (abstract) | instantiated by `ScopedSpanGuard` |
| `Logger` | loggers, default logger and writer, logging and configuring calls | |
| `SinkList` | a logger's sinks as an atomic list (abstract) | instantiated by `Logger` |
| `FileSpanExporter` | the exporter and the stream it writes to | |
| `Span` | the data of a span and the timing policy | |
| `OtlpJson` | body and headers of a request, and what a receiver reads | |
| `OtlpHttpExporter` | the exporter, its transports and their runtime | extends `Span`, instantiates `OtlpJson` |
| `Traceparent` | hex format, header parsing and writing, a chain of services | |
| `MC*` | constants, symmetry and bounds for TLC | |
| `*Proofs` | TLAPS theorems | |

A definition whose name contains `__` is a deliberate mistake (`Dequeue__Peeks`),
kept beside the definition it distorts to show that a property notices it. No
specification uses one.

### SpanQueue

`size` is the atomic counter, `spans` the contents of the moodycamel queue as a
set (consumers of a multi-producer queue may see elements in any order between
producers, and no property is about order). `push[s]` is the position of the
`tryPush` call for span `s`: `Reserve` is the `fetch_add` with its comparison,
`CheckClosed` the load of `shutdownRequested`, `Enqueue`/`EnqueueFails` the
enqueue, `Undo` the `fetch_sub` of a refusal. The worker's pop is
`PopSeesEmpty`/`PopSeesWork` (the load of `size`), `Dequeue` (any nonempty subset
of at most the batch size, because a bulk dequeue may miss elements) or
`DequeueNothing`, and `Subtract`. `Capacity` and `MaxBatch` are computed from the
configuration as `normalizeConfig` does.

### WorkerControl

`signalPending` and the counting semaphore `signal`. `notify` is an exchange and,
if the flag was clear, a release; `forceNotify` stores the flag and always
releases; `waitFor` acquires or times out and then clears the flag. A wait may
time out at any moment: the model has no clock.

### BatchSpanProcessor

One action per atomic access. A span of `Spans` stands for one `onEnd` call, a
member of `Flushers` for one `forceFlush` call, a member of `Closers` for one
`shutdown` call (the destructor is one more). `w` holds the worker's position
and the locals of `workerLoop` and of its lambdas; `drainUntilIdle` is shared by the
flush and the shutdown drain, as in the code, through `w.drain`. `Expire(t)`
makes a call's deadline pass, at any time in which it is still observed. The
exporter may return any result of `ExporterSays`, and is taken to return one:
`exportBatch` (lines 387-399) has no `try`, so that an exception on the worker thread ends
the process (`std::terminate`), and the model ends where the process does.
`before`, `exported` and `failed` are history variables: no action reads them.

`forceFlush` may throw between counting itself in `activeFlushCallers` (line 214) and any
of the places that count it out: `make_shared` at line 224 allocates. `FlushThrows` is
that exit. It leaves the call's `path` at `"thrown"` (`SectionLeaked`) and `active` one too high
for ever. A failing enqueue at line 225 is another step, `FlushEnqueueFails`, and counts
itself out.

Abstractions: memory is sequentially consistent; every modelled span is sampled
(`onEnd` drops the others in its first line); the exporter is not null; logging
is left out; timestamps are left out.

### SpanGuard and ScopedSpanGuard

`current[t]` is the `thread_local` state, `guard[g]` and `scope[k]` the members of
the objects that exist, `sampler` the process-wide pointer. A call of this part
touches one thread's storage and loads the sampler once, so one call is one step.
`captured` lets any thread pass on what any other has captured. `SpanGuard`
allows every order of moves and destructions on every thread. `ScopedSpanGuard`
adds `nest`, the open guards and scopes of a thread, and allows only the order of
nested blocks. Ids are model values: a root names its trace after itself, the
generator does not repeat ids, and the all-zero id is `Zero`. Of the flags only the
sampled bit is kept; the ratio sampler is the set `LowTraces` it accepts. A guard is not
a scope (`ScopedAssumption`), so that `nest` can hold both.

### Logger and SinkList

One action per atomic access, lock or call into user code. A snapshot is an index
into the logger's list of snapshots, as the code's pointer is an address in
`m_sinkSnapshots`; `erased` is `g_defaultWriterSnapshots`, and `writerPtr` an index into
it. A configuring call (`Configs`) is an `addSink` or `clearSinks` (lock, push the
copy, store the pointer), a `setLevel`, a `setDefaultLogger` (two stores), or a
`setDefaultLogWriter` (keep, then store). A logging call (`Calls`) binds a writer, the
default or a given one, asks `isEnabled`, converts the record where the writer is of
the other kind, and for a logger loads the snapshot and walks it. Sinks may throw. The
program destroys a writer only when no default names it and, with `WaitForCalls`,
no call holds it. A record is a form, a text, fields, a level and a context; the
fields `makeLogRecord` renders follow the name in the text. `Parts` are what texts and
fields are put together from, `Contexts` the contexts a program may log with, `Requests`
the records TLC tries among them. Left out: source
locations, times, and the precision `std::to_string` loses in doubles.

### FileSpanExporter

The stream is external and modelled by what the code can see: open, good, a buffer, the
disk. An insertion spills any part of the buffer; an insertion or a flush may break
the stream, with a part written and perhaps a torn line; closing writes or loses
the rest. A batch is inserted span by span under the mutex. A line stands for
`renderSpanJson` of one span.

### Span, OtlpJson and OtlpHttpExporter

A span's strings are sequences of character codes, because escaping is what is
checked: `OtlpJson` builds the request's objects with `EscapeChar` translated from
`appendJsonString`, and reads them back by RFC 8259, not by the code. `Readings(text)` is the
set of strings a text can be read as: between two quotes stand characters other than
quotes, backslashes and control characters, the eight escapes of one letter, and `\u` with four
hexadecimal digits. A bare quote, a bare control character, an unknown escape and one that is
cut off leave no reading, and `ReadString` is then `None`. Characters are bytes: those above 127 pass through as the code passes
them, whether they are UTF-8 is up to the program, and surrogates, which the code never
writes, are not combined. Absent keys mean the protocol's default. Header names compare without case, as
`asciiEqualsIgnoreCase` does: a header is a name and a spelling. Numbers keep their
value.

`Request` is what every transport is given, the body and the headers of `makeHeaders`;
`SentHeaders` is what `sendWithGalayHttp` makes of those headers for its own transport.
`RequestFaithful` says that a receiver reads the exported spans, resource and scope from the
body (`BodyFaithful`), that every transport is given all of the program's headers and a content
type, its own where it gave one (`HeadersFaithful`), and that galay-http posts that content type
and, of each header, the value given or a later one, with a default only where one is missing
(`SentFaithful`).

`OtlpHttpExporter` follows one call of `exportSpans` through its transport:
unavailable, the program's own, or galay-http with rejection on scheduler threads,
the mutex, the runtime, and the coroutine's parse, connect, post and close, each of which
may fail, run into its timeout or throw. The body carries no times: the code
does not send them.

### Traceparent

The conversions are operators over character codes and bytes at full length (55
characters, 16 and 8 bytes). The state machine is a chain of services: write the header,
damage it anywhere (change, append, drop a character), read it, go on with the context
that was read. `WellFormed` is the grammar by separators: `Separators(value)` are the
positions of the dashes, and the four `Fields` stand between them, independent of the
offsets in `extractTraceparent`.

## 3. Runs

Passing runs (`tlc -config X.cfg M`):

| Run | Checks | Instance, and why it is enough |
|---|---|---|
| `pipeline` | `SizeAccounting`, `CapacityBound`, `LoneDropOnlyWhenFull`, `ExportedOnce`, `NoStrandedSpan`, `ShutdownMeansDrained`, `ExporterClosedLast`, `ImplementsPipeline` | 3 producers and 2 shutdown callers, capacity 1, configured batch 5 (normalised to 1), failing allocations and exports. The counter exceeds the capacity and falls back, the bound capacity + batch is reached while a third push is in flight, one caller joins and one polls, deadlines pass |
| `flush` | types, `NoLostFlush`, `FlushCovers`, `OnEndWakeup`, `PendingIsBacked`, `ShutdownWakeup` | 2 spans, 2 flush callers, a shutdown, batches of 2, failing allocations (an enqueue or `make_shared`) and exports, mode `kOnEnd`. The constraint `TwoInstances` keeps two systems of it apart: the flush callers against the shutdown, where the worker may stop between any two of their steps, and one flush beside the producers without a shutdown, whose wake-ups would hide a lost one |
| `liveness` | `FlushTrueMeansTaken`, `CallsReturn` | a producer, a flush and a shutdown, under fairness, with failing allocations: both exits of the flush are taken, and it may throw |
| `trace_identity` | `OneHolder`, `NoForgedContext`, `Connected`, `WholeTraces` | 2 threads, 2 guards, 2 spans (a parent and a child), a scope with failing copies, an unsampled remote trace, 2 samplers |
| `scoped_guards` | types, `ImplementsStack` | one thread, 2 guards, 1 scope, 2 spans, an invalid context with a tracestate, moves |
| `logging` | `LoadedWriterOwned`, `RecordArrives`, `DefaultsAgree`, `ImplementsSinkList`, `LogCallsReturn` | the built-in and one more logger, a plain and a structured writer, 2 sinks that may throw, 2 configuring calls of any kind (two can race on one list or on the defaults), one logging call with a plain or a structured record. Two overlapping calls that set a default leave the defaults apart until a third one sets them again; that takes three configuring calls and is covered by the theorem `DefaultsStayTogether`, not by the run |
| `file_exporter` | `FlushHonest`, `BatchesWhole`, `FailureIsFinal`, `ClosedForGood` | 2 batches of 2 spans (torn apart without the lock) and an empty one, a flush, 2 shutdowns, a file with old content, every split of the buffer and every failure |
| `otlp_exporter` | `TimesMatch`, `RequestFaithful`, `ResultHonest`, `ConnectionsClosed`, `FirstEndCounts`, `ExportsReturn` | one span with every class of awkward character, exported behind a span with all optional parts, 2 concurrent exports, 5 configurations (each transport and endpoint, given, repeated and missing headers, one for the program's own transport), status codes 199, 299, 300, clock up to 2, one attribute allowed |
| `traceparent` | `IntactArrives`, `AcceptsGrammar`, `ForwardsSame` | 2 contexts with their only non-zero byte at an end of each id, 2 damages, 2 hops; characters at and beside the ends of the digit ranges, positions at the ends of the fields: where an off-by-one bites |

Runs that show a disagreement between a document and the code. Each checks the
document's sentence and TLC refutes it:

| Run | The document says | What the code does |
|---|---|---|
| `doc_drop_when_full` | a span is dropped when the queue is full (`batch_span_processor.h:38`, `:48`, `:69`, `:90`) | `tryPush` counts a push in `size` before it is refused and takes it out afterwards; until then other pushes are refused on its account, even over an empty queue. What holds is `LoneDropOnlyWhenFull`: not so when no other refusal is being undone |
| `doc_guard_reassign` | the guard activates its span and restores the previous context | `guard = startSpan(...)` on an active guard makes the new span not current and at the end restores the ended span's context |
| `doc_writer_lifetime` | a writer may be destroyed after `setDefaultLogWriter(nullptr)` (`docs/03`) | the clear does not wait: a call that loaded the pointer before uses the writer after its destruction |

Further disagreements, without a run of their own:

* `docs/04` says that `shutdown` always wakes the worker at once. The 1 ms wait inside a
  flush's drain can take its token, and the worker sleeps for `flush_interval` before it
  stops (`CallsReturn` holds).
* `docs/plans/2026-05-19-galay-tracing-design.md:283-284` has `shutdown` stop the worker and
  no destructor block for ever, and the plan beside it (`implementation.md:376`) repeats it.
  After a `forceFlush` that threw in `make_shared`, `activeFlushCallers` stays above 0, the worker
  does not stop and `shutdown` waits in `join` for ever (`LeakedSectionHangs`).
* `batch_span_processor.h:90` says that `droppedSpanCount` counts spans dropped because the queue is
  full. A failed allocation in the enqueue (`batch_span_processor.cc:85-86`) is counted there
  too (`:184`).
* `batch_span_processor.h:31` says that `kBatchSize` wakes the worker when `max_batch_size`
  spans are queued. Only the push whose own count crosses the limit notifies, the count
  includes pushes in flight, and a full batch may be left to the timer.
* `batch_span_processor.h:75` says that `forceFlush` returns true when the spans are
  flushed. The early exit during shutdown takes an empty queue for a finished export; what
  holds is `FlushTrueMeansTaken`.
* `release_note.md:15` says that the exporter is closed after the drain. A polling caller
  closes it when its own deadline passes; what holds is `ExporterClosedLast`.
* `CHANGELOG.md:15` says that `shutdownDrainOk` records the drain's result. A failed drain is
  forgotten when the worker goes round once more.
* `span_guard.h:77` says that `SpanGuard::end()` restores the previous context; the code
  (`span_guard.cc:92`) only ends the span.
* `file_span_exporter.h` says that `shutdown` returns true on success; it always does.

None of those of the processor loses an accepted span: `NoStrandedSpan` and `ExportedOnce`
hold on the same model, and so does `CallsReturn`, which excepts the shutdown after a `forceFlush` that threw.

Symmetry is used where spans, callers, guards or threads are interchangeable and
only for safety properties that do not tell them apart. Deadlock is checked in the runs of
the processor, where `Terminated` is the state in which all calls have returned and the worker
has stopped, and of the guards; in the others every call is made once and the system
really stops.

## 4. Fairness

`FairSpec` assumes weak fairness of each thread inside a call and of the worker:
the operating system schedules a runnable thread again, a wait with a timeout
ends, and the exporter's calls return. It assumes nothing of the callers: no call
need start, and no deadline need pass, so `CallsReturn` does not rest on timeouts. It
has one exception, which is the code's: after a `forceFlush` that threw (`SectionLeaked`), flush calls
still return, but `shutdown` need not, and `LeakedSectionHangs` proves that the worker
cannot stop. A wait of the worker does time out, so `CallsReturn` would not notice a
wake-up that is only late; `ShutdownWakeup` and `OnEndWakeup` say of states that no wake-up
is missing.

`Logger!FairSpec` has only logging calls go on: a configuring call may stop for good, also
while it holds a logger's mutex. `OtlpHttpExporter!FairSpec` has threads run, the timers of
connect and post fire (both get `request.timeout`), and close and the program's own
transport end, which the code relies on without a timeout; it assumes no connection and no
answer.

There is no strong fairness: a step a thread can take stays possible until it takes it or
is replaced by another of its own steps. The one exception is the transport's lock, which another
export can take first; weak fairness is enough there because each modelled call is made once,
so `ExportsReturn` says nothing of starvation by an endless stream of exports.

## 5. Proofs

All theorems are for every value of the constants under the named assumptions:

| Assumption | Says |
|---|---|
| `SpanQueueAssumption` | finitely many spans, natural configuration values |
| `ProcessorAssumption` | the kinds of calls are disjoint, finitely many flush callers, the exporter returns a Boolean |
| `SpanGuardAssumption` | received ids differ from generated ones; `std::nullopt` and the zero id are no span's id |
| `ScopedAssumption` | no guard is a scope |
| `LoggerAssumption` | the built-in logger is a logger and the console a sink, loggers are not user writers, a plain record has no fields |
| `FileAssumption` | the kinds of calls are disjoint, batches have natural sizes, the old content is a finite file |
| `SpanAssumption`, `OtlpAssumption` | enumerations have the values of the header, the clock has started; names, tracestates, messages, string attributes and the scope are sequences of 8-bit characters, attributes have one of the five types; status codes are natural, each setup has one of the transports and endpoints and a finite list of headers, none of which has the value `"default"` that stands for what the code fills in |
| `TraceparentAssumption` | services start from valid contexts; damage is done by 8-bit characters |

In all of them the model value `None` is none of the values it stands beside.

* `SpanQueueProofs`. The inductive invariant `SQInv` is the conjunction of types,
  `NoDuplicate`, `SizeAccounting` and `CapacityBound`. The accounting
  `size = pushes in flight + queued + popped and not yet subtracted` cannot be kept by
  `Dequeue` unless queue and batch are disjoint, and the bound needs the
  accounting since `Reserve` compares the counter and not the queue. `EmptyMeansSealed` follows
  from the accounting alone: a counter of 0 leaves no push in flight.
  `SealedForGood` and `LoneDropsNeedAFullQueue` are action properties from the same
  invariant: without refusals being undone the counter is the room that is taken.
* `WorkerControlProofs`. `PendingIsBacked` is inductive together with types: the
  flag is set only while a token exists, a notifier is about to release one, or
  the waiter has taken one and is about to clear the flag.
* `BatchSpanProcessorProofs`. Every step of the processor is a step or a stutter of
  each component (`ImplementsSpanQueue`, `ImplementsWorkerControl`), so that the
  components' invariants carry over. `ProcInv` adds: `WorkerShape` (which locals go
  with which position), `ExitSealed` (past its last test the worker has a sealed
  queue), `Conserved` (accepted spans are queued, in the batch or handed over),
  `SectionCounted` (`active` is the number of callers in the section),
  `RequestShape` (where a request is, by its caller's position) and `ExitClosed`
  (past its last test nobody can enqueue a request). A caller that threw is in the section for ever,
  which `SectionCounted` counts; hence `LeakedSectionHangs`: the worker never sees
  `activeFlushCallers = 0` again. From `ProcInv` follow
  `ExactlyOnce`, `ShutdownLosesNothing`, `EveryFlushAnswered` and
  `BSPTypeCorrect`; `FlushIsComplete` needs one more invariant, `AnswerCovers`, and
  `ShutdownIsHonest` needs `CloserShape`. `FlushLeavesNothing` adds `EarlyExit` (the
  early exit is taken during shutdown, and true there means a sealed queue), and
  `ExporterOutlivesDrain` adds `ExporterOrder` (a shutdown caller past its wait has seen
  the worker stop or is late).

  `ProcessorImplementsPipeline` is the refinement of `SpanPipeline`. Each span has one
  fate (`FateByPlace`, from `Conserved` and `NoDuplicate`), so a step of the code can be
  read off the fates it changes: an enqueue accepts, an undone reservation refuses, the
  end of an export delivers the batch, the worker's stop ends the pipeline, and all other
  steps stutter. It needs `BatchBounded` besides `ProcInv` (a batch has at most
  `max_batch_size` spans, and a push is refused as closed only after shutdown), and that
  the worker stops only with a sealed queue.

  `OnEndIsPrompt` says that no span waits for the timer in mode `kOnEnd`. Its invariant is
  `QueuedIsNoticed`: while a span is queued, somebody is notifying, a token is there, the
  worker has just taken one, or the worker is at a point of its loop that looks at the
  queue before it sleeps. The interesting steps are a `notify` that skips its release
  because another is pending (then `PendingIsBacked` gives the token), the worker's wait,
  which clears the flag before it looks, and the end of a drain, which has seen a counter
  of zero, that is, an empty queue (`ZeroMeansEmpty`). A drain that gives up at its
  deadline is the one exception, and the property's hypothesis.
* `SpanGuardProofs`. `SGInv` is the conjunction of the four properties of
  `trace_identity`, types, and two facts they lack: `GuardsHold` (an active guard
  holds a started span, so that a new span has no holder yet and `Ended` is applied
  to a span) and `TracesStarted` (a span's trace is named after a started span or
  was received, so that a new root cannot meet an old trace, whose decision may
  differ). `Connected` rests on `NoForgedContext`: the parent of a new span is the
  current context. From it follow `EverySpanHeld`, `ContextsAreKnown`,
  `TracesConnected`, `TracesWhole` and `SGTypeCorrect`.

  `ScopedUseIsStack` is the refinement of `ContextStack` by scoped use. `NestOK` says that
  what is nested is open, and nested once on one thread only: hence a step on one guard
  changes one entry of one stack. Opening pushes because the new guard saves the context
  it covers (`StartSaves`), closing pops because the topmost guard or scope puts back what
  it saved (`SavedNormal`: a guard that saved no context saved no tracestate, so that
  restoring through `setCurrentContextState` changes nothing), a move puts one guard in
  another's place, and everything else replaces the top at most. The hypothesis
  `~AllocationMayFail` is the code's: when `~KernelTraceContextScope` cannot copy the
  saved context it clears the current one, and that is not a pop.
* `LoggerProofs`. `Inv` is the conjunction of `TypeOK` (every stored index is that of a
  snapshot that exists), `Locks` (a configuring call between its lock and its store has the
  mutex alone, and the list it extends is still the published one), `Pending` (a call that
  sets a default will publish the snapshot it kept), `Agree` (the defaults agree, unless
  the one call that sets them is under way), `CallsOK` (by position: what a logging call has loaded
  is still owned, and what it has delivered is a prefix of the list it loaded),
  `DefaultAlive` and `HeldAlive`. Snapshots are only ever appended, which is why a
  reader without a lock can go on. From it follow `LoadedWriterStaysOwned`,
  `RecordsArrive` (with the lemmas on the conversions between plain and structured records) and
  `DefaultsStayTogether`. `LoggerImplementsSinkList`: the store of the snapshot pointer is
  the step of the abstract list, the load is the moment a log call reads it, everything else
  stutters. `WaitingKeepsWritersAlive` states the discipline under which the
  sentence that `doc_writer_lifetime` refutes does hold: a program that, before it destroys
  a writer, also waits for the calls that hold it.
* `FileSpanExporterProofs`. `Inv` relates the lines the stream has taken (`All`, the file followed
  by the buffer) to the calls while the stream is good: the old content comes first,
  every other line was written by some call, once, a batch that succeeded is one run of lines
  (`Runs`), and the batch being written is the last run (`LastRun`). Without the lock
  (`Locking`) `LastRun` is not kept, which is how `BatchesStayWhole` depends on it.
  `FailureRemembered` gives `FailuresAreFinal`; `Flushed` gives `FlushIsHonest`, which is an invariant in its own
  right because the file only grows while the stream is open; `Closing` gives `ClosedStaysClosed`.
* `OtlpHttpExporterProofs`. `SpanInv` (types, `TimesMatch` and `Clocked`: no time was taken
  from a clock that had not got there) is about spans alone and gives `TimesAlwaysMatch`
  and `EndIsFinal`. `Answers` says that a status a call has is that of a server's answer to this
  request, `Results` that success needs such a status or an empty batch, `Opened` that a connection is open
  only while a request is posted or the client is closed, `Holds` that the mutex belongs to the call
  that uses the transport. Hence `ResultsAreHonest`, `ConnectionsAreClosed` and
  `OneConnectionAtATime`.

  `RequestsAreFaithful` follows from the types alone, by what a receiver reads. Its core is
  `StringRead`: for every string of 8-bit characters, what `JsonString` writes has one reading by the
  rules of JSON, the string itself. A string left unquoted or a quote left bare would have none. That
  takes three inductions: the flattened escapes of a string are the
  recursive function that `FlattenSeq` chooses (`FlattenExists`), so are the readings from
  each place (`ReaderExists`, since `ReadAt` only looks ahead, `ReadsAhead`), and the
  place behind the k-th escape has the characters after the k-th as its one reading
  (`ReadsBack`, from the last character to the first, one
  escape at a time by `ReadEscaped`). The library's induction theorems take an operator,
  which no installed prover can instantiate; `SetInduction` says the same of a set of
  naturals, and is proved from the pigeonhole principle: were a number missing, the
  successor function would map the elements below it one-to-one into themselves without 0.
  On strings rest `AttributesRead`, `StatusRead`, `SpanRead` and `ScopeRead`, where a key that
  is left out means the default. For the headers, `HeadersKept` says what `makeHeaders` gives every
  transport, `LastPlace` (again by `SetInduction`) that the last of several places exists, and `Made`
  relates the places before and after `makeHeaders` puts the content type in front, from
  which what galay-http posts follows.
* `TraceparentProofs`. The lemmas at the bottom are about the conversions: digits and values
  are inverse (`LowerChar` and `HexValue` over the 256 characters, byte by
  byte), so `ParseHex` inverts `FormatHex` at any offset, and `FieldsRead` says when each field is read.
  `Readable` states by offsets what `extractTraceparent` accepts; `ReadableGrammar` shows
  it equivalent to the grammar by separators, and `RoundTrip` and `WrittenAsRead` that
  writing and reading are inverse in both orders, up to the case of letters.
  The invariant of the chain (`TypeOK`, `Reading`: what was read is what
  `Extract` gives of the header, `StateKept`) then gives `IntactAlwaysArrives`,
  `AcceptsExactlyGrammar` and `AlwaysForwardsSame` for every valid context, any damage
  and any number of hops, where the run tries two contexts.

## 6. What is only model-checked

* Liveness under fairness, which the prover does not handle: `CallsReturn`, `LogCallsReturn`,
  `ExportsReturn`.
* The refutations of section 3. Their reverse is proved where there is one: scoped use without
  reassignment is a stack (`ScopedUseIsStack`), and a program that waits keeps its writers
  alive (`WaitingKeepsWritersAlive`).
* `ShutdownWakeup`.
* Nothing else: every other property of a passing run is also a theorem.

## 7. What is not modelled

* An exporter that throws, which ends the process (section 2).
* Weak memory: `size` is accessed with `memory_order_relaxed`, and the models give
  every access its place in one order.
* The internals of moodycamel's queue, of `std::counting_semaphore`, of
  `std::ofstream`, of the random generator and of the galay-http runtime. In particular
  `ensureRuntime` stores `m_runtime` before `start()`: what a later `spawn` does after a
  `start` that threw is galay-kernel's matter, and the model takes it to run or to throw.
* Text that no property is about: log lines, the wording of errors, numbers. The
  JSON writer of `FileSpanExporter` escapes quotes and backslashes only, so that a name
  with a newline gives two lines of the file; `appendNumber` writes NaN and infinities as
  words and a `uint64` above the `int64` maximum as an `intValue`.
* The source locations of log records: `logTrace` and its siblings take
  `SourceLocation::current()` inside `logger.h`.
* `estimateOtlpJsonBodySize`, which only reserves memory.
* Console sink, spdlog adapter, macros, module facade, examples, benchmarks.

## 8. Plan

Done: the processor, the guards, the logger, both exporters, spans and wire formats, each
with its runs; the proofs of section 5, that is, every safety property, action property and
refinement the passing runs check except `ShutdownWakeup`. Left: a proof of that one, by an
invariant like `QueuedIsNoticed` for the flag instead of the queue, and lemmas that would make the processor's proof
shorter, should its loop change, such as a contract of its own for `drainUntilIdle`.
