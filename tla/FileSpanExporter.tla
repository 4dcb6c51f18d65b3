-------------------------- MODULE FileSpanExporter --------------------------
(***************************************************************************)
(* FileSpanExporter (kernel/file_span_exporter.cc): batches of spans as    *)
(* lines of a file, through one std::ofstream under one mutex.             *)
(*                                                                         *)
(* The stream belongs to the C++ library and is modelled by what the code  *)
(* can see of it: it is open or not, good or not (operator bool), it       *)
(* buffers, and every access to the disk may fail half-way.  A stream that *)
(* has gone bad ignores insertions and flushes.                            *)
(***************************************************************************)
EXTENDS Naturals, Sequences

CONSTANTS Exports,      \* calls of exportSpans
          BatchSize,    \* BatchSize[e]: the spans given to call e
          Flushes,      \* calls of forceFlush
          Shutdowns,    \* calls of shutdown
          Old,          \* what the file holds before it is opened
          Torn, None

Calls == Exports \cup Flushes \cup Shutdowns

ASSUME FileAssumption ==
    /\ BatchSize \in [Exports -> Nat]
    /\ Exports \cap (Flushes \cup Shutdowns) = {} /\ Flushes \cap Shutdowns = {}
    /\ None \notin Calls \cup BOOLEAN
    /\ Old \in Seq({Old[i] : i \in DOMAIN Old})

VARIABLES
    open, good,   \* the state of m_out
    buffer,       \* lines the stream has not written yet
    disk,         \* lines of the file; Torn stands for a part of one
    mutex,        \* the call that holds m_mutex
    pc,           \* pc[c]: the position of call c
    written,      \* written[e]: how many spans call e has inserted
    result,       \* result[c]: what call c returned
    tried,        \* history: the results of the exports in the order of the lock
    durable       \* history: exports reported successful before a flush that
                  \* returned true

stream == <<open, good, buffer, disk>>
vars == <<stream, mutex, pc, written, result, tried, durable>>

Line(e, i) == <<e, i>>
Lines(e) == [i \in 1 .. BatchSize[e] |-> Line(e, i)]
Succeeded == {e \in Exports : result[e] = TRUE}

SpanLines == Exports \X Nat
Content == SpanLines \cup {Torn} \cup {Old[i] : i \in DOMAIN Old}

TypeOK ==
    /\ open \in BOOLEAN /\ good \in BOOLEAN
    /\ buffer \in Seq(SpanLines) /\ disk \in Seq(Content)
    /\ mutex \in Calls \cup {None}
    /\ pc \in [Calls -> {"start", "locked", "writing", "flushed", "done"}]
    /\ written \in [Exports -> Nat]
    /\ \A e \in Exports : written[e] <= BatchSize[e]
    /\ result \in [Calls -> BOOLEAN \cup {None}]
    /\ tried \in Seq(BOOLEAN)
    /\ durable \subseteq Exports

(* The file is opened for appending, which may fail. *)
Init ==
    /\ open \in BOOLEAN /\ good = open
    /\ buffer = <<>> /\ disk = Old
    /\ mutex = None
    /\ pc = [c \in Calls |-> "start"]
    /\ written = [e \in Exports |-> 0]
    /\ result = [c \in Calls |-> None]
    /\ tried = <<>> /\ durable = {}

----------------------------------------------------------------------------
(* The stream. *)

(* Some of the lines reach the disk, in order, and the others are kept. *)
Spill(lines) ==
    /\ \E n \in 0 .. Len(lines) : /\ disk' = disk \o SubSeq(lines, 1, n)
                                  /\ buffer' = SubSeq(lines, n + 1, Len(lines))
    /\ UNCHANGED <<open, good>>

(* The disk refuses: a part has been written, the buffer is not given up. *)
Break(lines) ==
    /\ \E n \in 0 .. Len(lines), tear \in {<<>>, <<Torn>>} :
            disk' = disk \o SubSeq(lines, 1, n) \o tear
    /\ good' = FALSE
    /\ UNCHANGED <<open, buffer>>

Insert(line) ==
    IF ~good THEN UNCHANGED stream
    ELSE IF ~open THEN good' = FALSE /\ UNCHANGED <<open, buffer, disk>>
    ELSE Spill(Append(buffer, line)) \/ Break(Append(buffer, line))

Flush ==
    IF ~good \/ buffer = <<>> THEN UNCHANGED stream
    ELSE \/ disk' = disk \o buffer /\ buffer' = <<>> /\ UNCHANGED <<open, good>>
         \/ Break(buffer)

(* What the buffer still holds is written, or lost when the disk refuses;    *)
(* to close a closed stream is an error.                                     *)
Close ==
    /\ open' = FALSE /\ buffer' = <<>>
    /\ \/ open /\ disk' = disk \o buffer /\ UNCHANGED good
       \/ open /\ good' = FALSE
               /\ \E n \in 0 .. Len(buffer) : disk' = disk \o SubSeq(buffer, 1, n)
       \/ ~open /\ good' = FALSE /\ UNCHANGED disk

----------------------------------------------------------------------------
(* The exporter.  The definitions with a double underscore are deliberate    *)
(* mistakes, kept to show that the properties notice them.                   *)

Goes(c, to) == pc' = [pc EXCEPT ![c] = to]

Return(c, value) ==
    /\ Goes(c, "done")
    /\ result' = [result EXCEPT ![c] = value]
    /\ mutex' = None

(* Nothing is locked. *)
Lock__None(c) ==
    /\ pc[c] = "start" /\ Goes(c, "locked")
    /\ UNCHANGED <<stream, mutex, written, result, tried, durable>>

(* std::lock_guard lock(m_mutex), the first line of every operation *)
Lock(c) ==
    /\ pc[c] = "start" /\ Goes(c, "locked")
    /\ mutex = None /\ mutex' = c
    /\ UNCHANGED <<stream, written, result, tried, durable>>

(* Every batch starts with a cleared error state. *)
BeginExport__Clears(e) ==
    /\ pc[e] = "locked"
    /\ good' = open
    /\ Goes(e, "writing")
    /\ UNCHANGED <<open, buffer, disk, mutex, written, result, tried, durable>>

(* exportSpans: if (!m_out) return kFailure, ... *)
BeginExport(e) ==
    /\ pc[e] = "locked"
    /\ \/ good /\ Goes(e, "writing") /\ UNCHANGED <<mutex, result, tried>>
       \/ ~good /\ Return(e, FALSE) /\ tried' = Append(tried, FALSE)
    /\ UNCHANGED <<stream, written, durable>>

(* ... the loop over the spans, which a bad stream does not leave, ... *)
WriteSpan(e) ==
    /\ pc[e] = "writing" /\ written[e] < BatchSize[e]
    /\ Insert(Line(e, written[e] + 1))
    /\ written' = [written EXCEPT ![e] = @ + 1]
    /\ UNCHANGED <<mutex, pc, result, tried, durable>>

(* ... and the state of the stream as the result. *)
FinishExport(e) ==
    /\ pc[e] = "writing" /\ written[e] = BatchSize[e]
    /\ Return(e, good) /\ tried' = Append(tried, good)
    /\ UNCHANGED <<stream, written, durable>>

(* m_out.flush() of forceFlush and of shutdown *)
FlushStream(c) ==
    /\ pc[c] = "locked" /\ Goes(c, "flushed")
    /\ Flush
    /\ UNCHANGED <<mutex, written, result, tried, durable>>

(* The state of the stream is not looked at. *)
FinishFlush__Optimistic(f) ==
    /\ pc[f] = "flushed"
    /\ Return(f, TRUE)
    /\ durable' = durable \cup Succeeded
    /\ UNCHANGED <<stream, written, tried>>

FinishFlush(f) ==
    /\ pc[f] = "flushed"
    /\ Return(f, good)
    /\ durable' = IF good THEN durable \cup Succeeded ELSE durable
    /\ UNCHANGED <<stream, written, tried>>

(* The file is flushed and stays open. *)
FinishShutdown__StaysOpen(s) ==
    /\ pc[s] = "flushed"
    /\ Return(s, TRUE)
    /\ UNCHANGED <<stream, written, tried, durable>>

(* m_out.close(); return true *)
FinishShutdown(s) ==
    /\ pc[s] = "flushed"
    /\ Close
    /\ Return(s, TRUE)
    /\ UNCHANGED <<written, tried, durable>>

Next ==
    \/ \E c \in Calls : Lock(c)
    \/ \E e \in Exports : BeginExport(e) \/ WriteSpan(e) \/ FinishExport(e)
    \/ \E c \in Flushes \cup Shutdowns : FlushStream(c)
    \/ \E f \in Flushes : FinishFlush(f)
    \/ \E s \in Shutdowns : FinishShutdown(s)

Spec == Init /\ [][Next]_vars

----------------------------------------------------------------------------
(* The properties. *)

OnDisk == {disk[i] : i \in DOMAIN disk}

(* When forceFlush returns true, every batch that exportSpans reported as    *)
(* written before it is in the file to the last line, whatever failed, and   *)
(* stays there: a crash of the process cannot take it back.                  *)
FlushHonest == \A e \in durable : \A i \in 1 .. BatchSize[e] : Line(e, i) \in OnDisk

(* While the stream is good, a batch reported as written is one unbroken run *)
(* of whole lines after what the file held before, though threads export at  *)
(* the same time and the buffer runs over inside a batch (exportSpans).      *)
BatchesWhole ==
    good => LET all == disk \o buffer IN
            /\ SubSeq(all, 1, Len(Old)) = Old
            /\ \A i, j \in Len(Old) + 1 .. Len(all) : all[i] = all[j] => i = j
            /\ \A e \in Succeeded : \E k \in Len(Old) .. Len(all) - BatchSize[e] :
                  SubSeq(all, k + 1, k + BatchSize[e]) = Lines(e)

(* After the first batch that failed none is reported as written: the file   *)
(* has no batch behind a torn line that its writer believes in (exportSpans  *)
(* never clears the error state).                                            *)
FailureIsFinal == \A i, j \in DOMAIN tried : i < j /\ tried[j] => tried[i]

(* Once a shutdown has returned nothing is written to the file any more,     *)
(* whoever exports, flushes or shuts down again.                             *)
ClosedForGood == [][(\E s \in Shutdowns : pc[s] = "done") => disk' = disk]_vars

=============================================================================
