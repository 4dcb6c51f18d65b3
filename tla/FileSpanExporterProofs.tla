----------------------- MODULE FileSpanExporterProofs -----------------------
(***************************************************************************)
(* The file exporter is honest for any number of calls, batches of any     *)
(* size and any pattern of failing writes.  What is inductive is what the  *)
(* stream holds, on the disk and in its buffer, as one sequence of lines:  *)
(* as long as the stream is good nothing is lost between the two.          *)
(***************************************************************************)
EXTENDS FileSpanExporter, SequenceTheorems, TLAPS

(* The call that has m_mutex is the only one between its lock and its return. *)
Locking ==
    \A c \in Calls : pc[c] \in {"locked", "writing", "flushed"} => mutex = c

(* What the position of a call says about it. *)
Progress ==
    /\ \A e \in Exports : /\ pc[e] \in {"start", "locked"} => written[e] = 0
                          /\ pc[e] # "flushed"
                          /\ result[e] = TRUE => pc[e] = "done" /\ written[e] = BatchSize[e]
    /\ \A c \in Flushes \cup Shutdowns : pc[c] # "writing"

(* A closed stream has nothing left to write, and a shutdown has closed it. *)
Closing ==
    /\ ~open => buffer = <<>>
    /\ \A s \in Shutdowns : pc[s] = "done" => ~open

(* After a flush, and under the same lock, a good stream has an empty buffer. *)
Flushed == \A c \in Calls : pc[c] = "flushed" /\ good => buffer = <<>>

(* A batch that failed has left the stream bad. *)
FailureRemembered == good => \A i \in DOMAIN tried : tried[i]

(* Everything the stream was given and has not lost. *)
All == disk \o buffer

(* The file begins with what it held before it was opened, ... *)
OldKept ==
    /\ Len(Old) <= Len(All)
    /\ \A i \in 1 .. Len(Old) : All[i] = Old[i]

(* ... every other line is one that some call has written ... *)
OnlyWritten ==
    \A i \in Len(Old) + 1 .. Len(All) :
        \E e \in Exports : \E n \in 1 .. written[e] : All[i] = Line(e, n)

(* ... and there once, ... *)
Once == \A i, j \in Len(Old) + 1 .. Len(All) : All[i] = All[j] => i = j

(* ... the lines of a batch that succeeded follow each other ... *)
Runs ==
    \A e \in Exports : result[e] = TRUE =>
        \E k \in Len(Old) .. Len(All) - BatchSize[e] :
            \A i \in 1 .. BatchSize[e] : All[k + i] = Line(e, i)

(* ... and those of the batch that is being written are the last ones. *)
LastRun ==
    \A e \in Exports : pc[e] = "writing" =>
        /\ written[e] <= Len(All) - Len(Old)
        /\ \A i \in 1 .. written[e] : All[Len(All) - written[e] + i] = Line(e, i)

Kept == good => OldKept /\ OnlyWritten /\ Once /\ Runs /\ LastRun

Inv == TypeOK /\ Locking /\ Progress /\ Closing /\ Flushed /\ FailureRemembered /\ Kept
       /\ FlushHonest

----------------------------------------------------------------------------
(* The sequences. *)

LEMMA OldLines == Old \in Seq(Content) /\ Len(Old) \in Nat
<1>1. Old \in Seq(Content)
  BY FileAssumption, SeqMonotonic DEF Content
<1> QED
  BY <1>1, LenProperties

(* What the stream holds is a sequence of lines. *)
LEMMA AllLines == ASSUME TypeOK
                  PROVE  /\ buffer \in Seq(Content) /\ disk \in Seq(Content)
                         /\ All \in Seq(Content) /\ Len(All) \in Nat
                         /\ Len(disk) \in Nat /\ Len(buffer) \in Nat
<1>1. SpanLines \subseteq Content
  BY DEF Content
<1>2. buffer \in Seq(Content) /\ disk \in Seq(Content)
  BY <1>1, SeqMonotonic DEF TypeOK
<1> QED
  BY <1>2, ConcatProperties, LenProperties DEF All

(* A first part of a sequence is a sequence of the same elements, ... *)
LEMMA FirstPart == ASSUME NEW S, NEW s \in Seq(S), NEW n \in 0 .. Len(s)
                   PROVE  SubSeq(s, 1, n) \in Seq(S) /\ Len(SubSeq(s, 1, n)) = n
<1>1. Len(s) \in Nat /\ \A i \in 1 .. n : s[i] \in S
  BY LenProperties, ElementOfSeq
<1>2. /\ SubSeq(s, 1, n) \in Seq(S)
      /\ Len(SubSeq(s, 1, n)) = IF 1 <= n THEN n - 1 + 1 ELSE 0
  BY <1>1, SubSeqProperties
<1> QED
  BY <1>1, <1>2

(* ... so is a last part, ... *)
LEMMA LastPart == ASSUME NEW S, NEW s \in Seq(S), NEW n \in 0 .. Len(s)
                  PROVE  SubSeq(s, n + 1, Len(s)) \in Seq(S)
<1>1. Len(s) \in Nat /\ \A i \in n + 1 .. Len(s) : s[i] \in S
  BY LenProperties, ElementOfSeq
<1> QED
  BY <1>1, SubSeqProperties

(* ... and both together are the sequence, wherever they are appended. *)
LEMMA TwoParts == ASSUME NEW S, NEW d \in Seq(S), NEW s \in Seq(S), NEW n \in 0 .. Len(s)
                  PROVE  (d \o SubSeq(s, 1, n)) \o SubSeq(s, n + 1, Len(s)) = d \o s
<1>1. Len(s) \in Nat
  BY LenProperties
<1>2. SubSeq(s, 1, n) \o SubSeq(s, n + 1, Len(s)) = SubSeq(s, 1, Len(s))
  <2>1. /\ 1 \in 1 .. Len(s) + 1 /\ n \in 1 - 1 .. Len(s) /\ Len(s) \in n .. Len(s)
    BY <1>1
  <2> QED
    BY <2>1, ConcatAdjacentSubSeq
<1>3. SubSeq(s, 1, Len(s)) = s
  BY SubSeqFull
<1>4. PICK a, b : a = SubSeq(s, 1, n) /\ b = SubSeq(s, n + 1, Len(s))
  OBVIOUS
<1>5. a \in Seq(S) /\ b \in Seq(S)
  BY <1>4, FirstPart, LastPart, Zenon
<1>6. (d \o a) \o b = d \o (a \o b)
  BY <1>5, ConcatAssociative, SMTT(30)
<1>7. a \o b = s
  BY <1>2, <1>3, <1>4, Zenon
<1> QED
  BY <1>4, <1>6, <1>7, Zenon

(* The elements of a part of a sequence. *)
LEMMA Slice == ASSUME NEW S, NEW s \in Seq(S), NEW k \in Nat, NEW n \in Nat, k + n <= Len(s)
               PROVE  SubSeq(s, k + 1, k + n) = [i \in 1 .. n |-> s[k + i]]
OBVIOUS

(* A sequence that grows at its end keeps its elements. *)
LEMMA Grows == ASSUME NEW S, NEW d \in Seq(S), NEW more \in Seq(S)
               PROVE  /\ d \o more \in Seq(S)
                      /\ \A i \in DOMAIN d : i \in DOMAIN (d \o more) /\ (d \o more)[i] = d[i]
<1>1. /\ d \o more \in Seq(S) /\ Len(d \o more) = Len(d) + Len(more)
      /\ \A i \in 1 .. Len(d) + Len(more) :
             (d \o more)[i] = IF i <= Len(d) THEN d[i] ELSE more[i - Len(d)]
  BY ConcatProperties
<1>2. /\ Len(d) \in Nat /\ Len(more) \in Nat /\ DOMAIN d = 1 .. Len(d)
      /\ DOMAIN (d \o more) = 1 .. Len(d \o more)
  BY <1>1, LenProperties
<1>3. \A i \in DOMAIN d : i \in DOMAIN (d \o more) /\ (d \o more)[i] = d[i]
  BY <1>1, <1>2
<1> QED
  BY <1>1, <1>3

----------------------------------------------------------------------------
(* The stream: what each operation does to all that it holds. *)

(* What was on the disk stays there. *)
DiskGrows == /\ disk' \in Seq(Content)
             /\ \A i \in DOMAIN disk : i \in DOMAIN disk' /\ disk'[i] = disk[i]

LEMMA SpillStep == ASSUME TypeOK, NEW lines \in Seq(SpanLines), Spill(lines)
                   PROVE  /\ buffer' \in Seq(SpanLines) /\ DiskGrows
                          /\ disk' \o buffer' = disk \o lines
                          /\ open' = open /\ good' = good
<1>1. PICK n \in 0 .. Len(lines) : /\ disk' = disk \o SubSeq(lines, 1, n)
                                   /\ buffer' = SubSeq(lines, n + 1, Len(lines))
  BY DEF Spill
<1>2. lines \in Seq(Content) /\ disk \in Seq(Content)
  BY SeqMonotonic DEF TypeOK, Content
<1>3. buffer' \in Seq(SpanLines)
  BY <1>1, LastPart
<1>4. DiskGrows
  <2>1. SubSeq(lines, 1, n) \in Seq(Content)
    BY <1>2, FirstPart
  <2> QED
    BY <1>1, <1>2, <2>1, Grows DEF DiskGrows
<1>5. disk' \o buffer' = disk \o lines
  BY <1>1, <1>2, TwoParts
<1> QED
  BY <1>3, <1>4, <1>5 DEF Spill

LEMMA BreakStep == ASSUME TypeOK, NEW lines \in Seq(SpanLines), Break(lines)
                   PROVE  DiskGrows /\ open' = open /\ good' = FALSE /\ buffer' = buffer
<1>1. PICK n \in 0 .. Len(lines), tear \in {<<>>, <<Torn>>} :
          disk' = disk \o SubSeq(lines, 1, n) \o tear
  BY DEF Break
<1>2. lines \in Seq(Content) /\ disk \in Seq(Content)
  BY SeqMonotonic DEF TypeOK, Content
<1>3. tear \in Seq(Content)
  <2>1. Torn \in Content
    BY DEF Content
  <2>2. <<Torn>> \in Seq(Content) /\ <<>> \in Seq(Content)
    BY <2>1
  <2> QED
    BY <2>2, Zenon
<1>4. PICK a : a = SubSeq(lines, 1, n)
  OBVIOUS
<1>5. DiskGrows
  <2>1. a \in Seq(Content)
    BY <1>2, <1>4, FirstPart
  <2>2. PICK more : more = a \o tear
    OBVIOUS
  <2>3. more \in Seq(Content) /\ (disk \o a) \o tear = disk \o (a \o tear)
    <3>1. a \o tear \in Seq(Content)
      BY <1>3, <2>1, ConcatProperties, SMTT(30)
    <3>2. (disk \o a) \o tear = disk \o (a \o tear)
      BY <1>2, <1>3, <2>1, ConcatAssociative, SMTT(30)
    <3> QED
      BY <2>2, <3>1, <3>2, Zenon
  <2>4. disk' = disk \o more
    BY <1>1, <1>4, <2>2, <2>3, Zenon
  <2> QED
    BY <1>2, <2>3, <2>4, Grows DEF DiskGrows
<1> QED
  BY <1>5 DEF Break

(* Nothing happens to the disk. *)
LEMMA DiskSame == ASSUME TypeOK, disk' = disk PROVE DiskGrows
BY DEF TypeOK, DiskGrows

LEMMA InsertStep ==
    ASSUME TypeOK, NEW line \in SpanLines, Insert(line)
    PROVE  /\ buffer' \in Seq(SpanLines) /\ DiskGrows
           /\ open' = open /\ good' \in BOOLEAN
           /\ good' => good /\ All' = Append(All, line)
           /\ ~open => disk' = disk /\ buffer' = buffer
<1>1. CASE ~good
  BY <1>1, DiskSame DEF Insert, stream, TypeOK
<1>2. CASE good /\ ~open
  BY <1>2, DiskSame DEF Insert, TypeOK
<1>3. CASE good /\ open
  <2>1. Append(buffer, line) \in Seq(SpanLines)
    BY AppendProperties DEF TypeOK
  <2>2. disk \o Append(buffer, line) = Append(All, line)
    <3>1. line \in Content
      BY DEF Content
    <3>2. /\ Append(buffer, line) = buffer \o <<line>>
          /\ Append(All, line) = All \o <<line>>
      BY <3>1, AllLines, AppendIsConcat
    <3>3. <<line>> \in Seq(Content)
      BY <3>1
    <3>4. disk \in Seq(Content) /\ buffer \in Seq(Content)
      BY SeqMonotonic DEF TypeOK, Content
    <3>5. (disk \o buffer) \o <<line>> = disk \o (buffer \o <<line>>)
      BY <3>3, <3>4, ConcatAssociative, SMTT(30)
    <3> QED
      BY <3>2, <3>5, Zenon DEF All
  <2>3. CASE Spill(Append(buffer, line))
    BY <1>3, <2>1, <2>2, <2>3, SpillStep DEF All, TypeOK
  <2>4. CASE Break(Append(buffer, line))
    BY <1>3, <2>1, <2>4, BreakStep DEF TypeOK
  <2> QED
    BY <1>3, <2>3, <2>4 DEF Insert
<1> QED
  BY <1>1, <1>2, <1>3

LEMMA FlushStep ==
    ASSUME TypeOK, Flush
    PROVE  /\ buffer' \in Seq(SpanLines) /\ DiskGrows
           /\ open' = open /\ good' \in BOOLEAN
           /\ good' => good /\ All' = All /\ buffer' = <<>>
           /\ buffer = <<>> => disk' = disk /\ buffer' = buffer
<1>1. CASE ~good \/ buffer = <<>>
  BY <1>1, DiskSame DEF Flush, stream, TypeOK, All
<1>2. CASE ~(~good \/ buffer = <<>>)
  <2>1. CASE disk' = disk \o buffer /\ buffer' = <<>> /\ UNCHANGED <<open, good>>
    <3>1. <<>> \in Seq(SpanLines) /\ All' = All
      BY <2>1, AllLines, ConcatEmptySeq, EmptySeq DEF All
    <3>2. DiskGrows
      BY <2>1, AllLines, Grows DEF DiskGrows
    <3> QED
      BY <1>2, <2>1, <3>1, <3>2 DEF TypeOK
  <2>2. CASE Break(buffer)
    <3>1. DiskGrows /\ open' = open /\ good' = FALSE /\ buffer' = buffer
      BY <2>2, BreakStep DEF TypeOK
    <3> QED
      BY <1>2, <3>1 DEF TypeOK
  <2> QED
    BY <1>2, <2>1, <2>2 DEF Flush
<1> QED
  BY <1>1, <1>2

LEMMA CloseStep ==
    ASSUME TypeOK, Closing, Close
    PROVE  /\ buffer' = <<>> /\ DiskGrows
           /\ open' = FALSE /\ good' \in BOOLEAN
           /\ good' => good /\ All' = All
           /\ ~open => disk' = disk
<1>1. CASE open /\ disk' = disk \o buffer /\ UNCHANGED good
  <2>1. All' = All
    BY <1>1, AllLines, ConcatEmptySeq DEF All, Close
  <2>2. DiskGrows
    BY <1>1, AllLines, Grows DEF DiskGrows
  <2> QED
    BY <1>1, <2>1, <2>2 DEF Close, TypeOK
<1>2. CASE /\ open /\ good' = FALSE
           /\ \E n \in 0 .. Len(buffer) : disk' = disk \o SubSeq(buffer, 1, n)
  <2>1. PICK n \in 0 .. Len(buffer) : disk' = disk \o SubSeq(buffer, 1, n)
    BY <1>2
  <2>2. SubSeq(buffer, 1, n) \in Seq(Content)
    BY AllLines, FirstPart
  <2>3. DiskGrows
    BY <2>1, <2>2, AllLines, Grows DEF DiskGrows
  <2> QED
    BY <1>2, <2>3 DEF Close
<1>3. CASE ~open /\ good' = FALSE /\ UNCHANGED disk
  BY <1>3, DiskSame DEF Close
<1> QED
  BY <1>1, <1>2, <1>3 DEF Close

----------------------------------------------------------------------------
(* The exporter, one lemma for each action. *)

(* A step that gives the stream no line and makes no batch succeed keeps     *)
(* what the invariant says about the lines.                                  *)
LEMMA KeptSame ==
    ASSUME Kept, good' => good /\ All' = All, written' = written,
           \A e \in Exports : result'[e] = TRUE => result[e] = TRUE,
           \A e \in Exports : pc'[e] = "writing" => pc[e] = "writing" \/ written[e] = 0,
           TypeOK
    PROVE  Kept'
<1> SUFFICES ASSUME good' PROVE (OldKept /\ OnlyWritten /\ Once /\ Runs /\ LastRun)'
  BY DEF Kept
<1>1. OldKept /\ OnlyWritten /\ Once /\ Runs /\ LastRun /\ All' = All
  BY DEF Kept
<1>2. OldKept' /\ OnlyWritten' /\ Once'
  BY <1>1 DEF OldKept, OnlyWritten, Once
<1>3. Runs'
  BY <1>1 DEF Runs
<1>4. LastRun'
  <2> SUFFICES ASSUME NEW e \in Exports, pc'[e] = "writing"
               PROVE  /\ written[e] <= Len(All) - Len(Old)
                      /\ \A i \in 1 .. written[e] : All[Len(All) - written[e] + i] = Line(e, i)
    BY <1>1 DEF LastRun
  <2>1. CASE pc[e] = "writing"
    BY <1>1, <2>1 DEF LastRun
  <2>2. CASE written[e] = 0
    BY <1>1, <2>2, AllLines, OldLines DEF OldKept
  <2> QED
    BY <2>1, <2>2
<1> QED
  BY <1>2, <1>3, <1>4

(* What is durable stays on the disk. *)
LEMMA HonestSame == ASSUME FlushHonest, DiskGrows, durable' = durable PROVE FlushHonest'
<1> SUFFICES ASSUME NEW e \in durable, NEW i \in 1 .. BatchSize[e]
             PROVE  Line(e, i) \in OnDisk'
  BY DEF FlushHonest
<1>1. PICK j \in DOMAIN disk : disk[j] = Line(e, i)
  BY DEF FlushHonest, OnDisk
<1>2. j \in DOMAIN disk' /\ disk'[j] = Line(e, i)
  BY <1>1 DEF DiskGrows
<1> QED
  BY <1>2 DEF OnDisk

(* The calls are of three kinds, and none is None. *)
LEMMA CallKinds == /\ None \notin Calls
                   /\ \A e \in Exports : e \in Calls /\ e \notin Flushes \cup Shutdowns
                   /\ \A f \in Flushes : f \in Calls /\ f \notin Exports \cup Shutdowns
                   /\ \A s \in Shutdowns : s \in Calls /\ s \notin Exports \cup Flushes
BY FileAssumption, Zenon DEF Calls

(* The effect of Goes and of Return on the calls. *)
LEMMA GoesStep == ASSUME TypeOK, NEW c \in Calls, NEW to, Goes(c, to)
                  PROVE  \A d \in Calls : pc'[d] = IF d = c THEN to ELSE pc[d]
BY DEF TypeOK, Goes

LEMMA ReturnStep == ASSUME TypeOK, NEW c \in Calls, NEW value \in BOOLEAN, Return(c, value)
                    PROVE  /\ \A d \in Calls : pc'[d] = IF d = c THEN "done" ELSE pc[d]
                           /\ \A d \in Calls : d # c => result'[d] = result[d]
                           /\ result'[c] = value
                           /\ result' \in [Calls -> BOOLEAN \cup {None}]
                           /\ pc' \in [Calls -> {"start", "locked", "writing", "flushed", "done"}]
                           /\ mutex' = None
<1>1. /\ \A d \in Calls : d # c => result'[d] = result[d]
      /\ result'[c] = value
      /\ result' \in [Calls -> BOOLEAN \cup {None}]
  BY Zenon DEF TypeOK, Return
<1>2. /\ \A d \in Calls : pc'[d] = IF d = c THEN "done" ELSE pc[d]
      /\ pc' \in [Calls -> {"start", "locked", "writing", "flushed", "done"}]
      /\ mutex' = None
  BY DEF TypeOK, Return, Goes
<1> QED
  BY <1>1, <1>2

(* A call that has not returned has not returned true. *)
LEMMA NoneNotBoolean == None # TRUE /\ None # FALSE
BY FileAssumption, Zenon

LEMMA InvInit == Init => Inv
<1> SUFFICES ASSUME Init PROVE Inv
  OBVIOUS
<1>1. TypeOK
  <2>1. open \in BOOLEAN /\ good \in BOOLEAN
    BY Zenon DEF Init
  <2>2. buffer \in Seq(SpanLines) /\ disk \in Seq(Content) /\ tried \in Seq(BOOLEAN)
    BY OldLines, EmptySeq DEF Init
  <2> QED
    BY <2>1, <2>2, FileAssumption DEF Init, TypeOK
<1>2. Locking /\ Progress /\ Closing /\ Flushed /\ FlushHonest
  BY FileAssumption DEF Init, Locking, Progress, Closing, Flushed, FlushHonest, Calls
<1>3. FailureRemembered
  BY DEF Init, FailureRemembered
<1>4. All = Old
  BY OldLines, ConcatEmptySeq DEF Init, All
<1>5. Kept
  <2>1. OldKept /\ OnlyWritten /\ Once
    BY <1>4, OldLines DEF OldKept, OnlyWritten, Once
  <2>2. Runs
    <3>1. \A e \in Exports : result[e] # TRUE
      BY NoneNotBoolean, Zenon DEF Init, Calls
    <3> QED
      BY <3>1 DEF Runs
  <2>3. LastRun
    BY DEF Init, LastRun, Calls
  <2> QED
    BY <2>1, <2>2, <2>3 DEF Kept
<1> QED
  BY <1>1, <1>2, <1>3, <1>5 DEF Inv

LEMMA LockStep == ASSUME Inv, NEW c \in Calls, Lock(c) PROVE Inv'
<1> USE DEF Inv
<1>1. TypeOK'
  BY DEF Lock, Goes, stream, TypeOK
<1>a. Locking' /\ Flushed'
  BY FileAssumption DEF Lock, Goes, stream, TypeOK, Locking, Flushed
<1>b. Progress' /\ Closing'
  BY DEF Lock, Goes, stream, TypeOK, Progress, Closing, Calls
<1>c. FailureRemembered'
  BY DEF Lock, stream, FailureRemembered
<1>2. All' = All /\ DiskGrows
  BY DiskSame DEF Lock, stream, All
<1>3. Kept'
  BY <1>2, KeptSame DEF Lock, Goes, stream, TypeOK, Calls
<1>4. FlushHonest'
  BY <1>2, HonestSame DEF Lock
<1> QED
  BY <1>1, <1>a, <1>b, <1>c, <1>3, <1>4

LEMMA BeginExportStep == ASSUME Inv, NEW e \in Exports, BeginExport(e) PROVE Inv'
<1> USE DEF Inv
<1>1. All' = All /\ DiskGrows /\ open' = open /\ good' = good /\ buffer' = buffer
  BY DiskSame DEF BeginExport, stream, All
<1>2. FlushHonest'
  BY <1>1, HonestSame DEF BeginExport
<1>3. CASE good /\ Goes(e, "writing") /\ UNCHANGED <<mutex, result, tried>>
  <2>1. \A d \in Calls : pc'[d] = IF d = e THEN "writing" ELSE pc[d]
    BY <1>3, CallKinds, GoesStep
  <2>2. TypeOK'
    BY <1>3, CallKinds DEF BeginExport, Goes, stream, TypeOK
  <2>3. Locking' /\ Flushed' /\ Closing'
    BY <1>1, <1>3, <2>1, CallKinds DEF BeginExport, Locking, Flushed, Closing
  <2>4. Progress'
    BY <1>3, <2>1, CallKinds DEF BeginExport, Progress
  <2>5. FailureRemembered'
    BY <1>1, <1>3 DEF FailureRemembered
  <2>6. Kept'
    BY <1>1, <1>3, <2>1, CallKinds, KeptSame DEF BeginExport, Progress
  <2> QED
    BY <1>2, <2>2, <2>3, <2>4, <2>5, <2>6
<1>4. CASE ~good /\ Return(e, FALSE) /\ tried' = Append(tried, FALSE)
  <2>1. /\ \A d \in Calls : pc'[d] = IF d = e THEN "done" ELSE pc[d]
        /\ \A d \in Calls : d # e => result'[d] = result[d]
        /\ result'[e] = FALSE
        /\ mutex' = None
    BY <1>4, CallKinds, ReturnStep
  <2>2. TypeOK'
    <3>1. tried' \in Seq(BOOLEAN)
      BY <1>4, AppendProperties DEF TypeOK
    <3> QED
      BY <1>1, <1>4, <3>1, CallKinds, ReturnStep DEF BeginExport, stream, TypeOK
  <2>3. Locking' /\ Flushed'
    BY <1>1, <2>1, CallKinds DEF BeginExport, Locking, Flushed
  <2>4. Closing'
    BY <1>1, <2>1, CallKinds DEF Closing
  <2>5. Progress'
    BY <2>1, CallKinds DEF BeginExport, Progress
  <2>6. FailureRemembered' /\ Kept'
    BY <1>1, <1>4 DEF FailureRemembered, Kept
  <2> QED
    BY <1>2, <2>2, <2>3, <2>4, <2>5, <2>6
<1> QED
  BY <1>3, <1>4 DEF BeginExport

LEMMA WriteSpanStep == ASSUME Inv, NEW e \in Exports, WriteSpan(e) PROVE Inv'
<1> USE DEF Inv
<1> DEFINE line == Line(e, written[e] + 1)
<1>1. /\ line \in SpanLines
      /\ \A d \in Exports : written'[d] = IF d = e THEN written[e] + 1 ELSE written[d]
      /\ written[e] \in Nat
  BY DEF WriteSpan, TypeOK, Line, SpanLines
<1>2. /\ buffer' \in Seq(SpanLines) /\ DiskGrows
      /\ open' = open /\ good' \in BOOLEAN
      /\ good' => good /\ All' = Append(All, line)
      /\ ~open => disk' = disk /\ buffer' = buffer
  BY <1>1, InsertStep DEF WriteSpan
<1>3. mutex' = mutex /\ pc' = pc /\ result' = result /\ tried' = tried /\ durable' = durable
  BY DEF WriteSpan
<1>4. TypeOK'
  <2>1. open' \in BOOLEAN /\ good' \in BOOLEAN
    BY <1>2, Zenon DEF TypeOK
  <2>2. written' \in [Exports -> Nat] /\ \A d \in Exports : written'[d] <= BatchSize[d]
    <3>1. written' \in [Exports -> Nat]
      BY <1>1 DEF TypeOK, WriteSpan
    <3>2. \A d \in Exports : BatchSize[d] \in Nat
      BY FileAssumption
    <3>3. written[e] < BatchSize[e] /\ \A d \in Exports : written[d] <= BatchSize[d]
      BY DEF TypeOK, WriteSpan
    <3>4. \A d \in Exports : written'[d] <= BatchSize[d]
      BY <1>1, <3>2, <3>3
    <3> QED
      BY <3>1, <3>4
  <2>3. buffer' \in Seq(SpanLines) /\ disk' \in Seq(Content)
    BY <1>2, Zenon DEF DiskGrows
  <2> QED
    BY <1>3, <2>1, <2>2, <2>3 DEF TypeOK
<1>5. Locking' /\ Closing'
  BY <1>2, <1>3 DEF Locking, Closing
<1>6. Progress'
  BY <1>1, <1>3 DEF Progress, WriteSpan
<1>7. Flushed'
  <2>1. \A c \in Calls : pc[c] # "flushed"
    BY CallKinds DEF Locking, WriteSpan
  <2> QED
    BY <1>3, <2>1 DEF Flushed
<1>8. FailureRemembered'
  BY <1>2, <1>3 DEF FailureRemembered
<1>9. FlushHonest'
  BY <1>2, <1>3, HonestSame
<1>10. ASSUME good' PROVE (OldKept /\ OnlyWritten /\ Once /\ Runs /\ LastRun)'
  <2>1. OldKept /\ OnlyWritten /\ Once /\ Runs /\ LastRun
    BY <1>2, <1>10 DEF Kept
  <2>2. /\ Len(All) \in Nat /\ Len(Old) \in Nat
        /\ Len(All') = Len(All) + 1
        /\ \A i \in 1 .. Len(All) : All'[i] = All[i]
        /\ All'[Len(All) + 1] = line
    <3>1. line \in Content
      BY <1>1 DEF Content
    <3> QED
      BY <1>2, <1>10, <3>1, AllLines, OldLines, AppendProperties
  <2>3. OldKept'
    BY <2>1, <2>2 DEF OldKept
  <2>4. OnlyWritten'
    <3> SUFFICES ASSUME NEW i \in Len(Old) + 1 .. Len(All')
                 PROVE  \E d \in Exports : \E n \in 1 .. written'[d] : All'[i] = Line(d, n)
      BY DEF OnlyWritten
    <3>1. CASE i = Len(All) + 1
      BY <1>1, <2>2, <3>1
    <3>2. CASE i # Len(All) + 1
      <4>1. PICK d \in Exports : \E n \in 1 .. written[d] : All[i] = Line(d, n)
        BY <2>1, <2>2, <3>2 DEF OnlyWritten
      <4>2. PICK n \in 1 .. written[d] : All[i] = Line(d, n)
        BY <4>1
      <4>3. n \in 1 .. written'[d] /\ i \in 1 .. Len(All)
        BY <1>1, <2>1, <2>2, <3>2 DEF TypeOK, OldKept
      <4> QED
        BY <2>2, <4>2, <4>3
    <3> QED
      BY <3>1, <3>2
  <2>5. Once'
    <3>1. \A i \in Len(Old) + 1 .. Len(All) : All[i] # line
      <4> SUFFICES ASSUME NEW i \in Len(Old) + 1 .. Len(All) PROVE All[i] # line
        OBVIOUS
      <4>1. PICK d \in Exports : \E n \in 1 .. written[d] : All[i] = Line(d, n)
        BY <2>1 DEF OnlyWritten
      <4>2. PICK n \in 1 .. written[d] : All[i] = Line(d, n)
        BY <4>1
      <4>3. d # e \/ n # written[e] + 1
        BY <1>1
      <4> QED
        BY <4>2, <4>3 DEF Line
    <3> QED
      BY <2>1, <2>2, <3>1 DEF Once, OldKept
  <2>6. Runs'
    <3> SUFFICES ASSUME NEW d \in Exports, result[d] = TRUE
                 PROVE  \E k \in Len(Old) .. Len(All') - BatchSize[d] :
                            \A i \in 1 .. BatchSize[d] : All'[k + i] = Line(d, i)
      BY <1>3 DEF Runs
    <3>1. PICK k \in Len(Old) .. Len(All) - BatchSize[d] :
                            \A i \in 1 .. BatchSize[d] : All[k + i] = Line(d, i)
      BY <2>1 DEF Runs
    <3>2. BatchSize[d] \in Nat
      BY FileAssumption
    <3>3. k \in Len(Old) .. Len(All') - BatchSize[d]
      BY <2>2, <3>2
    <3>4. \A i \in 1 .. BatchSize[d] : k + i \in 1 .. Len(All)
      BY <2>2, <3>2
    <3>5. \A i \in 1 .. BatchSize[d] : All'[k + i] = Line(d, i)
      BY <2>2, <3>1, <3>4
    <3> QED
      BY <3>3, <3>5
  <2>7. LastRun'
    <3> SUFFICES ASSUME NEW d \in Exports, pc[d] = "writing"
                 PROVE  /\ written'[d] <= Len(All') - Len(Old)
                        /\ \A i \in 1 .. written'[d] :
                              All'[Len(All') - written'[d] + i] = Line(d, i)
      BY <1>3 DEF LastRun
    <3>1. d = e
      BY CallKinds DEF Locking, WriteSpan
    <3>2. /\ written[e] <= Len(All) - Len(Old)
          /\ \A i \in 1 .. written[e] : All[Len(All) - written[e] + i] = Line(e, i)
      BY <2>1, <3>1 DEF LastRun
    <3>a. written'[d] = written[e] + 1
      BY <1>1, <3>1
    <3>b. Len(All') - (written[e] + 1) = Len(All) - written[e]
      BY <1>1, <2>2
    <3>3. written'[d] = written[e] + 1 /\ Len(All') - written'[d] = Len(All) - written[e]
      BY <3>a, <3>b, Zenon
    <3>4. ASSUME NEW i \in 1 .. written[e] + 1
          PROVE  All'[Len(All) - written[e] + i] = Line(e, i)
      <4>1. CASE i = written[e] + 1
        <5>1. Len(All) - written[e] + i = Len(All) + 1
          BY <1>1, <2>2, <4>1
        <5> QED
          BY <2>2, <4>1, <5>1, Zenon
      <4>2. CASE i # written[e] + 1
        <5>1. i \in 1 .. written[e] /\ Len(All) - written[e] + i \in 1 .. Len(All)
          BY <1>1, <2>2, <3>2, <4>2
        <5> QED
          BY <2>2, <3>2, <5>1, Zenon
      <4> QED
        BY <4>1, <4>2
    <3>5. written'[d] <= Len(All') - Len(Old)
      BY <1>1, <2>2, <3>2, <3>3
    <3> QED
      BY <3>1, <3>3, <3>4, <3>5
  <2> QED
    BY <2>3, <2>4, <2>5, <2>6, <2>7
<1> QED
  BY <1>4, <1>5, <1>6, <1>7, <1>8, <1>9, <1>10 DEF Kept

LEMMA FinishExportStep == ASSUME Inv, NEW e \in Exports, FinishExport(e) PROVE Inv'
<1> USE DEF Inv
<1>0. good \in BOOLEAN
  BY Zenon DEF TypeOK
<1>1. All' = All /\ DiskGrows /\ open' = open /\ good' = good /\ buffer' = buffer
      /\ disk' = disk /\ written' = written /\ durable' = durable
  BY DiskSame DEF FinishExport, stream, All
<1>2. /\ \A d \in Calls : pc'[d] = IF d = e THEN "done" ELSE pc[d]
      /\ \A d \in Calls : d # e => result'[d] = result[d]
      /\ result'[e] = good
      /\ result' \in [Calls -> BOOLEAN \cup {None}]
      /\ pc' \in [Calls -> {"start", "locked", "writing", "flushed", "done"}]
      /\ mutex' = None
  BY <1>0, CallKinds, ReturnStep DEF FinishExport
<1>3. FlushHonest'
  BY <1>1, HonestSame
<1>4. TypeOK'
  <2>1. tried' \in Seq(BOOLEAN)
    BY <1>0, AppendProperties DEF TypeOK, FinishExport
  <2> QED
    BY <1>1, <1>2, <2>1 DEF TypeOK
<1>5. Locking' /\ Flushed' /\ Closing'
  BY <1>1, <1>2, CallKinds DEF FinishExport, Locking, Flushed, Closing
<1>6. Progress'
  BY <1>1, <1>2, CallKinds DEF FinishExport, Progress
<1>7. FailureRemembered'
  <2>1. CASE good
    <3>1. tried \in Seq(BOOLEAN) /\ tried' = Append(tried, TRUE)
      BY <1>0, <2>1, Zenon DEF FinishExport, TypeOK
    <3>2. /\ DOMAIN tried = 1 .. Len(tried) /\ DOMAIN tried' = 1 .. Len(tried) + 1
          /\ Len(tried) \in Nat
          /\ \A i \in 1 .. Len(tried) : tried'[i] = tried[i]
          /\ tried'[Len(tried) + 1] = TRUE
      BY <3>1, AppendProperties, LenProperties
    <3> QED
      BY <2>1, <3>2 DEF FailureRemembered
  <2> QED
    BY <1>1, <2>1 DEF FailureRemembered
<1>8. ASSUME good' PROVE (OldKept /\ OnlyWritten /\ Once /\ Runs /\ LastRun)'
  <2>1. OldKept /\ OnlyWritten /\ Once /\ Runs /\ LastRun
    BY <1>1, <1>8 DEF Kept
  <2>2. OldKept' /\ OnlyWritten' /\ Once'
    BY <1>1, <2>1 DEF OldKept, OnlyWritten, Once
  <2>3. LastRun'
    BY <1>1, <1>2, <2>1, CallKinds DEF LastRun
  <2>4. Runs'
    <3> SUFFICES ASSUME NEW d \in Exports, result'[d] = TRUE
                 PROVE  \E k \in Len(Old) .. Len(All) - BatchSize[d] :
                            \A i \in 1 .. BatchSize[d] : All[k + i] = Line(d, i)
      BY <1>1 DEF Runs
    <3>1. CASE d = e
      <4>1. /\ BatchSize[e] <= Len(All) - Len(Old)
            /\ \A i \in 1 .. BatchSize[e] : All[Len(All) - BatchSize[e] + i] = Line(e, i)
        BY <2>1 DEF LastRun, FinishExport
      <4>2. Len(All) - BatchSize[e] \in Len(Old) .. Len(All) - BatchSize[e]
        <5>1. BatchSize[e] \in Nat
          BY FileAssumption
        <5> QED
          BY <4>1, <5>1, AllLines, OldLines
      <4> QED
        BY <3>1, <4>1, <4>2
    <3>2. CASE d # e
      BY <1>2, <2>1, <3>2, CallKinds DEF Runs
    <3> QED
      BY <3>1, <3>2
  <2> QED
    BY <2>2, <2>3, <2>4
<1> QED
  BY <1>3, <1>4, <1>5, <1>6, <1>7, <1>8 DEF Kept

LEMMA FlushStreamStep ==
    ASSUME Inv, NEW c \in Flushes \cup Shutdowns, FlushStream(c) PROVE Inv'
<1> USE DEF Inv
<1>0. c \in Calls
  BY CallKinds
<1>1. /\ buffer' \in Seq(SpanLines) /\ DiskGrows
      /\ open' = open /\ good' \in BOOLEAN
      /\ good' => good /\ All' = All /\ buffer' = <<>>
      /\ buffer = <<>> => disk' = disk /\ buffer' = buffer
  BY FlushStep DEF FlushStream
<1>2. /\ mutex' = mutex /\ written' = written /\ result' = result /\ tried' = tried
      /\ durable' = durable
  BY DEF FlushStream
<1>3. \A d \in Calls : pc'[d] = IF d = c THEN "flushed" ELSE pc[d]
  BY <1>0, GoesStep DEF FlushStream
<1>4. TypeOK'
  <2>1. open' \in BOOLEAN /\ good' \in BOOLEAN
    BY <1>1, Zenon DEF TypeOK
  <2>2. buffer' \in Seq(SpanLines) /\ disk' \in Seq(Content)
    BY <1>1, Zenon DEF DiskGrows
  <2>3. pc' \in [Calls -> {"start", "locked", "writing", "flushed", "done"}]
    BY <1>0 DEF TypeOK, FlushStream, Goes
  <2> QED
    BY <1>2, <2>1, <2>2, <2>3 DEF TypeOK
<1>5. Locking'
  BY <1>2, <1>3 DEF Locking, FlushStream
<1>6. Flushed'
  BY <1>0, <1>1, <1>3 DEF Locking, Flushed, FlushStream
<1>7. Closing'
  BY <1>1, <1>3, CallKinds DEF Closing, FlushStream
<1>8. Progress'
  BY <1>2, <1>3, CallKinds DEF Progress, FlushStream
<1>9. FailureRemembered'
  BY <1>1, <1>2 DEF FailureRemembered
<1>10. Kept'
  BY <1>1, <1>2, <1>3, CallKinds, KeptSame
<1>11. FlushHonest'
  BY <1>1, <1>2, HonestSame
<1> QED
  BY <1>4, <1>5, <1>6, <1>7, <1>8, <1>9, <1>10, <1>11

(* The effects of a return of forceFlush or shutdown on the exports: none. *)
LEMMA OthersReturn ==
    ASSUME Inv, NEW c \in Flushes \cup Shutdowns, NEW value \in BOOLEAN, Return(c, value),
           pc[c] = "flushed", written' = written
    PROVE  /\ \A d \in Calls : pc'[d] = IF d = c THEN "done" ELSE pc[d]
           /\ \A e \in Exports : pc'[e] = pc[e] /\ result'[e] = result[e]
           /\ result' \in [Calls -> BOOLEAN \cup {None}]
           /\ pc' \in [Calls -> {"start", "locked", "writing", "flushed", "done"}]
           /\ mutex' = None
           /\ Locking' /\ Progress'
<1> USE DEF Inv
<1>1. c \in Calls
  BY CallKinds
<1>2. /\ \A d \in Calls : pc'[d] = IF d = c THEN "done" ELSE pc[d]
      /\ \A d \in Calls : d # c => result'[d] = result[d]
      /\ result' \in [Calls -> BOOLEAN \cup {None}]
      /\ pc' \in [Calls -> {"start", "locked", "writing", "flushed", "done"}]
      /\ mutex' = None
  BY <1>1, ReturnStep
<1>3. \A e \in Exports : pc'[e] = pc[e] /\ result'[e] = result[e]
  BY <1>2, CallKinds
<1>4. Locking'
  BY <1>1, <1>2, CallKinds DEF Locking
<1>5. Progress'
  BY <1>2, <1>3, CallKinds DEF Progress
<1> QED
  BY <1>2, <1>3, <1>4, <1>5

LEMMA FinishFlushStep == ASSUME Inv, NEW f \in Flushes, FinishFlush(f) PROVE Inv'
<1> USE DEF Inv
<1>0. good \in BOOLEAN /\ f \in Calls
  BY CallKinds, Zenon DEF TypeOK
<1>1. All' = All /\ DiskGrows /\ open' = open /\ good' = good /\ buffer' = buffer
      /\ disk' = disk /\ written' = written /\ tried' = tried
  BY DiskSame DEF FinishFlush, stream, All
<1>2. /\ \A d \in Calls : pc'[d] = IF d = f THEN "done" ELSE pc[d]
      /\ \A e \in Exports : pc'[e] = pc[e] /\ result'[e] = result[e]
      /\ result' \in [Calls -> BOOLEAN \cup {None}]
      /\ pc' \in [Calls -> {"start", "locked", "writing", "flushed", "done"}]
      /\ mutex' = None
      /\ Locking' /\ Progress'
  BY <1>0, <1>1, OthersReturn DEF FinishFlush
<1>3. TypeOK'
  <2>1. durable' \subseteq Exports
    BY DEF FinishFlush, TypeOK, Succeeded
  <2> QED
    BY <1>1, <1>2, <2>1 DEF TypeOK
<1>4. Flushed' /\ Closing'
  BY <1>1, <1>2, CallKinds DEF Flushed, Closing
<1>5. FailureRemembered'
  BY <1>1 DEF FailureRemembered
<1>6. Kept'
  BY <1>1, <1>2, KeptSame
<1>7. FlushHonest'
  <2>1. CASE ~good
    BY <1>1, <2>1, HonestSame DEF FinishFlush
  <2>2. CASE good
    <3>1. buffer = <<>> /\ All = disk
      BY <1>0, <2>2, AllLines, ConcatEmptySeq DEF Flushed, FinishFlush, All
    <3> SUFFICES ASSUME NEW e \in durable \cup Succeeded, NEW i \in 1 .. BatchSize[e]
                 PROVE  Line(e, i) \in OnDisk
      BY <1>1, <2>2 DEF FlushHonest, FinishFlush, OnDisk
    <3>2. CASE e \in durable
      BY <3>2 DEF FlushHonest
    <3>3. CASE e \in Succeeded
      <4>1. PICK k \in Len(Old) .. Len(disk) - BatchSize[e] :
                \A n \in 1 .. BatchSize[e] : disk[k + n] = Line(e, n)
        BY <2>2, <3>1, <3>3 DEF Kept, Runs, Succeeded
      <4>2. BatchSize[e] \in Nat /\ disk \in Seq(Content)
        BY <3>3, FileAssumption DEF Succeeded, TypeOK
      <4>3. k + i \in 1 .. Len(disk) /\ DOMAIN disk = 1 .. Len(disk)
        BY <4>2, OldLines, AllLines, LenProperties
      <4> QED
        BY <4>1, <4>3 DEF OnDisk
    <3> QED
      BY <3>2, <3>3
  <2> QED
    BY <2>1, <2>2
<1> QED
  BY <1>2, <1>3, <1>4, <1>5, <1>6, <1>7

LEMMA FinishShutdownStep == ASSUME Inv, NEW s \in Shutdowns, FinishShutdown(s) PROVE Inv'
<1> USE DEF Inv
<1>0. s \in Calls
  BY CallKinds
<1>1. /\ buffer' = <<>> /\ DiskGrows
      /\ open' = FALSE /\ good' \in BOOLEAN
      /\ good' => good /\ All' = All
  BY CloseStep DEF FinishShutdown
<1>2. written' = written /\ tried' = tried /\ durable' = durable
  BY DEF FinishShutdown
<1>3. /\ \A d \in Calls : pc'[d] = IF d = s THEN "done" ELSE pc[d]
      /\ \A e \in Exports : pc'[e] = pc[e] /\ result'[e] = result[e]
      /\ result' \in [Calls -> BOOLEAN \cup {None}]
      /\ pc' \in [Calls -> {"start", "locked", "writing", "flushed", "done"}]
      /\ mutex' = None
      /\ Locking' /\ Progress'
  BY <1>2, OthersReturn DEF FinishShutdown
<1>4. TypeOK'
  <2>1. open' \in BOOLEAN /\ good' \in BOOLEAN
    BY <1>1, Zenon
  <2>2. buffer' \in Seq(SpanLines) /\ disk' \in Seq(Content)
    BY <1>1, EmptySeq, Zenon DEF DiskGrows
  <2> QED
    BY <1>2, <1>3, <2>1, <2>2 DEF TypeOK
<1>5. Flushed' /\ Closing'
  BY <1>1 DEF Flushed, Closing
<1>6. FailureRemembered'
  BY <1>1, <1>2 DEF FailureRemembered
<1>7. Kept'
  BY <1>1, <1>2, <1>3, KeptSame
<1>8. FlushHonest'
  BY <1>1, <1>2, HonestSame
<1> QED
  BY <1>3, <1>4, <1>5, <1>6, <1>7, <1>8

----------------------------------------------------------------------------
(* The theorems. *)

LEMMA StutterStep == ASSUME Inv, UNCHANGED vars PROVE Inv'
<1> USE DEF Inv
<1>1. All' = All /\ DiskGrows /\ UNCHANGED <<open, good, buffer, disk, mutex, pc, written,
                                             result, tried, durable>>
  BY DiskSame DEF vars, stream, All
<1>2. TypeOK' /\ Locking' /\ Progress' /\ Closing' /\ Flushed' /\ FailureRemembered'
  BY <1>1 DEF TypeOK, Locking, Progress, Closing, Flushed, FailureRemembered
<1>3. Kept' /\ FlushHonest'
  BY <1>1, KeptSame, HonestSame
<1> QED
  BY <1>2, <1>3

(* The inductive invariant. *)
THEOREM Invariance == Spec => []Inv
<1>1. Init => Inv
  BY InvInit
<1>2. Inv /\ [Next]_vars => Inv'
  <2> SUFFICES ASSUME Inv, [Next]_vars PROVE Inv'
    OBVIOUS
  <2>1. ASSUME NEW c \in Calls, Lock(c) PROVE Inv'
    BY <2>1, LockStep
  <2>2. ASSUME NEW e \in Exports, BeginExport(e) PROVE Inv'
    BY <2>2, BeginExportStep
  <2>3. ASSUME NEW e \in Exports, WriteSpan(e) PROVE Inv'
    BY <2>3, WriteSpanStep
  <2>4. ASSUME NEW e \in Exports, FinishExport(e) PROVE Inv'
    BY <2>4, FinishExportStep
  <2>5. ASSUME NEW c \in Flushes \cup Shutdowns, FlushStream(c) PROVE Inv'
    BY <2>5, FlushStreamStep
  <2>6. ASSUME NEW f \in Flushes, FinishFlush(f) PROVE Inv'
    BY <2>6, FinishFlushStep
  <2>7. ASSUME NEW s \in Shutdowns, FinishShutdown(s) PROVE Inv'
    BY <2>7, FinishShutdownStep
  <2>8. CASE UNCHANGED vars
    BY <2>8, StutterStep
  <2> QED
    BY <2>1, <2>2, <2>3, <2>4, <2>5, <2>6, <2>7, <2>8 DEF Next
<1> QED
  BY <1>1, <1>2, PTL DEF Spec

(* The variables keep their types. *)
THEOREM TypeCorrect == Spec => []TypeOK
<1>1. Inv => TypeOK
  BY DEF Inv
<1> QED
  BY <1>1, Invariance, PTL

(* A batch in the file after a forceFlush that returned true stays there,    *)
(* whichever writes fail before and after it.                                *)
THEOREM FlushIsHonest == Spec => []FlushHonest
<1>1. Inv => FlushHonest
  BY DEF Inv
<1> QED
  BY <1>1, Invariance, PTL

(* While the stream is good every batch reported as written is one unbroken  *)
(* run of lines, for any number of exporting threads and however the buffer  *)
(* runs over.                                                                *)
THEOREM BatchesStayWhole == Spec => []BatchesWhole
<1>1. Inv => BatchesWhole
  <2> SUFFICES ASSUME Inv, good
               PROVE  /\ SubSeq(All, 1, Len(Old)) = Old
                      /\ \A i, j \in Len(Old) + 1 .. Len(All) : All[i] = All[j] => i = j
                      /\ \A e \in Succeeded : \E k \in Len(Old) .. Len(All) - BatchSize[e] :
                            SubSeq(All, k + 1, k + BatchSize[e]) = Lines(e)
    BY DEF BatchesWhole, All
  <2>1. /\ OldKept /\ Once /\ Runs
        /\ All \in Seq(Content) /\ Len(All) \in Nat /\ Old \in Seq(Content) /\ Len(Old) \in Nat
    BY AllLines, OldLines DEF Inv, Kept
  <2>2. SubSeq(All, 1, Len(Old)) = Old
    <3>1. SubSeq(All, 0 + 1, 0 + Len(Old)) = [i \in 1 .. Len(Old) |-> All[0 + i]]
      BY <2>1, Slice DEF OldKept
    <3>2. [i \in 1 .. Len(Old) |-> All[0 + i]] = Old
      BY <2>1, LenProperties DEF OldKept
    <3> QED
      BY <2>1, <3>1, <3>2
  <2>3. ASSUME NEW e \in Succeeded
        PROVE  \E k \in Len(Old) .. Len(All) - BatchSize[e] :
                  SubSeq(All, k + 1, k + BatchSize[e]) = Lines(e)
    <3>1. e \in Exports /\ BatchSize[e] \in Nat
      BY FileAssumption DEF Succeeded
    <3>2. PICK k \in Len(Old) .. Len(All) - BatchSize[e] :
              \A i \in 1 .. BatchSize[e] : All[k + i] = Line(e, i)
      BY <2>1, <3>1 DEF Runs, Succeeded
    <3>3. k \in Nat /\ k + BatchSize[e] <= Len(All)
      BY <2>1, <3>1
    <3>4. SubSeq(All, k + 1, k + BatchSize[e]) = [i \in 1 .. BatchSize[e] |-> All[k + i]]
      BY <2>1, <3>1, <3>3, Slice
    <3>5. [i \in 1 .. BatchSize[e] |-> All[k + i]] = Lines(e)
      BY <3>2 DEF Lines
    <3> QED
      BY <3>4, <3>5, Zenon
  <2> QED
    BY <2>1, <2>2, <2>3 DEF Once
<1> QED
  BY <1>1, Invariance, PTL

(* Once one batch has failed no later one is reported as written: the error  *)
(* state of the stream is never cleared.                                     *)
THEOREM FailuresAreFinal == Spec => []FailureIsFinal
<1>1. Init => FailureIsFinal
  BY DEF Init, FailureIsFinal
<1>2. Inv /\ FailureIsFinal /\ [Next]_vars => FailureIsFinal'
  <2> SUFFICES ASSUME Inv, FailureIsFinal, [Next]_vars PROVE FailureIsFinal'
    OBVIOUS
  <2>1. CASE tried' = tried
    BY <2>1 DEF FailureIsFinal
  <2>2. ASSUME NEW value \in BOOLEAN, tried' = Append(tried, value), value => good
        PROVE  FailureIsFinal'
    <3>1. tried \in Seq(BOOLEAN)
      BY DEF Inv, TypeOK
    <3>2. /\ DOMAIN tried = 1 .. Len(tried) /\ DOMAIN tried' = 1 .. Len(tried) + 1
          /\ Len(tried) \in Nat
          /\ \A i \in 1 .. Len(tried) : tried'[i] = tried[i]
          /\ tried'[Len(tried) + 1] = value
      BY <2>2, <3>1, AppendProperties, LenProperties
    <3>3. value => \A i \in DOMAIN tried : tried[i]
      BY <2>2 DEF Inv, FailureRemembered
    <3> QED
      BY <3>2, <3>3 DEF FailureIsFinal
  <2>3. ASSUME NEW e \in Exports, BeginExport(e) PROVE FailureIsFinal'
    BY <2>1, <2>2, <2>3 DEF BeginExport
  <2>4. ASSUME NEW e \in Exports, FinishExport(e) PROVE FailureIsFinal'
    <3>1. good \in BOOLEAN /\ tried' = Append(tried, good)
      BY <2>4, Zenon DEF FinishExport, Inv, TypeOK
    <3> QED
      BY <2>2, <3>1
  <2>5. \/ tried' = tried
        \/ \E e \in Exports : BeginExport(e) \/ FinishExport(e)
    BY DEF Next, vars, Lock, WriteSpan, FlushStream, FinishFlush, FinishShutdown
  <2> QED
    BY <2>1, <2>3, <2>4, <2>5
<1> QED
  BY <1>1, <1>2, Invariance, PTL DEF Spec

(* Once a shutdown has returned the file does not change any more. *)
THEOREM ClosedStaysClosed == Spec => ClosedForGood
<1>1. Inv /\ [Next]_vars => [(\E s \in Shutdowns : pc[s] = "done") => disk' = disk]_vars
  <2> SUFFICES ASSUME Inv, Next, NEW s \in Shutdowns, pc[s] = "done" PROVE disk' = disk
    BY DEF vars
  <2>1. ~open /\ buffer = <<>>
    BY DEF Inv, Closing
  <2>2. ASSUME NEW e \in Exports, WriteSpan(e) PROVE disk' = disk
    BY <2>1, <2>2 DEF WriteSpan, Insert, stream
  <2>3. ASSUME NEW c \in Flushes \cup Shutdowns, FlushStream(c) PROVE disk' = disk
    BY <2>1, <2>3 DEF FlushStream, Flush, stream
  <2>4. ASSUME NEW t \in Shutdowns, FinishShutdown(t) PROVE disk' = disk
    BY <2>1, <2>4 DEF FinishShutdown, Close
  <2> QED
    BY <2>2, <2>3, <2>4 DEF Next, Lock, BeginExport, FinishExport, FinishFlush, stream
<1> QED
  BY <1>1, Invariance, PTL DEF Spec, ClosedForGood

=============================================================================
