-------------------------- MODULE TraceparentProofs --------------------------
(***************************************************************************)
(* The safety of Traceparent for any contexts, damage and number of hops:  *)
(* what injectTraceparent writes extractTraceparent reads, exactly the     *)
(* headers of the grammar are accepted, and what is accepted is sent on.   *)
(***************************************************************************)
EXTENDS Traceparent, TLAPS

----------------------------------------------------------------------------
(* Hexadecimal digits. *)

LowerChar(ch) == IF ch \in 65 .. 70 THEN ch + 32 ELSE ch

(* hexValue knows exactly the hexadecimal digits; only '0' is worth nothing. *)
LEMMA DigitValues ==
  ASSUME NEW ch \in Char
  PROVE  /\ HexValue(ch) \in -1 .. 15
         /\ HexValue(ch) < 0 <=> ~IsHex(ch)
         /\ HexValue(ch) = 0 <=> ch = 48
         /\ IsHex(ch) => HexValue(ch) \in 0 .. 15 /\ HexDigits(HexValue(ch)) = LowerChar(ch)
         /\ IsHex(ch) => ch # kSeparator
BY DEF Char, HexValue, IsHex, HexDigits, LowerChar, kSeparator

(* What kHexDigits writes, hexValue reads. *)
LEMMA DigitsRead ==
  ASSUME NEW d \in 0 .. 15
  PROVE  /\ HexDigits(d) \in Char /\ IsHex(HexDigits(d)) /\ HexValue(HexDigits(d)) = d
         /\ LowerChar(HexDigits(d)) = HexDigits(d)
BY DEF Char, HexValue, IsHex, HexDigits, LowerChar

(* A byte is its two digits. *)
LEMMA Nibbles ==
  ASSUME NEW b \in Byte
  PROVE  /\ b \div 16 \in 0 .. 15 /\ b % 16 \in 0 .. 15
         /\ 16 * (b \div 16) + (b % 16) = b
BY DEF Byte

LEMMA TwoNibbles ==
  ASSUME NEW h \in 0 .. 15, NEW l \in 0 .. 15
  PROVE  /\ 16 * h + l \in Byte /\ (16 * h + l) \div 16 = h /\ (16 * h + l) % 16 = l
         /\ 16 * h + l # 0 <=> h # 0 \/ l # 0
BY DEF Byte

(* Every position in a string of digits is the first or second of a pair. *)
LEMMA Pairs ==
  ASSUME NEW n \in Nat, NEW i \in 1 .. 2 * n
  PROVE  \/ \E k \in 1 .. n : i = 2 * k - 1 /\ i % 2 = 1 /\ (i + 1) \div 2 = k
         \/ \E k \in 1 .. n : i = 2 * k /\ i % 2 = 0 /\ i \div 2 = k
<1>1. CASE i % 2 = 1
  <2>1. (i + 1) \div 2 \in 1 .. n /\ i = 2 * ((i + 1) \div 2) - 1
    BY <1>1
  <2> QED
    BY <1>1, <2>1
<1>2. CASE i % 2 = 0
  <2>1. i \div 2 \in 1 .. n /\ i = 2 * (i \div 2)
    BY <1>2
  <2> QED
    BY <1>2, <2>1
<1> QED
  BY <1>1, <1>2

LEMMA PairPositions ==
  ASSUME NEW n \in Nat, NEW k \in 1 .. n
  PROVE  /\ 2 * k - 1 \in 1 .. 2 * n /\ (2 * k - 1) % 2 = 1 /\ ((2 * k - 1) + 1) \div 2 = k
         /\ 2 * k \in 1 .. 2 * n /\ (2 * k) % 2 = 0 /\ (2 * k) \div 2 = k
OBVIOUS

----------------------------------------------------------------------------
(* Ids and their hexadecimal form. *)

LEMMA IdIsSeq ==
  ASSUME NEW n \in Nat, NEW id \in [1 .. n -> Byte]
  PROVE  id \in Seq(Byte) /\ Len(id) = n
OBVIOUS

(* parseHex takes pairs of digits and nothing else; toHex of what it read is *)
(* the same text in small letters; the bytes are all zero if the digits are. *)
LEMMA ParseHexReads ==
  ASSUME NEW n \in Nat, NEW hex \in Seq(Char), Len(hex) = 2 * n,
         \A i \in DOMAIN hex : IsHex(hex[i])
  PROVE  /\ ParseHex(hex, n) \in [1 .. n -> Byte] /\ ParseHex(hex, n) # None
         /\ FormatHex(ParseHex(hex, n)) = [i \in 1 .. 2 * n |-> LowerChar(hex[i])]
         /\ HasNonZeroByte(ParseHex(hex, n)) <=> \E i \in DOMAIN hex : hex[i] # 48
<1> DEFINE id == [i \in 1 .. n |-> 16 * HexValue(hex[2 * i - 1]) + HexValue(hex[2 * i])]
<1>0. DOMAIN hex = 1 .. 2 * n /\ \A i \in 1 .. 2 * n : hex[i] \in Char /\ IsHex(hex[i])
  OBVIOUS
<1>1. \A i \in 1 .. 2 * n : /\ HexValue(hex[i]) \in 0 .. 15 /\ ~(HexValue(hex[i]) < 0)
                            /\ HexDigits(HexValue(hex[i])) = LowerChar(hex[i])
                            /\ HexValue(hex[i]) = 0 <=> hex[i] = 48
  BY <1>0, DigitValues
<1>2. ParseHex(hex, n) = id
  BY <1>0, <1>1, Zenon DEF ParseHex
<1>3. \A k \in 1 .. n : /\ id[k] = 16 * HexValue(hex[2 * k - 1]) + HexValue(hex[2 * k])
                        /\ id[k] \in Byte
                        /\ id[k] \div 16 = HexValue(hex[2 * k - 1])
                        /\ id[k] % 16 = HexValue(hex[2 * k])
                        /\ id[k] # 0 <=> hex[2 * k - 1] # 48 \/ hex[2 * k] # 48
  <2> SUFFICES ASSUME NEW k \in 1 .. n
               PROVE  /\ id[k] = 16 * HexValue(hex[2 * k - 1]) + HexValue(hex[2 * k])
                      /\ id[k] \in Byte
                      /\ id[k] \div 16 = HexValue(hex[2 * k - 1])
                      /\ id[k] % 16 = HexValue(hex[2 * k])
                      /\ id[k] # 0 <=> hex[2 * k - 1] # 48 \/ hex[2 * k] # 48
    BY Zenon
  <2>1. 2 * k - 1 \in 1 .. 2 * n /\ 2 * k \in 1 .. 2 * n
    BY PairPositions
  <2>2. PICK h \in 0 .. 15, l \in 0 .. 15 :
           h = HexValue(hex[2 * k - 1]) /\ l = HexValue(hex[2 * k])
    BY <1>1, <2>1
  <2>3. id[k] = 16 * h + l
    BY <2>2
  <2>4. /\ h = 0 <=> hex[2 * k - 1] = 48
        /\ l = 0 <=> hex[2 * k] = 48
    BY <1>1, <2>1, <2>2
  <2> HIDE DEF id
  <2>5. /\ 16 * h + l \in Byte /\ (16 * h + l) \div 16 = h /\ (16 * h + l) % 16 = l
        /\ 16 * h + l # 0 <=> h # 0 \/ l # 0
    BY TwoNibbles
  <2> QED
    BY <2>2, <2>3, <2>4, <2>5, Zenon
<1>4. id = [k \in 1 .. n |-> id[k]]
  OBVIOUS
<1> HIDE DEF id
<1>5. id \in [1 .. n -> Byte]
  BY <1>3, <1>4
<1>6. id \in Seq(Byte) /\ Len(id) = n
  BY <1>5, IdIsSeq
<1>7. FormatHex(id) = [i \in 1 .. 2 * n |-> LowerChar(hex[i])]
  <2> SUFFICES ASSUME NEW i \in 1 .. 2 * n
               PROVE  (IF i % 2 = 1 THEN HexDigits(id[(i + 1) \div 2] \div 16)
                                    ELSE HexDigits(id[i \div 2] % 16)) = LowerChar(hex[i])
    BY <1>6, Zenon DEF FormatHex
  <2>1. ASSUME NEW k \in 1 .. n, i = 2 * k - 1, i % 2 = 1, (i + 1) \div 2 = k
        PROVE  HexDigits(id[(i + 1) \div 2] \div 16) = LowerChar(hex[i])
    BY <1>1, <1>3, <2>1, Zenon
  <2>2. ASSUME NEW k \in 1 .. n, i = 2 * k, i % 2 = 0, i \div 2 = k
        PROVE  HexDigits(id[i \div 2] % 16) = LowerChar(hex[i])
    BY <1>1, <1>3, <2>2, Zenon
  <2> QED
    BY <2>1, <2>2, Pairs
<1>8. HasNonZeroByte(id) <=> \E i \in DOMAIN hex : hex[i] # 48
  <2>1. ASSUME NEW k \in DOMAIN id, id[k] # 0 PROVE \E i \in DOMAIN hex : hex[i] # 48
    <3>1. k \in 1 .. n
      BY <1>5
    <3>2. 2 * k - 1 \in DOMAIN hex /\ 2 * k \in DOMAIN hex
      BY <1>0, <3>1, PairPositions
    <3> QED
      BY <1>3, <2>1, <3>1, <3>2, Zenon
  <2>2. ASSUME NEW i \in DOMAIN hex, hex[i] # 48 PROVE \E k \in DOMAIN id : id[k] # 0
    <3>1. PICK k \in 1 .. n : i = 2 * k - 1 \/ i = 2 * k
      <4>1. i \in 1 .. 2 * n
        BY <1>0
      <4> QED
        BY <4>1, Pairs, Zenon
    <3>2. id[k] # 0 /\ k \in DOMAIN id
      BY <1>3, <1>5, <2>2, <3>1
    <3> QED
      BY <3>2
  <2> QED
    BY <2>1, <2>2 DEF HasNonZeroByte
<1>9. id # None
  BY <1>6, TraceparentAssumption
<1> QED
  BY <1>2, <1>5, <1>7, <1>8, <1>9, Zenon

LEMMA ParseHexRejects ==
  ASSUME NEW n \in Nat, NEW hex \in Seq(Char),
         ~(Len(hex) = 2 * n /\ \A i \in DOMAIN hex : IsHex(hex[i]))
  PROVE  ParseHex(hex, n) = None
<1>1. Len(hex) # 2 * n \/ \E i \in DOMAIN hex : HexValue(hex[i]) < 0
  BY DigitValues
<1> QED
  BY <1>1, Zenon DEF ParseHex

(* What toHex writes, parseHex reads. *)
LEMMA FormatHexRead ==
  ASSUME NEW n \in Nat, NEW id \in [1 .. n -> Byte]
  PROVE  /\ FormatHex(id) \in Seq(Char) /\ Len(FormatHex(id)) = 2 * n
         /\ \A i \in 1 .. 2 * n : IsHex(FormatHex(id)[i])
         /\ ParseHex(FormatHex(id), n) = id
<1>0. Len(id) = n
  BY IdIsSeq
<1>1. PICK hex : hex = FormatHex(id)
  OBVIOUS
<1>2. hex = [i \in 1 .. 2 * n |->
                IF i % 2 = 1 THEN HexDigits(id[(i + 1) \div 2] \div 16)
                             ELSE HexDigits(id[i \div 2] % 16)]
  BY <1>0, <1>1, Zenon DEF FormatHex
<1>3. \A k \in 1 .. n : /\ hex[2 * k - 1] = HexDigits(id[k] \div 16)
                        /\ hex[2 * k] = HexDigits(id[k] % 16)
  BY <1>2, PairPositions
<1>4. \A k \in 1 .. n : id[k] \div 16 \in 0 .. 15 /\ id[k] % 16 \in 0 .. 15
  BY Nibbles
<1>5. \A i \in 1 .. 2 * n : hex[i] \in Char /\ IsHex(hex[i])
  <2> SUFFICES ASSUME NEW i \in 1 .. 2 * n PROVE hex[i] \in Char /\ IsHex(hex[i])
    OBVIOUS
  <2>1. PICK k \in 1 .. n : i = 2 * k - 1 \/ i = 2 * k
    BY Pairs
  <2> QED
    BY <1>3, <1>4, <2>1, DigitsRead, Zenon
<1>6. hex \in Seq(Char) /\ Len(hex) = 2 * n /\ DOMAIN hex = 1 .. 2 * n
  BY <1>2, <1>5
<1>7. ParseHex(hex, n) = [k \in 1 .. n |-> 16 * HexValue(hex[2 * k - 1]) + HexValue(hex[2 * k])]
  <2>1. \A i \in DOMAIN hex : ~(HexValue(hex[i]) < 0)
    BY <1>5, <1>6, DigitValues
  <2> QED
    BY <1>6, <2>1, Zenon DEF ParseHex
<1>8. \A k \in 1 .. n : 16 * HexValue(hex[2 * k - 1]) + HexValue(hex[2 * k]) = id[k]
  <2> SUFFICES ASSUME NEW k \in 1 .. n
               PROVE  16 * HexValue(hex[2 * k - 1]) + HexValue(hex[2 * k]) = id[k]
    OBVIOUS
  <2>1. HexValue(hex[2 * k - 1]) = id[k] \div 16 /\ HexValue(hex[2 * k]) = id[k] % 16
    BY <1>3, <1>4, DigitsRead, Zenon
  <2>2. 16 * (id[k] \div 16) + (id[k] % 16) = id[k]
    BY Nibbles
  <2> QED
    BY <2>1, <2>2, Zenon
<1>9. ParseHex(hex, n) = id
  <2>1. ParseHex(hex, n) = [k \in 1 .. n |-> id[k]]
    BY <1>7, <1>8, Zenon
  <2> QED
    BY <2>1
<1> QED
  BY <1>1, <1>5, <1>6, <1>9, Zenon

----------------------------------------------------------------------------
(* The header. *)

LEMMA Elements ==
  ASSUME NEW s \in Seq(Char)
  PROVE  \A i \in 1 .. Len(s) : s[i] \in Char
OBVIOUS

(* substr within the string. *)
LEMMA Slice ==
  ASSUME NEW s \in Seq(Char), NEW pos \in Nat, NEW n \in Nat, pos + n <= Len(s)
  PROVE  /\ Substr(s, pos, n) = [i \in 1 .. n |-> s[pos + i]]
         /\ Substr(s, pos, n) \in Seq(Char) /\ Len(Substr(s, pos, n)) = n
<1>1. SubSeq(s, pos + 1, pos + n) = [i \in 1 .. n |-> s[pos + i]]
  OBVIOUS
<1>2. [i \in 1 .. n |-> s[pos + i]] \in Seq(Char) /\ Len([i \in 1 .. n |-> s[pos + i]]) = n
  OBVIOUS
<1> QED
  BY <1>1, <1>2, Zenon DEF Substr

(* The traceparents that can be read, by their offsets. *)
Readable(v) ==
    /\ Len(v) = 55
    /\ v[3] = kSeparator /\ v[36] = kSeparator /\ v[53] = kSeparator
    /\ v[1] = 48 /\ v[2] = 48
    /\ \A i \in 4 .. 35 : IsHex(v[i])
    /\ \A i \in 37 .. 52 : IsHex(v[i])
    /\ \A i \in 54 .. 55 : IsHex(v[i])
    /\ \E i \in 4 .. 35 : v[i] # 48
    /\ \E i \in 37 .. 52 : v[i] # 48

(* The parts of an accepted traceparent. *)
ReadTraceId(v) == ParseHex(Substr(v, 3, 32), 16)
ReadSpanId(v) == ParseHex(Substr(v, 36, 16), 8)
ReadFlags(v) == ParseHex(Substr(v, 53, 2), 1)

(* fromHex of the field from first to last gives an id of n bytes if the     *)
(* field is made of digits, not all of them zeros; toHex of the id is the    *)
(* field in small letters.                                                   *)
FieldRead(v, pos, n, m, first, last) ==
    LET id == ParseHex(Substr(v, pos, m), n)
        from == FromHex(Substr(v, pos, m), n) IN
    /\ HasNonZeroByte(from) <=>
          (\A i \in first .. last : IsHex(v[i])) /\ \E i \in first .. last : v[i] # 48
    /\ HasNonZeroByte(from) => from = id
    /\ id # None <=> \A i \in first .. last : IsHex(v[i])
    /\ (\A i \in first .. last : IsHex(v[i])) =>
          /\ id \in [1 .. n -> Byte]
          /\ FormatHex(id) = [i \in 1 .. m |-> LowerChar(v[pos + i])]
          /\ (\E i \in first .. last : v[i] # 48) => HasNonZeroByte(id)

LEMMA FieldReads ==
  ASSUME NEW v \in Seq(Char), NEW pos \in Nat, NEW n \in Nat, NEW m \in Nat,
         NEW first \in Nat, NEW last \in Nat,
         m = 2 * n, first = pos + 1, last = pos + m, last <= Len(v)
  PROVE  FieldRead(v, pos, n, m, first, last)
<1>1. PICK hex : hex = Substr(v, pos, m)
  OBVIOUS
<1>2. /\ hex \in Seq(Char) /\ Len(hex) = 2 * n /\ DOMAIN hex = 1 .. m
      /\ \A i \in 1 .. m : hex[i] = v[pos + i]
  BY <1>1, Slice
<1>a. \A i \in 1 .. m : pos + i \in first .. last
  OBVIOUS
<1>b. \A j \in first .. last : j - pos \in 1 .. m /\ pos + (j - pos) = j
  OBVIOUS
<1>3. (\A i \in DOMAIN hex : IsHex(hex[i])) <=> \A i \in first .. last : IsHex(v[i])
  BY <1>2, <1>a, <1>b, Zenon
<1>4. (\E i \in DOMAIN hex : hex[i] # 48) <=> \E i \in first .. last : v[i] # 48
  <2>1. ASSUME NEW i \in DOMAIN hex, hex[i] # 48 PROVE \E j \in first .. last : v[j] # 48
    BY <1>2, <1>a, <2>1, Zenon
  <2>2. ASSUME NEW j \in first .. last, v[j] # 48 PROVE \E i \in DOMAIN hex : hex[i] # 48
    <3>1. hex[j - pos] = v[j] /\ j - pos \in DOMAIN hex
      BY <1>2, <1>b
    <3> QED
      BY <2>2, <3>1, Zenon
  <2> QED
    BY <2>1, <2>2
<1>5. ~HasNonZeroByte(Zero(n))
  BY DEF HasNonZeroByte, Zero
<1>6. CASE \A i \in DOMAIN hex : IsHex(hex[i])
  <2>1. /\ ParseHex(hex, n) \in [1 .. n -> Byte] /\ ParseHex(hex, n) # None
        /\ FormatHex(ParseHex(hex, n)) = [i \in 1 .. 2 * n |-> LowerChar(hex[i])]
        /\ HasNonZeroByte(ParseHex(hex, n)) <=> \E i \in DOMAIN hex : hex[i] # 48
    BY <1>2, <1>6, ParseHexReads, Zenon
  <2>2. FormatHex(ParseHex(hex, n)) = [i \in 1 .. m |-> LowerChar(v[pos + i])]
    BY <1>2, <2>1, Zenon
  <2> QED
    BY <1>1, <1>3, <1>4, <1>5, <1>6, <2>1, <2>2, Zenon DEF FromHex, FieldRead
<1>7. CASE ~\A i \in DOMAIN hex : IsHex(hex[i])
  <2>1. ParseHex(hex, n) = None
    BY <1>2, <1>7, ParseHexRejects, Zenon
  <2> QED
    BY <1>1, <1>3, <1>5, <1>7, <2>1, Zenon DEF FromHex, FieldRead
<1> QED
  BY <1>6, <1>7

(* The three fields of a traceparent. *)
LEMMA FieldsRead ==
  ASSUME NEW v \in Seq(Char), Len(v) = 55
  PROVE  /\ FieldRead(v, 3, 16, 32, 4, 35)
         /\ FieldRead(v, 36, 8, 16, 37, 52)
         /\ FieldRead(v, 53, 1, 2, 54, 55)
<1>1. FieldRead(v, 3, 16, 32, 4, 35)
  <2>1. PICK pos \in Nat, n \in Nat, m \in Nat, first \in Nat, last \in Nat :
           pos = 3 /\ n = 16 /\ m = 32 /\ first = 4 /\ last = 35
    OBVIOUS
  <2>2. m = 2 * n /\ first = pos + 1 /\ last = pos + m /\ last <= Len(v)
    BY <2>1
  <2>3. FieldRead(v, pos, n, m, first, last)
    BY <2>2, FieldReads, Zenon
  <2> QED
    BY <2>1, <2>3, Zenon
<1>2. FieldRead(v, 36, 8, 16, 37, 52)
  <2>1. PICK pos \in Nat, n \in Nat, m \in Nat, first \in Nat, last \in Nat :
           pos = 36 /\ n = 8 /\ m = 16 /\ first = 37 /\ last = 52
    OBVIOUS
  <2>2. m = 2 * n /\ first = pos + 1 /\ last = pos + m /\ last <= Len(v)
    BY <2>1
  <2>3. FieldRead(v, pos, n, m, first, last)
    BY <2>2, FieldReads, Zenon
  <2> QED
    BY <2>1, <2>3, Zenon
<1>3. FieldRead(v, 53, 1, 2, 54, 55)
  <2>1. PICK pos \in Nat, n \in Nat, m \in Nat, first \in Nat, last \in Nat :
           pos = 53 /\ n = 1 /\ m = 2 /\ first = 54 /\ last = 55
    OBVIOUS
  <2>2. m = 2 * n /\ first = pos + 1 /\ last = pos + m /\ last <= Len(v)
    BY <2>1
  <2>3. FieldRead(v, pos, n, m, first, last)
    BY <2>2, FieldReads, Zenon
  <2> QED
    BY <2>1, <2>3, Zenon
<1> QED
  BY <1>1, <1>2, <1>3

(* extractTraceparent accepts exactly what can be read, and reads its parts. *)
LEMMA ExtractReads ==
  ASSUME NEW v \in Seq(Char), NEW state
  PROVE  /\ Readable(v) => Extract(v, state) =
               [error |-> None,
                context |-> [traceId |-> ReadTraceId(v), spanId |-> ReadSpanId(v),
                             traceFlags |-> ReadFlags(v)[1], tracestate |-> state]]
         /\ ~Readable(v) => \E e \in TraceparentError : Extract(v, state) = Rejected(e)
<1>1. HasExpectedSeparators(v) <=>
         Len(v) = 55 /\ v[3] = kSeparator /\ v[36] = kSeparator /\ v[53] = kSeparator
  BY DEF HasExpectedSeparators, kTraceparentLength
<1>2. CASE ~HasExpectedSeparators(v)
  BY <1>1, <1>2, Zenon DEF Extract, Readable, TraceparentError
<1>3. ASSUME HasExpectedSeparators(v)
      PROVE  /\ Readable(v) => Extract(v, state) =
                   [error |-> None,
                    context |-> [traceId |-> ReadTraceId(v), spanId |-> ReadSpanId(v),
                                 traceFlags |-> ReadFlags(v)[1], tracestate |-> state]]
             /\ ~Readable(v) => \E e \in TraceparentError : Extract(v, state) = Rejected(e)
  <2>0. Len(v) = 55
    BY <1>1, <1>3
  <2>1. Substr(v, 0, 2) = <<48, 48>> <=> v[1] = 48 /\ v[2] = 48
    <3>1. PICK w : w = Substr(v, 0, 2)
      OBVIOUS
    <3>2. w = [i \in 1 .. 2 |-> v[0 + i]] /\ w \in Seq(Char) /\ Len(w) = 2
      <4>1. 0 \in Nat /\ 2 \in Nat /\ 0 + 2 <= Len(v)
        BY <2>0
      <4> QED
        BY <3>1, <4>1, Slice, Zenon
    <3>3. w[1] = v[1] /\ w[2] = v[2]
      BY <3>2
    <3> QED
      BY <3>1, <3>2, <3>3
  <2>2. PICK traceHex, spanHex, flagsHex :
           /\ traceHex = Substr(v, 3, 32) /\ spanHex = Substr(v, 36, 16)
           /\ flagsHex = Substr(v, 53, 2)
    OBVIOUS
  <2>3. /\ HasNonZeroByte(FromHex(traceHex, 16)) <=>
              (\A i \in 4 .. 35 : IsHex(v[i])) /\ \E i \in 4 .. 35 : v[i] # 48
        /\ HasNonZeroByte(FromHex(traceHex, 16)) => FromHex(traceHex, 16) = ReadTraceId(v)
    BY <2>0, <2>2, FieldsRead, Zenon DEF FieldRead, ReadTraceId
  <2>4. /\ HasNonZeroByte(FromHex(spanHex, 8)) <=>
              (\A i \in 37 .. 52 : IsHex(v[i])) /\ \E i \in 37 .. 52 : v[i] # 48
        /\ HasNonZeroByte(FromHex(spanHex, 8)) => FromHex(spanHex, 8) = ReadSpanId(v)
    BY <2>0, <2>2, FieldsRead, Zenon DEF FieldRead, ReadSpanId
  <2>5. ParseHex(flagsHex, 1) # None <=> \A i \in 54 .. 55 : IsHex(v[i])
    BY <2>0, <2>2, FieldsRead, Zenon DEF FieldRead
  <2>6. Extract(v, state) =
          IF Substr(v, 0, 2) # <<48, 48>> THEN Rejected("kUnsupportedVersion")
          ELSE IF ~HasNonZeroByte(FromHex(traceHex, 16)) THEN Rejected("kInvalidTraceId")
          ELSE IF ~HasNonZeroByte(FromHex(spanHex, 8)) THEN Rejected("kInvalidSpanId")
          ELSE IF ParseHex(flagsHex, 1) = None THEN Rejected("kInvalidFlags")
          ELSE [error |-> None,
                context |-> [traceId |-> FromHex(traceHex, 16), spanId |-> FromHex(spanHex, 8),
                             traceFlags |-> ParseHex(flagsHex, 1)[1], tracestate |-> state]]
    <3>1. 2 * TraceIdBytes = 32 /\ TraceIdBytes = 16 /\ 2 * SpanIdBytes = 16 /\ SpanIdBytes = 8
      BY DEF TraceIdBytes, SpanIdBytes
    <3> QED
      BY <1>3, <2>2, <3>1, Zenon DEF Extract
  <2>7. Readable(v) <=>
           /\ Substr(v, 0, 2) = <<48, 48>>
           /\ HasNonZeroByte(FromHex(traceHex, 16)) /\ HasNonZeroByte(FromHex(spanHex, 8))
           /\ ParseHex(flagsHex, 1) # None
    BY <1>1, <1>3, <2>1, <2>3, <2>4, <2>5, Zenon DEF Readable
  <2>8. Readable(v) => Extract(v, state) =
           [error |-> None,
            context |-> [traceId |-> ReadTraceId(v), spanId |-> ReadSpanId(v),
                         traceFlags |-> ReadFlags(v)[1], tracestate |-> state]]
    BY <2>2, <2>3, <2>4, <2>6, <2>7, Zenon DEF ReadFlags
  <2>9. ~Readable(v) => \E e \in TraceparentError : Extract(v, state) = Rejected(e)
    BY <2>6, <2>7, Zenon DEF TraceparentError
  <2> QED
    BY <2>8, <2>9
<1> QED
  BY <1>2, <1>3

(* The parts have the types of a TraceContext, and toHex of them is the      *)
(* field in small letters.                                                   *)
LEMMA PartsRead ==
  ASSUME NEW v \in Seq(Char), Readable(v)
  PROVE  /\ ReadTraceId(v) \in [1 .. 16 -> Byte] /\ HasNonZeroByte(ReadTraceId(v))
         /\ ReadSpanId(v) \in [1 .. 8 -> Byte] /\ HasNonZeroByte(ReadSpanId(v))
         /\ ReadFlags(v) \in [1 .. 1 -> Byte]
         /\ FormatHex(ReadTraceId(v)) = [i \in 1 .. 32 |-> LowerChar(v[3 + i])]
         /\ FormatHex(ReadSpanId(v)) = [i \in 1 .. 16 |-> LowerChar(v[36 + i])]
         /\ FormatHex(ReadFlags(v)) = [i \in 1 .. 2 |-> LowerChar(v[53 + i])]
<1>0. /\ Len(v) = 55 /\ \A i \in 4 .. 35 : IsHex(v[i])
      /\ \A i \in 37 .. 52 : IsHex(v[i])
      /\ \A i \in 54 .. 55 : IsHex(v[i])
      /\ \E i \in 4 .. 35 : v[i] # 48
      /\ \E i \in 37 .. 52 : v[i] # 48
  BY Zenon DEF Readable
<1> QED
  BY <1>0, FieldsRead, Zenon DEF FieldRead, ReadTraceId, ReadSpanId, ReadFlags

(* r is s followed by t. *)
Joined(r, s, t, m, n) ==
    /\ r \in Seq(Char) /\ Len(r) = m + n
    /\ \A i \in 1 .. m : r[i] = s[i]
    /\ \A i \in 1 .. n : r[m + i] = t[i]

LEMMA ConcatAt ==
  ASSUME NEW s \in Seq(Char), NEW t \in Seq(Char), NEW m \in Nat, NEW n \in Nat,
         Len(s) = m, Len(t) = n, NEW r, r = s \o t
  PROVE  Joined(r, s, t, m, n)
<1>1. s \o t \in Seq(Char) /\ Len(s \o t) = Len(s) + Len(t)
  OBVIOUS
<1>2. /\ \A i \in 1 .. Len(s) : (s \o t)[i] = s[i]
      /\ \A i \in 1 .. Len(t) : (s \o t)[Len(s) + i] = t[i]
  OBVIOUS
<1> QED
  BY <1>1, <1>2, Zenon DEF Joined

(* hex is the text of an id of n bytes. *)
HexForm(hex, id, n, m) ==
    /\ hex \in Seq(Char) /\ Len(hex) = m
    /\ \A i \in 1 .. m : IsHex(hex[i])
    /\ ParseHex(hex, n) = id
    /\ HasNonZeroByte(id) <=> \E i \in 1 .. m : hex[i] # 48

LEMMA HexFormOf ==
  ASSUME NEW n \in Nat, NEW m \in Nat, m = 2 * n, NEW id \in [1 .. n -> Byte]
  PROVE  HexForm(FormatHex(id), id, n, m)
<1>1. PICK hex : hex = FormatHex(id)
  OBVIOUS
<1>2. /\ hex \in Seq(Char) /\ Len(hex) = 2 * n
      /\ \A i \in 1 .. 2 * n : IsHex(hex[i])
      /\ ParseHex(hex, n) = id
  BY <1>1, FormatHexRead, Zenon
<1>3. DOMAIN hex = 1 .. m
  BY <1>2
<1>4. \A i \in DOMAIN hex : IsHex(hex[i])
  BY <1>2, <1>3, Zenon
<1>5. HasNonZeroByte(ParseHex(hex, n)) <=> \E i \in DOMAIN hex : hex[i] # 48
  BY <1>2, <1>4, ParseHexReads, Zenon
<1> QED
  BY <1>1, <1>2, <1>3, <1>5, Zenon DEF HexForm

LEMMA IdForms ==
  ASSUME NEW traceId \in [1 .. 16 -> Byte], NEW spanId \in [1 .. 8 -> Byte]
  PROVE  /\ HexForm(FormatHex(traceId), traceId, 16, 32)
         /\ HexForm(FormatHex(spanId), spanId, 8, 16)
<1>1. HexForm(FormatHex(traceId), traceId, 16, 32)
  <2>1. PICK n \in Nat, m \in Nat : n = 16 /\ m = 32
    OBVIOUS
  <2>2. m = 2 * n /\ traceId \in [1 .. n -> Byte]
    BY <2>1
  <2>3. HexForm(FormatHex(traceId), traceId, n, m)
    BY <2>2, HexFormOf, Zenon
  <2> QED
    BY <2>1, <2>3, Zenon
<1>2. HexForm(FormatHex(spanId), spanId, 8, 16)
  <2>1. PICK n \in Nat, m \in Nat : n = 8 /\ m = 16
    OBVIOUS
  <2>2. m = 2 * n /\ spanId \in [1 .. n -> Byte]
    BY <2>1
  <2>3. HexForm(FormatHex(spanId), spanId, n, m)
    BY <2>2, HexFormOf, Zenon
  <2> QED
    BY <2>1, <2>3, Zenon
<1> QED
  BY <1>1, <1>2

(* The fields of a traceparent, character by character. *)
LEMMA FieldSlices ==
  ASSUME NEW v \in Seq(Char), Len(v) = 55
  PROVE  /\ Substr(v, 3, 32) = [i \in 1 .. 32 |-> v[3 + i]]
         /\ Substr(v, 36, 16) = [i \in 1 .. 16 |-> v[36 + i]]
         /\ Substr(v, 53, 2) = [i \in 1 .. 2 |-> v[53 + i]]
<1>1. \A pos, n \in Nat : pos + n <= 55 => Substr(v, pos, n) = [i \in 1 .. n |-> v[pos + i]]
  <2> TAKE pos, n \in Nat
  <2> HAVE pos + n <= 55
  <2>1. pos + n <= Len(v)
    OBVIOUS
  <2> QED
    BY <2>1, Slice, Zenon
<1>2. /\ 3 \in Nat /\ 32 \in Nat /\ 36 \in Nat /\ 16 \in Nat /\ 53 \in Nat /\ 2 \in Nat
      /\ 3 + 32 <= 55 /\ 36 + 16 <= 55 /\ 53 + 2 <= 55
  OBVIOUS
<1> QED
  BY <1>1, <1>2, Zenon

(* What injectTraceparent writes, by offsets. *)
Layout(v, traceHex, spanHex, high, low) ==
    /\ v \in Seq(Char) /\ Len(v) = 55
    /\ v[1] = 48 /\ v[2] = 48 /\ v[3] = kSeparator /\ v[36] = kSeparator /\ v[53] = kSeparator
    /\ \A i \in 1 .. 32 : v[3 + i] = traceHex[i]
    /\ \A i \in 1 .. 16 : v[36 + i] = spanHex[i]
    /\ v[54] = high /\ v[55] = low

LEMMA InjectLayout ==
  ASSUME NEW ctx \in TraceContext, IsValid(ctx)
  PROVE  Layout(Inject(ctx), FormatHex(ctx.traceId), FormatHex(ctx.spanId),
                HexDigits(ctx.traceFlags \div 16), HexDigits(ctx.traceFlags % 16))
<1>1. /\ ctx.traceId \in [1 .. 16 -> Byte] /\ ctx.spanId \in [1 .. 8 -> Byte]
      /\ ctx.traceFlags \in Byte
  BY DEF TraceContext, TraceIdBytes, SpanIdBytes
<1>2. PICK t : t = FormatHex(ctx.traceId)
  OBVIOUS
<1>3. t \in Seq(Char) /\ Len(t) = 32
  BY <1>1, <1>2, IdForms, Zenon DEF HexForm
<1>4. PICK s : s = FormatHex(ctx.spanId)
  OBVIOUS
<1>5. s \in Seq(Char) /\ Len(s) = 16
  BY <1>1, <1>4, IdForms, Zenon DEF HexForm
<1>6. PICK high \in Char, low \in Char :
         high = HexDigits(ctx.traceFlags \div 16) /\ low = HexDigits(ctx.traceFlags % 16)
  <2>1. ctx.traceFlags \div 16 \in 0 .. 15 /\ ctx.traceFlags % 16 \in 0 .. 15
    BY <1>1, Nibbles
  <2> QED
    BY <2>1, DigitsRead
<1>7. 48 \in Char /\ kSeparator \in Char
  BY DEF Char, kSeparator
<1>8. PICK p0, dash, flags : p0 = <<48, 48, kSeparator>> /\ dash = <<kSeparator>>
                             /\ flags = <<high, low>>
  OBVIOUS
<1>9. /\ p0 \in Seq(Char) /\ Len(p0) = 3 /\ p0[1] = 48 /\ p0[2] = 48 /\ p0[3] = kSeparator
      /\ dash \in Seq(Char) /\ Len(dash) = 1 /\ dash[1] = kSeparator
      /\ flags \in Seq(Char) /\ Len(flags) = 2 /\ flags[1] = high /\ flags[2] = low
  BY <1>7, <1>8
<1>10. PICK p1 : p1 = p0 \o t
  OBVIOUS
<1>11. PICK p2 : p2 = p1 \o dash
  OBVIOUS
<1>12. PICK p3 : p3 = p2 \o s
  OBVIOUS
<1>13. PICK p4 : p4 = p3 \o dash
  OBVIOUS
<1>14. PICK v : v = p4 \o flags
  OBVIOUS
<1>15. Inject(ctx) = v
  BY <1>2, <1>4, <1>6, <1>8, <1>10, <1>11, <1>12, <1>13, <1>14, Zenon DEF Inject
<1>a. /\ 3 \in Nat /\ 32 \in Nat /\ 35 \in Nat /\ 1 \in Nat /\ 36 \in Nat /\ 16 \in Nat
      /\ 52 \in Nat /\ 53 \in Nat /\ 2 \in Nat
  OBVIOUS
<1>16. /\ p1 \in Seq(Char) /\ Len(p1) = 35 /\ \A i \in 1 .. 3 : p1[i] = p0[i]
       /\ \A i \in 1 .. 32 : p1[3 + i] = t[i]
  <2>1. Joined(p1, p0, t, 3, 32)
    BY <1>a, <1>3, <1>9, <1>10, ConcatAt, Zenon
  <2> QED
    BY <2>1 DEF Joined
<1>17. /\ p2 \in Seq(Char) /\ Len(p2) = 36 /\ \A i \in 1 .. 35 : p2[i] = p1[i]
       /\ p2[36] = kSeparator
  <2>1. Joined(p2, p1, dash, 35, 1)
    BY <1>a, <1>9, <1>11, <1>16, ConcatAt, Zenon
  <2> QED
    BY <1>9, <2>1 DEF Joined
<1>18. /\ p3 \in Seq(Char) /\ Len(p3) = 52 /\ \A i \in 1 .. 36 : p3[i] = p2[i]
       /\ \A i \in 1 .. 16 : p3[36 + i] = s[i]
  <2>1. Joined(p3, p2, s, 36, 16)
    BY <1>a, <1>5, <1>12, <1>17, ConcatAt, Zenon
  <2> QED
    BY <2>1 DEF Joined
<1>19. /\ p4 \in Seq(Char) /\ Len(p4) = 53 /\ \A i \in 1 .. 52 : p4[i] = p3[i]
       /\ p4[53] = kSeparator
  <2>1. Joined(p4, p3, dash, 52, 1)
    BY <1>a, <1>9, <1>13, <1>18, ConcatAt, Zenon
  <2> QED
    BY <1>9, <2>1 DEF Joined
<1>20. /\ v \in Seq(Char) /\ Len(v) = 55 /\ \A i \in 1 .. 53 : v[i] = p4[i]
       /\ v[54] = high /\ v[55] = low
  <2>1. Joined(v, p4, flags, 53, 2)
    BY <1>a, <1>9, <1>14, <1>19, ConcatAt, Zenon
  <2> QED
    BY <1>9, <2>1 DEF Joined
<1>21. /\ v[1] = 48 /\ v[2] = 48 /\ v[3] = kSeparator /\ v[36] = kSeparator
       /\ v[53] = kSeparator
  BY <1>9, <1>16, <1>17, <1>18, <1>19, <1>20
<1>22. ASSUME NEW i \in 1 .. 32 PROVE v[3 + i] = t[i]
  <2>1. PICK j : j = 3 + i
    OBVIOUS
  <2>2. j \in 1 .. 53 /\ j \in 1 .. 52 /\ j \in 1 .. 36 /\ j \in 1 .. 35
    BY <2>1
  <2>3. v[j] = p4[j] /\ p4[j] = p3[j] /\ p3[j] = p2[j] /\ p2[j] = p1[j]
    BY <1>17, <1>18, <1>19, <1>20, <2>2, Zenon
  <2>4. p1[3 + i] = t[i]
    BY <1>16, Zenon
  <2> QED
    BY <2>1, <2>3, <2>4, Zenon
<1>23. ASSUME NEW i \in 1 .. 16 PROVE v[36 + i] = s[i]
  <2>1. PICK j : j = 36 + i
    OBVIOUS
  <2>2. j \in 1 .. 53 /\ j \in 1 .. 52
    BY <2>1
  <2>3. v[j] = p4[j] /\ p4[j] = p3[j]
    BY <1>19, <1>20, <2>2, Zenon
  <2>4. p3[36 + i] = s[i]
    BY <1>18, Zenon
  <2> QED
    BY <2>1, <2>3, <2>4, Zenon
<1>24. Layout(v, t, s, high, low)
  BY <1>20, <1>21, <1>22, <1>23, Zenon DEF Layout
<1> QED
  BY <1>2, <1>4, <1>6, <1>15, <1>24, Zenon

(* A context survives injectTraceparent and extractTraceparent. *)
LEMMA RoundTrip ==
  ASSUME NEW ctx \in TraceContext, IsValid(ctx)
  PROVE  /\ Inject(ctx) \in Seq(Char)
         /\ Extract(Inject(ctx), ctx.tracestate) = [error |-> None, context |-> ctx]
<1>1. /\ ctx.traceId \in [1 .. 16 -> Byte] /\ ctx.spanId \in [1 .. 8 -> Byte]
      /\ ctx.traceFlags \in Byte
  BY DEF TraceContext, TraceIdBytes, SpanIdBytes
<1>2. PICK v, t, s, high, low :
         /\ v = Inject(ctx) /\ t = FormatHex(ctx.traceId) /\ s = FormatHex(ctx.spanId)
         /\ high = HexDigits(ctx.traceFlags \div 16) /\ low = HexDigits(ctx.traceFlags % 16)
  OBVIOUS
<1>3. Layout(v, t, s, high, low)
  BY <1>2, InjectLayout, Zenon
<1>4. HexForm(t, ctx.traceId, 16, 32)
  BY <1>1, <1>2, IdForms, Zenon
<1>5. HexForm(s, ctx.spanId, 8, 16)
  BY <1>1, <1>2, IdForms, Zenon
<1>6. /\ IsHex(high) /\ IsHex(low) /\ high \in Char /\ low \in Char
      /\ 16 * HexValue(high) + HexValue(low) = ctx.traceFlags
      /\ HexValue(high) \in 0 .. 15 /\ HexValue(low) \in 0 .. 15
  <2>1. /\ ctx.traceFlags \div 16 \in 0 .. 15 /\ ctx.traceFlags % 16 \in 0 .. 15
        /\ 16 * (ctx.traceFlags \div 16) + (ctx.traceFlags % 16) = ctx.traceFlags
    BY <1>1, Nibbles
  <2>2. /\ IsHex(high) /\ IsHex(low) /\ high \in Char /\ low \in Char
        /\ HexValue(high) = ctx.traceFlags \div 16 /\ HexValue(low) = ctx.traceFlags % 16
    BY <1>2, <2>1, DigitsRead, Zenon
  <2> QED
    BY <2>1, <2>2
<1>7. v \in Seq(Char) /\ Len(v) = 55
  BY <1>3 DEF Layout
<1>8. Substr(v, 3, 32) = t /\ Substr(v, 36, 16) = s
  <2>1. t = [i \in 1 .. 32 |-> t[i]] /\ s = [i \in 1 .. 16 |-> s[i]]
    BY <1>4, <1>5 DEF HexForm
  <2>2. /\ [i \in 1 .. 32 |-> v[3 + i]] = [i \in 1 .. 32 |-> t[i]]
        /\ [i \in 1 .. 16 |-> v[36 + i]] = [i \in 1 .. 16 |-> s[i]]
    BY <1>3, Zenon DEF Layout
  <2> QED
    BY <1>7, <2>1, <2>2, FieldSlices, Zenon
<1>9. ReadTraceId(v) = ctx.traceId /\ ReadSpanId(v) = ctx.spanId
  BY <1>4, <1>5, <1>8, Zenon DEF ReadTraceId, ReadSpanId, HexForm
<1>10. ReadFlags(v)[1] = ctx.traceFlags
  <2>1. PICK f : f = Substr(v, 53, 2)
    OBVIOUS
  <2>2. f = [i \in 1 .. 2 |-> v[53 + i]] /\ f \in Seq(Char) /\ Len(f) = 2
    <3>1. f = [i \in 1 .. 2 |-> v[53 + i]]
      BY <1>7, <2>1, FieldSlices, Zenon
    <3>2. \A i \in 1 .. 2 : 53 + i \in 1 .. 55
      OBVIOUS
    <3>3. \A i \in 1 .. 2 : v[53 + i] \in Char
      <4>1. \A j \in 1 .. 55 : v[j] \in Char
        <5>1. \A j \in 1 .. Len(v) : v[j] \in Char
          BY <1>7, Elements, Zenon
        <5> QED
          BY <1>7, <5>1, Zenon
      <4> QED
        BY <3>2, <4>1, Zenon
    <3> QED
      BY <3>1, <3>3
  <2>3. f[1] = high /\ f[2] = low /\ DOMAIN f = 1 .. 2
    BY <1>3, <2>2 DEF Layout
  <2>4. \A i \in DOMAIN f : ~(HexValue(f[i]) < 0)
    BY <1>6, <2>3
  <2>5. Len(f) = 2 * 1
    BY <2>2
  <2>6. ParseHex(f, 1) = [i \in 1 .. 1 |-> 16 * HexValue(f[2 * i - 1]) + HexValue(f[2 * i])]
    BY <2>4, <2>5, Zenon DEF ParseHex
  <2>7. ParseHex(f, 1)[1] = 16 * HexValue(f[1]) + HexValue(f[2])
    BY <2>6
  <2> QED
    BY <1>6, <2>1, <2>3, <2>7, Zenon DEF ReadFlags
<1>11. Readable(v)
  <2>1. /\ \A i \in 4 .. 35 : i - 3 \in 1 .. 32 /\ 3 + (i - 3) = i
        /\ \A i \in 37 .. 52 : i - 36 \in 1 .. 16 /\ 36 + (i - 36) = i
        /\ \A i \in 54 .. 55 : i = 54 \/ i = 55
    OBVIOUS
  <2>2. ASSUME NEW i \in 4 .. 35 PROVE IsHex(v[i])
    <3>1. IsHex(t[i - 3]) /\ v[3 + (i - 3)] = t[i - 3]
      BY <1>3, <1>4, <2>1, Zenon DEF Layout, HexForm
    <3> QED
      BY <2>1, <3>1, Zenon
  <2>3. ASSUME NEW i \in 37 .. 52 PROVE IsHex(v[i])
    <3>1. IsHex(s[i - 36]) /\ v[36 + (i - 36)] = s[i - 36]
      BY <1>3, <1>5, <2>1, Zenon DEF Layout, HexForm
    <3> QED
      BY <2>1, <3>1, Zenon
  <2>4. \A i \in 54 .. 55 : IsHex(v[i])
    BY <1>3, <1>6, <2>1, Zenon DEF Layout
  <2>5. \E i \in 4 .. 35 : v[i] # 48
    <3>1. PICK i \in 1 .. 32 : t[i] # 48
      BY <1>4, Zenon DEF IsValid, HexForm
    <3>2. 3 + i \in 4 .. 35
      OBVIOUS
    <3> QED
      BY <1>3, <3>1, <3>2, Zenon DEF Layout
  <2>6. \E i \in 37 .. 52 : v[i] # 48
    <3>1. PICK i \in 1 .. 16 : s[i] # 48
      BY <1>5, Zenon DEF IsValid, HexForm
    <3>2. 36 + i \in 37 .. 52
      OBVIOUS
    <3> QED
      BY <1>3, <3>1, <3>2, Zenon DEF Layout
  <2> QED
    BY <1>3, <2>2, <2>3, <2>4, <2>5, <2>6, Zenon DEF Layout, Readable
<1>12. Extract(v, ctx.tracestate) =
          [error |-> None,
           context |-> [traceId |-> ctx.traceId, spanId |-> ctx.spanId,
                        traceFlags |-> ctx.traceFlags, tracestate |-> ctx.tracestate]]
  BY <1>7, <1>9, <1>10, <1>11, ExtractReads, Zenon
<1>13. ctx = [traceId |-> ctx.traceId, spanId |-> ctx.spanId,
              traceFlags |-> ctx.traceFlags, tracestate |-> ctx.tracestate]
  BY DEF TraceContext
<1> QED
  BY <1>2, <1>7, <1>12, <1>13, Zenon

(* The context read from a traceparent is written as the same text, in small *)
(* letters.                                                                  *)
LEMMA WrittenAsRead ==
  ASSUME NEW v \in Seq(Char), Readable(v), NEW ctx \in TraceContext, IsValid(ctx),
         ctx.traceId = ReadTraceId(v), ctx.spanId = ReadSpanId(v),
         ctx.traceFlags = ReadFlags(v)[1]
  PROVE  Inject(ctx) = Lower(v)
<1>1. PICK w, t, s, high, low :
         /\ w = Inject(ctx) /\ t = FormatHex(ctx.traceId) /\ s = FormatHex(ctx.spanId)
         /\ high = HexDigits(ctx.traceFlags \div 16) /\ low = HexDigits(ctx.traceFlags % 16)
  OBVIOUS
<1>2. Layout(w, t, s, high, low)
  BY <1>1, InjectLayout, Zenon
<1>3. /\ t = [i \in 1 .. 32 |-> LowerChar(v[3 + i])]
      /\ s = [i \in 1 .. 16 |-> LowerChar(v[36 + i])]
      /\ FormatHex(ReadFlags(v)) = [i \in 1 .. 2 |-> LowerChar(v[53 + i])]
      /\ ReadFlags(v) \in [1 .. 1 -> Byte]
  BY <1>1, PartsRead, Zenon
<1>4. high = LowerChar(v[54]) /\ low = LowerChar(v[55])
  <2>1. PICK f : f = ReadFlags(v)
    OBVIOUS
  <2>2. Len(f) = 1
    BY <1>3, <2>1, IdIsSeq
  <2>3. FormatHex(f)[1] = HexDigits(f[1] \div 16) /\ FormatHex(f)[2] = HexDigits(f[1] % 16)
    <3>1. 1 % 2 = 1 /\ 2 % 2 = 0 /\ (1 + 1) \div 2 = 1 /\ 2 \div 2 = 1 /\ 2 * 1 = 2
          /\ 1 \in 1 .. 2 /\ 2 \in 1 .. 2
      OBVIOUS
    <3> QED
      BY <2>2, <3>1 DEF FormatHex
  <2>4. FormatHex(f)[1] = LowerChar(v[54]) /\ FormatHex(f)[2] = LowerChar(v[55])
    BY <1>3, <2>1
  <2> QED
    BY <1>1, <2>1, <2>3, <2>4, Zenon
<1>5. DOMAIN v = 1 .. 55 /\ w \in Seq(Char) /\ DOMAIN w = 1 .. 55
  BY <1>2 DEF Readable, Layout
<1>6. /\ w[1] = v[1] /\ w[2] = v[2] /\ w[3] = v[3] /\ w[36] = v[36] /\ w[53] = v[53]
      /\ v[1] = 48 /\ v[2] = 48 /\ v[3] = 45 /\ v[36] = 45 /\ v[53] = 45
  BY <1>2 DEF Readable, Layout, kSeparator
<1>7. ASSUME NEW i \in 1 .. 55 PROVE w[i] = LowerChar(v[i])
  <2>1. CASE i \in {1, 2, 3, 36, 53}
    <3>1. LowerChar(48) = 48 /\ LowerChar(45) = 45
      BY DEF LowerChar
    <3> QED
      BY <1>6, <2>1, <3>1, Zenon
  <2>2. CASE i \in 4 .. 35
    <3>1. i - 3 \in 1 .. 32 /\ 3 + (i - 3) = i
      BY <2>2
    <3>2. w[3 + (i - 3)] = t[i - 3] /\ t[i - 3] = LowerChar(v[3 + (i - 3)])
      BY <1>2, <1>3, <3>1, Zenon DEF Layout
    <3> QED
      BY <3>1, <3>2
  <2>3. CASE i \in 37 .. 52
    <3>1. i - 36 \in 1 .. 16 /\ 36 + (i - 36) = i
      BY <2>3
    <3>2. w[36 + (i - 36)] = s[i - 36] /\ s[i - 36] = LowerChar(v[36 + (i - 36)])
      BY <1>2, <1>3, <3>1, Zenon DEF Layout
    <3> QED
      BY <3>1, <3>2
  <2>4. CASE i \in {54, 55}
    BY <1>2, <1>4, <2>4, Zenon DEF Layout
  <2> QED
    BY <2>1, <2>2, <2>3, <2>4
<1>8. w = [i \in 1 .. 55 |-> w[i]]
  BY <1>5
<1>9. Lower(v) = [i \in 1 .. 55 |-> LowerChar(v[i])]
  BY <1>5, Zenon DEF Lower, LowerChar
<1> QED
  BY <1>1, <1>7, <1>8, <1>9, Zenon

----------------------------------------------------------------------------
(* The grammar. *)

(* f is what stands in v between two separators. *)
Between(f, v, from, to) ==
    /\ f \in Seq(Char) /\ Len(f) = to - 1 - from
    /\ \A i \in 1 .. (to - 1 - from) : f[i] = v[from + i]

LEMMA BetweenIs ==
  ASSUME NEW v \in Seq(Char), NEW from \in Nat, NEW to \in Nat, from < to, to <= Len(v) + 1
  PROVE  Between(SubSeq(v, from + 1, to - 1), v, from, to)
<1>1. PICK n \in Nat : n = to - 1 - from
  OBVIOUS
<1>2. from + n <= Len(v) /\ from + n = to - 1
  BY <1>1
<1>3. /\ Substr(v, from, n) = [i \in 1 .. n |-> v[from + i]]
      /\ Substr(v, from, n) \in Seq(Char) /\ Len(Substr(v, from, n)) = n
  BY <1>2, Slice, Zenon
<1>4. Substr(v, from, n) = SubSeq(v, from + 1, to - 1)
  BY <1>2, Zenon DEF Substr
<1>5. \A i \in 1 .. n : Substr(v, from, n)[i] = v[from + i]
  BY <1>3
<1> QED
  BY <1>1, <1>3, <1>4, <1>5, Zenon DEF Between

(* The four fields between three separators. *)
LEMMA FieldsBetween ==
  ASSUME NEW v \in Seq(Char), NEW a \in Nat, NEW b \in Nat, NEW c \in Nat,
         0 < a, a < b, b < c, c <= Len(v)
  PROVE  /\ Between(SubSeq(v, 1, a - 1), v, 0, a)
         /\ Between(SubSeq(v, a + 1, b - 1), v, a, b)
         /\ Between(SubSeq(v, b + 1, c - 1), v, b, c)
         /\ Between(SubSeq(v, c + 1, Len(v)), v, c, Len(v) + 1)
<1>1. PICK z \in Nat, e \in Nat : z = 0 /\ e = Len(v) + 1 /\ z + 1 = 1 /\ e - 1 = Len(v)
  OBVIOUS
<1>2. /\ z < a /\ a <= Len(v) + 1 /\ b <= Len(v) + 1 /\ c <= Len(v) + 1
      /\ c < e /\ e <= Len(v) + 1
  BY <1>1
<1>3. Between(SubSeq(v, z + 1, a - 1), v, z, a)
  BY <1>2, BetweenIs, Zenon
<1>4. Between(SubSeq(v, a + 1, b - 1), v, a, b)
  BY <1>2, BetweenIs, Zenon
<1>5. Between(SubSeq(v, b + 1, c - 1), v, b, c)
  BY <1>2, BetweenIs, Zenon
<1>6. Between(SubSeq(v, c + 1, e - 1), v, c, e)
  BY <1>2, BetweenIs, Zenon
<1> QED
  BY <1>1, <1>3, <1>4, <1>5, <1>6, Zenon

(* f stands in v from first to last. *)
FieldDigits(f, v, first, last) ==
    /\ AllHex(f) <=> \A i \in first .. last : IsHex(v[i])
    /\ ~AllZeros(f) <=> \E i \in first .. last : v[i] # 48

LEMMA DigitsOfField ==
  ASSUME NEW v, NEW f, NEW n \in Nat, NEW pos \in Nat, NEW first \in Nat, NEW last \in Nat,
         DOMAIN f = 1 .. n, \A i \in 1 .. n : f[i] = v[pos + i],
         first = pos + 1, last = pos + n
  PROVE  FieldDigits(f, v, first, last)
<1>1. \A i \in 1 .. n : pos + i \in first .. last
  OBVIOUS
<1>2. \A j \in first .. last : j - pos \in 1 .. n /\ pos + (j - pos) = j
  OBVIOUS
<1>3. ASSUME NEW j \in first .. last PROVE \E i \in DOMAIN f : f[i] = v[j]
  <2>1. j - pos \in 1 .. n /\ pos + (j - pos) = j
    BY <1>2, Zenon
  <2>2. f[j - pos] = v[pos + (j - pos)]
    BY <2>1, Zenon
  <2> QED
    BY <2>1, <2>2, Zenon
<1>4. ASSUME NEW i \in DOMAIN f PROVE \E j \in first .. last : f[i] = v[j]
  BY <1>1, Zenon
<1>5. ASSUME AllHex(f), NEW j \in first .. last PROVE IsHex(v[j])
  <2>1. PICK i \in DOMAIN f : f[i] = v[j]
    BY <1>3, Zenon
  <2> QED
    BY <1>5, <2>1, Zenon DEF AllHex
<1>6. ASSUME \A j \in first .. last : IsHex(v[j]) PROVE AllHex(f)
  BY <1>4, <1>6, Zenon DEF AllHex
<1>7. ASSUME ~AllZeros(f) PROVE \E i \in first .. last : v[i] # 48
  BY <1>4, <1>7, Zenon DEF AllZeros
<1>8. ASSUME NEW j \in first .. last, v[j] # 48 PROVE ~AllZeros(f)
  <2>1. PICK i \in DOMAIN f : f[i] = v[j]
    BY <1>3, Zenon
  <2> QED
    BY <1>8, <2>1, Zenon DEF AllZeros
<1> QED
  BY <1>5, <1>6, <1>7, <1>8, Zenon DEF FieldDigits

(* The four fields of a text of 55 characters. *)
LEMMA FieldsByOffset ==
  ASSUME NEW v \in Seq(Char), NEW f1, NEW f2, NEW f3, NEW f4,
         Between(f1, v, 0, 3), Between(f2, v, 3, 36), Between(f3, v, 36, 53),
         Between(f4, v, 53, 56)
  PROVE  Fields(f1, f2, f3, f4) <=>
           /\ v[1] = 48 /\ v[2] = 48
           /\ \A i \in 4 .. 35 : IsHex(v[i])
           /\ \A i \in 37 .. 52 : IsHex(v[i])
           /\ \A i \in 54 .. 55 : IsHex(v[i])
           /\ \E i \in 4 .. 35 : v[i] # 48
           /\ \E i \in 37 .. 52 : v[i] # 48
<1>1. f1 \in Seq(Char) /\ Len(f1) = 2 /\ f1[1] = v[1] /\ f1[2] = v[2]
  BY DEF Between
<1>2. f2 \in Seq(Char) /\ Len(f2) = 32 /\ DOMAIN f2 = 1 .. 32 /\ \A i \in 1 .. 32 : f2[i] = v[3 + i]
  BY DEF Between
<1>3. f3 \in Seq(Char) /\ Len(f3) = 16 /\ DOMAIN f3 = 1 .. 16 /\ \A i \in 1 .. 16 : f3[i] = v[36 + i]
  BY DEF Between
<1>4. f4 \in Seq(Char) /\ Len(f4) = 2 /\ DOMAIN f4 = 1 .. 2 /\ \A i \in 1 .. 2 : f4[i] = v[53 + i]
  BY DEF Between
<1>5. f1 = <<48, 48>> <=> v[1] = 48 /\ v[2] = 48
  <2>1. f1 = <<f1[1], f1[2]>>
    BY <1>1
  <2>2. f1 = <<48, 48>> => f1[1] = 48 /\ f1[2] = 48
    OBVIOUS
  <2> QED
    BY <1>1, <2>1, <2>2, Zenon
<1>7. FieldDigits(f2, v, 4, 35)
  <2>1. PICK n \in Nat, pos \in Nat, first \in Nat, last \in Nat :
           n = 32 /\ pos = 3 /\ first = 4 /\ last = 35
    OBVIOUS
  <2>2. first = pos + 1 /\ last = pos + n
    BY <2>1
  <2>3. DOMAIN f2 = 1 .. n /\ \A i \in 1 .. n : f2[i] = v[pos + i]
    BY <1>2, <2>1, Zenon
  <2>4. FieldDigits(f2, v, first, last)
    BY <2>2, <2>3, DigitsOfField, Zenon
  <2> QED
    BY <2>1, <2>4, Zenon
<1>8. FieldDigits(f3, v, 37, 52)
  <2>1. PICK n \in Nat, pos \in Nat, first \in Nat, last \in Nat :
           n = 16 /\ pos = 36 /\ first = 37 /\ last = 52
    OBVIOUS
  <2>2. first = pos + 1 /\ last = pos + n
    BY <2>1
  <2>3. DOMAIN f3 = 1 .. n /\ \A i \in 1 .. n : f3[i] = v[pos + i]
    BY <1>3, <2>1, Zenon
  <2>4. FieldDigits(f3, v, first, last)
    BY <2>2, <2>3, DigitsOfField, Zenon
  <2> QED
    BY <2>1, <2>4, Zenon
<1>9. FieldDigits(f4, v, 54, 55)
  <2>1. PICK n \in Nat, pos \in Nat, first \in Nat, last \in Nat :
           n = 2 /\ pos = 53 /\ first = 54 /\ last = 55
    OBVIOUS
  <2>2. first = pos + 1 /\ last = pos + n
    BY <2>1
  <2>3. DOMAIN f4 = 1 .. n /\ \A i \in 1 .. n : f4[i] = v[pos + i]
    BY <1>4, <2>1, Zenon
  <2>4. FieldDigits(f4, v, first, last)
    BY <2>2, <2>3, DigitsOfField, Zenon
  <2> QED
    BY <2>1, <2>4, Zenon
<1> QED
  BY <1>2, <1>3, <1>4, <1>5, <1>7, <1>8, <1>9, Zenon DEF Fields, FieldDigits

(* Offsets and separators describe the same traceparents. *)
LEMMA ReadableGrammar ==
  ASSUME NEW v \in Seq(Char)
  PROVE  Readable(v) <=> WellFormed(v)
<1>0. DOMAIN v = 1 .. Len(v) /\ Len(v) \in Nat
  OBVIOUS
<1>1. ASSUME Readable(v) PROVE WellFormed(v)
  <2>0. /\ Len(v) = 55 /\ v[3] = kSeparator /\ v[36] = kSeparator /\ v[53] = kSeparator
        /\ v[1] = 48 /\ v[2] = 48
        /\ \A i \in 4 .. 35 : IsHex(v[i])
        /\ \A i \in 37 .. 52 : IsHex(v[i])
        /\ \A i \in 54 .. 55 : IsHex(v[i])
        /\ \E i \in 4 .. 35 : v[i] # 48
        /\ \E i \in 37 .. 52 : v[i] # 48
    BY <1>1, Zenon DEF Readable
  <2>1. ASSUME NEW i \in Separators(v) PROVE i = 3 \/ i = 36 \/ i = 53
    <3>1. i \in 1 .. 55 /\ v[i] = kSeparator
      BY <1>0, <2>0, Zenon DEF Separators
    <3>2. 48 # kSeparator /\ ~IsHex(kSeparator)
      BY DEF kSeparator, IsHex
    <3>3. ~(i \in 4 .. 35) /\ ~(i \in 37 .. 52) /\ ~(i \in 54 .. 55) /\ i # 1 /\ i # 2
      <4>1. ~IsHex(v[i]) /\ v[i] # 48
        BY <3>1, <3>2, Zenon
      <4>2. ~(i \in 4 .. 35) /\ ~(i \in 37 .. 52) /\ ~(i \in 54 .. 55)
        BY <2>0, <4>1, Zenon
      <4>3. i # 1
        BY <2>0, <4>1, Zenon
      <4>4. i # 2
        BY <2>0, <4>1, Zenon
      <4> QED
        BY <4>2, <4>3, <4>4
    <3> QED
      BY <3>1, <3>3
  <2>2. 3 \in Separators(v) /\ 36 \in Separators(v) /\ 53 \in Separators(v)
    <3>1. 3 \in 1 .. 55 /\ 36 \in 1 .. 55 /\ 53 \in 1 .. 55
      OBVIOUS
    <3> QED
      BY <1>0, <2>0, <3>1, Zenon DEF Separators
  <2>3. Separators(v) = {3, 36, 53}
    BY <2>1, <2>2, Zenon
  <2>4. PICK a \in Nat, b \in Nat, c \in Nat : a = 3 /\ b = 36 /\ c = 53
    OBVIOUS
  <2>5. 0 < a /\ a < b /\ b < c /\ c <= Len(v)
    BY <2>0, <2>4
  <2>6. PICK f1, f2, f3, f4 :
           /\ f1 = SubSeq(v, 1, a - 1) /\ f2 = SubSeq(v, a + 1, b - 1)
           /\ f3 = SubSeq(v, b + 1, c - 1) /\ f4 = SubSeq(v, c + 1, Len(v))
    OBVIOUS
  <2>7. /\ Between(f1, v, 0, a) /\ Between(f2, v, a, b) /\ Between(f3, v, b, c)
        /\ Between(f4, v, c, Len(v) + 1)
    BY <2>5, <2>6, FieldsBetween, Zenon
  <2>8. Len(v) + 1 = 56
    BY <2>0
  <2>9. /\ Between(f1, v, 0, 3) /\ Between(f2, v, 3, 36) /\ Between(f3, v, 36, 53)
        /\ Between(f4, v, 53, 56)
    BY <2>4, <2>7, <2>8, Zenon
  <2>10. Fields(f1, f2, f3, f4)
    BY <2>0, <2>9, FieldsByOffset, Zenon
  <2>11. Separators(v) = {a, b, c} /\ a \in Separators(v) /\ b \in Separators(v) /\ c \in Separators(v)
    BY <2>2, <2>3, <2>4, Zenon
  <2> QED
    BY <2>5, <2>6, <2>10, <2>11, Zenon DEF WellFormed
<1>2. ASSUME WellFormed(v) PROVE Readable(v)
  <2>1. PICK a \in Separators(v), b \in Separators(v), c \in Separators(v) :
           /\ a < b /\ b < c
           /\ Fields(SubSeq(v, 1, a - 1), SubSeq(v, a + 1, b - 1),
                     SubSeq(v, b + 1, c - 1), SubSeq(v, c + 1, Len(v)))
    BY <1>2, Zenon DEF WellFormed
  <2>2. /\ a \in 1 .. Len(v) /\ b \in 1 .. Len(v) /\ c \in 1 .. Len(v)
        /\ v[a] = kSeparator /\ v[b] = kSeparator /\ v[c] = kSeparator
    BY <1>0, Zenon DEF Separators
  <2>3. a \in Nat /\ b \in Nat /\ c \in Nat /\ 0 < a /\ c <= Len(v)
    BY <1>0, <2>2
  <2>4. PICK f1, f2, f3, f4 :
           /\ f1 = SubSeq(v, 1, a - 1) /\ f2 = SubSeq(v, a + 1, b - 1)
           /\ f3 = SubSeq(v, b + 1, c - 1) /\ f4 = SubSeq(v, c + 1, Len(v))
    OBVIOUS
  <2>5. /\ Between(f1, v, 0, a) /\ Between(f2, v, a, b) /\ Between(f3, v, b, c)
        /\ Between(f4, v, c, Len(v) + 1)
    BY <2>1, <2>3, <2>4, FieldsBetween, Zenon
  <2>6. Fields(f1, f2, f3, f4)
    BY <2>1, <2>4, Zenon
  <2>7. a = 3 /\ b = 36 /\ c = 53 /\ Len(v) = 55
    <3>1. /\ Len(f1) = a - 1 - 0 /\ Len(f2) = b - 1 - a /\ Len(f3) = c - 1 - b
          /\ Len(f4) = (Len(v) + 1) - 1 - c
      BY <2>5, Zenon DEF Between
    <3>2. f1 = <<48, 48>> /\ Len(f2) = 32 /\ Len(f3) = 16 /\ Len(f4) = 2
      BY <2>6, Zenon DEF Fields
    <3>3. Len(f1) = 2
      BY <3>2
    <3>4. a - 1 - 0 = 2 /\ b - 1 - a = 32 /\ c - 1 - b = 16 /\ (Len(v) + 1) - 1 - c = 2
      BY <3>1, <3>2, <3>3, Zenon
    <3>5. a = 3
      BY <2>3, <3>4
    <3>6. b = 36
      BY <2>3, <3>4, <3>5
    <3>7. c = 53
      BY <2>3, <3>4, <3>6
    <3>8. PICK n \in Nat : n = Len(v)
      BY <1>0, Zenon
    <3>9. (n + 1) - 1 - c = 2
      BY <3>4, <3>8, Zenon
    <3>10. n = 55
      BY <3>7, <3>9
    <3> QED
      BY <3>5, <3>6, <3>7, <3>8, <3>10
  <2>8. Len(v) + 1 = 56
    BY <2>7
  <2>9. /\ Between(f1, v, 0, 3) /\ Between(f2, v, 3, 36) /\ Between(f3, v, 36, 53)
        /\ Between(f4, v, 53, 56)
    BY <2>5, <2>7, <2>8, Zenon
  <2>10. /\ v[1] = 48 /\ v[2] = 48
         /\ \A i \in 4 .. 35 : IsHex(v[i])
         /\ \A i \in 37 .. 52 : IsHex(v[i])
         /\ \A i \in 54 .. 55 : IsHex(v[i])
         /\ \E i \in 4 .. 35 : v[i] # 48
         /\ \E i \in 37 .. 52 : v[i] # 48
    BY <2>6, <2>9, FieldsByOffset, Zenon
  <2> QED
    BY <2>2, <2>7, <2>10, Zenon DEF Readable
<1> QED
  BY <1>1, <1>2

----------------------------------------------------------------------------
(* The chain of services. *)

(* The receiver has what extractTraceparent makes of the header it was sent. *)
Reading == got # None => header # None /\ got = Extract(header.parent, header.state)

(* Damage leaves the tracestate alone. *)
StateKept == header # None => header.state = sent.tracestate

Inv == TypeOK /\ Reading /\ StateKept

(* An accepted traceparent gives a valid context. *)
LEMMA ExtractTyped ==
  ASSUME NEW v \in Seq(Char), NEW state \in STRING, NEW r, r = Extract(v, state)
  PROVE  /\ Readable(v) => /\ r.error = None /\ r.context \in TraceContext /\ IsValid(r.context)
                           /\ r.context.traceId = ReadTraceId(v)
                           /\ r.context.spanId = ReadSpanId(v)
                           /\ r.context.traceFlags = ReadFlags(v)[1]
         /\ ~Readable(v) => r.error # None /\ r.error \in TraceparentError /\ r.context = None
<1>1. CASE Readable(v)
  <2>1. PICK ctx : ctx = [traceId |-> ReadTraceId(v), spanId |-> ReadSpanId(v),
                          traceFlags |-> ReadFlags(v)[1], tracestate |-> state]
    OBVIOUS
  <2>2. r = [error |-> None, context |-> ctx]
    BY <1>1, <2>1, ExtractReads, Zenon
  <2>3. r.error = None /\ r.context = ctx
    BY <2>2
  <2>4. /\ ReadTraceId(v) \in [1 .. 16 -> Byte] /\ HasNonZeroByte(ReadTraceId(v))
        /\ ReadSpanId(v) \in [1 .. 8 -> Byte] /\ HasNonZeroByte(ReadSpanId(v))
        /\ ReadFlags(v) \in [1 .. 1 -> Byte]
    BY <1>1, PartsRead, Zenon
  <2>5. ReadFlags(v)[1] \in Byte
    BY <2>4
  <2>6. /\ ctx.traceId = ReadTraceId(v) /\ ctx.spanId = ReadSpanId(v)
        /\ ctx.traceFlags = ReadFlags(v)[1]
    BY <2>1
  <2>7. ctx \in TraceContext
    BY <2>1, <2>4, <2>5 DEF TraceContext, TraceIdBytes, SpanIdBytes
  <2>8. IsValid(ctx)
    BY <2>4, <2>6, Zenon DEF IsValid
  <2> QED
    BY <1>1, <2>3, <2>6, <2>7, <2>8, Zenon
<1>2. CASE ~Readable(v)
  <2>1. PICK e \in TraceparentError : r = Rejected(e)
    BY <1>2, ExtractReads, Zenon
  <2>2. r.error = e /\ r.context = None
    BY <2>1 DEF Rejected
  <2> QED
    BY <1>2, <2>2, TraceparentAssumption, Zenon
<1> QED
  BY <1>1, <1>2

LEMMA HeaderTyped ==
  ASSUME TypeOK, header # None
  PROVE  /\ header.parent \in Seq(Char) /\ header.state \in STRING
         /\ header = [parent |-> header.parent, state |-> header.state]
<1>1. header \in [parent : Seq(Char), state : STRING]
  BY DEF TypeOK
<1> QED
  BY <1>1

(* What TypeOK says of got. *)
GotOK(g) ==
    g # None =>
        \/ g.context = None /\ g.error \in TraceparentError
        \/ g.error = None /\ g.context \in TraceContext /\ IsValid(g.context)

LEMMA TypeParts ==
  TypeOK <=> /\ sent \in TraceContext /\ IsValid(sent)
             /\ header # None => header \in [parent : Seq(Char), state : STRING]
             /\ edits \in 0 .. MaxEdits /\ hops \in 0 .. MaxHops
             /\ GotOK(got)
BY Zenon DEF TypeOK, GotOK

LEMMA TypePartsNext ==
  TypeOK' <=> /\ sent' \in TraceContext /\ IsValid(sent')
              /\ header' # None => header' \in [parent : Seq(Char), state : STRING]
              /\ edits' \in 0 .. MaxEdits /\ hops' \in 0 .. MaxHops
              /\ GotOK(got')
BY Zenon DEF TypeOK, GotOK

LEMMA InitInv == Init => Inv
<1> SUFFICES ASSUME Init PROVE Inv
  OBVIOUS
<1>1. sent \in TraceContext /\ IsValid(sent)
  BY TraceparentAssumption DEF Init
<1>2. edits \in 0 .. MaxEdits /\ hops \in 0 .. MaxHops
  BY TraceparentAssumption DEF Init
<1>3. header = None /\ got = None
  BY DEF Init
<1> QED
  BY <1>1, <1>2, <1>3, TypeParts, Zenon DEF Inv, Reading, StateKept, GotOK

LEMMA SendInv == ASSUME Inv, Send PROVE Inv'
<1>1. TypeOK /\ got = None /\ header = None
  BY Zenon DEF Inv, Reading, Send
<1>2. sent \in TraceContext /\ IsValid(sent) /\ sent.tracestate \in STRING
  BY <1>1 DEF TypeOK, TraceContext
<1>3. PICK parent : parent = Inject(sent) /\ parent \in Seq(Char)
  BY <1>2, RoundTrip, Zenon
<1>4. header' = [parent |-> parent, state |-> sent.tracestate]
  BY <1>3, Zenon DEF Send, InjectTracestate
<1>5. header' \in [parent : Seq(Char), state : STRING] /\ header'.state = sent.tracestate
  BY <1>2, <1>3, <1>4
<1>6. hops' \in 0 .. MaxHops
  BY <1>1, TraceparentAssumption DEF Send, TypeOK
<1>7. sent' = sent /\ edits' = edits /\ got' = got
  BY DEF Send
<1>8. TypeOK'
  BY <1>1, <1>5, <1>6, <1>7, TypeParts, TypePartsNext, Zenon
<1> QED
  BY <1>1, <1>5, <1>7, <1>8, Zenon DEF Inv, Reading, StateKept

LEMMA DamageToInv ==
  ASSUME Inv, NEW parent \in Seq(Char), DamageTo(parent)
  PROVE  Inv'
<1>1. TypeOK /\ header # None /\ got = None
  BY DEF Inv, DamageTo
<1>2. header \in [parent : Seq(Char), state : STRING]
  BY <1>1 DEF TypeOK
<1>3. header' \in [parent : Seq(Char), state : STRING] /\ header'.state = header.state
  BY <1>2 DEF DamageTo
<1>4. edits' \in 0 .. MaxEdits
  BY <1>1, TraceparentAssumption DEF DamageTo, TypeOK
<1>5. sent' = sent /\ got' = got /\ hops' = hops
  BY DEF DamageTo
<1>6. TypeOK'
  BY <1>1, <1>3, <1>4, <1>5, TypeParts, TypePartsNext, Zenon
<1> QED
  BY <1>1, <1>3, <1>5, <1>6, Zenon DEF Inv, Reading, StateKept

LEMMA DamageInv == ASSUME Inv, Damage PROVE Inv'
<1>1. header # None /\ TypeOK
  BY DEF Damage, Inv
<1>2. PICK parent \in Seq(Char) : parent = header.parent
  BY <1>1, HeaderTyped, Zenon
<1>3. ASSUME NEW i \in Positions \cap DOMAIN header.parent, NEW ch \in Characters,
             DamageTo([header.parent EXCEPT ![i] = ch])
      PROVE  Inv'
  <2>1. ch \in Char
    BY TraceparentAssumption
  <2>2. [parent EXCEPT ![i] = ch] \in Seq(Char)
    BY <1>2, <2>1
  <2> QED
    BY <1>2, <1>3, <2>2, DamageToInv, Zenon
<1>4. ASSUME NEW ch \in Characters, DamageTo(Append(header.parent, ch)) PROVE Inv'
  <2>1. ch \in Char
    BY TraceparentAssumption
  <2>2. Append(parent, ch) \in Seq(Char)
    BY <2>1
  <2> QED
    BY <1>2, <1>4, <2>2, DamageToInv, Zenon
<1>5. ASSUME header.parent # <<>>, DamageTo(Tail(header.parent)) PROVE Inv'
  <2>1. Tail(parent) \in Seq(Char)
    BY <1>2, <1>5
  <2> QED
    BY <1>2, <1>5, <2>1, DamageToInv, Zenon
<1> QED
  BY <1>3, <1>4, <1>5, Zenon DEF Damage

LEMMA ReceiveInv == ASSUME Inv, Receive PROVE Inv'
<1>1. TypeOK /\ header # None /\ got' = Extract(header.parent, header.state)
  BY DEF Inv, Receive
<1>2. header.parent \in Seq(Char) /\ header.state \in STRING
  BY <1>1, HeaderTyped, Zenon
<1>3. GotOK(got')
  <2>1. PICK v \in Seq(Char), state \in STRING : v = header.parent /\ state = header.state
    BY <1>2, Zenon
  <2>2. got' = Extract(v, state)
    BY <1>1, <2>1, Zenon
  <2> QED
    BY <2>2, ExtractTyped, Zenon DEF GotOK
<1>4. sent' = sent /\ header' = header /\ edits' = edits /\ hops' = hops
  BY DEF Receive
<1>5. TypeOK'
  BY <1>1, <1>3, <1>4, TypeParts, TypePartsNext, Zenon
<1> QED
  BY <1>1, <1>4, <1>5, Zenon DEF Inv, Reading, StateKept

LEMMA ForwardInv == ASSUME Inv, Forward PROVE Inv'
<1>1. TypeOK /\ got # None /\ got.error = None /\ sent' = got.context /\ header' = None /\ got' = None
  BY DEF Inv, Forward
<1>2. None \notin TraceparentError
  BY TraceparentAssumption
<1>3. sent' \in TraceContext /\ IsValid(sent')
  BY <1>1, <1>2, TypeParts, Zenon DEF GotOK
<1>4. edits' = edits /\ hops' = hops
  BY DEF Forward
<1>5. TypeOK'
  BY <1>1, <1>3, <1>4, TypeParts, TypePartsNext, Zenon DEF GotOK
<1> QED
  BY <1>1, <1>5, Zenon DEF Inv, Reading, StateKept

LEMMA StutterInv == ASSUME Inv, UNCHANGED vars PROVE Inv'
<1>1. sent' = sent /\ header' = header /\ edits' = edits /\ got' = got /\ hops' = hops
  BY DEF vars
<1>2. TypeOK'
  BY <1>1, TypeParts, TypePartsNext, Zenon DEF Inv
<1> QED
  BY <1>1, <1>2, Zenon DEF Inv, Reading, StateKept

(* The inductive invariant holds along the chain, whatever damage does. *)
THEOREM Invariance == Spec => []Inv
<1>1. Inv /\ [Next]_vars => Inv'
  BY SendInv, DamageInv, ReceiveInv, ForwardInv, StutterInv, Zenon DEF Next
<1> QED
  BY <1>1, InitInv, PTL DEF Spec

(* Senders have valid contexts at every hop; extractTraceparent gives an     *)
(* error or a valid context, never both and never neither.                   *)
THEOREM TypeCorrect == Spec => []TypeOK
<1>1. Inv => TypeOK
  BY DEF Inv
<1> QED
  BY <1>1, Invariance, PTL

(* What injectTraceparent and injectTracestate write, extractTraceparent     *)
(* reads: every context, flags and tracestate included, survives every hop.  *)
THEOREM IntactAlwaysArrives == Spec => []IntactArrives
<1>1. ASSUME Inv, got # None, header.parent = Inject(sent)
      PROVE  got.error = None /\ got.context = sent
  <2>1. sent \in TraceContext /\ IsValid(sent)
    BY <1>1 DEF Inv, TypeOK
  <2>2. got = Extract(Inject(sent), sent.tracestate)
    BY <1>1, Zenon DEF Inv, Reading, StateKept
  <2>3. got = [error |-> None, context |-> sent]
    BY <2>1, <2>2, RoundTrip, Zenon
  <2> QED
    BY <2>3
<1>2. Inv => IntactArrives
  BY <1>1, Zenon DEF IntactArrives
<1> QED
  BY <1>2, Invariance, PTL

(* extractTraceparent, which reads at fixed offsets, accepts exactly the     *)
(* texts of the grammar: for every text, not only the damaged ones TLC       *)
(* reaches.                                                                  *)
THEOREM AcceptsExactlyGrammar == Spec => []AcceptsGrammar
<1>1. ASSUME Inv, got # None PROVE Accepted <=> WellFormed(header.parent)
  <2>1. /\ header.parent \in Seq(Char) /\ header.state \in STRING
        /\ got = Extract(header.parent, header.state)
    BY <1>1, HeaderTyped, Zenon DEF Inv, Reading
  <2>2. PICK v \in Seq(Char), state \in STRING : v = header.parent /\ state = header.state
    BY <2>1, Zenon
  <2>3. got = Extract(v, state)
    BY <2>1, <2>2, Zenon
  <2>4. got.error = None <=> Readable(v)
    BY <2>3, ExtractTyped, Zenon
  <2> QED
    BY <1>1, <2>2, <2>4, ReadableGrammar, Zenon DEF Accepted
<1>2. Inv => AcceptsGrammar
  BY <1>1, Zenon DEF AcceptsGrammar
<1> QED
  BY <1>2, Invariance, PTL

(* A service that accepts a traceparent and sends on with the context it got *)
(* writes the same text, in small letters.                                   *)
THEOREM AlwaysForwardsSame == Spec => []ForwardsSame
<1>1. ASSUME Inv, Accepted PROVE Inject(got.context) = Lower(header.parent)
  <2>1. /\ header.parent \in Seq(Char) /\ header.state \in STRING
        /\ got = Extract(header.parent, header.state) /\ got.error = None
    BY <1>1, HeaderTyped, Zenon DEF Inv, Reading, Accepted
  <2>2. PICK v \in Seq(Char), state \in STRING : v = header.parent /\ state = header.state
    BY <2>1, Zenon
  <2>3. got = Extract(v, state)
    BY <2>1, <2>2, Zenon
  <2>4. Readable(v)
    BY <2>1, <2>3, ExtractTyped, Zenon
  <2>5. PICK ctx : ctx = got.context
    OBVIOUS
  <2>6. /\ ctx \in TraceContext /\ IsValid(ctx)
        /\ ctx.traceId = ReadTraceId(v) /\ ctx.spanId = ReadSpanId(v)
        /\ ctx.traceFlags = ReadFlags(v)[1]
    BY <2>3, <2>4, <2>5, ExtractTyped, Zenon
  <2>7. Inject(ctx) = Lower(v)
    BY <2>4, <2>6, WrittenAsRead, Zenon
  <2> QED
    BY <2>2, <2>5, <2>7, Zenon
<1>2. Inv => ForwardsSame
  BY <1>1, Zenon DEF ForwardsSame
<1> QED
  BY <1>2, Invariance, PTL

=============================================================================
