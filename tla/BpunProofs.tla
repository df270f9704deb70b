----------------------------- MODULE BpunProofs -----------------------------
(***************************************************************************)
(* Theorems about the BPUN loader, for every set of files, every digit     *)
(* limit, every saturation value and with or without failing reads.        *)
(***************************************************************************)
EXTENDS BpunProps, SequenceTheorems, FiniteSetTheorems, NumberFacts, TLAPS

(* How far bpun_parse has read.  While it scans there is no '!' behind it;    *)
(* when it stops without a fault it stands just after the first '!', or at    *)
(* the end of a file that has none.  A load that fails does so for want of    *)
(* a header.  None of this is visible in TypeOK, and LoadOutcome is not       *)
(* inductive without it.                                                      *)
NoBangIn(n) == \A i \in 1 .. n : Char(file[i]) # BANG
StoppedRight ==
  \/ NoBangIn(Len(file)) /\ pos >= Len(file)
  \/ pos \in 1 .. Len(file) /\ Char(file[pos]) = BANG /\ NoBangIn(pos - 1)

Progress ==
  /\ pos <= Len(file)
  /\ pc \in {"scan", "header", "open"} => Len(file) >= 8
  /\ pc = "scan" => NoBangIn(pos)
  /\ pc \in {"header", "open"} /\ ~fault => StoppedRight
  /\ pc = "open" => pos + 4 <= Len(file)
  /\ pc = "failed" /\ ~fault =>
       Len(file) < 8 \/ (StoppedRight /\ pos + 4 > Len(file))

(* What the fields of the object are worth: nothing until the header is read, *)
(* and then consistent with the file and with one another.                    *)
Shape ==
  /\ Reading => /\ obj.load_addr = 0 /\ obj.word_count = 0 /\ ~obj.is_flomon
                /\ obj.data_offset = 0 /\ obj.data_size = 0
  /\ Opened => /\ bin_obj.data_offset <= Len(file)
               /\ ~bin_obj.is_flomon => bin_obj.data_size = 2 * bin_obj.word_count
               /\ bin_obj.data_size > 0 => pos + 4 <= bin_obj.data_offset

(* Between loads bpun_parse has no state.                                     *)
AtRest == pc \in {"idle", "checked"} => pos = 0

IInv == TypeOK /\ NoLeak /\ Progress /\ Shape /\ AtRest

-----------------------------------------------------------------------------
(* What the proofs use of the 16-bit words; elsewhere WordMod stays opaque.   *)
LEMMA WordModType == WordMod \in Nat /\ 255 < WordMod
  BY DEF WordMod

LEMMA WordIntro == \A n \in Nat : n < WordMod => n \in Word
  BY WordModType DEF Word

LEMMA WordElim == \A w \in Word : w \in Nat /\ w < WordMod
  BY WordModType DEF Word

LEMMA ZeroWord == 0 \in Word
  BY WordModType, WordIntro

(* Appending to tmpstr keeps it within its bounds.                            *)
LEMMA PushType ==
  ASSUME NEW n \in NumberType, NEW c \in Digits
  PROVE  Push(n, c) \in NumberType
<1>1. CASE Full(n)
  BY <1>1 DEF Push
<1>2. CASE ~Full(n)
  <2>1. n.len + 1 \in 0 .. MaxDigits
    BY <1>2, DigitsAssumption DEF NumberType, Full
  <2>2. LET next == 8 * n.val + (c - 48)
        IN  c \in OctalDigits =>
              (IF next > LongMax THEN LongMax ELSE next) \in 0 .. LongMax
    BY LongAssumption DEF NumberType, Digits, OctalDigits
  <2>3. n.val \in 0 .. LongMax /\ n.octal \in BOOLEAN
    BY DEF NumberType
  <2>4. QED
    BY <1>2, <2>1, <2>2, <2>3 DEF Push, NumberType
<1>3. QED
  BY <1>1, <1>2

(* The uint16_t cast of a parsed number.                                      *)
LEMMA ValueType == ASSUME NEW n \in NumberType PROVE Value(n) \in Word
<1>1. n.val \in Nat
  <2>1. n.val \in 0 .. LongMax
    BY DEF NumberType
  <2>2. QED
    BY <2>1, LongAssumption
<1>2. ASSUME NEW v \in Nat PROVE v % WordMod \in Word
  <2>1. v % WordMod \in Nat /\ v % WordMod < WordMod
    BY WordModType
  <2>2. QED
    BY <2>1, WordIntro
<1>3. QED
  BY <1>1, <1>2 DEF Value

(* A character read from the file is a 7-bit one.                             *)
LEMMA ByteType ==
  ASSUME TypeOK, NEW p \in Nat, p + 1 <= Len(file)
  PROVE  At(p) \in 0 .. 255
<1>1. file \in Seq(0 .. 255) /\ p + 1 \in 1 .. Len(file)
  BY DEF TypeOK
<1>2. QED
  BY <1>1, ElementOfSeq DEF At

(* A big-endian pair of bytes of the file is a 16-bit word.                   *)
LEMMA Be16Type ==
  ASSUME TypeOK, NEW p \in Nat, p + 2 <= Len(file)
  PROVE  Be16(p) \in Word
<1>1. At(p) \in 0 .. 255 /\ At(p + 1) \in 0 .. 255
  <2>1. file \in Seq(0 .. 255)
    BY DEF TypeOK
  <2>2. p + 1 <= Len(file) /\ (p + 1) + 1 <= Len(file) /\ p + 1 \in Nat
    BY <2>1
  <2>3. QED
    BY <2>2, ByteType
<1>2. ASSUME NEW a \in 0 .. 255 PROVE a \in Nat /\ a < 256
  OBVIOUS
<1>3. At(p) \in Nat /\ At(p) < 256
  BY <1>1, <1>2, Zenon
<1>4. At(p + 1) \in Nat /\ At(p + 1) < 256
  BY <1>1, <1>2, Zenon
<1>5. Be16(p) \in Nat /\ Be16(p) < WordMod
  BY <1>3, <1>4 DEF Be16, WordMod
<1>6. QED
  BY <1>5, WordIntro

-----------------------------------------------------------------------------
(* The empty file stands for "no file".                                       *)
LEMMA NoFileType ==
  /\ <<>> \in Seq(0 .. 255) /\ Len(<<>>) = 0
  /\ Len(<<>>) + 8 * WordMod < Ut64
<1>1. Len(<<>>) = 0
  OBVIOUS
<1>2. Len(<<>>) + 8 * 65536 < Ut64
  BY Ut64Assumption
<1>3. QED
  BY <1>1, <1>2 DEF WordMod

LEMMA InitInv == Init => IInv
<1> SUFFICES ASSUME Init PROVE IInv
  OBVIOUS
<1>1. TypeOK
  <2>1. NoNumber \in NumberType
    BY LongAssumption, DigitsAssumption DEF NoNumber, NumberType
  <2>2. file \in Seq(0 .. 255) /\ Len(file) + 8 * WordMod < Ut64
    BY NoFileType DEF Init
  <2>3. QED
    BY <2>1, <2>2, ZeroWord DEF Init, TypeOK, Reading, Opened
<1>2. NoLeak /\ Shape
  BY DEF Init, NoLeak, Shape, Reading, Opened
<1>3. Progress /\ AtRest
  BY DEF Init, Progress, AtRest
<1>4. QED
  BY <1>1, <1>2, <1>3 DEF IInv

(* The steps that leave bpun_parse alone: the host offering a file, turning   *)
(* away or closing it, and the entry of bpun_parse.                           *)
LEMMA CheckInv == IInv /\ Check => IInv'
<1> SUFFICES ASSUME IInv, Check PROVE IInv'
  OBVIOUS
<1>1. PICK f \in Files : file' = f
  BY DEF Check
<1>2. f \in Seq(0 .. 255) /\ Len(f) + 8 * WordMod < Ut64 /\ pos <= Len(f)
  <2>1. pos = 0
    BY DEF Check, IInv, AtRest
  <2>2. QED
    BY <2>1, FilesAssumption, Ut64Assumption DEF WordMod
<1>3. accepted' \in BOOLEAN /\ fault' \in BOOLEAN
  BY FaultsAssumption DEF Check, CheckBuffer, MayFail
<1>4. TypeOK'
  BY <1>1, <1>2, <1>3 DEF Check, IInv, TypeOK, Reading, Opened
<1>5. QED
  BY <1>1, <1>2, <1>4 DEF Check, IInv, NoLeak, Progress, Shape, Reading, Opened, AtRest

LEMMA LoadInv == IInv /\ Load => IInv'
<1> SUFFICES ASSUME IInv, Load PROVE IInv'
  OBVIOUS
<1> DEFINE fresh == [start |-> 0, boot |-> 0, load_addr |-> 0, word_count |-> 0,
                     is_flomon |-> FALSE, data_offset |-> 0, data_size |-> 0]
<1>1. fresh \in Object
  BY ZeroWord DEF Object
<1>2. fresh # NULL
  BY <1>1, NullAssumption
<1>3. PICK fails \in BOOLEAN :
        LET refused == Len(file) < 8 \/ fails IN
        /\ fault' = (fault \/ (fails /\ Len(file) >= 8))
        /\ pc' = IF refused THEN "failed" ELSE "scan"
        /\ obj' = IF refused THEN NULL ELSE fresh
        /\ live' = IF refused THEN live ELSE live + 1
  BY FaultsAssumption DEF Load, MayFail
<1>4. /\ pc = "checked" /\ pos = 0 /\ Len(file) \in Nat
      /\ UNCHANGED <<file, accepted, pos, num, load_addr, last_value, bin_obj>>
  BY DEF Load, IInv, AtRest, TypeOK
<1>5. TypeOK' /\ NoLeak'
  BY <1>1, <1>2, <1>3, <1>4 DEF IInv, TypeOK, NoLeak, Reading, Opened
<1>6. Progress' /\ Shape' /\ AtRest'
  BY <1>3, <1>4 DEF IInv, TypeOK, Progress, Shape, NoBangIn, Reading, Opened, AtRest
<1>7. QED
  BY <1>5, <1>6 DEF IInv

LEMMA CloseInv == IInv /\ (Skip \/ Destroy) => IInv'
<1> SUFFICES ASSUME IInv, Skip \/ Destroy PROVE IInv'
  OBVIOUS
<1>1. NoNumber \in NumberType
  BY LongAssumption, DigitsAssumption DEF NoNumber, NumberType
<1>2. 0 \in Word
  BY ZeroWord
<1>3. (file \in Seq(0 .. 255) /\ Len(file) = 0 /\ Len(file) + 8 * WordMod < Ut64)'
  BY NoFileType DEF Skip, Destroy, Forget
<1>4. /\ bin_obj' = NULL /\ obj' = NULL /\ live' = 0
      /\ Forget
  BY DEF Skip, Destroy, IInv, TypeOK, NoLeak, Reading, Opened
<1>5. TypeOK'
  BY <1>1, <1>2, <1>3, <1>4 DEF Forget, TypeOK, Reading, Opened
<1>6. NoLeak' /\ Progress' /\ Shape' /\ AtRest'
  BY <1>3, <1>4 DEF Forget, NoLeak, Progress, Shape, AtRest, Reading, Opened
<1>7. QED
  BY <1>5, <1>6 DEF IInv

-----------------------------------------------------------------------------
(* What all iterations of the preamble loop have in common.                   *)
LEMMA ReadFacts ==
  ASSUME IInv, NEW c, Read(c)
  PROVE  /\ pc = "scan" /\ obj \in Object /\ obj # NULL /\ bin_obj = NULL /\ live = 1
         /\ pos \in Nat /\ pos' = pos + 1 /\ pos' <= Len(file) /\ Len(file) \in Nat
         /\ c = Char(file[pos'])
         /\ UNCHANGED <<file, accepted, bin_obj, live, fault>>
  BY DEF Read, At, IInv, TypeOK, NoLeak, Reading, Opened

(* An iteration that is not the '!' one leaves no '!' behind it.              *)
LEMMA NoBangStep ==
  ASSUME IInv, NEW c, Read(c), c # BANG
  PROVE  NoBangIn(pos')
<1>1. NoBangIn(pos)
  BY DEF Read, IInv, Progress
<1>2. ASSUME NEW i \in 1 .. pos' PROVE Char(file[i]) # BANG
  <2>1. i \in 1 .. pos \/ i = pos'
    BY ReadFacts
  <2>2. QED
    BY <1>1, <2>1, ReadFacts DEF NoBangIn
<1>3. QED
  BY <1>2 DEF NoBangIn

LEMMA ScanOnInv ==
  ASSUME IInv, NEW c, Read(c), c # BANG, UNCHANGED pc,
         num' \in NumberType, load_addr' \in Word, last_value' \in Word,
         obj' = obj \/ \E w \in Word : obj' = [obj EXCEPT !.start = w]
  PROVE  IInv'
<1>1. obj' \in Object
  BY ReadFacts DEF Object
<1>2. TypeOK'
  BY <1>1, ReadFacts, NullAssumption DEF IInv, TypeOK, Reading, Opened
<1>3. Shape'
  BY ReadFacts DEF IInv, Shape, Reading, Opened, Object
<1>4. Progress'
  BY NoBangStep, ReadFacts DEF IInv, Progress, NoBangIn
<1>5. NoLeak' /\ AtRest'
  BY ReadFacts DEF NoLeak, AtRest, Reading, Opened
<1>6. QED
  BY <1>2, <1>3, <1>4, <1>5 DEF IInv

LEMMA ScanInv == IInv /\ Scan => IInv'
<1> SUFFICES ASSUME IInv, Scan PROVE IInv'
  OBVIOUS
<1>1. TypeOK /\ NoNumber \in NumberType /\ Value(num) \in Word
  <2>1. NoNumber \in NumberType
    BY LongAssumption, DigitsAssumption DEF NoNumber, NumberType
  <2>2. QED
    BY <2>1, ValueType DEF IInv, TypeOK
<1>2. CASE ReadBang
  <2>1. Read(BANG) /\ pc' = "header" /\ UNCHANGED <<num, last_value>>
    BY <1>2 DEF ReadBang
  <2>2. load_addr' \in Word
    BY <1>1, <1>2 DEF ReadBang, TypeOK
  <2>3. PICK w \in Word : obj' = [obj EXCEPT !.boot = w]
    BY <1>1, <1>2, <2>2 DEF ReadBang, TypeOK
  <2>4. obj' \in Object
    BY <2>1, <2>3, ReadFacts DEF Object
  <2>5. TypeOK'
    BY <1>1, <2>1, <2>2, <2>4, ReadFacts, NullAssumption DEF TypeOK, Reading, Opened
  <2>6. Shape'
    BY <2>1, <2>3, ReadFacts DEF IInv, Shape, Reading, Opened, Object
  <2>7. Progress'
    <3>1. NoBangIn(pos) /\ pos' - 1 = pos /\ pos' \in 1 .. Len(file)
      BY <2>1, ReadFacts DEF IInv, Progress, Read
    <3>2. Char(file[pos']) = BANG
      BY <2>1, ReadFacts
    <3>3. StoppedRight'
      BY <2>1, <3>1, <3>2, ReadFacts DEF StoppedRight, NoBangIn
    <3>4. QED
      BY <2>1, <3>3, ReadFacts DEF IInv, Progress, Read
  <2>8. NoLeak' /\ AtRest'
    BY <2>1, ReadFacts DEF NoLeak, AtRest, Reading, Opened
  <2>9. QED
    BY <2>5, <2>6, <2>7, <2>8 DEF IInv
<1>3. CASE ReadSlash
  <2>1. SLASH # BANG
    BY DEF SLASH, BANG
  <2>2. /\ num' \in NumberType /\ load_addr' \in Word /\ last_value' \in Word
        /\ obj' = obj \/ \E w \in Word : obj' = [obj EXCEPT !.start = w]
    BY <1>1, <1>3 DEF ReadSlash, TypeOK
  <2>3. QED
    BY <1>3, <2>1, <2>2, ScanOnInv DEF ReadSlash
<1>4. CASE ReadDigit
  <2>1. PICK c \in Digits : Read(c) /\ num' = Push(num, c)
    BY <1>4 DEF ReadDigit
  <2>2. c # BANG
    BY DEF Digits, BANG
  <2>3. num' \in NumberType
    BY <1>1, <2>1, PushType DEF TypeOK
  <2>4. QED
    BY <1>1, <1>4, <2>1, <2>2, <2>3, ScanOnInv DEF ReadDigit, TypeOK
<1>5. CASE ReadReturn
  <2>1. CR # BANG
    BY DEF CR, BANG
  <2>2. num' \in NumberType /\ load_addr' \in Word /\ last_value' \in Word
    BY <1>1, <1>5 DEF ReadReturn, TypeOK
  <2>3. QED
    BY <1>5, <2>1, <2>2, ScanOnInv DEF ReadReturn
<1>6. CASE ReadOther
  <2>1. PICK c \in (0 .. 127) \ (Digits \cup {BANG, SLASH, CR}) : Read(c)
    BY <1>6 DEF ReadOther
  <2>2. c # BANG
    OBVIOUS
  <2>3. QED
    BY <1>1, <1>6, <2>1, <2>2, ScanOnInv DEF ReadOther, TypeOK
<1>7. CASE LeaveScan
  <2>1. TypeOK' /\ Shape' /\ NoLeak' /\ AtRest'
    BY <1>7 DEF LeaveScan, IInv, TypeOK, Shape, NoLeak, AtRest, Reading, Opened
  <2>2. pc = "scan" /\ pc' = "header" /\ NoBangIn(pos) /\ UNCHANGED <<file, pos>>
    BY <1>7 DEF LeaveScan, IInv, Progress
  <2>3. ~fault' => pos = Len(file)
    BY <1>7 DEF LeaveScan, IInv, Progress, TypeOK
  <2>4. ~fault' => StoppedRight'
    BY <2>2, <2>3 DEF IInv, TypeOK, StoppedRight, NoBangIn
  <2>5. Progress'
    BY <2>2, <2>4 DEF IInv, Progress
  <2>6. QED
    BY <2>1, <2>5 DEF IInv
<1>8. QED
  BY <1>2, <1>3, <1>4, <1>5, <1>6, <1>7 DEF Scan

-----------------------------------------------------------------------------
(* Handing over an object whose header has been read re-establishes IInv.     *)
LEMMA DeliverInv ==
  ASSUME IInv, pc = "header", pos + 4 <= Len(file), NEW o \in Object, Deliver(o),
         fault' \in BOOLEAN, fault => fault',
         o.data_offset <= Len(file),
         ~o.is_flomon => o.data_size = 2 * o.word_count,
         o.data_size > 0 => pos + 4 <= o.data_offset
  PROVE  IInv'
<1>1. /\ bin_obj' = o /\ obj' = NULL /\ pc' = "open" /\ live = 1
      /\ UNCHANGED <<file, accepted, pos, num, load_addr, last_value, live>>
  BY DEF Deliver, IInv, NoLeak, Reading, Opened
<1>2. TypeOK'
  BY <1>1, NullAssumption DEF IInv, TypeOK, Reading, Opened
<1>3. Progress'
  BY <1>1 DEF IInv, TypeOK, Progress, StoppedRight, NoBangIn
<1>4. Shape' /\ NoLeak' /\ AtRest'
  BY <1>1 DEF Shape, NoLeak, AtRest, Reading, Opened
<1>5. QED
  BY <1>2, <1>3, <1>4 DEF IInv

(* A byte is a word, and four bytes per word of it are a size.                *)
LEMMA CountType == ASSUME NEW k \in 0 .. 255 PROVE k \in Word /\ 4 * k \in Nat
<1>1. k \in Nat /\ k <= 255
  OBVIOUS
<1>2. QED
  BY <1>1, WordModType, WordIntro

LEMMA FinishInv == IInv /\ Finish => IInv'
<1> SUFFICES ASSUME IInv, Finish PROVE IInv'
  OBVIOUS
<1>1. /\ pc = "header" /\ obj \in Object /\ obj # NULL /\ live = 1 /\ bin_obj = NULL
      /\ pos \in Nat /\ Len(file) \in Nat /\ fault \in BOOLEAN
      /\ obj.load_addr = 0 /\ obj.word_count = 0 /\ ~obj.is_flomon
      /\ obj.data_offset = 0 /\ obj.data_size = 0
  <2>1. pc = "header"
    BY DEF Finish, HeaderFails, DataHeader, FloMonHeader, NoDataHeader, EmptyHeader
  <2>2. QED
    BY <2>1 DEF IInv, TypeOK, NoLeak, Shape, Reading, Opened
<1>2. CASE HeaderFails
  <2>1. /\ pc' = "failed" /\ obj' = NULL /\ live' = 0
        /\ UNCHANGED <<file, accepted, pos, num, load_addr, last_value, bin_obj>>
        /\ \/ pos + 4 > Len(file) /\ fault' = fault
           \/ fault' = TRUE
    BY <1>1, <1>2 DEF HeaderFails, HeaderFits
  <2>2. TypeOK' /\ NoLeak' /\ Shape' /\ AtRest'
    BY <1>1, <2>1 DEF IInv, TypeOK, NoLeak, Shape, AtRest, Reading, Opened
  <2>3. Progress'
    BY <1>1, <2>1 DEF IInv, Progress, StoppedRight, NoBangIn
  <2>4. QED
    BY <2>2, <2>3 DEF IInv
<1>3. CASE DataHeader
  <2> DEFINE o == [obj EXCEPT !.load_addr = Be16(pos), !.word_count = Be16(pos + 2),
                              !.data_offset = pos + 4,
                              !.data_size = 2 * Be16(pos + 2)]
  <2>1. pos + 4 <= Len(file) /\ Deliver(o) /\ fault' = fault
    BY <1>3 DEF DataHeader, HeaderFits
  <2>2. Be16(pos) \in Word /\ Be16(pos + 2) \in Word
    <3>1. pos + 2 \in Nat /\ (pos + 2) + 2 <= Len(file) /\ pos + 2 <= Len(file)
      BY <1>1, <2>1
    <3>2. QED
      BY <1>1, <3>1, Be16Type DEF IInv
  <2>3. \A w \in Word : w \in Nat /\ 2 * w \in Nat
    BY WordElim
  <2>4. pos + 4 \in Nat /\ 2 * Be16(pos + 2) \in Nat
    BY <1>1, <2>2, <2>3
  <2>5. o \in Object
    BY <1>1, <2>2, <2>4 DEF Object
  <2>6. /\ o.data_offset = pos + 4 /\ o.data_size = 2 * Be16(pos + 2)
        /\ o.word_count = Be16(pos + 2)
    BY <1>1 DEF Object
  <2> HIDE DEF o
  <2>7. QED
    BY <1>1, <2>1, <2>5, <2>6, DeliverInv
<1>4. CASE FloMonHeader
  <2>1. pos + 4 <= Len(file) /\ fault' \in BOOLEAN /\ (fault => fault')
    BY <1>1, <1>4, FaultsAssumption DEF FloMonHeader, EmptyHeader, HeaderFits, MayFail
  <2>2. CASE pos + 7 <= Len(file)
    <3>1. PICK cnt \in 0 .. 255 :
            Deliver([obj EXCEPT !.is_flomon = TRUE, !.word_count = cnt,
                                !.load_addr = obj.start,
                                !.data_offset = pos + 7, !.data_size = 4 * cnt])
      <4>1. At(pos + 6) \in 0 .. 255
        <5>1. pos + 6 \in Nat /\ (pos + 6) + 1 <= Len(file)
          BY <1>1, <2>2
        <5>2. QED
          BY <5>1, ByteType DEF IInv
      <4>2. QED
        BY <1>4, <2>2, <4>1, FaultsAssumption DEF FloMonHeader
    <3>2. cnt \in Word /\ 4 * cnt \in Nat /\ pos + 7 \in Nat
      <4>1. pos \in Nat
        BY <1>1
      <4>2. QED
        BY <3>1, <4>1, CountType
    <3> DEFINE o == [obj EXCEPT !.is_flomon = TRUE, !.word_count = cnt,
                                !.load_addr = obj.start,
                                !.data_offset = pos + 7, !.data_size = 4 * cnt]
    <3>3. o \in Object /\ o.is_flomon /\ o.data_offset = pos + 7
      BY <1>1, <3>2 DEF Object
    <3> HIDE DEF o
    <3>4. Deliver(o)
      BY <3>1 DEF o
    <3>5. o.data_offset <= Len(file) /\ pos + 4 <= o.data_offset
      BY <1>1, <2>2, <3>3
    <3>6. QED
      BY <1>1, <2>1, <3>3, <3>4, <3>5, DeliverInv
  <2>3. CASE ~(pos + 7 <= Len(file))
    <3> DEFINE o == [obj EXCEPT !.is_flomon = TRUE]
    <3>1. Deliver(o)
      BY <1>4, <2>3 DEF FloMonHeader
    <3>2. o \in Object /\ o.is_flomon /\ o.data_offset = 0 /\ o.data_size = 0
      BY <1>1 DEF Object
    <3> HIDE DEF o
    <3>3. QED
      BY <1>1, <2>1, <3>1, <3>2, DeliverInv
  <2>4. QED
    BY <2>2, <2>3
<1>5. CASE NoDataHeader
  <2>1. pos + 4 <= Len(file) /\ Deliver(obj)
    BY <1>5 DEF NoDataHeader, EmptyHeader, HeaderFits
  <2>2. fault' = fault \/ fault' = TRUE
    BY <1>5 DEF NoDataHeader
  <2>3. fault' \in BOOLEAN /\ (fault => fault')
    BY <1>1, <2>2
  <2>4. QED
    BY <1>1, <2>1, <2>3, DeliverInv
<1>6. QED
  BY <1>2, <1>3, <1>4, <1>5 DEF Finish

-----------------------------------------------------------------------------
LEMMA StutterInv == IInv /\ UNCHANGED vars => IInv'
  BY DEF IInv, TypeOK, NoLeak, Progress, StoppedRight, NoBangIn, Shape, AtRest,
         Reading, Opened, vars

(* IInv is inductive.                                                         *)
THEOREM Invariance == Spec => []IInv
<1>1. IInv /\ [Next]_vars => IInv'
  BY CheckInv, LoadInv, CloseInv, ScanInv, FinishInv, StutterInv DEF Next
<1>2. QED
  BY InitInv, <1>1, PTL DEF Spec

(* Type correctness, and that exactly a running bpun_parse has an object       *)
(* under construction and exactly an open file has one for the host.          *)
THEOREM TypeCorrect == Spec => []TypeOK
<1>1. IInv => TypeOK
  BY DEF IInv
<1>2. QED
  BY <1>1, Invariance, PTL

(* Every path of bpun_parse that fails frees the object, and bpun_destroy     *)
(* frees the one the host had.                                                *)
THEOREM HeapBalanced == Spec => []NoLeak
<1>1. IInv => NoLeak
  BY DEF IInv
<1>2. QED
  BY <1>1, Invariance, PTL

-----------------------------------------------------------------------------
(* Where a fault-free loop stops is the first '!', or there is none.          *)
LEMMA FirstBang ==
  ASSUME IInv, StoppedRight
  PROVE  \/ Bangs = {} /\ pos >= Len(file)
         \/ Bangs # {} /\ BangAt = pos
<1>1. pos \in Nat /\ Len(file) \in Nat
  BY DEF IInv, TypeOK
<1>2. CASE NoBangIn(Len(file)) /\ pos >= Len(file)
  BY <1>2 DEF NoBangIn, Bangs
<1>3. CASE pos \in 1 .. Len(file) /\ Char(file[pos]) = BANG /\ NoBangIn(pos - 1)
  <2>1. pos \in Bangs
    BY <1>3 DEF Bangs
  <2>2. ASSUME NEW i \in Bangs PROVE pos <= i
    <3>1. i \in 1 .. Len(file) /\ Char(file[i]) = BANG
      BY DEF Bangs
    <3>2. i \notin 1 .. pos - 1
      BY <1>3, <3>1 DEF NoBangIn
    <3>3. QED
      BY <1>1, <3>1, <3>2
  <2>3. ASSUME NEW m \in Bangs, \A i \in Bangs : m <= i PROVE m = pos
    <3>1. m \in Int /\ m <= pos /\ pos <= m
      BY <1>1, <2>1, <2>2, <2>3 DEF Bangs
    <3>2. QED
      BY <1>1, <3>1
  <2>4. BangAt = pos
    BY <2>1, <2>2, <2>3 DEF BangAt, Min
  <2>5. QED
    BY <2>1, <2>4
<1>4. QED
  BY <1>2, <1>3 DEF StoppedRight

(* A load without faults succeeds exactly on a file with 8 bytes, a '!' and a *)
(* header after it, whatever else is in the file.                             *)
THEOREM LoadOutcomeCorrect == Spec => []LoadOutcome
<1>1. IInv => LoadOutcome
  <2> SUFFICES ASSUME IInv, pc \in {"open", "failed"}, ~fault
               PROVE  Opened <=> Len(file) >= 8 /\ Bangs # {} /\ BangAt + 4 <= Len(file)
    BY DEF LoadOutcome
  <2>1. pos \in Nat /\ Len(file) \in Nat
    BY DEF IInv, TypeOK
  <2>2. CASE pc = "open"
    <3>1. StoppedRight /\ pos + 4 <= Len(file) /\ Len(file) >= 8
      BY <2>2 DEF IInv, Progress
    <3>2. Bangs # {} /\ BangAt = pos
      BY <2>1, <3>1, FirstBang
    <3>3. QED
      BY <2>2, <3>1, <3>2 DEF Opened
  <2>3. CASE pc = "failed"
    <3>1. Len(file) < 8 \/ (StoppedRight /\ pos + 4 > Len(file))
      BY <2>3 DEF IInv, Progress
    <3>2. ~(Len(file) >= 8 /\ Bangs # {} /\ BangAt + 4 <= Len(file))
      BY <2>1, <3>1, FirstBang
    <3>3. QED
      BY <2>3, <3>2 DEF Opened
  <2>4. QED
    BY <2>2, <2>3
<1>2. QED
  BY <1>1, Invariance, PTL

(* The map of an open file starts after everything the parser has consumed,   *)
(* also when a failing read ended the preamble loop early.                    *)
THEOREM MapCorrect == Spec => []MapAfterHeader
<1>1. IInv => MapAfterHeader
  <2> SUFFICES ASSUME IInv, Opened, Map.psize > 0
               PROVE  /\ pos + 4 <= Map.paddr /\ Map.paddr <= Len(file)
                      /\ ~fault => Bangs # {} /\ BangAt + 4 <= Map.paddr
    BY DEF MapAfterHeader
  <2>1. bin_obj # NULL /\ pos \in Nat /\ Len(file) \in Nat
    BY DEF IInv, TypeOK
  <2>2. Map.paddr = bin_obj.data_offset /\ Map.psize = bin_obj.data_size
    BY <2>1 DEF Map
  <2>3. pos + 4 <= Map.paddr /\ Map.paddr <= Len(file)
    BY <2>2 DEF IInv, Shape
  <2>4. ASSUME ~fault PROVE Bangs # {} /\ BangAt + 4 <= Map.paddr
    <3>1. StoppedRight /\ pos + 4 <= Len(file)
      BY <2>4 DEF IInv, Progress, Opened
    <3>2. Bangs # {} /\ BangAt = pos
      BY <2>1, <3>1, FirstBang
    <3>3. QED
      BY <2>3, <3>2
  <2>5. QED
    BY <2>3, <2>4
<1>2. QED
  BY <1>1, Invariance, PTL

-----------------------------------------------------------------------------
(* The entry point and the map translate addresses alike, for every boot and  *)
(* load address, and the entry of an ordinary section is inside its map.      *)
THEOREM EntryCorrect == Spec => []EntryFollowsMap
<1>1. IInv => EntryFollowsMap
  <2> SUFFICES ASSUME IInv, Opened PROVE EntryFollowsMap
    BY DEF EntryFollowsMap
  <2> DEFINE b == bin_obj.boot
             l == bin_obj.load_addr
             off == bin_obj.data_offset
             w == bin_obj.word_count
  <2>1. /\ bin_obj # NULL /\ bin_obj \in Object
        /\ off <= Len(file) /\ Len(file) \in Nat
        /\ ~bin_obj.is_flomon => bin_obj.data_size = 2 * w
    BY DEF IInv, TypeOK, Shape
  <2>2. /\ b \in Word /\ l \in Word /\ off \in Nat /\ w \in Word
    BY <2>1 DEF Object
  <2>3. off + 524288 < Ut64 /\ Ut64 \in Nat
    <3>1. Len(file) + 8 * 65536 < Ut64
      BY DEF IInv, TypeOK, WordMod
    <3>2. QED
      BY <2>1, <2>2, <3>1, Ut64Assumption
  <2>4. Entry.vaddr = 2 * b /\ Entry.paddr = Shifted(Ut64, off, b - l)
    BY <2>1, Zenon DEF Entry, Shifted, Rem
  <2>5. /\ Map.paddr = off /\ Map.psize = bin_obj.data_size /\ Map.vaddr = 2 * l
        /\ Baddr = 2 * l
    BY <2>1 DEF Map, Baddr
  <2> HIDE DEF b, l, off, w
  <2>6. /\ b >= l => Entry.paddr = off + 2 * (b - l)
        /\ (Entry.paddr + 2 * l) % Ut64 = (off + 2 * b) % Ut64
    <3>1. b \in Nat /\ l \in Nat /\ b < 65536 /\ l < 65536
      <4>1. b \in Nat /\ l \in Nat /\ b < WordMod /\ l < WordMod
        BY <2>2, WordElim
      <4>2. QED
        BY <4>1 DEF WordMod
    <3>2. PICK d \in Int : d = b - l
      BY <3>1
    <3>3. Entry.paddr = Shifted(Ut64, off, d)
      BY <2>4, <3>2, Zenon
    <3>4. /\ b >= l => Entry.paddr = off + 2 * d
          /\ Rem(Entry.paddr + 2 * l, Ut64) = Rem(off + 2 * b, Ut64)
      BY <2>2, <2>3, <3>1, <3>2, <3>3, Wrap
    <3>5. QED
      BY <3>2, <3>4 DEF Rem
  <2>7. ASSUME ~bin_obj.is_flomon, b \in l .. l + w - 1
        PROVE  /\ Entry.paddr - Map.paddr = Entry.vaddr - Map.vaddr
               /\ Entry.paddr + 1 < Map.paddr + Map.psize
    <3>1. b \in Nat /\ l \in Nat /\ w \in Nat
      BY <2>2, WordElim
    <3>2. Entry.paddr = off + 2 * (b - l) /\ Map.psize = 2 * w
      BY <2>1, <2>5, <2>6, <2>7, <3>1
    <3>3. QED
      BY <2>2, <2>4, <2>5, <2>7, <3>1, <3>2
  <2>8. QED
    BY <2>4, <2>5, <2>6, <2>7 DEF EntryFollowsMap, b, l, off, w
<1>2. QED
  BY <1>1, Invariance, PTL

-----------------------------------------------------------------------------
(* bpun_load_buffer and bpun_destroy keep the promise BinPlugin makes.        *)
THEOREM Refinement == Spec => ImplementsPlugin
<1>1. Init => Plugin!Init
  BY DEF Init, Plugin!Init
<1>2. IInv /\ IInv' /\ [Next]_vars => [Plugin!Next]_(Plugin!vars)
  <2> SUFFICES ASSUME IInv, IInv', [Next]_vars
               PROVE  [Plugin!Next]_(Plugin!vars)
    OBVIOUS
  <2> USE DEF Plugin!Next, Plugin!vars
  <2>1. live \in Nat /\ live' \in Nat
    BY DEF IInv, TypeOK
  <2>2. CASE Check
    BY <2>2 DEF Check
  <2>3. CASE Load
    BY <2>1, <2>3 DEF Load, Plugin!Begin, Plugin!Fail, IInv, NoLeak, Reading, Opened
  <2>4. CASE Skip
    BY <2>4 DEF Skip, Forget
  <2>5. CASE Scan
    BY <2>1, <2>5 DEF Scan, ReadBang, ReadSlash, ReadDigit, ReadReturn, ReadOther,
                      LeaveScan, Read, Plugin!Work
  <2>6. CASE Finish
    <3>1. CASE HeaderFails
      BY <3>1 DEF HeaderFails, Plugin!Fail, IInv, NoLeak, Reading, Opened
    <3>2. CASE \E o : Deliver(o)
      <4>1. pc = "header" /\ pc' = "open"
        BY <2>6, <3>2 DEF Finish, HeaderFails, DataHeader, FloMonHeader, NoDataHeader,
                          EmptyHeader, Deliver
      <4>2. bin_obj' # NULL
        BY <4>1 DEF IInv, TypeOK, Opened
      <4>3. QED
        BY <2>1, <4>1, <4>2 DEF Plugin!Succeed
    <3>3. QED
      BY <2>6, <3>1, <3>2 DEF Finish, DataHeader, FloMonHeader, NoDataHeader
  <2>7. CASE Destroy
    BY <2>7 DEF Destroy, Forget, Plugin!Close, IInv, TypeOK, NoLeak, Reading, Opened
  <2>8. CASE UNCHANGED vars
    BY <2>8 DEF vars
  <2>9. QED
    BY <2>2, <2>3, <2>4, <2>5, <2>6, <2>7, <2>8 DEF Next
<1>3. QED
  BY <1>1, <1>2, Invariance, PTL DEF Spec, ImplementsPlugin, Plugin!Spec

-----------------------------------------------------------------------------
\* The preamble, read as a whole.

\* A file with a '!'.
Taped == file \in Seq(0 .. 255) /\ Bangs # {}

\* What tmpstr holds is what the digits before i that no mark has ended make up.
Reads(n, i) ==
  /\ n.len = IF Cardinality(Places(i)) > MaxDigits THEN MaxDigits ELSE Cardinality(Places(i))
  /\ n.octal = \A k \in Kept(i) : Char(file[k]) \in OctalDigits
  /\ n.val = Saturated(OctalValue(file, NumberAt(i), i - 1))

\* Of the first p characters: the marks that end a number, and the first address.
Ended(kinds, p) == {i \in NumbersAt(kinds) : i <= p}
Origins(p) == {i \in Ended({SLASH}, p) : ValueAt(i) # 0}
Origin(p) == IF Origins(p) = {} THEN 0 ELSE ValueAt(Min(Origins(p)))

(* What bpun_parse knows after p characters: the number under way, the start  *)
(* address, the last number and the first address.                            *)
Scanned(p, n, start, last, load) ==
  /\ Reads(n, p + 1)
  /\ start = NumberOrZero(Last(Ended({SLASH}, p)))
  /\ last = NumberOrZero(Last(Ended({SLASH, CR}, p)))
  /\ load = Origin(p)

(* PreambleRead says nothing of the loop, so that this is what it follows     *)
(* from: the locals agree with the text read so far.                          *)
ReadSoFar ==
  /\ pc \in {"idle", "checked"} => num = NoNumber /\ load_addr = 0 /\ last_value = 0
  /\ (~fault /\ Bangs # {} /\ pc = "scan") =>
       pos < BangAt /\ Scanned(pos, num, obj.start, last_value, load_addr)
  /\ PreambleRead

-----------------------------------------------------------------------------
\* Marks, and the digits between them.

LEMMA MaxIs ==
  ASSUME NEW S, S \subseteq Int, NEW m \in S, \A i \in S : i <= m
  PROVE  Max(S) = m
<1>1. \A n \in S : (\A i \in S : n >= i) => n = m
  OBVIOUS
<1>2. QED
  BY <1>1 DEF Max

LEMMA MinIs ==
  ASSUME NEW S, S \subseteq Int, NEW m \in S, \A i \in S : m <= i
  PROVE  Min(S) = m
<1>1. \A n \in S : (\A i \in S : n <= i) => n = m
  OBVIOUS
<1>2. QED
  BY <1>1 DEF Min

\* The last of some places up to n, or 0.
LEMMA LastIn ==
  ASSUME NEW S, NEW n \in Nat, S \subseteq 1 .. n
  PROVE  /\ Last(S) \in S \cup {0} /\ Last(S) \in 0 .. n
         /\ \A i \in S : i <= Last(S)
<1> DEFINE Z == S \cup {0}
           T == {k \in Nat : n - k \in Z}
<1>1. T \subseteq Nat /\ n \in T
  OBVIOUS
<1>2. PICK k \in T : \A j \in T : k <= j
  <2> HIDE DEF T
  <2>1. QED
    BY <1>1, NatMin
<1>3. n - k \in Z /\ \A i \in Z : i <= n - k
  <2>1. \A i \in Z : n - i \in T /\ n - (n - i) = i
    OBVIOUS
  <2>2. QED
    BY <1>2, <2>1
<1>4. Max(Z) = n - k
  <2>1. Z \subseteq Int
    OBVIOUS
  <2>2. QED
    BY <1>3, <2>1, MaxIs
<1>5. QED
  BY <1>3, <1>4 DEF Last

LEMMA LastOf ==
  ASSUME NEW S, NEW q \in Nat, S \subseteq 1 .. q, q \in S
  PROVE  Last(S) = q
<1> DEFINE m == Last(S)
<1>1. m \in 0 .. q /\ \A i \in S : i <= m
  BY LastIn
<1> HIDE DEF m
<1>2. m = q
  BY <1>1
<1>3. QED
  BY <1>2 DEF m

(* The first '!' is one, and there is none before it.                         *)
LEMMA BangFirst ==
  ASSUME Taped
  PROVE  /\ BangAt \in 1 .. Len(file) /\ Char(file[BangAt]) = BANG
         /\ \A i \in 1 .. BangAt - 1 : Char(file[i]) # BANG
<1>1. Bangs \subseteq Nat /\ Bangs # {} /\ Len(file) \in Nat
  BY DEF Taped, Bangs
<1>2. PICK b \in Bangs : \A i \in Bangs : b <= i
  BY <1>1, NatMin
<1>3. BangAt = b
  <2>1. Bangs \subseteq Int
    BY <1>1
  <2>2. QED
    BY <1>2, <2>1, MinIs DEF BangAt
<1>4. b \in 1 .. Len(file) /\ Char(file[b]) = BANG
  BY DEF Bangs
<1>5. ASSUME NEW i \in 1 .. b - 1 PROVE Char(file[i]) # BANG
  <2>1. i \in 1 .. Len(file) /\ ~(b <= i)
    BY <1>1, <1>4
  <2>2. QED
    BY <1>2, <2>1 DEF Bangs
<1>6. QED
  BY <1>3, <1>4, <1>5

\* The marks before i, and what lies between the last of them and i.
LEMMA SinceIs ==
  ASSUME Taped, NEW i \in Nat, 1 <= i
  PROVE  /\ Since(i) \in 1 .. i
         /\ \A j \in 1 .. i - 1 : j >= Since(i) => j \notin Marks
         /\ \A j \in 1 .. i - 1 : (\A k \in j .. i - 1 : k \notin Marks) => j >= Since(i)
<1> DEFINE S == {j \in Marks : j < i}
<1>1. BangAt \in Nat
  BY BangFirst DEF Taped
<1>2. i - 1 \in Nat /\ S \subseteq 1 .. i - 1
  BY <1>1 DEF Marks
<1>3. /\ Last(S) \in S \cup {0} /\ Last(S) \in 0 .. i - 1
      /\ \A j \in S : j <= Last(S)
  <2> HIDE DEF S
  <2>1. QED
    BY <1>2, LastIn
<1>4. Since(i) = Last(S) + 1
  BY DEF Since
<1>5. Last(S) = 0 \/ Last(S) \in Marks
  BY <1>3
<1> DEFINE m == Last(S)
<1>6. m = 0 \/ m \in Marks
  BY <1>5
<1>7. m \in 0 .. i - 1 /\ Since(i) = m + 1
  BY <1>3, <1>4
<1>8. \A j \in Marks : j < i => j <= m
  BY <1>3
<1> HIDE DEF m, S
<1>9. ASSUME NEW j \in 1 .. i - 1, j >= Since(i) PROVE j \notin Marks
  BY <1>7, <1>8, <1>9
<1>10. ASSUME NEW j \in 1 .. i - 1, \A k \in j .. i - 1 : k \notin Marks PROVE j >= Since(i)
  <2>1. m \notin j .. i - 1 \/ m = 0
    BY <1>6, <1>10
  <2>2. QED
    BY <1>7, <2>1
<1>11. QED
  BY <1>7, <1>9, <1>10

LEMMA SinceMark ==
  ASSUME Taped, NEW q \in Nat, q \in Marks
  PROVE  Since(q + 1) = q + 1
<1> DEFINE S == {j \in Marks : j < q + 1}
<1>1. BangAt \in Nat
  BY BangFirst DEF Taped
<1>2. S \subseteq 1 .. q /\ q \in S
  BY <1>1 DEF Marks
<1>3. Since(q + 1) = Last(S) + 1
  BY DEF Since
<1> HIDE DEF S
<1>4. QED
  BY <1>2, <1>3, LastOf

LEMMA SinceSame ==
  ASSUME Taped, NEW q \in Nat, q \notin Marks
  PROVE  Since(q + 1) = Since(q)
<1>1. BangAt \in Nat
  BY BangFirst DEF Taped
<1>2. {j \in Marks : j < q + 1} = {j \in Marks : j < q}
  BY <1>1 DEF Marks
<1>3. QED
  BY <1>2 DEF Since

LEMMA PlacesIn ==
  ASSUME Taped, NEW q \in Nat, 1 <= q
  PROVE  /\ Places(q) \subseteq 1 .. q - 1
         /\ \A j \in Places(q) : j \in Nat /\ j < q /\ Char(file[j]) \in Digits
         /\ IsFiniteSet(Places(q)) /\ Cardinality(Places(q)) \in Nat
<1>1. Since(q) \in 1 .. q
  BY SinceIs
<1>2. Places(q) \subseteq 1 .. q - 1
  BY <1>1 DEF Places
<1>3. IsFiniteSet(1 .. q - 1)
  BY FS_Interval
<1>4. IsFiniteSet(Places(q))
  BY <1>2, <1>3, FS_Subset
<1>5. \A j \in Places(q) : Char(file[j]) \in Digits
  BY DEF Places
<1>6. QED
  BY <1>2, <1>4, <1>5, FS_CardinalityType

LEMMA NumberHas ==
  ASSUME Taped, NEW q \in Nat, 1 <= q
  PROVE  HasNumber(q) <=> Places(q) # {}
<1>1. CASE HasNumber(q)
  <2>1. PICK j \in 1 .. q - 1 : /\ Char(file[j]) \in Digits
                                /\ \A k \in j .. q - 1 : k \notin Marks
    BY <1>1 DEF HasNumber
  <2>2. j >= Since(q) /\ Since(q) \in 1 .. q
    BY <2>1, SinceIs
  <2>3. j \in Places(q)
    BY <2>1, <2>2 DEF Places
  <2>4. QED
    BY <1>1, <2>3
<1>2. CASE Places(q) # {}
  <2>1. PICK j \in Places(q) : TRUE
    BY <1>2
  <2>2. Since(q) \in 1 .. q
    BY SinceIs
  <2>3. j \in Since(q) .. q - 1 /\ Char(file[j]) \in Digits
    BY <2>1 DEF Places
  <2>4. j \in 1 .. q - 1 /\ \A k \in j .. q - 1 : k \in 1 .. q - 1 /\ k >= Since(q)
    BY <2>2, <2>3
  <2>5. \A k \in j .. q - 1 : k \notin Marks
    BY <2>4, SinceIs
  <2>6. QED
    BY <1>2, <2>3, <2>4, <2>5 DEF HasNumber
<1>3. QED
  BY <1>1, <1>2

\* One more character: a digit joins, a mark ends, any other is passed over.
LEMMA PlacesDigit ==
  ASSUME Taped, NEW q \in Nat, 1 <= q, q \notin Marks, Char(file[q]) \in Digits
  PROVE  Places(q + 1) = Places(q) \cup {q}
<1>1. Since(q + 1) = Since(q) /\ Since(q) \in 1 .. q
  BY SinceSame, SinceIs
<1>2. Since(q) .. q + 1 - 1 = (Since(q) .. q - 1) \cup {q}
  BY <1>1
<1>3. QED
  BY <1>1, <1>2 DEF Places

LEMMA PlacesSame ==
  ASSUME Taped, NEW q \in Nat, 1 <= q, q \notin Marks, Char(file[q]) \notin Digits
  PROVE  Places(q + 1) = Places(q)
<1>1. Since(q + 1) = Since(q) /\ Since(q) \in 1 .. q
  BY SinceSame, SinceIs
<1>2. Since(q) .. q + 1 - 1 = (Since(q) .. q - 1) \cup {q}
  BY <1>1
<1>3. QED
  BY <1>1, <1>2 DEF Places

LEMMA PlacesMark ==
  ASSUME Taped, NEW q \in Nat, q \in Marks
  PROVE  Places(q + 1) = {}
<1>1. Since(q + 1) = q + 1
  BY SinceMark
<1>2. QED
  BY <1>1 DEF Places

-----------------------------------------------------------------------------
\* What digits are worth.

LEMMA PowerSteps ==
  /\ PowerOf8[0] = 1
  /\ \A n \in Nat : PowerOf8[n] \in Nat /\ PowerOf8[n + 1] = 8 * PowerOf8[n]
<1> DEFINE Is(g) == g = [n \in Nat |-> IF n = 0 THEN 1 ELSE 8 * g[n - 1]]
           F == [x \in Nat \X Nat |-> 8 * x[2]]
<1>1. \E g : Is(g)
  <2>1. F \in [Nat \X Nat -> Nat] /\ \A n, v \in Nat : F[<<n, v>>] = 8 * v
    OBVIOUS
  <2> HIDE DEF F
  <2>2. PICK g \in [Nat -> Nat] : g[0] = 1 /\ \A n \in Nat : g[n + 1] = F[<<n, g[n]>>]
    <3>1. \E g \in [Nat -> Nat] : Recurs(g, 1, F)
      BY <2>1, NatRecursion
    <3>2. QED
      BY <3>1 DEF Recurs
  <2>3. ASSUME NEW n \in Nat PROVE g[n] = IF n = 0 THEN 1 ELSE 8 * g[n - 1]
    <3>1. CASE n = 0
      BY <2>2, <3>1
    <3>2. CASE n # 0
      <4>1. n - 1 \in Nat /\ n - 1 + 1 = n
        BY <3>2
      <4>2. g[n - 1 + 1] = F[<<n - 1, g[n - 1]>>] /\ g[n - 1] \in Nat
        BY <2>2, <4>1
      <4>3. QED
        BY <2>1, <3>2, <4>1, <4>2
    <3>3. QED
      BY <3>1, <3>2
  <2>4. Is(g)
    BY <2>2, <2>3
  <2>5. QED
    BY <2>4
<1>2. PowerOf8 = CHOOSE g : Is(g)
  BY DEF PowerOf8
<1>3. Is(PowerOf8)
  <2> HIDE DEF Is
  <2>1. QED
    BY <1>1, <1>2
<1> DEFINE p == PowerOf8
<1>4. p = [n \in Nat |-> IF n = 0 THEN 1 ELSE 8 * p[n - 1]]
  BY <1>3
<1> HIDE DEF p, Is
<1>5. p[0] = 1 /\ \A n \in Nat : p[n + 1] = 8 * p[n]
  <2>1. \A n \in Nat : p[n] = IF n = 0 THEN 1 ELSE 8 * p[n - 1]
    BY <1>4
  <2>2. \A n \in Nat : n + 1 \in Nat /\ n + 1 # 0 /\ n + 1 - 1 = n
    OBVIOUS
  <2>3. QED
    BY <2>1, <2>2
<1>6. {n \in Nat : p[n] \in Nat} = Nat
  <2> DEFINE T == {n \in Nat : p[n] \in Nat}
  <2>1. T \subseteq Nat /\ 0 \in T /\ \A n \in T : n + 1 \in T
    BY <1>5
  <2> HIDE DEF T
  <2>2. T = Nat
    BY <2>1, SetInduction
  <2>3. QED
    BY <2>2 DEF T
<1>7. QED
  BY <1>5, <1>6 DEF p

\* Some octal digits of a text before its character q.
DigitsOf(text, places, q) ==
  places \subseteq 1 .. q - 1 /\ \A i \in places : Char(text[i]) \in OctalDigits

LEMMA WorthIs ==
  ASSUME NEW text, NEW q \in Nat, NEW places, DigitsOf(text, places, q), NEW i
  PROVE  /\ Cardinality({k \in places : k > i}) \in Nat
         /\ IsFiniteSet({k \in places : k > i})
         /\ Worth(text, places, i) \in Nat
<1> DEFINE later == {k \in places : k > i}
<1>1. IsFiniteSet(1 .. q - 1) /\ later \subseteq 1 .. q - 1
  <2>1. 1 \in Int /\ q - 1 \in Int
    OBVIOUS
  <2>2. IsFiniteSet(1 .. q - 1)
    BY <2>1, FS_Interval
  <2>3. QED
    BY <2>2 DEF DigitsOf
<1>2. IsFiniteSet(later) /\ Cardinality(later) \in Nat
  BY <1>1, FS_Subset, FS_CardinalityType
<1> HIDE DEF later
<1>3. PowerOf8[Cardinality(later)] \in Nat
  BY <1>2, PowerSteps
<1>4. i \in places => Char(text[i]) - 48 \in 0 .. 7
  <2>1. \A c \in OctalDigits : c - 48 \in 0 .. 7
    BY DEF OctalDigits
  <2>2. QED
    BY <2>1 DEF DigitsOf
<1> DEFINE d == Char(text[i]) - 48
           w == PowerOf8[Cardinality(later)]
<1>5. Worth(text, places, i) = IF i \in places THEN d * w ELSE 0
  BY DEF Worth, later
<1>6. i \in places => d \in 0 .. 7
  BY <1>4
<1> HIDE DEF d
<1>7. w \in Nat
  BY <1>3
<1> HIDE DEF w
<1>8. Worth(text, places, i) \in Nat
  BY <1>5, <1>6, <1>7
<1>9. QED
  BY <1>2, <1>8 DEF later

LEMMA ValueSteps ==
  ASSUME NEW text, NEW q \in Nat, NEW places, DigitsOf(text, places, q)
  PROVE  /\ OctalValue(text, places, 0) = 0
         /\ \A n \in Nat : /\ OctalValue(text, places, n) \in Nat
                           /\ OctalValue(text, places, n + 1)
                                = OctalValue(text, places, n) + Worth(text, places, n + 1)
<1> DEFINE W(i) == Worth(text, places, i)
           Is(g) == g = [i \in Nat |-> IF i = 0 THEN 0 ELSE g[i - 1] + W(i)]
           F == [x \in Nat \X Nat |-> x[2] + W(x[1] + 1)]
           sum == CHOOSE g : Is(g)
<1>1. \A i : W(i) \in Nat
  BY WorthIs
<1>2. \A n : OctalValue(text, places, n) = sum[n]
  BY DEF OctalValue
<1> HIDE DEF W
<1>3. \E g : Is(g)
  <2>1. F \in [Nat \X Nat -> Nat] /\ \A n, v \in Nat : F[<<n, v>>] = v + W(n + 1)
    BY <1>1
  <2> HIDE DEF F
  <2>2. PICK g \in [Nat -> Nat] : g[0] = 0 /\ \A n \in Nat : g[n + 1] = F[<<n, g[n]>>]
    <3>1. \E g \in [Nat -> Nat] : Recurs(g, 0, F)
      BY <2>1, NatRecursion
    <3>2. QED
      BY <3>1 DEF Recurs
  <2>3. ASSUME NEW n \in Nat PROVE g[n] = IF n = 0 THEN 0 ELSE g[n - 1] + W(n)
    <3>1. CASE n = 0
      BY <2>2, <3>1
    <3>2. CASE n # 0
      <4>1. n - 1 \in Nat /\ n - 1 + 1 = n
        BY <3>2
      <4>2. g[n - 1 + 1] = F[<<n - 1, g[n - 1]>>] /\ g[n - 1] \in Nat
        BY <2>2, <4>1
      <4>3. QED
        BY <2>1, <3>2, <4>1, <4>2
    <3>3. QED
      BY <3>1, <3>2
  <2>4. Is(g)
    BY <2>2, <2>3
  <2>5. QED
    BY <2>4
<1>4. Is(sum)
  <2> HIDE DEF Is
  <2>1. QED
    BY <1>3
<1> HIDE DEF sum
<1>5. sum[0] = 0 /\ \A n \in Nat : sum[n + 1] = sum[n] + W(n + 1)
  <2>1. \A n \in Nat : sum[n] = IF n = 0 THEN 0 ELSE sum[n - 1] + W(n)
    BY <1>4
  <2>2. \A n \in Nat : n + 1 \in Nat /\ n + 1 # 0 /\ n + 1 - 1 = n
    OBVIOUS
  <2>3. QED
    BY <2>1, <2>2
<1>6. \A n \in Nat : sum[n] \in Nat
  <2> DEFINE T == {n \in Nat : sum[n] \in Nat}
  <2>1. T \subseteq Nat /\ 0 \in T /\ \A n \in T : n + 1 \in T
    BY <1>1, <1>5
  <2> HIDE DEF T
  <2>2. T = Nat
    BY <2>1, SetInduction
  <2>3. QED
    BY <2>2 DEF T
<1>7. QED
  BY <1>2, <1>5, <1>6 DEF W

\* No digits are worth nothing.
LEMMA ValueNone == \A text : \A n \in Nat : OctalValue(text, {}, n) = 0
<1> SUFFICES ASSUME NEW text PROVE \A n \in Nat : OctalValue(text, {}, n) = 0
  OBVIOUS
<1> DEFINE v(n) == OctalValue(text, {}, n)
           T == {n \in Nat : v(n) = 0}
<1>1. DigitsOf(text, {}, 1)
  BY DEF DigitsOf
<1>2. v(0) = 0 /\ \A n \in Nat : v(n + 1) = v(n) + 0
  <2>1. \A n : Worth(text, {}, n) = 0
    BY DEF Worth
  <2>2. \A n \in Nat : n + 1 \in Nat
    OBVIOUS
  <2>3. 1 \in Nat
    OBVIOUS
  <2>4. /\ OctalValue(text, {}, 0) = 0
        /\ \A n \in Nat :
             OctalValue(text, {}, n + 1) = OctalValue(text, {}, n) + Worth(text, {}, n + 1)
    BY <1>1, <2>3, ValueSteps
  <2>5. QED
    BY <2>1, <2>4
<1> HIDE DEF v
<1>3. T \subseteq Nat /\ 0 \in T /\ \A n \in T : n + 1 \in T
  BY <1>2
<1> HIDE DEF T
<1>4. T = Nat
  BY <1>3, SetInduction
<1>5. QED
  BY <1>4 DEF T, v

\* A character that is no digit of the number adds nothing.
LEMMA ValueSame ==
  ASSUME NEW text, NEW q \in Nat, 1 <= q, NEW places, DigitsOf(text, places, q)
  PROVE  OctalValue(text, places, q) = OctalValue(text, places, q - 1)
<1>1. q - 1 \in Nat /\ q - 1 + 1 = q /\ q \notin places
  BY DEF DigitsOf
<1>2. Worth(text, places, q) = 0
  BY <1>1 DEF Worth
<1>3. OctalValue(text, places, q - 1) \in Nat
  BY <1>1, ValueSteps
<1>4. OctalValue(text, places, q - 1 + 1)
        = OctalValue(text, places, q - 1) + Worth(text, places, q - 1 + 1)
  BY <1>1, ValueSteps
<1>5. QED
  BY <1>1, <1>2, <1>3, <1>4

\* One more digit makes those before it worth eight times as much.
LEMMA ValueDigit ==
  ASSUME NEW text, NEW q \in Nat, 1 <= q, NEW places, DigitsOf(text, places, q),
         Char(text[q]) \in OctalDigits
  PROVE  OctalValue(text, places \cup {q}, q)
           = 8 * OctalValue(text, places, q - 1) + (Char(text[q]) - 48)
<1> DEFINE more == places \cup {q}
           d == Char(text[q]) - 48
           v(n) == OctalValue(text, places, n)
           u(n) == OctalValue(text, more, n)
           T == {n \in Nat : n < q => u(n) = 8 * v(n)}
<1>1. d \in Nat
  BY DEF OctalDigits
<1>2. DigitsOf(text, more, q + 1)
  BY DEF DigitsOf
<1>3. \A i \in 1 .. q - 1 : Worth(text, more, i) = 8 * Worth(text, places, i)
  <2> SUFFICES ASSUME NEW i \in 1 .. q - 1
               PROVE  Worth(text, more, i) = 8 * Worth(text, places, i)
    OBVIOUS
  <2> DEFINE later == {k \in places : k > i}
             n == Cardinality(later)
             e == Char(text[i]) - 48
  <2>1. n \in Nat /\ IsFiniteSet(later)
    BY WorthIs
  <2>2. {k \in more : k > i} = later \cup {q} /\ q \notin later
    BY DEF DigitsOf
  <2> HIDE DEF later
  <2>3. Cardinality(later \cup {q}) = n + 1
    BY <2>1, <2>2, FS_AddElement
  <2>4. i \in more <=> i \in places
    OBVIOUS
  <2>5. Worth(text, more, i) = IF i \in places THEN e * PowerOf8[n + 1] ELSE 0
    BY <2>2, <2>3, <2>4 DEF Worth
  <2>6. Worth(text, places, i) = IF i \in places THEN e * PowerOf8[n] ELSE 0
    BY DEF Worth, later
  <2>7. i \in places => e \in Nat
    <3>1. \A c \in OctalDigits : c - 48 \in Nat
      BY DEF OctalDigits
    <3>2. QED
      BY <3>1 DEF DigitsOf
  <2>8. PowerOf8[n] \in Nat /\ PowerOf8[n + 1] = 8 * PowerOf8[n]
    BY <2>1, PowerSteps
  <2> DEFINE p == PowerOf8[n]
  <2> HIDE DEF e
  <2>9. p \in Nat /\ Worth(text, places, i) = (IF i \in places THEN e * p ELSE 0)
        /\ Worth(text, more, i) = IF i \in places THEN e * (8 * p) ELSE 0
    BY <2>5, <2>6, <2>8
  <2> HIDE DEF p
  <2>10. QED
    BY <2>7, <2>9
<1>4. Worth(text, more, q) = d
  <2>1. {k \in more : k > q} = {}
    <3>1. \A k \in places : k \in 1 .. q - 1
      BY DEF DigitsOf
    <3>2. \A k \in more : ~(k > q)
      BY <3>1
    <3>3. QED
      BY <3>2
  <2>2. Cardinality({}) = 0
    BY FS_EmptySet
  <2>3. PowerOf8[Cardinality({k \in more : k > q})] = 1
    BY <2>1, <2>2, PowerSteps
  <2>4. QED
    BY <1>1, <2>3 DEF Worth
<1>5. /\ v(0) = 0 /\ u(0) = 0
      /\ \A n \in Nat : v(n) \in Nat /\ u(n) \in Nat
      /\ \A n \in Nat : v(n + 1) = v(n) + Worth(text, places, n + 1)
      /\ \A n \in Nat : u(n + 1) = u(n) + Worth(text, more, n + 1)
  <2>1. q + 1 \in Nat
    OBVIOUS
  <2> HIDE DEF more
  <2>2. QED
    BY <1>2, <2>1, ValueSteps
<1>6. \A i : Worth(text, places, i) \in Nat
  BY WorthIs
<1> HIDE DEF more, v, u, d
<1>7. T \subseteq Nat /\ 0 \in T
  BY <1>5
<1>8. \A n \in T : n + 1 \in T
  <2> SUFFICES ASSUME NEW n \in T, n + 1 < q PROVE u(n + 1) = 8 * v(n + 1)
    OBVIOUS
  <2>1. n \in Nat /\ n + 1 \in 1 .. q - 1 /\ u(n) = 8 * v(n)
    OBVIOUS
  <2>2. Worth(text, more, n + 1) = 8 * Worth(text, places, n + 1)
    BY <1>3, <2>1
  <2>3. QED
    BY <1>5, <1>6, <2>1, <2>2
<1> HIDE DEF T
<1>9. T = Nat
  BY <1>7, <1>8, SetInduction
<1>10. q - 1 \in Nat /\ q - 1 + 1 = q
  OBVIOUS
<1>11. u(q - 1) = 8 * v(q - 1)
  BY <1>9, <1>10 DEF T
<1>12. u(q - 1 + 1) = u(q - 1) + Worth(text, more, q - 1 + 1)
  BY <1>5, <1>10
<1>13. u(q) = 8 * v(q - 1) + d
  BY <1>4, <1>10, <1>11, <1>12
<1>14. QED
  BY <1>13 DEF u, v, d, more

-----------------------------------------------------------------------------
\* tmpstr, character by character.

LEMMA CharClasses ==
  /\ Digits \cap {SLASH, CR, BANG} = {} /\ OctalDigits \subseteq Digits
  /\ SLASH # CR /\ SLASH # BANG /\ CR # BANG
BY DEF Digits, OctalDigits, SLASH, CR, BANG

LEMMA NoDigits ==
  ASSUME NEW i \in Nat, 1 <= i, Places(i) = {}
  PROVE  /\ Cardinality(Places(i)) = 0 /\ Kept(i) = {} /\ NumberAt(i) = {}
         /\ OctalValue(file, NumberAt(i), i - 1) = 0
<1>1. Cardinality(Places(i)) = 0
  BY FS_EmptySet
<1>2. Kept(i) = {}
  BY DEF Kept
<1>3. NumberAt(i) = {}
  BY <1>2 DEF NumberAt
<1>4. i - 1 \in Nat
  OBVIOUS
<1>5. QED
  BY <1>1, <1>2, <1>3, <1>4, ValueNone

LEMMA ZeroFits == Saturated(0) = 0
BY LongAssumption DEF Saturated

\* No digits: tmpstr is as it is when it has been reset.
LEMMA ReadsNothing ==
  ASSUME NEW i \in Nat, 1 <= i, Places(i) = {}, NEW n,
         n.len = 0, n.octal = TRUE, n.val = 0
  PROVE  Reads(n, i)
<1>1. /\ Cardinality(Places(i)) = 0 /\ Kept(i) = {}
      /\ OctalValue(file, NumberAt(i), i - 1) = 0
  BY NoDigits
<1>2. ~(0 > MaxDigits)
  BY DigitsAssumption
<1>3. QED
  BY <1>1, <1>2, ZeroFits DEF Reads

LEMMA ReadsLength ==
  ASSUME Taped, NEW i \in Nat, 1 <= i, NEW n, Reads(n, i)
  PROVE  /\ n.len > 0 <=> HasNumber(i)
         /\ n.len > 0 \/ (Places(i) = {} /\ n.len = 0 /\ n.octal = TRUE /\ n.val = 0)
<1> DEFINE c == Cardinality(Places(i))
<1>1. IsFiniteSet(Places(i)) /\ c \in Nat
  BY PlacesIn
<1>2. c = 0 <=> Places(i) = {}
  BY <1>1, FS_EmptySet
<1>3. n.len = IF c > MaxDigits THEN MaxDigits ELSE c
  BY DEF Reads
<1> HIDE DEF c
<1>4. n.len > 0 <=> Places(i) # {}
  BY <1>1, <1>2, <1>3, DigitsAssumption
<1>5. HasNumber(i) <=> Places(i) # {}
  BY NumberHas
<1>6. ASSUME Places(i) = {} PROVE n.len = 0 /\ n.octal = TRUE /\ n.val = 0
  <2>1. /\ c = 0 /\ Kept(i) = {}
        /\ OctalValue(file, NumberAt(i), i - 1) = 0
    BY <1>6, NoDigits DEF c
  <2>2. n.octal = \A k \in Kept(i) : Char(file[k]) \in OctalDigits
    BY DEF Reads
  <2>3. n.octal = TRUE
    BY <2>1, <2>2
  <2>4. n.val = 0
    BY <2>1, ZeroFits DEF Reads
  <2>5. n.len = 0
    BY <1>3, <2>1, DigitsAssumption
  <2>6. QED
    BY <2>3, <2>4, <2>5
<1>7. QED
  BY <1>4, <1>5, <1>6

\* A character that is neither digit nor mark.
LEMMA NumberSame ==
  ASSUME NEW i, NEW j, Places(i) = Places(j)
  PROVE  Kept(i) = Kept(j) /\ NumberAt(i) = NumberAt(j)
<1>1. Kept(i) = Kept(j)
  BY DEF Kept
<1>2. QED
  BY <1>1 DEF NumberAt

LEMMA NumberDigits ==
  ASSUME Taped, NEW q \in Nat, 1 <= q
  PROVE  DigitsOf(file, NumberAt(q), q)
<1>1. NumberAt(q) \subseteq Kept(q) /\ Kept(q) \subseteq Places(q)
  BY DEF NumberAt, Kept
<1>2. Places(q) \subseteq 1 .. q - 1
  BY PlacesIn
<1>3. ASSUME NEW j \in NumberAt(q) PROVE Char(file[j]) \in OctalDigits
  <2>1. j \in Nat
    BY <1>1, <1>2
  <2>2. j \in Kept(q) /\ (j <= j => Char(file[j]) \in OctalDigits)
    BY DEF NumberAt
  <2>3. QED
    BY <2>1, <2>2
<1>4. QED
  BY <1>1, <1>2, <1>3 DEF DigitsOf

LEMMA ReadsOther ==
  ASSUME Taped, NEW q \in Nat, 1 <= q, q \notin Marks, Char(file[q]) \notin Digits,
         NEW n, Reads(n, q)
  PROVE  Reads(n, q + 1)
<1>1. Places(q + 1) = Places(q)
  BY PlacesSame
<1>2. Kept(q + 1) = Kept(q) /\ NumberAt(q + 1) = NumberAt(q)
  BY <1>1, NumberSame
<1>3. OctalValue(file, NumberAt(q), q) = OctalValue(file, NumberAt(q), q - 1)
  BY NumberDigits, ValueSame
<1>4. q + 1 - 1 = q
  OBVIOUS
<1>5. QED
  BY <1>1, <1>2, <1>3, <1>4 DEF Reads

\* What one more digit at q changes.
LEMMA KeptDigit ==
  ASSUME Taped, NEW q \in Nat, 1 <= q, q \notin Marks, Char(file[q]) \in Digits
  PROVE  /\ Cardinality(Places(q + 1)) = Cardinality(Places(q)) + 1
         /\ Kept(q + 1) = Kept(q) \cup
              (IF Cardinality(Places(q)) + 1 <= MaxDigits THEN {q} ELSE {})
<1> DEFINE P == Places(q)
           c == Cardinality(P)
           upto(S, j) == {k \in S : k <= j}
<1>1. Places(q + 1) = P \cup {q}
  BY PlacesDigit
<1>2. (\A j \in P : j \in Nat /\ j < q) /\ IsFiniteSet(P)
  BY PlacesIn
<1>3. Kept(q + 1) = {j \in Places(q + 1) : Cardinality(upto(Places(q + 1), j)) <= MaxDigits}
  BY DEF Kept
<1>4. Kept(q) = {j \in P : Cardinality(upto(P, j)) <= MaxDigits}
  BY DEF Kept
<1> HIDE DEF P
<1>5. q \notin P /\ Cardinality(P \cup {q}) = c + 1
  <2>1. q \notin P
    BY <1>2
  <2>2. QED
    BY <1>2, <2>1, FS_AddElement
<1>6. upto(P \cup {q}, q) = P \cup {q}
  BY <1>2
<1>7. \A j \in P : upto(P \cup {q}, j) = upto(P, j)
  BY <1>2
<1> HIDE DEF upto
<1>8. Kept(q + 1) = Kept(q) \cup (IF c + 1 <= MaxDigits THEN {q} ELSE {})
  BY <1>1, <1>3, <1>4, <1>5, <1>6, <1>7
<1>9. QED
  BY <1>1, <1>5, <1>8 DEF P

LEMMA KeptIn ==
  ASSUME Taped, NEW q \in Nat, 1 <= q
  PROVE  \A j \in Kept(q) : j \in Nat /\ j < q
BY PlacesIn DEF Kept

LEMMA NumberMore ==
  ASSUME Taped, NEW q \in Nat, 1 <= q, Kept(q + 1) = Kept(q) \cup {q},
         \A k \in Kept(q) : Char(file[k]) \in OctalDigits, Char(file[q]) \in OctalDigits
  PROVE  NumberAt(q + 1) = NumberAt(q) \cup {q}
<1>1. NumberAt(q) = Kept(q)
  BY DEF NumberAt
<1>2. NumberAt(q + 1) = Kept(q + 1)
  BY DEF NumberAt
<1>3. QED
  BY <1>1, <1>2

LEMMA NumberStops ==
  ASSUME Taped, NEW q \in Nat, 1 <= q, Kept(q + 1) = Kept(q) \cup {q},
         ~((\A k \in Kept(q) : Char(file[k]) \in OctalDigits) /\ Char(file[q]) \in OctalDigits)
  PROVE  NumberAt(q + 1) = NumberAt(q)
<1> DEFINE K == Kept(q)
           octal(k) == Char(file[k]) \in OctalDigits
           N == {j \in K : \A k \in K : k <= j => octal(k)}
           M == {j \in K \cup {q} : \A k \in K \cup {q} : k <= j => octal(k)}
<1>1. \A j \in K : j \in Nat /\ j < q
  BY KeptIn
<1>2. NumberAt(q) = N
  BY DEF NumberAt
<1>3. NumberAt(q + 1) = M
  BY DEF NumberAt
<1>4. ~((\A k \in K : octal(k)) /\ octal(q))
  OBVIOUS
<1> HIDE DEF K, octal
<1>5. q \notin M
  BY <1>1, <1>4
<1>6. \A j \in K : j \in N <=> j \in M
  BY <1>1
<1>7. N = M
  BY <1>5, <1>6
<1>8. QED
  BY <1>2, <1>3, <1>7

LEMMA SaturatedDigit ==
  ASSUME NEW v \in Nat, NEW d \in Nat
  PROVE  Saturated(8 * Saturated(v) + d) = Saturated(8 * v + d)
BY LongAssumption DEF Saturated

LEMMA ReadsDigit ==
  ASSUME Taped, NEW q \in Nat, 1 <= q, q \notin Marks, NEW c \in Digits, c = Char(file[q]),
         NEW n \in NumberType, Reads(n, q)
  PROVE  Reads(Push(n, c), q + 1)
<1> DEFINE card == Cardinality(Places(q))
           all == \A k \in Kept(q) : Char(file[k]) \in OctalDigits
           v == OctalValue(file, NumberAt(q), q - 1)
<1>1. /\ Cardinality(Places(q + 1)) = card + 1 /\ card \in Nat
      /\ Kept(q + 1) = Kept(q) \cup (IF card + 1 <= MaxDigits THEN {q} ELSE {})
  BY KeptDigit, PlacesIn
<1>2. /\ n.len = IF card > MaxDigits THEN MaxDigits ELSE card
      /\ n.octal = all /\ n.val = Saturated(v)
  BY DEF Reads
<1>3. v \in Nat
  <2>1. q - 1 \in Nat
    OBVIOUS
  <2>2. QED
    BY <2>1, NumberDigits, ValueSteps
<1>4. OctalValue(file, NumberAt(q), q) = v
  BY NumberDigits, ValueSame
<1>5. q + 1 - 1 = q
  OBVIOUS
<1>6. ASSUME NEW m,
             m.len = IF card + 1 > MaxDigits THEN MaxDigits ELSE card + 1,
             m.octal = \A k \in Kept(q + 1) : Char(file[k]) \in OctalDigits,
             m.val = Saturated(OctalValue(file, NumberAt(q + 1), q))
      PROVE  Reads(m, q + 1)
  BY <1>1, <1>5, <1>6 DEF Reads
<1> HIDE DEF card, v
<1>7. CASE Full(n)
  <2>1. Push(n, c) = n /\ n.len >= MaxDigits
    BY <1>7 DEF Push, Full
  <2>2. card >= MaxDigits /\ n.len = MaxDigits
    BY <1>1, <1>2, <2>1, DigitsAssumption
  <2>3. card + 1 > MaxDigits /\ ~(card + 1 <= MaxDigits)
    BY <1>1, <2>2, DigitsAssumption
  <2>4. Kept(q + 1) = Kept(q)
    BY <1>1, <2>3
  <2>5. NumberAt(q + 1) = NumberAt(q)
    BY <2>4 DEF NumberAt
  <2>6. QED
    BY <1>2, <1>4, <1>6, <2>1, <2>2, <2>3, <2>4, <2>5
<1>8. CASE ~Full(n)
  <2> DEFINE more == n.octal /\ c \in OctalDigits
             next == 8 * n.val + (c - 48)
             val == IF ~more THEN n.val ELSE Saturated(next)
  <2>1. Push(n, c) = [len |-> n.len + 1, val |-> val, octal |-> more]
    BY <1>8 DEF Push, Saturated
  <2>2. Push(n, c).len = n.len + 1 /\ Push(n, c).val = val /\ Push(n, c).octal = more
    BY <2>1
  <2>3. ~(card > MaxDigits) /\ n.len = card /\ card + 1 <= MaxDigits
    BY <1>1, <1>2, <1>8, DigitsAssumption DEF Full
  <2>4. Kept(q + 1) = Kept(q) \cup {q}
    BY <1>1, <2>3
  <2>5. more = \A k \in Kept(q + 1) : Char(file[k]) \in OctalDigits
    BY <1>2, <2>4
  <2>6. val = Saturated(OctalValue(file, NumberAt(q + 1), q))
    <3>1. CASE more
      <4>1. NumberAt(q + 1) = NumberAt(q) \cup {q}
        BY <1>2, <2>4, <3>1, NumberMore
      <4>2. OctalValue(file, NumberAt(q) \cup {q}, q) = 8 * v + (c - 48)
        BY <3>1, NumberDigits, ValueDigit DEF v
      <4> DEFINE d == c - 48
      <4>3. d \in Nat
        BY DEF Digits
      <4>4. val = Saturated(8 * Saturated(v) + d)
        BY <1>2, <3>1
      <4> HIDE DEF d, val
      <4>5. val = Saturated(8 * v + d)
        BY <1>3, <4>3, <4>4, SaturatedDigit
      <4>6. QED
        BY <4>1, <4>2, <4>5 DEF d
    <3>2. CASE ~more
      <4>1. NumberAt(q + 1) = NumberAt(q)
        BY <1>2, <2>4, <3>2, NumberStops
      <4>2. QED
        BY <1>2, <1>4, <3>2, <4>1
    <3>3. QED
      BY <3>1, <3>2
  <2> HIDE DEF more, val
  <2>7. Push(n, c).len = IF card + 1 > MaxDigits THEN MaxDigits ELSE card + 1
    BY <1>1, <2>2, <2>3, DigitsAssumption
  <2>8. QED
    BY <1>6, <2>2, <2>5, <2>6, <2>7
<1>9. QED
  BY <1>7, <1>8

-----------------------------------------------------------------------------
\* The numbers ended so far, and how a step of the loop adds to them.

LEMMA ValueOf ==
  ASSUME NEW n, NEW q, Reads(n, q)
  PROVE  Value(n) = ValueAt(q)
BY DEF Reads, Value, ValueAt

LEMMA EndedIn ==
  ASSUME Taped, NEW kinds, NEW p \in Nat
  PROVE  Ended(kinds, p) \subseteq 1 .. p
<1>1. BangAt \in Nat
  BY BangFirst DEF Taped
<1>2. QED
  BY <1>1 DEF Ended, NumbersAt, Marks

LEMMA EndedSame ==
  ASSUME Taped, NEW kinds, NEW p \in Nat, p + 1 \notin NumbersAt(kinds)
  PROVE  Ended(kinds, p + 1) = Ended(kinds, p)
<1>1. NumbersAt(kinds) \subseteq Nat
  <2>1. BangAt \in Nat
    BY BangFirst DEF Taped
  <2>2. QED
    BY <2>1 DEF NumbersAt, Marks
<1>2. QED
  BY <1>1 DEF Ended

LEMMA EndedMore ==
  ASSUME Taped, NEW kinds, NEW p \in Nat, p + 1 \in NumbersAt(kinds)
  PROVE  /\ Ended(kinds, p + 1) = Ended(kinds, p) \cup {p + 1}
         /\ Last(Ended(kinds, p + 1)) = p + 1
<1>1. NumbersAt(kinds) \subseteq Nat
  <2>1. BangAt \in Nat
    BY BangFirst DEF Taped
  <2>2. QED
    BY <2>1 DEF NumbersAt, Marks
<1>2. Ended(kinds, p + 1) = Ended(kinds, p) \cup {p + 1}
  BY <1>1 DEF Ended
<1>3. Ended(kinds, p + 1) \subseteq 1 .. p + 1 /\ p + 1 \in Nat
  BY EndedIn
<1>4. QED
  BY <1>2, <1>3, LastOf

\* The number a step of the loop ends, if any.
LEMMA NumberAdds ==
  ASSUME Taped, NEW kinds, NEW p \in Nat
  PROVE  /\ p + 1 \in NumbersAt(kinds) =>
              NumberOrZero(Last(Ended(kinds, p + 1))) = ValueAt(p + 1)
         /\ p + 1 \notin NumbersAt(kinds) =>
              NumberOrZero(Last(Ended(kinds, p + 1))) = NumberOrZero(Last(Ended(kinds, p)))
<1>1. ASSUME p + 1 \in NumbersAt(kinds)
      PROVE  NumberOrZero(Last(Ended(kinds, p + 1))) = ValueAt(p + 1)
  <2>1. Last(Ended(kinds, p + 1)) = p + 1 /\ p + 1 # 0
    BY <1>1, EndedMore
  <2>2. QED
    BY <2>1 DEF NumberOrZero
<1>2. ASSUME p + 1 \notin NumbersAt(kinds)
      PROVE  NumberOrZero(Last(Ended(kinds, p + 1))) = NumberOrZero(Last(Ended(kinds, p)))
  BY <1>2, EndedSame
<1>3. QED
  BY <1>1, <1>2

LEMMA OriginIs ==
  ASSUME Taped, NEW p \in Nat
  PROVE  /\ Origin(p) = 0 <=> Origins(p) = {}
         /\ Origins(p) # {} => \E i \in Origins(p) : /\ \A j \in Origins(p) : i <= j
                                                     /\ Origin(p) = ValueAt(i)
<1>1. Origins(p) \subseteq 1 .. p
  BY EndedIn DEF Origins
<1>2. ASSUME Origins(p) # {}
      PROVE  /\ Origin(p) # 0
             /\ \E i \in Origins(p) : (\A j \in Origins(p) : i <= j) /\ Origin(p) = ValueAt(i)
  <2> DEFINE S == Origins(p)
  <2>1. S \subseteq Nat /\ S \subseteq Int /\ S # {}
    BY <1>1, <1>2
  <2> HIDE DEF S
  <2>2. PICK i \in S : \A j \in S : i <= j
    BY <2>1, NatMin
  <2>3. Min(S) = i
    BY <2>1, <2>2, MinIs
  <2>4. ValueAt(i) # 0
    BY <2>2 DEF S, Origins
  <2>5. Origin(p) = ValueAt(i)
    BY <1>2, <2>3 DEF Origin, S
  <2>6. QED
    BY <2>2, <2>4, <2>5 DEF S
<1>3. QED
  BY <1>2 DEF Origin

LEMMA OriginSame ==
  ASSUME Taped, NEW p \in Nat, p + 1 \notin NumbersAt({SLASH})
  PROVE  Origin(p + 1) = Origin(p)
<1>1. Origins(p + 1) = Origins(p)
  BY EndedSame DEF Origins
<1>2. QED
  BY <1>1 DEF Origin

LEMMA OriginMore ==
  ASSUME Taped, NEW p \in Nat, p + 1 \in NumbersAt({SLASH})
  PROVE  Origin(p + 1) = IF Origin(p) = 0 THEN ValueAt(p + 1) ELSE Origin(p)
<1> DEFINE S == Origins(p)
           q == p + 1
<1>1. Ended({SLASH}, q) = Ended({SLASH}, p) \cup {q}
  BY EndedMore
<1>2. S \subseteq 1 .. p /\ S \subseteq Int
  BY EndedIn DEF Origins
<1>3. Origins(q) = S \cup (IF ValueAt(q) # 0 THEN {q} ELSE {})
  BY <1>1 DEF Origins
<1>4. Origin(p) = 0 <=> S = {}
  BY OriginIs
<1> HIDE DEF S
<1>5. CASE ValueAt(q) = 0
  <2>1. Origins(q) = Origins(p)
    BY <1>3, <1>5 DEF S
  <2>2. Origin(q) = Origin(p)
    BY <2>1 DEF Origin
  <2>3. QED
    BY <1>5, <2>2
<1>6. CASE ValueAt(q) # 0 /\ S = {}
  <2>1. Origins(q) = {q}
    BY <1>3, <1>6
  <2>2. {q} \subseteq Int /\ q \in {q} /\ \A i \in {q} : q <= i
    OBVIOUS
  <2>3. Min({q}) = q
    BY <2>2, MinIs
  <2>4. Origin(q) = ValueAt(q)
    BY <2>1, <2>3 DEF Origin
  <2>5. QED
    BY <1>4, <1>6, <2>4
<1>7. CASE ValueAt(q) # 0 /\ S # {}
  <2>1. Origins(q) = S \cup {q}
    BY <1>3, <1>7
  <2>2. PICK i \in S : (\A j \in S : i <= j) /\ Origin(p) = ValueAt(i)
    BY <1>7, OriginIs DEF S
  <2>3. S \cup {q} \subseteq Int /\ i \in S \cup {q} /\ \A j \in S \cup {q} : i <= j
    BY <1>2, <2>2
  <2> HIDE DEF q
  <2>4. Min(S \cup {q}) = i
    BY <2>3, MinIs
  <2>5. Origin(q) = ValueAt(i)
    BY <2>1, <2>4 DEF Origin
  <2>6. QED
    BY <1>4, <1>7, <2>2, <2>5 DEF q
<1>8. QED
  BY <1>5, <1>6, <1>7

\* Which characters of the preamble are marks, and which marks end a number.
LEMMA MarkIs ==
  ASSUME Taped, NEW q \in Nat, 1 <= q, q <= BangAt
  PROVE  /\ q \in Marks <=> Char(file[q]) \in {SLASH, CR, BANG}
         /\ \A kinds : q \in NumbersAt(kinds) <=>
              q \in Marks /\ Char(file[q]) \in kinds /\ HasNumber(q)
<1>1. BangAt \in Nat
  BY BangFirst DEF Taped
<1>2. q \in Marks <=> Char(file[q]) \in {SLASH, CR, BANG}
  BY <1>1 DEF Marks
<1>3. QED
  BY <1>2 DEF NumbersAt

\* A step that ends no number: a digit or a character passed over.
LEMMA ScannedOn ==
  ASSUME Taped, NEW p \in Nat, p + 1 \notin Marks, NEW n, NEW m, NEW s, NEW l, NEW a,
         Scanned(p, n, s, l, a), Reads(m, p + 2)
  PROVE  Scanned(p + 1, m, s, l, a)
<1>1. \A kinds : p + 1 \notin NumbersAt(kinds)
  BY DEF NumbersAt
<1>2. \A kinds : NumberOrZero(Last(Ended(kinds, p + 1))) = NumberOrZero(Last(Ended(kinds, p)))
  BY <1>1, NumberAdds
<1>3. Origin(p + 1) = Origin(p)
  BY <1>1, OriginSame
<1>4. p + 1 + 1 = p + 2
  OBVIOUS
<1>5. QED
  BY <1>2, <1>3, <1>4 DEF Scanned

\* After a mark tmpstr is empty.
LEMMA ResetReads ==
  ASSUME Taped, NEW p \in Nat, p + 1 \in Marks, NEW n, Reads(n, p + 1),
         NEW m, m = NoNumber \/ (m = n /\ ~(n.len > 0))
  PROVE  Reads(m, p + 2)
<1>1. Places(p + 2) = {}
  <2>1. p + 1 \in Nat /\ p + 1 + 1 = p + 2
    OBVIOUS
  <2>2. QED
    BY <2>1, PlacesMark
<1>2. m.len = 0 /\ m.octal = TRUE /\ m.val = 0
  <2>1. p + 1 \in Nat /\ 1 <= p + 1
    OBVIOUS
  <2>2. n.len > 0 \/ (n.len = 0 /\ n.octal = TRUE /\ n.val = 0)
    BY <2>1, ReadsLength
  <2>3. QED
    BY <2>2 DEF NoNumber
<1>3. p + 2 \in Nat /\ 1 <= p + 2
  OBVIOUS
<1>4. QED
  BY <1>1, <1>2, <1>3, ReadsNothing

LEMMA ScannedSlash ==
  ASSUME Taped, NEW p \in Nat, p + 1 <= BangAt, Char(file[p + 1]) = SLASH,
         NEW n, NEW s, NEW l, NEW a, Scanned(p, n, s, l, a)
  PROVE  Scanned(p + 1, NoNumber,
                 IF n.len > 0 THEN Value(n) ELSE s, IF n.len > 0 THEN Value(n) ELSE l,
                 IF n.len > 0 /\ a = 0 THEN Value(n) ELSE a)
<1> DEFINE q == p + 1
<1>1. q \in Nat /\ 1 <= q /\ q + 1 = p + 2
  OBVIOUS
<1>2. Reads(n, q) /\ s = NumberOrZero(Last(Ended({SLASH}, p)))
      /\ l = NumberOrZero(Last(Ended({SLASH, CR}, p))) /\ a = Origin(p)
  BY DEF Scanned
<1>3. n.len > 0 <=> HasNumber(q)
  BY <1>1, <1>2, ReadsLength
<1>4. q \in Marks
  BY <1>1, MarkIs
<1>5. /\ q \in NumbersAt({SLASH}) <=> n.len > 0
      /\ q \in NumbersAt({SLASH, CR}) <=> n.len > 0
  <2>1. \A kinds : q \in NumbersAt(kinds) <=>
          q \in Marks /\ Char(file[q]) \in kinds /\ HasNumber(q)
    BY <1>1, MarkIs
  <2>2. QED
    BY <1>3, <1>4, <2>1
<1>6. Value(n) = ValueAt(q)
  BY <1>2, ValueOf
<1>7. Reads(NoNumber, q + 1)
  BY <1>1, <1>2, <1>4, ResetReads
<1>8. CASE n.len > 0
  <2>1. /\ NumberOrZero(Last(Ended({SLASH}, q))) = ValueAt(q)
        /\ NumberOrZero(Last(Ended({SLASH, CR}, q))) = ValueAt(q)
    BY <1>5, <1>8, NumberAdds
  <2>2. Origin(q) = IF a = 0 THEN ValueAt(q) ELSE a
    BY <1>2, <1>5, <1>8, OriginMore
  <2>3. QED
    BY <1>6, <1>7, <1>8, <2>1, <2>2 DEF Scanned
<1>9. CASE ~(n.len > 0)
  <2>1. /\ NumberOrZero(Last(Ended({SLASH}, q))) = s
        /\ NumberOrZero(Last(Ended({SLASH, CR}, q))) = l
    BY <1>2, <1>5, <1>9, NumberAdds
  <2>2. Origin(q) = a
    BY <1>2, <1>5, <1>9, OriginSame
  <2>3. QED
    BY <1>7, <1>9, <2>1, <2>2 DEF Scanned
<1>10. QED
  BY <1>8, <1>9

LEMMA ScannedReturn ==
  ASSUME Taped, NEW p \in Nat, p + 1 <= BangAt, Char(file[p + 1]) = CR,
         NEW n, NEW s, NEW l, NEW a, Scanned(p, n, s, l, a)
  PROVE  Scanned(p + 1, IF n.len > 0 THEN NoNumber ELSE n,
                 s, IF n.len > 0 THEN Value(n) ELSE l, a)
<1> DEFINE q == p + 1
           m == IF n.len > 0 THEN NoNumber ELSE n
<1>1. q \in Nat /\ 1 <= q /\ q + 1 = p + 2
  OBVIOUS
<1>2. Reads(n, q) /\ s = NumberOrZero(Last(Ended({SLASH}, p)))
      /\ l = NumberOrZero(Last(Ended({SLASH, CR}, p))) /\ a = Origin(p)
  BY DEF Scanned
<1>3. n.len > 0 <=> HasNumber(q)
  BY <1>1, <1>2, ReadsLength
<1>4. q \in Marks
  BY <1>1, MarkIs
<1>5. q \notin NumbersAt({SLASH}) /\ (q \in NumbersAt({SLASH, CR}) <=> n.len > 0)
  <2>1. \A kinds : q \in NumbersAt(kinds) <=>
          q \in Marks /\ Char(file[q]) \in kinds /\ HasNumber(q)
    BY <1>1, MarkIs
  <2>2. QED
    BY <1>3, <1>4, <2>1, CharClasses
<1>6. Value(n) = ValueAt(q)
  BY <1>2, ValueOf
<1>7. Reads(m, q + 1)
  <2>1. m = NoNumber \/ (m = n /\ ~(n.len > 0))
    OBVIOUS
  <2> HIDE DEF m
  <2>2. QED
    BY <1>1, <1>2, <1>4, <2>1, ResetReads
<1>8. NumberOrZero(Last(Ended({SLASH}, q))) = s /\ Origin(q) = a
  BY <1>2, <1>5, NumberAdds, OriginSame
<1>9. NumberOrZero(Last(Ended({SLASH, CR}, q))) = IF n.len > 0 THEN Value(n) ELSE l
  BY <1>2, <1>5, <1>6, NumberAdds
<1>10. QED
  BY <1>7, <1>8, <1>9 DEF Scanned

LEMMA ScannedBang ==
  ASSUME Taped, NEW p \in Nat, p + 1 = BangAt, NEW n, NEW s, NEW l, NEW a,
         Scanned(p, n, s, l, a)
  PROVE  /\ s = StartAddress
         /\ BootAddress = LET given == IF n.len > 0 THEN Value(n) ELSE a
                          IN IF given = s THEN l ELSE given
<1> DEFINE q == p + 1
<1>1. q \in Nat /\ 1 <= q
  OBVIOUS
<1>2. Reads(n, q) /\ s = NumberOrZero(Last(Ended({SLASH}, p)))
      /\ l = NumberOrZero(Last(Ended({SLASH, CR}, p))) /\ a = Origin(p)
  BY DEF Scanned
<1>3. n.len > 0 <=> HasNumber(BangAt)
  BY <1>1, <1>2, ReadsLength
<1>4. Value(n) = ValueAt(BangAt)
  BY <1>2, ValueOf
<1>5. ASSUME NEW kinds, BANG \notin kinds PROVE NumbersAt(kinds) = Ended(kinds, p)
  <2>1. BangAt \notin NumbersAt(kinds)
    BY <1>5, BangFirst DEF NumbersAt
  <2>2. \A i \in NumbersAt(kinds) : i \in Nat /\ i <= BangAt /\ i # BangAt
    BY <2>1 DEF NumbersAt, Marks
  <2>3. QED
    BY <2>2 DEF Ended
<1>6. NumbersAt({SLASH}) = Ended({SLASH}, p) /\ NumbersAt({SLASH, CR}) = Ended({SLASH, CR}, p)
  BY <1>5, CharClasses
<1>7. s = StartAddress /\ l = LastNumber
  BY <1>2, <1>6 DEF StartAddress, LastNumber
<1> DEFINE origins == {i \in NumbersAt({SLASH}) : ValueAt(i) # 0}
<1>8. origins = Origins(p)
  BY <1>6 DEF Origins
<1>9. a = IF origins = {} THEN 0 ELSE ValueAt(Min(origins))
  BY <1>2, <1>8 DEF Origin
<1> DEFINE given == IF HasNumber(BangAt) THEN ValueAt(BangAt)
                    ELSE IF origins = {} THEN 0 ELSE ValueAt(Min(origins))
<1>10. BootAddress = IF given = StartAddress THEN LastNumber ELSE given
  BY DEF BootAddress
<1>11. given = IF n.len > 0 THEN Value(n) ELSE a
  BY <1>3, <1>4, <1>9
<1> HIDE DEF given, origins
<1>12. QED
  BY <1>7, <1>10, <1>11

-----------------------------------------------------------------------------
(* All of this is about the file: it stays while the file does.               *)
LEMMA TextStays ==
  ASSUME file' = file
  PROVE  /\ Bangs' = Bangs /\ BangAt' = BangAt
         /\ StartAddress' = StartAddress /\ BootAddress' = BootAddress
         /\ \A p, n, s, l, a : Scanned(p, n, s, l, a)' <=> Scanned(p, n, s, l, a)
<1>1. Bangs' = Bangs
  BY DEF Bangs
<1>2. BangAt' = BangAt
  BY <1>1 DEF BangAt
<1>3. Marks' = Marks
  BY <1>2 DEF Marks
<1>4. \A i : Since(i)' = Since(i)
  BY <1>3 DEF Since
<1>5. \A i : Places(i)' = Places(i)
  BY <1>4 DEF Places
<1>6. \A i : Kept(i)' = Kept(i)
  BY <1>5 DEF Kept
<1>7. \A i : NumberAt(i)' = NumberAt(i)
  BY <1>6 DEF NumberAt
<1>8. \A i : ValueAt(i)' = ValueAt(i)
  BY <1>7 DEF ValueAt
<1>9. \A i : HasNumber(i)' <=> HasNumber(i)
  BY <1>3 DEF HasNumber
<1>10. \A kinds : NumbersAt(kinds)' = NumbersAt(kinds)
  BY <1>3, <1>9 DEF NumbersAt
<1>11. \A i : NumberOrZero(i)' = NumberOrZero(i)
  BY <1>8 DEF NumberOrZero
<1>12. StartAddress' = StartAddress
  BY <1>10, <1>11 DEF StartAddress
<1>13. LastNumber' = LastNumber
  BY <1>10, <1>11 DEF LastNumber
<1>14. BootAddress' = BootAddress
  BY <1>2, <1>8, <1>9, <1>10, <1>12, <1>13 DEF BootAddress
<1>15. \A kinds, p : Ended(kinds, p)' = Ended(kinds, p)
  BY <1>10 DEF Ended
<1>16. \A p : Origins(p)' = Origins(p)
  BY <1>8, <1>15 DEF Origins
<1>17. \A p : Origin(p)' = Origin(p)
  BY <1>8, <1>16 DEF Origin
<1>18. \A n, i : Reads(n, i)' <=> Reads(n, i)
  BY <1>5, <1>6, <1>7 DEF Reads
<1>19. \A p, n, s, l, a : Scanned(p, n, s, l, a)' <=> Scanned(p, n, s, l, a)
  BY <1>11, <1>15, <1>17, <1>18 DEF Scanned
<1>20. QED
  BY <1>1, <1>2, <1>12, <1>14, <1>19

-----------------------------------------------------------------------------
\* At the start of the preamble nothing has been read.
LEMMA ScannedNone ==
  ASSUME Taped
  PROVE  0 < BangAt /\ Scanned(0, NoNumber, 0, 0, 0)
<1>1. Places(1) = {}
  BY PlacesIn
<1>2. Reads(NoNumber, 0 + 1)
  <2>1. ASSUME NEW n, n = NoNumber PROVE n.len = 0 /\ n.octal = TRUE /\ n.val = 0
    BY <2>1 DEF NoNumber
  <2>2. ASSUME NEW i \in Nat, i = 1, NEW n, n = NoNumber PROVE Reads(n, i)
    <3>1. Places(i) = {} /\ 1 <= i
      BY <1>1, <2>2
    <3>2. n.len = 0 /\ n.octal = TRUE /\ n.val = 0
      BY <2>1, <2>2
    <3>3. QED
      BY <3>1, <3>2, ReadsNothing
  <2>3. 0 + 1 \in Nat /\ 0 + 1 = 1
    OBVIOUS
  <2>4. QED
    BY <2>2, <2>3
<1>3. ASSUME NEW kinds PROVE Ended(kinds, 0) = {}
  BY EndedIn
<1>4. Last({}) = 0
  BY MaxIs DEF Last
<1>5. Origin(0) = 0
  BY <1>3 DEF Origin, Origins
<1>6. \A kinds : NumberOrZero(Last(Ended(kinds, 0))) = 0
  BY <1>3, <1>4 DEF NumberOrZero
<1>7. Scanned(0, NoNumber, 0, 0, 0)
  BY <1>2, <1>5, <1>6 DEF Scanned
<1>8. 0 < BangAt
  BY BangFirst DEF Taped
<1>9. QED
  BY <1>7, <1>8

(* An iteration of the loop that is not the '!' one: the '!' is still ahead.  *)
LEMMA LoopStep ==
  ASSUME IInv, ReadSoFar, NEW c, Read(c), c # BANG, UNCHANGED pc,
         (Taped /\ pos + 1 <= BangAt /\ Scanned(pos, num, obj.start, last_value, load_addr))
           => Scanned(pos + 1, num', obj'.start, last_value', load_addr')
  PROVE  ReadSoFar'
<1>1. /\ pc = "scan" /\ pc' = "scan" /\ pos \in Nat /\ pos' = pos + 1
      /\ c = Char(file[pos + 1]) /\ file' = file /\ fault' = fault
  BY ReadFacts
<1>2. ASSUME ~fault', Bangs' # {}
      PROVE  /\ pos' < BangAt'
             /\ Scanned(pos', num', obj'.start, last_value', load_addr')
  <2>1. Bangs' = Bangs /\ BangAt' = BangAt
    BY <1>1, TextStays
  <2>2. Taped
    BY <1>2, <2>1 DEF Taped, IInv, TypeOK
  <2>3. pos < BangAt /\ Scanned(pos, num, obj.start, last_value, load_addr)
    BY <1>1, <1>2, <2>1 DEF ReadSoFar
  <2>4. BangAt \in Nat /\ Char(file[BangAt]) = BANG
    BY <2>2, BangFirst DEF Taped
  <2>5. pos + 1 # BangAt
    BY <1>1, <2>4
  <2>6. pos + 1 < BangAt
    BY <1>1, <2>3, <2>4, <2>5
  <2>7. QED
    BY <1>1, <2>1, <2>2, <2>3, <2>4, <2>6
<1>3. (~fault' /\ Bangs' # {} /\ pc' = "scan") =>
        pos' < BangAt' /\ Scanned(pos, num, obj.start, last_value, load_addr)'
  <2>1. \A p, n, s, l, a : Scanned(p, n, s, l, a)' <=> Scanned(p, n, s, l, a)
    BY <1>1, TextStays
  <2>2. QED
    BY <1>2, <2>1
<1>4. QED
  BY <1>1, <1>3 DEF ReadSoFar, PreambleRead

LEMMA ScanReads == IInv /\ ReadSoFar /\ Scan => ReadSoFar'
<1> SUFFICES ASSUME IInv, ReadSoFar, Scan PROVE ReadSoFar'
  OBVIOUS
<1>1. TypeOK /\ pos \in Nat
  BY DEF IInv, TypeOK
<1>2. CASE ReadBang
  <2>1. Read(BANG) /\ pc' = "header" /\ UNCHANGED last_value
        /\ load_addr' = (IF num.len > 0 THEN Value(num) ELSE load_addr)
        /\ obj' = [obj EXCEPT !.boot = IF load_addr' = obj.start THEN last_value
                                       ELSE load_addr']
    BY <1>2 DEF ReadBang
  <2>2. /\ pc = "scan" /\ obj \in Object /\ pos' = pos + 1 /\ pos' <= Len(file)
        /\ BANG = Char(file[pos']) /\ file' = file /\ fault' = fault
    BY <2>1, ReadFacts
  <2>3. /\ obj'.start = obj.start
        /\ obj'.boot = IF load_addr' = obj.start THEN last_value ELSE load_addr'
    BY <2>1, <2>2 DEF Object
  <2>4. ASSUME ~fault', Bangs' # {}
        PROVE  pos' = BangAt' /\ obj'.start = StartAddress' /\ obj'.boot = BootAddress'
    <3>1. /\ Bangs' = Bangs /\ BangAt' = BangAt
          /\ StartAddress' = StartAddress /\ BootAddress' = BootAddress
      BY <2>2, TextStays
    <3>2. Taped
      BY <2>4, <3>1, <1>1 DEF Taped, TypeOK
    <3>3. pos < BangAt /\ Scanned(pos, num, obj.start, last_value, load_addr)
      BY <2>2, <2>4, <3>1 DEF ReadSoFar
    <3>4. BangAt \in Nat /\ \A i \in 1 .. BangAt - 1 : Char(file[i]) # BANG
      BY <3>2, BangFirst DEF Taped
    <3>5. pos + 1 = BangAt
      BY <1>1, <2>2, <3>3, <3>4
    <3>6. /\ obj.start = StartAddress
          /\ BootAddress = LET given == IF num.len > 0 THEN Value(num) ELSE load_addr
                           IN IF given = obj.start THEN last_value ELSE given
      BY <1>1, <3>2, <3>3, <3>5, ScannedBang
    <3>7. QED
      BY <2>1, <2>2, <2>3, <3>1, <3>5, <3>6
  <2>5. QED
    BY <2>1, <2>4 DEF ReadSoFar, PreambleRead
<1>3. CASE ReadSlash
  <2>1. Read(SLASH) /\ UNCHANGED pc /\ SLASH # BANG
    BY <1>3, CharClasses DEF ReadSlash
  <2>2. SLASH = Char(file[pos + 1]) /\ obj \in Object
    BY <2>1, ReadFacts
  <2>3. /\ num' = NoNumber
        /\ obj'.start = IF num.len > 0 THEN Value(num) ELSE obj.start
        /\ last_value' = IF num.len > 0 THEN Value(num) ELSE last_value
        /\ load_addr' = IF num.len > 0 /\ load_addr = 0 THEN Value(num) ELSE load_addr
    BY <1>3, <2>2 DEF ReadSlash, Object
  <2>4. ASSUME Taped, pos + 1 <= BangAt,
               Scanned(pos, num, obj.start, last_value, load_addr)
        PROVE  Scanned(pos + 1, num', obj'.start, last_value', load_addr')
    BY <1>1, <2>2, <2>3, <2>4, ScannedSlash
  <2>5. QED
    BY <2>1, <2>4, LoopStep
<1>4. CASE ReadDigit
  <2>1. PICK c \in Digits : Read(c) /\ num' = Push(num, c)
    BY <1>4 DEF ReadDigit
  <2>2. c # BANG /\ c \notin {SLASH, CR, BANG}
    BY <2>1, CharClasses
  <2>3. c = Char(file[pos + 1])
    BY <2>1, ReadFacts
  <2>4. UNCHANGED <<pc, load_addr, last_value, obj>>
    BY <1>4 DEF ReadDigit
  <2>5. ASSUME Taped, pos + 1 <= BangAt,
               Scanned(pos, num, obj.start, last_value, load_addr)
        PROVE  Scanned(pos + 1, num', obj'.start, last_value', load_addr')
    <3>1. pos + 1 \in Nat /\ 1 <= pos + 1 /\ pos + 1 + 1 = pos + 2
      BY <1>1
    <3>2. pos + 1 \notin Marks
      BY <2>2, <2>3, <2>5, <3>1, MarkIs
    <3>3. Reads(num, pos + 1) /\ num \in NumberType
      BY <1>1, <2>5 DEF Scanned, TypeOK
    <3>4. Reads(Push(num, c), pos + 1 + 1)
      BY <2>1, <2>3, <2>5, <3>1, <3>2, <3>3, ReadsDigit
    <3>5. Reads(num', pos + 2)
      BY <2>1, <3>1, <3>4
    <3>6. QED
      BY <1>1, <2>4, <2>5, <3>2, <3>5, ScannedOn
  <2>6. QED
    BY <2>1, <2>2, <2>4, <2>5, LoopStep
<1>5. CASE ReadReturn
  <2>1. Read(CR) /\ UNCHANGED <<pc, load_addr, obj>> /\ CR # BANG
    BY <1>5, CharClasses DEF ReadReturn
  <2>2. CR = Char(file[pos + 1])
    BY <2>1, ReadFacts
  <2>3. /\ num' = IF num.len > 0 THEN NoNumber ELSE num
        /\ last_value' = IF num.len > 0 THEN Value(num) ELSE last_value
    BY <1>5 DEF ReadReturn
  <2>4. ASSUME Taped, pos + 1 <= BangAt,
               Scanned(pos, num, obj.start, last_value, load_addr)
        PROVE  Scanned(pos + 1, num', obj'.start, last_value', load_addr')
    BY <1>1, <2>1, <2>2, <2>3, <2>4, ScannedReturn
  <2>5. QED
    BY <2>1, <2>4, LoopStep
<1>6. CASE ReadOther
  <2>1. PICK c \in (0 .. 127) \ (Digits \cup {BANG, SLASH, CR}) : Read(c)
    BY <1>6 DEF ReadOther
  <2>2. c = Char(file[pos + 1])
    BY <2>1, ReadFacts
  <2>3. UNCHANGED <<pc, num, load_addr, last_value, obj>>
    BY <1>6 DEF ReadOther
  <2>4. ASSUME Taped, pos + 1 <= BangAt,
               Scanned(pos, num, obj.start, last_value, load_addr)
        PROVE  Scanned(pos + 1, num', obj'.start, last_value', load_addr')
    <3>1. pos + 1 \in Nat /\ 1 <= pos + 1 /\ pos + 1 + 1 = pos + 2
      BY <1>1
    <3>2. pos + 1 \notin Marks /\ Char(file[pos + 1]) \notin Digits
      BY <2>1, <2>2, <2>4, <3>1, MarkIs
    <3>3. Reads(num, pos + 1)
      BY <2>4 DEF Scanned
    <3>4. Reads(num, pos + 1 + 1)
      BY <2>4, <3>1, <3>2, <3>3, ReadsOther
    <3>5. Reads(num', pos + 2)
      BY <2>3, <3>1, <3>4
    <3>6. QED
      BY <1>1, <2>3, <2>4, <3>2, <3>5, ScannedOn
  <2>5. c # BANG /\ pc' = pc
    BY <2>1, <2>3
  <2>6. QED
    BY <2>1, <2>4, <2>5, LoopStep
<1>7. CASE LeaveScan
  <2>1. pc = "scan" /\ pc' = "header" /\ file' = file
    BY <1>7 DEF LeaveScan
  <2>2. ASSUME ~fault', Bangs' # {} PROVE FALSE
    <3>1. ~fault /\ pos >= Len(file)
      BY <1>7, <2>2 DEF LeaveScan
    <3>2. Bangs # {}
      BY <2>1, <2>2, TextStays
    <3>3. pos < BangAt
      BY <2>1, <3>1, <3>2 DEF ReadSoFar
    <3>4. Taped
      BY <1>1, <3>2 DEF Taped, TypeOK
    <3>5. BangAt \in 1 .. Len(file) /\ Len(file) \in Nat
      BY <3>4, BangFirst DEF Taped
    <3>6. QED
      BY <1>1, <3>1, <3>3, <3>5
  <2>3. QED
    BY <2>1, <2>2 DEF ReadSoFar, PreambleRead
<1>8. QED
  BY <1>2, <1>3, <1>4, <1>5, <1>6, <1>7 DEF Scan

(* The header leaves the addresses as the preamble set them.                  *)
LEMMA FinishReads == IInv /\ ReadSoFar /\ Finish => ReadSoFar'
<1> SUFFICES ASSUME IInv, ReadSoFar, Finish PROVE ReadSoFar'
  OBVIOUS
<1>1. CASE HeaderFails
  BY <1>1 DEF HeaderFails, ReadSoFar, PreambleRead
<1>2. CASE DataHeader \/ FloMonHeader \/ NoDataHeader
  <2>1. pc = "header" /\ pc' = "open" /\ UNCHANGED <<file, pos>> /\ (~fault' => ~fault)
    <3>1. CASE DataHeader
      BY <3>1 DEF DataHeader, Deliver
    <3>2. CASE FloMonHeader
      BY <3>2 DEF FloMonHeader, EmptyHeader, Deliver
    <3>3. CASE NoDataHeader
      BY <3>3 DEF NoDataHeader, EmptyHeader, Deliver, IInv, TypeOK
    <3>4. QED
      BY <1>2, <3>1, <3>2, <3>3
  <2>2. obj \in Object
    BY <2>1 DEF IInv, TypeOK, Reading
  <2>3. bin_obj'.start = obj.start /\ bin_obj'.boot = obj.boot
    <3>1. CASE DataHeader
      BY <2>2, <3>1 DEF DataHeader, Deliver, Object
    <3>2. CASE FloMonHeader
      <4>1. bin_obj' = [obj EXCEPT !.is_flomon = TRUE] \/
            \E cnt : bin_obj' = [obj EXCEPT !.is_flomon = TRUE, !.word_count = cnt,
                                            !.load_addr = obj.start,
                                            !.data_offset = pos + 7,
                                            !.data_size = 4 * cnt]
        BY <3>2 DEF FloMonHeader, Deliver
      <4>2. QED
        BY <2>2, <4>1 DEF Object
    <3>3. CASE NoDataHeader
      BY <3>3 DEF NoDataHeader, Deliver
    <3>4. QED
      BY <1>2, <3>1, <3>2, <3>3
  <2>4. Bangs' = Bangs /\ BangAt' = BangAt
        /\ StartAddress' = StartAddress /\ BootAddress' = BootAddress
    BY <2>1, TextStays
  <2>5. QED
    BY <2>1, <2>3, <2>4 DEF ReadSoFar, PreambleRead
<1>3. QED
  BY <1>1, <1>2 DEF Finish

LEMMA LoadReads == IInv /\ ReadSoFar /\ Load => ReadSoFar'
<1> SUFFICES ASSUME IInv, ReadSoFar, Load PROVE ReadSoFar'
  OBVIOUS
<1>1. /\ pc = "checked" /\ pos = 0 /\ file' = file
      /\ UNCHANGED <<pos, num, load_addr, last_value>>
  BY DEF Load, IInv, AtRest
<1>2. pos' = 0 /\ num' = NoNumber /\ load_addr' = 0 /\ last_value' = 0
  BY <1>1 DEF ReadSoFar
<1>3. pc' = "failed" \/ (pc' = "scan" /\ obj'.start = 0)
  BY DEF Load
<1>4. ASSUME Bangs' # {}, pc' = "scan"
      PROVE  pos' < BangAt' /\ Scanned(pos, num, obj.start, last_value, load_addr)'
  <2>1. Bangs' = Bangs /\ BangAt' = BangAt
        /\ \A p, n, s, l, a : Scanned(p, n, s, l, a)' <=> Scanned(p, n, s, l, a)
    BY <1>1, TextStays
  <2>2. Taped
    BY <1>4, <2>1 DEF Taped, IInv, TypeOK
  <2>3. 0 < BangAt /\ Scanned(0, NoNumber, 0, 0, 0)
    BY <2>2, ScannedNone
  <2>4. Scanned(pos', num', obj'.start, last_value', load_addr')
    BY <1>2, <1>3, <1>4, <2>3
  <2>5. QED
    BY <1>2, <2>1, <2>3, <2>4
<1>5. QED
  BY <1>3, <1>4 DEF ReadSoFar, PreambleRead

LEMMA ReadsNext == IInv /\ ReadSoFar /\ [Next]_vars => ReadSoFar'
<1> SUFFICES ASSUME IInv, ReadSoFar, [Next]_vars PROVE ReadSoFar'
  OBVIOUS
<1>1. CASE Check
  BY <1>1 DEF Check, ReadSoFar, PreambleRead
<1>2. CASE Load
  BY <1>2, LoadReads
<1>3. CASE Skip \/ Destroy
  BY <1>3 DEF Skip, Destroy, Forget, ReadSoFar, PreambleRead
<1>4. CASE Scan
  BY <1>4, ScanReads
<1>5. CASE Finish
  BY <1>5, FinishReads
<1>6. CASE UNCHANGED vars
  <2>1. /\ file' = file /\ pc' = pc /\ num' = num /\ load_addr' = load_addr
        /\ last_value' = last_value /\ fault' = fault /\ pos' = pos /\ obj' = obj
        /\ bin_obj' = bin_obj
    BY <1>6 DEF vars
  <2>2. /\ Bangs' = Bangs /\ BangAt' = BangAt
        /\ StartAddress' = StartAddress /\ BootAddress' = BootAddress
        /\ \A p, n, s, l, a : Scanned(p, n, s, l, a)' <=> Scanned(p, n, s, l, a)
    BY <2>1, TextStays
  <2>3. Scanned(pos, num, obj.start, last_value, load_addr)'
          <=> Scanned(pos, num, obj.start, last_value, load_addr)
    BY <2>1, <2>2
  <2>4. QED
    BY <2>1, <2>2, <2>3 DEF ReadSoFar, PreambleRead
<1>7. QED
  BY <1>1, <1>2, <1>3, <1>4, <1>5, <1>6 DEF Next

(* bpun_parse (lines 56-97): for every file, wherever its '!' stands and       *)
(* however many numbers come before it, the loop that looks at one character   *)
(* at a time and stops at the first '!' leaves the start and the boot address  *)
(* that a reader of the whole preamble finds, and stands just after the '!'.   *)
THEOREM PreambleCorrect == Spec => []PreambleRead
<1>1. Init => ReadSoFar
  BY DEF Init, ReadSoFar, PreambleRead
<1>2. ReadSoFar => PreambleRead
  BY DEF ReadSoFar
<1>3. QED
  BY <1>1, <1>2, ReadsNext, Invariance, PTL DEF Spec
=============================================================================
