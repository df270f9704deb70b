----------------------------- MODULE BpunLoader -----------------------------
(***************************************************************************)
(* The BPUN bootstrap loader, src/rz_bin_bpun.c, driven by its host: the   *)
(* host offers a file to check_buffer, calls load_buffer, asks for the     *)
(* views (entries, maps, sections) and calls destroy.                      *)
(*                                                                         *)
(* A file is a sequence of bytes; offset p of the code is index p + 1 of   *)
(* the sequence.  bpun_parse is one step per byte of the preamble and one  *)
(* for the binary header, so that a read that fails can fall between any   *)
(* two of them.  The digit buffer tmpstr is kept as its length and the     *)
(* value strtol would return for it.                                       *)
(***************************************************************************)
EXTENDS BpunTape, FiniteSets

CONSTANTS
  Files,        \* the files the host may offer
  MaxDigits,    \* digits tmpstr holds; further ones are dropped (50 in the code)
  LongMax,      \* LONG_MAX, where strtol saturates
  Ut64,         \* 2^64, the modulus of a ut64
  CheckWindow,  \* bytes check_buffer looks at (256 in the code)
  Faults,       \* TRUE when reads and allocations may fail
  Uninit,       \* values an unwritten byte of the stack may have
  NULL          \* the null pointer

ASSUME FilesAssumption == Files \subseteq Seq(0 .. 255)
ASSUME DigitsAssumption == MaxDigits \in Nat \ {0}
ASSUME LongAssumption == LongMax \in Nat /\ LongMax >= 7
ASSUME Ut64Assumption ==
  Ut64 \in Nat /\ \A f \in Files \cup {<<>>} : Len(f) + 8 * 65536 < Ut64
ASSUME WindowAssumption == CheckWindow \in Nat
ASSUME FaultsAssumption == Faults \in BOOLEAN /\ Uninit \subseteq 0 .. 255

WordMod == 65536   \* 2^16: the uint16_t casts
Word == 0 .. WordMod - 1

Object == [start : Word, boot : Word, load_addr : Word, word_count : Word,
           is_flomon : BOOLEAN, data_offset : Nat, data_size : Nat]

ASSUME NullAssumption == NULL \notin Object

VARIABLES
  pc,          \* "idle", "checked", "scan", "header", "open" or "failed"
  file,        \* the buffer being loaded
  accepted,    \* what check_buffer said of it
  pos,         \* read position of bpun_parse
  num,         \* tmpstr: [len, val, octal]; octal is FALSE once strtol has stopped
  load_addr,   \* load_addr, the local of bpun_parse
  last_value,  \* last_value
  obj,         \* the object under construction, or NULL
  bin_obj,     \* bf->o->bin_obj
  live,        \* heap blocks allocated and not freed
  fault        \* has a read or an allocation failed since the file was offered?

vars == <<pc, file, accepted, pos, num, load_addr, last_value, obj, bin_obj,
          live, fault>>

-----------------------------------------------------------------------------
At(p) == file[p + 1]
Be16(p) == 256 * At(p) + At(p + 1)
MayFail == IF Faults THEN BOOLEAN ELSE {FALSE}

NoNumber == [len |-> 0, val |-> 0, octal |-> TRUE]

\* Mutant: the bound of tmpstr off by one.
FullLate(n) == n.len > MaxDigits

Full(n) == n.len >= MaxDigits            \* tmpstr takes no further digit

\* tmpstr[tmppos++] = c, and what strtol(tmpstr, NULL, 8) becomes: it stops at
\* an 8 or a 9 and saturates at LONG_MAX.
Push(n, c) ==
  IF Full(n) THEN n
  ELSE LET more == n.octal /\ c \in OctalDigits
           next == 8 * n.val + (c - 48)
       IN [len |-> n.len + 1,
           val |-> IF ~more THEN n.val
                   ELSE IF next > LongMax THEN LongMax ELSE next,
           octal |-> more]

Value(n) == n.val % WordMod              \* (uint16_t)strtol(...)

-----------------------------------------------------------------------------
Init ==
  /\ pc = "idle" /\ file = <<>> /\ accepted = FALSE /\ pos = 0
  /\ num = NoNumber /\ load_addr = 0 /\ last_value = 0
  /\ obj = NULL /\ bin_obj = NULL /\ live = 0 /\ fault = FALSE

\* The host offers a file: check_buffer reads its first bytes (none, if that
\* fails).
Check ==
  /\ pc = "idle"
  /\ \E f \in Files, fails \in MayFail :
       LET window == IF Len(f) < CheckWindow THEN Len(f) ELSE CheckWindow
       IN /\ file' = f
          /\ accepted' = CheckBuffer(f, IF fails THEN 0 ELSE window)
          /\ fault' = fails
  /\ pc' = "checked"
  /\ UNCHANGED <<pos, num, load_addr, last_value, obj, bin_obj, live>>

\* The host calls load_buffer: on a file check_buffer accepted, or because the
\* user named the plugin.  bpun_parse refuses a short file, then allocates.
Load ==
  /\ pc = "checked"
  /\ \E fails \in MayFail :
       LET refused == Len(file) < 8 \/ fails IN
       /\ fault' = (fault \/ (fails /\ Len(file) >= 8))
       /\ pc' = IF refused THEN "failed" ELSE "scan"
       /\ obj' = IF refused THEN NULL
                 ELSE [start |-> 0, boot |-> 0, load_addr |-> 0,
                       word_count |-> 0, is_flomon |-> FALSE,
                       data_offset |-> 0, data_size |-> 0]
       /\ live' = IF refused THEN live ELSE live + 1
  /\ UNCHANGED <<file, accepted, pos, num, load_addr, last_value, bin_obj>>

\* The host is done with the file.  The locals of the calls made for it, kept
\* until now for the properties to look at, are gone with them.
Forget ==
  /\ pc' = "idle" /\ file' = <<>> /\ accepted' = FALSE /\ fault' = FALSE
  /\ pos' = 0 /\ num' = NoNumber /\ load_addr' = 0 /\ last_value' = 0

\* The host turns to another plugin when check_buffer said no.
Skip ==
  /\ pc = "checked" /\ ~accepted
  /\ Forget
  /\ UNCHANGED <<obj, bin_obj, live>>

-----------------------------------------------------------------------------
\* Mutant: the position is kept in a byte.
ReadInByte(c) ==
  /\ pc = "scan" /\ pos < Len(file)
  /\ c = Char(At(pos))
  /\ pos' = (pos + 1) % 256
  /\ UNCHANGED <<file, accepted, bin_obj, live, fault>>

\* One iteration of the preamble loop whose read returned the character c.
Read(c) ==
  /\ pc = "scan" /\ pos < Len(file)
  /\ c = Char(At(pos))
  /\ pos' = pos + 1
  /\ UNCHANGED <<file, accepted, bin_obj, live, fault>>

\* '!' ends the preamble.  A load_addr equal to the start address counts as
\* "none given", and the last number read becomes the boot address.
ReadBang ==
  /\ Read(BANG)
  /\ load_addr' = IF num.len > 0 THEN Value(num) ELSE load_addr
  /\ obj' = [obj EXCEPT !.boot =
               IF load_addr' = obj.start THEN last_value ELSE load_addr']
  /\ pc' = "header"
  /\ UNCHANGED <<num, last_value>>

\* '/' sets the location counter, which is the start address.
ReadSlash ==
  /\ Read(SLASH)
  /\ IF num.len > 0
     THEN /\ last_value' = Value(num)
          /\ obj' = [obj EXCEPT !.start = Value(num)]
          /\ load_addr' = IF load_addr = 0 THEN Value(num) ELSE load_addr
     ELSE UNCHANGED <<last_value, obj, load_addr>>
  /\ num' = NoNumber
  /\ UNCHANGED pc

ReadDigit ==
  /\ \E c \in Digits : Read(c) /\ num' = Push(num, c)
  /\ UNCHANGED <<pc, load_addr, last_value, obj>>

\* Mutant: the CR branch forgets to reset tmppos.
ReadReturnKeepsDigits ==
  /\ Read(CR)
  /\ last_value' = IF num.len > 0 THEN Value(num) ELSE last_value
  /\ UNCHANGED <<pc, num, load_addr, obj>>

ReadReturn ==
  /\ Read(CR)
  /\ last_value' = IF num.len > 0 THEN Value(num) ELSE last_value
  /\ num' = IF num.len > 0 THEN NoNumber ELSE num
  /\ UNCHANGED <<pc, load_addr, obj>>

\* Every other character is passed over and does not end a number.
ReadOther ==
  /\ \E c \in (0 .. 127) \ (Digits \cup {BANG, SLASH, CR}) : Read(c)
  /\ UNCHANGED <<pc, num, load_addr, last_value, obj>>

\* The loop ends at the end of the file or at a read that fails.
LeaveScan ==
  /\ pc = "scan"
  /\ \/ pos >= Len(file) /\ UNCHANGED fault
     \/ pos < Len(file) /\ Faults /\ fault' = TRUE
  /\ pc' = "header"
  /\ UNCHANGED <<file, accepted, pos, num, load_addr, last_value, obj, bin_obj, live>>

-----------------------------------------------------------------------------
\* Mutant: off by one at the end of the file.
HeaderFitsInside == pos + 4 < Len(file)

HeaderFits == pos + 4 <= Len(file)

\* Mutant: the early return forgets to free the object.
HeaderFailsLeaks ==
  /\ pc = "header"
  /\ \/ ~HeaderFits /\ UNCHANGED fault
     \/ HeaderFits /\ Faults /\ fault' = TRUE
  /\ pc' = "failed" /\ obj' = NULL
  /\ UNCHANGED <<file, accepted, pos, num, load_addr, last_value, bin_obj, live>>

\* The header does not fit, or cannot be read: the object is freed.
HeaderFails ==
  /\ pc = "header"
  /\ \/ ~HeaderFits /\ UNCHANGED fault
     \/ HeaderFits /\ Faults /\ fault' = TRUE
  /\ pc' = "failed" /\ obj' = NULL /\ live' = live - 1
  /\ UNCHANGED <<file, accepted, pos, num, load_addr, last_value, bin_obj>>

\* bpun_parse returns o, and bpun_load_buffer hands it to the host.
Deliver(o) ==
  /\ bin_obj' = o /\ obj' = NULL
  /\ pc' = "open"
  /\ UNCHANGED <<file, accepted, pos, num, load_addr, last_value, live>>

\* Mutant: the data is taken to begin at the count.
DataHeaderAtCount ==
  /\ pc = "header" /\ HeaderFits
  /\ Be16(pos) # 0 \/ Be16(pos + 2) # 0
  /\ Deliver([obj EXCEPT !.load_addr = Be16(pos), !.word_count = Be16(pos + 2),
                         !.data_offset = pos + 2,
                         !.data_size = 2 * Be16(pos + 2)])
  /\ UNCHANGED fault

\* address(2), count(2), data: an ordinary section.
DataHeader ==
  /\ pc = "header" /\ HeaderFits
  /\ Be16(pos) # 0 \/ Be16(pos + 2) # 0
  /\ Deliver([obj EXCEPT !.load_addr = Be16(pos), !.word_count = Be16(pos + 2),
                         !.data_offset = pos + 4,
                         !.data_size = 2 * Be16(pos + 2)])
  /\ UNCHANGED fault

EmptyHeader ==
  /\ pc = "header" /\ HeaderFits
  /\ Be16(pos) = 0 /\ Be16(pos + 2) = 0

\* Address and count zero and a zero checksum: FloMon, with its count byte when
\* the file has one.  Neither read is checked: a failing one leaves the bytes
\* of ck and cnt as the stack had them.
FloMonHeader ==
  /\ EmptyHeader /\ pos + 6 <= Len(file)
  /\ \E ckFails, cntFails \in MayFail :
       /\ ~cntFails \/ pos + 7 <= Len(file)
       /\ IF ckFails THEN 0 \in Uninit ELSE Be16(pos + 4) = 0
       /\ fault' = (fault \/ ckFails \/ cntFails)
       /\ IF pos + 7 <= Len(file)
          THEN \E cnt \in IF cntFails THEN Uninit ELSE {At(pos + 6)} :
                 Deliver([obj EXCEPT !.is_flomon = TRUE, !.word_count = cnt,
                                     !.load_addr = obj.start,
                                     !.data_offset = pos + 7,
                                     !.data_size = 4 * cnt])
          ELSE Deliver([obj EXCEPT !.is_flomon = TRUE])

\* Address and count zero, but no zero checksum after them: an object with no
\* data, whose data_offset stays 0.
NoDataHeader ==
  /\ EmptyHeader
  /\ \/ pos + 6 > Len(file) /\ UNCHANGED fault
     \/ pos + 6 <= Len(file) /\ Be16(pos + 4) # 0 /\ UNCHANGED fault
     \/ pos + 6 <= Len(file) /\ Faults /\ Uninit \ {0} # {} /\ fault' = TRUE
  /\ Deliver(obj)

-----------------------------------------------------------------------------
\* Mutant: destroy frees the object and leaves the host's pointer to it.
DestroyKeepsPointer ==
  /\ pc \in {"open", "failed"}
  /\ live' = IF bin_obj # NULL THEN live - 1 ELSE live
  /\ Forget
  /\ UNCHANGED <<obj, bin_obj>>

\* The host closes the file: bpun_destroy.
Destroy ==
  /\ pc \in {"open", "failed"}
  /\ live' = IF bin_obj # NULL THEN live - 1 ELSE live
  /\ bin_obj' = NULL
  /\ Forget
  /\ UNCHANGED obj

Scan == \/ ReadBang \/ ReadSlash \/ ReadDigit \/ ReadReturn \/ ReadOther
        \/ LeaveScan

Finish == HeaderFails \/ DataHeader \/ FloMonHeader \/ NoDataHeader

Next ==
  \/ Check \/ Load \/ Skip
  \/ Scan \/ Finish
  \/ Destroy

Spec == Init /\ [][Next]_vars

\* bpun_parse is one call on the host's thread: once entered it runs to its
\* return.  The host may stop anywhere else.
FairSpec == Spec /\ WF_vars(Scan \/ Finish)

-----------------------------------------------------------------------------
\* The views the host asks for; all are NULL without an object.  A view whose
\* own allocation fails is NULL too and changes nothing.
Baddr == IF bin_obj = NULL THEN 0 ELSE 2 * bin_obj.load_addr

\* Mutant: the difference of the word addresses computed in 16 bits.
EntryIn16Bits ==
  IF bin_obj = NULL THEN NULL
  ELSE [vaddr |-> 2 * bin_obj.boot,
        paddr |-> bin_obj.data_offset
                  + 2 * ((bin_obj.boot - bin_obj.load_addr) % WordMod)]

Entry ==
  IF bin_obj = NULL THEN NULL
  ELSE [vaddr |-> 2 * bin_obj.boot,
        paddr |-> (bin_obj.data_offset
                   + ((2 * ((bin_obj.boot - bin_obj.load_addr) % Ut64)) % Ut64))
                  % Ut64]

\* bpun_maps and bpun_sections describe the same one range.
Map ==
  IF bin_obj = NULL THEN NULL
  ELSE [paddr |-> bin_obj.data_offset, psize |-> bin_obj.data_size,
        vaddr |-> 2 * bin_obj.load_addr, vsize |-> bin_obj.data_size]
=============================================================================
