------------------------------ MODULE BpunProps ------------------------------
(***************************************************************************)
(* What the BPUN loader must get right.  The preamble is read a second     *)
(* time here, from the whole text at once, to say what the byte-by-byte    *)
(* loop of bpun_parse has to find.                                         *)
(***************************************************************************)
EXTENDS BpunLoader, FiniteSetsExt

Opened == pc = "open"
Reading == pc \in {"scan", "header"}
Last(S) == Max(S \cup {0})

-----------------------------------------------------------------------------
\* The preamble as a text: everything before the first '!'.
Bangs == {i \in 1 .. Len(file) : Char(file[i]) = BANG}
BangAt == Min(Bangs)
Marks == {i \in 1 .. BangAt : Char(file[i]) \in {SLASH, CR, BANG}}

\* The digits of the number that the mark at i ends: those since the mark before it.
Since(i) == Last({j \in Marks : j < i}) + 1
Places(i) == {j \in Since(i) .. i - 1 : Char(file[j]) \in Digits}

\* As many of them as tmpstr holds, and the octal ones up to the first 8 or 9.
Kept(i) == {j \in Places(i) : Cardinality({k \in Places(i) : k <= j}) <= MaxDigits}
NumberAt(i) == {j \in Kept(i) : \A k \in Kept(i) : k <= j => Char(file[k]) \in OctalDigits}

HasNumber(i) ==
  \E j \in 1 .. i - 1 : /\ Char(file[j]) \in Digits
                        /\ \A k \in j .. i - 1 : k \notin Marks

\* What the digits at the given places among the first n characters of a text are
\* worth, each eight times as much as the next.
PowerOf8[n \in Nat] == IF n = 0 THEN 1 ELSE 8 * PowerOf8[n - 1]
Worth(text, places, i) ==
  IF i \in places
  THEN (Char(text[i]) - 48) * PowerOf8[Cardinality({k \in places : k > i})]
  ELSE 0
OctalValue(text, places, n) ==
  LET sum[i \in Nat] == IF i = 0 THEN 0 ELSE sum[i - 1] + Worth(text, places, i)
  IN sum[n]

Saturated(n) == IF n > LongMax THEN LongMax ELSE n
ValueAt(i) == Saturated(OctalValue(file, NumberAt(i), i - 1)) % WordMod

NumbersAt(kinds) == {i \in Marks : Char(file[i]) \in kinds /\ HasNumber(i)}
NumberOrZero(i) == IF i = 0 THEN 0 ELSE ValueAt(i)

\* The number before the last '/' is the start address.  The number before the
\* '!' is the boot address or, without one, the first non-zero address; when
\* that is the start address, the last number before the '!' is.
StartAddress == NumberOrZero(Last(NumbersAt({SLASH})))
LastNumber == NumberOrZero(Last(NumbersAt({SLASH, CR})))
BootAddress ==
  LET origins == {i \in NumbersAt({SLASH}) : ValueAt(i) # 0}
      given == IF HasNumber(BangAt) THEN ValueAt(BangAt)
               ELSE IF origins = {} THEN 0 ELSE ValueAt(Min(origins))
  IN IF given = StartAddress THEN LastNumber ELSE given

-----------------------------------------------------------------------------
NumberType == [len : 0 .. MaxDigits, val : 0 .. LongMax, octal : BOOLEAN]

(* Types, and what the control state says of the object: one is under        *)
(* construction exactly while bpun_parse runs, and the host has one exactly   *)
(* while the file is open.                                                    *)
TypeOK ==
  /\ pc \in {"idle", "checked", "scan", "header", "open", "failed"}
  /\ file \in Seq(0 .. 255) /\ Len(file) + 8 * WordMod < Ut64
  /\ accepted \in BOOLEAN
  /\ pos \in Nat
  /\ num \in NumberType
  /\ load_addr \in Word /\ last_value \in Word
  /\ obj \in Object \cup {NULL}
  /\ bin_obj \in Object \cup {NULL}
  /\ (obj # NULL) <=> Reading
  /\ (bin_obj # NULL) <=> Opened
  /\ live \in Nat /\ fault \in BOOLEAN

(* bpun_parse (lines 56-97): the loop finds the start and the boot address a  *)
(* reader of the whole preamble finds, and stops just after the '!'.          *)
PreambleRead ==
  (pc \in {"header", "open"} /\ ~fault /\ Bangs # {}) =>
    LET o == IF pc = "open" THEN bin_obj ELSE obj IN
    /\ pos = BangAt
    /\ o.start = StartAddress
    /\ o.boot = BootAddress

(* bpun_parse's return value (45-53, 100-108): when nothing fails around it,  *)
(* a file loads exactly if it has 8 bytes, a '!' and 4 bytes after that.      *)
LoadOutcome ==
  (pc \in {"open", "failed"} /\ ~fault) =>
    (Opened <=> Len(file) >= 8 /\ Bangs # {} /\ BangAt + 4 <= Len(file))

(* bpun_maps (272-275) over bpun_parse (99-136): a map that has bytes begins  *)
(* inside the file and past every byte read as preamble or header, whichever  *)
(* reads failed; when none did, that is past the first '!'.                   *)
MapAfterHeader ==
  (Opened /\ Map.psize > 0) =>
    /\ pos + 4 <= Map.paddr /\ Map.paddr <= Len(file)
    /\ ~fault => Bangs # {} /\ BangAt + 4 <= Map.paddr

(* bpun_entries (240-241) against bpun_maps: the unsigned 64-bit arithmetic   *)
(* that follows a negative boot - load_addr cancels, so that entry and map    *)
(* shift addresses by the same amount; an entry at a word of an ordinary      *)
(* section is the file position of that word. The map is at the base address. *)
EntryFollowsMap ==
  Opened =>
    /\ Map.vaddr = Baddr
    /\ (Entry.paddr + Map.vaddr) % Ut64 = (Map.paddr + Entry.vaddr) % Ut64
    /\ (/\ ~bin_obj.is_flomon
        /\ bin_obj.boot \in bin_obj.load_addr ..
                            bin_obj.load_addr + bin_obj.word_count - 1)
       => /\ Entry.paddr - Map.paddr = Entry.vaddr - Map.vaddr
          /\ Entry.paddr + 1 < Map.paddr + Map.psize

(* bpun_parse and bpun_destroy: the plugin owns one heap block while it       *)
(* parses and while the file is open, and none otherwise, on every failing    *)
(* path (lines 100-108) and after destroy.                                    *)
NoLeak == live = IF Reading \/ Opened THEN 1 ELSE 0

(* The promise every loader makes to the host.                                *)
Plugin == INSTANCE BinPlugin WITH
  phase <- CASE pc \in {"idle", "checked"} -> "closed"
             [] pc \in {"scan", "header"} -> "loading"
             [] OTHER -> pc,
  object <- bin_obj, NoObject <- NULL

(* bpun_load_buffer and bpun_destroy implement BinPlugin: a failed load keeps *)
(* nothing, the object does not change while open, destroy returns it.        *)
ImplementsPlugin == Plugin!Spec

(* bpun_parse returns, whatever the file and whichever reads fail.            *)
LoadReturns == Reading ~> (pc \in {"open", "failed"})

-----------------------------------------------------------------------------
(* What the file's own comments and the README say and the code does not do.  *)

(* rz_bin_bpun.c:12 and :129, "4 bytes per word": the word at the boot        *)
(* address of a FloMon file is 4 bytes per word into the data.                *)
FloMonEntryAtItsWord ==
  (/\ Opened /\ bin_obj.is_flomon
   /\ bin_obj.boot \in bin_obj.load_addr ..
                       bin_obj.load_addr + bin_obj.word_count - 1)
  => Entry.paddr = bin_obj.data_offset + 4 * (bin_obj.boot - bin_obj.load_addr)
==============================================================================
