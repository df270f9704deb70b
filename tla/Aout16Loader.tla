---------------------------- MODULE Aout16Loader ----------------------------
(***************************************************************************)
(* The a.out16 loader, src/rz_bin_aout16.c, driven by its host.            *)
(*                                                                         *)
(* Everything the loader reads sits at an even offset, so a file is a      *)
(* sequence of 16-bit words: the word at byte offset o is element          *)
(* o \div 2 + 1.  What the string table spells from an index on is kept     *)
(* beside the words, a function from string index to name.                 *)
(***************************************************************************)
EXTENDS Integers, Sequences, FiniteSets

CONSTANTS
  Files,      \* the files the host may offer: [words, names]
  Names,      \* the names a string table may hold; "" is the empty one
  MainNames,  \* _main, main and _main_
  Ut64,       \* 2^64, the modulus of a ut64
  Faults,     \* TRUE when reads and allocations may fail
  Patches,    \* words the user may write into the open file's buffer
  NULL

WordMod == 65536
Word == 0 .. WordMod - 1

ASSUME FilesAssumption ==
  \A f \in Files : /\ f.words \in Seq(Word)
                  /\ f.names \in [0 .. 2 * Len(f.words) - 1 -> Names]
ASSUME Ut64Assumption == Ut64 \in Nat /\ Ut64 > 16 * 65536
ASSUME FaultsAssumption == Faults \in BOOLEAN /\ Patches \subseteq Word
ASSUME NamesAssumption ==
  "" \in Names /\ MainNames \subseteq Names \ {""} /\ NULL \notin Names

MAGIC == 263       \* 0407
HDRSZ == 16
N_UNDF == 0   N_ABS == 1   N_TEXT == 2   N_DATA == 3   N_BSS == 4
REL_ZP == 2   REL_TEXT == 4   REL_DATA == 6   REL_BSS == 8   REL_ABS == 10
REL_UNDEXT == 12   REL_BPTR == 14

Header == {"magic", "text", "data", "bss", "syms", "entry", "zp", "flag"}
\* Byte offset of each header word.
FieldAt == [magic |-> 0, text |-> 2, data |-> 4, bss |-> 6, syms |-> 8,
            entry |-> 10, zp |-> 12, flag |-> 14]

\* struct aout16_obj and its symbols; strtab as a function from index to name.
Symbol == [strx : Nat, type : Word, value : Word]
Tables == {f.names : f \in Files}
          \cup {[n \in DOMAIN f.names |-> junk] : f \in Files, junk \in Names}
Object == [h : [Header -> Word], off_text : Nat, off_data : Nat, nsyms : Nat,
           syms : Seq(Symbol) \cup {NULL}, strtab : Tables \cup {NULL},
           strtab_size : Nat]

ASSUME NullAssumption == NULL \notin Object /\ NULL \notin Seq(Symbol)

VARIABLES
  pc,       \* "idle", "checked", "layout", "syms", "strings", "open", "failed"
  file,     \* the buffer
  accepted, \* what check_buffer said of it
  obj,      \* the object aout16_parse is building, or NULL
  bin_obj,  \* bf->o->bin_obj
  heap,     \* the heap blocks the plugin owns
  fault     \* has a read or an allocation failed, or the buffer been written to?

vars == <<pc, file, accepted, obj, bin_obj, heap, fault>>

-----------------------------------------------------------------------------
NoFile == [words |-> <<>>, names |-> <<>>]
Size == 2 * Len(file.words)
MayFail == IF Faults THEN BOOLEAN ELSE {FALSE}
Failing(S) == IF Faults THEN SUBSET S ELSE {{}}

\* read_le16 and read_le32: zero when the file is too short.
Le16(off) == IF off + 2 <= Size THEN file.words[off \div 2 + 1] ELSE 0
Le32(off) == IF off + 4 <= Size THEN Le16(off) + WordMod * Le16(off + 2) ELSE 0

\* The segment offsets of aout16_parse.
OffText(h) == HDRSZ + 2 * h.zp
OffData(h) == OffText(h) + 2 * h.text
\* Mutant: the relocation words of the zero page are forgotten.
OffSymsNoZp(h) == OffData(h) + 2 * h.data
                  + (IF h.flag # 0 THEN 0 ELSE 2 * h.text + 2 * h.data)
OffSyms(h) == OffData(h) + 2 * h.data
              + (IF h.flag # 0 THEN 0 ELSE 2 * h.zp + 2 * h.text + 2 * h.data)
OffStr(h) == OffSyms(h) + 2 * h.syms

Init ==
  /\ pc = "idle" /\ file = NoFile /\ accepted = FALSE
  /\ obj = NULL /\ bin_obj = NULL /\ heap = {} /\ fault = FALSE

\* The host offers a file: aout16_check_buffer compares its first word.
Check ==
  /\ pc = "idle"
  /\ \E f \in Files, fails \in MayFail :
       /\ file' = f
       /\ accepted' = (~fails /\ f.words # <<>> /\ f.words[1] = MAGIC)
       /\ fault' = fails
  /\ pc' = "checked"
  /\ UNCHANGED <<obj, bin_obj, heap>>

\* The host is done with the file.
Forget == pc' = "idle" /\ file' = NoFile /\ accepted' = FALSE /\ fault' = FALSE

Skip ==
  /\ pc = "checked" /\ ~accepted
  /\ Forget
  /\ UNCHANGED <<obj, bin_obj, heap>>

\* Mutant: a file that ends with its header is refused.
LoadRefusedAtHeader ==
  /\ pc = "checked"
  /\ \/ Size <= HDRSZ /\ UNCHANGED fault
     \/ Size >= HDRSZ /\ Faults /\ fault' = TRUE
  /\ pc' = "failed"
  /\ UNCHANGED <<file, accepted, obj, bin_obj, heap>>

\* aout16_load_buffer on a file too short for a header, or without memory.
LoadRefused ==
  /\ pc = "checked"
  /\ \/ Size < HDRSZ /\ UNCHANGED fault
     \/ Size >= HDRSZ /\ Faults /\ fault' = TRUE
  /\ pc' = "failed"
  /\ UNCHANGED <<file, accepted, obj, bin_obj, heap>>

\* The eight header words; a read that fails yields zero.
ReadHeader ==
  /\ pc = "checked" /\ Size >= HDRSZ
  /\ \E bad \in Failing(Header) :
       LET h == [n \in Header |-> IF n \in bad THEN 0 ELSE Le16(FieldAt[n])] IN
       /\ obj' = [h |-> h, off_text |-> OffText(h), off_data |-> OffData(h),
                  nsyms |-> h.syms \div 4, syms |-> NULL,
                  strtab |-> NULL, strtab_size |-> 0]
       /\ fault' = (fault \/ bad # {})
  /\ heap' = heap \cup {"obj"}
  /\ pc' = "layout"
  /\ UNCHANGED <<file, accepted, bin_obj>>

\* Mutant: a wrong magic returns without freeing the object.
BadMagicLeaks ==
  /\ pc = "layout" /\ obj.h.magic # MAGIC
  /\ obj' = NULL
  /\ pc' = "failed"
  /\ UNCHANGED <<file, accepted, bin_obj, heap, fault>>

BadMagic ==
  /\ pc = "layout" /\ obj.h.magic # MAGIC
  /\ obj' = NULL /\ heap' = heap \ {"obj"}
  /\ pc' = "failed"
  /\ UNCHANGED <<file, accepted, bin_obj, fault>>

\* aout16_parse returns o to load_buffer, which hands it to the host.
Deliver(o) ==
  /\ bin_obj' = o /\ obj' = NULL
  /\ pc' = "open"
  /\ UNCHANGED <<file, accepted>>

\* No symbols, or a table that does not fit in the file: nothing more is read.
HasSymbols == obj.nsyms > 0 /\ OffStr(obj.h) <= Size

NoSymbols ==
  /\ pc = "layout" /\ obj.h.magic = MAGIC
  /\ ~HasSymbols
  /\ Deliver(obj)
  /\ UNCHANGED <<heap, fault>>

\* The symbol array, when there is memory for it; then one step per symbol.
AllocSymbols ==
  /\ pc = "layout" /\ obj.h.magic = MAGIC /\ HasSymbols
  /\ \E fails \in MayFail :
       /\ obj' = [obj EXCEPT !.syms = IF fails THEN NULL ELSE <<>>]
       /\ heap' = IF fails THEN heap ELSE heap \cup {"syms"}
       /\ pc' = IF fails THEN "strings" ELSE "syms"
       /\ fault' = (fault \/ fails)
  /\ UNCHANGED <<file, accepted, bin_obj>>

\* Mutant: the loop counter is not advanced.
ReadSymbolAgain ==
  /\ pc = "syms" /\ Len(obj.syms) < obj.nsyms
  /\ UNCHANGED vars

ReadSymbol ==
  /\ pc = "syms" /\ Len(obj.syms) < obj.nsyms
  /\ \E bad \in Failing({"strx", "type", "value"}) :
       LET off == OffSyms(obj.h) + 8 * Len(obj.syms)
           Or0(n, v) == IF n \in bad THEN 0 ELSE v
       IN /\ obj' = [obj EXCEPT !.syms = Append(@,
                       [strx |-> Or0("strx", Le32(off)),
                        type |-> Or0("type", Le16(off + 4)),
                        value |-> Or0("value", Le16(off + 6))])]
          /\ fault' = (fault \/ bad # {})
  /\ UNCHANGED <<pc, file, accepted, bin_obj, heap>>

\* Mutant: the loop ends one symbol early.
SymbolsReadEarly ==
  /\ pc = "syms" /\ Len(obj.syms) = obj.nsyms - 1
  /\ pc' = "strings"
  /\ UNCHANGED <<file, accepted, obj, bin_obj, heap, fault>>

SymbolsRead ==
  /\ pc = "syms" /\ Len(obj.syms) = obj.nsyms
  /\ pc' = "strings"
  /\ UNCHANGED <<file, accepted, obj, bin_obj, heap, fault>>

\* The string table: its size counts the four bytes that hold it.  The size is
\* kept even when the table itself is not; a failing read leaves the bytes of
\* the fresh block, which spell anything.
ReadStrings ==
  /\ pc = "strings"
  /\ \E bad \in Failing({"size", "malloc", "read"}), junk \in Names :
       LET off == OffStr(obj.h)
           size == IF "size" \in bad THEN 0 ELSE Le32(off)
           fits == size >= 4 /\ off + size <= Size
           table == IF ~fits \/ "malloc" \in bad THEN NULL
                    ELSE IF "read" \in bad THEN [n \in DOMAIN file.names |-> junk]
                    ELSE file.names
       IN /\ "read" \in bad \/ junk = ""
          /\ Deliver([obj EXCEPT !.strtab_size = size, !.strtab = table])
          /\ heap' = IF table = NULL THEN heap ELSE heap \cup {"strtab"}
          /\ fault' = (fault \/ bad # {})

\* Mutant: destroy does not free the string table.
DestroyKeepsStrings ==
  /\ pc \in {"open", "failed"}
  /\ heap' = IF bin_obj = NULL THEN heap ELSE heap \ {"syms", "obj"}
  /\ bin_obj' = NULL
  /\ Forget
  /\ UNCHANGED obj

\* The host closes the file: aout16_destroy.
Destroy ==
  /\ pc \in {"open", "failed"}
  /\ heap' = IF bin_obj = NULL THEN heap ELSE heap \ {"syms", "strtab", "obj"}
  /\ bin_obj' = NULL
  /\ Forget
  /\ UNCHANGED obj

\* The user writes a word into the buffer of the open file.  Bound: once, and
\* only when nothing has failed.
Patch ==
  /\ pc = "open" /\ ~fault
  /\ \E k \in 1 .. Len(file.words), w \in Patches :
       file' = [file EXCEPT !.words[k] = w]
  /\ fault' = TRUE
  /\ UNCHANGED <<pc, accepted, obj, bin_obj, heap>>

Parse == \/ BadMagic \/ NoSymbols \/ AllocSymbols \/ ReadSymbol \/ SymbolsRead
         \/ ReadStrings

Next == \/ Check \/ Skip
        \/ LoadRefused \/ ReadHeader \/ Parse
        \/ Patch \/ Destroy

Spec == Init /\ [][Next]_vars

\* aout16_parse is one call on the host's thread and runs to its return.
FairSpec == Spec /\ WF_vars(Parse)
=============================================================================
