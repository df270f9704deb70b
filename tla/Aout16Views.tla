----------------------------- MODULE Aout16Views -----------------------------
(***************************************************************************)
(* What the a.out16 loader tells its host about an open file: each view of *)
(* src/rz_bin_aout16.c as an operator of the object and, for relocations,  *)
(* of the buffer, which aout16_relocs reads again when it is asked.        *)
(* A view whose own allocations fail only lists less; that is not modelled. *)
(***************************************************************************)
EXTENDS Aout16Loader

O == bin_obj
H == bin_obj.h
Loaded == bin_obj # NULL
Ut(n) == n % Ut64                        \* (ut64) of an int, and ut64 sums

TextVaddr == 2 * H.entry
DataVaddr == TextVaddr + 2 * H.text
BssVaddr == TextVaddr + 2 * (H.text + H.data)

\* aout16_baddr, aout16_entries
Baddr == IF Loaded THEN TextVaddr ELSE 0
Entry == [vaddr |-> TextVaddr, paddr |-> O.off_text]

\* aout16_maps; aout16_sections lists the same ranges under the same names.
Segment(n, off, vaddr, words, backed) ==
  IF words = 0 THEN {}
  ELSE {[name |-> n, vaddr |-> vaddr, vsize |-> 2 * words,
         paddr |-> IF backed THEN off ELSE 0,
         psize |-> IF backed THEN 2 * words ELSE 0]}

Maps == IF ~Loaded THEN {} ELSE
        Segment("text", O.off_text, TextVaddr, H.text, TRUE)
        \cup Segment("data", O.off_data, DataVaddr, H.data, TRUE)
        \cup Segment("bss", 0, BssVaddr, H.bss, FALSE)

-----------------------------------------------------------------------------
\* aout16_sym_name; ordinals count from 0.
SymName(k) ==
  IF k >= O.nsyms \/ O.syms = NULL \/ O.strtab = NULL THEN NULL
  ELSE LET strx == O.syms[k + 1].strx IN
       IF strx >= O.strtab_size THEN NULL ELSE O.strtab[strx]

Ordinals == IF ~Loaded THEN {} ELSE IF O.syms = NULL THEN {} ELSE 0 .. O.nsyms - 1
Sym(k) == O.syms[k + 1]
Section(k) == Sym(k).type % 32                     \* N_TYPE_MASK
External(k) == (Sym(k).type \div 32) % 2 = 1       \* N_EXT
Named(k) == SymName(k) \notin {NULL, ""}

\* The file position of a symbol: an int difference of words, made unsigned
\* and doubled.
TextPaddr(value) == Ut(O.off_text + Ut(2 * Ut(value - H.entry)))
\* Mutant: the length of the text is not taken off.
DataPaddrFromText(value) == Ut(O.off_data + Ut(2 * Ut(value - H.entry)))
DataPaddr(value) == Ut(O.off_data + Ut(2 * Ut(value - H.entry - H.text)))

\* aout16_symbols
Symbols ==
  {[ordinal |-> k, name |-> SymName(k), vaddr |-> 2 * Sym(k).value,
    paddr |-> CASE Section(k) = N_TEXT -> TextPaddr(Sym(k).value)
                [] Section(k) = N_DATA -> DataPaddr(Sym(k).value)
                [] OTHER -> 0,
    imported |-> Section(k) = N_UNDF /\ External(k)]
   : k \in {k \in Ordinals : Named(k) /\ (Section(k) # N_UNDF \/ External(k))}}

\* Mutant: symbols without a name are imported too.
ImportsUnnamed ==
  {[ordinal |-> k, name |-> SymName(k)]
   : k \in {k \in Ordinals : Section(k) = N_UNDF /\ External(k)}}

\* aout16_imports
Imports ==
  {[ordinal |-> k, name |-> SymName(k)]
   : k \in {k \in Ordinals : Section(k) = N_UNDF /\ External(k) /\ Named(k)}}

\* aout16_info: the type it reports.
Kind ==
  IF H.flag # 0 THEN "EXEC (reloc stripped)"
  ELSE IF \E k \in Ordinals : Section(k) = N_UNDF /\ External(k)
       THEN "REL (relocatable)" ELSE "EXEC"

\* Mutant: the address of main is taken for an offset into the text.
MainUnbased ==
  LET mains == {k \in Ordinals : SymName(k) \in MainNames} IN
  IF mains = {} THEN NULL
  ELSE LET k == CHOOSE k \in mains : \A j \in mains : k <= j IN
       [ordinal |-> k, vaddr |-> 2 * Sym(k).value,
        paddr |-> O.off_text + 2 * Sym(k).value]

\* aout16_binsym for the main symbol: the first one named so, of any section.
Main ==
  LET mains == {k \in Ordinals : SymName(k) \in MainNames} IN
  IF mains = {} THEN NULL
  ELSE LET k == CHOOSE k \in mains : \A j \in mains : k <= j IN
       [ordinal |-> k, vaddr |-> 2 * Sym(k).value, paddr |-> TextPaddr(Sym(k).value)]

-----------------------------------------------------------------------------
\* aout16_relocs: the text and data relocation words run parallel to their
\* segments; those of the zero page are passed over.
OffZpReloc == O.off_data + 2 * H.data
OffTextReloc == OffZpReloc + 2 * H.zp
OffDataReloc == OffTextReloc + 2 * H.text

RelType(w) == 2 * ((w \div 2) % 8)                 \* RELMSK

Target(type) ==
  CASE type = REL_TEXT -> TextVaddr
    [] type = REL_DATA -> DataVaddr
    [] type = REL_BSS -> DataVaddr + 2 * H.data
    [] OTHER -> 0

\* Mutant: one relocation word too many.
SegmentRelocsPast(table, words, paddr, vaddr) ==
  {LET w == Le16(table + 2 * i) IN
   [vaddr |-> vaddr + 2 * i, paddr |-> paddr + 2 * i,
    bits |-> IF w % 2 = 1 THEN 8 ELSE 16, import |-> NULL, target |-> Target(RelType(w))]
   : i \in {i \in 0 .. words : RelType(Le16(table + 2 * i)) \notin {0, REL_ABS}}}

SegmentRelocs(table, words, paddr, vaddr) ==
  {LET w == Le16(table + 2 * i)
       type == RelType(w)
       symnum == w \div 16
       name == IF type = REL_UNDEXT THEN SymName(symnum) ELSE NULL
   IN [vaddr |-> vaddr + 2 * i, paddr |-> paddr + 2 * i,
       bits |-> IF w % 2 = 1 THEN 8 ELSE 16,
       import |-> IF name = NULL THEN NULL ELSE [ordinal |-> symnum, name |-> name],
       target |-> Target(type)]
   : i \in {i \in 0 .. words - 1 :
              RelType(Le16(table + 2 * i)) \notin {0, REL_ABS}}}

Relocs ==
  IF ~Loaded THEN {} ELSE IF H.flag # 0 THEN {}
  ELSE SegmentRelocs(OffTextReloc, H.text, O.off_text, TextVaddr)
       \cup SegmentRelocs(OffDataReloc, H.data, O.off_data, DataVaddr)

-----------------------------------------------------------------------------
Opened == pc = "open"
Reading == pc \in {"layout", "syms", "strings"}

ObjectOf(o) ==
  /\ o.h \in [Header -> Word]
  /\ o.nsyms = o.h.syms \div 4
  /\ o.syms # NULL =>
       /\ Len(o.syms) <= o.nsyms
       /\ \A k \in 1 .. Len(o.syms) :
            o.syms[k].type \in Word /\ o.syms[k].value \in Word /\ o.syms[k].strx \in Nat
  /\ o.strtab_size \in Nat

(* Types; the object and its parts exist when the control state says so, and  *)
(* a finished symbol array has all the entries nsyms promises.                *)
TypeOK ==
  /\ pc \in {"idle", "checked", "layout", "syms", "strings", "open", "failed"}
  /\ accepted \in BOOLEAN /\ fault \in BOOLEAN
  /\ (obj # NULL) <=> Reading
  /\ (bin_obj # NULL) <=> Opened
  /\ obj # NULL => ObjectOf(obj)
  /\ bin_obj # NULL =>
       /\ ObjectOf(bin_obj) /\ bin_obj.h.magic = MAGIC
       /\ bin_obj.syms # NULL => Len(bin_obj.syms) = bin_obj.nsyms

(* aout16_parse (75-146) and aout16_destroy (179-192): the heap holds exactly *)
(* the blocks the object in hand points to, whichever allocation failed.      *)
HeapExact ==
  LET o == IF Opened THEN bin_obj ELSE obj
      part(n, p) == IF p = NULL THEN {} ELSE {n}
  IN heap = IF o = NULL THEN {}
            ELSE {"obj"} \cup part("syms", o.syms) \cup part("strtab", o.strtab)

(* aout16_load_buffer (170-177) against aout16_check_buffer: the magic is      *)
(* tested by both, apart. When nothing fails, a file loads exactly if it was  *)
(* accepted and holds a header; the host may try one that was not.            *)
LoadOutcome ==
  (pc \in {"open", "failed"} /\ ~fault) => (Opened <=> accepted /\ Size >= HDRSZ)

\* The bytes of the buffer, as bpun_check_buffer reads them.
Bytes == [i \in 1 .. Size |-> IF i % 2 = 1 THEN file.words[(i + 1) \div 2] % 256
                                           ELSE file.words[i \div 2] \div 256]
Tape == INSTANCE BpunTape

(* aout16_check_buffer (159-168) and bpun_check_buffer (rz_bin_bpun.c, 141-   *)
(* 176): the host offers every file to both, and no file is claimed by both,  *)
(* whatever digits, slashes and exclamation marks its words happen to spell.  *)
ClaimedByOne ==
  (pc = "checked" /\ accepted) =>
    ~Tape!CheckBuffer(Bytes, IF Size < 256 THEN Size ELSE 256)

(* aout16_parse (109-122) against aout16_relocs (553-556): computed apart,    *)
(* the tables lie one behind the other as the format comment (line 13) says:  *)
(* the relocation tables end where an unstripped file's symbols begin, and a  *)
(* symbol table that was read lies inside the file. The maps do not overlap,  *)
(* and the first begins at the base address and the entry.                    *)
LayoutAgrees ==
  Opened =>
    /\ OffZpReloc = HDRSZ + 2 * (H.zp + H.text + H.data)
    /\ H.flag = 0 => OffDataReloc + 2 * H.data = OffSyms(H)
    /\ H.flag # 0 => OffZpReloc = OffSyms(H)
    /\ O.syms # NULL => OffSyms(H) + 8 * O.nsyms <= Size
    /\ O.strtab # NULL => OffStr(H) + O.strtab_size <= Size
    /\ \A m, n \in Maps :
         \/ m = n
         \/ m.vaddr + m.vsize <= n.vaddr \/ n.vaddr + n.vsize <= m.vaddr
    /\ \A m \in Maps : m.vaddr >= Baddr /\ Baddr = Entry.vaddr
    /\ \A m \in Maps : m.name = "text" => m.vaddr = Entry.vaddr /\ m.paddr = Entry.paddr

(* aout16_symbols (421-433) against aout16_maps (260-302): a text or data     *)
(* symbol that lies in its segment has the file position the segment's map    *)
(* gives its address, through the unsigned wrap of a negative difference too. *)
SymbolsFollowMaps ==
  \A s \in Symbols, m \in Maps :
    (/\ \/ m.name = "text" /\ Section(s.ordinal) = N_TEXT
        \/ m.name = "data" /\ Section(s.ordinal) = N_DATA)
    => /\ Ut(s.paddr + m.vaddr) = Ut(m.paddr + s.vaddr)
       /\ (s.vaddr \in m.vaddr .. m.vaddr + m.vsize - 1)
          => s.paddr \in m.paddr .. m.paddr + m.psize - 1

(* aout16_binsym (766-783) against aout16_symbols: main, when it is a text or *)
(* data symbol, is where the symbol list says it is.                          *)
MainIsListed ==
  (Loaded /\ Main # NULL /\ Main.ordinal \in Ordinals) =>
    \/ Section(Main.ordinal) \notin {N_TEXT, N_DATA}
    \/ \E s \in Symbols : /\ s.ordinal = Main.ordinal
                          /\ s.vaddr = Main.vaddr /\ s.paddr = Main.paddr

(* aout16_imports (486-497), aout16_symbols (402-411), aout16_info and        *)
(* aout16_relocs (589-601) decide apart what is an import.  The list of       *)
(* imports is that of the imported symbols, name for name; the file is called *)
(* relocatable exactly if there is one, or an undefined external symbol       *)
(* without a name, and no stripped flag; and of the symbols relocations make  *)
(* imports of, those are in the list that are undefined, external and named:  *)
(* a relocation makes one of any symbol, also after the buffer was written to. *)
ImportsAgree ==
  Loaded =>
    LET undefined == {k \in Ordinals : Section(k) = N_UNDF /\ External(k)} IN
    /\ Imports = {[ordinal |-> s.ordinal, name |-> s.name]
                   : s \in {s \in Symbols : s.imported}}
    /\ Kind = "REL (relocatable)" <=>
         H.flag = 0 /\ (Imports # {} \/ \E k \in undefined : ~Named(k))
    /\ \A r \in Relocs : r.import # NULL =>
         (r.import \in Imports <=> r.import.ordinal \in undefined /\ r.import.name # "")

(* aout16_relocs (558-694): every relocation lies in the map of its segment,  *)
(* at matching addresses, never twice at one place, and an import it names is *)
(* a symbol of the table, also after the buffer was written to.               *)
RelocsFollowMaps ==
  /\ \A r \in Relocs :
       /\ \E m \in Maps : /\ r.vaddr \in m.vaddr .. m.vaddr + m.vsize - 2
                          /\ r.paddr - m.paddr = r.vaddr - m.vaddr
                          /\ m.psize > 0
       /\ r.import # NULL => /\ r.import.ordinal \in Ordinals
                             /\ r.import.name = SymName(r.import.ordinal)
       /\ r.target # 0 => r.target \in {TextVaddr, DataVaddr, BssVaddr}
  /\ \A r, q \in Relocs : r.paddr = q.paddr => r = q

(* The promise every loader makes to the host.                                *)
Plugin == INSTANCE BinPlugin WITH
  phase <- CASE pc \in {"idle", "checked"} -> "closed"
             [] pc \in {"layout", "syms", "strings"} -> "loading"
             [] OTHER -> pc,
  object <- bin_obj, live <- Cardinality(heap), NoObject <- NULL

(* aout16_load_buffer and aout16_destroy implement BinPlugin; in particular   *)
(* writing to the buffer does not change the object.                          *)
ImplementsPlugin == Plugin!Spec

(* aout16_parse returns, whatever the file and whichever reads fail.          *)
LoadReturns == Reading ~> (pc \in {"open", "failed"})
==============================================================================
