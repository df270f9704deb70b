---------------------------- MODULE Aout16Proofs ----------------------------
(***************************************************************************)
(* Theorems about the a.out16 loader, for every set of files and names,    *)
(* every write to an open buffer, and with or without failing reads and    *)
(* allocations.                                                            *)
(***************************************************************************)
EXTENDS Aout16Views, SequenceTheorems, FiniteSetTheorems, WellFoundedInduction,
        NumberFacts, TLAPS

(* Where the parts of the file lie, as far as the object tells: the offsets   *)
(* follow from the header, and a table that is kept lies inside the file.     *)
Placed(o) ==
  /\ o.off_text = OffText(o.h) /\ o.off_data = OffData(o.h)
  /\ o.nsyms = o.h.syms \div 4
  /\ o.syms # NULL => OffStr(o.h) <= Size
  /\ o.strtab # NULL => OffStr(o.h) + o.strtab_size <= Size

(* How far aout16_parse has come: what the object has of the two tables.      *)
Stages ==
  /\ pc = "layout" => obj.syms = NULL /\ obj.strtab = NULL
  /\ pc \in {"syms", "strings"} =>
       obj.h.magic = MAGIC /\ obj.strtab = NULL /\ OffStr(obj.h) <= Size
  /\ pc = "syms" => obj.syms # NULL /\ Len(obj.syms) <= obj.nsyms
  /\ pc = "strings" /\ obj.syms # NULL => Len(obj.syms) = obj.nsyms
  /\ pc = "open" => /\ bin_obj.h.magic = MAGIC
                    /\ bin_obj.syms # NULL => Len(bin_obj.syms) = bin_obj.nsyms

(* Types: an object there is exactly when the control state says so.          *)
Typed ==
  /\ pc \in {"idle", "checked", "layout", "syms", "strings", "open", "failed"}
  /\ accepted \in BOOLEAN /\ fault \in BOOLEAN
  /\ file.words \in Seq(Word)
  /\ pc \in {"checked", "layout", "syms", "strings"} => file \in Files
  /\ IF Reading THEN obj \in Object ELSE obj = NULL
  /\ IF Opened THEN bin_obj \in Object ELSE bin_obj = NULL

IInv ==
  /\ Typed /\ Stages /\ HeapExact
  /\ Reading => Placed(obj)
  /\ Opened => Placed(bin_obj)

-----------------------------------------------------------------------------
(* Words and the reads that yield them.                                       *)
LEMMA ZeroWord == 0 \in Word
  BY DEF Word, WordMod

LEMMA UpTo == \A n \in Int : \A w : w \in 0 .. n => w \in Nat /\ w <= n
OBVIOUS

LEMMA WordNat == ASSUME NEW w \in Word PROVE w \in Nat /\ w < 65536
<1>1. WordMod - 1 \in Int
  BY DEF WordMod
<1>2. w \in 0 .. WordMod - 1
  BY Zenon DEF Word
<1>3. w \in Nat /\ w <= WordMod - 1
  BY <1>1, <1>2, UpTo, Zenon
<1>4. WordMod - 1 = 65535
  BY DEF WordMod
<1>5. QED
  BY <1>3, <1>4

LEMMA SizeNat == ASSUME Typed PROVE Size \in Nat /\ Len(file.words) \in Nat
<1>1. Len(file.words) \in Nat
  BY LenProperties DEF Typed
<1>2. QED
  BY <1>1 DEF Size

(* read_le16 yields a word, zero past the end.                                *)
LEMMA Le16Type ==
  ASSUME Typed, NEW off \in Nat
  PROVE  Le16(off) \in Word
<1>1. CASE off + 2 <= Size
  <2>1. off \div 2 + 1 \in 1 .. Len(file.words)
    BY <1>1, SizeNat DEF Size
  <2>2. file.words[off \div 2 + 1] \in Word
    BY <2>1, ElementOfSeq DEF Typed
  <2>3. QED
    BY <1>1, <2>2 DEF Le16
<1>2. CASE ~(off + 2 <= Size)
  BY <1>2, ZeroWord DEF Le16
<1>3. QED
  BY <1>1, <1>2

LEMMA Le32Type ==
  ASSUME Typed, NEW off \in Nat
  PROVE  Le32(off) \in Nat
<1>1. Le16(off) \in Nat /\ Le16(off + 2) \in Nat
  BY Le16Type, WordNat
<1>2. WordMod \in Nat
  BY DEF WordMod
<1>3. QED
  BY <1>1, <1>2 DEF Le32

(* A header is eight words, and the offsets it gives are numbers.             *)
LEMMA HeaderFields ==
  ASSUME NEW h \in [Header -> Word]
  PROVE  /\ h.magic \in Word /\ h.text \in Word /\ h.data \in Word /\ h.bss \in Word
         /\ h.syms \in Word /\ h.entry \in Word /\ h.zp \in Word /\ h.flag \in Word
  BY DEF Header

LEMMA OffsetsNat ==
  ASSUME NEW h \in [Header -> Word]
  PROVE  /\ OffText(h) \in Nat /\ OffData(h) \in Nat /\ OffSyms(h) \in Nat
         /\ OffStr(h) \in Nat
<1>1. /\ h.text \in Nat /\ h.data \in Nat /\ h.syms \in Nat /\ h.zp \in Nat
  BY HeaderFields, WordNat
<1>2. OffText(h) \in Nat /\ OffData(h) \in Nat
  BY <1>1 DEF OffText, OffData, HDRSZ
<1>3. OffSyms(h) \in Nat /\ OffStr(h) \in Nat
  BY <1>1, <1>2 DEF OffSyms, OffStr
<1>4. QED
  BY <1>2, <1>3

-----------------------------------------------------------------------------
(* What an object's blocks are, and what HeapExact says in terms of them.     *)
Blocks(o) == {"obj"} \cup (IF o.syms = NULL THEN {} ELSE {"syms"})
                     \cup (IF o.strtab = NULL THEN {} ELSE {"strtab"})

LEMMA HeapForm ==
  ASSUME Typed
  PROVE  HeapExact <=> heap = IF Opened THEN Blocks(bin_obj)
                              ELSE IF Reading THEN Blocks(obj) ELSE {}
<1>1. (Opened => bin_obj # NULL) /\ (Reading => obj # NULL) /\ ~(Opened /\ Reading)
  BY NullAssumption DEF Typed, Opened, Reading
<1>2. (~Reading => obj = NULL) /\ (~Opened => bin_obj = NULL)
  BY DEF Typed
<1>3. QED
  BY <1>1, <1>2 DEF HeapExact, Blocks

LEMMA InitInv == Init => IInv
<1> SUFFICES ASSUME Init PROVE IInv
  OBVIOUS
<1>1. Typed
  BY EmptySeq DEF Init, Typed, NoFile, Reading, Opened
<1>2. QED
  BY <1>1, HeapForm DEF Init, IInv, Stages, Reading, Opened

(* The host's steps outside a load.                                           *)
LEMMA CheckInv == IInv /\ Check => IInv'
<1> SUFFICES ASSUME IInv, Check PROVE IInv'
  OBVIOUS
<1>1. Typed'
  <2>1. PICK f \in Files, fails \in MayFail :
          /\ file' = f
          /\ accepted' = (~fails /\ f.words # <<>> /\ f.words[1] = MAGIC)
          /\ fault' = fails
    BY DEF Check
  <2>2. f.words \in Seq(Word) /\ fails \in BOOLEAN
    BY FilesAssumption DEF MayFail
  <2>3. pc = "idle" /\ pc' = "checked" /\ UNCHANGED <<obj, bin_obj, heap>>
    BY DEF Check
  <2>4. accepted' \in BOOLEAN
    BY <2>1, Zenon
  <2>5. obj = NULL /\ bin_obj = NULL
    BY <2>3 DEF IInv, Typed, Reading, Opened
  <2>6. QED
    BY <2>1, <2>2, <2>3, <2>4, <2>5 DEF Typed, Reading, Opened
<1>2. heap = {}
  BY HeapForm DEF IInv, Check, Reading, Opened
<1>3. HeapExact'
  BY <1>1, <1>2 DEF IInv, Typed, Check, HeapExact, Reading, Opened
<1>4. QED
  BY <1>1, <1>3 DEF IInv, Check, Stages, Reading, Opened

LEMMA ForgetInv ==
  ASSUME Forget, obj' = NULL, bin_obj' = NULL, heap' = {}
  PROVE  IInv'
<1>1. Typed'
  BY EmptySeq DEF Forget, Typed, NoFile, Reading, Opened
<1>2. HeapExact'
  BY DEF Forget, HeapExact, Opened
<1>3. QED
  BY <1>1, <1>2 DEF Forget, IInv, Stages, Reading, Opened

(* Outside a load and without an open file nothing is allocated.              *)
LEMMA AtRest ==
  ASSUME IInv, ~Reading, ~Opened
  PROVE  obj = NULL /\ bin_obj = NULL /\ heap = {}
  BY HeapForm DEF IInv, Typed

LEMMA SkipInv == IInv /\ Skip => IInv'
  BY AtRest, ForgetInv DEF Skip, Reading, Opened

LEMMA DestroyInv == IInv /\ Destroy => IInv'
<1> SUFFICES ASSUME IInv, Destroy PROVE IInv'
  OBVIOUS
<1>1. obj' = NULL /\ bin_obj' = NULL
  BY DEF Destroy, IInv, Typed, Reading
<1>2. CASE pc = "open"
  <2>1. bin_obj # NULL /\ heap = Blocks(bin_obj)
    BY <1>2, HeapForm, NullAssumption DEF IInv, Typed, Opened
  <2>2. heap' = {}
    BY <2>1 DEF Destroy, Blocks
  <2>3. QED
    BY <1>1, <2>2, ForgetInv DEF Destroy
<1>3. CASE pc = "failed"
  <2>1. bin_obj = NULL /\ heap = {}
    BY <1>3, AtRest DEF Reading, Opened
  <2>2. QED
    BY <1>1, <2>1, ForgetInv DEF Destroy
<1>4. QED
  BY <1>2, <1>3 DEF Destroy

(* The steps of a load.                                                       *)
LEMMA LoadRefusedInv == IInv /\ LoadRefused => IInv'
<1> SUFFICES ASSUME IInv, LoadRefused PROVE IInv'
  OBVIOUS
<1>1. obj = NULL /\ bin_obj = NULL /\ heap = {}
  BY AtRest DEF LoadRefused, Reading, Opened
<1>2. fault' \in BOOLEAN
  BY DEF LoadRefused, IInv, Typed
<1>3. Typed'
  BY <1>1, <1>2 DEF LoadRefused, IInv, Typed, Reading, Opened
<1>4. HeapExact'
  BY <1>1 DEF LoadRefused, HeapExact, Opened
<1>5. QED
  BY <1>3, <1>4 DEF LoadRefused, IInv, Stages, Reading, Opened

(* A step inside the load: the object in hand changes, the host's does not.    *)
LEMMA ReadingInv ==
  ASSUME IInv, pc \in {"checked", "layout", "syms", "strings"}, Reading', Stages',
         UNCHANGED <<file, accepted, bin_obj>>, fault' \in BOOLEAN,
         obj' \in Object, heap' = Blocks(obj'), Placed(obj)'
  PROVE  IInv'
<1>1. bin_obj = NULL /\ ~Opened' /\ file \in Files
  BY DEF IInv, Typed, Reading, Opened
<1>2. Typed'
  BY <1>1 DEF IInv, Typed, Reading, Opened
<1>3. HeapExact'
  <2>1. obj' # NULL
    BY NullAssumption
  <2>2. QED
    BY <1>1, <2>1 DEF HeapExact, Blocks
<1>4. QED
  BY <1>1, <1>2, <1>3 DEF IInv

LEMMA DeliverInv ==
  ASSUME IInv, Reading, NEW o \in Object, Deliver(o), Placed(o), o.h.magic = MAGIC,
         o.syms # NULL => Len(o.syms) = o.nsyms,
         heap' = Blocks(o), fault' \in BOOLEAN
  PROVE  IInv'
<1>1. pc' = "open" /\ obj' = NULL /\ bin_obj' = o /\ UNCHANGED <<file, accepted>>
  BY DEF Deliver
<1>2. Typed'
  BY <1>1 DEF IInv, Typed, Reading, Opened
<1>3. HeapExact'
  <2>1. o # NULL
    BY NullAssumption
  <2>2. QED
    BY <1>1, <2>1 DEF HeapExact, Blocks, Opened
<1>4. Stages'
  BY <1>1 DEF Stages
<1>5. Placed(bin_obj)'
  BY <1>1 DEF Placed, Size
<1>6. QED
  BY <1>1, <1>2, <1>3, <1>4, <1>5 DEF IInv, Reading

LEMMA ReadHeaderInv == IInv /\ ReadHeader => IInv'
<1> SUFFICES ASSUME IInv, ReadHeader PROVE IInv'
  OBVIOUS
<1>1. PICK bad \in Failing(Header) :
        LET h == [n \in Header |-> IF n \in bad THEN 0 ELSE Le16(FieldAt[n])] IN
        /\ obj' = [h |-> h, off_text |-> OffText(h), off_data |-> OffData(h),
                   nsyms |-> h.syms \div 4, syms |-> NULL,
                   strtab |-> NULL, strtab_size |-> 0]
        /\ fault' = (fault \/ bad # {})
  BY DEF ReadHeader
<1> DEFINE h == [n \in Header |-> IF n \in bad THEN 0 ELSE Le16(FieldAt[n])]
<1>2. h \in [Header -> Word]
  <2>1. ASSUME NEW n \in Header PROVE FieldAt[n] \in Nat
    BY DEF Header, FieldAt
  <2>2. ASSUME NEW n \in Header PROVE Le16(FieldAt[n]) \in Word
    BY <2>1, Le16Type DEF IInv
  <2>3. QED
    BY <2>2, ZeroWord
<1>3. obj' = [h |-> h, off_text |-> OffText(h), off_data |-> OffData(h),
              nsyms |-> h.syms \div 4, syms |-> NULL, strtab |-> NULL,
              strtab_size |-> 0]
  BY <1>1
<1> HIDE DEF h
<1>4. h.syms \div 4 \in Nat
  BY <1>2, HeaderFields, WordNat
<1>5. obj' \in Object
  BY <1>2, <1>3, <1>4, OffsetsNat DEF Object
<1>6. obj'.syms = NULL /\ obj'.strtab = NULL
  BY <1>3
<1>7. pc = "checked" /\ pc' = "layout" /\ UNCHANGED <<file, accepted, bin_obj>>
      /\ heap' = heap \cup {"obj"}
  BY DEF ReadHeader
<1>8. heap' = Blocks(obj')
  <2>1. heap = {}
    BY <1>7, AtRest DEF Reading, Opened
  <2>2. QED
    BY <2>1, <1>6, <1>7 DEF Blocks
<1>9. fault' \in BOOLEAN
  BY <1>1 DEF IInv, Typed
<1>10. Stages'
  BY <1>6, <1>7 DEF Stages
<1>11. Placed(obj)'
  BY <1>3, <1>7 DEF Placed, Size
<1>12. QED
  BY <1>5, <1>7, <1>8, <1>9, <1>10, <1>11, ReadingInv DEF Reading

LEMMA BadMagicInv == IInv /\ BadMagic => IInv'
<1> SUFFICES ASSUME IInv, BadMagic PROVE IInv'
  OBVIOUS
<1>1. pc = "layout" /\ obj \in Object /\ bin_obj = NULL /\ heap = Blocks(obj)
  BY HeapForm DEF BadMagic, IInv, Typed, Reading, Opened
<1>2. heap = {"obj"}
  BY <1>1 DEF Blocks, IInv, Stages
<1>3. heap' = {}
  BY <1>2 DEF BadMagic
<1>4. Typed'
  BY <1>1 DEF BadMagic, IInv, Typed, Reading, Opened
<1>5. HeapExact'
  BY <1>1, <1>3 DEF BadMagic, HeapExact, Opened
<1>6. QED
  BY <1>4, <1>5 DEF BadMagic, IInv, Stages, Reading, Opened

(* The object in hand during a load.                                          *)
LEMMA InHand ==
  ASSUME IInv, Reading
  PROVE  /\ obj \in Object /\ bin_obj = NULL /\ heap = Blocks(obj) /\ Placed(obj)
         /\ fault \in BOOLEAN /\ file \in Files
         /\ OffStr(obj.h) \in Nat /\ OffSyms(obj.h) \in Nat
<1>1. obj \in Object
  BY DEF IInv, Typed
<1>2. obj.h \in [Header -> Word]
  BY <1>1 DEF Object
<1>3. QED
  BY <1>1, <1>2, HeapForm, OffsetsNat DEF IInv, Typed, Reading, Opened

LEMMA NoSymbolsInv == IInv /\ NoSymbols => IInv'
<1> SUFFICES ASSUME IInv, NoSymbols PROVE IInv'
  OBVIOUS
<1>1. pc = "layout" /\ Reading /\ Deliver(obj) /\ UNCHANGED <<heap, fault>>
      /\ obj.h.magic = MAGIC
  BY DEF NoSymbols, Reading
<1>2. obj.syms = NULL
  BY <1>1 DEF IInv, Stages
<1>3. QED
  BY <1>1, <1>2, InHand, DeliverInv

LEMMA AllocSymbolsInv == IInv /\ AllocSymbols => IInv'
<1> SUFFICES ASSUME IInv, AllocSymbols PROVE IInv'
  OBVIOUS
<1>1. PICK fails \in MayFail :
        /\ obj' = [obj EXCEPT !.syms = IF fails THEN NULL ELSE <<>>]
        /\ heap' = IF fails THEN heap ELSE heap \cup {"syms"}
        /\ pc' = IF fails THEN "strings" ELSE "syms"
        /\ fault' = (fault \/ fails)
  BY DEF AllocSymbols
<1>2. /\ pc = "layout" /\ Reading /\ Reading' /\ UNCHANGED <<file, accepted, bin_obj>>
      /\ obj.h.magic = MAGIC /\ OffStr(obj.h) <= Size
  BY <1>1 DEF AllocSymbols, Reading, HasSymbols
<1>3. obj.syms = NULL /\ obj.strtab = NULL
  BY <1>2 DEF IInv, Stages
<1>4. fails \in BOOLEAN /\ <<>> \in Seq(Symbol) /\ Len(<<>>) = 0
  BY EmptySeq DEF MayFail
<1>5. <<>> # NULL
  BY <1>4, NullAssumption
<1>6. obj' \in Object
  BY <1>1, <1>2, <1>4, InHand DEF Object
<1>7. /\ obj'.syms = (IF fails THEN NULL ELSE <<>>) /\ obj'.strtab = NULL
      /\ obj'.h = obj.h /\ obj'.nsyms = obj.nsyms
      /\ obj'.off_text = obj.off_text /\ obj'.off_data = obj.off_data
  BY <1>1, <1>2, <1>3, InHand DEF Object
<1>8. heap' = Blocks(obj')
  <2>1. heap = {"obj"}
    BY <1>2, <1>3, InHand DEF Blocks
  <2>2. QED
    BY <1>1, <1>5, <1>7, <2>1 DEF Blocks
<1>9. fault' \in BOOLEAN
  BY <1>1, <1>2, <1>4, InHand
<1>10. Stages'
  <2>1. 0 <= obj.nsyms
    BY <1>2, InHand DEF Object
  <2>2. Size' = Size
    BY <1>2 DEF Size
  <2>3. QED
    BY <1>1, <1>2, <1>4, <1>5, <1>7, <2>1, <2>2 DEF Stages
<1>11. Placed(obj)'
  <2>1. Size' = Size
    BY <1>2 DEF Size
  <2>2. QED
    BY <1>2, <1>7, <2>1, InHand DEF Placed
<1>12. QED
  BY <1>2, <1>6, <1>8, <1>9, <1>10, <1>11, ReadingInv DEF Reading

LEMMA ReadSymbolInv == IInv /\ ReadSymbol => IInv'
<1> SUFFICES ASSUME IInv, ReadSymbol PROVE IInv'
  OBVIOUS
<1> DEFINE off == OffSyms(obj.h) + 8 * Len(obj.syms)
           Or0(bad, n, v) == IF n \in bad THEN 0 ELSE v
           entry(bad) == [strx |-> Or0(bad, "strx", Le32(off)),
                          type |-> Or0(bad, "type", Le16(off + 4)),
                          value |-> Or0(bad, "value", Le16(off + 6))]
<1>1. PICK bad \in Failing({"strx", "type", "value"}) :
        /\ obj' = [obj EXCEPT !.syms = Append(@, entry(bad))]
        /\ fault' = (fault \/ bad # {})
  BY DEF ReadSymbol
<1>2. /\ pc = "syms" /\ pc' = "syms" /\ Reading /\ Reading'
      /\ UNCHANGED <<file, accepted, bin_obj, heap>> /\ Len(obj.syms) < obj.nsyms
  BY DEF ReadSymbol, Reading
<1>3. obj \in Object /\ obj.syms \in Seq(Symbol) /\ obj.syms # NULL
  BY <1>2, InHand DEF Object, IInv, Stages
<1>4. Len(obj.syms) \in Nat
  BY <1>3, LenProperties
<1>5. entry(bad) \in Symbol
  <2>1. off \in Nat
    BY <1>2, <1>4, InHand
  <2>2. Le32(off) \in Nat /\ Le16(off + 4) \in Word /\ Le16(off + 6) \in Word
    BY <2>1, Le16Type, Le32Type DEF IInv
  <2>3. QED
    BY <2>2, ZeroWord DEF Symbol
<1> DEFINE e == entry(bad)
<1> HIDE DEF e, entry, off
<1>6. /\ Append(obj.syms, e) \in Seq(Symbol)
      /\ Len(Append(obj.syms, e)) = Len(obj.syms) + 1
  BY <1>3, <1>5, AppendProperties DEF e
<1>7. obj' = [obj EXCEPT !.syms = Append(obj.syms, e)]
  BY <1>1, <1>3 DEF Object, e
<1>8. obj' \in Object
  BY <1>3, <1>6, <1>7 DEF Object
<1>9. /\ obj'.syms = Append(obj.syms, e) /\ obj'.strtab = obj.strtab
      /\ obj'.h = obj.h /\ obj'.nsyms = obj.nsyms
      /\ obj'.off_text = obj.off_text /\ obj'.off_data = obj.off_data
      /\ obj'.strtab_size = obj.strtab_size
  BY <1>3, <1>7 DEF Object
<1>10. obj'.syms # NULL
  BY <1>6, <1>9, NullAssumption
<1>11. heap' = Blocks(obj')
  BY <1>2, <1>3, <1>9, <1>10, InHand DEF Blocks
<1>12. fault' \in BOOLEAN
  BY <1>1, <1>2, InHand
<1>13. Size' = Size
  BY <1>2 DEF Size
<1>14. Stages'
  <2>1. Len(obj.syms) + 1 <= obj.nsyms
    BY <1>2, <1>3, <1>4 DEF Object
  <2>2. QED
    BY <1>2, <1>6, <1>9, <1>10, <1>13, <2>1 DEF Stages, IInv
<1>15. Placed(obj)'
  BY <1>2, <1>3, <1>9, <1>10, <1>13, InHand DEF Placed
<1>16. QED
  BY <1>2, <1>8, <1>11, <1>12, <1>14, <1>15, ReadingInv DEF Reading

LEMMA SymbolsReadInv == IInv /\ SymbolsRead => IInv'
<1> SUFFICES ASSUME IInv, SymbolsRead PROVE IInv'
  OBVIOUS
<1>1. /\ pc = "syms" /\ pc' = "strings" /\ Reading /\ Reading'
      /\ UNCHANGED <<file, accepted, obj, bin_obj, heap, fault>>
      /\ Len(obj.syms) = obj.nsyms
  BY DEF SymbolsRead, Reading
<1>2. Size' = Size
  BY <1>1 DEF Size
<1>3. Stages'
  BY <1>1, <1>2 DEF Stages, IInv
<1>4. Placed(obj)'
  BY <1>1, <1>2, InHand DEF Placed
<1>5. QED
  BY <1>1, <1>3, <1>4, InHand, ReadingInv DEF Reading

LEMMA ReadStringsInv == IInv /\ ReadStrings => IInv'
<1> SUFFICES ASSUME IInv, ReadStrings PROVE IInv'
  OBVIOUS
<1> DEFINE off == OffStr(obj.h)
           size(bad) == IF "size" \in bad THEN 0 ELSE Le32(off)
           fits(bad) == size(bad) >= 4 /\ off + size(bad) <= Size
           table(bad, junk) ==
             IF ~fits(bad) \/ "malloc" \in bad THEN NULL
             ELSE IF "read" \in bad THEN [n \in DOMAIN file.names |-> junk]
             ELSE file.names
<1>1. PICK bad \in Failing({"size", "malloc", "read"}), junk \in Names :
        /\ Deliver([obj EXCEPT !.strtab_size = size(bad), !.strtab = table(bad, junk)])
        /\ heap' = IF table(bad, junk) = NULL THEN heap ELSE heap \cup {"strtab"}
        /\ fault' = (fault \/ bad # {})
  BY DEF ReadStrings
<1>2. pc = "strings" /\ Reading
  BY DEF ReadStrings, Reading
<1> DEFINE z == size(bad)
           t == table(bad, junk)
           o == [obj EXCEPT !.strtab_size = z, !.strtab = t]
<1>3. z \in Nat
  BY <1>2, InHand, Le32Type DEF IInv
<1>4. t \in Tables \cup {NULL} /\ (t # NULL => off + z <= Size)
  BY <1>2, InHand DEF Tables
<1>5. Deliver(o) /\ fault' = (fault \/ bad # {})
      /\ heap' = IF t = NULL THEN heap ELSE heap \cup {"strtab"}
  BY <1>1
<1>6. obj \in Object
  BY <1>2, InHand
<1> HIDE DEF z, t, size, fits, table
<1>7. o \in Object
  BY <1>3, <1>4, <1>6 DEF Object
<1>8. /\ o.syms = obj.syms /\ o.strtab = t /\ o.strtab_size = z /\ o.h = obj.h
      /\ o.nsyms = obj.nsyms /\ o.off_text = obj.off_text /\ o.off_data = obj.off_data
  BY <1>6 DEF Object
<1> HIDE DEF o
<1>9. Placed(o)
  BY <1>2, <1>4, <1>8, InHand DEF Placed
<1>10. o.h.magic = MAGIC /\ (o.syms # NULL => Len(o.syms) = o.nsyms)
  BY <1>2, <1>8 DEF IInv, Stages
<1>11. heap' = Blocks(o)
  <2>1. heap = Blocks(obj) /\ obj.strtab = NULL
    BY <1>2, InHand DEF IInv, Stages
  <2>2. QED
    BY <1>5, <1>8, <2>1 DEF Blocks
<1>12. fault' \in BOOLEAN
  BY <1>2, <1>5, InHand
<1>13. QED
  BY <1>2, <1>5, <1>7, <1>9, <1>10, <1>11, <1>12, DeliverInv

(* A write to the open file's buffer leaves its length and the object.         *)
LEMMA PatchInv == IInv /\ Patch => IInv'
<1> SUFFICES ASSUME IInv, Patch PROVE IInv'
  OBVIOUS
<1>1. PICK k \in 1 .. Len(file.words), w \in Patches : file' = [file EXCEPT !.words[k] = w]
  BY DEF Patch
<1>2. /\ pc = "open" /\ UNCHANGED <<pc, accepted, obj, bin_obj, heap>> /\ fault' = TRUE
  BY DEF Patch
<1>3. file.words \in Seq(Word) /\ w \in Word
  BY FaultsAssumption DEF IInv, Typed
<1>4. [file.words EXCEPT ![k] = w] \in Seq(Word)
      /\ Len([file.words EXCEPT ![k] = w]) = Len(file.words)
  BY <1>3, ExceptSeq
<1>5. file'.words = [file.words EXCEPT ![k] = w]
  BY <1>1
<1>6. Size' = Size
  BY <1>4, <1>5 DEF Size
<1>7. Typed'
  BY <1>2, <1>4, <1>5 DEF IInv, Typed, Reading, Opened
<1>8. HeapExact'
  BY <1>2 DEF IInv, HeapExact, Opened
<1>9. Stages'
  BY <1>2 DEF IInv, Stages
<1>10. Placed(bin_obj)'
  BY <1>2, <1>6 DEF IInv, Placed, Opened
<1>11. QED
  BY <1>2, <1>7, <1>8, <1>9, <1>10 DEF IInv, Reading

-----------------------------------------------------------------------------
LEMMA StutterInv == IInv /\ UNCHANGED vars => IInv'
  BY DEF IInv, Typed, Stages, HeapExact, Placed, Size, Reading, Opened, vars

(* IInv is inductive.                                                         *)
THEOREM Invariance == Spec => []IInv
<1>1. IInv /\ [Next]_vars => IInv'
  BY CheckInv, SkipInv, LoadRefusedInv, ReadHeaderInv, BadMagicInv, NoSymbolsInv,
     AllocSymbolsInv, ReadSymbolInv, SymbolsReadInv, ReadStringsInv, PatchInv,
     DestroyInv, StutterInv DEF Next, Parse
<1>2. QED
  BY InitInv, <1>1, PTL DEF Spec

LEMMA ObjectShape ==
  ASSUME NEW o \in Object, o.nsyms = o.h.syms \div 4, o.syms # NULL => Len(o.syms) <= o.nsyms
  PROVE  ObjectOf(o)
<1>1. o.h \in [Header -> Word] /\ o.strtab_size \in Nat
  BY DEF Object
<1>2. ASSUME o.syms # NULL, NEW k \in 1 .. Len(o.syms)
      PROVE  o.syms[k].type \in Word /\ o.syms[k].value \in Word /\ o.syms[k].strx \in Nat
  <2>1. o.syms \in Seq(Symbol)
    BY <1>2 DEF Object
  <2>2. o.syms[k] \in Symbol
    BY <1>2, <2>1, ElementOfSeq
  <2>3. QED
    BY <2>2 DEF Symbol
<1>3. QED
  BY <1>1, <1>2 DEF ObjectOf

(* Type correctness: exactly a running aout16_parse has an object under       *)
(* construction, exactly an open file one for the host, and an array handed   *)
(* to the host has every symbol that was counted.                             *)
THEOREM TypeCorrect == Spec => []TypeOK
<1>1. IInv => TypeOK
  <2> SUFFICES ASSUME IInv PROVE TypeOK
    OBVIOUS
  <2>1. ((obj # NULL) <=> Reading) /\ ((bin_obj # NULL) <=> Opened)
    BY NullAssumption DEF IInv, Typed
  <2>2. ASSUME Reading PROVE ObjectOf(obj)
    <3>1. obj \in Object /\ obj.nsyms = obj.h.syms \div 4
      BY <2>2 DEF IInv, Typed, Placed
    <3>2. obj.nsyms \in Nat
      BY <3>1 DEF Object
    <3>3. obj.syms # NULL => Len(obj.syms) <= obj.nsyms
      BY <2>2, <3>1, <3>2 DEF IInv, Stages, Reading
    <3>4. QED
      BY <3>1, <3>3, ObjectShape
  <2>3. ASSUME Opened
        PROVE  /\ ObjectOf(bin_obj) /\ bin_obj.h.magic = MAGIC
               /\ bin_obj.syms # NULL => Len(bin_obj.syms) = bin_obj.nsyms
    <3>1. bin_obj \in Object /\ bin_obj.nsyms = bin_obj.h.syms \div 4
      BY <2>3 DEF IInv, Typed, Placed
    <3>2. bin_obj.nsyms \in Nat
      BY <3>1 DEF Object
    <3>3. /\ bin_obj.h.magic = MAGIC
          /\ bin_obj.syms # NULL => Len(bin_obj.syms) = bin_obj.nsyms
      BY <2>3 DEF IInv, Stages, Opened
    <3>4. QED
      BY <3>1, <3>2, <3>3, ObjectShape
  <2>4. QED
    BY <2>1, <2>2, <2>3 DEF IInv, Typed, TypeOK
<1>2. QED
  BY <1>1, Invariance, PTL

(* Whichever read or allocation fails, the heap holds what the object in hand *)
(* points to and nothing else; with no object it is empty.                    *)
THEOREM HeapOwned == Spec => []HeapExact
<1>1. IInv => HeapExact
  BY DEF IInv
<1>2. QED
  BY <1>1, Invariance, PTL

(* The numbers of an open file's header, and where its segments begin.        *)
LEMMA OpenHeader ==
  ASSUME IInv, Opened
  PROVE  /\ H.text \in Nat /\ H.data \in Nat /\ H.bss \in Nat /\ H.zp \in Nat
         /\ H.entry \in Nat /\ H.syms \in Nat /\ H.flag \in Nat
         /\ H.text < 65536 /\ H.data < 65536 /\ H.zp < 65536 /\ H.entry < 65536
         /\ O.off_text = 16 + 2 * H.zp /\ O.off_data = 16 + 2 * H.zp + 2 * H.text
<1>1. bin_obj \in Object
  BY DEF IInv, Typed
<1>2. H \in [Header -> Word]
  BY <1>1 DEF Object, H
<1>3. Placed(bin_obj)
  BY DEF IInv
<1>4. O.off_text = 16 + 2 * H.zp /\ O.off_data = 16 + 2 * H.zp + 2 * H.text
  BY <1>3 DEF Placed, OffText, OffData, HDRSZ, O, H
<1>5. QED
  BY <1>2, <1>4, HeaderFields, WordNat

(* What an open file's object has.                                            *)
LEMMA OpenFile ==
  ASSUME IInv, Opened
  PROVE  /\ bin_obj \in Object /\ Loaded /\ Placed(bin_obj)
         /\ H \in [Header -> Word]
         /\ Size \in Nat /\ O.nsyms \in Nat /\ O.strtab_size \in Nat
         /\ O.syms # NULL => O.syms \in Seq(Symbol) /\ Len(O.syms) = O.nsyms
<1>1. bin_obj \in Object /\ Loaded
  BY NullAssumption DEF IInv, Typed, Loaded
<1>2. H \in [Header -> Word]
  BY <1>1 DEF Object, H
<1>3. O.nsyms \in Nat /\ O.strtab_size \in Nat /\ O.syms \in Seq(Symbol) \cup {NULL}
  BY <1>1 DEF Object, O
<1>4. Size \in Nat
  BY SizeNat DEF IInv
<1>5. O.syms # NULL => Len(O.syms) = O.nsyms
  BY DEF IInv, Stages, Opened, O
<1>6. QED
  BY <1>1, <1>2, <1>3, <1>4, <1>5 DEF IInv

(* The three maps an open file can have.                                      *)
LEMMA MapForms ==
  ASSUME IInv, Opened, NEW m \in Maps
  PROVE  \/ /\ m = [name |-> "text", vaddr |-> TextVaddr, vsize |-> 2 * H.text,
                    paddr |-> O.off_text, psize |-> 2 * H.text]
            /\ H.text # 0
         \/ /\ m = [name |-> "data", vaddr |-> DataVaddr, vsize |-> 2 * H.data,
                    paddr |-> O.off_data, psize |-> 2 * H.data]
            /\ H.data # 0
         \/ /\ m = [name |-> "bss", vaddr |-> BssVaddr, vsize |-> 2 * H.bss,
                    paddr |-> 0, psize |-> 0]
            /\ H.bss # 0
<1>1. \/ m \in Segment("text", O.off_text, TextVaddr, H.text, TRUE)
      \/ m \in Segment("data", O.off_data, DataVaddr, H.data, TRUE)
      \/ m \in Segment("bss", 0, BssVaddr, H.bss, FALSE)
  BY OpenFile DEF Maps
<1>2. QED
  BY <1>1 DEF Segment

(* The segments lie one behind the other in memory.                           *)
LEMMA Addresses ==
  ASSUME IInv, Opened
  PROVE  /\ TextVaddr \in Nat /\ DataVaddr \in Nat /\ BssVaddr \in Nat
         /\ TextVaddr = 2 * H.entry
         /\ DataVaddr = TextVaddr + 2 * H.text /\ BssVaddr = DataVaddr + 2 * H.data
  BY OpenHeader DEF TextVaddr, DataVaddr, BssVaddr

(* The layout aout16_parse and aout16_relocs compute apart is the one the     *)
(* format comment draws, for every header; what is kept lies inside the file. *)
THEOREM LayoutCorrect == Spec => []LayoutAgrees
<1>1. IInv => LayoutAgrees
  <2> SUFFICES ASSUME IInv, Opened PROVE LayoutAgrees
    BY DEF LayoutAgrees
  <2>1. /\ OffZpReloc = 16 + 2 * H.zp + 2 * H.text + 2 * H.data
        /\ OffDataReloc = OffZpReloc + 2 * H.zp + 2 * H.text
    BY OpenHeader DEF OffZpReloc, OffTextReloc, OffDataReloc
  <2>2. OffSyms(H) = 16 + 2 * H.zp + 2 * H.text + 2 * H.data
                     + (IF H.flag # 0 THEN 0 ELSE 2 * H.zp + 2 * H.text + 2 * H.data)
    BY DEF OffSyms, OffData, OffText, HDRSZ
  <2>3. /\ OffZpReloc = HDRSZ + 2 * (H.zp + H.text + H.data)
        /\ H.flag = 0 => OffDataReloc + 2 * H.data = OffSyms(H)
        /\ H.flag # 0 => OffZpReloc = OffSyms(H)
    BY <2>1, <2>2, OpenHeader DEF HDRSZ
  <2>4. /\ O.syms # NULL => OffSyms(H) + 8 * O.nsyms <= Size
        /\ O.strtab # NULL => OffStr(H) + O.strtab_size <= Size
    <3>1. /\ O.syms # NULL => OffStr(H) <= Size
          /\ O.strtab # NULL => OffStr(H) + O.strtab_size <= Size
          /\ O.nsyms = H.syms \div 4
      BY OpenFile DEF Placed, O, H
    <3>2. OffStr(H) = OffSyms(H) + 2 * H.syms
      BY DEF OffStr
    <3>3. OffSyms(H) \in Nat /\ Size \in Nat /\ H.syms \in Nat
      BY OpenFile, OpenHeader, OffsetsNat
    <3>4. ASSUME NEW n \in Nat PROVE 8 * (n \div 4) <= 2 * n
      OBVIOUS
    <3>5. 8 * O.nsyms <= 2 * H.syms /\ O.nsyms \in Nat
      BY <3>1, <3>3, <3>4
    <3>6. QED
      BY <3>1, <3>2, <3>3, <3>5
  <2>5. ASSUME NEW m \in Maps, NEW n \in Maps
        PROVE  \/ m = n
               \/ m.vaddr + m.vsize <= n.vaddr \/ n.vaddr + n.vsize <= m.vaddr
    BY MapForms, Addresses, OpenHeader
  <2>6. Baddr = TextVaddr /\ Entry.vaddr = TextVaddr /\ Entry.paddr = O.off_text
    BY OpenFile DEF Baddr, Entry
  <2>7. ASSUME NEW m \in Maps
        PROVE  /\ m.vaddr >= Baddr
               /\ m.name = "text" => m.vaddr = Entry.vaddr /\ m.paddr = Entry.paddr
    BY <2>6, MapForms, Addresses, OpenHeader
  <2>8. QED
    BY <2>3, <2>4, <2>5, <2>6, <2>7 DEF LayoutAgrees
<1>2. QED
  BY <1>1, Invariance, PTL

-----------------------------------------------------------------------------
-----------------------------------------------------------------------------
(* One relocation, at word i of a segment.                                    *)
RelocAt(i, table, paddr, vaddr) ==
  LET w == Le16(table + 2 * i)
      type == RelType(w)
      symnum == w \div 16
      name == IF type = REL_UNDEXT THEN SymName(symnum) ELSE NULL
  IN [vaddr |-> vaddr + 2 * i, paddr |-> paddr + 2 * i,
      bits |-> IF w % 2 = 1 THEN 8 ELSE 16,
      import |-> IF name = NULL THEN NULL ELSE [ordinal |-> symnum, name |-> name],
      target |-> Target(type)]

LEMMA RelocForms ==
  ASSUME IInv, Opened, NEW r \in Relocs
  PROVE  \/ \E i \in 0 .. H.text - 1 : r = RelocAt(i, OffTextReloc, O.off_text, TextVaddr)
         \/ \E i \in 0 .. H.data - 1 : r = RelocAt(i, OffDataReloc, O.off_data, DataVaddr)
<1>1. \/ r \in SegmentRelocs(OffTextReloc, H.text, O.off_text, TextVaddr)
      \/ r \in SegmentRelocs(OffDataReloc, H.data, O.off_data, DataVaddr)
  BY DEF Relocs
<1>2. QED
  BY <1>1 DEF SegmentRelocs, RelocAt

(* A relocation makes an import only of a symbol of the table that has a name. *)
LEMMA RelocImport ==
  ASSUME IInv, Opened, NEW i \in Nat, NEW table \in Nat, NEW paddr, NEW vaddr,
         NEW r, r = RelocAt(i, table, paddr, vaddr), r.import # NULL
  PROVE  \E k \in Ordinals :
           SymName(k) # NULL /\ r.import = [ordinal |-> k, name |-> SymName(k)]
<1> DEFINE w == Le16(table + 2 * i)
           symnum == w \div 16
           name == IF RelType(w) = REL_UNDEXT THEN SymName(symnum) ELSE NULL
<1>1. symnum \in Nat
  <2>1. w \in Nat
    BY Le16Type, WordNat DEF IInv
  <2>2. QED
    BY <2>1
<1>2. r.import = (IF name = NULL THEN NULL ELSE [ordinal |-> symnum, name |-> name])
  BY DEF RelocAt
<1> HIDE DEF w, symnum
<1>3. SymName(symnum) # NULL /\ r.import = [ordinal |-> symnum, name |-> SymName(symnum)]
  BY <1>2
<1>4. ~(symnum >= O.nsyms) /\ O.syms # NULL
  BY <1>3 DEF SymName
<1>5. symnum \in 0 .. O.nsyms - 1
  BY <1>1, <1>4, OpenFile
<1>6. QED
  BY <1>3, <1>4, <1>5, OpenFile DEF Ordinals

(* What a relocation names is in the symbol table, and its target a segment.   *)
LEMMA RelocMeans ==
  ASSUME IInv, Opened, NEW i \in Nat, NEW table \in Nat, NEW paddr, NEW vaddr
  PROVE  LET r == RelocAt(i, table, paddr, vaddr) IN
         /\ r.vaddr = vaddr + 2 * i /\ r.paddr = paddr + 2 * i
         /\ r.import # NULL => /\ r.import.ordinal \in Ordinals
                               /\ r.import.name = SymName(r.import.ordinal)
         /\ r.target # 0 => r.target \in {TextVaddr, DataVaddr, BssVaddr}
<1> DEFINE r == RelocAt(i, table, paddr, vaddr)
<1>1. /\ r.vaddr = vaddr + 2 * i /\ r.paddr = paddr + 2 * i
      /\ r.target = Target(RelType(Le16(table + 2 * i)))
  BY DEF RelocAt
<1> HIDE DEF r
<1>2. ASSUME r.import # NULL
      PROVE  r.import.ordinal \in Ordinals /\ r.import.name = SymName(r.import.ordinal)
  <2>1. PICK k \in Ordinals : r.import = [ordinal |-> k, name |-> SymName(k)]
    BY <1>2, RelocImport DEF r
  <2>2. QED
    BY <2>1
<1>3. r.target # 0 => r.target \in {TextVaddr, DataVaddr, BssVaddr}
  BY <1>1, Addresses DEF Target
<1>4. QED
  BY <1>1, <1>2, <1>3 DEF r

(* The four views that decide apart what an import is agree, for every symbol *)
(* table, and for any words in the relocation tables, also those written to   *)
(* the buffer after the load.                                                 *)
THEOREM ImportsCorrect == Spec => []ImportsAgree
<1>1. IInv => ImportsAgree
  <2> SUFFICES ASSUME IInv, Loaded PROVE ImportsAgree
    BY DEF ImportsAgree
  <2>1. Opened
    BY NullAssumption DEF IInv, Typed, Loaded
  <2> DEFINE undefined == {k \in Ordinals : Section(k) = N_UNDF /\ External(k)}
             Is(k) == Section(k) = N_UNDF /\ External(k) /\ Named(k)
             I(k) == [ordinal |-> k, name |-> SymName(k)]
  <2>2. Imports = {I(k) : k \in {k \in Ordinals : Is(k)}}
    BY DEF Imports
  <2>3. Imports = {[ordinal |-> s.ordinal, name |-> s.name]
                   : s \in {s \in Symbols : s.imported}}
    <3> DEFINE Listed(k) == Named(k) /\ (Section(k) # N_UNDF \/ External(k))
               S(k) == [ordinal |-> k, name |-> SymName(k), vaddr |-> 2 * Sym(k).value,
                        paddr |-> CASE Section(k) = N_TEXT -> TextPaddr(Sym(k).value)
                                    [] Section(k) = N_DATA -> DataPaddr(Sym(k).value)
                                    [] OTHER -> 0,
                        imported |-> Section(k) = N_UNDF /\ External(k)]
    <3>1. Symbols = {S(k) : k \in {k \in Ordinals : Listed(k)}}
      BY DEF Symbols
    <3>2. \A k : /\ [ordinal |-> S(k).ordinal, name |-> S(k).name] = I(k)
                 /\ S(k).imported = (Section(k) = N_UNDF /\ External(k))
      OBVIOUS
    <3>3. \A k : Is(k) <=> Listed(k) /\ S(k).imported
      BY <3>2
    <3> HIDE DEF S, I, Is, Listed
    <3>4. QED
      BY <2>2, <3>1, <3>2, <3>3
  <2>4. Kind = "REL (relocatable)" <=>
          H.flag = 0 /\ (Imports # {} \/ \E k \in undefined : ~Named(k))
    <3>1. Kind = "REL (relocatable)" <=> H.flag = 0 /\ undefined # {}
      BY DEF Kind
    <3>2. Imports # {} <=> \E k \in undefined : Named(k)
      BY <2>2
    <3>3. QED
      BY <3>1, <3>2
  <2>5. ASSUME NEW r \in Relocs, r.import # NULL
        PROVE  r.import \in Imports <=> r.import.ordinal \in undefined /\ r.import.name # ""
    <3>1. PICK k \in Ordinals : SymName(k) # NULL /\ r.import = I(k)
      <4>1. OffTextReloc \in Nat /\ OffDataReloc \in Nat /\ H.text \in Nat /\ H.data \in Nat
        BY <2>1, OpenHeader DEF OffZpReloc, OffTextReloc, OffDataReloc
      <4>2. PICK i \in Nat, table \in Nat,
                 paddr \in {O.off_text, O.off_data}, vaddr \in {TextVaddr, DataVaddr} :
              r = RelocAt(i, table, paddr, vaddr)
        BY <2>1, <2>5, <4>1, RelocForms
      <4>3. QED
        BY <2>1, <2>5, <4>2, RelocImport
    <3>2. I(k) \in Imports <=> Is(k)
      <4>1. \A j : I(j) = I(k) => j = k
        OBVIOUS
      <4> HIDE DEF I, Is
      <4>2. QED
        BY <2>2, <3>1, <4>1
    <3>3. Is(k) <=> k \in undefined /\ SymName(k) # ""
      BY <3>1 DEF Named
    <3>4. r.import.ordinal = k /\ r.import.name = SymName(k)
      BY <3>1
    <3> HIDE DEF I, Is, undefined
    <3>5. QED
      BY <3>1, <3>2, <3>3, <3>4
  <2>6. QED
    BY <2>3, <2>4, <2>5 DEF ImportsAgree
<1>2. QED
  BY <1>1, Invariance, PTL

(* Every relocation lies in the map of its segment, at matching addresses,    *)
(* and no two lie at one place, for any words in the tables, also those       *)
(* written to the buffer after the load.                                      *)
THEOREM RelocsCorrect == Spec => []RelocsFollowMaps
<1>1. IInv => RelocsFollowMaps
  <2> SUFFICES ASSUME IInv PROVE RelocsFollowMaps
    OBVIOUS
  <2>1. CASE ~Opened
    <3>1. Relocs = {}
      BY <2>1 DEF Relocs, Loaded, IInv, Typed
    <3>2. QED
      BY <3>1 DEF RelocsFollowMaps
  <2>2. CASE Opened
    <3> USE <2>2
    <3>1. OffTextReloc \in Nat /\ OffDataReloc \in Nat
      BY OpenHeader DEF OffZpReloc, OffTextReloc, OffDataReloc
    <3> DEFINE T(i) == RelocAt(i, OffTextReloc, O.off_text, TextVaddr)
               D(i) == RelocAt(i, OffDataReloc, O.off_data, DataVaddr)
               Good(r) ==
                 /\ \E m \in Maps : /\ r.vaddr \in m.vaddr .. m.vaddr + m.vsize - 2
                                    /\ r.paddr - m.paddr = r.vaddr - m.vaddr
                                    /\ m.psize > 0
                 /\ r.import # NULL => /\ r.import.ordinal \in Ordinals
                                       /\ r.import.name = SymName(r.import.ordinal)
                 /\ r.target # 0 => r.target \in {TextVaddr, DataVaddr, BssVaddr}
    <3>2. ASSUME NEW i \in 0 .. H.text - 1
          PROVE  Good(T(i)) /\ T(i).paddr = O.off_text + 2 * i
      <4>1. i \in Nat /\ i < H.text /\ H.text # 0
        BY OpenHeader
      <4> DEFINE m == [name |-> "text", vaddr |-> TextVaddr, vsize |-> 2 * H.text,
                       paddr |-> O.off_text, psize |-> 2 * H.text]
      <4>2. m \in Maps
        BY <4>1, OpenFile DEF Maps, Segment
      <4>3. T(i).vaddr = TextVaddr + 2 * i /\ T(i).paddr = O.off_text + 2 * i
        BY <3>1, <4>1, RelocMeans
      <4>4. /\ T(i).vaddr \in m.vaddr .. m.vaddr + m.vsize - 2
            /\ T(i).paddr - m.paddr = T(i).vaddr - m.vaddr
            /\ m.psize > 0
        BY <4>1, <4>3, OpenHeader, Addresses
      <4> HIDE DEF m
      <4>5. QED
        BY <3>1, <4>1, <4>2, <4>3, <4>4, RelocMeans
    <3>3. ASSUME NEW i \in 0 .. H.data - 1
          PROVE  Good(D(i)) /\ D(i).paddr = O.off_data + 2 * i
      <4>1. i \in Nat /\ i < H.data /\ H.data # 0
        BY OpenHeader
      <4> DEFINE m == [name |-> "data", vaddr |-> DataVaddr, vsize |-> 2 * H.data,
                       paddr |-> O.off_data, psize |-> 2 * H.data]
      <4>2. m \in Maps
        BY <4>1, OpenFile DEF Maps, Segment
      <4>3. D(i).vaddr = DataVaddr + 2 * i /\ D(i).paddr = O.off_data + 2 * i
        BY <3>1, <4>1, RelocMeans
      <4>4. /\ D(i).vaddr \in m.vaddr .. m.vaddr + m.vsize - 2
            /\ D(i).paddr - m.paddr = D(i).vaddr - m.vaddr
            /\ m.psize > 0
        BY <4>1, <4>3, OpenHeader, Addresses
      <4> HIDE DEF m
      <4>5. QED
        BY <3>1, <4>1, <4>2, <4>3, <4>4, RelocMeans
    <3> HIDE DEF T, D
    <3>4. ASSUME NEW r \in Relocs
          PROVE  \/ \E i \in 0 .. H.text - 1 : r = T(i)
                 \/ \E i \in 0 .. H.data - 1 : r = D(i)
      BY RelocForms DEF T, D
    <3>5. ASSUME NEW r \in Relocs PROVE Good(r)
      BY <3>2, <3>3, <3>4
    <3> HIDE DEF Good
    <3>6. ASSUME NEW r \in Relocs, NEW q \in Relocs, r.paddr = q.paddr PROVE r = q
      <4>1. ASSUME NEW i \in 0 .. H.text - 1, NEW j \in 0 .. H.data - 1
            PROVE  T(i).paddr # D(j).paddr
        BY <3>2, <3>3, OpenHeader
      <4>2. ASSUME NEW i \in 0 .. H.text - 1, NEW j \in 0 .. H.text - 1,
                   T(i).paddr = T(j).paddr
            PROVE  i = j
        BY <3>2, <4>2, OpenHeader
      <4>3. ASSUME NEW i \in 0 .. H.data - 1, NEW j \in 0 .. H.data - 1,
                   D(i).paddr = D(j).paddr
            PROVE  i = j
        BY <3>3, <4>3, OpenHeader
      <4>4. QED
        BY <3>4, <3>6, <4>1, <4>2, <4>3
    <3>7. QED
      BY <3>5, <3>6 DEF RelocsFollowMaps, Good
  <2>3. QED
    BY <2>1, <2>2
<1>2. QED
  BY <1>1, Invariance, PTL

-----------------------------------------------------------------------------
(* The file position of a symbol is the position of its segment and twice the *)
(* distance into it, as long as that is not negative.                         *)
LEMMA Positions ==
  ASSUME IInv, Opened, NEW v \in Word
  PROVE  /\ TextPaddr(v) = Shifted(Ut64, O.off_text, v - H.entry)
         /\ DataPaddr(v) = Shifted(Ut64, O.off_data, v - H.entry - H.text)
  BY DEF TextPaddr, DataPaddr, Shifted, Ut, Rem

LEMMA PositionFollows ==
  ASSUME IInv, Opened, NEW v \in Word, NEW off \in Nat, NEW l \in Nat, NEW d \in Int,
         off \in {O.off_text, O.off_data}, l <= 131072, d = v - l
  PROVE  /\ v >= l => Shifted(Ut64, off, d) = off + 2 * (v - l)
         /\ Ut(Shifted(Ut64, off, d) + 2 * l) = Ut(off + 2 * v)
<1>1. v \in Nat /\ v < 65536
  BY WordNat
<1>2. Ut64 \in Nat /\ off + 524288 < Ut64
  BY OpenHeader, Ut64Assumption
<1>3. /\ v >= l => Shifted(Ut64, off, d) = off + 2 * d
      /\ Rem(Shifted(Ut64, off, d) + 2 * l, Ut64) = Rem(off + 2 * v, Ut64)
  BY <1>1, <1>2, Wrap
<1>4. QED
  BY <1>3 DEF Ut, Rem

(* A listed symbol.                                                           *)
LEMMA SymbolForms ==
  ASSUME IInv, Opened, NEW s \in Symbols
  PROVE  /\ s.ordinal \in Ordinals /\ Sym(s.ordinal).value \in Word
         /\ s.vaddr = 2 * Sym(s.ordinal).value
         /\ Section(s.ordinal) = N_TEXT => s.paddr = TextPaddr(Sym(s.ordinal).value)
         /\ Section(s.ordinal) = N_DATA => s.paddr = DataPaddr(Sym(s.ordinal).value)
<1>1. PICK k \in Ordinals :
        s = [ordinal |-> k, name |-> SymName(k), vaddr |-> 2 * Sym(k).value,
             paddr |-> CASE Section(k) = N_TEXT -> TextPaddr(Sym(k).value)
                         [] Section(k) = N_DATA -> DataPaddr(Sym(k).value)
                         [] OTHER -> 0,
             imported |-> Section(k) = N_UNDF /\ External(k)]
  BY DEF Symbols
<1>2. O.syms \in Seq(Symbol) /\ k + 1 \in 1 .. Len(O.syms)
  BY OpenFile DEF Ordinals
<1>3. O.syms[k + 1] \in Symbol
  BY <1>2, ElementOfSeq
<1>4. Sym(k).value \in Word
  BY <1>3 DEF Sym, Symbol
<1>5. N_TEXT # N_DATA
  BY DEF N_TEXT, N_DATA
<1>6. QED
  BY <1>1, <1>4, <1>5

(* A text or data symbol has the file position its segment's map gives its    *)
(* address, for every value of the symbol and every header.                   *)
THEOREM SymbolsCorrect == Spec => []SymbolsFollowMaps
<1>1. IInv => SymbolsFollowMaps
  <2> SUFFICES ASSUME IInv, NEW s \in Symbols, NEW m \in Maps,
                      \/ m.name = "text" /\ Section(s.ordinal) = N_TEXT
                      \/ m.name = "data" /\ Section(s.ordinal) = N_DATA
               PROVE  /\ Ut(s.paddr + m.vaddr) = Ut(m.paddr + s.vaddr)
                      /\ (s.vaddr \in m.vaddr .. m.vaddr + m.vsize - 1)
                         => s.paddr \in m.paddr .. m.paddr + m.psize - 1
    BY DEF SymbolsFollowMaps
  <2>1. Opened
    BY DEF Maps, Loaded, IInv, Typed
  <2> DEFINE v == Sym(s.ordinal).value
  <2>2. v \in Word /\ v \in Nat /\ s.vaddr = 2 * v
    BY <2>1, SymbolForms, WordNat
  <2>3. ASSUME NEW off \in Nat, NEW l \in Nat, NEW n \in Nat, NEW d \in Int,
               off \in {O.off_text, O.off_data}, l <= 131072, d = v - l,
               s.paddr = Shifted(Ut64, off, d),
               m.vaddr = 2 * l, m.paddr = off, m.vsize = 2 * n, m.psize = 2 * n
        PROVE  /\ Ut(s.paddr + m.vaddr) = Ut(m.paddr + s.vaddr)
               /\ (s.vaddr \in m.vaddr .. m.vaddr + m.vsize - 1)
                  => s.paddr \in m.paddr .. m.paddr + m.psize - 1
    <3> HIDE DEF v
    <3>1. /\ v >= l => s.paddr = off + 2 * (v - l)
          /\ Ut(s.paddr + 2 * l) = Ut(off + 2 * v)
      BY <2>1, <2>2, <2>3, PositionFollows
    <3>2. ASSUME s.vaddr \in m.vaddr .. m.vaddr + m.vsize - 1
          PROVE  s.paddr \in m.paddr .. m.paddr + m.psize - 1
      <4>1. v >= l /\ 2 * v <= 2 * l + 2 * n - 1
        BY <2>2, <2>3, <3>2
      <4>2. QED
        BY <2>2, <2>3, <3>1, <4>1
    <3>3. QED
      BY <2>2, <2>3, <3>1, <3>2
  <2>4. CASE m.name = "text" /\ Section(s.ordinal) = N_TEXT
    <3>1. /\ m.vaddr = 2 * H.entry /\ m.paddr = O.off_text
          /\ m.vsize = 2 * H.text /\ m.psize = 2 * H.text
      BY <2>1, <2>4, MapForms, Addresses
    <3>2. s.paddr = Shifted(Ut64, O.off_text, v - H.entry)
      BY <2>1, <2>2, <2>4, SymbolForms, Positions
    <3>3. H.entry \in Nat /\ H.text \in Nat /\ O.off_text \in Nat /\ H.entry <= 131072
          /\ v - H.entry \in Int
      BY <2>1, <2>2, OpenHeader
    <3>4. QED
      BY <2>3, <3>1, <3>2, <3>3
  <2>5. CASE m.name = "data" /\ Section(s.ordinal) = N_DATA
    <3>1. /\ m.vaddr = 2 * (H.entry + H.text) /\ m.paddr = O.off_data
          /\ m.vsize = 2 * H.data /\ m.psize = 2 * H.data
      <4>1. 2 * (H.entry + H.text) = DataVaddr
        BY <2>1, OpenHeader, Addresses
      <4>2. QED
        BY <2>1, <2>5, <4>1, MapForms
    <3>2. s.paddr = Shifted(Ut64, O.off_data, v - H.entry - H.text)
      BY <2>1, <2>2, <2>5, SymbolForms, Positions
    <3>3. /\ H.entry + H.text \in Nat /\ H.data \in Nat /\ O.off_data \in Nat
          /\ H.entry + H.text <= 131072 /\ v - H.entry - H.text \in Int
          /\ v - H.entry - H.text = v - (H.entry + H.text)
      BY <2>1, <2>2, OpenHeader
    <3>4. QED
      BY <2>3, <3>1, <3>2, <3>3
  <2>6. QED
    BY <2>4, <2>5
<1>2. QED
  BY <1>1, Invariance, PTL

(* The symbol aout16_binsym takes for main is in the symbol list, and at the  *)
(* place it is listed at when it is a text or data symbol: the two positions  *)
(* of a data symbol are computed from different ends.                         *)
THEOREM MainCorrect == Spec => []MainIsListed
<1>1. IInv => MainIsListed
  <2> SUFFICES ASSUME IInv, Loaded, Main # NULL, Section(Main.ordinal) \in {N_TEXT, N_DATA}
               PROVE  \E s \in Symbols : /\ s.ordinal = Main.ordinal
                                         /\ s.vaddr = Main.vaddr /\ s.paddr = Main.paddr
    BY DEF MainIsListed
  <2>1. Opened
    BY DEF Loaded, IInv, Typed
  <2> DEFINE mains == {k \in Ordinals : SymName(k) \in MainNames}
             k == CHOOSE k \in mains : \A j \in mains : k <= j
  <2>2. mains # {} /\ Main = [ordinal |-> k, vaddr |-> 2 * Sym(k).value,
                              paddr |-> TextPaddr(Sym(k).value)]
    BY DEF Main
  <2>3. k \in mains
    <3>1. mains \in SUBSET Nat
      BY <2>1, OpenFile DEF Ordinals
    <3> HIDE DEF mains
    <3>2. \E n \in mains : \A j \in mains : n <= j
      <4> DEFINE R == {ss \in Nat \X Nat : ss[1] < ss[2]}
      <4>1. IsWellFoundedOn(R, Nat)
        BY NatLessThanWellFounded DEF OpToRel
      <4>2. PICK n \in mains : \A j \in mains : <<j, n>> \notin R
        BY <2>2, <3>1, <4>1, WFMin
      <4>3. ASSUME NEW j \in mains PROVE n <= j
        <5>1. j \in Nat /\ n \in Nat
          BY <3>1
        <5>2. j < n => <<j, n>> \in R
          BY <5>1
        <5>3. ~(j < n)
          BY <4>2, <5>2
        <5>4. QED
          BY <5>1, <5>3
      <4>4. QED
        BY <4>3
    <3>3. QED
      BY <3>2
  <2>4. k \in Ordinals /\ SymName(k) \notin {NULL, ""}
    BY <2>3, NamesAssumption
  <2> HIDE DEF k, mains
  <2>5. Main.ordinal = k /\ Main.vaddr = 2 * Sym(k).value /\ Main.paddr = TextPaddr(Sym(k).value)
    BY <2>2
  <2>6. Section(k) \in {N_TEXT, N_DATA} /\ Section(k) # N_UNDF
    BY <2>5 DEF N_TEXT, N_DATA, N_UNDF
  <2> DEFINE s == [ordinal |-> k, name |-> SymName(k), vaddr |-> 2 * Sym(k).value,
                   paddr |-> CASE Section(k) = N_TEXT -> TextPaddr(Sym(k).value)
                               [] Section(k) = N_DATA -> DataPaddr(Sym(k).value)
                               [] OTHER -> 0,
                   imported |-> Section(k) = N_UNDF /\ External(k)]
  <2>7. s \in Symbols
    BY <2>4, <2>6 DEF Symbols, Named
  <2>8. s.ordinal = k /\ s.vaddr = 2 * Sym(k).value
    OBVIOUS
  <2> HIDE DEF s
  <2>9. s.paddr = TextPaddr(Sym(k).value)
    <3>1. CASE Section(k) = N_TEXT
      BY <2>1, <2>7, <2>8, <3>1, SymbolForms
    <3>2. CASE Section(k) = N_DATA
      <4> DEFINE v == Sym(k).value
      <4>1. v \in Word /\ v \in Nat /\ v < 65536 /\ s.paddr = DataPaddr(v)
        BY <2>1, <2>7, <2>8, <3>2, SymbolForms, WordNat
      <4>2. /\ TextPaddr(v) = Shifted(Ut64, O.off_text, v - H.entry)
            /\ DataPaddr(v) = Shifted(Ut64, O.off_data, v - H.entry - H.text)
        BY <2>1, <4>1, Positions
      <4> HIDE DEF v
      <4> DEFINE d == v - H.entry
                 e == v - H.entry - H.text
      <4>3. /\ d \in Int /\ e \in Int /\ -131072 <= d /\ -131072 <= e
            /\ d < 65536 /\ e < 65536
            /\ O.off_data + 2 * e = O.off_text + 2 * d
        BY <2>1, <4>1, OpenHeader
      <4>4. /\ Ut64 \in Nat /\ O.off_text \in Nat /\ O.off_data \in Nat
            /\ O.off_text + 524288 < Ut64 /\ O.off_data + 524288 < Ut64
        BY <2>1, OpenHeader, Ut64Assumption
      <4> HIDE DEF d, e
      <4>5. Shifted(Ut64, O.off_text, d) = Shifted(Ut64, O.off_data, e)
        <5>1. /\ Shifted(Ut64, O.off_text, d)
                   = IF O.off_text + 2 * d >= 0 THEN O.off_text + 2 * d
                     ELSE O.off_text + 2 * d + Ut64
              /\ Shifted(Ut64, O.off_data, e)
                   = IF O.off_data + 2 * e >= 0 THEN O.off_data + 2 * e
                     ELSE O.off_data + 2 * e + Ut64
          BY <4>3, <4>4, ShiftedIs
        <5>2. QED
          BY <4>3, <5>1
      <4>6. QED
        BY <4>1, <4>2, <4>5 DEF d, e, v
    <3>3. QED
      BY <2>6, <3>1, <3>2
  <2>10. QED
    BY <2>5, <2>7, <2>8, <2>9
<1>2. QED
  BY <1>1, Invariance, PTL

-----------------------------------------------------------------------------
(* aout16_load_buffer and aout16_destroy keep the promise BinPlugin makes.    *)
LEMMA HeapFinite == IInv => Cardinality(heap) \in Nat
<1> SUFFICES ASSUME IInv PROVE Cardinality(heap) \in Nat
  OBVIOUS
<1>1. heap \in SUBSET {"obj", "syms", "strtab"}
  BY HeapForm DEF IInv, Blocks
<1>2. IsFiniteSet({"obj", "syms", "strtab"})
  <2>1. IsFiniteSet({} \cup {"obj"})
    BY FS_EmptySet, FS_AddElement
  <2>2. IsFiniteSet(({} \cup {"obj"}) \cup {"syms"})
    BY <2>1, FS_AddElement
  <2>3. IsFiniteSet((({} \cup {"obj"}) \cup {"syms"}) \cup {"strtab"})
    BY <2>2, FS_AddElement
  <2>4. (({} \cup {"obj"}) \cup {"syms"}) \cup {"strtab"} = {"obj", "syms", "strtab"}
    OBVIOUS
  <2>5. QED
    BY <2>3, <2>4
<1>3. IsFiniteSet(heap)
  BY <1>1, <1>2, FS_Subset
<1>4. QED
  BY <1>3, FS_CardinalityType

THEOREM Refinement == Spec => ImplementsPlugin
<1>1. Init => Plugin!Init
  BY FS_EmptySet DEF Init, Plugin!Init
<1>2. IInv' => (Cardinality(heap) \in Nat)'
  BY HeapFinite, PTL
<1>3. IInv /\ IInv' /\ [Next]_vars => [Plugin!Next]_(Plugin!vars)
  <2> SUFFICES ASSUME IInv, IInv', [Next]_vars
               PROVE  [Plugin!Next]_(Plugin!vars)
    OBVIOUS
  <2> USE DEF Plugin!Next, Plugin!vars
  <2>1. Cardinality(heap) \in Nat /\ Cardinality(heap') \in Nat
    BY <1>2, HeapFinite
  <2>2. CASE Check
    BY <2>2 DEF Check
  <2>3. CASE Skip
    BY <2>3 DEF Skip, Forget
  <2>4. CASE LoadRefused
    <3>1. heap' = {}
      BY <2>4, AtRest DEF LoadRefused, Reading, Opened
    <3>2. QED
      BY <2>4, <3>1, FS_EmptySet DEF LoadRefused, Plugin!Fail
  <2>5. CASE ReadHeader
    BY <2>1, <2>5 DEF ReadHeader, Plugin!Begin
  <2>6. CASE BadMagic
    <3>1. heap' = {}
      <4>1. heap = {"obj"}
        BY <2>6, InHand DEF BadMagic, Reading, Blocks, IInv, Stages
      <4>2. QED
        BY <2>6, <4>1 DEF BadMagic
    <3>2. QED
      BY <2>6, <3>1, FS_EmptySet DEF BadMagic, Plugin!Fail
  <2>7. CASE AllocSymbols \/ ReadSymbol \/ SymbolsRead
    BY <2>1, <2>7 DEF AllocSymbols, ReadSymbol, SymbolsRead, Plugin!Work
  <2>8. CASE NoSymbols \/ ReadStrings
    <3>1. pc \in {"layout", "strings"} /\ pc' = "open"
      BY <2>8 DEF NoSymbols, ReadStrings, Deliver
    <3>2. bin_obj' # NULL
      BY <3>1, NullAssumption DEF IInv, Typed, Opened
    <3>3. QED
      BY <2>1, <3>1, <3>2 DEF Plugin!Succeed
  <2>9. CASE Patch
    BY <2>9 DEF Patch
  <2>10. CASE Destroy
    <3>1. bin_obj' = NULL /\ pc' = "idle" /\ pc \in {"open", "failed"}
      BY <2>10 DEF Destroy, Forget
    <3>2. heap' = {}
      BY <3>1 DEF IInv, Typed, HeapExact, Reading, Opened
    <3>3. QED
      BY <3>1, <3>2, FS_EmptySet DEF Plugin!Close
  <2>11. CASE UNCHANGED vars
    BY <2>11 DEF vars
  <2>12. QED
    BY <2>2, <2>3, <2>4, <2>5, <2>6, <2>7, <2>8, <2>9, <2>10, <2>11 DEF Next, Parse
<1>4. QED
  BY <1>1, <1>3, Invariance, PTL DEF Spec, ImplementsPlugin, Plugin!Spec

-----------------------------------------------------------------------------
(* What check_buffer said, followed through the load that tests the magic     *)
(* again.                                                                     *)
Claims == file.words # <<>> /\ file.words[1] = MAGIC

Claimed ==
  /\ pc = "checked" /\ accepted => Claims
  /\ ~fault =>
       /\ pc = "checked" => (accepted <=> Claims)
       /\ Reading => Size >= HDRSZ /\ (accepted <=> obj.h.magic = MAGIC)
       /\ pc = "open" => accepted /\ Size >= HDRSZ
       /\ pc = "failed" => ~(accepted /\ Size >= HDRSZ)

LEMMA ReadHeaderClaims == IInv /\ Claimed /\ ReadHeader => Claimed'
<1> SUFFICES ASSUME IInv, Claimed, ReadHeader, ~fault' PROVE Claimed'
  BY DEF ReadHeader, Claimed
<1>1. PICK bad \in Failing(Header) :
        LET h == [n \in Header |-> IF n \in bad THEN 0 ELSE Le16(FieldAt[n])] IN
        /\ obj' = [h |-> h, off_text |-> OffText(h), off_data |-> OffData(h),
                   nsyms |-> h.syms \div 4, syms |-> NULL,
                   strtab |-> NULL, strtab_size |-> 0]
        /\ fault' = (fault \/ bad # {})
  BY DEF ReadHeader
<1>2. bad = {} /\ ~fault
  BY <1>1 DEF IInv, Typed
<1>3. pc = "checked" /\ pc' = "layout" /\ Size >= HDRSZ /\ UNCHANGED <<file, accepted>>
  BY DEF ReadHeader
<1>4. obj'.h.magic = Le16(0)
  BY <1>1, <1>2 DEF Header, FieldAt
<1>5. Size = 2 * Len(file.words) /\ Len(file.words) \in Nat
  BY SizeNat DEF Size, IInv
<1>6. file.words # <<>>
  BY <1>3, <1>5 DEF HDRSZ
<1>7. Le16(0) = file.words[1]
  <2>1. 0 + 2 <= Size /\ 0 \div 2 + 1 = 1
    BY <1>3, <1>5 DEF HDRSZ
  <2>2. QED
    BY <2>1 DEF Le16
<1>8. QED
  BY <1>2, <1>3, <1>4, <1>6, <1>7 DEF Claimed, Claims, Reading, Size

\* What ReadStrings does but for the object it delivers.
LEMMA StringsRead ==
  IInv /\ ReadStrings => /\ pc = "strings" /\ pc' = "open" /\ UNCHANGED <<file, accepted>>
                         /\ ~fault' => ~fault
<1> SUFFICES ASSUME IInv, ReadStrings
             PROVE  /\ pc = "strings" /\ pc' = "open" /\ UNCHANGED <<file, accepted>>
                    /\ ~fault' => ~fault
  OBVIOUS
<1> DEFINE size(bad) == IF "size" \in bad THEN 0 ELSE Le32(OffStr(obj.h))
           fits(bad) == size(bad) >= 4 /\ OffStr(obj.h) + size(bad) <= Size
           table(bad, junk) ==
             IF ~fits(bad) \/ "malloc" \in bad THEN NULL
             ELSE IF "read" \in bad THEN [n \in DOMAIN file.names |-> junk]
             ELSE file.names
<1>1. PICK bad \in Failing({"size", "malloc", "read"}), junk \in Names :
        /\ Deliver([obj EXCEPT !.strtab_size = size(bad), !.strtab = table(bad, junk)])
        /\ fault' = (fault \/ bad # {})
  BY DEF ReadStrings
<1> DEFINE o == [obj EXCEPT !.strtab_size = size(bad), !.strtab = table(bad, junk)]
<1>2. Deliver(o)
  BY <1>1
<1> HIDE DEF o
<1>3. pc' = "open" /\ UNCHANGED <<file, accepted>>
  BY <1>2 DEF Deliver
<1>4. pc = "strings"
  BY DEF ReadStrings
<1>5. fault \in BOOLEAN /\ fault' = (fault \/ bad # {})
  BY <1>1 DEF IInv, Typed
<1>6. QED
  BY <1>3, <1>4, <1>5

LEMMA LoadClaims ==
  IInv /\ Claimed /\ (LoadRefused \/ BadMagic \/ NoSymbols \/ ReadStrings) => Claimed'
<1> SUFFICES ASSUME IInv, Claimed, LoadRefused \/ BadMagic \/ NoSymbols \/ ReadStrings
             PROVE  Claimed'
  OBVIOUS
<1>1. fault \in BOOLEAN /\ Size \in Nat
  BY SizeNat DEF IInv, Typed
<1>2. CASE LoadRefused
  BY <1>1, <1>2 DEF LoadRefused, Claimed, Reading, HDRSZ, Size
<1>3. CASE BadMagic
  BY <1>3 DEF BadMagic, Claimed, Reading
<1>4. CASE NoSymbols
  BY <1>4 DEF NoSymbols, Deliver, Claimed, Reading, Size
<1>5. CASE ReadStrings
  <2>1. /\ pc = "strings" /\ pc' = "open" /\ UNCHANGED <<file, accepted>>
        /\ ~fault' => ~fault
    BY <1>5, StringsRead
  <2>2. obj.h.magic = MAGIC
    BY <2>1 DEF IInv, Stages
  <2>3. QED
    BY <2>1, <2>2 DEF Claimed, Reading, Size
<1>6. QED
  BY <1>2, <1>3, <1>4, <1>5

LEMMA TableClaims ==
  IInv /\ Claimed /\ (AllocSymbols \/ ReadSymbol \/ SymbolsRead) => Claimed'
<1> SUFFICES ASSUME IInv, Claimed, AllocSymbols \/ ReadSymbol \/ SymbolsRead
             PROVE  Claimed'
  OBVIOUS
<1>1. pc \in {"layout", "syms"} /\ pc' \in {"syms", "strings"} /\ UNCHANGED <<file, accepted>>
  BY DEF AllocSymbols, ReadSymbol, SymbolsRead
<1>2. obj \in Object /\ fault \in BOOLEAN
  BY <1>1, InHand DEF Reading
<1>3. obj'.h = obj.h
  BY <1>2 DEF AllocSymbols, ReadSymbol, SymbolsRead, Object
<1>4. ~fault' => ~fault
  BY <1>2 DEF AllocSymbols, ReadSymbol, SymbolsRead
<1>5. QED
  BY <1>1, <1>3, <1>4 DEF Claimed, Reading, Size

LEMMA HostClaims ==
  IInv /\ Claimed /\ (Check \/ Skip \/ Patch \/ Destroy \/ UNCHANGED vars) => Claimed'
<1> SUFFICES ASSUME IInv, Claimed, Check \/ Skip \/ Patch \/ Destroy \/ UNCHANGED vars
             PROVE  Claimed'
  OBVIOUS
<1>1. CASE Check
  <2>1. PICK f \in Files, fails \in MayFail :
          /\ file' = f /\ fault' = fails
          /\ accepted' = (~fails /\ f.words # <<>> /\ f.words[1] = MAGIC)
    BY <1>1 DEF Check
  <2>2. pc' = "checked"
    BY <1>1 DEF Check
  <2>3. QED
    BY <2>1, <2>2 DEF Claimed, Claims, Reading
<1>2. CASE Skip \/ Destroy
  <2>1. pc' = "idle"
    BY <1>2 DEF Skip, Destroy, Forget
  <2>2. QED
    BY <2>1 DEF Claimed, Reading
<1>3. CASE Patch
  BY <1>3 DEF Patch, Claimed
<1>4. CASE UNCHANGED vars
  BY <1>4 DEF vars, Claimed, Claims, Reading, Size
<1>5. QED
  BY <1>1, <1>2, <1>3, <1>4

LEMMA AlwaysClaimed == Spec => []Claimed
<1>1. Init => Claimed
  BY DEF Init, Claimed, Reading
<1>2. IInv /\ Claimed /\ [Next]_vars => Claimed'
  BY ReadHeaderClaims, LoadClaims, TableClaims, HostClaims DEF Next, Parse
<1>3. QED
  BY <1>1, <1>2, Invariance, PTL DEF Spec

(* When nothing fails, a file loads exactly if check_buffer accepted it and   *)
(* it holds a header.                                                         *)
THEOREM LoadOutcomeCorrect == Spec => []LoadOutcome
<1>1. Claimed => LoadOutcome
  BY DEF Claimed, LoadOutcome, Opened
<1>2. QED
  BY <1>1, AlwaysClaimed, PTL

(* The magic is a control character that no tape has before its '!': whatever *)
(* follows it, and however much of it was read, bpun_check_buffer refuses.    *)
LEMMA MagicIsNoTape ==
  ASSUME NEW f, NEW n \in Nat, f[1] = 7
  PROVE  ~Tape!CheckBuffer(f, n)
<1> SUFFICES ASSUME n >= 4 PROVE ~Tape!CheckBuffer(f, n)
  BY DEF Tape!CheckBuffer
<1>1. Tape!Char(f[1]) = 7
  BY DEF Tape!Char
<1>2. 1 \in {i \in 1 .. n : \A j \in 1 .. i : Tape!Char(f[j]) # Tape!BANG}
  BY <1>1 DEF Tape!BANG
<1>3. 7 \in Tape!Before(f, n)
  BY <1>1, <1>2 DEF Tape!Before
<1>4. QED
  BY <1>3 DEF Tape!CheckBuffer, Tape!SPACE, Tape!NUL, Tape!CR, Tape!LF

(* No file is claimed by both loaders.                                        *)
THEOREM ClaimsExclusive == Spec => []ClaimedByOne
<1>1. IInv /\ Claimed => ClaimedByOne
  <2> SUFFICES ASSUME IInv, Claimed, pc = "checked", accepted
               PROVE  ~Tape!CheckBuffer(Bytes, IF Size < 256 THEN Size ELSE 256)
    BY DEF ClaimedByOne
  <2>1. file.words # <<>> /\ file.words[1] = MAGIC
    BY DEF Claimed, Claims
  <2>2. file.words \in Seq(Word) /\ Len(file.words) \in Nat /\ Size = 2 * Len(file.words)
    BY SizeNat DEF IInv, Typed, Size
  <2>3. Len(file.words) > 0
    BY <2>1, <2>2, EmptySeq
  <2>4. Bytes[1] = 7
    BY <2>1, <2>2, <2>3 DEF Bytes, MAGIC
  <2>5. (IF Size < 256 THEN Size ELSE 256) \in Nat
    BY <2>2
  <2>6. QED
    BY <2>4, <2>5, MagicIsNoTape
<1>2. QED
  BY <1>1, Invariance, AlwaysClaimed, PTL
=============================================================================
