------------------------------ MODULE MCAout16 ------------------------------
(***************************************************************************)
(* Files for TLC: a.out16 files put together from their parts, over small  *)
(* segments, the symbols and relocation words the views tell apart, and    *)
(* headers that promise more than the file holds.                          *)
(***************************************************************************)
EXTENDS Aout16Views, SequencesExt

MCNames == {"", "_main", "_f", "size"}
MCMain == {"_main"}

Words(n, w) == [i \in 1 .. n |-> w]
Flat(s) == FlattenSeq(s)

\* A symbol table entry, and what the string table spells at each index.
Sym4(strx, type, value) == <<strx, 0, type, value>>
NameAt(n) == CASE n < 4 -> "size" [] n = 4 -> "_main" [] n = 10 -> "_f" [] OTHER -> ""

\* A whole file.  cut words are missing at its end.
MkFile(zp, text, data, bss, flag, entry, nsymw, relocs, syms, strsize, cut) ==
  LET all == <<MAGIC, text, data, bss, nsymw, entry, zp, flag>>
             \o Words(zp, 7) \o Words(text, 8) \o Words(data, 9)
             \o (IF flag = 0 THEN relocs ELSE <<>>)
             \o Flat(syms) \o <<strsize, 0>> \o Words(4, 0)
      words == SubSeq(all, 1, Len(all) - cut)
  IN [words |-> words, names |-> [n \in 0 .. 2 * Len(words) - 1 |-> NameAt(n)]]

\* Undefined (external or not), text, data, bss and absolute symbols, before, at
\* and past the segments of a program that starts at word 3; no name, no such name.
SymSet == {
  Sym4(4, 32, 0), Sym4(10, 0, 3), Sym4(10, 34, 3), Sym4(4, 2, 4), Sym4(4, 3, 5),
  Sym4(10, 35, 0), Sym4(0, 36, 6), Sym4(5, 32, 0), Sym4(200, 33, 1) }

\* Absolute, text, bss byte, data, and undefined with symbol 0, 1 or a missing one.
RelSet == {0, 10, 4, 9, 6, 12, 28, 60}

SymFiles ==
  {MkFile(zp, text, data, bss, flag, 3, 8, Words(zp + text + data, 4), <<a, b>>, 12, 0)
     : zp \in 0 .. 1, text \in {0, 2}, data \in 0 .. 1, bss \in 0 .. 1,
       flag \in 0 .. 1, a \in SymSet, b \in SymSet}

\* The relocation words of zero page, text and data, one each; symbol 0 is undefined:
\* external, external without a name, or local.
RelFiles ==
  {MkFile(1, 1, 1, 1, 0, 3, 8, <<z, t, d>>, <<sym, Sym4(4, 34, 3)>>, 12, 0)
     : z \in {0, 4}, t \in RelSet, d \in RelSet,
       sym \in {Sym4(10, 32, 0), Sym4(5, 32, 0), Sym4(10, 0, 0)}}

\* Sizes that promise more than the file holds, at every cut.
CutFiles ==
  {MkFile(1, 2, 1, 0, flag, entry, nsymw, Words(4, 4), <<Sym4(4, 2, 4)>>, strsize, cut)
     : flag \in {0, 2}, entry \in {0, 65535}, nsymw \in {0, 3, 4, 5, 8},
       strsize \in {0, 3, 12, 13}, cut \in {0, 1, 4, 5, 6, 7, 20}}

\* Files that end with their header or a word before, and whose sizes spell the
\* digits and the slash of a tape, with a '!' (33) and without; and one that
\* begins otherwise.
HeaderFiles ==
  {LET all == <<first, 12081, 12081, 0, 0, 0, 0, mark>>
   IN [words |-> SubSeq(all, 1, 8 - cut), names |-> [n \in 0 .. 15 - 2 * cut |-> ""]]
     : first \in {MAGIC, 12081}, mark \in {0, 33}, cut \in 0 .. 1}

MCFiles == SymFiles \cup RelFiles \cup CutFiles \cup HeaderFiles

MCFewFiles ==
  {MkFile(1, 1, 1, 0, 0, 3, 4, <<4, 28, 6>>, <<Sym4(4, 32, 0)>>, 12, 0),
   MkFile(0, 1, 0, 0, 1, 3, 8, <<>>, <<Sym4(4, 34, 3), Sym4(10, 35, 5)>>, 12, 0),
   MkFile(0, 0, 0, 0, 1, 3, 0, <<>>, <<>>, 0, 6),
   [words |-> <<MAGIC, 1>>, names |-> [n \in 0 .. 3 |-> ""]],
   [words |-> <<8, 1, 0, 0, 0, 0, 0, 0>>, names |-> [n \in 0 .. 15 |-> ""]]}
=============================================================================
