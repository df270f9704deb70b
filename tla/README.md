# A TLA+ model of the ND-100 plugins for Rizin

This directory specifies the C code under `src/`: five plugins that teach the
Rizin reverse-engineering framework the Norsk Data ND-100 and ND-110. The
modules are checked with TLC; the theorems in `BpunProofs.tla`, `Aout16Proofs.tla`,
`AsmProofs.tla`, `AddrModeProofs.tla`, `AnalysisProofs.tla`, `EsilProofs.tla` and
`HostProofs.tla` with TLAPS.

## 1. The system

Every plugin is a table of C functions which the host, Rizin, calls on one
thread. The plugins start no threads of their own and keep no global state.
What they keep between calls hangs on the open file or in the host's settings.

| Part | Source | State | Operations | Module |
|---|---|---|---|---|
| BPUN loader | `rz_bin_bpun.c` | one heap object per open file; inside `bpun_parse` a read position, a digit buffer and two addresses | `check_buffer`, `load_buffer`, `destroy`; views `baddr`, `entries`, `maps`, `sections`, `info` | `BpunLoader`, `BpunTape` |
| a.out16 loader | `rz_bin_aout16.c` | one object with up to two further blocks, symbols and strings; `relocs` reads the file's buffer again | the same and `symbols`, `imports`, `relocs`, `binsym`, `fields`, `header` | `Aout16Loader`, `Aout16Views` |
| Decoder | `nd100_disasm.c` | none | word and processor to text; is it a branch, and where to | `Nd100Disasm` |
| Assembler plugin | `rz_asm_nd100.c` | none; reads `a->big_endian` and `a->cpu` | `assemble`, `disassemble` | `Nd100Asm`, `AsmPlugin` |
| MON and IOX tables | `moncalls.c`, `iodevs.c` | none | number to name, or none | `Nd100Listing` |
| Analysis plugin | `rz_analysis_nd100.c` | none; reads `a->big_endian` | classify a word, its targets and size, an emulation program; patterns that begin a routine | `Nd100Analysis`, `Nd100Esil` |
| Pseudo-code parser | `rz_parse_nd100.c` | none | a listed line to pseudo-code | `Nd100Parse` |
| Host | not in this repository | open file, settings; addresses analysed; registers and memory of an emulation | the calls above | the environment actions; `AnalysisHost` |

How they interact: the host offers a file to each loader's `check_buffer`, hands
it to `load_buffer` of one that accepts it (or of one the user names), asks for
the views as often as it likes and calls `destroy`. A loader's views say which
bytes are code; the host then calls `disassemble` on them, `assemble` on a line
the user wrote or took from the listing, and the analysis plugin on the same
words, follows the targets it reports, and runs its emulation programs. The decoder
is called by the assembler plugin and by the analysis; the pseudo-code parser gets
its lines.

What is hard here is not concurrency but agreement and failure:

* the preamble of a BPUN tape is read one byte at a time with a meaning that
  depends on everything before it, and any read may fail in between;
* several functions compute the same thing apart: file positions by the load and
  by the relocation view, addresses by maps, entries and symbols, imports in four
  places, opcodes by the decoder, the assembler, the analysis and the pseudo-code;
* one cursor is shared by the 29 stages of `assemble`, and a stage that fails
  leaves it where it stopped;
* 16-bit words, negative differences made unsigned, a `char` whose sign is the
  platform's;
* settings and buffers that change between two calls on the same data.

`PROJECT.json` lists each such hazard at its line with the properties that watch it.

What makes each part correct:

* loaders: a load succeeds exactly for the files the format calls complete; no file
  is claimed by both; a
  failing load leaves nothing on the heap; the object is constant while the file
  is open; every view agrees with the maps;
* decoder and assembler: a listed line assembles to a word that lists as the same
  line; only lines without an assembler spelling are refused; an operand never
  changes the operation; both ways to write an addressing mode are one;
* analysis: control goes from a word where its listed line says; the condition it
  is labelled with, its emulation program and its pseudo-code say the same; operands
  are not taken for code; an emulation stays on what was analysed.

## 2. The modules

`BinPlugin` is the abstract specification of a loader as its host sees it:
closed, loading, open or failed; an object that appears only when a load
succeeds; no heap block after a failure or after closing. `BpunLoader` and
`Aout16Loader` are shown to implement it: in `BpunProps` and `Aout16Views` an
instance `Plugin` maps their control state, object and heap to its variables, and
`ImplementsPlugin` is its specification, checked by TLC and proved for both.

`BpunLoader`. A file is a sequence of bytes. `pc` is the place of the control:
`idle`, `checked` after `check_buffer`, `scan` in the preamble loop, `header`
after it, `open` or `failed` after the return. The locals of `bpun_parse` are the
variables `pos`, `num` (`tmpstr`: how many digits, the value `strtol` gives, and
whether an 8 or a 9 stopped it), `load_addr` and `last_value`; `obj` is the
object under construction, `bin_obj` the one the host holds, `live` the number of
heap blocks. One action is one iteration of the loop (`ReadBang`, `ReadSlash`,
`ReadDigit`, `ReadReturn`, `ReadOther`), its end without a `!` (`LeaveScan`), or
a branch of the header code (`HeaderFails`, `DataHeader`, `FloMonHeader`,
`NoDataHeader`), each with the return through `load_buffer`. The views are the
operators `Baddr`, `Entry` and `Map`, the last for maps and sections, which are
the same range. `fault` and the locals kept until `destroy` are there for the
properties to look at. With `Faults`, reads and allocations fail where the code
calls them; `Uninit` is what the unwritten bytes `ck` and `cnt` may hold after an
unchecked read that failed. `BpunTape` keeps `bpun_check_buffer` apart, because the
host asks it about every file: `ClaimedByOne` in `Aout16Views` puts it to the a.out16
files, and `aout_safety` includes some whose words spell a tape's characters.

`Aout16Loader`. Everything is read at even offsets, so a file is a sequence of
words and a function from string index to name. `ReadHeader` reads the eight
words, `BadMagic`, `NoSymbols`, `AllocSymbols`, `ReadSymbol` (once per symbol),
`SymbolsRead` and `ReadStrings` are the rest of `aout16_parse`. `heap` is the set
of blocks the plugin owns. `Patch` is the user writing into the buffer of the open
file. `Aout16Views` has one operator per view and the properties; `SegmentRelocs`
is the loop that `aout16_relocs` has twice.

`Nd100Disasm` is `nd100_disasm` as an operator from a word and a processor to a
sequence of tokens (mnemonics, registers, modes, numbers); blanks and octal digits
are left out. `Nd100Listing` adds the two byte orders and the comments out of the MON
and IOX tables. `Nd100Asm` is `assemble`: `Stage` is one stage and says where it
leaves the cursor, `Try` enters the next stage that knows the token there, and `Encode`
is the word after as many tries as the line has tokens, since each try takes one. `AsmPlugin` puts both
behind the two calls of the plugin, with the bytes at the cursor, the line at hand
and the two settings as state; `AsmProps` has the properties.

`Nd100Analysis` is `nd100_op` without its programs. The cascade of some 90 tests is a
sequence of rows, `OpRows`; `RowOf` is the first that a word matches, and `JumpOf`,
`FailOf`, `CondOf`, `StackOf`, `EndsBlock` are what the branches assign. `Nd100Esil`
has the programs (`Esil`, built by `esil_mem_ea` and its like) and the machine that
runs them. That machine is the host's. It is modelled from how the programs use it:
`==` leaves its truth on the stack, which JAP and JAF read, and sets what `$z` reads,
for JAZ and SKP; `pc` stands behind the instruction already, which is what JPL keeps
in L; registers have the 16 bits of the profile, the stack is wider. Its stack is a top
and the rest under it, an operator takes none, one or two elements off it, and its state
is one of running, passing (in a `?{` that was not entered) and stopped. The bits of `&`
are computed by halving, because the provers know nothing of `Bitwise`. `Nd100Parse` is
`nd100_parse`: which template a line gets and what fills it.

`AnalysisHost` puts them into a host with an image in memory. `Search` looks for the
patterns, `Analyse` takes one address off the list and adds the targets of its
operation, `Step` emulates one instruction, which may write to the image; the three
come in any order, and what was analysed is not analysed again when memory changes.
`AnalysisProps` has the properties. They look at all four readings of a word: the
listed line, the operation, the program run on concrete registers, the pseudo-code.

Since these modules are mostly tables, they were compared once with a build of the C
files, over all 65536 words: the text on both processors, the word or refusal for every
listed line, every field of the operation and every token of its program at two
addresses and two lengths, and the pseudo-code of every line. Nothing differed.

`MCBpun`, `MCAout16`, `MCAsm` and `MCAnalysis` hold the files, words, lines and
sessions TLC uses.

## 3. The runs

| Run | Question | Bounds |
|---|---|---|
| `bpun_safety` | Does the loop find what a reader of the whole preamble finds? Does exactly the right set of files load? Do entry and map agree? | every preamble of up to 5 characters over the 7 that matter (two digits and an 8, `/`, CR, `/` with its parity bit, LF), each before 7 tails; `tmpstr` of 3 digits and `LONG_MAX` 63, so that five characters reach both limits |
| `bpun_faults` | The same loader with failing reads and allocations: heap, maps, contract, termination | preambles of up to 2 characters and seven longer tapes (padding of up to 260 bytes, 17-bit numbers, long numbers, FloMon, two sections) |
| `aout_safety` | Do exactly the accepted files load, and does the tape loader leave them alone? Do symbols, imports, main and relocations agree with the maps and each other, also after a write? | segments of 0 to 2 words, 2 symbols from 9, relocation words of 8 kinds that may name one of 4 symbols, headers that promise more at 7 cuts, files that end at their header and spell a tape's characters; one write of 2 values anywhere |
| `aout_faults` | Heap, contract, termination with failing reads and allocations | 5 files |
| `asm_words` | Does every listed line come back, and is only the expected refused? | all 65536 words, both processors and byte orders, `char` signed |
| `asm_session` | The same with settings that change between listing and writing, and lines typed by hand | 37 words, 948 typed lines, numbers at, inside and beyond their fields, `char` unsigned |
| `ana_host` | Do the four readings of a word agree? Does following the targets find the code, and only the code? | 3118 words, which is every row of `nd100_op` and every word named in it, on both processors at byte addresses 0, 65536 and 131058, where an INIT ends with the space; 915 instructions, of every kind that has a program, before 3 words of memory, in both orders, with 4 sets of registers; every program of 4 words over 6 instructions, and 6 longer ones at two addresses, emulated for up to 5 steps |

Why these bounds are enough. The preamble loop distinguishes only the characters
of the alphabet, and remembers one number, two addresses and the start address;
five characters are enough for two locations and a boot address after them
(`2/0/2`), which is every way in which one mark overrides another. The a.out16 views treat each symbol and each relocation
word on its own, so two of each show every interplay, and segment sizes enter only
through sums. No row of the analysis tells words apart by their last six bits, but for
the words it names.
The three base addresses are those where a target leaves the address space below,
crosses bit 16, and leaves it above; the registers hold zero, both signs, and what
indexes into and out of the image. Five steps are a call, its return and a jump back.
64-bit arithmetic is taken modulo a smaller power of two (`Ut64`), larger than any
file plus its data, which is all the code's 64 bits are used for; the proofs hold
for every such modulus.

What each run would miss is checked too: every property is violated when one
plausible mistake is put into the modelled code. The mistakes are the operators
marked `Mutant` beside the definitions they change.

Runs that show a disagreement:

* `bpun_flomon`: comments at `rz_bin_bpun.c:12` and `:129` say a FloMon word has 4
  bytes; `bpun_entries` counts 2, so the entry of such a file lies at the wrong
  place unless it is the first word.
* `asm_roundtrip`: `README.md:126` says the entire instruction set round-trips;
  `ir_w` at `rz_asm_nd100.c:857-860` has a NULL in the middle, so that `TRR IIE`
  and five more register names, each for TRR, MCL and MST, are listed but refused.
  `RefusesOnlyUnknown` states exactly what is refused.
* `ana_classes`: the tables of types and families in `GETTING-STARTED.md:305-370`.
  LEAVE and ELEAV are looked for at the wrong words (`rz_analysis_nd100.c:509`); WAIT,
  NLZ, DNZ and SRB come behind `0xD200` and `0xD400` (679, 687), TRA, TRR, MCL and MST
  behind the four RADD rows (646-678), ROP NOOP behind RORA (640).
* `ana_prologue`: the comment at `rz_analysis_nd100.c:1026` and `README.md:166`; the
  pattern 0xC838 is a SWAP, COPY SL DA is 0xCC65, so no C function is found by it.
* `ana_comments`: what the comments of `rz_analysis_nd100.c` say of three instructions. TRA
  and TRR move between A and internal registers (738, 742), but their words run the
  programs of RADD and RADD CLD, whose rows (646, 656) have 0xD000 and 0xD040 for the octal
  0146000 and 0146100 of their comments: TRR IIE, 0xD045, copies 0 over A. MIN skips on
  zero (232, and `GETTING-STARTED.md:314`), but its program (241) compares with zero a sum
  that was not cut to 16 bits, so that 65535 becomes 65536 and the emulation never skips,
  which is also proved (`EndsIncrement`). The `pc += 4` behind it, which would go two bytes
  too far, is never reached.

Left as it is and visible in the properties: lines whose modifiers carry
(`Carries` in `AsmProps`, `rz_asm_nd100.c:714`); main symbols outside text and
data (`MainIsListed`); relocations that make an import of a symbol that is defined, local
or without a name (`ImportsAgree`); zero-page relocation words, which are passed over; the
words the analysis reads otherwise than the decoder (`Misread` in `AnalysisProps`, exactly
those); skips on GEQ, GRE and LSS, whose programs compare without a sign and go the other
way on operands of different sign, and on MGRE, LST and MLST, whose program tests equality
(`ConditionsAgree` states both); words whose program is that of another instruction
(`RunsAnother`, which `PseudoTellsStep` leaves out: TRA, TRR, and two user codes that
are taken for a return); targets
above 65535, which a `pc` of 16 bits cannot hold (`EmulationOnGraph` takes them modulo
65536, `AnalysisCoversEmulation` leaves them out; proving it is what brought them up).

`PseudoTellsStep` covers every other word that has a program: after the step every
register and the memory are what the line of pseudo-code makes of them, whatever it does
not speak of is unchanged, and `pc` is behind the instruction, at the target of a `goto`,
`call` or `return`, or, for a conditional line, where `ConditionsAgree` and
`EmulationOnGraph` say. Of the shifts only SHT has a program, and of its words only those
with bit 6 set (0xD840 to 0xD87F): 0xD800 to 0xD83F reach the row at line 733, which
calls them unknown and gives them none.

Further differences from the documents that no run is spent
on: `GETTING-STARTED.md:109-110` shows `2dd0` for `RADD CLD SA DA`, which is a TRA, where the
assembler makes 0xCC6D of it (`6dcc`), which lists as that line again, and the three
examples around it are right; `README.md:183` lists multi-section loading of BPUN files,
where `bpun_parse` reads the first section only, so that the rest is in no map
(`ROADMAP.md` has it as still to do); shifts other than SHT, half of SHT, DNZ, and RADD itself have no program, though
`GETTING-STARTED.md:399`, `:400` and `:403` list them; the pseudo-code shows the offset
behind `goto` and `NAME()` for a monitor call, where `README.md:152` shows an address and
`TRAP(name)`.

Fairness. The host may stop between calls, so nothing is assumed of it. A call that
was entered runs on to its return, since nothing in it blocks: weak fairness of
the steps of `bpun_parse` (`Scan \/ Finish`) and of `aout16_parse` (`Parse`). That
is all the two liveness properties `LoadReturns` use. The safety runs need none.

Deadlock is checked in every run of the loaders and the assembler: the host can
always close the file or move on. The runs of `MCAnalysis` end: an analysis when every
address it found has been looked at, an emulation at its bound or outside the image.

## 4. What is proved

`BpunProofs` proves for every set of files, every size of the digit buffer, every
`LONG_MAX` of at least 7, every modulus larger than a file and its data, and every
pattern of faults (the named assumptions in `BpunLoader`):

| Theorem | Statement |
|---|---|
| `Invariance` | `Spec => []IInv` |
| `TypeCorrect` | `Spec => []TypeOK` |
| `HeapBalanced` | `Spec => []NoLeak` |
| `LoadOutcomeCorrect` | `Spec => []LoadOutcome` |
| `MapCorrect` | `Spec => []MapAfterHeader` |
| `EntryCorrect` | `Spec => []EntryFollowsMap` |
| `PreambleCorrect` | `Spec => []PreambleRead` |
| `Refinement` | `Spec => ImplementsPlugin` |

The argument rests on one inductive invariant, `IInv`, the conjunction of `TypeOK`,
`NoLeak` and three parts that say what types cannot. `Progress`: while the preamble
is read there is no `!` before `pos`, and when it has been left without a fault,
`pos` is just past the first `!` or at the end; without it nothing ties the loop's
end to the file. `Shape`: a delivered object has the offset and size that one of
the three headers gives; without it nothing is known of a map. `AtRest`: between
files the variables have their initial values; without it a load would start from
an arbitrary position. There is one lemma per group of actions, one step per
action. `LoadOutcomeCorrect`, `MapCorrect` and `EntryCorrect` follow from `IInv`
in a single state. `Refinement` maps each action to a step of `BinPlugin` or a stutter.

`PreambleRead` says where the loop must end and nothing of the way there. What makes it
inductive is `ReadSoFar`: after p characters, `tmpstr` is what the digits since the last
mark make up (`Reads`), and `start`, `last_value` and `load_addr` are those of the marks up
to p (`Scanned`). It was checked by TLC over the files of `bpun_safety` before. Its lemmas
take one character at a time: what a digit, a mark or another character does to the digits under
way (`PlacesDigit`, `KeptDigit`, `NumberMore`, `NumberStops`), that a digit makes those before
it worth eight times as much (`ValueDigit`) and that saturating early or late is the
same (`SaturatedDigit`). `TextStays` says that all of this depends on the file only.

`Aout16Proofs` proves all that is checked of the a.out16 loader but its termination,
for every set of files and of names, every write to the buffer, every modulus above
16 * 65536, and with or without faults:

| Theorem | Statement |
|---|---|
| `Invariance` | `Spec => []IInv` |
| `TypeCorrect` | `Spec => []TypeOK` |
| `HeapOwned` | `Spec => []HeapExact` |
| `LoadOutcomeCorrect` | `Spec => []LoadOutcome` |
| `ClaimsExclusive` | `Spec => []ClaimedByOne` |
| `LayoutCorrect` | `Spec => []LayoutAgrees` |
| `ImportsCorrect` | `Spec => []ImportsAgree` |
| `RelocsCorrect` | `Spec => []RelocsFollowMaps` |
| `SymbolsCorrect` | `Spec => []SymbolsFollowMaps` |
| `MainCorrect` | `Spec => []MainIsListed` |
| `Refinement` | `Spec => ImplementsPlugin` |

Its `IInv` has four parts. `Typed`: an object there is exactly when the control state
says so. `Stages`: what of the two tables the object has at each stage of
`aout16_parse`, and that the magic was right; without it a string table could be
allocated over another. `HeapExact`, which is inductive once `Stages` holds. `Placed`:
the offsets kept in the object are those its header gives, and a table that is kept
lies inside the file; a write to the open buffer changes neither. The theorems about
views follow from `IInv` in a single state, since a view is a function of object and
buffer. `ImportsCorrect` needs it for the relocations: an import one of them makes names a
symbol of the table that has a name (`RelocImport`). `LoadOutcomeCorrect` and `ClaimsExclusive` need one thing more: that what
`check_buffer` said and what `aout16_parse` finds in the header are the same, which
`Claimed` carries from the one to the other. The proof needs of the names only that no
main symbol is called "" (`NamesAssumption`), and that NULL is no object and no array
(`NullAssumption`).

`NumberFacts` holds what both loaders rest on where a negative difference of two
addresses is cast to 64 bits, doubled and added: it wraps twice and comes back. It also
has induction in a form the provers can use, over a set of numbers instead of a predicate
(`SetInduction`), and from it that a recursive definition over the numbers has a function
(`NatRecursion`).

`AsmProofs` proves what follows for every set of words and of typed lines, either `char`,
and settings that change at any time:

| Theorem | Statement |
|---|---|
| `Invariance` | `Spec => []IInv` |
| `TypeCorrect` | `Spec => []TypeOK` |
| `BranchesCorrect` | `Spec => []BranchesListed` |
| `OperandsConfined` | `Spec => []OperandsStayInField` |
| `FormsEquivalent` (in `AddrModeProofs`) | `Spec => []BothFormsAgree` |

`IInv` is `Typing`, the types, and `Written`: right after a write the two bytes hold a
word that is listed as an operation the line names (`Fits`). `OperandsStayInField` alone
is not inductive: a write puts a word into the bytes that `Fits` knows and the types do
not. That `Assemble` keeps `Written` is the lemma `EncodeFits`, an
induction over the tries of the cascade. Its invariant, `TriedInv`, says that the tokens
left are tokens of the line, that after the first mnemonic only later stages are entered,
and that a word found fits. One lemma per kind of stage (`MemrefReads`,
`RegopReads`, ...) bounds the word the stage makes, whatever the numbers, and one per
group of opcodes (`MemrefOpens`, `RopOpens`, ...) says what the decoder lists for the
words between those bounds. Lines whose modifiers carry are excepted, in the
theorem as in the run (`Carries`). `BranchesCorrect` compares the decoder's cascade with
`nd100_is_branch` for every word.

`AddrModeProofs` takes a line with modes behind its number and the same line with them in front.
No token of either is a mnemonic but the first, so that `assemble` does no more
than its memory-reference stage (`MemrefEncode`). That stage gets as far as the number
exactly if every `I` stands where `parse_addrmode` looks for one (`ModesTaken`), which
holds of both lines or of neither, and the word depends only on which modes there are,
not on their order (`SameModes`).

`AnalysisProofs` is about `nd100_op` for every word, address, length and byte order;
`ana_host` looks at three base addresses. `BranchTargetInSpace`: a branch target is an
even address of the 128 KB, and the one its offset names if that is in it.
`TargetsReachable`: a target is unset or at most 14 bytes past the space, never a
negative number taken for a huge one, and the size is covered by the bytes at hand.
The module also has the facts about the table of rows that the next two need:
`RowOfIs` (the first row of a word is a row, and which names and types rows pair,
`Regular`), `FlowOfOp` (`Flow`: for each kind of operation, which targets it has,
and where), and `RowAgrees`: which words the cascade takes for a jump, a skip, the end of
a block, ENTR or INIT. Each of the 110 rows is shown to cover a range of words
(`RowSpans`) on which its kind is the kind of the words (`Good`); the exceptions are rows
that reach over words an earlier row has taken (`Orderly`).

`EsilProofs` runs the programs. Its theorem `EsilEnds`: for every word, every content of
registers, memory, stack, carry and comparison, the program of an operation leaves words
in the registers, writes only inside the image, and ends with `pc` in `Landings`: the
operation's jump, L for a return, behind the operation, or for Jcc and SKP one of two.
`Ends` says this of a program; it is proved for each way `nd100_op` builds one (a load,
a store, a guarded jump, a call, ...) with lemmas on how programs concatenate (`RunSet`,
`RunGoto`, `RunSkipped`, `RunStopped`). `Run` is a recursive function over the program,
and no lemma needs induction on it: the provers unfold programs of known length.
`TraceExists` shows that there is such a function at all. `EndsIncrement` shows that
the program of MIN does not skip, whatever memory holds.

`HostProofs` proves for every set of sessions (any image of up to 64K words anywhere in
the 128 KB, any registers, any number of steps, both byte orders and processors):

| Theorem | Statement |
|---|---|
| `HostInvariance` | `Spec => []IInv` |
| `TypeCorrect` | `Spec => []TypeOK` |
| `OnGraphAlways` | `Spec => []EmulationOnGraph` |
| `CoveredAlways` | `Spec => []AnalysisCoversEmulation` |
| `FlowFollowsAlways` | `CharSigned` implies `Spec => []FlowFollowsListing` |
| `InlineSkippedAlways` | `Spec => []InlineDataSkipped` |
| `PreludesAlways` | `Spec => []PreludesFound` |

`IInv` was first checked by TLC on the sessions of `ana_host`. Its parts: `Machinery`, the
image lies in the space and the registers hold words. `Worklist`: what is analysed or to
be analysed lies in the image, and nothing is both. `Bounded`: targets as
`TargetsReachable` has them. `Closed`: a mapped successor of an analysed operation is
analysed or on the list; without it an empty list says nothing. `Fresh`: until a store
changes the image, the operation kept for an address is the one its bytes give; without
it the step and the analysis could read different words. `WasStep`: the last step left
`pc` on a landing of its operation, which is what `EsilEnds` says of `Emulate`; without it
nothing ties `pc` to `last`. `EmulationOnGraph` follows because the landings of an
operation are among its successors (`LandsOnGraph`, from `Flow`);
`AnalysisCoversEmulation` because then `Fresh` makes them the successors of an analysed
operation, and `Closed` has those analysed once the list is empty.

The last three need more of the analysis, `Follow`, also checked first by TLC on
`ana_host`: everything analysed lies at an even address (`Even`), or a word would be read
across two; what is kept for an address is what `nd100_op` says of its word (`Said`,
whatever was stored since); everything analysed was led to (`Led`) by the entry, a pattern
or the successors of an analysed operation, without which `InlineDataSkipped` is
not inductive; and the patterns found are those of the image as it was. `OpSaid` reads
the successors of a word off `RowAgrees` (`Goes`). `DisasmTells` goes through the
decoder's own cascade and says which words list under each name that moves control
(`Reads`), and `LineShows` where such a line leads (`Shows`). The two divisions of the
words are made by different constants in different order; `WaysPart` lays one over the other, and they
part exactly at `MisreadWord`. `CharSigned` is a hypothesis of `FlowFollowsAlways` alone:
`numstr` prints a plain `char`, so that on a build with unsigned char the line shows
another offset than `nd100_op` uses.

Only model-checked:

* both `LoadReturns`, which need fairness;
* `WriteReadsBack` and `RefusesOnlyUnknown`, which `asm_words` checks for every word
  there is on both processors: the statement has no more values than TLC looked at,
  but for the typed lines, which are one of `asm_session`'s bounds;
* of `ana_host`, `ConditionsAgree` and `PseudoTellsStep`: they compare what a program or
  a line of pseudo-code means with the registers after a step, and need the full result
  of every program and the full text of every line, where the theorems need only where
  the program ends and what the line begins with. TLC looks at every instruction that has
  a program, in every addressing mode.

## 5. What is not modelled

Formatting (`bpun_info`, the constants of `aout16_info`, `aout16_header`, `aout16_fields`, the
names in the MON and IOX tables, blanks and digits of the pseudo-code); lines typed by
hand into the pseudo-code parser, which the host only hands listed ones; the program
of DNZ, which stands in a row no word reaches; allocations that fail inside a view, which only shorten its list; strings
character by character, so that a string table without a final NUL, or an index
into its size field, is a name like any other; in `assemble`, letter case,
hexadecimal numbers, words that only begin like a register name (the code looks at
their first letters), and addressing modes written against something that is not a
number. The host's own handling of maps that reach past the file is its business.

## 6. Plan

Done: the loaders with their contract and proofs; decoder, assembler, their
sessions and proofs; analysis, emulation and pseudo-code under one host; no file claimed twice.

Left: a host that takes an open file's code through the disassembler in the byte order
the loader reports and then through the analysis. The pieces are checked pairwise now:
views against the file in `Aout16Views` and `BpunProps`, bytes against words in
`AsmProps`, words against targets in `AnalysisProps`.
