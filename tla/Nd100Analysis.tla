--------------------------- MODULE Nd100Analysis ---------------------------
(***************************************************************************)
(* The analysis plugin's view of a word, src/rz_analysis_nd100.c: what     *)
(* kind of operation it is, where control goes from it, and which words    *)
(* begin a routine.  nd100_op is a cascade of tests: the first row of      *)
(* OpRows that a word matches decides.  Nearly every test compares the    *)
(* word with a constant after dropping some low bits.                      *)
(***************************************************************************)
EXTENDS Nd100Listing, FiniteSetsExt

UNSET == -1                  \* a target the operation does not have

MIN_OP_SIZE == 2
MAX_OP_SIZE == 14            \* the host hands over up to this many bytes
TEXT_ALIGN == 2

Signed(byte) == IF byte >= 128 THEN byte - 256 ELSE byte
Mode(w) == Field(w, 8, 3)

\* Mutant: the address wraps at 16 bits, as a word address would.
branch_target_16(addr, offset) ==
  LET target == addr + 2 * offset IN
  IF target < 0 THEN 0 ELSE 2 * ((target % 65536) \div 2)

\* Mutant: a target below the address space is left as it is.
branch_target_unclamped(addr, offset) ==
  LET target == addr + 2 * offset IN
  IF target < 0 THEN target ELSE 2 * ((target % 131072) \div 2)

branch_target(addr, offset) ==
  LET target == addr + 2 * offset IN
  IF target < 0 THEN 0 ELSE 2 * ((target % 131072) \div 2)

-----------------------------------------------------------------------------
\* A word w matches a row when they agree above the lowest `low` bits.
Row(name, low, at, type, family) ==
  [name |-> name, low |-> low, at |-> at, type |-> type, family |-> family]
Matches(w, row) == w \div 2^row.low = row.at \div 2^row.low

MemoryRows == <<
  Row("STZ", 11, \h0000, "STORE", "CPU"), Row("STA", 11, \h0800, "STORE", "CPU"),
  Row("STT", 11, \h1000, "STORE", "CPU"), Row("STX", 11, \h1800, "STORE", "CPU"),
  Row("STD", 11, \h2000, "STORE", "CPU"), Row("LDD", 11, \h2800, "LOAD", "CPU"),
  Row("STF", 11, \h3000, "STORE", "FPU"), Row("LDF", 11, \h3800, "LOAD", "FPU"),
  Row("MIN", 11, \h4000, "CJMP", "CPU"), Row("LDA", 11, \h4800, "LOAD", "CPU"),
  Row("LDT", 11, \h5000, "LOAD", "CPU"), Row("LDX", 11, \h5800, "LOAD", "CPU")>>

ArithmeticRows == <<
  Row("ADD", 11, \h6000, "ADD", "CPU"), Row("SUB", 11, \h6800, "SUB", "CPU"),
  Row("AND", 11, \h7000, "AND", "CPU"), Row("ORA", 11, \h7800, "OR", "CPU"),
  Row("FAD", 11, \h8000, "ADD", "FPU"), Row("FSB", 11, \h8800, "SUB", "FPU"),
  Row("FMU", 11, \h9000, "MUL", "FPU"), Row("FDV", 11, \h9800, "DIV", "FPU"),
  Row("MPY", 11, \hA000, "MUL", "CPU")>>

\* JMP and JPL go to a known address only without an addressing mode.
BranchRows == <<
  Row("JMP", 8, \hA800, "JMP", "CPU"), Row("JMP", 11, \hA800, "MJMP", "CPU"),
  Row("Jcc", 11, \hB000, "CJMP", "CPU"),
  Row("JPL", 8, \hB800, "CALL", "CPU"), Row("JPL", 8, \hBA00, "ICALL", "CPU"),
  Row("JPL", 11, \hB800, "UCALL", "CPU")>>

FrameRows == <<
  Row("ENTR", 0, \hC05D, "CJMP", "CPU"), Row("INIT", 0, \hC05C, "CJMP", "CPU"),
  Row("LEAVE", 0, \hC09E, "RET", "CPU"), Row("ELEAV", 0, \hC09F, "RET", "CPU"),
  Row("EXIT", 0, \hCC62, "RET", "CPU")>>

SkipRows ==
  [c \in 1 .. 8 |-> Row("SKP", 6, \hC000 + 256 * (c - 1), "CJMP", "CPU")]
  \o <<Row("decimal", 3, \hC050, "CJMP", "CPU"), Row("TSETP", 0, \hC14E, "CJMP", "CPU"),
       Row("RDUSP", 0, \hC14F, "CJMP", "CPU")>>

RopRows == <<
  Row("SWAP", 6, \hC800, "XCHG", "CPU"), Row("SWAP_CLD", 6, \hC840, "MOV", "CPU"),
  Row("SWAP_CM1", 6, \hC880, "XCHG", "CPU"), Row("SWAP_CM1_CLD", 6, \hC8C0, "NOT", "CPU"),
  Row("SWAP_other", 9, \hC800, "XCHG", "CPU"), Row("RAND", 6, \hCA00, "AND", "CPU"),
  Row("RAND_CLD", 6, \hCA40, "AND", "CPU"), Row("RAND_other", 9, \hCA00, "AND", "CPU"),
  Row("REXO", 9, \hCC00, "XOR", "CPU"), Row("RORA", 9, \hCE00, "OR", "CPU"),
  Row("RADD", 6, \hD000, "ADD", "CPU"), Row("RADD_CLD", 6, \hD040, "MOV", "CPU"),
  Row("RADD_CM1", 6, \hD080, "SUB", "CPU"), Row("RADD_CM1_CLD", 6, \hD0C0, "MOV", "CPU"),
  Row("RADD_AD1", 9, \hD200, "ADD", "CPU"), Row("RSUB", 6, \hD180, "SUB", "CPU"),
  Row("RADD_ADC", 9, \hD400, "ADD", "CPU"), Row("ROP_NOOP", 6, \hCFC0, "NOP", "CPU")>>

\* The last row names no family, and stands before the shifts it covers.
ByteRows == <<
  Row("RMPY", 6, \hC280, "MUL", "CPU"), Row("RDIV", 6, \hC380, "DIV", "CPU"),
  Row("LBYT", 6, \hC480, "LOAD", "CPU"), Row("SBYT", 6, \hC580, "STORE", "CPU"),
  Row("MOVB", 0, \hC058, "MOV", "CPU"), Row("MOVBF", 0, \hC059, "MOV", "CPU"),
  Row("BFILL", 0, \hC05A, "MOV", "CPU"), Row("MOVEW", 6, \hC640, "MOV", "CPU"),
  Row("EXR", 6, \hC180, "UNK", "CPU"), Row("RADD_block", 6, \hD800, "UNK", "UNKNOWN")>>

SystemRows == <<
  Row("TRA", 4, \hD000, "MOV", "PRIV"), Row("TRR", 4, \hD040, "MOV", "PRIV"),
  Row("MCL", 4, \hD080, "AND", "PRIV"), Row("MST", 4, \hD0C0, "OR", "PRIV"),
  Row("OPCOM", 0, \hD100, "SWI", "PRIV"), Row("IOF", 0, \hD101, "NOP", "PRIV"),
  Row("ION", 0, \hD102, "NOP", "PRIV"), Row("POF", 0, \hD104, "NOP", "PRIV"),
  Row("PIOF", 0, \hD105, "NOP", "PRIV"), Row("SEX", 0, \hD106, "NOP", "PRIV"),
  Row("REX", 0, \hD107, "NOP", "PRIV"), Row("PON", 0, \hD108, "NOP", "PRIV"),
  Row("PION", 0, \hD10A, "NOP", "PRIV"), Row("IOXT", 0, \hD10D, "CJMP", "IO"),
  Row("EXAM", 0, \hD10E, "LOAD", "PRIV"), Row("DEPO", 0, \hD10F, "STORE", "PRIV"),
  Row("WAIT", 8, \hD200, "NOP", "PRIV"), Row("NLZ", 8, \hD300, "CJMP", "CPU"),
  Row("DNZ", 8, \hD400, "CJMP", "CPU"), Row("SRB", 7, \hD500, "CJMP", "CPU"),
  Row("LRB", 7, \hD580, "LOAD", "CPU"), Row("IRW", 7, \hD700, "STORE", "PRIV"),
  Row("IRR", 7, \hD780, "LOAD", "PRIV"), Row("MON", 8, \hD600, "SWI", "CPU")>>

\* A shift to the right has bit 5 set; the rest are listed left.
ShiftAndIoRows == <<
  Row("shift", 9, \hD800, "SHL", "CPU"),
  Row("IOT", 11, \hE000, "IO", "IO"), Row("IOX", 11, \hE800, "IO", "IO")>>

ArgumentRows == <<
  Row("SAB", 8, \hF000, "MOV", "CPU"), Row("SAA", 8, \hF100, "MOV", "CPU"),
  Row("SAT", 8, \hF200, "MOV", "CPU"), Row("SAX", 8, \hF300, "MOV", "CPU"),
  Row("AAB", 8, \hF400, "ADD", "CPU"), Row("AAA", 8, \hF500, "ADD", "CPU"),
  Row("AAT", 8, \hF600, "ADD", "CPU"), Row("AAX", 8, \hF700, "ADD", "CPU")>>

BitRows == <<
  Row("BSKP", 9, \hFA00, "CJMP", "CPU"), Row("BSET", 9, \hF800, "OR", "CPU"),
  Row("bit", 10, \hFC00, "AND", "CPU"), Row("other", 16, 0, "UNK", "CPU")>>

OpRows == MemoryRows \o ArithmeticRows \o BranchRows \o FrameRows \o SkipRows \o RopRows
          \o ByteRows \o SystemRows \o ShiftAndIoRows \o ArgumentRows \o BitRows

RowOf(w) == OpRows[Min({i \in 1 .. Len(OpRows) : Matches(w, OpRows[i])})]

-----------------------------------------------------------------------------
JumpConds == <<"GT", "LT", "EQ", "NE", "HS", "LO", "EQ", "NE">>
SkipConds == <<"EQ", "GE", "GT", "GT", "EQ", "LT", "LT", "LT">>

\* Mutant: the operand of ENTR is not part of it.
FrameNoOperand == [ENTR |-> [size |-> 2, jump |-> 6, fail |-> 4],
                   INIT |-> [size |-> 14, jump |-> 14, fail |-> 12]]

\* ENTR and INIT carry operands behind them: [bytes, normal return, error return].
Frame == [ENTR |-> [size |-> 4, jump |-> 6, fail |-> 4],
          INIT |-> [size |-> 14, jump |-> 14, fail |-> 12]]

Calls == {"CALL", "ICALL", "UCALL"}

\* Where the operation of `row` goes when its condition holds, and when not.
JumpOf(row, w, addr) ==
  CASE row.name = "Jcc" \/ row.type \in {"JMP", "CALL"} ->
         branch_target(addr, Signed(w % 256))
    [] row.name \in DOMAIN Frame -> addr + Frame[row.name].jump
    [] row.type = "CJMP" /\ row.name \notin {"Jcc"} \cup DOMAIN Frame -> addr + 4
    [] OTHER -> UNSET

\* Mutant: a frame goes on, in error, at the next word.
FailOfNext(row, addr) ==
  IF row.type \in {"CJMP"} \cup Calls THEN addr + 2 ELSE UNSET

FailOf(row, addr) ==
  CASE row.name \in DOMAIN Frame -> addr + Frame[row.name].fail
    [] row.type \in {"CJMP"} \cup Calls /\ row.name \notin DOMAIN Frame -> addr + 2
    [] OTHER -> UNSET

\* Mutant: the conditions of skips and jumps are taken from one table.
CondOfJump(row, w) ==
  CASE row.name \in {"Jcc", "SKP"} -> JumpConds[Mode(w) + 1]
    [] OTHER -> "AL"

CondOf(row, w) ==
  CASE row.name = "Jcc" -> JumpConds[Mode(w) + 1]
    [] row.name = "SKP" -> SkipConds[Mode(w) + 1]
    [] OTHER -> "AL"

\* How the operation moves the frame: [stackop, stackptr].
StackOf(row, w) ==
  CASE row.name \in {"STZ", "STA"} /\ Mode(w) \in {1, 3} -> <<"SET", 0>>
    [] row.name = "LDA" /\ Mode(w) \in {1, 3} -> <<"GET", 0>>
    [] row.type \in Calls -> <<"INC", -2>>
    [] row.type = "RET" -> <<"INC", 2>>
    [] row.name = "ENTR" -> <<"INC", 0>>
    [] row.name = "INIT" -> <<"RESET", 0>>
    [] OTHER -> <<"NULL", 0>>

EndsBlock(row, w) ==
  \/ row.name \in {"JMP", "WAIT"} \/ row.type = "RET"
  \/ row.name = "MON" /\ w % 256 = 0

ValOf(row, w) ==
  CASE row.name = "MON" -> w % 256
    [] w \div 2048 = 30 -> Signed(w % 256)
    [] OTHER -> 0

NoOp == [name |-> "none", type |-> "ILL", family |-> "UNKNOWN", size |-> MIN_OP_SIZE,
         jump |-> UNSET, fail |-> UNSET, cond |-> "AL", eob |-> FALSE,
         stack |-> <<"NULL", 0>>, val |-> 0, word |-> 0]

\* The operation at addr, given the bytes there and the byte order.
nd100_op(addr, data, big_endian) ==
  IF Len(data) < 2 THEN NoOp
  ELSE
    LET w == FromBytes(data, big_endian)
        row == RowOf(w)
        op == [name |-> row.name, type |-> row.type, family |-> row.family,
               size |-> MIN_OP_SIZE, jump |-> JumpOf(row, w, addr),
               fail |-> FailOf(row, addr), cond |-> CondOf(row, w),
               eob |-> EndsBlock(row, w), stack |-> StackOf(row, w),
               val |-> ValOf(row, w), word |-> w]
    IN CASE row.name = "shift" /\ Field(w, 5, 1) = 1 -> [op EXCEPT !.type = "SHR"]
         [] row.name \in DOMAIN Frame /\ Len(data) < Frame[row.name].size ->
              [op EXCEPT !.type = "UNK", !.jump = UNSET, !.fail = UNSET,
                         !.stack = <<"NULL", 0>>]
         [] row.name \in DOMAIN Frame /\ Len(data) >= Frame[row.name].size ->
              [op EXCEPT !.size = Frame[row.name].size]
         [] OTHER -> op

-----------------------------------------------------------------------------
\* Mutant: one pattern of the second list is left in the order of the first.
preludes_unswapped(big_endian) ==
  IF big_endian THEN {<<\hC8, \h38>>, <<\hC0, \h5D>>, <<\hC0, \h5C>>}
  ELSE {<<\h38, \hC8>>, <<\hC0, \h5D>>, <<\h5C, \hC0>>}

\* The byte patterns that begin a routine.
nd100_preludes(big_endian) ==
  IF big_endian THEN {<<\hC8, \h38>>, <<\hC0, \h5D>>, <<\hC0, \h5C>>}
  ELSE {<<\h38, \hC8>>, <<\h5D, \hC0>>, <<\h5C, \hC0>>}
=============================================================================
