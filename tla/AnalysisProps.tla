--------------------------- MODULE AnalysisProps ---------------------------
(***************************************************************************)
(* What the analysis, its emulation programs, the pseudo-code and the      *)
(* listing must agree on.  All four read the same word with tables of      *)
(* their own.                                                              *)
(***************************************************************************)
EXTENDS AnalysisHost, Nd100Parse

Text(op) == nd100_disasm(op.word, cpu)
Mnemonic(op) == IF Text(op) = <<>> THEN "" ELSE Text(op)[1].t
PseudoOf(op) == nd100_parse(Text(op) \o Annotation(op.word))

\* The step just made.
Stepped == last.addr # UNSET
After == last.addr + last.op.size
HasProgram(op) == Esil(op) # <<>>

Skips == {"SKP", "BSKP", "MIN", "IOXT", "NLZ", "DNZ", "SRB", "ADDD", "SUBD", "COMD", "TSET",
          "PACK", "UPACK", "SHDE", "RDUS", "TSETP", "RDUSP"}
Returns == {"EXIT", "LEAVE", "ELEAV"}
Jumps == {"JMP", "JPL"} \cup Range(CondJumps)

\* An address counted from another in words, in the 128K bytes there are.
Reach(a, words) == LET t == a + 2 * words IN IF t < 0 THEN 0 ELSE t % 131072

\* Where the line says control goes from address a.
ListedSuccessors(text, a) ==
  LET m == IF text = <<>> THEN "" ELSE text[1].t
      target == IF Len(text) = 2 THEN {Reach(a, text[2].n)} ELSE {}
  IN CASE m = "JMP" -> target
       [] m \in Jumps \ {"JMP"} -> target \cup {a + 2}
       [] m \in Skips -> {a + 2, a + 4}
       [] m = "ENTR" -> {a + 4, a + 6}
       [] m = "INIT" -> {a + 12, a + 14}
       [] m \in Returns \cup {"WAIT"} \/ text = <<Kw("MON"), Num(0)>> -> {}
       [] OTHER -> {a + 2}

\* Words nd100_op reads as another instruction than the decoder: its constants for
\* LEAVE and ELEAV are those of two user codes, the register rows at 0xD200 and
\* 0xD400 come before the rows of WAIT, NLZ, DNZ and SRB, and the processor is
\* not looked at.
Misread(op) ==
  \/ Mnemonic(op) \in {"LEAVE", "ELEAV", "WAIT", "NLZ", "DNZ", "SRB"}
  \/ op.word \in {\o140236, \o140237}
  \/ op.word \in {\o140516, \o140517} /\ cpu = "nd100"

\* ENTR and INIT whose operands are cut off by the end of the image.
CutOff(op) == op.name \in DOMAIN Frame /\ op.type = "UNK"

\* Is the condition an operation carries true of dst and src, as signed numbers?
Signed16(n) == IF n >= 32768 THEN n - 65536 ELSE n
Holds(cond, dst, src, carry) ==
  CASE cond = "EQ" -> dst = src
    [] cond = "NE" -> dst # src
    [] cond = "GT" -> Signed16(dst) > Signed16(src)
    [] cond = "GE" -> Signed16(dst) >= Signed16(src)
    [] cond = "LT" -> Signed16(dst) < Signed16(src)
    [] cond = "HS" -> carry
    [] cond = "LO" -> ~carry

\* The word address a pseudo-code expression names.
Sum(terms, r) == MapThenSumSet(LAMBDA i : Value(terms[i], r), DOMAIN terms)
Address(ea, r, m) ==
  (IF ea.deref THEN ReadWord(m, 2 * Sum(ea.inner, r)) ELSE Sum(ea.inner, r))
  + Sum(ea.outer, r)

\* The operands of a skip as the line names them, and the condition it names.
Source == [SD |-> "d", SP |-> "p", SB |-> "b", SL |-> "l", SA |-> "a", ST |-> "t", SX |-> "x"]
Destination ==
  [DD |-> "d", DP |-> "p", DB |-> "b", DL |-> "l", DA |-> "a", DT |-> "t", DX |-> "x"]
SkipOperand(tok, table, r) == IF tok.t = "#" THEN tok.n ELSE r[table[tok.t]]
NamedCond == [EQL |-> "EQ", GEQ |-> "GE", GRE |-> "GT", LSS |-> "LT"]

\* What a pseudo-code line p says of the registers, the memory and pc behind an
\* instruction, from those before it.  What it does not speak of stays as it was.
Printed == {"a", "b", "d", "t", "x"}
Bits(n) == {i \in 0 .. 15 : Field(n, i, 1) = 1}
OfBits(S) == MapThenSumSet(LAMBDA i : 2^i, S)
Conditional == (Range(BranchForms) \ {BranchForms.JMP, BranchForms.JPL})
               \cup {OperandForms.SKP, EaForms.MIN}

ToldReg(p, q, r, m, next) ==
  LET word == ReadWord(m, 2 * Address(p.ea, r, m))
      n == p.arg[Len(p.arg)].n
  IN CASE p.form = q \o " = *(%s)" -> word
       [] p.form = q \o " += *(%s)" -> (r[q] + word) % 65536
       [] p.form = q \o " -= *(%s)" -> (r[q] - word) % 65536
       [] p.form = q \o " *= *(%s)" -> Times(r[q], word)
       [] p.form = q \o " &= *(%s)" -> OfBits(Bits(r[q]) \cap Bits(word))
       [] p.form = q \o " |= *(%s)" -> OfBits(Bits(r[q]) \cup Bits(word))
       [] p.form = q \o " = %s" -> n % 65536
       [] p.form = q \o " += %s" -> (r[q] + n) % 65536
       [] p.form = q \o " <<= %s" -> LET by == IF p.arg[1] = Kw("SHR") THEN -n ELSE n
                                IN OfBits({i + by : i \in Bits(r[q])} \cap 0 .. 15)
       [] p.form = "call %s" /\ q = "l" -> next % 65536
       [] OTHER -> r[q]

ToldMem(p, r, m) ==
  LET at == 2 * Address(p.ea, r, m)
      stored == {q \in Printed : p.form = "*(%s) = " \o q}
  IN CASE stored # {} -> WriteWord(m, at, r[CHOOSE q \in stored : TRUE])
       [] p.form = "*(%s) = 0" -> WriteWord(m, at, 0)
       [] p.form = EaForms.MIN -> WriteWord(m, at, (ReadWord(m, at) + 1) % 65536)
       [] OTHER -> m

ToldPc(p, addr, r, next) ==
  CASE p.form \in {BranchForms.JMP, BranchForms.JPL} ->
         {(2 * (Reach(addr, p.arg[Len(p.arg)].n) \div 2)) % 65536}
    [] p.form = "return" -> {r.l}
    [] p.form \in Conditional -> Word
    [] OTHER -> {next % 65536}

\* Words listed as one instruction whose program is that of another: the return at
\* the words of two user codes, and the programs of RADD (comment at 645: octal
\* 0146000) at those of TRA and TRR.
RunsAnother(op) ==
  op.word \in {\o140236, \o140237} \/ Mnemonic(op) \in {"TRA", "TRR"}

-----------------------------------------------------------------------------
(* Types; what is still to be analysed is mapped and not analysed yet; no     *)
(* target lies below the address space or far above it (comment at 115-119).  *)
TypeOK ==
  /\ mem.bytes \in Seq(0 .. 255) /\ mem.base \in Nat /\ cpu \in Cpus
  /\ \A a \in todo \cup DOMAIN ops : Mapped(a)
  /\ todo \cap DOMAIN ops = {}
  /\ \A a \in DOMAIN ops :
       /\ ops[a].jump \in UNSET .. 131072 + MAX_OP_SIZE
       /\ ops[a].fail \in UNSET .. 131072 + MAX_OP_SIZE
  /\ reg \in [RegNames -> Word] /\ steps \in Nat
  /\ Stepped => last.op.word \in Word

(* nd100_op (128-1015) against nd100_disasm: the analysis goes from a word    *)
(* where its line says control goes, at every address and on both processors, *)
(* except for exactly the words of Misread.                                   *)
FlowFollowsListing ==
  \A a \in DOMAIN ops :
    ~CutOff(ops[a]) =>
      (Successors(ops[a], a) = ListedSuccessors(Text(ops[a]), a) <=> ~Misread(ops[a]))

(* nd100_op's cond (376-446, 542-553) against its own ESIL text and the       *)
(* pseudo-code of the line: a conditional jump or skip goes, when emulated,   *)
(* exactly if the condition it is labelled with is true of the registers, and *)
(* the line names that condition and those registers.  Except that the        *)
(* programs of GEQ, GRE and LSS compare without a sign, so that operands of   *)
(* different sign go just the other way, and those of MGRE, LST and MLST      *)
(* (comment at 579, "simplified compare") test equality.                      *)
ConditionsAgree ==
  LET op == last.op
      taken == reg.pc = op.jump % 65536
      line == PseudoOf(op)
      left == IF Mode(op.word) \in {6, 7} THEN last.reg.x ELSE last.reg.a
      pseudo == CASE line.form = "if (a > 0) goto %s" -> Signed16(last.reg.a) > 0
                  [] line.form = "if (a < 0) goto %s" -> Signed16(last.reg.a) < 0
                  [] line.form = "if (a == 0) goto %s" -> last.reg.a = 0
                  [] line.form = "if (a != 0) goto %s" -> last.reg.a # 0
                  [] line.form = "if (x == 0) goto %s" -> last.reg.x = 0
                  [] line.form = "if (x != 0) goto %s" -> last.reg.x # 0
                  [] line.form = "if (carry) goto %s" -> last.carry
                  [] line.form = "if (!carry) goto %s" -> ~last.carry
      dst == SkipOperand(line.arg[2], Destination, last.reg)
      kind == line.arg[3].t
      src == SkipOperand(line.arg[4], Source, last.reg)
      true == Holds(op.cond, dst, src, FALSE)
  IN /\ (Stepped /\ op.name = "Jcc" /\ op.jump # op.fail) =>
          /\ taken <=> Holds(op.cond, left, 0, last.carry)
          /\ taken <=> pseudo
     /\ (Stepped /\ op.name = "SKP") =>
          /\ line.form = OperandForms.SKP
          /\ kind \in DOMAIN NamedCond => op.cond = NamedCond[kind]
          /\ kind \in {"EQL", "UEQ"} => (taken <=> true)
          /\ kind \in {"GEQ", "GRE", "LSS"} =>
               (taken <=> (true <=> (dst < 32768 <=> src < 32768)))
          /\ kind \in {"MGRE", "LST", "MLST"} => (taken <=> dst = src)

(* nd100_parse (23-350) against the ESIL text of nd100_op, for every          *)
(* instruction that has a program, in every addressing mode: emulating it     *)
(* leaves in every register, in memory and, but for conditional ones, in pc   *)
(* what the pseudo-code line says, and changes nothing the line does not      *)
(* speak of.  Except for the words of RunsAnother.                            *)
PseudoTellsStep ==
  LET op == last.op
      p == PseudoOf(op)
      old == last.reg
  IN (Stepped /\ HasProgram(op) /\ ~RunsAnother(op)) =>
     /\ \A q \in RegNames \ {"pc"} : reg[q] = ToldReg(p, q, old, last.mem, After)
     /\ mem = ToldMem(p, old, last.mem)
     /\ reg.pc \in ToldPc(p, last.addr, old, After)

(* nd100_op's jump and fail (362-507) against its ESIL text: emulating a word *)
(* that has a program goes where the analysis says control goes, a return to  *)
(* the address in L.                                                          *)
EmulationOnGraph ==
  LET op == last.op
      there == CASE op.type = "RET" -> {last.reg.l}
                 [] op.type = "SWI" -> {After}
                 [] OTHER -> Successors(op, last.addr)
  IN (Stepped /\ HasProgram(op)) => reg.pc \in {t % 65536 : t \in there}

(* The whole of nd100_op, its targets, sizes and programs together: once the  *)
(* analysis has followed everything, an emulation that starts at the entry    *)
(* stays inside what was analysed, as long as it does not change the program. *)
(* Left out: jumps through memory, which have no program, returns to an       *)
(* address that is not behind a call, a program that has exited, and a target *)
(* beyond what the 16 bits of pc (1082) can hold.                             *)
AnalysisCoversEmulation ==
  LET op == last.op
      returns == {ops[c].fail : c \in {k \in DOMAIN ops : ops[k].type \in Calls}}
      lost == \/ op.type \in {"MJMP", "SWI"} /\ op.eob
              \/ op.type = "RET" /\ last.reg.l \notin returns
              \/ \E t \in Successors(op, last.addr) : t \notin Word
  IN (/\ Stepped /\ todo = {} /\ ~patched
      /\ last.addr \in DOMAIN ops /\ ~lost) =>
     reg.pc \in DOMAIN ops \/ ~Mapped(reg.pc)

(* nd100_op's sizes (481-508): no operand of an ENTR or INIT is analysed as   *)
(* code, unless a jump, a pattern or the operand before it leads there, or it *)
(* is the sixth operand of INIT, which doubles as its error return.           *)
InlineDataSkipped ==
  \A a \in DOMAIN ops : Mnemonic(ops[a]) \in DOMAIN Frame /\ ~CutOff(ops[a]) =>
    LET operands == {a + 2 * i : i \in 1 .. (IF Mnemonic(ops[a]) = "ENTR" THEN 1 ELSE 5)}
        led == {t \in operands : \E k \in DOMAIN ops \ {a} : t \in Successors(ops[k], k)}
    IN (DOMAIN ops \cap operands) \subseteq led \cup hits \cup {mem.base}

(* nd100_preludes (1017-1060) against the decoder, in both byte orders: the   *)
(* patterns are found exactly at the aligned words that list as SWAP SX 0,    *)
(* ENTR and INIT.                                                             *)
PreludesFound ==
  LET line(a) == Text(OpAt(a))
      begin == {Kws(<<"SWAP", "SX">>) \o <<Num(0)>>, Kws(<<"ENTR">>), Kws(<<"INIT">>)}
      aligned == {mem.base + 2 * i : i \in 0 .. Len(mem.bytes) \div 2 - 1}
  IN (hits # {} /\ ~patched) => hits = {a \in aligned : line(a) \in begin}

-----------------------------------------------------------------------------
(* Violated.  GETTING-STARTED.md:305-316, "The analysis plugin understands    *)
(* all ND-100 skip-type instructions"; :361, "`ret` -- return (EXIT, LEAVE,   *)
(* ELEAV)"; :364, "`nop` -- no operation (ROP NOOP, IOF, ION, etc.)"; :370,   *)
(* "`priv` -- privileged/system instructions (TRA, TRR, MCL, MST, OPCOM,      *)
(* etc.)".                                                                    *)
ClassifiedAsDocumented ==
  \A a \in DOMAIN ops :
    LET op == ops[a]
        m == Mnemonic(op)
    IN /\ m \in {"SKP", "BSKP", "MIN", "NLZ", "DNZ", "IOXT", "SRB"} =>
            op.type = "CJMP" /\ op.jump = a + 4
       /\ m \in Returns => op.type = "RET"
       /\ m \in {"ROP", "IOF", "ION"} => op.type = "NOP"
       /\ m \in {"TRA", "TRR", "MCL", "MST", "OPCOM"} => op.family = "PRIV"

(* Violated.  The comments of rz_analysis_nd100.c on what an operation does:   *)
(* 738, TRA, a "transfer from internal register to A", and 742, TRR, a        *)
(* "transfer A to internal register", so that emulating them changes no       *)
(* register but A, and none; 232, MIN, "memory increment, skip on zero", so   *)
(* that one whose word becomes zero passes over the next instruction.         *)
EmulatesAsCommented ==
  LET op == last.op
      at == 2 * Address(PseudoOf(op).ea, last.reg, last.mem)
  IN Stepped =>
     /\ Mnemonic(op) = "TRA" => \A q \in RegNames \ {"a", "pc"} : reg[q] = last.reg[q]
     /\ Mnemonic(op) = "TRR" => \A q \in RegNames \ {"pc"} : reg[q] = last.reg[q]
     /\ (op.name = "MIN" /\ ReadWord(last.mem, at) = MaxWord) => reg.pc = op.jump % 65536

(* Violated.  README.md:166 and the comment at 1026: C functions are found by *)
(* their first instruction, COPY SL DA, which lists as RADD CLD SL DA.        *)
PatternIsCopy ==
  \A a \in hits : Text(OpAt(a)) \in {Kws(<<"RADD", "CLD", "SL", "DA">>),
                                     Kws(<<"ENTR">>), Kws(<<"INIT">>)}
=============================================================================
