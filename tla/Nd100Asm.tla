------------------------------ MODULE Nd100Asm ------------------------------
(***************************************************************************)
(* The assembler of src/rz_asm_nd100.c: a cascade of stages over one       *)
(* cursor. Each stage that knows the token at the cursor moves it past     *)
(* what it could read, also when it then fails, and the stages after it go *)
(* on from there. Tokens are those of Nd100Disasm, and the nd100-as form   *)
(* of an addressing mode, written against the number before it ("-4,B").   *)
(* Left out: letter case, hexadecimal, words that only begin like a        *)
(* register, and such modes after anything but a number. CHREENT-PAGES is  *)
(* spelled with an underscore.                                             *)
(***************************************************************************)
EXTENDS Nd100Disasm, FiniteSetsExt

NONE == -1                       \* assemble returned -1

AfterNumber == {"~,B", "~,X"}    \* ",B" and ",X" without a blank before them
CommaB == {",B", "~,B"}
CommaX == {",X", "~,X"}
Commas == CommaB \cup CommaX

End == Kw("")
First(p) == IF p = <<>> THEN End ELSE Head(p)
Drop(p, n) == SubSeq(p, n + 1, Len(p))
\* How many tokens at the front of p are words of S.
Run(p, S) == Max({n \in 0 .. Len(p) : \A i \in 1 .. n : p[i].t \in S})

IsNum(tok) == tok.t = "#"

\* A stage ends with a word, or with the cursor somewhere in the operand.
Done(w) == [p |-> <<>>, word |-> w % 65536]
Lost(p) == [p |-> p, word |-> NONE]

-----------------------------------------------------------------------------
Lookup(table, tok) == IF tok.t \in DOMAIN table THEN table[tok.t] ELSE NONE
OrElse(a, b) == IF a # NONE THEN a ELSE b

SReg == [SD |-> 1, SP |-> 2, SB |-> 3, SL |-> 4, SA |-> 5, ST |-> 6, SX |-> 7]
DReg == [DD |-> 1, DP |-> 2, DB |-> 3, DL |-> 4, DA |-> 5, DT |-> 6, DX |-> 7]
BareReg == [S |-> 0, D |-> 1, P |-> 2, SP |-> 2, B |-> 3, L |-> 4, A |-> 5,
            T |-> 6, X |-> 7]
StatusBit == [SSPTM |-> 0, SSTG |-> 1, SSK |-> 2, SSZ |-> 3, SSQ |-> 4, SSO |-> 5,
              SSC |-> 6, SSM |-> 7]
SkipCond == [EQL |-> 0, GEQ |-> 1, GRE |-> 2, MGRE |-> 3, UEQ |-> 4, LSS |-> 5,
             LST |-> 6, MLST |-> 7]
BitCond == [ZRO |-> 0, ONE |-> 1, BCM |-> 2, BAC |-> 3]
ShiftType == [ROT |-> 1, ZIN |-> 2, LIN |-> 3]
Modifier == [CLD |-> \o100, CM1 |-> \o200, AD1 |-> \o400, ADC |-> \o1000]

parse_sreg(tok) == Lookup(SReg, tok)
parse_dreg(tok) == Lookup(DReg, tok)
parse_dreg_full(tok) == IF tok.t = "DS" THEN 0 ELSE Lookup(DReg, tok)
parse_reg(tok) == IF tok = Num(0) THEN 0 ELSE Lookup(BareReg, tok)
SrcReg(tok) == OrElse(parse_sreg(tok), parse_reg(tok))
DstReg(tok) == OrElse(parse_dreg(tok), parse_reg(tok))

Level(n) == 8 * ((n \div 8) % 16)           \* n & 0x78

-----------------------------------------------------------------------------
\* The mnemonics of each stage with their opcodes.
FixedOp == [
  EXIT |-> \o146142, LEAVE |-> \o140136, ELEAV |-> \o140137, ENTR |-> \o140135,
  INIT |-> \o140134, OPCOM |-> \o150400, IOF |-> \o150401, ION |-> \o150402,
  POF |-> \o150404, PIOF |-> \o150405, SEX |-> \o150406, REX |-> \o150407,
  PON |-> \o150410, PION |-> \o150412, IOXT |-> \o150415, EXAM |-> \o150416,
  DEPO |-> \o150417, WAIT |-> \o151000, ADDD |-> \o140120, SUBD |-> \o140121,
  COMD |-> \o140122, TSET |-> \o140123, PACK |-> \o140124, UPACK |-> \o140125,
  SHDE |-> \o140126, RDUS |-> \o140127, BFILL |-> \o140130, MOVB |-> \o140131,
  MOVBF |-> \o140132, VERSN |-> \o140133, LBYT |-> \o142200, SBYT |-> \o142600,
  GECO |-> \o142700, MOVEW |-> \o143100, LWCS |-> \o143500, MIX3 |-> \o143200,
  HALT |-> \o140200, SETPT |-> \o140300, CLEPT |-> \o140301, CLNREENT |-> \o140302,
  CHREENT_PAGES |-> \o140303, CLEPU |-> \o140304, LDATX |-> \o143300,
  LDXTX |-> \o143301, LDDTX |-> \o143302, LDBTX |-> \o143303, STATX |-> \o143304,
  STZTX |-> \o143305, STDTX |-> \o143306, WGLOB |-> \o140500, RGLOB |-> \o140501,
  INSPL |-> \o140502, REMPL |-> \o140503, CNREK |-> \o140504, CLPT |-> \o140505,
  ENPT |-> \o140506, REPT |-> \o140507, LBIT |-> \o140510, SBITP |-> \o140513,
  LBYTP |-> \o140514, SBYTP |-> \o140515, TSETP |-> \o140516, RDUSP |-> \o140517]

MemrefOp == [
  STZ |-> 0, STA |-> \o4000, STT |-> \o10000, STX |-> \o14000, STD |-> \o20000,
  LDD |-> \o24000, STF |-> \o30000, LDF |-> \o34000, MIN |-> \o40000, LDA |-> \o44000,
  LDT |-> \o50000, LDX |-> \o54000, ADD |-> \o60000, SUB |-> \o64000, AND |-> \o70000,
  ORA |-> \o74000, FAD |-> \o100000, FSB |-> \o104000, FMU |-> \o110000,
  FDV |-> \o114000, MPY |-> \o120000, JMP |-> \o124000, JPL |-> \o134000]

CbrOp == [JAP |-> \o130000, JAN |-> \o130400, JAZ |-> \o131000, JAF |-> \o131400,
          JPC |-> \o132000, JNC |-> \o132400, JXZ |-> \o133000, JXN |-> \o133400]
ArgOp == [SAB |-> \o170000, SAA |-> \o170400, SAT |-> \o171000, SAX |-> \o171400,
          AAB |-> \o172000, AAA |-> \o172400, AAT |-> \o173000, AAX |-> \o173400]
IdentOp == [PL10 |-> \o143604, PL11 |-> \o143611, PL12 |-> \o143622, PL13 |-> \o143643]
DeltaOp == [LASB |-> \o140700, SASB |-> \o140701, LACB |-> \o140702, SACB |-> \o140703,
            LXSB |-> \o140704, LXCB |-> \o140705, SZSB |-> \o140706, SZCB |-> \o140707]
RegOp == [RADD |-> \o146000, SWAP |-> \o144000, RAND |-> \o144400, REXO |-> \o145000,
          RORA |-> \o145400, RSUB |-> \o146600]
AliasOp == [RCLR |-> \o146100, RINC |-> \o146400, RDCR |-> \o146200]
ShiftOp == [SHT |-> \o154000, SHD |-> \o154200, SHA |-> \o154400, SAD |-> \o154600]
IntOp == [TRA |-> \o150000, TRR |-> \o150100, MCL |-> \o150200, MST |-> \o150300]
CondBitOp == [BSET |-> \o174000, BSKP |-> \o175000]
BitOp == [BSTC |-> \o176000, BSTA |-> \o176200, BLDC |-> \o176400, BLDA |-> \o176600,
          BANC |-> \o177000, BAND |-> \o177200, BORC |-> \o177400, BORA |-> \o177600]

\* Mutant: a name missing from ir_r.
ReadRegShort == [PANS |-> 0, STS |-> 1, OPR |-> 2, PGS |-> 3, PVL |-> 4, IIC |-> 5,
                 PID |-> 6, PIE |-> 7, CSR |-> 8, ACTL |-> 9, ALD |-> 10, PES |-> 11,
                 PGC |-> 12]

\* ir_r, and ir_w as far as its search goes: the fifth entry is the end.
ReadReg == [PANS |-> 0, STS |-> 1, OPR |-> 2, PGS |-> 3, PVL |-> 4, IIC |-> 5, PID |-> 6,
            PIE |-> 7, CSR |-> 8, ACTL |-> 9, ALD |-> 10, PES |-> 11, PGC |-> 12,
            PEA |-> 13]
WriteReg == [PANC |-> 0, STS |-> 1, LMP |-> 2, PCR |-> 3]

-----------------------------------------------------------------------------
\* An operand that is one number.
Number(p, word(_)) == IF IsNum(First(p)) THEN Done(word(First(p).n)) ELSE Lost(p)
\* Mutant: the number is not masked to its field.
ByteWide(base, p) == Number(p, LAMBDA n : base + n)
Byte(base, p) == Number(p, LAMBDA n : base + (n % 256))

\* The tokens that the modes before the number take, and those written against it.
parse_addrmode(p) ==
  LET lead == IF First(p).t \in {",B", ",X"} THEN 1 ELSE 0
      ind == IF First(Drop(p, lead)).t = "I" /\ Len(p) > lead + 1 THEN 1 ELSE 0
  IN lead + ind + Run(Drop(p, lead + ind), Commas)

\* Mutant: nothing is looked for behind the number.
no_trailing_addrmode(p) == 0
parse_trailing_addrmode(p) == IF First(p).t \in AfterNumber THEN Run(p, Commas) ELSE 0

encode_memref(opcode, modes, n) ==
  opcode + 256 * ((IF "I" \in modes THEN 2 ELSE 0)
                  + (IF modes \cap CommaB # {} THEN 1 ELSE 0)
                  + (IF modes \cap CommaX # {} THEN 4 ELSE 0)) + (n % 256)

\* A memory reference: modes, a number, and the modes written against it.
MemrefStage(base, p) ==
  LET at == parse_addrmode(p)
      trail == parse_trailing_addrmode(Drop(p, at + 1))
      modes == {p[i].t : i \in (1 .. at) \cup (at + 2 .. at + 1 + trail)}
      number == First(Drop(p, at))
  IN CASE IsNum(number) -> Done(encode_memref(base, modes, number.n))
       [] Drop(p, at) = <<>> -> Done(encode_memref(base, modes, 0))
       [] OTHER -> Lost(Drop(p, at))

\* IRW and IRR, and bit operations that name a bit and a register.
LevelReg(base, p) ==
  IF ~IsNum(First(p)) THEN Lost(p)
  ELSE LET reg == parse_dreg_full(First(Drop(p, 1))) IN
       IF reg # NONE THEN Done(base + Level(First(p).n) + reg) ELSE Lost(Drop(p, 1))

BitOperand(base, p) ==
  LET sb == Lookup(StatusBit, First(p)) IN
  IF sb # NONE THEN Done(base + 8 * sb) ELSE LevelReg(base, p)

\* SKP IF <dst> <cond> <src>; a part that is not there leaves the cursor alone.
SkpStage(p) ==
  LET dst == IF First(p) = Num(0) THEN 0 ELSE parse_dreg(First(p))
      q == IF dst # NONE THEN Drop(p, 1) ELSE p
      cond == Lookup(SkipCond, First(q))
      r == IF cond # NONE THEN Drop(q, 1) ELSE q
      src == IF First(r) = Num(0) THEN 0 ELSE parse_sreg(First(r))
  IN IF NONE \notin {dst, cond, src} THEN Done(\o140000 + 256 * cond + 8 * src + dst)
     ELSE Lost(r)

\* A source and a destination register, after the modifiers where they may be.
SrcDst(base, p) ==
  LET src == SrcReg(First(p))
      q == IF src # NONE THEN Drop(p, 1) ELSE p
      dst == DstReg(First(q))
  IN IF src # NONE /\ dst # NONE THEN Done(base + 8 * src + dst) ELSE Lost(q)

RegopStage(base, p) ==
  LET n == Run(p, DOMAIN Modifier)
      mod(m) == IF \E i \in 1 .. n : p[i].t = m THEN Modifier[m] ELSE 0
  IN SrcDst(base + mod("CLD") + mod("CM1") + mod("AD1") + mod("ADC"), Drop(p, n))

CopyStage(p) ==
  LET s == First(p).t \in DOMAIN SReg \cup {"S"}
      q == IF s THEN Drop(p, 1) ELSE p
      src == IF s THEN parse_sreg(First(p)) ELSE NONE
      dst == parse_dreg(First(q))
  IN IF src # NONE /\ dst # NONE THEN Done(\o146100 + 8 * src + dst) ELSE Lost(q)

\* Mutant: SHR is read and forgotten.
ShiftStageLeft(base, p) ==
  LET type == Lookup(ShiftType, First(p))
      q == IF type # NONE THEN Drop(p, 1) ELSE p
      r == IF First(q).t = "SHR" THEN Drop(q, 1) ELSE q
  IN Number(r, LAMBDA n : base + 512 * OrElse(type, 0) + (n % 64))

ShiftStage(base, p) ==
  LET type == Lookup(ShiftType, First(p))
      q == IF type # NONE THEN Drop(p, 1) ELSE p
      right == First(q).t = "SHR"
      r == IF right THEN Drop(q, 1) ELSE q
  IN Number(r, LAMBDA n : base + 512 * OrElse(type, 0) + ((IF right THEN -n ELSE n) % 64))

IntregStage(name, p) ==
  LET reg == Lookup(IF name = "TRA" THEN ReadReg ELSE WriteReg, First(p)) IN
  IF reg # NONE THEN Done(IntOp[name] + reg)
  ELSE Number(p, LAMBDA n : IntOp[name] + (n % 16))

OneReg(base, reg, p, shift) == IF reg # NONE THEN Done(base + shift * reg) ELSE Lost(p)

\* One stage: the mnemonic m was at the cursor, p is what follows it.
Stage(m, p) ==
  CASE m \in DOMAIN FixedOp -> Done(FixedOp[m])
    [] m \in DOMAIN MemrefOp -> MemrefStage(MemrefOp[m], p)
    [] m \in DOMAIN CbrOp -> Byte(CbrOp[m], p)
    [] m \in DOMAIN ArgOp -> Byte(ArgOp[m], p)
    [] m = "MON" -> Byte(\o153000, p)
    [] m = "IOX" -> Number(p, LAMBDA n : \o164000 + (n % 2048))
    [] m = "IOT" -> Number(p, LAMBDA n : \o160000 + (n % 2048))
    [] m = "IDENT" -> OneReg(0, Lookup(IdentOp, First(p)), p, 1)
    [] m = "EXR" -> OneReg(\o140600, SrcReg(First(p)), p, 8)
    [] m = "NLZ" -> Byte(\o151400, p)
    [] m = "DNZ" -> Byte(\o152000, p)
    [] m = "IRW" -> LevelReg(\o153400, p)
    [] m = "IRR" -> LevelReg(\o153600, p)
    [] m \in DOMAIN DeltaOp ->
         IF IsNum(First(p)) THEN Done(DeltaOp[m] + 8 * ((First(p).n \div 8) % 8))
         ELSE Done(DeltaOp[m])
    [] m = "SKP" -> IF First(p).t = "IF" THEN SkpStage(Drop(p, 1)) ELSE Lost(p)
    [] m \in DOMAIN RegOp -> RegopStage(RegOp[m], p)
    [] m \in DOMAIN AliasOp -> OneReg(AliasOp[m], DstReg(First(p)), p, 1)
    [] m = "COPY" -> CopyStage(p)
    [] m = "RMPY" -> SrcDst(\o141200, p)
    [] m = "RDIV" -> OneReg(\o141600, SrcReg(First(p)), p, 8)
    [] m \in DOMAIN ShiftOp -> ShiftStage(ShiftOp[m], p)
    [] m \in DOMAIN IntOp -> IntregStage(m, p)
    [] m = "SRB" -> Number(p, LAMBDA n : \o152400 + Level(n))
    [] m = "LRB" -> Number(p, LAMBDA n : \o152600 + 8 * (n % 16))
    [] m = "ROP" -> IF First(p).t = "NOOP" THEN Done(\o147700) ELSE Lost(p)
    [] m \in DOMAIN CondBitOp ->
         LET cond == Lookup(BitCond, First(p)) IN
         IF cond = NONE THEN Lost(p)
         ELSE BitOperand(CondBitOp[m] + 128 * cond, Drop(p, 1))
    [] m \in DOMAIN BitOp -> BitOperand(BitOp[m], p)

\* The stages in the order assemble tries them.
Stages == <<
  DOMAIN FixedOp, DOMAIN MemrefOp, DOMAIN CbrOp, DOMAIN ArgOp, {"MON"}, {"IOX"}, {"IOT"},
  {"IDENT"}, {"EXR"}, {"NLZ"}, {"DNZ"}, {"IRW"}, {"IRR"}, DOMAIN DeltaOp, {"SKP"},
  DOMAIN RegOp, {"RCLR"}, {"RINC"}, {"RDCR"}, {"COPY"}, {"RMPY"}, {"RDIV"},
  DOMAIN ShiftOp, DOMAIN IntOp, {"SRB"}, {"LRB"}, {"ROP"}, DOMAIN CondBitOp,
  DOMAIN BitOp>>

\* Everything from a ';' on is a comment.
Statement(text) == SubSeq(text, 1, Run(text, {tok.t : tok \in Range(text)} \ {";"}))

StageOf == [m \in UNION Range(Stages) |-> CHOOSE k \in 1 .. Len(Stages) : m \in Stages[k]]

\* The next stage that knows the token at the cursor, when there is one left.
Try(s) ==
  LET m == First(s.p).t IN
  IF s.word = NONE /\ m \in DOMAIN StageOf /\ StageOf[m] >= s.next
  THEN LET r == Stage(m, Drop(s.p, 1)) IN [p |-> r.p, word |-> r.word, next |-> StageOf[m] + 1]
  ELSE s

\* Where assemble stands after k tries.  Each of them takes a token.
Tried(text) ==
  LET st == Statement(text)
      after[k \in 0 .. Len(st)] ==
        IF k = 0 THEN [p |-> st, word |-> NONE, next |-> 1] ELSE Try(after[k - 1])
  IN after

\* The word a line assembles to, or NONE.
Encode(text) == Tried(text)[Len(Statement(text))].word
=============================================================================
