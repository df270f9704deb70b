----------------------------- MODULE Nd100Disasm -----------------------------
(***************************************************************************)
(* The instruction decoder, src/nd100_disasm.c.  A line of text is a       *)
(* sequence of tokens: keywords (mnemonics, registers, addressing modes)   *)
(* and numbers.  Spacing and the octal digits of a number are left out.    *)
(***************************************************************************)
EXTENDS Integers, Sequences, SequencesExt

CONSTANT CharSigned  \* is the build's plain char signed?

ASSUME CharAssumption == CharSigned \in BOOLEAN

MaxWord == 65535
Word == 0 .. MaxWord
Cpus == {"nd100", "nd110"}

Kw(s) == [t |-> s, n |-> 0]
Num(i) == [t |-> "#", n |-> i]
Kws(s) == [i \in 1 .. Len(s) |-> Kw(s[i])]

\* A sequence of such tokens.
IsText(l) ==
  /\ Len(l) \in Nat /\ l = [i \in 1 .. Len(l) |-> [t |-> l[i].t, n |-> l[i].n]]
  /\ \A i \in 1 .. Len(l) : l[i].n \in Int

Field(w, low, size) == (w \div 2^low) % 2^size   \* size bits of w from bit low

Within(w, first, last) == first <= w /\ w <= last

\* numstr: the low byte, signed when char is.
Offset(w) ==
  LET byte == w % 256 IN
  Num(IF CharSigned /\ byte >= 128 THEN byte - 256 ELSE byte)

-----------------------------------------------------------------------------
\* The name tables of lines 26-62.
skipregn_dst == <<Num(0)>> \o Kws(<<"DD", "DP", "DB", "DL", "DA", "DT", "DX">>)
skipregn_src == <<Num(0)>> \o Kws(<<"SD", "SP", "SB", "SL", "SA", "ST", "SX">>)
regn_w == Kws(<<"DS", "DD", "DP", "DB", "DL", "DA", "DT", "DX">>)
intregn_r == Kws(<<"PANS", "STS", "OPR", "PGS", "PVL", "IIC", "PID", "PIE",
                   "CSR", "ACTL", "ALD", "PES", "PGC", "PEA">>)
             \o <<Num(14), Num(15)>>
intregn_w == Kws(<<"PANC", "STS", "LMP", "PCR">>) \o <<Num(4)>>
             \o Kws(<<"IIE", "PID", "PIE", "CCL", "LCIL", "UCILR">>)
             \o <<Num(11), Num(12), Num(13), Num(14), Num(15)>>
relmode_str == <<<<>>, <<",B">>, <<"I">>, <<"I", ",B">>, <<",X">>, <<",X", ",B">>,
                 <<"I", ",X">>, <<"I", ",B", ",X">>>>
shtype_str == <<<<>>, <<"ROT">>, <<"ZIN">>, <<"LIN">>>>
skiptype_str == <<"EQL", "GEQ", "GRE", "MGRE", "UEQ", "LSS", "LST", "MLST">>
bopstsbit_str == <<"SSPTM", "SSTG", "SSK", "SSZ", "SSQ", "SSO", "SSC", "SSM">>
bop_str == <<<<"BSET", "ZRO">>, <<"BSET", "ONE">>, <<"BSET", "BCM">>, <<"BSET", "BAC">>,
             <<"BSKP", "ZRO">>, <<"BSKP", "ONE">>, <<"BSKP", "BCM">>, <<"BSKP", "BAC">>,
             <<"BSTC">>, <<"BSTA">>, <<"BLDC">>, <<"BLDA">>,
             <<"BANC">>, <<"BAND">>, <<"BORC">>, <<"BORA">>>>

Src(w) == skipregn_src[Field(w, 3, 3) + 1]
Dst(w) == skipregn_dst[Field(w, 0, 3) + 1]

\* Instructions without an operand, at one word each.
Exact == [
  ADDD |-> \o140120, SUBD |-> \o140121, COMD |-> \o140122, TSET |-> \o140123,
  PACK |-> \o140124, UPACK |-> \o140125, SHDE |-> \o140126, RDUS |-> \o140127,
  BFILL |-> \o140130, MOVB |-> \o140131, MOVBF |-> \o140132,
  INIT |-> \o140134, ENTR |-> \o140135, LEAVE |-> \o140136, ELEAV |-> \o140137,
  SETPT |-> \o140300, CLEPT |-> \o140301, CLNREENT |-> \o140302,
  CHREENT_PAGES |-> \o140303, CLEPU |-> \o140304, LWCS |-> \o143500,
  OPCOM |-> \o150400, IOF |-> \o150401, ION |-> \o150402, POF |-> \o150404,
  PIOF |-> \o150405, SEX |-> \o150406, REX |-> \o150407, PON |-> \o150410,
  PION |-> \o150412, IOXT |-> \o150415, EXAM |-> \o150416, DEPO |-> \o150417,
  EXIT |-> \o146142]

Exact110 == [
  VERSN |-> \o140133, WGLOB |-> \o140500, RGLOB |-> \o140501, INSPL |-> \o140502,
  REMPL |-> \o140503, CNREK |-> \o140504, CLPT |-> \o140505, ENPT |-> \o140506,
  REPT |-> \o140507, LBIT |-> \o140510, SBITP |-> \o140513, LBYTP |-> \o140514,
  SBYTP |-> \o140515, TSETP |-> \o140516, RDUSP |-> \o140517]

\* Instructions that ignore their low six bits.
Masked == [
  USER0 |-> \o140200, USER3 |-> \o141100, USER4 |-> \o141300, USER5 |-> \o141500,
  USER6 |-> \o141700, USER7 |-> \o142100, LBYT |-> \o142200, USER8 |-> \o142300,
  USER9 |-> \o142500, SBYT |-> \o142600, GECO |-> \o142700, MOVEW |-> \o143100,
  MIX3 |-> \o143200]
Masked100 == [USER1 |-> \o140500, USER2 |-> \o140700]

Deltas == <<"LASB", "SASB", "LACB", "SACB", "LXSB", "LXCB", "SZSB", "SZCB">>
PhysMem == <<"LDATX", "LDXTX", "LDDTX", "LDBTX", "STATX", "STZTX", "STDTX">>
Idents == [PL10 |-> \o143604, PL11 |-> \o143611, PL12 |-> \o143622, PL13 |-> \o143643]

Named(table, w) == {n \in DOMAIN table : table[n] = w}
Known(table, w) == Named(table, w) # {}
Name(table, w) == Kws(<<CHOOSE n \in Named(table, w) : TRUE>>)

Undef == Kws(<<"UNDEF">>)

-----------------------------------------------------------------------------
Memref == <<"STZ", "STA", "STT", "STX", "STD", "LDD", "STF", "LDF", "MIN", "LDA", "LDT",
            "LDX", "ADD", "SUB", "AND", "ORA", "FAD", "FSB", "FMU", "FDV", "MPY", "JMP">>
CondJumps == <<"JAP", "JAN", "JAZ", "JAF", "JPC", "JNC", "JXZ", "JXN">>

MemrefText(mnemonic, w) ==
  Kws(<<mnemonic>> \o relmode_str[Field(w, 8, 3) + 1]) \o <<Offset(w)>>

\* 0140000-0143777: skips, and decode_140k.
Text140(w, cpu) ==
  LET low6 == 64 * (w \div 64)
      low3 == w - 8 * Field(w, 3, 3)      \* w & 0xFFC7
      op == w % 8
  IN IF Field(w, 6, 2) = 0
       THEN Kws(<<"SKP", "IF">>) \o <<Dst(w)>>
            \o Kws(<<skiptype_str[Field(w, 8, 3) + 1]>>) \o <<Src(w)>>
     ELSE IF Known(Exact, w) THEN Name(Exact, w)
     ELSE IF Known(Idents, w) THEN Kws(<<"IDENT">>) \o Name(Idents, w)
     ELSE IF w = \o140133 /\ cpu = "nd100" THEN <<>>      \* VERSN: no text at all
     ELSE IF cpu = "nd110" /\ Known(Exact110, w) THEN Name(Exact110, w)
     ELSE IF cpu = "nd110" /\ low6 = \o140700
       THEN Kws(<<Deltas[op + 1]>>) \o <<Num(8 * Field(w, 3, 3))>>
     ELSE IF cpu = "nd100" /\ Known(Masked100, low6) THEN Name(Masked100, low6)
     ELSE IF Known(Masked, low6) THEN Name(Masked, low6)
     ELSE IF low6 = \o140600 THEN Kws(<<"EXR">>) \o <<Src(w)>>
     ELSE IF low6 = \o141200 THEN Kws(<<"RMPY">>) \o <<Src(w), Dst(w)>>
     ELSE IF low6 = \o141600 THEN Kws(<<"RDIV">>) \o <<Src(w)>>
     ELSE IF Within(low3, \o143300, \o143306) THEN Kws(<<PhysMem[op + 1]>>)
     ELSE Undef

\* 0144000-0147777: register operations.
RopText(w) ==
  LET op == Field(w, 6, 5)
      group == op \div 4
      mods == (IF group = 5 THEN <<"AD1">> ELSE <<>>)
              \o (IF group = 6 THEN <<"ADC">> ELSE <<>>)
              \o (IF Field(op, 1, 1) = 1 THEN <<"CM1">> ELSE <<>>)
              \o (IF op % 2 = 1 THEN <<"CLD">> ELSE <<>>)
  IN IF w = Exact.EXIT THEN Kws(<<"EXIT">>)
     ELSE IF group = 7 THEN Kws(<<"ROP", "NOOP">>)
     ELSE IF op = 22 THEN Kws(<<"RSUB">>) \o <<Src(w), Dst(w)>>
     ELSE Kws(<<<<"SWAP", "RAND", "REXO", "RORA", "RADD", "RADD", "RADD">>[group + 1]>>
              \o mods) \o <<Src(w), Dst(w)>>

\* 0150000-0153777: decode_150k.
Text150(w) ==
  LET byte == Num(w % 256)
      level == Field(w, 3, 4)
      reg == regn_w[(w % 8) + 1]
  IN IF Known(Exact, w) THEN Name(Exact, w)
     ELSE IF w < \o150400
       THEN LET op == Field(w, 6, 2) IN
            Kws(<<<<"TRA", "TRR", "MCL", "MST">>[op + 1]>>)
            \o <<(IF op = 0 THEN intregn_r ELSE intregn_w)[(w % 16) + 1]>>
     ELSE IF Within(w, \o151000, \o151377) THEN Kws(<<"WAIT">>)
     ELSE IF Within(w, \o151400, \o151777) THEN Kws(<<"NLZ">>) \o <<Offset(w)>>
     ELSE IF Within(w, \o152000, \o152377) THEN Kws(<<"DNZ">>) \o <<Offset(w)>>
     ELSE IF Within(w, \o152400, \o152577) THEN Kws(<<"SRB">>) \o <<Num(8 * level)>>
     ELSE IF Within(w, \o152600, \o152777) THEN Kws(<<"LRB">>) \o <<Num(level)>>
     ELSE IF Within(w, \o153000, \o153377) THEN Kws(<<"MON">>) \o <<byte>>
     ELSE IF Within(w, \o153400, \o153577) THEN Kws(<<"IRW">>) \o <<Num(8 * level), reg>>
     ELSE IF Within(w, \o153600, \o153777) THEN Kws(<<"IRR">>) \o <<Num(8 * level), reg>>
     ELSE Undef

\* 0154000-0157777: shifts; bit 6 is not looked at.
ShiftText(w) ==
  LET count == w % 64 IN
  Kws(<<<<"SHT", "SHD", "SHA", "SAD">>[Field(w, 7, 2) + 1]>>
      \o shtype_str[Field(w, 9, 2) + 1])
  \o (IF count >= 32 THEN Kws(<<"SHR">>) \o <<Num(64 - count)>> ELSE <<Num(count)>>)

\* 0174000-0177777: bit operations; the upper status bits have no name.
BitText(w) ==
  LET bit == Field(w, 3, 4) IN
  Kws(bop_str[Field(w, 7, 4) + 1])
  \o (IF w % 8 # 0 THEN <<Num(8 * bit), regn_w[(w % 8) + 1]>>
      ELSE IF bit < 8 THEN Kws(<<bopstsbit_str[bit + 1]>>) ELSE <<>>)

nd100_disasm(w, cpu) ==
  LET top == w \div 2048
      sub == Field(w, 8, 3)
  IN CASE top <= 21 -> MemrefText(Memref[top + 1], w)
       [] top = 22 -> Kws(<<CondJumps[sub + 1]>>) \o <<Offset(w)>>
       [] top = 23 -> MemrefText("JPL", w)
       [] top = 24 -> Text140(w, cpu)
       [] top = 25 -> RopText(w)
       [] top = 26 -> Text150(w)
       [] top = 27 -> ShiftText(w)
       [] top = 28 -> Kws(<<"IOT">>) \o <<Num(w % 2048)>>
       [] top = 29 -> Kws(<<"IOX">>) \o <<Num(w % 2048)>>
       [] top = 30 -> Kws(<<<<"SAB", "SAA", "SAT", "SAX", "AAB", "AAA", "AAT", "AAX">>[sub + 1]>>)
                      \o <<Offset(w)>>
       [] top = 31 -> BitText(w)

\* Mutant: the conditional jumps are forgotten.
is_branch_unconditional(w) == w \div 2048 \in {21, 23}

nd100_is_branch(w) == w \div 2048 \in {21, 22, 23}

\* The signed byte of a branch, whatever char is.
nd100_branch_offset(w) ==
  IF ~nd100_is_branch(w) THEN -256
  ELSE IF w % 256 >= 128 THEN (w % 256) - 256 ELSE w % 256
=============================================================================
