----------------------------- MODULE Nd100Parse -----------------------------
(***************************************************************************)
(* The pseudo-code plugin, src/rz_parse_nd100.c: nd100_parse rewrites one  *)
(* listed line.  The result is a template with a hole, and what fills it:  *)
(* an address expression, the operands as they were listed, or the name    *)
(* out of the comment.                                                     *)
(***************************************************************************)
EXTENDS Nd100Listing, FiniteSetsExt

\* An address expression: the sum of `inner`, taken out of memory when `deref`
\* is set, plus the sum of `outer`.  A term is "b", "x" or a number.
Ea(deref, inner, outer) == [deref |-> deref, inner |-> inner, outer |-> outer]
NoEa == Ea(FALSE, <<>>, <<>>)
When(flag, term) == IF flag THEN <<Kw(term)>> ELSE <<>>

\* The eight spellings, by the flags has_i, has_b and has_x and the offset.
EaOf(has_i, has_b, has_x, off) ==
  Ea(has_i, When(has_b, "b") \o When(has_x /\ ~has_i, "x") \o off,
     When(has_x /\ has_i, "x"))

\* The operands end at a comment.
Operands(line) ==
  LET comments == {i \in 1 .. Len(line) : line[i].t = ";"}
  IN SubSeq(line, 2, Min(comments \cup {Len(line) + 1}) - 1)

\* An I is a mode only before something; commas follow, the rest is the offset.
EaText(operands) ==
  LET has_i == Len(operands) > 1 /\ operands[1].t = "I"
      rest == IF has_i THEN Tail(operands) ELSE operands
      n == Max({k \in 0 .. Len(rest) : \A j \in 1 .. k : rest[j].t \in {",B", ",X"}})
      modes == {rest[j].t : j \in 1 .. n}
  IN EaOf(has_i, ",B" \in modes, ",X" \in modes, SubSeq(rest, n + 1, Len(rest)))

-----------------------------------------------------------------------------
\* Templates whose hole is the address.
EaForms == [
  LDA |-> "a = *(%s)", LDT |-> "t = *(%s)", LDX |-> "x = *(%s)", LDD |-> "d = *(%s)",
  LDF |-> "f = *(%s)", STA |-> "*(%s) = a", STT |-> "*(%s) = t", STX |-> "*(%s) = x",
  STD |-> "*(%s) = d", STF |-> "*(%s) = f", STZ |-> "*(%s) = 0",
  ADD |-> "a += *(%s)", SUB |-> "a -= *(%s)", MPY |-> "a *= *(%s)",
  AND |-> "a &= *(%s)", ORA |-> "a |= *(%s)", MIN |-> "if (++*(%s) == 0) skip",
  FAD |-> "f += *(%s)", FSB |-> "f -= *(%s)", FMU |-> "f *= *(%s)", FDV |-> "f /= *(%s)"]

\* Templates whose hole is the operands.
BranchForms == [
  JMP |-> "goto %s", JPL |-> "call %s", JAP |-> "if (a > 0) goto %s",
  JAN |-> "if (a < 0) goto %s", JAZ |-> "if (a == 0) goto %s",
  JAF |-> "if (a != 0) goto %s", JPC |-> "if (carry) goto %s",
  JNC |-> "if (!carry) goto %s", JXZ |-> "if (x == 0) goto %s",
  JXN |-> "if (x != 0) goto %s"]

OperandForms == [
  SKP |-> "if (%s) skip", SAA |-> "a = %s", SAB |-> "b = %s", SAT |-> "t = %s",
  SAX |-> "x = %s", AAA |-> "a += %s", AAB |-> "b += %s", AAT |-> "t += %s",
  AAX |-> "x += %s", RADD |-> "reg_add(%s)", RSUB |-> "reg_sub(%s)",
  SWAP |-> "swap(%s)", RAND |-> "reg_and(%s)", REXO |-> "reg_xor(%s)",
  RORA |-> "reg_or(%s)", RMPY |-> "reg_mul(%s)", RDIV |-> "reg_div(%s)",
  COPY |-> "copy(%s)", IOT |-> "iot(0%s)", SHT |-> "a <<= %s",
  SHA |-> "a = arith_shift(a, %s)", SHD |-> "d <<= %s",
  SAD |-> "d = arith_shift(d, %s)", DNZ |-> "if (--*(%s) != 0) skip",
  NLZ |-> "if (nlz(a) == %s) skip", BSKP |-> "if (bit_test(%s)) skip",
  BSET |-> "bit_set(%s)", BSTC |-> "bit_store(%s)", BSTA |-> "bit_store(%s)",
  BLDC |-> "bit_load(%s)", BLDA |-> "bit_load(%s)", BANC |-> "bit_and(%s)",
  BAND |-> "bit_and(%s)", BORC |-> "bit_or(%s)", BORA |-> "bit_or(%s)",
  TRA |-> "a = intreg[%s]", TRR |-> "intreg[%s] = a"]

\* Templates without a hole.
PlainForms == [
  EXIT |-> "return", LEAVE |-> "return", ELEAV |-> "return",
  ENTR |-> "enter_frame()", INIT |-> "init_stack()", IOXT |-> "if (io_done) skip",
  WAIT |-> "halt()", OPCOM |-> "operator_call()", IOF |-> "interrupts_off()",
  ION |-> "interrupts_on()", POF |-> "paging_off()", PON |-> "paging_on()",
  ROP |-> "nop", NOP |-> "nop", LBYT |-> "a = load_byte()", SBYT |-> "store_byte(a)",
  MOVB |-> "move_bytes()", MOVBF |-> "move_bytes_fast()", MOVEW |-> "move_words()",
  BFILL |-> "block_fill()"]

Pseudo(form, ea, arg) == [form |-> form, ea |-> ea, arg |-> arg]

\* One listed line; a mnemonic without a template is passed on as it is.
nd100_parse(line) ==
  IF line = <<>> THEN Pseudo("", NoEa, <<>>)
  ELSE
    LET mnemonic == line[1].t
        operands == Operands(line)
        note == SelectSeq(line, LAMBDA tok : tok.t = "note")
        noted == note # <<>>
    IN CASE mnemonic \in DOMAIN EaForms ->
              Pseudo(EaForms[mnemonic], EaText(operands), <<>>)
         [] mnemonic \in DOMAIN BranchForms ->
              Pseudo(BranchForms[mnemonic], NoEa, operands)
         [] mnemonic \in DOMAIN OperandForms ->
              Pseudo(OperandForms[mnemonic], NoEa, operands)
         [] mnemonic \in DOMAIN PlainForms -> Pseudo(PlainForms[mnemonic], NoEa, <<>>)
         [] mnemonic = "MON" ->
              IF noted THEN Pseudo("%s()", NoEa, note)
              ELSE Pseudo("syscall(%s)", NoEa, operands)
         [] mnemonic = "IOX" ->
              IF noted THEN Pseudo("io(%s)", NoEa, note)
              ELSE Pseudo("io(0%s)", NoEa, operands)
         [] OTHER -> Pseudo("%s", NoEa, <<line[1]>> \o operands)
=============================================================================
