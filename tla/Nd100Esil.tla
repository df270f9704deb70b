----------------------------- MODULE Nd100Esil -----------------------------
(***************************************************************************)
(* The emulation programs nd100_op writes for the host's stack machine,    *)
(* ESIL, and that machine.  A program is a sequence of tokens; an operator *)
(* takes its destination from the top of the stack.  The machine is not in *)
(* this repository and is modelled from how the programs use it: "==" puts *)
(* its truth on the stack (JAP, JAF) and sets what $z reads (JAZ); pc      *)
(* already points behind the instruction (JPL keeps it as the return       *)
(* address); registers have the 16 bits of the register profile.  Values   *)
(* on the stack are wider; they are integers, small enough here.           *)
(***************************************************************************)
EXTENDS Nd100Analysis

\* nd100_get_reg_profile; p is a register like the others, apart from pc.
RegNames == {"s", "d", "p", "b", "l", "a", "t", "x", "pc"}

\* The registers by their number in SKP and RADD; the first is the number 0.
sr == <<Num(0)>> \o Kws(<<"d", "p", "b", "l", "a", "t", "x">>)

-----------------------------------------------------------------------------
\* Programs.
ByteAddress == <<Num(2), Kw("*")>>

\* Mutant: X is added before the word is fetched.
esil_mem_ea_indexed_first(offset, relmode) ==
  <<Num(offset)>>
  \o (IF relmode \in {1, 3, 5, 7} THEN Kws(<<"b", "+">>) ELSE <<>>)
  \o (IF relmode \in 4 .. 7 THEN Kws(<<"x", "+">>) ELSE <<>>)
  \o (IF relmode \in {2, 3, 6, 7} THEN ByteAddress \o Kws(<<"[2]">>) ELSE <<>>)

\* The word address, left on the stack.
esil_mem_ea(offset, relmode) ==
  <<Num(offset)>>
  \o (IF relmode \in {1, 3, 5, 7} THEN Kws(<<"b", "+">>) ELSE <<>>)
  \o (IF relmode \in {2, 3, 6, 7} THEN ByteAddress \o Kws(<<"[2]">>) ELSE <<>>)
  \o (IF relmode \in 4 .. 7 THEN Kws(<<"x", "+">>) ELSE <<>>)

At(ea) == ea \o ByteAddress
esil_load(ea, reg) == At(ea) \o Kws(<<"[2]", reg, "=">>)
esil_store(ea, value) == <<value>> \o At(ea) \o Kws(<<"=[2]">>)
Apply(ea, op) == At(ea) \o Kws(<<"[2]", "a", op>>)

\* Add one, store it, and pass over the next instruction when it was zero.
Increment(ea) ==
  <<Num(1)>> \o At(ea) \o Kws(<<"[2]", "+", "DUP">>) \o At(ea) \o Kws(<<"=[2]">>)
  \o <<Num(0)>> \o Kws(<<"==", "$z", "?{">>) \o <<Num(4)>> \o Kws(<<"pc", "+=", "}">>)

Goto(target) == <<Num(target)>> \o Kws(<<"pc", "=">>)
\* Mutant: the target is counted from pc, as in the program of MIN.
IfFromPc(test, target) == test \o Kws(<<"?{">>) \o <<Num(4)>> \o Kws(<<"pc", "+=", "}">>)
If(test, target) == test \o Kws(<<"?{">>) \o Goto(target) \o Kws(<<"}">>)

\* The tests of the eight conditional jumps.
JumpTest(cond) ==
  LET zero(reg) == Kws(<<reg>>) \o <<Num(0)>> \o Kws(<<"==">>)
      sign == Kws(<<"a">>) \o <<Num(\h8000)>> \o Kws(<<"&">>)
  IN CASE cond = 0 -> sign \o Kws(<<"!">>) \o zero("a") \o Kws(<<"!", "&">>)
       [] cond = 1 -> sign
       [] cond = 2 -> zero("a") \o Kws(<<"$z">>)
       [] cond = 3 -> zero("a") \o Kws(<<"!">>)
       [] cond = 4 -> Kws(<<"$c">>)
       [] cond = 5 -> Kws(<<"$c", "!">>)
       [] cond = 6 -> zero("x") \o Kws(<<"$z">>)
       [] cond = 7 -> zero("x") \o Kws(<<"!">>)

\* The test of a skip; the four kinds without a program of their own test equality.
SkipTest(w) ==
  LET compare == <<"==", ">=", ">", "==", "==", "<", "==", "==">>[Mode(w) + 1]
  IN <<sr[Field(w, 3, 3) + 1], sr[Field(w, 0, 3) + 1], Kw(compare)>>
     \o (IF compare = "==" THEN Kws(<<"$z">>) ELSE <<>>)

Loads == [LDA |-> "a", LDT |-> "t", LDX |-> "x", LDD |-> "d"]
Stores == [STZ |-> Num(0), STA |-> Kw("a"), STT |-> Kw("t"), STX |-> Kw("x"),
           STD |-> Kw("d")]
Arithmetic == [ADD |-> "+=", SUB |-> "-=", AND |-> "&=", ORA |-> "|=", MPY |-> "*="]
ArgumentReg == [SAB |-> "b", SAA |-> "a", SAT |-> "t", SAX |-> "x",
                AAB |-> "b", AAA |-> "a", AAT |-> "t", AAX |-> "x"]

\* The program of an operation; none for most of them.  The program of DNZ is left
\* out: nd100_op writes it in a row no word reaches.
Esil(op) ==
  LET w == op.word
      ea == esil_mem_ea(Signed(w % 256), Mode(w))
      src == sr[Field(w, 3, 3) + 1]
      dst == sr[Field(w, 0, 3) + 1]
      count == w % 64
  IN CASE op.name \in DOMAIN Loads -> esil_load(ea, Loads[op.name])
       [] op.name \in DOMAIN Stores -> esil_store(ea, Stores[op.name])
       [] op.name \in DOMAIN Arithmetic -> Apply(ea, Arithmetic[op.name])
       [] op.name = "MIN" -> Increment(ea)
       [] op.type = "JMP" -> Goto(op.jump)
       [] op.name = "Jcc" -> If(JumpTest(Mode(w)), op.jump)
       [] op.type = "CALL" -> Kws(<<"pc", "l", "=">>) \o Goto(op.jump)
       [] op.type = "RET" -> Kws(<<"l", "pc", "=">>)
       [] op.name = "SKP" -> If(SkipTest(w), op.jump)
       [] op.name = "RADD" -> <<src, dst, Kw("+=")>>
       [] op.name = "RADD_CLD" -> <<src, dst, Kw("="), Num(0), src, Kw("=")>>
       [] op.name = "MON" -> <<Num(op.val), Kw("TRAP")>>
       [] op.name = "shift" /\ Field(w, 7, 2) = 0 ->
            IF op.type = "SHR" THEN <<Num(64 - count), Kw("a"), Kw(">>=")>>
            ELSE <<Num(count), Kw("a"), Kw("<<=")>>
       [] op.name \in DOMAIN ArgumentReg ->
            <<Num(op.val), Kw(ArgumentReg[op.name]),
              Kw(IF op.type = "MOV" THEN "=" ELSE "+=")>>
       [] OTHER -> <<>>

-----------------------------------------------------------------------------
\* Memory: `bytes` from address `base` on, and elsewhere the byte `outside`.
ByteAt(mem, a) ==
  IF a - mem.base \in 0 .. Len(mem.bytes) - 1 THEN mem.bytes[a - mem.base + 1]
  ELSE mem.outside
ReadWord(mem, a) == FromBytes(<<ByteAt(mem, a), ByteAt(mem, a + 1)>>, mem.big)
WriteWord(mem, a, value) ==
  LET two == ToBytes(value % 65536, mem.big)
      put(i) == LET k == mem.base + i - 1 - a IN
                IF k \in 0 .. 1 THEN two[k + 1] ELSE mem.bytes[i]
  IN [mem EXCEPT !.bytes = [i \in 1 .. Len(mem.bytes) |-> put(i)]]

Truth(p) == Num(IF p THEN 1 ELSE 0)

\* The bits two words have in common, a half at a time, and those of either.
And2(m, n) == 2 * ((m \div 2) * (n \div 2)) + (m % 2) * (n % 2)
And4(m, n) == 4 * And2(m \div 4, n \div 4) + And2(m % 4, n % 4)
And8(m, n) == 16 * And4(m \div 16, n \div 16) + And4(m % 16, n % 16)
And(m, n) == 256 * And8(m \div 256, n \div 256) + And8(m % 256, n % 256)
Or(m, n) == MaxWord - And(MaxWord - m, MaxWord - n)

\* Products and shifts of 16 bits, within what TLC can count.
Times(m, n) == ((m % 256) * n + 256 * (((m \div 256) * n) % 256)) % 65536
Left(n, count) == IF count < 16 THEN (n * 2^count) % 65536 ELSE 0
Right(n, count) == IF count < 16 THEN n \div 2^count ELSE 0

\* What "dst op= value" leaves in a register.
Assign(op, old, value) ==
  CASE op = "=" -> value % 65536
    [] op = "+=" -> (old + value) % 65536
    [] op = "-=" -> (old - value) % 65536
    [] op = "*=" -> Times(old, value % 65536)
    [] op = "&=" -> And(old, value % 65536)
    [] op = "|=" -> Or(old, value % 65536)
    [] op = "<<=" -> Left(old, value)
    [] op = ">>=" -> Right(old, value)
Assignments == {"=", "+=", "-=", "*=", "&=", "|=", "<<=", ">>="}

\* What two operands give, the destination first.
Combine(op, dst, src) ==
  CASE op = "+" -> Num(dst + src)
    [] op = "*" -> Num(dst * src)
    [] op = "&" -> Num(And(dst, src))
    [] op = ">=" -> Truth(dst >= src)
    [] op = ">" -> Truth(dst > src)
    [] op = "<" -> Truth(dst < src)
    [] op = "==" -> Truth(dst = src)
Combining == {"+", "*", "&", ">=", ">", "<", "=="}

\* What an element of the stack stands for.
Value(tok, reg) == IF tok.t = "#" THEN tok.n ELSE reg[tok.t]

\* The machine is [stack, reg, mem, carry, cur, state].  The stack is <<>> or its top
\* and the rest of it.  The machine is "passing" inside a "?{" that was not entered,
\* and "stopped" by an assignment to a number, which it refuses, or by a trap.
Keep(m, stack) == [m EXCEPT !.stack = stack]
Put(m, s, below) == Keep(m, <<s, below>>)
Turn(m, state) == [m EXCEPT !.state = state]
Compared(m, cur) == [m EXCEPT !.cur = cur]
Saved(m, mem) == [m EXCEPT !.mem = mem]
Assigned(m, r, value) == [m EXCEPT !.reg[r] = value]

\* Operators by what they take off the stack: nothing, one element, two.
Nullary(m, op) ==
  CASE op = "$z" -> Put(m, Truth(m.cur = 0), m.stack)
    [] op = "$c" -> Put(m, Truth(m.carry), m.stack)

Unary(m, op, val, rest) ==
  CASE op = "!" -> Put(m, Truth(val = 0), rest)
    [] op = "DUP" -> Put(m, Num(val), m.stack)
    [] op = "[2]" -> Put(m, Num(ReadWord(m.mem, val)), rest)
    [] op = "?{" -> Turn(Keep(m, rest), IF val = 0 THEN "passing" ELSE "running")
    [] op = "TRAP" -> Turn(Keep(m, rest), "stopped")
Unaries == {"!", "DUP", "[2]", "?{", "TRAP"}

Binary(m, op, top, second, rest) ==
  LET dst == Value(top, m.reg)
      src == Value(second, m.reg)
  IN CASE op \in Combining \ {"=="} -> Put(m, Combine(op, dst, src), rest)
       [] op = "==" -> Compared(Put(m, Combine(op, dst, src), rest), dst - src)
       [] op = "=[2]" -> Saved(Keep(m, rest), WriteWord(m.mem, dst, src))
       [] op \in Assignments /\ top.t = "#" -> Turn(m, "stopped")
       [] op \in Assignments /\ top.t # "#" ->
            Assigned(Keep(m, rest), top.t, Assign(op, m.reg[top.t], src))

Operator(m, op) ==
  IF op \in {"$z", "$c"} THEN Nullary(m, op)
  ELSE IF op \in Unaries THEN Unary(m, op, Value(m.stack[1], m.reg), m.stack[2])
  ELSE Binary(m, op, m.stack[1], m.stack[2][1], m.stack[2][2])

\* One token on machine m.
Token(m, tok) ==
  IF m.state = "stopped" THEN m
  ELSE IF tok.t = "}" THEN Turn(m, "running")
  ELSE IF m.state = "passing" THEN m
  ELSE IF tok.t \in {"#"} \cup RegNames THEN Put(m, tok, m.stack)
  ELSE Operator(m, tok.t)

\* The machine after each token of a program, and at its end.
Trace(m, program) ==
  LET at[i \in 0 .. Len(program)] == IF i = 0 THEN m ELSE Token(at[i - 1], program[i])
  IN at
Run(m, program) == Trace(m, program)[Len(program)]

\* An operation is emulated: pc has moved behind it, then its program runs.
Start(op, reg, mem, carry) ==
  [stack |-> <<>>, mem |-> mem, carry |-> carry, cur |-> 1, state |-> "running",
   reg |-> [reg EXCEPT !.pc = (@ + op.size) % 65536]]
Emulate(op, reg, mem, carry) == Run(Start(op, reg, mem, carry), Esil(op))
=============================================================================
