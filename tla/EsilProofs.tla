----------------------------- MODULE EsilProofs -----------------------------
(***************************************************************************)
(* What the emulation programs of nd100_op do, for every word, every       *)
(* content of the registers and every image: the registers stay words, the *)
(* image keeps its shape, and pc ends where the operation says.            *)
(***************************************************************************)
EXTENDS Nd100Esil, AnalysisProofs

-----------------------------------------------------------------------------
\* Running a program.

\* g has the machine after each token of p.
IsTrace(g, m, p, n) ==
  g = [i \in 0 .. n |-> IF i = 0 THEN m ELSE Token(g[i - 1], p[i])]

LEMMA TraceExists ==
  ASSUME NEW m, NEW p, NEW n \in Nat
  PROVE  \E g : IsTrace(g, m, p, n)
<1> DEFINE T == {k \in Nat : \E g : IsTrace(g, m, p, k)}
<1>1. 0 \in T
  <2> DEFINE g == [i \in 0 .. 0 |-> m]
  <2>1. IsTrace(g, m, p, 0)
    BY DEF IsTrace
  <2>2. QED
    BY <2>1
<1>2. ASSUME NEW k \in T PROVE k + 1 \in T
  <2>1. k \in Nat
    OBVIOUS
  <2>2. PICK g : IsTrace(g, m, p, k)
    OBVIOUS
  <2> DEFINE h == [i \in 0 .. k + 1 |-> IF i = k + 1 THEN Token(g[k], p[k + 1]) ELSE g[i]]
  <2>3. ASSUME NEW i \in 0 .. k + 1
        PROVE  h[i] = IF i = 0 THEN m ELSE Token(h[i - 1], p[i])
    <3>1. CASE i = k + 1
      <4>1. i # 0 /\ i - 1 = k /\ k # k + 1 /\ i - 1 \in 0 .. k + 1
        BY <2>1, <3>1
      <4>2. h[i] = Token(g[k], p[i]) /\ h[i - 1] = g[k]
        BY <3>1, <4>1
      <4>3. QED
        BY <4>1, <4>2
    <3>2. CASE i # k + 1
      <4>1. i \in 0 .. k
        BY <2>1, <3>2
      <4>2. h[i] = g[i] /\ g[i] = IF i = 0 THEN m ELSE Token(g[i - 1], p[i])
        BY <2>2, <3>2, <4>1 DEF IsTrace
      <4>3. i # 0 => i - 1 \in 0 .. k + 1 /\ i - 1 # k + 1
        BY <2>1, <4>1
      <4>4. i # 0 => h[i - 1] = g[i - 1]
        BY <4>3
      <4>5. QED
        BY <4>2, <4>4
    <3>3. QED
      BY <3>1, <3>2
  <2>4. h = [i \in 0 .. k + 1 |-> h[i]]
    OBVIOUS
  <2> HIDE DEF h
  <2>5. IsTrace(h, m, p, k + 1)
    BY <2>3, <2>4 DEF IsTrace
  <2>6. QED
    BY <2>1, <2>5
<1>3. T = Nat
  <2>1. T \subseteq Nat
    OBVIOUS
  <2> HIDE DEF T
  <2>2. QED
    BY <1>1, <1>2, <2>1, SetInduction
<1>4. QED
  BY <1>3

(* The equations of Trace.                                                    *)
LEMMA TraceSteps ==
  ASSUME NEW m, NEW p, Len(p) \in Nat
  PROVE  /\ Trace(m, p)[0] = m
         /\ \A i \in 1 .. Len(p) : Trace(m, p)[i] = Token(Trace(m, p)[i - 1], p[i])
<1> DEFINE at == Trace(m, p)
<1>1. at = CHOOSE g : IsTrace(g, m, p, Len(p))
  BY DEF Trace, IsTrace
<1>2. IsTrace(at, m, p, Len(p))
  BY <1>1, TraceExists
<1> HIDE DEF at
<1>3. 0 \in 0 .. Len(p) /\ \A i \in 1 .. Len(p) : i \in 0 .. Len(p) /\ i # 0
  OBVIOUS
<1>4. \A i \in 0 .. Len(p) : at[i] = IF i = 0 THEN m ELSE Token(at[i - 1], p[i])
  BY <1>2 DEF IsTrace
<1>5. QED
  BY <1>3, <1>4 DEF at

\* The operators of Nd100Esil.
Operators == {"$z", "$c", "=[2]"} \cup Unaries \cup Combining \cup Assignments

\* Programs.
Tok == {Kw(a) : a \in Operators \cup RegNames \cup {"}"}} \cup {Num(i) : i \in Int}
Program == Seq(Tok)

(* A program runs to the end of its first part, and from there on.            *)
LEMMA RunConcat ==
  ASSUME NEW m, NEW p \in Program, NEW q \in Program
  PROVE  Run(m, p \o q) = Run(Run(m, p), q)
<1> DEFINE a == Trace(m, p)
           b == Trace(a[Len(p)], q)
           c == Trace(m, p \o q)
           S == {i \in Nat : i <= Len(p) => c[i] = a[i]}
           T == {j \in Nat : j <= Len(q) => c[Len(p) + j] = b[j]}
<1>1. /\ Len(p) \in Nat /\ Len(q) \in Nat /\ Len(p \o q) = Len(p) + Len(q)
      /\ \A i \in 1 .. Len(p) : (p \o q)[i] = p[i]
      /\ \A j \in 1 .. Len(q) : (p \o q)[Len(p) + j] = q[j]
  BY ConcatProperties DEF Program
<1>2. /\ a[0] = m /\ \A i \in 1 .. Len(p) : a[i] = Token(a[i - 1], p[i])
      /\ b[0] = a[Len(p)] /\ \A j \in 1 .. Len(q) : b[j] = Token(b[j - 1], q[j])
  BY <1>1, TraceSteps
<1>3. c[0] = m /\ \A i \in 1 .. Len(p) + Len(q) : c[i] = Token(c[i - 1], (p \o q)[i])
  <2> DEFINE r == p \o q
  <2>1. Len(r) \in Nat /\ Len(r) = Len(p) + Len(q)
    BY <1>1
  <2> HIDE DEF r
  <2>2. Trace(m, r)[0] = m /\ \A i \in 1 .. Len(r) : Trace(m, r)[i] = Token(Trace(m, r)[i - 1], r[i])
    BY <2>1, TraceSteps
  <2>3. QED
    BY <2>1, <2>2 DEF r
<1> HIDE DEF a, b, c
<1>4. S = Nat
  <2>1. S \subseteq Nat /\ 0 \in S
    BY <1>2, <1>3
  <2>2. ASSUME NEW k \in S, k + 1 <= Len(p) PROVE c[k + 1] = a[k + 1]
    <3>1. /\ k \in Nat /\ c[k] = a[k] /\ k + 1 - 1 = k
          /\ k + 1 \in 1 .. Len(p) /\ k + 1 \in 1 .. Len(p) + Len(q)
      BY <1>1, <2>2
    <3>2. QED
      BY <1>1, <1>2, <1>3, <3>1
  <2>3. \A k \in S : k + 1 \in S
    BY <2>2
  <2> HIDE DEF S
  <2>4. QED
    BY <2>1, <2>3, SetInduction
<1>5. c[Len(p)] = a[Len(p)]
  BY <1>1, <1>4
<1>6. T = Nat
  <2>1. T \subseteq Nat /\ 0 \in T
    BY <1>1, <1>2, <1>5
  <2>2. ASSUME NEW k \in T, k + 1 <= Len(q) PROVE c[Len(p) + (k + 1)] = b[k + 1]
    <3>1. /\ k \in Nat /\ c[Len(p) + k] = b[k]
          /\ Len(p) + (k + 1) - 1 = Len(p) + k /\ k + 1 - 1 = k
          /\ k + 1 \in 1 .. Len(q) /\ Len(p) + (k + 1) \in 1 .. Len(p) + Len(q)
      BY <1>1, <2>2
    <3>2. QED
      BY <1>1, <1>2, <1>3, <3>1
  <2>3. \A k \in T : k + 1 \in T
    BY <2>2
  <2> HIDE DEF T
  <2>4. QED
    BY <2>1, <2>3, SetInduction
<1>7. c[Len(p) + Len(q)] = b[Len(q)]
  BY <1>1, <1>6
<1>8. QED
  BY <1>1, <1>7 DEF Run, a, b, c

LEMMA RunEmpty == ASSUME NEW m PROVE Run(m, <<>>) = m
  BY TraceSteps DEF Run

LEMMA RunOne ==
  ASSUME NEW m, NEW x \in Tok
  PROVE  Run(m, <<x>>) = Token(m, x)
<1>1. Len(<<x>>) = 1 /\ 1 \in 1 .. 1 /\ <<x>>[1] = x
  OBVIOUS
<1>2. Trace(m, <<x>>)[0] = m /\ Trace(m, <<x>>)[1] = Token(Trace(m, <<x>>)[1 - 1], x)
  BY <1>1, TraceSteps
<1>3. QED
  BY <1>1, <1>2 DEF Run

LEMMA RunTwo ==
  ASSUME NEW m, NEW x \in Tok, NEW y \in Tok
  PROVE  Run(m, <<x, y>>) = Token(Token(m, x), y)
<1> DEFINE p == <<x, y>>
           at == Trace(m, p)
<1>0. Len(p) \in Nat
  OBVIOUS
<1>1. Len(p) = 2 /\ p[1] = x /\ p[2] = y /\ 1 \in 1 .. 2 /\ 2 \in 1 .. 2
  OBVIOUS
<1> HIDE DEF p
<1>2. at[0] = m /\ \A i \in 1 .. Len(p) : at[i] = Token(at[i - 1], p[i])
  BY <1>0, TraceSteps
<1>3. Run(m, p) = at[2]
  BY <1>1 DEF Run
<1> HIDE DEF at
<1>4. QED
  BY <1>1, <1>2, <1>3 DEF p

LEMMA RunThree ==
  ASSUME NEW m, NEW x \in Tok, NEW y \in Tok, NEW z \in Tok
  PROVE  Run(m, <<x, y, z>>) = Token(Token(Token(m, x), y), z)
<1> DEFINE p == <<x, y, z>>
           at == Trace(m, p)
<1>0. Len(p) \in Nat
  OBVIOUS
<1>1. /\ Len(p) = 3 /\ p[1] = x /\ p[2] = y /\ p[3] = z
      /\ 1 \in 1 .. 3 /\ 2 \in 1 .. 3 /\ 3 \in 1 .. 3
  OBVIOUS
<1> HIDE DEF p
<1>2. at[0] = m /\ \A i \in 1 .. Len(p) : at[i] = Token(at[i - 1], p[i])
  BY <1>0, TraceSteps
<1>3. Run(m, p) = at[3]
  BY <1>1 DEF Run
<1> HIDE DEF at
<1>4. QED
  BY <1>1, <1>2, <1>3 DEF p

(* Short programs.                                                            *)
LEMMA Short ==
  ASSUME NEW x \in Tok, NEW y \in Tok, NEW z \in Tok
  PROVE  <<>> \in Program /\ <<x>> \in Program /\ <<x, y>> \in Program
         /\ <<x, y, z>> \in Program
<1> DEFINE S == Tok
<1>1. x \in S /\ y \in S /\ z \in S
  OBVIOUS
<1> HIDE DEF S
<1>2. <<>> \in Seq(S) /\ <<x>> \in Seq(S) /\ <<x, y>> \in Seq(S) /\ <<x, y, z>> \in Seq(S)
  BY <1>1
<1>3. QED
  BY <1>2 DEF S, Program

LEMMA KwsTuples ==
  \A a, b, c : /\ Kws(<<a>>) = <<Kw(a)>> /\ Kws(<<a, b>>) = <<Kw(a), Kw(b)>>
              /\ Kws(<<a, b, c>>) = <<Kw(a), Kw(b), Kw(c)>>
BY DEF Kws

LEMMA KwTok == \A a \in Operators \cup RegNames \cup {"}"} : Kw(a) \in Tok
  BY DEF Tok
LEMMA NumTok == \A i \in Int : Num(i) \in Tok
  BY DEF Tok

-----------------------------------------------------------------------------
\* The machine, token by token.

\* Running; inside a "?{" that was not entered; stopped for good.
Machine(s, r, mm, c, u, state) ==
  [stack |-> s, mem |-> mm, carry |-> c, cur |-> u, state |-> state, reg |-> r]
On(s, r, mm, c, u) == Machine(s, r, mm, c, u, "running")
Off(s, r, mm, c, u) == Machine(s, r, mm, c, u, "passing")
Stopped(s, r, mm, c, u) == Machine(s, r, mm, c, u, "stopped")

LEMMA Parts ==
  ASSUME NEW s, NEW r, NEW mm, NEW c, NEW u, NEW state
  PROVE  LET m == Machine(s, r, mm, c, u, state) IN
         /\ m.stack = s /\ m.reg = r /\ m.mem = mm /\ m.carry = c /\ m.cur = u
         /\ m.state = state
  BY DEF Machine

LEMMA KeepOn ==
  ASSUME NEW s, NEW r, NEW mm, NEW c, NEW u, NEW v
  PROVE  Keep(On(s, r, mm, c, u), v) = On(v, r, mm, c, u)
  BY DEF On, Machine, Keep

LEMMA PutOn ==
  ASSUME NEW s, NEW r, NEW mm, NEW c, NEW u, NEW v, NEW t
  PROVE  Put(On(s, r, mm, c, u), v, t) = On(<<v, t>>, r, mm, c, u)
  BY DEF On, Machine, Keep, Put

LEMMA ComparedOn ==
  ASSUME NEW s, NEW r, NEW mm, NEW c, NEW u, NEW v
  PROVE  Compared(On(s, r, mm, c, u), v) = On(s, r, mm, c, v)
  BY DEF On, Machine, Compared

LEMMA SavedOn ==
  ASSUME NEW s, NEW r, NEW mm, NEW c, NEW u, NEW v
  PROVE  Saved(On(s, r, mm, c, u), v) = On(s, r, v, c, u)
  BY DEF On, Machine, Saved

LEMMA AssignedOn ==
  ASSUME NEW s, NEW r, NEW mm, NEW c, NEW u, NEW v, NEW g
  PROVE  Assigned(On(s, r, mm, c, u), g, v) = On(s, [r EXCEPT ![g] = v], mm, c, u)
  BY DEF On, Machine, Assigned

LEMMA TurnMachine ==
  ASSUME NEW s, NEW r, NEW mm, NEW c, NEW u, NEW state, NEW v
  PROVE  Turn(Machine(s, r, mm, c, u, state), v) = Machine(s, r, mm, c, u, v)
  BY DEF Turn, Machine

LEMMA TokenOperator ==
  ASSUME NEW s, NEW r, NEW mm, NEW c, NEW u, NEW op \in Operators
  PROVE  Token(On(s, r, mm, c, u), Kw(op)) = Operator(On(s, r, mm, c, u), op)
<1>1. op \notin {"#", "}"} \cup RegNames
  BY DEF Operators, RegNames, Unaries, Combining, Assignments
<1>2. Kw(op).t = op
  BY DEF Kw
<1>3. On(s, r, mm, c, u).state = "running"
  BY Parts, KeepOn, SavedOn, AssignedOn DEF On
<1>4. QED
  BY <1>1, <1>2, <1>3 DEF Token

LEMMA TokenPush ==
  ASSUME NEW s, NEW r, NEW mm, NEW c, NEW u, NEW x, x.t \in {"#"} \cup RegNames
  PROVE  Token(On(s, r, mm, c, u), x) = On(<<x, s>>, r, mm, c, u)
<1> DEFINE m == On(s, r, mm, c, u)
<1>1. x.t # "}"
  BY DEF RegNames
<1>2. m.state = "running" /\ m.stack = s
  BY Parts, KeepOn, SavedOn, AssignedOn DEF On
<1>3. Put(m, x, s) = On(<<x, s>>, r, mm, c, u)
  BY PutOn
<1> HIDE DEF m
<1>4. QED
  BY <1>1, <1>2, <1>3 DEF Token, m

(* A machine with two elements on its stack.                                  *)
LEMMA TwoOnStack ==
  ASSUME NEW s, NEW r, NEW mm, NEW c, NEW u, NEW x, NEW y,
         NEW op \in Combining \cup Assignments \cup {"=[2]"}
  PROVE  Token(On(<<x, <<y, s>>>>, r, mm, c, u), Kw(op))
           = Binary(On(<<x, <<y, s>>>>, r, mm, c, u), op, x, y, s)
<1> DEFINE m == On(<<x, <<y, s>>>>, r, mm, c, u)
<1>1. op \in Operators /\ op \notin {"$z", "$c"} /\ op \notin Unaries
  BY DEF Operators, Unaries, Combining, Assignments
<1>2. m.stack = <<x, <<y, s>>>>
  BY Parts, KeepOn, SavedOn, AssignedOn DEF On
<1>3. Token(m, Kw(op)) = Operator(m, op)
  BY <1>1, TokenOperator
<1> HIDE DEF m
<1>4. m.stack[1] = x /\ m.stack[2][1] = y /\ m.stack[2][2] = s
  BY <1>2
<1>5. QED
  BY <1>1, <1>3, <1>4 DEF Operator, m

LEMMA TokenBinary ==
  ASSUME NEW s, NEW r, NEW mm, NEW c, NEW u, NEW x, NEW y, NEW op \in Combining \ {"=="}
  PROVE  Token(On(<<x, <<y, s>>>>, r, mm, c, u), Kw(op))
           = On(<<Combine(op, Value(x, r), Value(y, r)), s>>, r, mm, c, u)
<1> DEFINE m == On(<<x, <<y, s>>>>, r, mm, c, u)
<1>1. Token(m, Kw(op)) = Binary(m, op, x, y, s)
  BY TwoOnStack
<1>2. m.reg = r /\ \A z : Put(m, z, s) = On(<<z, s>>, r, mm, c, u)
  BY Parts, PutOn, ComparedOn DEF On
<1> HIDE DEF m
<1>3. Binary(m, op, x, y, s) = Put(m, Combine(op, Value(x, m.reg), Value(y, m.reg)), s)
  BY DEF Binary, Combining, Assignments
<1>4. QED
  BY <1>1, <1>2, <1>3 DEF m

LEMMA TokenEqual ==
  ASSUME NEW s, NEW r, NEW mm, NEW c, NEW u, NEW x, NEW y
  PROVE  Token(On(<<x, <<y, s>>>>, r, mm, c, u), Kw("=="))
           = On(<<Truth(Value(x, r) = Value(y, r)), s>>, r, mm, c, Value(x, r) - Value(y, r))
<1> DEFINE m == On(<<x, <<y, s>>>>, r, mm, c, u)
<1>1. Token(m, Kw("==")) = Binary(m, "==", x, y, s)
  BY TwoOnStack DEF Combining
<1>2. /\ m.reg = r
      /\ \A z, v : Compared(Put(m, z, s), v) = On(<<z, s>>, r, mm, c, v)
  BY Parts, PutOn, ComparedOn DEF On
<1> HIDE DEF m
<1>3. Binary(m, "==", x, y, s)
        = Compared(Put(m, Combine("==", Value(x, m.reg), Value(y, m.reg)), s),
                   Value(x, m.reg) - Value(y, m.reg))
  BY DEF Binary, Combining, Assignments
<1>4. \A v, w : Combine("==", v, w) = Truth(v = w)
  BY DEF Combine
<1>5. QED
  BY <1>1, <1>2, <1>3, <1>4 DEF m

LEMMA TokenStore ==
  ASSUME NEW s, NEW r, NEW mm, NEW c, NEW u, NEW x, NEW y
  PROVE  Token(On(<<x, <<y, s>>>>, r, mm, c, u), Kw("=[2]"))
           = On(s, r, WriteWord(mm, Value(x, r), Value(y, r)), c, u)
<1> DEFINE m == On(<<x, <<y, s>>>>, r, mm, c, u)
<1>1. Token(m, Kw("=[2]")) = Binary(m, "=[2]", x, y, s)
  BY TwoOnStack
<1>2. /\ m.reg = r /\ m.mem = mm
      /\ \A v : Saved(Keep(m, s), v) = On(s, r, v, c, u)
  BY Parts, KeepOn, SavedOn, AssignedOn DEF On
<1> HIDE DEF m
<1>3. Binary(m, "=[2]", x, y, s)
        = Saved(Keep(m, s), WriteWord(m.mem, Value(x, m.reg), Value(y, m.reg)))
  BY DEF Binary, Combining, Assignments
<1>4. QED
  BY <1>1, <1>2, <1>3 DEF m

(* A machine with an element on its stack.                                    *)
LEMMA TokenUnary ==
  ASSUME NEW s, NEW r, NEW mm, NEW c, NEW u, NEW x, NEW op \in Unaries
  PROVE  Token(On(<<x, s>>, r, mm, c, u), Kw(op)) = Unary(On(<<x, s>>, r, mm, c, u), op, Value(x, r), s)
<1> DEFINE m == On(<<x, s>>, r, mm, c, u)
<1>1. op \in Operators /\ op \notin {"$z", "$c"}
  BY DEF Operators, Unaries
<1>2. m.stack = <<x, s>> /\ m.reg = r
  BY Parts, KeepOn, SavedOn, AssignedOn DEF On
<1>3. Token(m, Kw(op)) = Operator(m, op)
  BY <1>1, TokenOperator
<1> HIDE DEF m
<1>4. m.stack[1] = x /\ m.stack[2] = s
  BY <1>2
<1>5. QED
  BY <1>1, <1>2, <1>3, <1>4 DEF Operator, m

LEMMA TokenNot ==
  ASSUME NEW s, NEW r, NEW mm, NEW c, NEW u, NEW x
  PROVE  Token(On(<<x, s>>, r, mm, c, u), Kw("!"))
           = On(<<Truth(Value(x, r) = 0), s>>, r, mm, c, u)
<1> DEFINE m == On(<<x, s>>, r, mm, c, u)
<1>0. "!" \in Unaries
  BY DEF Unaries
<1>1. Token(m, Kw("!")) = Unary(m, "!", Value(x, r), s)
  BY <1>0, TokenUnary
<1>2. \A z : Put(m, z, s) = On(<<z, s>>, r, mm, c, u)
  BY PutOn
<1> HIDE DEF m
<1>3. \A v : Unary(m, "!", v, s) = Put(m, Truth(v = 0), s)
  BY DEF Unary
<1>4. QED
  BY <1>1, <1>2, <1>3 DEF m

LEMMA TokenDup ==
  ASSUME NEW s, NEW r, NEW mm, NEW c, NEW u, NEW x
  PROVE  Token(On(<<x, s>>, r, mm, c, u), Kw("DUP"))
           = On(<<Num(Value(x, r)), <<x, s>>>>, r, mm, c, u)
<1> DEFINE m == On(<<x, s>>, r, mm, c, u)
<1>0. "DUP" \in Unaries
  BY DEF Unaries
<1>1. Token(m, Kw("DUP")) = Unary(m, "DUP", Value(x, r), s)
  BY <1>0, TokenUnary
<1>2. m.stack = <<x, s>> /\ \A z, t : Put(m, z, t) = On(<<z, t>>, r, mm, c, u)
  BY Parts, PutOn, ComparedOn DEF On
<1> HIDE DEF m
<1>3. \A v : Unary(m, "DUP", v, s) = Put(m, Num(v), m.stack)
  BY DEF Unary
<1>4. QED
  BY <1>1, <1>2, <1>3 DEF m

LEMMA TokenRead ==
  ASSUME NEW s, NEW r, NEW mm, NEW c, NEW u, NEW x
  PROVE  Token(On(<<x, s>>, r, mm, c, u), Kw("[2]"))
           = On(<<Num(ReadWord(mm, Value(x, r))), s>>, r, mm, c, u)
<1> DEFINE m == On(<<x, s>>, r, mm, c, u)
<1>0. "[2]" \in Unaries
  BY DEF Unaries
<1>1. Token(m, Kw("[2]")) = Unary(m, "[2]", Value(x, r), s)
  BY <1>0, TokenUnary
<1>2. m.mem = mm /\ \A z : Put(m, z, s) = On(<<z, s>>, r, mm, c, u)
  BY Parts, PutOn, ComparedOn DEF On
<1> HIDE DEF m
<1>3. \A v : Unary(m, "[2]", v, s) = Put(m, Num(ReadWord(m.mem, v)), s)
  BY DEF Unary
<1>4. QED
  BY <1>1, <1>2, <1>3 DEF m

\* A token other than the end of a "?{", and the two ends.
Plain(x) == x.t # "}"
Open == Kw("?{")
Close == Kw("}")

LEMMA TokenIf ==
  ASSUME NEW s, NEW r, NEW mm, NEW c, NEW u, NEW x
  PROVE  Token(On(<<x, s>>, r, mm, c, u), Open)
           = IF Value(x, r) = 0 THEN Off(s, r, mm, c, u) ELSE On(s, r, mm, c, u)
<1> DEFINE m == On(<<x, s>>, r, mm, c, u)
<1>0. "?{" \in Unaries
  BY DEF Unaries
<1>1. \A op \in Unaries : Token(m, Kw(op)) = Unary(m, op, Value(x, r), s)
  BY TokenUnary
<1>2. Keep(m, s) = On(s, r, mm, c, u)
  BY KeepOn
<1>3. /\ Turn(Keep(m, s), "passing") = Off(s, r, mm, c, u)
      /\ Turn(Keep(m, s), "running") = On(s, r, mm, c, u)
  BY <1>2, TurnMachine DEF On, Off
<1> HIDE DEF m
<1>4. \A v : Unary(m, "?{", v, s) = Turn(Keep(m, s), IF v = 0 THEN "passing" ELSE "running")
  BY DEF Unary
<1>5. CASE Value(x, r) = 0
  BY <1>0, <1>1, <1>3, <1>4, <1>5 DEF m, Open
<1>6. CASE Value(x, r) # 0
  BY <1>0, <1>1, <1>3, <1>4, <1>6 DEF m, Open
<1>7. QED
  BY <1>5, <1>6

LEMMA TokenTrap ==
  ASSUME NEW s, NEW r, NEW mm, NEW c, NEW u, NEW x
  PROVE  Token(On(<<x, s>>, r, mm, c, u), Kw("TRAP")) = Stopped(s, r, mm, c, u)
<1> DEFINE m == On(<<x, s>>, r, mm, c, u)
<1>0. "TRAP" \in Unaries
  BY DEF Unaries
<1>1. Token(m, Kw("TRAP")) = Unary(m, "TRAP", Value(x, r), s)
  BY <1>0, TokenUnary
<1>2. Keep(m, s) = On(s, r, mm, c, u)
  BY KeepOn
<1>3. Turn(Keep(m, s), "stopped") = Stopped(s, r, mm, c, u)
  BY <1>2, TurnMachine DEF On, Stopped
<1> HIDE DEF m
<1>4. \A v : Unary(m, "TRAP", v, s) = Turn(Keep(m, s), "stopped")
  BY DEF Unary
<1>5. QED
  BY <1>1, <1>3, <1>4 DEF m

LEMMA TokenZero ==
  ASSUME NEW s, NEW r, NEW mm, NEW c, NEW u
  PROVE  Token(On(s, r, mm, c, u), Kw("$z")) = On(<<Truth(u = 0), s>>, r, mm, c, u)
<1> DEFINE m == On(s, r, mm, c, u)
<1>1. Token(m, Kw("$z")) = Operator(m, "$z")
  BY TokenOperator DEF Operators
<1>2. m.cur = u /\ m.stack = s /\ \A z : Put(m, z, s) = On(<<z, s>>, r, mm, c, u)
  BY Parts, PutOn, ComparedOn DEF On
<1> HIDE DEF m
<1>3. Operator(m, "$z") = Put(m, Truth(m.cur = 0), m.stack)
  BY DEF Operator, Nullary
<1>4. QED
  BY <1>1, <1>2, <1>3 DEF m

LEMMA TokenCarry ==
  ASSUME NEW s, NEW r, NEW mm, NEW c, NEW u
  PROVE  Token(On(s, r, mm, c, u), Kw("$c")) = On(<<Truth(c), s>>, r, mm, c, u)
<1> DEFINE m == On(s, r, mm, c, u)
<1>1. Token(m, Kw("$c")) = Operator(m, "$c")
  BY TokenOperator DEF Operators
<1>2. m.carry = c /\ m.stack = s /\ \A z : Put(m, z, s) = On(<<z, s>>, r, mm, c, u)
  BY Parts, PutOn, ComparedOn DEF On
<1> HIDE DEF m
<1>3. Operator(m, "$c") = Put(m, Truth(m.carry), m.stack)
  BY DEF Operator, Nullary
<1>4. QED
  BY <1>1, <1>2, <1>3 DEF m

LEMMA TokenClose ==
  ASSUME NEW s, NEW r, NEW mm, NEW c, NEW u, NEW state \in {"running", "passing"}
  PROVE  Token(Machine(s, r, mm, c, u, state), Close) = On(s, r, mm, c, u)
<1> DEFINE k == Machine(s, r, mm, c, u, state)
<1>1. k.state # "stopped"
  BY Parts
<1>2. Turn(k, "running") = On(s, r, mm, c, u)
  BY TurnMachine DEF On
<1>3. Close.t = "}"
  BY DEF Kw, Close
<1> HIDE DEF k
<1>4. Token(k, Close) = Turn(k, "running")
  BY <1>1, <1>3 DEF Token
<1>5. QED
  BY <1>2, <1>4 DEF k

LEMMA TokenSkipped ==
  ASSUME NEW s, NEW r, NEW mm, NEW c, NEW u, NEW x, Plain(x)
  PROVE  Token(Off(s, r, mm, c, u), x) = Off(s, r, mm, c, u)
<1> DEFINE k == Off(s, r, mm, c, u)
<1>1. Off(s, r, mm, c, u).state = "passing"
  BY DEF Machine, Off
<1>2. QED
  BY <1>1 DEF Token, Plain

LEMMA TokenStopped ==
  ASSUME NEW s, NEW r, NEW mm, NEW c, NEW u, NEW x
  PROVE  Token(Stopped(s, r, mm, c, u), x) = Stopped(s, r, mm, c, u)
  BY DEF Token, Stopped, Machine

\* The registers r with v in g.
With(r, g, v) == [r EXCEPT ![g] = v]

LEMMA TokenAssign ==
  ASSUME NEW s, NEW r, NEW mm, NEW c, NEW u, NEW y, NEW g \in RegNames,
         NEW op \in Assignments
  PROVE  Token(On(<<Kw(g), <<y, s>>>>, r, mm, c, u), Kw(op))
           = On(s, With(r, g, Assign(op, r[g], Value(y, r))), mm, c, u)
<1> DEFINE m == On(<<Kw(g), <<y, s>>>>, r, mm, c, u)
<1>1. Token(m, Kw(op)) = Binary(m, op, Kw(g), y, s)
  BY TwoOnStack
<1>2. m.reg = r /\ \A v : Assigned(Keep(m, s), g, v) = On(s, With(r, g, v), mm, c, u)
  BY Parts, KeepOn, SavedOn, AssignedOn DEF On, With
<1> HIDE DEF m
<1>3. Kw(g).t = g /\ g # "#" /\ op \notin Combining /\ op # "=[2]"
  BY DEF Kw, RegNames, Combining, Assignments
<1>4. Binary(m, op, Kw(g), y, s)
        = Assigned(Keep(m, s), g, Assign(op, m.reg[g], Value(y, m.reg)))
  BY <1>3 DEF Binary
<1>5. QED
  BY <1>1, <1>2, <1>4 DEF m

LEMMA TokenRefused ==
  ASSUME NEW s, NEW r, NEW mm, NEW c, NEW u, NEW y, NEW i, NEW op \in Assignments
  PROVE  Token(On(<<Num(i), <<y, s>>>>, r, mm, c, u), Kw(op))
           = Stopped(<<Num(i), <<y, s>>>>, r, mm, c, u)
<1> DEFINE k == On(<<Num(i), <<y, s>>>>, r, mm, c, u)
<1>1. Token(k, Kw(op)) = Binary(k, op, Num(i), y, s)
  BY TwoOnStack
<1>2. Turn(k, "stopped") = Stopped(<<Num(i), <<y, s>>>>, r, mm, c, u)
  BY TurnMachine DEF On, Stopped
<1> HIDE DEF k
<1>3. Num(i).t = "#" /\ op \notin Combining /\ op # "=[2]"
  BY DEF Num, Combining, Assignments
<1>4. Binary(k, op, Num(i), y, s) = Turn(k, "stopped")
  BY <1>3 DEF Binary
<1>5. QED
  BY <1>1, <1>2, <1>4 DEF k

-----------------------------------------------------------------------------
\* Words, and what is done with them.

LEMMA UpTo == \A n \in Int : \A w : w \in 0 .. n <=> w \in Nat /\ w <= n
OBVIOUS

LEMMA WordRange == \A w : w \in Word <=> w \in Nat /\ w < 65536
<1>1. MaxWord \in Int /\ \A w \in Nat : w <= MaxWord <=> w < 65536
  BY DEF MaxWord
<1>2. \A w : w \in 0 .. MaxWord <=> w \in Nat /\ w <= MaxWord
  BY <1>1, UpTo
<1>3. QED
  BY <1>1, <1>2 DEF Word

LEMMA ModWord == \A n \in Int : n % 65536 \in Word
<1>1. \A n \in Int : n % 65536 \in Nat /\ n % 65536 < 65536
  OBVIOUS
<1>2. QED
  BY <1>1, WordRange

\* A byte.
Byte(b) == b \in Nat /\ b < 256

LEMMA And2Range ==
  ASSUME NEW m \in Nat, NEW n \in Nat, m < 4, n < 4
  PROVE  And2(m, n) \in Nat /\ And2(m, n) < 4
<1> DEFINE a == m \div 2
           b == n \div 2
           c == m % 2
           d == n % 2
<1>1. a \in {0, 1} /\ b \in {0, 1} /\ c \in {0, 1} /\ d \in {0, 1}
  OBVIOUS
<1>2. And2(m, n) = 2 * (a * b) + c * d
  BY DEF And2
<1> HIDE DEF a, b, c, d
<1>3. a * b \in {0, 1} /\ c * d \in {0, 1}
  BY <1>1
<1> DEFINE e == a * b
           f == c * d
<1>4. And2(m, n) = 2 * e + f /\ e \in {0, 1} /\ f \in {0, 1}
  BY <1>2, <1>3
<1> HIDE DEF e, f
<1>5. QED
  BY <1>4

LEMMA And4Range ==
  ASSUME NEW m \in Nat, NEW n \in Nat, m < 16, n < 16
  PROVE  And4(m, n) \in Nat /\ And4(m, n) < 16
<1> DEFINE a == And2(m \div 4, n \div 4)
           b == And2(m % 4, n % 4)
<1>1. /\ m \div 4 \in Nat /\ m \div 4 < 4 /\ n \div 4 \in Nat /\ n \div 4 < 4
      /\ m % 4 \in Nat /\ m % 4 < 4 /\ n % 4 \in Nat /\ n % 4 < 4
  OBVIOUS
<1>2. a \in Nat /\ a < 4 /\ b \in Nat /\ b < 4
  BY <1>1, And2Range
<1>3. And4(m, n) = 4 * a + b
  BY DEF And4
<1> HIDE DEF a, b
<1>4. QED
  BY <1>2, <1>3

LEMMA And8Range ==
  ASSUME NEW m \in Nat, NEW n \in Nat, m < 256, n < 256
  PROVE  And8(m, n) \in Nat /\ And8(m, n) < 256
<1> DEFINE a == And4(m \div 16, n \div 16)
           b == And4(m % 16, n % 16)
<1>1. /\ m \div 16 \in Nat /\ m \div 16 < 16 /\ n \div 16 \in Nat /\ n \div 16 < 16
      /\ m % 16 \in Nat /\ m % 16 < 16 /\ n % 16 \in Nat /\ n % 16 < 16
  OBVIOUS
<1>2. a \in Nat /\ a < 16 /\ b \in Nat /\ b < 16
  BY <1>1, And4Range
<1>3. And8(m, n) = 16 * a + b
  BY DEF And8
<1> HIDE DEF a, b
<1>4. QED
  BY <1>2, <1>3

LEMMA AndWord ==
  ASSUME NEW m \in Word, NEW n \in Word
  PROVE  And(m, n) \in Word
<1> DEFINE a == And8(m \div 256, n \div 256)
           b == And8(m % 256, n % 256)
<1>0. m \in Nat /\ m < 65536 /\ n \in Nat /\ n < 65536
  BY WordRange
<1>1. /\ m \div 256 \in Nat /\ m \div 256 < 256 /\ n \div 256 \in Nat /\ n \div 256 < 256
      /\ m % 256 \in Nat /\ m % 256 < 256 /\ n % 256 \in Nat /\ n % 256 < 256
  BY <1>0
<1>2. a \in Nat /\ a < 256 /\ b \in Nat /\ b < 256
  BY <1>1, And8Range
<1>3. And(m, n) = 256 * a + b
  BY DEF And
<1> HIDE DEF a, b
<1>4. And(m, n) \in Nat /\ And(m, n) < 65536
  BY <1>2, <1>3
<1>5. QED
  BY <1>4, WordRange

LEMMA OrWord ==
  ASSUME NEW m \in Word, NEW n \in Word
  PROVE  Or(m, n) \in Word
<1> DEFINE a == And(MaxWord - m, MaxWord - n)
<1>1. \A k \in Word : MaxWord - k \in Nat /\ MaxWord - k < 65536
  BY WordRange DEF MaxWord
<1>2. \A k \in Word : MaxWord - k \in Word
  BY <1>1, WordRange
<1>3. a \in Word
  BY <1>2, AndWord
<1>4. Or(m, n) = MaxWord - a
  BY DEF Or
<1> HIDE DEF a
<1>5. QED
  BY <1>2, <1>3, <1>4

LEMMA Powers == \A k \in Nat : k < 16 => 2^k \in Nat /\ 2^k >= 1
<1> DEFINE g(j) == 2^j
<1>1. /\ g(0) = 1 /\ g(1) = 2 /\ g(2) = 4 /\ g(3) = 8 /\ g(4) = 16 /\ g(5) = 32
      /\ g(6) = 64 /\ g(7) = 128 /\ g(8) = 256 /\ g(9) = 512 /\ g(10) = 1024
      /\ g(11) = 2048 /\ g(12) = 4096 /\ g(13) = 8192 /\ g(14) = 16384 /\ g(15) = 32768
  OBVIOUS
<1> HIDE DEF g
<1>2. ASSUME NEW k \in Nat, k < 16 PROVE g(k) \in Nat /\ g(k) >= 1
  <2>1. \/ k = 0 \/ k = 1 \/ k = 2 \/ k = 3 \/ k = 4 \/ k = 5 \/ k = 6 \/ k = 7 \/ k = 8
        \/ k = 9 \/ k = 10 \/ k = 11 \/ k = 12 \/ k = 13 \/ k = 14 \/ k = 15
    BY <1>2
  <2>2. QED
    BY <1>1, <2>1
<1>3. QED
  BY <1>2 DEF g

(* What the assignments of the programs leave is a word again.                *)
LEMMA AssignWord ==
  ASSUME NEW old \in Word, NEW value \in Int, NEW op \in Assignments,
         op \in {"<<=", ">>="} => value \in Nat
  PROVE  Assign(op, old, value) \in Word
<1>1. value % 65536 \in Word
  BY ModWord
<1>2. old \in Int
  BY WordRange
<1>3. CASE op = "="
  BY <1>1, <1>3 DEF Assign
<1>4. CASE op = "+="
  <2>1. Assign(op, old, value) = (old + value) % 65536
    BY <1>4 DEF Assign
  <2>2. old + value \in Int
    BY <1>2
  <2>3. QED
    BY <2>1, <2>2, ModWord
<1>5. CASE op = "-="
  <2>1. Assign(op, old, value) = (old - value) % 65536
    BY <1>5 DEF Assign
  <2>2. old - value \in Int
    BY <1>2
  <2>3. QED
    BY <2>1, <2>2, ModWord
<1>6. CASE op = "*="
  <2> DEFINE v == value % 65536
             t == (old % 256) * v + 256 * (((old \div 256) * v) % 256)
  <2>1. Assign(op, old, value) = t % 65536
    BY <1>6 DEF Assign, Times
  <2>2. old % 256 \in Int /\ old \div 256 \in Int /\ v \in Int
    BY <1>2
  <2>3. t \in Int
    <3> DEFINE x == old % 256
               y == old \div 256
    <3>1. x \in Int /\ y \in Int /\ v \in Int
      BY <2>2
    <3> HIDE DEF x, y, v
    <3>2. x * v \in Int /\ y * v \in Int
      BY <3>1
    <3> DEFINE g == x * v
               h == y * v
    <3>3. t = g + 256 * (h % 256)
      BY DEF x, y
    <3>4. g \in Int /\ h \in Int
      BY <3>2
    <3> HIDE DEF g, h, t
    <3>5. QED
      BY <3>3, <3>4
  <2> HIDE DEF t
  <2>4. QED
    BY <2>1, <2>3, ModWord
<1>7. CASE op = "&="
  BY <1>1, <1>7, AndWord DEF Assign
<1>8. CASE op = "|="
  BY <1>1, <1>8, OrWord DEF Assign
<1>9. CASE op = "<<="
  <2>1. Assign(op, old, value) = IF value < 16 THEN (old * 2^value) % 65536 ELSE 0
    BY <1>9 DEF Assign, Left
  <2>2. CASE value < 16
    <3> DEFINE k == 2^value
    <3>1. value \in Nat
      BY <1>9
    <3>2. k \in Int
      BY <2>2, <3>1, Powers
    <3> HIDE DEF k
    <3>3. old * k \in Int
      BY <1>2, <3>2
    <3>4. QED
      BY <2>1, <2>2, <3>3, ModWord DEF k
  <2>3. CASE ~(value < 16)
    BY <2>1, <2>3, WordRange
  <2>4. QED
    BY <2>2, <2>3
<1>10. CASE op = ">>="
  <2>1. Assign(op, old, value) = IF value < 16 THEN old \div 2^value ELSE 0
    BY <1>10 DEF Assign, Right
  <2>2. CASE value < 16
    <3> DEFINE k == 2^value
    <3>1. value \in Nat
      BY <1>10
    <3>2. k \in Nat /\ k >= 1
      BY <2>2, <3>1, Powers
    <3>3. old \in Nat /\ old < 65536
      BY WordRange
    <3> HIDE DEF k
    <3>4. old \div k \in Nat /\ old \div k <= old
      BY <3>2, <3>3
    <3>5. old \div k \in Word
      BY <3>3, <3>4, WordRange
    <3>6. QED
      BY <2>1, <2>2, <3>5 DEF k
  <2>3. CASE ~(value < 16)
    BY <2>1, <2>3, WordRange
  <2>4. QED
    BY <2>2, <2>3
<1>11. QED
  BY <1>3, <1>4, <1>5, <1>6, <1>7, <1>8, <1>9, <1>10 DEF Assignments

-----------------------------------------------------------------------------
\* Memory.

Bytes == 0 .. 255
Images == [base : Nat, bytes : Seq(Bytes), big : BOOLEAN, outside : Bytes]

\* n is the image m with other bytes.
SameShape(m, n) ==
  /\ n \in Images /\ n.base = m.base /\ n.big = m.big /\ Len(n.bytes) = Len(m.bytes)

LEMMA ByteRange == \A b : b \in Bytes <=> Byte(b)
<1>1. \A b : b \in 0 .. 255 <=> b \in Nat /\ b <= 255
  BY UpTo
<1>2. \A b \in Nat : b <= 255 <=> b < 256
  OBVIOUS
<1>3. QED
  BY <1>1, <1>2 DEF Bytes, Byte

LEMMA ByteAtByte ==
  ASSUME NEW mm \in Images, NEW a \in Int
  PROVE  ByteAt(mm, a) \in Bytes
<1> DEFINE k == a - mm.base
           n == Len(mm.bytes)
<1>1. mm.base \in Int /\ mm.bytes \in Seq(Bytes) /\ mm.outside \in Bytes
  BY DEF Images
<1>2. n \in Nat /\ k \in Int
  BY <1>1
<1>3. k \in 0 .. n - 1 => k + 1 \in 1 .. n
  BY <1>2
<1>4. k \in 0 .. n - 1 => mm.bytes[k + 1] \in Bytes
  BY <1>1, <1>3, ElementOfSeq
<1>5. ByteAt(mm, a) = IF k \in 0 .. n - 1 THEN mm.bytes[k + 1] ELSE mm.outside
  BY DEF ByteAt
<1> HIDE DEF k, n
<1>6. QED
  BY <1>1, <1>4, <1>5

LEMMA TwoBytes ==
  ASSUME NEW x, NEW y, Byte(x), Byte(y), NEW big \in BOOLEAN
  PROVE  FromBytes(<<x, y>>, big) \in Word
<1>1. FromBytes(<<x, y>>, big) = IF big THEN 256 * x + y ELSE x + 256 * y
  BY DEF FromBytes
<1>2. x \in Nat /\ y \in Nat /\ x < 256 /\ y < 256
  BY DEF Byte
<1>3. FromBytes(<<x, y>>, big) \in Nat /\ FromBytes(<<x, y>>, big) < 65536
  BY <1>1, <1>2
<1>4. QED
  BY <1>3, WordRange

LEMMA ReadWordWord ==
  ASSUME NEW mm \in Images, NEW a \in Int
  PROVE  ReadWord(mm, a) \in Word
<1>1. a + 1 \in Int
  OBVIOUS
<1>2. ByteAt(mm, a) \in Bytes /\ ByteAt(mm, a + 1) \in Bytes
  BY <1>1, ByteAtByte
<1>3. Byte(ByteAt(mm, a)) /\ Byte(ByteAt(mm, a + 1)) /\ mm.big \in BOOLEAN
  BY <1>2, ByteRange DEF Images
<1>4. QED
  BY <1>3, TwoBytes DEF ReadWord

LEMMA HalvesOfWord ==
  ASSUME NEW w \in Word, NEW big \in BOOLEAN
  PROVE  ToBytes(w, big)[1] \in Bytes /\ ToBytes(w, big)[2] \in Bytes
<1> DEFINE x == w \div 256
           y == w % 256
<1>1. Byte(x) /\ Byte(y)
  BY WordRange DEF Byte
<1>2. ToBytes(w, big) = IF big THEN <<x, y>> ELSE <<y, x>>
  BY DEF ToBytes
<1> HIDE DEF x, y
<1>3. QED
  BY <1>1, <1>2, ByteRange

(* A store leaves an image of the same shape.                                 *)
LEMMA WriteShape ==
  ASSUME NEW mm \in Images, NEW a \in Int, NEW value \in Int
  PROVE  SameShape(mm, WriteWord(mm, a, value))
<1> DEFINE two == ToBytes(value % 65536, mm.big)
           n == Len(mm.bytes)
           k(i) == mm.base + i - 1 - a
           put(i) == IF k(i) \in 0 .. 1 THEN two[k(i) + 1] ELSE mm.bytes[i]
           new == [i \in 1 .. n |-> put(i)]
<1>1. mm.base \in Int /\ mm.bytes \in Seq(Bytes) /\ mm.big \in BOOLEAN /\ n \in Nat
  BY DEF Images
<1>2. two[1] \in Bytes /\ two[2] \in Bytes
  BY <1>1, ModWord, HalvesOfWord
<1>3. WriteWord(mm, a, value) = [mm EXCEPT !.bytes = new]
  BY DEF WriteWord
<1> HIDE DEF two
<1>4. ASSUME NEW i \in 1 .. n PROVE put(i) \in Bytes
  <2>1. k(i) \in 0 .. 1 => k(i) + 1 = 1 \/ k(i) + 1 = 2
    BY <1>1
  <2>2. mm.bytes[i] \in Bytes
    BY <1>1, ElementOfSeq
  <2> HIDE DEF k
  <2>3. QED
    BY <1>2, <2>1, <2>2
<1> HIDE DEF put, n
<1>5. new \in Seq(Bytes) /\ Len(new) = n
  BY <1>1, <1>4
<1> HIDE DEF new
<1>6. QED
  BY <1>3, <1>5 DEF Images, SameShape, n

-----------------------------------------------------------------------------
\* Expressions: programs that leave a value and change nothing.

Regs == [RegNames -> Word]

Operand(x) == (\E i \in Int : x = Num(i)) \/ (\E g \in RegNames : x = Kw(g))

Pushes(p, r, mm) ==
  /\ p \in Program
  /\ \A s, c, u : \E x, v : Operand(x) /\ Run(On(s, r, mm, c, u), p) = On(<<x, s>>, r, mm, c, v)

\* The same, with whatever below the value.
Leaves(m, x, r, mm, c) == \E d, v : m = On(<<x, d>>, r, mm, c, v)
Tests(p, r, mm) ==
  /\ p \in Program
  /\ \A s, c, u : \E x : Operand(x) /\ Leaves(Run(On(s, r, mm, c, u), p), x, r, mm, c)

LEMMA PushesRun ==
  ASSUME NEW p, NEW r, NEW mm, Pushes(p, r, mm), NEW s, NEW c, NEW u
  PROVE  \E x, v : Operand(x) /\ Run(On(s, r, mm, c, u), p) = On(<<x, s>>, r, mm, c, v)
BY DEF Pushes

LEMMA ValueInt ==
  ASSUME NEW r \in Regs, NEW x, Operand(x)
  PROVE  Value(x, r) \in Int
<1>1. CASE \E i \in Int : x = Num(i)
  BY <1>1 DEF Value, Num
<1>2. ASSUME NEW g \in RegNames, x = Kw(g) PROVE Value(x, r) \in Int
  <2>1. g # "#" /\ x.t = g
    BY <1>2 DEF RegNames, Kw
  <2>2. r[g] \in Word
    BY DEF Regs
  <2>3. QED
    BY <2>1, <2>2, WordRange DEF Value
<1>3. QED
  BY <1>1, <1>2 DEF Operand

LEMMA OperandTok == \A x : Operand(x) => x \in Tok
  BY KwTok, NumTok DEF Operand

LEMMA TruthOperand == \A p : Operand(Truth(p))
<1> TAKE p
<1>1. Truth(p) = Num(1) \/ Truth(p) = Num(0)
  BY DEF Truth
<1>2. QED
  BY <1>1 DEF Operand

LEMMA ProgramConcat == \A p, q \in Program : p \o q \in Program
  BY ConcatProperties DEF Program

LEMMA OperatorTok == \A op \in Operators \cup RegNames : <<Kw(op)>> \in Program
BY KwTok, Short

LEMMA PushesOne ==
  ASSUME NEW r, NEW mm, NEW x, Operand(x)
  PROVE  Pushes(<<x>>, r, mm)
<1>1. x \in Tok /\ <<x>> \in Program
  BY OperandTok, Short
<1>2. ASSUME NEW s, NEW c, NEW u
      PROVE  Run(On(s, r, mm, c, u), <<x>>) = On(<<x, s>>, r, mm, c, u)
  <2>1. x.t \in {"#"} \cup RegNames
    BY DEF Operand, Num, Kw
  <2>2. Token(On(s, r, mm, c, u), x) = On(<<x, s>>, r, mm, c, u)
    BY <2>1, TokenPush
  <2>3. QED
    BY <1>1, <2>2, RunOne
<1>3. QED
  BY <1>1, <1>2 DEF Pushes

LEMMA PushesNum == \A r, mm : \A i \in Int : Pushes(<<Num(i)>>, r, mm)
  BY PushesOne DEF Operand

LEMMA PushesReg == \A r, mm : \A g \in RegNames : Pushes(<<Kw(g)>>, r, mm)
  BY PushesOne DEF Operand

(* One operator after a program.                                              *)
LEMMA RunThen ==
  ASSUME NEW m, NEW p \in Program, NEW op \in Operators
  PROVE  Run(m, p \o <<Kw(op)>>) = Token(Run(m, p), Kw(op))
<1>1. Kw(op) \in Tok /\ <<Kw(op)>> \in Program
  BY KwTok, Short
<1>2. QED
  BY <1>1, RunConcat, RunOne

LEMMA AndInt ==
  ASSUME NEW m \in Int, NEW n \in Int
  PROVE  And(m, n) \in Int
<1>1. ASSUME NEW a \in Int, NEW b \in Int PROVE And2(a, b) \in Int
  <2> DEFINE c == (a \div 2) * (b \div 2)
             d == (a % 2) * (b % 2)
  <2>1. a \div 2 \in Int /\ b \div 2 \in Int /\ a % 2 \in Int /\ b % 2 \in Int
    OBVIOUS
  <2>2. c \in Int /\ d \in Int
    BY <2>1
  <2>3. And2(a, b) = 2 * c + d
    BY DEF And2
  <2> HIDE DEF c, d
  <2>4. QED
    BY <2>2, <2>3
<1>2. ASSUME NEW a \in Int, NEW b \in Int PROVE And4(a, b) \in Int
  <2>1. And2(a \div 4, b \div 4) \in Int /\ And2(a % 4, b % 4) \in Int
    BY <1>1
  <2>2. QED
    BY <2>1 DEF And4
<1>3. ASSUME NEW a \in Int, NEW b \in Int PROVE And8(a, b) \in Int
  <2>1. And4(a \div 16, b \div 16) \in Int /\ And4(a % 16, b % 16) \in Int
    BY <1>2
  <2>2. QED
    BY <2>1 DEF And8
<1>4. And8(m \div 256, n \div 256) \in Int /\ And8(m % 256, n % 256) \in Int
  BY <1>3
<1>5. QED
  BY <1>4 DEF And

LEMMA CombineOperand ==
  ASSUME NEW op \in Combining, NEW m \in Int, NEW n \in Int
  PROVE  Operand(Combine(op, m, n))
<1>1. CASE op \in {">=", ">", "<", "=="}
  BY <1>1, TruthOperand DEF Combine
<1>2. CASE op = "+"
  <2>1. m + n \in Int
    OBVIOUS
  <2>2. QED
    BY <1>2, <2>1 DEF Combine, Operand
<1>3. CASE op = "*"
  <2>1. m * n \in Int
    OBVIOUS
  <2>2. QED
    BY <1>3, <2>1 DEF Combine, Operand
<1>4. CASE op = "&"
  <2>1. And(m, n) \in Int
    BY AndInt
  <2>2. QED
    BY <1>4, <2>1 DEF Combine, Operand
<1>5. QED
  BY <1>1, <1>2, <1>3, <1>4 DEF Combining

(* An operator on the value of an expression.                                 *)
LEMMA PushesUnary ==
  ASSUME NEW r \in Regs, NEW mm \in Images, NEW p, Pushes(p, r, mm), NEW op \in {"!", "[2]"}
  PROVE  Pushes(p \o <<Kw(op)>>, r, mm)
<1>1. op \in Operators /\ p \in Program /\ p \o <<Kw(op)>> \in Program
  BY OperatorTok, ProgramConcat DEF Operators, Unaries, Pushes
<1>2. ASSUME NEW s, NEW c, NEW u
      PROVE  \E x, v : /\ Operand(x)
                       /\ Run(On(s, r, mm, c, u), p \o <<Kw(op)>>) = On(<<x, s>>, r, mm, c, v)
  <2>1. PICK x, v : Operand(x) /\ Run(On(s, r, mm, c, u), p) = On(<<x, s>>, r, mm, c, v)
    BY DEF Pushes
  <2>2. Run(On(s, r, mm, c, u), p \o <<Kw(op)>>) = Token(On(<<x, s>>, r, mm, c, v), Kw(op))
    BY <1>1, <2>1, RunThen
  <2>3. CASE op = "!"
    <3> DEFINE y == Truth(Value(x, r) = 0)
    <3>1. Token(On(<<x, s>>, r, mm, c, v), Kw(op)) = On(<<y, s>>, r, mm, c, v)
      BY <2>3, TokenNot
    <3>2. Operand(y)
      BY TruthOperand
    <3> HIDE DEF y
    <3>3. QED
      BY <2>2, <3>1, <3>2
  <2>4. CASE op = "[2]"
    <3> DEFINE y == Num(ReadWord(mm, Value(x, r)))
    <3>1. Token(On(<<x, s>>, r, mm, c, v), Kw(op)) = On(<<y, s>>, r, mm, c, v)
      BY <2>4, TokenRead
    <3>2. Operand(y)
      <4>1. ReadWord(mm, Value(x, r)) \in Int
        BY <2>1, ValueInt, ReadWordWord, WordRange
      <4>2. QED
        BY <4>1 DEF Operand
    <3> HIDE DEF y
    <3>3. QED
      BY <2>2, <3>1, <3>2
  <2>5. QED
    BY <2>3, <2>4
<1>3. QED
  BY <1>1, <1>2 DEF Pushes

(* An operator on the values of two expressions; the second is its            *)
(* destination.                                                               *)
LEMMA PushesBinary ==
  ASSUME NEW r \in Regs, NEW mm \in Images, NEW p, Pushes(p, r, mm), NEW q, Pushes(q, r, mm),
         NEW op \in Combining
  PROVE  Pushes(p \o q \o <<Kw(op)>>, r, mm)
<1>1. op \in Operators /\ p \in Program /\ q \in Program /\ p \o q \in Program
  BY ProgramConcat DEF Operators, Pushes
<1>2. p \o q \o <<Kw(op)>> \in Program
  BY <1>1, OperatorTok, ProgramConcat
<1>3. ASSUME NEW s, NEW c, NEW u
      PROVE  \E x, v : /\ Operand(x)
                       /\ Run(On(s, r, mm, c, u), p \o q \o <<Kw(op)>>)
                            = On(<<x, s>>, r, mm, c, v)
  <2>1. PICK x, v : Operand(x) /\ Run(On(s, r, mm, c, u), p) = On(<<x, s>>, r, mm, c, v)
    BY DEF Pushes
  <2>2. PICK y, w : Operand(y) /\ Run(On(<<x, s>>, r, mm, c, v), q)
                                    = On(<<y, <<x, s>>>>, r, mm, c, w)
    BY DEF Pushes
  <2> DEFINE z == Combine(op, Value(y, r), Value(x, r))
             k == On(<<y, <<x, s>>>>, r, mm, c, w)
  <2>3. Operand(z)
    BY <2>1, <2>2, ValueInt, CombineOperand
  <2>4. Run(On(s, r, mm, c, u), p \o q \o <<Kw(op)>>) = Token(k, Kw(op))
    BY <1>1, <2>1, <2>2, RunConcat, RunThen
  <2>5. \E d : Token(k, Kw(op)) = On(<<z, s>>, r, mm, c, d)
    <3>1. CASE op # "=="
      BY <3>1, TokenBinary
    <3>2. CASE op = "=="
      <4>1. z = Truth(Value(y, r) = Value(x, r))
        BY <3>2 DEF Combine
      <4>2. QED
        BY <3>2, <4>1, TokenEqual
    <3>3. QED
      BY <3>1, <3>2
  <2> HIDE DEF z, k
  <2>6. QED
    BY <2>3, <2>4, <2>5
<1>4. QED
  BY <1>2, <1>3 DEF Pushes

LEMMA PushesTests ==
  ASSUME NEW r, NEW mm, NEW p, Pushes(p, r, mm)
  PROVE  Tests(p, r, mm)
<1>1. ASSUME NEW s, NEW c, NEW u
      PROVE  \E x : Operand(x) /\ Leaves(Run(On(s, r, mm, c, u), p), x, r, mm, c)
  <2>1. PICK x, v : Operand(x) /\ Run(On(s, r, mm, c, u), p) = On(<<x, s>>, r, mm, c, v)
    BY DEF Pushes
  <2>2. Leaves(Run(On(s, r, mm, c, u), p), x, r, mm, c)
    BY <2>1 DEF Leaves
  <2>3. QED
    BY <2>1, <2>2
<1>2. QED
  BY <1>1 DEF Pushes, Tests

LEMMA TestsFlag ==
  ASSUME NEW r, NEW mm, NEW p, Pushes(p, r, mm)
  PROVE  Tests(p \o <<Kw("$z")>>, r, mm)
<1>1. "$z" \in Operators /\ p \in Program /\ p \o <<Kw("$z")>> \in Program
  BY OperatorTok, ProgramConcat DEF Operators, Pushes
<1>2. ASSUME NEW s, NEW c, NEW u
      PROVE  \E x : /\ Operand(x)
                    /\ Leaves(Run(On(s, r, mm, c, u), p \o <<Kw("$z")>>), x, r, mm, c)
  <2>1. PICK x, v : Operand(x) /\ Run(On(s, r, mm, c, u), p) = On(<<x, s>>, r, mm, c, v)
    BY DEF Pushes
  <2>2. Run(On(s, r, mm, c, u), p \o <<Kw("$z")>>) = Token(On(<<x, s>>, r, mm, c, v), Kw("$z"))
    BY <1>1, <2>1, RunThen
  <2> DEFINE y == Truth(v = 0)
  <2>3. Token(On(<<x, s>>, r, mm, c, v), Kw("$z")) = On(<<y, <<x, s>>>>, r, mm, c, v)
    BY TokenZero
  <2>4. Operand(y)
    BY TruthOperand
  <2> HIDE DEF y
  <2>5. Leaves(Run(On(s, r, mm, c, u), p \o <<Kw("$z")>>), y, r, mm, c)
    BY <2>2, <2>3 DEF Leaves
  <2>6. QED
    BY <2>4, <2>5
<1>3. QED
  BY <1>1, <1>2 DEF Tests

LEMMA PushesCarry == \A r, mm : Pushes(<<Kw("$c")>>, r, mm)
<1> TAKE r, mm
<1>1. "$c" \in Operators /\ <<Kw("$c")>> \in Program /\ Kw("$c") \in Tok
  BY OperatorTok, KwTok DEF Operators
<1>2. ASSUME NEW s, NEW c, NEW u
      PROVE  \E x, v : Operand(x) /\ Run(On(s, r, mm, c, u), <<Kw("$c")>>) = On(<<x, s>>, r, mm, c, v)
  <2>1. Run(On(s, r, mm, c, u), <<Kw("$c")>>) = On(<<Truth(c), s>>, r, mm, c, u)
    BY <1>1, RunOne, TokenCarry
  <2>2. QED
    BY <2>1, TruthOperand
<1>3. QED
  BY <1>1, <1>2 DEF Pushes

LEMMA PairConcat == \A a, b : <<a, b>> = <<a>> \o <<b>>
<1> SUFFICES ASSUME NEW a, NEW b PROVE <<a, b>> = <<a>> \o <<b>>
  OBVIOUS
<1> DEFINE S == {a, b}
           s == <<a>>
           t == <<b>>
           u == <<a, b>>
<1>1. /\ s \in Seq(S) /\ Len(s) = 1 /\ s[1] = a
      /\ t \in Seq(S) /\ Len(t) = 1 /\ t[1] = b
      /\ u \in Seq(S) /\ Len(u) = 2 /\ u[1] = a /\ u[2] = b
  OBVIOUS
<1> HIDE DEF S, s, t, u
<1>2. /\ s \o t \in Seq(S) /\ Len(s \o t) = 2
      /\ \A i \in 1 .. 2 : (s \o t)[i] = IF i <= 1 THEN s[i] ELSE t[i - 1]
  <2>1. /\ s \o t \in Seq(S) /\ Len(s \o t) = Len(s) + Len(t)
        /\ \A i \in 1 .. Len(s) + Len(t) : (s \o t)[i] = IF i <= Len(s) THEN s[i] ELSE t[i - Len(s)]
    BY <1>1, ConcatProperties, Zenon
  <2>2. Len(s) + Len(t) = 2
    BY <1>1
  <2>3. QED
    BY <1>1, <2>1, <2>2
<1>3. (s \o t)[1] = s[1] /\ (s \o t)[2] = t[1]
  BY <1>2
<1>4. \A i \in 1 .. 2 : (s \o t)[i] = u[i]
  <2>1. \A i \in 1 .. 2 : i = 1 \/ i = 2
    OBVIOUS
  <2>2. QED
    BY <1>1, <1>3, <2>1, Zenon
<1>5. s \o t = u
  BY <1>1, <1>2, <1>4, SeqEqual
<1>6. QED
  BY <1>5 DEF s, t, u

(* A value and an operator behind an expression.                              *)
LEMMA PushesThen ==
  ASSUME NEW r \in Regs, NEW mm \in Images, NEW p, Pushes(p, r, mm), NEW x, Operand(x),
         NEW op \in Combining
  PROVE  Pushes(p \o <<x, Kw(op)>>, r, mm)
<1>1. Pushes(<<x>>, r, mm)
  BY PushesOne
<1>2. Pushes(p \o <<x>> \o <<Kw(op)>>, r, mm)
  BY <1>1, PushesBinary
<1>3. op \in Operators
  BY DEF Operators
<1>4. p \in Seq(Tok) /\ <<x>> \in Seq(Tok) /\ <<Kw(op)>> \in Seq(Tok)
  BY <1>1, <1>3, OperatorTok DEF Pushes, Program
<1>5. (p \o <<x>>) \o <<Kw(op)>> = p \o (<<x>> \o <<Kw(op)>>)
  BY <1>4, ConcatAssociative
<1>6. <<x, Kw(op)>> = <<x>> \o <<Kw(op)>>
  BY PairConcat
<1>7. QED
  BY <1>2, <1>5, <1>6

LEMMA OperandReg == \A g \in RegNames : Operand(Kw(g))
  BY DEF Operand
LEMMA OperandNum == \A i \in Int : Operand(Num(i))
  BY DEF Operand

LEMMA PushesNothing ==
  ASSUME NEW r, NEW mm, NEW p, Pushes(p, r, mm)
  PROVE  Pushes(p \o <<>>, r, mm)
<1>1. p \in Seq(Tok)
  BY DEF Pushes, Program
<1>2. p \o <<>> = p
  BY <1>1, ConcatEmptySeq
<1>3. QED
  BY <1>2

(* The word address and the byte address of an operand, in every mode.        *)
LEMMA AtPushes ==
  ASSUME NEW r \in Regs, NEW mm \in Images, NEW p, Pushes(p, r, mm)
  PROVE  Pushes(At(p), r, mm)
<1>1. "*" \in Combining /\ Operand(Num(2))
  BY OperandNum DEF Combining
<1>2. QED
  BY <1>1, PushesThen DEF At, ByteAddress

LEMMA AddressPushes ==
  ASSUME NEW r \in Regs, NEW mm \in Images, NEW offset \in Int, NEW mode
  PROVE  Pushes(esil_mem_ea(offset, mode), r, mm)
<1> DEFINE bb == IF mode \in {1, 3, 5, 7} THEN Kws(<<"b", "+">>) ELSE <<>>
           ii == IF mode \in {2, 3, 6, 7} THEN ByteAddress \o Kws(<<"[2]">>) ELSE <<>>
           xx == IF mode \in 4 .. 7 THEN Kws(<<"x", "+">>) ELSE <<>>
           p == <<Num(offset)>> \o bb
           q == p \o ii
<1>1. /\ "+" \in Combining /\ Operand(Kw("b")) /\ Operand(Kw("x")) /\ Operand(Num(offset))
      /\ "[2]" \in {"!", "[2]"} /\ "[2]" \in Operators
  BY OperandReg, OperandNum DEF RegNames, Combining, Operators, Unaries
<1>2. Kws(<<"b", "+">>) = <<Kw("b"), Kw("+")>> /\ Kws(<<"x", "+">>) = <<Kw("x"), Kw("+")>>
      /\ Kws(<<"[2]">>) = <<Kw("[2]")>>
  BY KwsTuples
<1>3. Pushes(<<Num(offset)>>, r, mm)
  BY <1>1, PushesOne
<1>4. Pushes(p, r, mm)
  <2>1. CASE mode \in {1, 3, 5, 7}
    BY <1>1, <1>2, <1>3, <2>1, PushesThen
  <2>2. CASE mode \notin {1, 3, 5, 7}
    BY <1>3, <2>2, PushesNothing
  <2>3. QED
    BY <2>1, <2>2
<1> HIDE DEF p
<1>5. Pushes(q, r, mm)
  <2>1. CASE mode \in {2, 3, 6, 7}
    <3>1. q = p \o (ByteAddress \o <<Kw("[2]")>>)
      BY <1>2, <2>1
    <3>2. p \in Seq(Tok) /\ <<Kw("[2]")>> \in Seq(Tok)
      BY <1>1, <1>4, OperatorTok DEF Pushes, Program
    <3>3. ByteAddress \in Seq(Tok)
      <4>0. "*" \in Operators /\ 2 \in Int
        BY DEF Operators, Combining
      <4>1. Num(2) \in Tok /\ Kw("*") \in Tok
        BY <4>0, NumTok, KwTok
      <4>2. QED
        BY <4>1, Short DEF ByteAddress, Program
    <3>4. q = At(p) \o <<Kw("[2]")>>
      BY <3>1, <3>2, <3>3, ConcatAssociative DEF At
    <3>5. QED
      BY <1>1, <1>4, <3>4, AtPushes, PushesUnary
  <2>2. CASE mode \notin {2, 3, 6, 7}
    BY <1>4, <2>2, PushesNothing
  <2>3. QED
    BY <2>1, <2>2
<1> HIDE DEF q
<1>6. Pushes(q \o xx, r, mm)
  <2>1. CASE mode \in 4 .. 7
    BY <1>1, <1>2, <1>5, <2>1, PushesThen
  <2>2. CASE mode \notin 4 .. 7
    BY <1>5, <2>2, PushesNothing
  <2>3. QED
    BY <2>1, <2>2
<1>7. esil_mem_ea(offset, mode) = q \o xx
  BY DEF esil_mem_ea, p, q
<1>8. QED
  BY <1>6, <1>7

-----------------------------------------------------------------------------
\* Whole programs.

\* From registers r and image mm the program ends with registers, pc among pcs, and
\* an image of the same shape.
Ended(m, mm, pcs) ==
  m.reg \in Regs /\ m.reg.pc \in pcs /\ SameShape(mm, m.mem)
Ends(p, r, mm, pcs) ==
  p \in Program /\ \A s, c, u : Ended(Run(On(s, r, mm, c, u), p), mm, pcs)

LEMMA MachineEnded ==
  ASSUME NEW s, NEW c, NEW u, NEW state, NEW r \in Regs, NEW mm, NEW mm2, NEW pcs,
         r.pc \in pcs, SameShape(mm, mm2)
  PROVE  Ended(Machine(s, r, mm2, c, u, state), mm, pcs)
BY Parts DEF Ended

LEMMA ShapeKept == \A mm \in Images : SameShape(mm, mm)
  BY DEF SameShape

LEMMA SetReg ==
  ASSUME NEW r \in Regs, NEW g \in RegNames, NEW v \in Word
  PROVE  With(r, g, v) \in Regs
BY DEF Regs, With

LEMMA SetOther ==
  ASSUME NEW r \in Regs, NEW g \in RegNames, NEW v
  PROVE  With(r, g, v).pc = IF g = "pc" THEN v ELSE r.pc
<1>1. "pc" \in DOMAIN r
  BY DEF Regs, RegNames
<1>2. QED
  BY <1>1 DEF With

LEMMA EndsEmpty ==
  ASSUME NEW r \in Regs, NEW mm \in Images
  PROVE  Ends(<<>>, r, mm, {r.pc})
<1>1. <<>> \in Program
  BY DEF Program
<1>2. ASSUME NEW s, NEW c, NEW u PROVE Ended(Run(On(s, r, mm, c, u), <<>>), mm, {r.pc})
  <2>1. Run(On(s, r, mm, c, u), <<>>) = Machine(s, r, mm, c, u, "running")
    BY RunEmpty DEF On
  <2>2. QED
    BY <2>1, ShapeKept, MachineEnded
<1>3. QED
  BY <1>1, <1>2 DEF Ends

(* An assignment to a register of the value on the stack.                     *)
LEMMA EndsAssign ==
  ASSUME NEW r \in Regs, NEW mm \in Images, NEW p, Pushes(p, r, mm),
         NEW g \in RegNames \ {"pc"}, NEW op \in Assignments, op \notin {"<<=", ">>="}
  PROVE  Ends(p \o <<Kw(g), Kw(op)>>, r, mm, {r.pc})
<1>1. op \in Operators /\ g \in RegNames /\ p \in Program
  BY DEF Operators, Pushes
<1>2. Kw(g) \in Tok /\ Kw(op) \in Tok /\ <<Kw(g), Kw(op)>> \in Program
  BY <1>1, KwTok, Short
<1>3. p \o <<Kw(g), Kw(op)>> \in Program
  BY <1>1, <1>2, ProgramConcat
<1>4. ASSUME NEW s, NEW c, NEW u
      PROVE  Ended(Run(On(s, r, mm, c, u), p \o <<Kw(g), Kw(op)>>), mm, {r.pc})
  <2>1. PICK x, v : Operand(x) /\ Run(On(s, r, mm, c, u), p) = On(<<x, s>>, r, mm, c, v)
    BY PushesRun
  <2>2. Run(On(s, r, mm, c, u), p \o <<Kw(g), Kw(op)>>)
          = Token(Token(On(<<x, s>>, r, mm, c, v), Kw(g)), Kw(op))
    BY <1>1, <1>2, <2>1, RunConcat, RunTwo
  <2>3. Token(On(<<x, s>>, r, mm, c, v), Kw(g)) = On(<<Kw(g), <<x, s>>>>, r, mm, c, v)
    <3>1. Kw(g).t \in {"#"} \cup RegNames
      BY <1>1 DEF Kw
    <3>2. QED
      BY <3>1, TokenPush
  <2> DEFINE val == Assign(op, r[g], Value(x, r))
             r2 == With(r, g, val)
  <2>4. Token(On(<<Kw(g), <<x, s>>>>, r, mm, c, v), Kw(op)) = On(s, r2, mm, c, v)
    BY <1>1, TokenAssign
  <2>5. val \in Word
    <3>1. r[g] \in Word /\ Value(x, r) \in Int
      BY <1>1, <2>1, ValueInt DEF Regs
    <3>2. QED
      BY <3>1, AssignWord
  <2> HIDE DEF val
  <2>6. r2 \in Regs /\ r2.pc \in {r.pc}
    BY <1>1, <2>5, SetReg, SetOther
  <2> HIDE DEF r2
  <2>7. Run(On(s, r, mm, c, u), p \o <<Kw(g), Kw(op)>>) = Machine(s, r2, mm, c, v, "running")
    BY <2>2, <2>3, <2>4 DEF On
  <2>8. QED
    BY <2>6, <2>7, ShapeKept, MachineEnded
<1>5. QED
  BY <1>3, <1>4 DEF Ends

LEMMA EndsStore ==
  ASSUME NEW r \in Regs, NEW mm \in Images, NEW p, Pushes(p, r, mm), NEW value, Operand(value)
  PROVE  Ends(esil_store(p, value), r, mm, {r.pc})
<1> DEFINE q == <<value>> \o At(p)
<1>1. Pushes(<<value>>, r, mm) /\ Pushes(At(p), r, mm)
  BY PushesOne, AtPushes
<1>2. "=[2]" \in Operators
  BY DEF Operators
<1>3. q \in Program /\ <<value>> \in Program /\ At(p) \in Program
  BY <1>1, ProgramConcat DEF Pushes
<1>4. esil_store(p, value) = q \o <<Kw("=[2]")>>
  BY KwsTuples DEF esil_store
<1>5. q \o <<Kw("=[2]")>> \in Program
  BY <1>2, <1>3, OperatorTok, ProgramConcat
<1>6. ASSUME NEW s, NEW c, NEW u
      PROVE  Ended(Run(On(s, r, mm, c, u), q \o <<Kw("=[2]")>>), mm, {r.pc})
  <2>1. PICK x, v : Operand(x) /\ Run(On(s, r, mm, c, u), <<value>>) = On(<<x, s>>, r, mm, c, v)
    BY <1>1, PushesRun
  <2>2. PICK y, w : Operand(y) /\ Run(On(<<x, s>>, r, mm, c, v), At(p))
                                    = On(<<y, <<x, s>>>>, r, mm, c, w)
    BY <1>1, PushesRun
  <2>3. Run(On(s, r, mm, c, u), q) = On(<<y, <<x, s>>>>, r, mm, c, w)
    BY <1>3, <2>1, <2>2, RunConcat
  <2> HIDE DEF q
  <2>4. Run(On(s, r, mm, c, u), q \o <<Kw("=[2]")>>)
          = Token(On(<<y, <<x, s>>>>, r, mm, c, w), Kw("=[2]"))
    BY <1>2, <1>3, <2>3, RunThen
  <2> DEFINE new == WriteWord(mm, Value(y, r), Value(x, r))
  <2>5. Token(On(<<y, <<x, s>>>>, r, mm, c, w), Kw("=[2]")) = On(s, r, new, c, w)
    BY TokenStore
  <2>6. SameShape(mm, new)
    BY <2>1, <2>2, ValueInt, WriteShape
  <2> HIDE DEF new
  <2>7. QED
    BY <2>4, <2>5, <2>6, MachineEnded DEF On
<1>7. QED
  BY <1>4, <1>5, <1>6 DEF Ends

LEMMA TokenOperand ==
  ASSUME NEW s, NEW r, NEW mm, NEW c, NEW u, NEW x, Operand(x)
  PROVE  Token(On(s, r, mm, c, u), x) = On(<<x, s>>, r, mm, c, u)
<1>1. x.t \in {"#"} \cup RegNames
  BY DEF Operand, Num, Kw
<1>2. QED
  BY <1>1, TokenPush

(* A value goes into a register; a number is no place for it, and stops the   *)
(* program.                                                                   *)
LEMMA RunSet ==
  ASSUME NEW s, NEW r, NEW mm, NEW c, NEW u, NEW y, Operand(y), NEW g \in RegNames,
         NEW op \in Assignments
  PROVE  Run(On(s, r, mm, c, u), <<y, Kw(g), Kw(op)>>)
           = On(s, With(r, g, Assign(op, r[g], Value(y, r))), mm, c, u)
<1>1. y \in Tok /\ Kw(g) \in Tok /\ Kw(op) \in Tok /\ Operand(Kw(g))
  BY OperandTok, OperandReg, KwTok DEF Operators
<1>2. Run(On(s, r, mm, c, u), <<y, Kw(g), Kw(op)>>)
        = Token(Token(Token(On(s, r, mm, c, u), y), Kw(g)), Kw(op))
  BY <1>1, RunThree
<1>3. Token(On(s, r, mm, c, u), y) = On(<<y, s>>, r, mm, c, u)
  BY TokenOperand
<1>4. Token(On(<<y, s>>, r, mm, c, u), Kw(g)) = On(<<Kw(g), <<y, s>>>>, r, mm, c, u)
  BY <1>1, TokenOperand
<1>5. Token(On(<<Kw(g), <<y, s>>>>, r, mm, c, u), Kw(op))
        = On(s, With(r, g, Assign(op, r[g], Value(y, r))), mm, c, u)
  BY TokenAssign
<1>6. QED
  BY <1>2, <1>3, <1>4, <1>5

LEMMA RunRefused ==
  ASSUME NEW s, NEW r, NEW mm, NEW c, NEW u, NEW y, Operand(y), NEW i \in Int,
         NEW op \in Assignments
  PROVE  Run(On(s, r, mm, c, u), <<y, Num(i), Kw(op)>>)
           = Stopped(<<Num(i), <<y, s>>>>, r, mm, c, u)
<1>1. y \in Tok /\ Num(i) \in Tok /\ Kw(op) \in Tok /\ Operand(Num(i))
  BY OperandTok, OperandNum, NumTok, KwTok DEF Operators
<1>2. Run(On(s, r, mm, c, u), <<y, Num(i), Kw(op)>>)
        = Token(Token(Token(On(s, r, mm, c, u), y), Num(i)), Kw(op))
  BY <1>1, RunThree
<1>3. Token(On(s, r, mm, c, u), y) = On(<<y, s>>, r, mm, c, u)
  BY TokenOperand
<1>4. Token(On(<<y, s>>, r, mm, c, u), Num(i)) = On(<<Num(i), <<y, s>>>>, r, mm, c, u)
  BY <1>1, TokenOperand
<1>5. Token(On(<<Num(i), <<y, s>>>>, r, mm, c, u), Kw(op)) = Stopped(<<Num(i), <<y, s>>>>, r, mm, c, u)
  BY TokenRefused
<1>6. QED
  BY <1>2, <1>3, <1>4, <1>5

(* The programs of the register operations, shifts and arguments: a value, a  *)
(* register other than pc or the number 0, an assignment.                     *)
LEMMA SetWord ==
  ASSUME NEW r \in Regs, NEW y, Operand(y), NEW g \in RegNames \ {"pc"}, NEW op \in Assignments,
         op \in {"<<=", ">>="} => Value(y, r) \in Nat
  PROVE  /\ With(r, g, Assign(op, r[g], Value(y, r))) \in Regs
         /\ With(r, g, Assign(op, r[g], Value(y, r))).pc = r.pc
<1> DEFINE v == Assign(op, r[g], Value(y, r))
<1>1. r[g] \in Word /\ Value(y, r) \in Int /\ g \in RegNames /\ g # "pc"
  BY ValueInt DEF Regs
<1>2. v \in Word
  BY <1>1, AssignWord
<1> HIDE DEF v
<1>3. With(r, g, v) \in Regs
  BY <1>1, <1>2, SetReg
<1>4. With(r, g, v).pc = r.pc
  BY <1>1, SetOther
<1>5. QED
  BY <1>3, <1>4 DEF v

LEMMA EndsSet ==
  ASSUME NEW r \in Regs, NEW mm \in Images, NEW y, Operand(y), NEW x,
         x = Num(0) \/ (\E g \in RegNames \ {"pc"} : x = Kw(g)),
         NEW op \in Assignments, op \in {"<<=", ">>="} => Value(y, r) \in Nat
  PROVE  Ends(<<y, x, Kw(op)>>, r, mm, {r.pc})
<1>1. <<y, x, Kw(op)>> \in Program
  <2>1. Operand(x)
    BY OperandReg, OperandNum
  <2>2. y \in Tok /\ x \in Tok /\ Kw(op) \in Tok
    BY <2>1, OperandTok, KwTok DEF Operators
  <2>3. QED
    BY <2>2, Short
<1>2. ASSUME NEW s, NEW c, NEW u
      PROVE  Ended(Run(On(s, r, mm, c, u), <<y, x, Kw(op)>>), mm, {r.pc})
  <2>1. CASE x = Num(0)
    <3>1. Run(On(s, r, mm, c, u), <<y, Num(0), Kw(op)>>) = Stopped(<<Num(0), <<y, s>>>>, r, mm, c, u)
      BY RunRefused
    <3>2. Ended(Stopped(<<Num(0), <<y, s>>>>, r, mm, c, u), mm, {r.pc})
      BY ShapeKept, MachineEnded DEF Stopped
    <3>3. QED
      BY <2>1, <3>1, <3>2
  <2>2. ASSUME NEW g \in RegNames \ {"pc"}, x = Kw(g)
        PROVE  Ended(Run(On(s, r, mm, c, u), <<y, x, Kw(op)>>), mm, {r.pc})
    <3> DEFINE r2 == With(r, g, Assign(op, r[g], Value(y, r)))
    <3>0. g \in RegNames
      OBVIOUS
    <3>1. Run(On(s, r, mm, c, u), <<y, Kw(g), Kw(op)>>) = On(s, r2, mm, c, u)
      BY <3>0, RunSet
    <3>2. r2 \in Regs /\ r2.pc = r.pc
      BY SetWord
    <3> HIDE DEF r2
    <3>3. Ended(On(s, r2, mm, c, u), mm, {r.pc})
      BY <3>2, ShapeKept, MachineEnded DEF On
    <3>4. QED
      BY <2>2, <3>1, <3>3
  <2>3. QED
    BY <2>1, <2>2
<1>3. QED
  BY <1>1, <1>2 DEF Ends

(* A jump.                                                                    *)
LEMMA TripleConcat == \A a, b, d : <<a>> \o <<b, d>> = <<a, b, d>>
<1> TAKE a, b, d
<1> DEFINE S == {a, b, d}
           s == <<a>>
           t == <<b, d>>
           v == <<a, b, d>>
<1>1. /\ s \in Seq(S) /\ Len(s) = 1 /\ s[1] = a
      /\ t \in Seq(S) /\ Len(t) = 2 /\ t[1] = b /\ t[2] = d
      /\ v \in Seq(S) /\ Len(v) = 3 /\ v[1] = a /\ v[2] = b /\ v[3] = d
  OBVIOUS
<1> HIDE DEF S, s, t, v
<1>2. /\ s \o t \in Seq(S) /\ Len(s \o t) = 3
      /\ \A i \in 1 .. 3 : (s \o t)[i] = IF i <= 1 THEN s[i] ELSE t[i - 1]
  <2>1. /\ s \o t \in Seq(S) /\ Len(s \o t) = Len(s) + Len(t)
        /\ \A i \in 1 .. Len(s) + Len(t) : (s \o t)[i] = IF i <= Len(s) THEN s[i] ELSE t[i - Len(s)]
    BY <1>1, ConcatProperties, Zenon
  <2>2. Len(s) + Len(t) = 3
    BY <1>1
  <2>3. QED
    BY <1>1, <2>1, <2>2
<1>3. (s \o t)[1] = s[1] /\ (s \o t)[2] = t[1] /\ (s \o t)[3] = t[2]
  BY <1>2
<1>4. \A i \in 1 .. 3 : (s \o t)[i] = v[i]
  <2>1. \A i \in 1 .. 3 : i = 1 \/ i = 2 \/ i = 3
    OBVIOUS
  <2>2. QED
    BY <1>1, <1>3, <2>1, Zenon
<1>5. s \o t = v
  BY <1>1, <1>2, <1>4, SeqEqual
<1>6. QED
  BY <1>5 DEF s, t, v

LEMMA GotoIs == \A t : Goto(t) = <<Num(t), Kw("pc"), Kw("=")>>
<1> TAKE t
<1>1. Kws(<<"pc", "=">>) = <<Kw("pc"), Kw("=")>>
  BY KwsTuples
<1>2. QED
  BY <1>1, TripleConcat DEF Goto

LEMMA RunGoto ==
  ASSUME NEW s, NEW r, NEW mm, NEW c, NEW u, NEW t \in Int
  PROVE  Run(On(s, r, mm, c, u), Goto(t)) = On(s, With(r, "pc", t % 65536), mm, c, u)
<1>1. "pc" \in RegNames /\ "=" \in Assignments /\ Operand(Num(t))
  BY OperandNum DEF RegNames, Assignments
<1>2. Value(Num(t), r) = t
  BY DEF Value, Num
<1>3. \A old : Assign("=", old, t) = t % 65536
  BY DEF Assign
<1>4. Run(On(s, r, mm, c, u), <<Num(t), Kw("pc"), Kw("=")>>)
        = On(s, With(r, "pc", Assign("=", r["pc"], Value(Num(t), r))), mm, c, u)
  BY <1>1, RunSet
<1>5. QED
  BY <1>2, <1>3, <1>4, GotoIs

LEMMA GotoRegs ==
  ASSUME NEW r \in Regs, NEW t \in Int
  PROVE  With(r, "pc", t % 65536) \in Regs /\ With(r, "pc", t % 65536).pc = t % 65536
<1>1. "pc" \in RegNames /\ t % 65536 \in Word
  BY ModWord DEF RegNames
<1>2. QED
  BY <1>1, SetReg, SetOther

LEMMA GotoProgram == \A t \in Int : Goto(t) \in Program
<1> TAKE t \in Int
<1>1. Num(t) \in Tok /\ Kw("pc") \in Tok /\ Kw("=") \in Tok
  <2>1. "pc" \in RegNames /\ "=" \in Operators
    BY DEF RegNames, Operators, Assignments
  <2>2. QED
    BY <2>1, NumTok, KwTok
<1>2. QED
  BY <1>1, Short, GotoIs

LEMMA EndsGoto ==
  ASSUME NEW r \in Regs, NEW mm \in Images, NEW t \in Int
  PROVE  Ends(Goto(t), r, mm, {t % 65536})
<1> DEFINE r2 == With(r, "pc", t % 65536)
<1>1. r2 \in Regs /\ r2.pc = t % 65536
  BY GotoRegs
<1>2. ASSUME NEW s, NEW c, NEW u PROVE Ended(Run(On(s, r, mm, c, u), Goto(t)), mm, {t % 65536})
  <2>1. Run(On(s, r, mm, c, u), Goto(t)) = On(s, r2, mm, c, u)
    BY RunGoto
  <2> HIDE DEF r2
  <2>2. QED
    BY <1>1, <2>1, ShapeKept, MachineEnded DEF On
<1>3. QED
  BY <1>2, GotoProgram DEF Ends

(* A conditional jump.                                                        *)
LEMMA TestsRun ==
  ASSUME NEW p, NEW r, NEW mm, Tests(p, r, mm), NEW s, NEW c, NEW u
  PROVE  \E x : Operand(x) /\ Leaves(Run(On(s, r, mm, c, u), p), x, r, mm, c)
BY DEF Tests

LEMMA RunSkipped ==
  ASSUME NEW s, NEW r, NEW mm, NEW c, NEW u, NEW x \in Tok, NEW y \in Tok, NEW z \in Tok,
         Plain(x), Plain(y), Plain(z)
  PROVE  Run(Off(s, r, mm, c, u), <<x, y, z>>) = Off(s, r, mm, c, u)
<1> DEFINE k == Off(s, r, mm, c, u)
<1>1. Token(k, x) = k /\ Token(k, y) = k /\ Token(k, z) = k
  BY TokenSkipped
<1> HIDE DEF k
<1>2. Run(k, <<x, y, z>>) = Token(Token(Token(k, x), y), z)
  BY RunThree
<1>3. QED
  BY <1>1, <1>2 DEF k

LEMMA EndsIf ==
  ASSUME NEW r \in Regs, NEW mm \in Images, NEW p, Tests(p, r, mm), NEW t \in Int
  PROVE  Ends(If(p, t), r, mm, {t % 65536, r.pc})
<1> DEFINE pcs == {t % 65536, r.pc}
           q == p \o <<Open>>
           g == Goto(t)
<1>1. "?{" \in Operators /\ Close \in Tok
  BY KwTok DEF Operators, Unaries, Close
<1>2. p \in Program /\ g \in Program /\ <<Open>> \in Program /\ <<Close>> \in Program
  BY <1>1, OperatorTok, GotoProgram, Short DEF Tests, Open
<1>3. If(p, t) = q \o g \o <<Close>>
  <2>1. Kws(<<"?{">>) = <<Open>> /\ Kws(<<"}">>) = <<Close>>
    BY KwsTuples DEF Open, Close
  <2>2. QED
    BY <2>1 DEF If
<1>4. q \in Program /\ q \o g \in Program /\ q \o g \o <<Close>> \in Program
  BY <1>2, ProgramConcat
<1>5. ASSUME NEW s, NEW c, NEW u
      PROVE  Ended(Run(On(s, r, mm, c, u), q \o g \o <<Close>>), mm, pcs)
  <2> DEFINE m == On(s, r, mm, c, u)
  <2>0. PICK x : Operand(x) /\ Leaves(Run(m, p), x, r, mm, c)
    BY TestsRun
  <2>1. PICK d, v : Run(m, p) = On(<<x, d>>, r, mm, c, v)
    BY <2>0, Zenon DEF Leaves
  <2> HIDE DEF m
  <2>2. Run(m, q) = IF Value(x, r) = 0 THEN Off(d, r, mm, c, v) ELSE On(d, r, mm, c, v)
    <3>1. Run(m, q) = Token(On(<<x, d>>, r, mm, c, v), Open)
      BY <1>1, <1>2, <2>1, RunThen DEF Open
    <3>2. QED
      BY <3>1, TokenIf
  <2> HIDE DEF q
  <2>3. Run(m, q \o g \o <<Close>>) = Token(Run(Run(m, q), g), Close)
    <3>1. Run(m, q \o g \o <<Close>>) = Run(Run(m, q \o g), <<Close>>)
      BY <1>2, <1>4, RunConcat
    <3>2. Run(m, q \o g) = Run(Run(m, q), g)
      BY <1>2, <1>4, RunConcat
    <3>3. Run(Run(m, q \o g), <<Close>>) = Token(Run(m, q \o g), Close)
      BY <1>1, RunOne
    <3>4. QED
      BY <3>1, <3>2, <3>3
  <2>4. CASE Value(x, r) = 0
    <3>1. Run(m, q) = Off(d, r, mm, c, v)
      BY <2>2, <2>4
    <3>2. Run(Off(d, r, mm, c, v), g) = Off(d, r, mm, c, v)
      <4>1. "pc" \in RegNames /\ "=" \in Operators
        BY DEF RegNames, Operators, Assignments
      <4>2. Num(t) \in Tok /\ Kw("pc") \in Tok /\ Kw("=") \in Tok
        BY <4>1, NumTok, KwTok
      <4>3. Plain(Num(t)) /\ Plain(Kw("pc")) /\ Plain(Kw("="))
        BY DEF Num, Kw, Plain
      <4>4. QED
        BY <4>2, <4>3, RunSkipped, GotoIs
    <3>3. Token(Off(d, r, mm, c, v), Close) = On(d, r, mm, c, v)
      BY TokenClose DEF Off
    <3>4. Run(m, q \o g \o <<Close>>) = On(d, r, mm, c, v)
      BY <2>3, <3>1, <3>2, <3>3
    <3>5. Ended(On(d, r, mm, c, v), mm, pcs)
      BY ShapeKept, MachineEnded DEF On
    <3>6. QED
      BY <3>4, <3>5 DEF m
  <2>5. CASE Value(x, r) # 0
    <3> DEFINE r2 == With(r, "pc", t % 65536)
    <3>1. Run(m, q) = On(d, r, mm, c, v)
      BY <2>2, <2>5
    <3>2. Run(On(d, r, mm, c, v), g) = On(d, r2, mm, c, v)
      BY RunGoto
    <3>3. Token(On(d, r2, mm, c, v), Close) = On(d, r2, mm, c, v)
      BY TokenClose DEF On
    <3>4. r2 \in Regs /\ r2.pc = t % 65536
      BY GotoRegs
    <3> HIDE DEF r2, g
    <3>5. Run(m, q \o g \o <<Close>>) = On(d, r2, mm, c, v)
      BY <2>3, <3>1, <3>2, <3>3
    <3>6. Ended(On(d, r2, mm, c, v), mm, pcs)
      BY <3>4, ShapeKept, MachineEnded DEF On
    <3>7. QED
      BY <3>5, <3>6 DEF m
  <2>6. QED
    BY <2>4, <2>5 DEF q, m
<1> DEFINE whole == q \o g \o <<Close>>
<1>6. If(p, t) = whole
  BY <1>3
<1>7. whole \in Program
  BY <1>4
<1>8. ASSUME NEW s, NEW c, NEW u PROVE Ended(Run(On(s, r, mm, c, u), whole), mm, pcs)
  BY <1>5
<1> HIDE DEF whole, pcs
<1>9. Ends(whole, r, mm, pcs)
  BY <1>7, <1>8 DEF Ends
<1>10. QED
  BY <1>6, <1>9 DEF pcs

(* The tests of the conditional jumps.                                        *)
LEMMA ZeroPushes ==
  ASSUME NEW r \in Regs, NEW mm \in Images, NEW g \in RegNames
  PROVE  Pushes(Kws(<<g>>) \o <<Num(0)>> \o Kws(<<"==">>), r, mm)
<1>1. Kws(<<g>>) = <<Kw(g)>> /\ Kws(<<"==">>) = <<Kw("==")>>
  BY KwsTuples
<1>2. Pushes(<<Kw(g)>>, r, mm) /\ Pushes(<<Num(0)>>, r, mm)
  BY PushesReg, PushesNum
<1>3. "==" \in Combining
  BY DEF Combining
<1>4. Pushes(<<Kw(g)>> \o <<Num(0)>> \o <<Kw("==")>>, r, mm)
  BY <1>2, <1>3, PushesBinary
<1>5. QED
  BY <1>1, <1>4

LEMMA SignPushes ==
  ASSUME NEW r \in Regs, NEW mm \in Images
  PROVE  Pushes(Kws(<<"a">>) \o <<Num(\h8000)>> \o Kws(<<"&">>), r, mm)
<1>1. Kws(<<"a">>) = <<Kw("a")>> /\ Kws(<<"&">>) = <<Kw("&")>>
  BY KwsTuples
<1>2. Pushes(<<Kw("a")>>, r, mm) /\ Pushes(<<Num(\h8000)>>, r, mm)
  <2>1. "a" \in RegNames /\ \h8000 \in Int
    BY DEF RegNames
  <2>2. QED
    BY <2>1, PushesReg, PushesNum
<1>3. "&" \in Combining
  BY DEF Combining
<1>4. Pushes(<<Kw("a")>> \o <<Num(\h8000)>> \o <<Kw("&")>>, r, mm)
  BY <1>2, <1>3, PushesBinary
<1>5. QED
  BY <1>1, <1>4

LEMMA BothPush ==
  ASSUME NEW r \in Regs, NEW mm \in Images, NEW p, Pushes(p, r, mm), NEW q, Pushes(q, r, mm)
  PROVE  Pushes(p \o Kws(<<"!">>) \o q \o Kws(<<"!", "&">>), r, mm)
<1> DEFINE n == <<Kw("!")>>
           k == <<Kw("&")>>
           pp == p \o n
           qq == q \o n
<1>1. "!" \in {"!", "[2]"} /\ "&" \in Combining /\ "!" \in Operators /\ "&" \in Operators
  BY DEF Combining, Operators, Unaries
<1>2. Kws(<<"!">>) = n /\ Kws(<<"!", "&">>) = n \o k
  <2>1. Kws(<<"!">>) = n
    BY KwsTuples
  <2>2. Kws(<<"!", "&">>) = <<Kw("!"), Kw("&")>>
    BY KwsTuples
  <2>3. <<Kw("!"), Kw("&")>> = n \o k
    BY PairConcat
  <2>4. QED
    BY <2>1, <2>2, <2>3
<1>3. Pushes(pp, r, mm) /\ Pushes(qq, r, mm)
  BY <1>1, PushesUnary
<1>4. n \in Seq(Tok) /\ k \in Seq(Tok) /\ q \in Seq(Tok) /\ pp \in Seq(Tok) /\ qq \in Seq(Tok)
  BY <1>1, <1>3, OperatorTok DEF Pushes, Program
<1>5. Pushes(pp \o qq \o k, r, mm)
  BY <1>1, <1>3, PushesBinary
<1> HIDE DEF n, k, pp
<1>6. (pp \o q) \o (n \o k) = pp \o (q \o (n \o k))
  <2>1. n \o k \in Seq(Tok)
    BY <1>4, ConcatProperties
  <2>2. QED
    BY <1>4, <2>1, ConcatAssociative
<1>7. q \o (n \o k) = qq \o k
  BY <1>4, ConcatAssociative
<1>8. pp \o (qq \o k) = (pp \o qq) \o k
  BY <1>4, ConcatAssociative
<1>9. (pp \o q) \o (n \o k) = (pp \o qq) \o k
  BY <1>6, <1>7, <1>8
<1>10. QED
  BY <1>2, <1>5, <1>9 DEF pp

LEMMA JumpTests ==
  ASSUME NEW r \in Regs, NEW mm \in Images, NEW cond \in 0 .. 7
  PROVE  Tests(JumpTest(cond), r, mm)
<1> DEFINE zero(reg) == Kws(<<reg>>) \o <<Num(0)>> \o Kws(<<"==">>)
           sign == Kws(<<"a">>) \o <<Num(\h8000)>> \o Kws(<<"&">>)
           a == zero("a")
           x == zero("x")
           not == Kws(<<"!">>)
           z == Kws(<<"$z">>)
           carry == Kws(<<"$c">>)
<1>1. Pushes(a, r, mm) /\ Pushes(x, r, mm) /\ Pushes(sign, r, mm) /\ Pushes(carry, r, mm)
  <2>1. "a" \in RegNames /\ "x" \in RegNames
    BY DEF RegNames
  <2>2. carry = <<Kw("$c")>>
    BY KwsTuples
  <2>3. Pushes(<<Kw("$c")>>, r, mm)
    BY PushesCarry
  <2>4. QED
    BY <2>1, <2>2, <2>3, ZeroPushes, SignPushes
<1>2. not = <<Kw("!")>> /\ z = <<Kw("$z")>>
  BY KwsTuples
<1>3. JumpTest(cond)
        = CASE cond = 0 -> sign \o not \o a \o Kws(<<"!", "&">>)
            [] cond = 1 -> sign
            [] cond = 2 -> a \o z
            [] cond = 3 -> a \o not
            [] cond = 4 -> carry
            [] cond = 5 -> Kws(<<"$c", "!">>)
            [] cond = 6 -> x \o z
            [] cond = 7 -> x \o not
  BY DEF JumpTest
<1>4. Pushes(sign \o not \o a \o Kws(<<"!", "&">>), r, mm)
  BY <1>1, BothPush
<1>5. "!" \in {"!", "[2]"}
  OBVIOUS
<1>6. Kws(<<"$c", "!">>) = carry \o not
  <2>1. Kws(<<"$c", "!">>) = <<Kw("$c"), Kw("!")>> /\ carry = <<Kw("$c")>>
    BY KwsTuples
  <2>2. QED
    BY <1>2, <2>1, PairConcat
<1> HIDE DEF a, x, sign, carry, not, z
<1>7. Pushes(a \o not, r, mm) /\ Pushes(x \o not, r, mm) /\ Pushes(carry \o not, r, mm)
  BY <1>1, <1>2, <1>5, PushesUnary
<1>8. Tests(a \o z, r, mm) /\ Tests(x \o z, r, mm)
  BY <1>1, <1>2, TestsFlag
<1>9. cond = 0 \/ cond = 1 \/ cond = 2 \/ cond = 3 \/ cond = 4 \/ cond = 5 \/ cond = 6 \/ cond = 7
  OBVIOUS
<1>10. \/ Pushes(JumpTest(cond), r, mm) \/ Tests(JumpTest(cond), r, mm)
  BY <1>1, <1>3, <1>4, <1>6, <1>7, <1>8, <1>9
<1>11. QED
  BY <1>10, PushesTests

\* A register an instruction names, or the number 0.
Named8(x) == x = Num(0) \/ (\E g \in RegNames \ {"pc"} : x = Kw(g))

LEMMA RegisterTable == \A k \in 0 .. 7 : Named8(sr[k + 1])
<1> DEFINE names == <<"d", "p", "b", "l", "a", "t", "x">>
           S == RegNames \ {"pc"}
           head == <<Num(0)>>
           tail == Kws(names)
           T == {Num(0)} \cup {Kw(g) : g \in S}
<1>1. names \in Seq(S) /\ Len(names) = 7 /\ \A i \in 1 .. 7 : names[i] \in S
  BY DEF RegNames
<1> HIDE DEF names
<1>2. tail = [i \in 1 .. 7 |-> Kw(names[i])]
  BY <1>1 DEF Kws
<1>3. \A i \in 1 .. 7 : Kw(names[i]) \in T
  BY <1>1
<1>4. head \in Seq(T) /\ Len(head) = 1 /\ head[1] \in T
  <2>1. Num(0) \in T
    OBVIOUS
  <2> HIDE DEF T
  <2>2. QED
    BY <2>1
<1> HIDE DEF T, head
<1>5. tail \in Seq(T) /\ Len(tail) = 7
  BY <1>2, <1>3
<1> HIDE DEF tail
<1>6. head \o tail \in Seq(T) /\ Len(head \o tail) = 8
  <2>1. head \o tail \in Seq(T) /\ Len(head \o tail) = Len(head) + Len(tail)
    BY <1>4, <1>5, ConcatProperties
  <2>2. QED
    BY <1>4, <1>5, <2>1
<1>7. ASSUME NEW k \in 0 .. 7 PROVE (head \o tail)[k + 1] \in T
  <2>1. k + 1 \in 1 .. Len(head \o tail)
    BY <1>6
  <2>2. QED
    BY <1>6, <2>1, ElementOfSeq
<1>8. sr = head \o tail
  BY DEF sr, head, tail, names
<1>9. \A x \in T : Named8(x)
  BY DEF T, Named8
<1>10. QED
  BY <1>7, <1>8, <1>9

LEMMA Named8Operand == \A x : Named8(x) => Operand(x)
  BY DEF Named8, Operand

LEMMA FieldRange ==
  ASSUME NEW w \in Nat
  PROVE  Mode(w) \in 0 .. 7 /\ Field(w, 3, 3) \in 0 .. 7 /\ Field(w, 0, 3) \in 0 .. 7
BY DEF Field, Mode

LEMMA SkipTests ==
  ASSUME NEW r \in Regs, NEW mm \in Images, NEW w \in Nat
  PROVE  Tests(SkipTest(w), r, mm)
<1> DEFINE names == <<"==", ">=", ">", "==", "==", "<", "==", "==">>
           compare == names[Mode(w) + 1]
           x == sr[Field(w, 3, 3) + 1]
           y == sr[Field(w, 0, 3) + 1]
           p == <<x, y, Kw(compare)>>
           z == Kws(<<"$z">>)
<1>1. Operand(x) /\ Operand(y)
  BY FieldRange, RegisterTable, Named8Operand
<1>2. compare \in Combining
  <2>1. Mode(w) + 1 \in 1 .. 8
    BY FieldRange
  <2>2. \A k \in 1 .. 8 : names[k] \in Combining
    BY DEF Combining
  <2>3. QED
    BY <2>1, <2>2
<1>3. SkipTest(w) = p \o (IF compare = "==" THEN z ELSE <<>>)
  BY DEF SkipTest
<1> HIDE DEF compare, x, y
<1>4. Pushes(p, r, mm)
  <2>1. Pushes(<<x>>, r, mm)
    BY <1>1, PushesOne
  <2>2. Pushes(<<x>> \o <<y, Kw(compare)>>, r, mm)
    BY <1>1, <1>2, <2>1, PushesThen
  <2>3. QED
    BY <2>2, TripleConcat
<1>5. z = <<Kw("$z")>>
  BY KwsTuples
<1> HIDE DEF p, z
<1>6. CASE compare = "=="
  BY <1>3, <1>4, <1>5, <1>6, TestsFlag
<1>7. CASE compare # "=="
  BY <1>3, <1>4, <1>7, PushesNothing, PushesTests
<1>8. QED
  BY <1>6, <1>7

(* A monitor call stops the program.                                          *)
LEMMA EndsTrap ==
  ASSUME NEW r \in Regs, NEW mm \in Images, NEW i \in Int
  PROVE  Ends(<<Num(i), Kw("TRAP")>>, r, mm, {r.pc})
<1>1. Num(i) \in Tok /\ Kw("TRAP") \in Tok /\ Operand(Num(i))
  <2>1. "TRAP" \in Operators
    BY DEF Operators, Unaries
  <2>2. QED
    BY <2>1, NumTok, KwTok, OperandNum
<1>2. ASSUME NEW s, NEW c, NEW u
      PROVE  Ended(Run(On(s, r, mm, c, u), <<Num(i), Kw("TRAP")>>), mm, {r.pc})
  <2>1. Run(On(s, r, mm, c, u), <<Num(i), Kw("TRAP")>>)
          = Token(Token(On(s, r, mm, c, u), Num(i)), Kw("TRAP"))
    BY <1>1, RunTwo
  <2>2. Token(On(s, r, mm, c, u), Num(i)) = On(<<Num(i), s>>, r, mm, c, u)
    BY <1>1, TokenOperand
  <2>3. Token(On(<<Num(i), s>>, r, mm, c, u), Kw("TRAP")) = Stopped(s, r, mm, c, u)
    BY TokenTrap
  <2>4. Run(On(s, r, mm, c, u), <<Num(i), Kw("TRAP")>>) = Stopped(s, r, mm, c, u)
    BY <2>1, <2>2, <2>3
  <2>5. Ended(Stopped(s, r, mm, c, u), mm, {r.pc})
    BY ShapeKept, MachineEnded DEF Stopped
  <2>6. QED
    BY <2>4, <2>5
<1>3. <<Num(i), Kw("TRAP")>> \in Program
  BY <1>1, Short
<1>4. QED
  BY <1>2, <1>3 DEF Ends

(* A return goes to the address in l, a call keeps pc there and goes on.      *)
LEMMA WordMod == \A w \in Word : w % 65536 = w
<1>1. \A w \in Nat : w < 65536 => w % 65536 = w
  OBVIOUS
<1>2. QED
  BY <1>1, WordRange

LEMMA EndsReturn ==
  ASSUME NEW r \in Regs, NEW mm \in Images
  PROVE  Ends(Kws(<<"l", "pc", "=">>), r, mm, {r.l})
<1> DEFINE r2 == With(r, "pc", r.l)
<1>1. Kws(<<"l", "pc", "=">>) = <<Kw("l"), Kw("pc"), Kw("=")>>
  BY KwsTuples
<1>2. "l" \in RegNames /\ "pc" \in RegNames /\ "=" \in Assignments /\ Operand(Kw("l"))
  BY OperandReg DEF RegNames, Assignments
<1>3. Value(Kw("l"), r) = r.l /\ r.l \in Word
  BY <1>2 DEF Value, Kw, Regs
<1>4. Assign("=", r["pc"], r.l) = r.l
  BY <1>3, WordMod DEF Assign
<1>5. r2 \in Regs /\ r2.pc = r.l
  BY <1>2, <1>3, SetReg, SetOther
<1>6. <<Kw("l"), Kw("pc"), Kw("=")>> \in Program
  BY <1>2, KwTok, Short DEF Operators
<1>7. ASSUME NEW s, NEW c, NEW u
      PROVE  Ended(Run(On(s, r, mm, c, u), <<Kw("l"), Kw("pc"), Kw("=")>>), mm, {r.l})
  <2>1. Run(On(s, r, mm, c, u), <<Kw("l"), Kw("pc"), Kw("=")>>)
          = On(s, With(r, "pc", Assign("=", r["pc"], Value(Kw("l"), r))), mm, c, u)
    BY <1>2, RunSet
  <2>2. Run(On(s, r, mm, c, u), <<Kw("l"), Kw("pc"), Kw("=")>>) = On(s, r2, mm, c, u)
    BY <1>3, <1>4, <2>1
  <2> HIDE DEF r2
  <2>3. Ended(On(s, r2, mm, c, u), mm, {r.l})
    BY <1>5, ShapeKept, MachineEnded DEF On
  <2>4. QED
    BY <2>2, <2>3
<1>8. QED
  BY <1>1, <1>6, <1>7 DEF Ends

LEMMA EndsCall ==
  ASSUME NEW r \in Regs, NEW mm \in Images, NEW t \in Int
  PROVE  Ends(Kws(<<"pc", "l", "=">>) \o Goto(t), r, mm, {t % 65536})
<1> DEFINE link == <<Kw("pc"), Kw("l"), Kw("=")>>
           r2 == With(r, "l", Assign("=", r["l"], Value(Kw("pc"), r)))
<1>1. Kws(<<"pc", "l", "=">>) = link
  BY KwsTuples
<1>2. "l" \in RegNames /\ "pc" \in RegNames /\ "=" \in Assignments /\ Operand(Kw("pc"))
      /\ "=" \notin {"<<=", ">>="}
  BY OperandReg DEF RegNames, Assignments
<1>3. r2 \in Regs
  BY <1>2, SetWord
<1>4. link \in Program
  BY <1>2, KwTok, Short DEF Operators
<1>5. Goto(t) \in Program
  BY GotoProgram
<1>6. ASSUME NEW s, NEW c, NEW u
      PROVE  Ended(Run(On(s, r, mm, c, u), link \o Goto(t)), mm, {t % 65536})
  <2>1. Run(On(s, r, mm, c, u), link) = On(s, r2, mm, c, u)
    BY <1>2, RunSet
  <2> HIDE DEF link, r2
  <2>2. Run(On(s, r, mm, c, u), link \o Goto(t)) = Run(On(s, r2, mm, c, u), Goto(t))
    BY <1>4, <1>5, <2>1, RunConcat
  <2>3. Ends(Goto(t), r2, mm, {t % 65536})
    BY <1>3, EndsGoto
  <2>4. Ended(Run(On(s, r2, mm, c, u), Goto(t)), mm, {t % 65536})
    BY <2>3 DEF Ends
  <2>5. QED
    BY <2>2, <2>4
<1>7. link \o Goto(t) \in Program
  BY <1>4, <1>5, ProgramConcat
<1>8. QED
  BY <1>1, <1>6, <1>7 DEF Ends

-----------------------------------------------------------------------------
\* MIN: the sum is compared before it is cut to a word, so it is never zero.

LEMMA IncrementSum ==
  ASSUME NEW s, NEW r \in Regs, NEW mm \in Images, NEW c, NEW u, NEW y, Operand(y)
  PROVE  \E n \in Int : /\ n # 0
                        /\ Run(On(<<y, <<Num(1), s>>>>, r, mm, c, u), Kws(<<"[2]", "+", "DUP">>))
                             = On(<<Num(n), <<Num(n), s>>>>, r, mm, c, u)
<1> DEFINE w == ReadWord(mm, Value(y, r))
           n == w + 1
<1>1. w \in Nat
  BY ValueInt, ReadWordWord, WordRange
<1>2. Kws(<<"[2]", "+", "DUP">>) = <<Kw("[2]"), Kw("+"), Kw("DUP")>>
  BY KwsTuples
<1>3. Kw("[2]") \in Tok /\ Kw("+") \in Tok /\ Kw("DUP") \in Tok
  <2>1. "[2]" \in Operators /\ "+" \in Operators /\ "DUP" \in Operators
    BY DEF Operators, Unaries, Combining
  <2>2. QED
    BY <2>1, KwTok
<1>4. Token(On(<<y, <<Num(1), s>>>>, r, mm, c, u), Kw("[2]"))
        = On(<<Num(w), <<Num(1), s>>>>, r, mm, c, u)
  BY TokenRead
<1> HIDE DEF w
<1>5. Token(On(<<Num(w), <<Num(1), s>>>>, r, mm, c, u), Kw("+")) = On(<<Num(n), s>>, r, mm, c, u)
  <2>1. "+" \in Combining \ {"=="}
    BY DEF Combining
  <2>2. Token(On(<<Num(w), <<Num(1), s>>>>, r, mm, c, u), Kw("+"))
          = On(<<Combine("+", Value(Num(w), r), Value(Num(1), r)), s>>, r, mm, c, u)
    BY <2>1, TokenBinary
  <2>3. Value(Num(w), r) = w /\ Value(Num(1), r) = 1
    BY DEF Value, Num
  <2>4. \A a, b : Combine("+", a, b) = Num(a + b)
    BY DEF Combine
  <2>5. QED
    BY <2>2, <2>3, <2>4
<1>6. n \in Int /\ n # 0
  BY <1>1
<1> HIDE DEF n
<1>7. Token(On(<<Num(n), s>>, r, mm, c, u), Kw("DUP")) = On(<<Num(n), <<Num(n), s>>>>, r, mm, c, u)
  <2>1. Value(Num(n), r) = n
    BY DEF Value, Num
  <2>2. Token(On(<<Num(n), s>>, r, mm, c, u), Kw("DUP"))
          = On(<<Num(Value(Num(n), r)), <<Num(n), s>>>>, r, mm, c, u)
    BY TokenDup
  <2>3. QED
    BY <2>1, <2>2
<1>8. Run(On(<<y, <<Num(1), s>>>>, r, mm, c, u), <<Kw("[2]"), Kw("+"), Kw("DUP")>>)
        = On(<<Num(n), <<Num(n), s>>>>, r, mm, c, u)
  <2> DEFINE m == On(<<y, <<Num(1), s>>>>, r, mm, c, u)
  <2>1. Run(m, <<Kw("[2]"), Kw("+"), Kw("DUP")>>)
          = Token(Token(Token(m, Kw("[2]")), Kw("+")), Kw("DUP"))
    BY <1>3, RunThree
  <2>2. QED
    BY <1>4, <1>5, <1>7, <2>1
<1>9. QED
  BY <1>2, <1>6, <1>8

Passing(m, r, mm, c) == \E d, v : m = Off(d, r, mm, c, v)

LEMMA IncrementTest ==
  ASSUME NEW s, NEW r, NEW mm, NEW c, NEW u, NEW n \in Int, n # 0
  PROVE  Passing(Run(On(<<Num(0), <<Num(n), s>>>>, r, mm, c, u), Kws(<<"==", "$z", "?{">>)),
                 r, mm, c)
<1> DEFINE m == On(<<Num(0), <<Num(n), s>>>>, r, mm, c, u)
           x == Truth(0 = n)
           v == 0 - n
           d == <<x, s>>
<1>1. Kws(<<"==", "$z", "?{">>) = <<Kw("=="), Kw("$z"), Open>>
  BY KwsTuples DEF Open
<1>2. Kw("==") \in Tok /\ Kw("$z") \in Tok /\ Open \in Tok
  <2>1. "==" \in Operators /\ "$z" \in Operators /\ "?{" \in Operators
    BY DEF Operators, Unaries, Combining
  <2>2. QED
    BY <2>1, KwTok DEF Open
<1>3. Token(m, Kw("==")) = On(d, r, mm, c, v)
  <2>1. Value(Num(0), r) = 0 /\ Value(Num(n), r) = n
    BY DEF Value, Num
  <2>2. Token(m, Kw("=="))
          = On(<<Truth(Value(Num(0), r) = Value(Num(n), r)), s>>, r, mm, c,
               Value(Num(0), r) - Value(Num(n), r))
    BY TokenEqual
  <2>3. QED
    BY <2>1, <2>2
<1>4. v # 0
  OBVIOUS
<1> HIDE DEF d, v, m
<1>5. Token(On(d, r, mm, c, v), Kw("$z")) = On(<<Num(0), d>>, r, mm, c, v)
  <2>1. Token(On(d, r, mm, c, v), Kw("$z")) = On(<<Truth(v = 0), d>>, r, mm, c, v)
    BY TokenZero
  <2>2. Truth(v = 0) = Num(0)
    BY <1>4 DEF Truth
  <2>3. QED
    BY <2>1, <2>2
<1>6. Token(On(<<Num(0), d>>, r, mm, c, v), Open) = Off(d, r, mm, c, v)
  <2>1. Value(Num(0), r) = 0
    BY DEF Value, Num
  <2>2. QED
    BY <2>1, TokenIf
<1>7. Run(m, <<Kw("=="), Kw("$z"), Open>>) = Token(Token(Token(m, Kw("==")), Kw("$z")), Open)
  BY <1>2, RunThree
<1>8. Run(m, <<Kw("=="), Kw("$z"), Open>>) = Off(d, r, mm, c, v)
  BY <1>3, <1>5, <1>6, <1>7
<1>9. QED
  BY <1>1, <1>8 DEF m, Passing

LEMMA IncrementSkip ==
  ASSUME NEW d, NEW r, NEW mm, NEW c, NEW v
  PROVE  Run(Run(Off(d, r, mm, c, v), <<Num(4)>>), Kws(<<"pc", "+=", "}">>)) = On(d, r, mm, c, v)
<1> DEFINE k == Off(d, r, mm, c, v)
<1>1. Kws(<<"pc", "+=", "}">>) = <<Kw("pc"), Kw("+="), Close>>
  BY KwsTuples DEF Close
<1>2. Num(4) \in Tok /\ Kw("pc") \in Tok /\ Kw("+=") \in Tok /\ Close \in Tok
  <2>1. "pc" \in RegNames /\ "+=" \in Operators /\ 4 \in Int
    BY DEF RegNames, Operators, Assignments
  <2>2. QED
    BY <2>1, NumTok, KwTok DEF Close
<1>3. Plain(Num(4)) /\ Plain(Kw("pc")) /\ Plain(Kw("+="))
  BY DEF Num, Kw, Plain
<1>4. Token(k, Num(4)) = k /\ Token(k, Kw("pc")) = k /\ Token(k, Kw("+=")) = k
  BY <1>3, TokenSkipped
<1>5. Token(k, Close) = On(d, r, mm, c, v)
  BY TokenClose DEF Off
<1> HIDE DEF k
<1>6. Run(k, <<Num(4)>>) = k
  BY <1>2, <1>4, RunOne
<1>7. Run(k, <<Kw("pc"), Kw("+="), Close>>) = Token(Token(Token(k, Kw("pc")), Kw("+=")), Close)
  BY <1>2, RunThree
<1>8. QED
  BY <1>1, <1>4, <1>5, <1>6, <1>7 DEF k

LEMMA ThreeWords ==
  \A a, b, d \in Operators \cup RegNames \cup {"}"} : Kws(<<a, b, d>>) \in Program
<1> TAKE a, b, d \in Operators \cup RegNames \cup {"}"}
<1>1. Kws(<<a, b, d>>) = <<Kw(a), Kw(b), Kw(d)>>
  BY KwsTuples
<1>2. Kw(a) \in Tok /\ Kw(b) \in Tok /\ Kw(d) \in Tok
  BY KwTok
<1> HIDE DEF Kw
<1>3. <<Kw(a), Kw(b), Kw(d)>> \in Program
  BY <1>2, Short
<1>4. QED
  BY <1>1, <1>3

LEMMA EndsIncrement ==
  ASSUME NEW r \in Regs, NEW mm \in Images, NEW p, Pushes(p, r, mm)
  PROVE  Ends(Increment(p), r, mm, {r.pc})
<1> DEFINE n1 == <<Num(1)>>
           n0 == <<Num(0)>>
           n4 == <<Num(4)>>
           at == At(p)
           sum == Kws(<<"[2]", "+", "DUP">>)
           save == Kws(<<"=[2]">>)
           test == Kws(<<"==", "$z", "?{">>)
           skip == Kws(<<"pc", "+=", "}">>)
<1>1. Increment(p) = n1 \o at \o sum \o at \o save \o n0 \o test \o n4 \o skip
  BY DEF Increment
<1>2. Pushes(at, r, mm) /\ Pushes(n1, r, mm) /\ Pushes(n0, r, mm)
  BY AtPushes, PushesNum
<1>3. at \in Program /\ n1 \in Program /\ n0 \in Program
  BY <1>2 DEF Pushes
<1>4. n4 \in Program
  <2>1. Num(4) \in Tok
    BY NumTok
  <2>2. QED
    BY <2>1, Short
<1>5. sum \in Program
  <2>1. "[2]" \in Operators /\ "+" \in Operators /\ "DUP" \in Operators
    BY DEF Operators, Unaries, Combining
  <2>2. QED
    BY <2>1, ThreeWords
<1>6. save = <<Kw("=[2]")>> /\ save \in Program
  <2>1. "=[2]" \in Operators
    BY DEF Operators
  <2>2. save = <<Kw("=[2]")>>
    BY KwsTuples
  <2>3. QED
    BY <2>1, <2>2, OperatorTok
<1>7. test \in Program
  <2>1. "==" \in Operators /\ "$z" \in Operators /\ "?{" \in Operators
    BY DEF Operators, Unaries, Combining
  <2>2. QED
    BY <2>1, ThreeWords
<1>8. skip \in Program
  <2>1. "pc" \in RegNames /\ "+=" \in Operators
    BY DEF RegNames, Operators, Assignments
  <2>2. QED
    BY <2>1, ThreeWords
<1> DEFINE q1 == n1 \o at
           q2 == q1 \o sum
           q3 == q2 \o at
           q4 == q3 \o save
           q5 == q4 \o n0
           q6 == q5 \o test
           q7 == q6 \o n4
<1>9. /\ q1 \in Program /\ q2 \in Program /\ q3 \in Program /\ q4 \in Program
      /\ q5 \in Program /\ q6 \in Program /\ q7 \in Program /\ q7 \o skip \in Program
  <2> HIDE DEF at, n1, n0, n4, sum, save, test, skip
  <2>1. q1 \in Program
    BY <1>3, ProgramConcat
  <2>2. q2 \in Program
    BY <1>5, <2>1, ProgramConcat
  <2>3. q3 \in Program
    BY <1>3, <2>2, ProgramConcat
  <2>4. q4 \in Program
    BY <1>6, <2>3, ProgramConcat
  <2>5. q5 \in Program
    BY <1>3, <2>4, ProgramConcat
  <2>6. q6 \in Program
    BY <1>7, <2>5, ProgramConcat
  <2>7. q7 \in Program
    BY <1>4, <2>6, ProgramConcat
  <2>8. q7 \o skip \in Program
    BY <1>8, <2>7, ProgramConcat
  <2>9. QED
    BY <2>1, <2>2, <2>3, <2>4, <2>5, <2>6, <2>7, <2>8
<1>10. ASSUME NEW s, NEW c, NEW u
       PROVE  Ended(Run(On(s, r, mm, c, u), q7 \o skip), mm, {r.pc})
  <2> DEFINE m == On(s, r, mm, c, u)
             s1 == <<Num(1), s>>
  <2>1. Run(m, n1) = On(s1, r, mm, c, u)
    <3>1. Num(1) \in Tok /\ Operand(Num(1))
      BY NumTok, OperandNum
    <3>2. QED
      BY <3>1, RunOne, TokenOperand
  <2>2. PICK y, v : Operand(y) /\ Run(On(s1, r, mm, c, u), at) = On(<<y, s1>>, r, mm, c, v)
    <3>1. Pushes(at, r, mm)
      BY <1>2
    <3> HIDE DEF at, s1, m
    <3>2. QED
      BY <3>1, PushesRun
  <2>3. Run(m, q1) = On(<<y, s1>>, r, mm, c, v)
    <3> HIDE DEF m, n1, at, s1
    <3>1. QED
      BY <1>3, <2>1, <2>2, RunConcat
  <2>4. PICK n \in Int : /\ n # 0
                         /\ Run(On(<<y, s1>>, r, mm, c, v), sum) = On(<<Num(n), <<Num(n), s>>>>, r, mm, c, v)
    BY <2>2, IncrementSum
  <2> DEFINE s2 == <<Num(n), s>>
             s3 == <<Num(n), s2>>
  <2>5. Run(m, q2) = On(s3, r, mm, c, v)
    <3>1. q1 \in Program /\ q2 = q1 \o sum
      BY <1>9
    <3>2. Run(On(<<y, s1>>, r, mm, c, v), sum) = On(s3, r, mm, c, v)
      BY <2>4
    <3> HIDE DEF m, q1, q2, sum, s1, s3
    <3>3. Run(m, q1 \o sum) = Run(Run(m, q1), sum)
      BY <1>5, <3>1, RunConcat
    <3>4. QED
      BY <2>3, <3>1, <3>2, <3>3
  <2>6. PICK z, w : Operand(z) /\ Run(On(s3, r, mm, c, v), at) = On(<<z, s3>>, r, mm, c, w)
    <3>1. Pushes(at, r, mm)
      BY <1>2
    <3> HIDE DEF at, s3, m
    <3>2. QED
      BY <3>1, PushesRun
  <2>7. Run(m, q3) = On(<<z, s3>>, r, mm, c, w)
    <3>1. q2 \in Program /\ at \in Program
      BY <1>3, <1>9
    <3> HIDE DEF m, q2, at, s3
    <3>2. Run(m, q2 \o at) = Run(Run(m, q2), at)
      BY <3>1, RunConcat
    <3>3. QED
      BY <2>5, <2>6, <3>2
  <2> DEFINE new == WriteWord(mm, Value(z, r), Value(Num(n), r))
  <2>8. Run(m, q4) = On(s2, r, new, c, w)
    <3>1. Token(On(<<z, <<Num(n), s2>>>>, r, mm, c, w), Kw("=[2]")) = On(s2, r, new, c, w)
      BY TokenStore
    <3>2. "=[2]" \in Operators
      BY DEF Operators
    <3> HIDE DEF m, q3, s2, new
    <3>3. Run(m, q3 \o <<Kw("=[2]")>>) = Token(Run(m, q3), Kw("=[2]"))
      BY <1>9, <3>2, RunThen
    <3>4. QED
      BY <1>6, <2>7, <3>1, <3>3
  <2>9. Operand(Num(n)) /\ Value(z, r) \in Int /\ Value(Num(n), r) \in Int
    <3>1. Operand(Num(n))
      BY OperandNum
    <3>2. QED
      BY <2>6, <3>1, ValueInt
  <2>10. SameShape(mm, new)
    BY <2>9, WriteShape
  <2> HIDE DEF new
  <2>11. Run(m, q5) = On(<<Num(0), s2>>, r, new, c, w)
    <3>1. Num(0) \in Tok /\ Operand(Num(0))
      BY NumTok, OperandNum
    <3>2. Run(On(s2, r, new, c, w), n0) = On(<<Num(0), s2>>, r, new, c, w)
      BY <3>1, RunOne, TokenOperand
    <3>3. q4 \in Program /\ n0 \in Program
      BY <1>3, <1>9
    <3> HIDE DEF m, q4, s2, n0
    <3>4. Run(m, q4 \o n0) = Run(Run(m, q4), n0)
      BY <3>3, RunConcat
    <3>5. QED
      BY <2>8, <3>2, <3>4
  <2>12. PICK d, x : Run(On(<<Num(0), <<Num(n), s>>>>, r, new, c, w), test) = Off(d, r, new, c, x)
    <3>1. n \in Int /\ n # 0
      BY <2>4
    <3> HIDE DEF m
    <3>2. Passing(Run(On(<<Num(0), <<Num(n), s>>>>, r, new, c, w), test), r, new, c)
      BY <3>1, IncrementTest
    <3>3. QED
      BY <3>2 DEF Passing
  <2>13. Run(m, q6) = Off(d, r, new, c, x)
    <3> HIDE DEF m, q5, test
    <3>1. Run(m, q5 \o test) = Run(Run(m, q5), test)
      BY <1>7, <1>9, RunConcat
    <3>2. QED
      BY <2>11, <2>12, <3>1
  <2>14. Run(Run(Off(d, r, new, c, x), n4), skip) = On(d, r, new, c, x)
    BY IncrementSkip
  <2>15. Run(m, q7 \o skip) = On(d, r, new, c, x)
    <3> HIDE DEF m, q6, n4, skip
    <3>1. Run(m, q6 \o n4) = Run(Run(m, q6), n4)
      BY <1>4, <1>9, RunConcat
    <3>2. Run(m, q7 \o skip) = Run(Run(m, q7), skip)
      <4> HIDE DEF q7
      <4>1. QED
        BY <1>8, <1>9, RunConcat
    <3>3. QED
      BY <2>13, <2>14, <3>1, <3>2
  <2> HIDE DEF m, q7, skip
  <2>16. Ended(On(d, r, new, c, x), mm, {r.pc})
    BY <2>10, MachineEnded DEF On
  <2>17. QED
    BY <2>15, <2>16 DEF m
<1> HIDE DEF q7, skip
<1>11. Increment(p) = q7 \o skip
  BY <1>1 DEF q7, skip
<1>12. QED
  BY <1>9, <1>10, <1>11 DEF Ends

-----------------------------------------------------------------------------
\* Loads, arithmetic, and the copy that clears its source.

LEMMA EndsApply ==
  ASSUME NEW r \in Regs, NEW mm \in Images, NEW p, Pushes(p, r, mm),
         NEW g \in RegNames \ {"pc"}, NEW op \in Assignments, op \notin {"<<=", ">>="}
  PROVE  Ends(At(p) \o Kws(<<"[2]", g, op>>), r, mm, {r.pc})
<1> DEFINE at == At(p)
           read == <<Kw("[2]")>>
           into == <<Kw(g), Kw(op)>>
<1>1. Pushes(at, r, mm)
  BY AtPushes
<1>2. Kws(<<"[2]", g, op>>) = read \o into
  BY KwsTuples, TripleConcat
<1>3. read \in Program /\ into \in Program
  <2>1. "[2]" \in Operators /\ g \in RegNames /\ op \in Operators
    BY DEF Operators, Unaries
  <2>2. Kw(g) \in Tok /\ Kw(op) \in Tok
    BY <2>1, KwTok
  <2>3. into \in Program
    BY <2>2, Short
  <2>4. QED
    BY <2>1, <2>3, OperatorTok
<1> HIDE DEF at
<1>4. Pushes(at \o read, r, mm)
  BY <1>1, PushesUnary
<1>5. Ends((at \o read) \o into, r, mm, {r.pc})
  BY <1>4, EndsAssign
<1>6. at \in Program
  BY <1>1 DEF Pushes
<1> HIDE DEF read, into
<1>7. (at \o read) \o into = at \o (read \o into)
  BY <1>3, <1>6, ConcatAssociative DEF Program
<1>8. QED
  BY <1>2, <1>5, <1>7 DEF at

LEMMA TripleProgram ==
  ASSUME NEW x, Operand(x), NEW y, Operand(y), NEW op \in Operators
  PROVE  <<x, y, Kw(op)>> \in Program
<1>1. x \in Tok /\ y \in Tok /\ Kw(op) \in Tok
  BY OperandTok, KwTok
<1>2. QED
  BY <1>1, Short

LEMMA RunStopped ==
  ASSUME NEW s, NEW r, NEW mm, NEW c, NEW u, NEW x \in Tok, NEW y \in Tok, NEW z \in Tok
  PROVE  Run(Stopped(s, r, mm, c, u), <<x, y, z>>) = Stopped(s, r, mm, c, u)
<1> DEFINE k == Stopped(s, r, mm, c, u)
<1>1. Token(k, x) = k /\ Token(k, y) = k /\ Token(k, z) = k
  BY TokenStopped
<1> HIDE DEF k
<1>2. Run(k, <<x, y, z>>) = Token(Token(Token(k, x), y), z)
  BY RunThree
<1>3. QED
  BY <1>1, <1>2 DEF k

(* Two assignments, the second of zero; a number as the place of the first    *)
(* stops both.                                                                *)
LEMMA EndsMove ==
  ASSUME NEW r \in Regs, NEW mm \in Images, NEW y, Named8(y), NEW x, Named8(x)
  PROVE  Ends(<<y, x, Kw("=")>> \o <<Num(0), y, Kw("=")>>, r, mm, {r.pc})
<1> DEFINE copy == <<y, x, Kw("=")>>
           clear == <<Num(0), y, Kw("=")>>
<1>1. "=" \in Assignments /\ "=" \in Operators /\ "=" \notin {"<<=", ">>="}
  BY DEF Assignments, Operators
<1>2. Operand(x) /\ Operand(y) /\ Operand(Num(0))
  BY Named8Operand, OperandNum
<1>3. copy \in Program /\ clear \in Program
  BY <1>1, <1>2, TripleProgram
<1>4. copy \o clear \in Program
  BY <1>3, ProgramConcat
<1>5. ASSUME NEW s, NEW c, NEW u
      PROVE  Ended(Run(On(s, r, mm, c, u), copy \o clear), mm, {r.pc})
  <2> DEFINE m == On(s, r, mm, c, u)
  <2>1. Run(m, copy \o clear) = Run(Run(m, copy), clear)
    <3> HIDE DEF m, copy, clear
    <3>1. QED
      BY <1>3, RunConcat
  <2>2. CASE x = Num(0)
    <3> DEFINE k == Stopped(<<Num(0), <<y, s>>>>, r, mm, c, u)
    <3>1. Run(m, copy) = k
      BY <1>1, <1>2, <2>2, RunRefused
    <3>2. Num(0) \in Tok /\ y \in Tok /\ Kw("=") \in Tok
      BY <1>1, <1>2, OperandTok, KwTok
    <3>3. Run(k, clear) = k
      BY <3>2, RunStopped
    <3>4. Ended(k, mm, {r.pc})
      BY ShapeKept, MachineEnded DEF Stopped
    <3> HIDE DEF m, copy, clear, k
    <3>5. QED
      BY <2>1, <3>1, <3>3, <3>4 DEF m, copy, clear
  <2>3. ASSUME NEW g \in RegNames \ {"pc"}, x = Kw(g)
        PROVE  Ended(Run(m, copy \o clear), mm, {r.pc})
    <3> DEFINE r2 == With(r, g, Assign("=", r[g], Value(y, r)))
    <3>0. g \in RegNames
      OBVIOUS
    <3>1. Run(m, copy) = On(s, r2, mm, c, u)
      BY <1>1, <1>2, <2>3, <3>0, RunSet
    <3>2. r2 \in Regs /\ r2.pc = r.pc
      BY <1>1, <1>2, SetWord
    <3> HIDE DEF r2
    <3>3. Ends(clear, r2, mm, {r2.pc})
      BY <1>1, <1>2, <3>2, EndsSet DEF Named8
    <3>4. Ended(Run(On(s, r2, mm, c, u), clear), mm, {r2.pc})
      BY <3>3 DEF Ends
    <3> HIDE DEF m, copy, clear
    <3>5. QED
      BY <2>1, <3>1, <3>2, <3>4 DEF m, copy, clear
  <2>4. QED
    BY <2>2, <2>3 DEF Named8
<1>6. QED
  BY <1>4, <1>5 DEF Ends

-----------------------------------------------------------------------------
\* The program of every operation.

\* Where pc may be after the program of op.
Landings(op, r) ==
  CASE op.type \in {"JMP", "CALL"} -> {op.jump % 65536}
    [] op.type = "RET" -> {r.l}
    [] op.type \notin ByType /\ op.name \in {"Jcc", "SKP"} -> {op.jump % 65536, r.pc}
    [] op.type \notin ByType /\ op.name \notin {"Jcc", "SKP"} -> {r.pc}

LEMMA LandingsTarget ==
  ASSUME NEW op, op.type \in {"JMP", "CALL"}, NEW r
  PROVE  Landings(op, r) = {op.jump % 65536}
<1>1. CASE op.type = "JMP"
  BY <1>1 DEF Landings, ByType
<1>2. CASE op.type = "CALL"
  BY <1>2 DEF Landings, ByType
<1>3. QED
  BY <1>1, <1>2

LEMMA LandingsReturn ==
  ASSUME NEW op, op.type = "RET", NEW r
  PROVE  Landings(op, r) = {r.l}
BY DEF Landings, ByType

LEMMA LandingsEither ==
  ASSUME NEW op, op.type \notin ByType, op.name \in {"Jcc", "SKP"}, NEW r
  PROVE  Landings(op, r) = {op.jump % 65536, r.pc}
BY DEF Landings, ByType

LEMMA LandingsBehind ==
  ASSUME NEW op, op.type \notin ByType, op.name \notin {"Jcc", "SKP"}, NEW r
  PROVE  Landings(op, r) = {r.pc}
BY DEF Landings, ByType

LEMMA ProgramNames ==
  /\ DOMAIN Loads = {"LDA", "LDT", "LDX", "LDD"}
  /\ DOMAIN Stores = {"STZ", "STA", "STT", "STX", "STD"}
  /\ DOMAIN Arithmetic = {"ADD", "SUB", "AND", "ORA", "MPY"}
  /\ DOMAIN ArgumentReg = {"SAB", "SAA", "SAT", "SAX", "AAB", "AAA", "AAT", "AAX"}
BY DEF Loads, Stores, Arithmetic, ArgumentReg

LEMMA EsilLoad ==
  ASSUME NEW op, Sorted(op), op.name \in DOMAIN Loads
  PROVE  Esil(op) = esil_load(esil_mem_ea(Signed(op.word % 256), Mode(op.word)), Loads[op.name])
<1>1. /\ op.name \notin DOMAIN Stores
      /\ op.name \notin DOMAIN Arithmetic
      /\ op.name \notin DOMAIN ArgumentReg
  BY ProgramNames
<1>2. /\ op.name # "MIN" /\ op.name # "Jcc" /\ op.name # "SKP" /\ op.name # "RADD"
      /\ op.name # "RADD_CLD" /\ op.name # "MON" /\ op.name # "shift"
  BY ProgramNames
<1>3. op.type # "JMP" /\ op.type # "CALL" /\ op.type # "RET"
  BY ProgramNames DEF Sorted, ByType
<1>4. QED
  BY <1>1, <1>2, <1>3, Zenon DEF Esil

LEMMA EsilStore ==
  ASSUME NEW op, Sorted(op), op.name \in DOMAIN Stores
  PROVE  Esil(op) = esil_store(esil_mem_ea(Signed(op.word % 256), Mode(op.word)), Stores[op.name])
<1>1. /\ op.name \notin DOMAIN Loads
      /\ op.name \notin DOMAIN Arithmetic
      /\ op.name \notin DOMAIN ArgumentReg
  BY ProgramNames
<1>2. /\ op.name # "MIN" /\ op.name # "Jcc" /\ op.name # "SKP" /\ op.name # "RADD"
      /\ op.name # "RADD_CLD" /\ op.name # "MON" /\ op.name # "shift"
  BY ProgramNames
<1>3. op.type # "JMP" /\ op.type # "CALL" /\ op.type # "RET"
  BY ProgramNames DEF Sorted, ByType
<1>4. QED
  BY <1>1, <1>2, <1>3, Zenon DEF Esil

LEMMA EsilArithmetic ==
  ASSUME NEW op, Sorted(op), op.name \in DOMAIN Arithmetic
  PROVE  Esil(op) = Apply(esil_mem_ea(Signed(op.word % 256), Mode(op.word)), Arithmetic[op.name])
<1>1. /\ op.name \notin DOMAIN Loads
      /\ op.name \notin DOMAIN Stores
      /\ op.name \notin DOMAIN ArgumentReg
  BY ProgramNames
<1>2. /\ op.name # "MIN" /\ op.name # "Jcc" /\ op.name # "SKP" /\ op.name # "RADD"
      /\ op.name # "RADD_CLD" /\ op.name # "MON" /\ op.name # "shift"
  BY ProgramNames
<1>3. op.type # "JMP" /\ op.type # "CALL" /\ op.type # "RET"
  BY ProgramNames DEF Sorted, ByType
<1>4. QED
  BY <1>1, <1>2, <1>3, Zenon DEF Esil

LEMMA EsilArgument ==
  ASSUME NEW op, Sorted(op), op.name \in DOMAIN ArgumentReg
  PROVE  Esil(op) = <<Num(op.val), Kw(ArgumentReg[op.name]),
                       Kw(IF op.type = "MOV" THEN "=" ELSE "+=")>>
<1>1. /\ op.name \notin DOMAIN Loads
      /\ op.name \notin DOMAIN Stores
      /\ op.name \notin DOMAIN Arithmetic
  BY ProgramNames
<1>2. /\ op.name # "MIN" /\ op.name # "Jcc" /\ op.name # "SKP" /\ op.name # "RADD"
      /\ op.name # "RADD_CLD" /\ op.name # "MON" /\ op.name # "shift"
  BY ProgramNames
<1>3. op.type # "JMP" /\ op.type # "CALL" /\ op.type # "RET"
  BY ProgramNames DEF Sorted, ByType
<1>4. QED
  BY <1>1, <1>2, <1>3, Zenon DEF Esil

LEMMA EsilMin ==
  ASSUME NEW op, Sorted(op), op.name = "MIN"
  PROVE  Esil(op) = Increment(esil_mem_ea(Signed(op.word % 256), Mode(op.word)))
<1>1. /\ op.name \notin DOMAIN Loads
      /\ op.name \notin DOMAIN Stores
      /\ op.name \notin DOMAIN Arithmetic
      /\ op.name \notin DOMAIN ArgumentReg
  BY ProgramNames
<1>2. /\ op.name # "Jcc" /\ op.name # "SKP" /\ op.name # "RADD" /\ op.name # "RADD_CLD"
      /\ op.name # "MON" /\ op.name # "shift"
  BY ProgramNames
<1>3. op.type # "JMP" /\ op.type # "CALL" /\ op.type # "RET"
  BY ProgramNames DEF Sorted, ByType
<1>4. QED
  BY <1>1, <1>2, <1>3, Zenon DEF Esil

LEMMA EsilJcc ==
  ASSUME NEW op, Sorted(op), op.name = "Jcc"
  PROVE  Esil(op) = If(JumpTest(Mode(op.word)), op.jump)
<1>1. /\ op.name \notin DOMAIN Loads
      /\ op.name \notin DOMAIN Stores
      /\ op.name \notin DOMAIN Arithmetic
      /\ op.name \notin DOMAIN ArgumentReg
  BY ProgramNames
<1>2. /\ op.name # "MIN" /\ op.name # "SKP" /\ op.name # "RADD" /\ op.name # "RADD_CLD"
      /\ op.name # "MON" /\ op.name # "shift"
  BY ProgramNames
<1>3. op.type # "JMP" /\ op.type # "CALL" /\ op.type # "RET"
  BY ProgramNames DEF Sorted, ByType
<1>4. QED
  BY <1>1, <1>2, <1>3, Zenon DEF Esil

LEMMA EsilSkp ==
  ASSUME NEW op, Sorted(op), op.name = "SKP"
  PROVE  Esil(op) = If(SkipTest(op.word), op.jump)
<1>1. /\ op.name \notin DOMAIN Loads
      /\ op.name \notin DOMAIN Stores
      /\ op.name \notin DOMAIN Arithmetic
      /\ op.name \notin DOMAIN ArgumentReg
  BY ProgramNames
<1>2. /\ op.name # "MIN" /\ op.name # "Jcc" /\ op.name # "RADD" /\ op.name # "RADD_CLD"
      /\ op.name # "MON" /\ op.name # "shift"
  BY ProgramNames
<1>3. op.type # "JMP" /\ op.type # "CALL" /\ op.type # "RET"
  BY ProgramNames DEF Sorted, ByType
<1>4. QED
  BY <1>1, <1>2, <1>3, Zenon DEF Esil

LEMMA EsilRadd ==
  ASSUME NEW op, Sorted(op), op.name = "RADD"
  PROVE  Esil(op) = <<sr[Field(op.word, 3, 3) + 1], sr[Field(op.word, 0, 3) + 1], Kw("+=")>>
<1>1. /\ op.name \notin DOMAIN Loads
      /\ op.name \notin DOMAIN Stores
      /\ op.name \notin DOMAIN Arithmetic
      /\ op.name \notin DOMAIN ArgumentReg
  BY ProgramNames
<1>2. /\ op.name # "MIN" /\ op.name # "Jcc" /\ op.name # "SKP" /\ op.name # "RADD_CLD"
      /\ op.name # "MON" /\ op.name # "shift"
  BY ProgramNames
<1>3. op.type # "JMP" /\ op.type # "CALL" /\ op.type # "RET"
  BY ProgramNames DEF Sorted, ByType
<1>4. QED
  BY <1>1, <1>2, <1>3, Zenon DEF Esil

LEMMA EsilMove ==
  ASSUME NEW op, Sorted(op), op.name = "RADD_CLD"
  PROVE  Esil(op) = <<sr[Field(op.word, 3, 3) + 1], sr[Field(op.word, 0, 3) + 1], Kw("="),
                       Num(0), sr[Field(op.word, 3, 3) + 1], Kw("=")>>
<1>1. /\ op.name \notin DOMAIN Loads
      /\ op.name \notin DOMAIN Stores
      /\ op.name \notin DOMAIN Arithmetic
      /\ op.name \notin DOMAIN ArgumentReg
  BY ProgramNames
<1>2. /\ op.name # "MIN" /\ op.name # "Jcc" /\ op.name # "SKP" /\ op.name # "RADD"
      /\ op.name # "MON" /\ op.name # "shift"
  BY ProgramNames
<1>3. op.type # "JMP" /\ op.type # "CALL" /\ op.type # "RET"
  BY ProgramNames DEF Sorted, ByType
<1>4. QED
  BY <1>1, <1>2, <1>3, Zenon DEF Esil

LEMMA EsilMon ==
  ASSUME NEW op, Sorted(op), op.name = "MON"
  PROVE  Esil(op) = <<Num(op.val), Kw("TRAP")>>
<1>1. /\ op.name \notin DOMAIN Loads
      /\ op.name \notin DOMAIN Stores
      /\ op.name \notin DOMAIN Arithmetic
      /\ op.name \notin DOMAIN ArgumentReg
  BY ProgramNames
<1>2. /\ op.name # "MIN" /\ op.name # "Jcc" /\ op.name # "SKP" /\ op.name # "RADD"
      /\ op.name # "RADD_CLD" /\ op.name # "shift"
  BY ProgramNames
<1>3. op.type # "JMP" /\ op.type # "CALL" /\ op.type # "RET"
  BY ProgramNames DEF Sorted, ByType
<1>4. QED
  BY <1>1, <1>2, <1>3, Zenon DEF Esil

LEMMA EsilRight ==
  ASSUME NEW op, Sorted(op), op.name = "shift", Field(op.word, 7, 2) = 0, op.type = "SHR"
  PROVE  Esil(op) = <<Num(64 - (op.word % 64)), Kw("a"), Kw(">>=")>>
<1>1. /\ op.name \notin DOMAIN Loads
      /\ op.name \notin DOMAIN Stores
      /\ op.name \notin DOMAIN Arithmetic
      /\ op.name \notin DOMAIN ArgumentReg
  BY ProgramNames
<1>2. /\ op.name # "MIN" /\ op.name # "Jcc" /\ op.name # "SKP" /\ op.name # "RADD"
      /\ op.name # "RADD_CLD" /\ op.name # "MON"
  BY ProgramNames
<1>3. op.type # "JMP" /\ op.type # "CALL" /\ op.type # "RET"
  BY ProgramNames DEF Sorted, ByType
<1>4. QED
  BY <1>1, <1>2, <1>3, Zenon DEF Esil

LEMMA EsilLeft ==
  ASSUME NEW op, Sorted(op), op.name = "shift", Field(op.word, 7, 2) = 0, op.type # "SHR"
  PROVE  Esil(op) = <<Num(op.word % 64), Kw("a"), Kw("<<=")>>
<1>1. /\ op.name \notin DOMAIN Loads
      /\ op.name \notin DOMAIN Stores
      /\ op.name \notin DOMAIN Arithmetic
      /\ op.name \notin DOMAIN ArgumentReg
  BY ProgramNames
<1>2. /\ op.name # "MIN" /\ op.name # "Jcc" /\ op.name # "SKP" /\ op.name # "RADD"
      /\ op.name # "RADD_CLD" /\ op.name # "MON"
  BY ProgramNames
<1>3. op.type # "JMP" /\ op.type # "CALL" /\ op.type # "RET"
  BY ProgramNames DEF Sorted, ByType
<1>4. QED
  BY <1>1, <1>2, <1>3, Zenon DEF Esil

LEMMA EsilJump ==
  ASSUME NEW op, Sorted(op), op.type = "JMP"
  PROVE  Esil(op) = Goto(op.jump)
<1>1. /\ op.name \notin DOMAIN Loads
      /\ op.name \notin DOMAIN Stores
      /\ op.name \notin DOMAIN Arithmetic
      /\ op.name \notin DOMAIN ArgumentReg
  BY ProgramNames DEF Sorted, ByType
<1>2. /\ op.name # "MIN" /\ op.name # "Jcc" /\ op.name # "SKP" /\ op.name # "RADD"
      /\ op.name # "RADD_CLD" /\ op.name # "MON" /\ op.name # "shift"
  BY ProgramNames DEF Sorted, ByType
<1>3. op.type # "CALL" /\ op.type # "RET"
  BY ProgramNames DEF Sorted, ByType
<1>4. QED
  BY <1>1, <1>2, <1>3, Zenon DEF Esil

LEMMA EsilCall ==
  ASSUME NEW op, Sorted(op), op.type = "CALL"
  PROVE  Esil(op) = Kws(<<"pc", "l", "=">>) \o Goto(op.jump)
<1>1. /\ op.name \notin DOMAIN Loads
      /\ op.name \notin DOMAIN Stores
      /\ op.name \notin DOMAIN Arithmetic
      /\ op.name \notin DOMAIN ArgumentReg
  BY ProgramNames DEF Sorted, ByType
<1>2. /\ op.name # "MIN" /\ op.name # "Jcc" /\ op.name # "SKP" /\ op.name # "RADD"
      /\ op.name # "RADD_CLD" /\ op.name # "MON" /\ op.name # "shift"
  BY ProgramNames DEF Sorted, ByType
<1>3. op.type # "JMP" /\ op.type # "RET"
  BY ProgramNames DEF Sorted, ByType
<1>4. QED
  BY <1>1, <1>2, <1>3, Zenon DEF Esil

LEMMA EsilReturn ==
  ASSUME NEW op, Sorted(op), op.type = "RET"
  PROVE  Esil(op) = Kws(<<"l", "pc", "=">>)
<1>1. /\ op.name \notin DOMAIN Loads
      /\ op.name \notin DOMAIN Stores
      /\ op.name \notin DOMAIN Arithmetic
      /\ op.name \notin DOMAIN ArgumentReg
  BY ProgramNames DEF Sorted, ByType
<1>2. /\ op.name # "MIN" /\ op.name # "Jcc" /\ op.name # "SKP" /\ op.name # "RADD"
      /\ op.name # "RADD_CLD" /\ op.name # "MON" /\ op.name # "shift"
  BY ProgramNames DEF Sorted, ByType
<1>3. op.type # "JMP" /\ op.type # "CALL"
  BY ProgramNames DEF Sorted, ByType
<1>4. QED
  BY <1>1, <1>2, <1>3, Zenon DEF Esil

HasGuard(op) ==
  \/ op.name \in DOMAIN Loads \cup DOMAIN Stores \cup DOMAIN Arithmetic \cup DOMAIN ArgumentReg
  \/ op.name \in {"MIN", "Jcc", "SKP", "RADD", "RADD_CLD", "MON"}
  \/ op.name = "shift" /\ Field(op.word, 7, 2) = 0
  \/ op.type \in ByType

LEMMA EsilNone ==
  ASSUME NEW op, ~HasGuard(op)
  PROVE  Esil(op) = <<>>
BY Zenon DEF Esil, HasGuard, ByType

LEMMA SixConcat ==
  \A a, b, c, d, e, f : <<a, b, c>> \o <<d, e, f>> = <<a, b, c, d, e, f>>
<1> TAKE a, b, c, d, e, f
<1> DEFINE S == {a, b, c, d, e, f}
           s == <<a, b, c>>
           t == <<d, e, f>>
           v == <<a, b, c, d, e, f>>
<1>1. /\ s \in Seq(S) /\ Len(s) = 3 /\ s[1] = a /\ s[2] = b /\ s[3] = c
      /\ t \in Seq(S) /\ Len(t) = 3 /\ t[1] = d /\ t[2] = e /\ t[3] = f
      /\ v \in Seq(S) /\ Len(v) = 6
      /\ v[1] = a /\ v[2] = b /\ v[3] = c /\ v[4] = d /\ v[5] = e /\ v[6] = f
  OBVIOUS
<1> HIDE DEF S, s, t, v
<1>2. /\ s \o t \in Seq(S) /\ Len(s \o t) = 6
      /\ \A i \in 1 .. 6 : (s \o t)[i] = IF i <= 3 THEN s[i] ELSE t[i - 3]
  <2>1. /\ s \o t \in Seq(S) /\ Len(s \o t) = Len(s) + Len(t)
        /\ \A i \in 1 .. Len(s) + Len(t) : (s \o t)[i] = IF i <= Len(s) THEN s[i] ELSE t[i - Len(s)]
    BY <1>1, ConcatProperties, Zenon
  <2>2. Len(s) + Len(t) = 6
    BY <1>1
  <2>3. QED
    BY <1>1, <2>1, <2>2
<1>3. /\ (s \o t)[1] = s[1] /\ (s \o t)[2] = s[2] /\ (s \o t)[3] = s[3]
      /\ (s \o t)[4] = t[1] /\ (s \o t)[5] = t[2] /\ (s \o t)[6] = t[3]
  BY <1>2
<1>4. \A i \in 1 .. 6 : (s \o t)[i] = v[i]
  <2>1. \A i \in 1 .. 6 : i = 1 \/ i = 2 \/ i = 3 \/ i = 4 \/ i = 5 \/ i = 6
    OBVIOUS
  <2>2. QED
    BY <1>1, <1>3, <2>1, Zenon
<1>5. s \o t = v
  BY <1>1, <1>2, <1>4, SeqEqual
<1>6. QED
  BY <1>5 DEF s, t, v

LEMMA ProgramTables ==
  /\ \A n \in DOMAIN Loads : Loads[n] \in RegNames \ {"pc"}
  /\ \A n \in DOMAIN Stores : Operand(Stores[n])
  /\ \A n \in DOMAIN Arithmetic :
       Arithmetic[n] \in Assignments /\ Arithmetic[n] \notin {"<<=", ">>="}
  /\ \A n \in DOMAIN ArgumentReg : ArgumentReg[n] \in RegNames \ {"pc"}
<1>1. \A n \in DOMAIN Loads : Loads[n] \in RegNames \ {"pc"}
  BY DEF Loads, RegNames
<1>2. \A n \in DOMAIN Stores : Operand(Stores[n])
  <2>1. Operand(Num(0)) /\ Operand(Kw("a")) /\ Operand(Kw("t")) /\ Operand(Kw("x")) /\ Operand(Kw("d"))
    <3>1. "a" \in RegNames /\ "t" \in RegNames /\ "x" \in RegNames /\ "d" \in RegNames /\ 0 \in Int
      BY DEF RegNames
    <3>2. QED
      BY <3>1, OperandReg, OperandNum
  <2>2. \A n \in DOMAIN Stores : Stores[n] \in {Num(0), Kw("a"), Kw("t"), Kw("x"), Kw("d")}
    BY DEF Stores
  <2>3. QED
    BY <2>1, <2>2
<1>3. \A n \in DOMAIN Arithmetic :
        Arithmetic[n] \in Assignments /\ Arithmetic[n] \notin {"<<=", ">>="}
  BY DEF Arithmetic, Assignments
<1>4. \A n \in DOMAIN ArgumentReg : ArgumentReg[n] \in RegNames \ {"pc"}
  BY DEF ArgumentReg, RegNames
<1>5. QED
  BY <1>1, <1>2, <1>3, <1>4

(* The addressing of an operation, and its two register fields.               *)
LEMMA OperandPushes ==
  ASSUME NEW w \in Nat, NEW r \in Regs, NEW mm \in Images
  PROVE  Pushes(esil_mem_ea(Signed(w % 256), Mode(w)), r, mm)
<1>1. Signed(w % 256) \in Int
  BY DEF Signed
<1>2. QED
  BY <1>1, AddressPushes

(* The ESIL text nd100_op writes (128-1015), for every word, every content of *)
(* the registers and every image: run from its start, whatever the stack, the *)
(* last comparison and the carry, it leaves a word in each register and the   *)
(* image where and as long as it was, and pc where the operation says: at its *)
(* jump, in L, behind it, or for Jcc and SKP at the jump or behind it.        *)
THEOREM EsilEnds ==
  ASSUME NEW op, Sorted(op), op.word \in Nat, op.val \in Int, op.jump \in Int,
         NEW r \in Regs, NEW mm \in Images
  PROVE  Ends(Esil(op), r, mm, Landings(op, r))
<1> DEFINE ea == esil_mem_ea(Signed(op.word % 256), Mode(op.word))
           x == sr[Field(op.word, 0, 3) + 1]
           y == sr[Field(op.word, 3, 3) + 1]
           straight == /\ op.type \notin ByType
                       /\ op.name \notin {"Jcc", "SKP"}
<1>1. Pushes(ea, r, mm)
  BY OperandPushes
<1>2. Named8(x) /\ Named8(y) /\ Operand(y)
  BY FieldRange, RegisterTable, Named8Operand
<1>3. straight => Landings(op, r) = {r.pc}
  BY DEF Landings, ByType
<1> HIDE DEF ea, x, y
<1>4. CASE op.name \in DOMAIN Loads
  <2>1. Esil(op) = At(ea) \o Kws(<<"[2]", Loads[op.name], "=">>)
    BY <1>4, EsilLoad DEF esil_load, ea
  <2>2. straight
    BY <1>4, ProgramNames DEF Sorted, ByType
  <2>3. "=" \in Assignments /\ "=" \notin {"<<=", ">>="} /\ Loads[op.name] \in RegNames \ {"pc"}
    BY <1>4, ProgramTables DEF Assignments
  <2>4. Ends(At(ea) \o Kws(<<"[2]", Loads[op.name], "=">>), r, mm, {r.pc})
    BY <1>1, <2>3, EndsApply
  <2>5. QED
    BY <1>3, <2>1, <2>2, <2>4
<1>5. CASE op.name \in DOMAIN Stores
  <2>1. Esil(op) = esil_store(ea, Stores[op.name])
    BY <1>5, EsilStore DEF ea
  <2>2. straight
    BY <1>5, ProgramNames DEF Sorted, ByType
  <2>3. Operand(Stores[op.name])
    BY <1>5, ProgramTables
  <2>4. Ends(esil_store(ea, Stores[op.name]), r, mm, {r.pc})
    BY <1>1, <2>3, EndsStore
  <2>5. QED
    BY <1>3, <2>1, <2>2, <2>4
<1>6. CASE op.name \in DOMAIN Arithmetic
  <2>1. Esil(op) = At(ea) \o Kws(<<"[2]", "a", Arithmetic[op.name]>>)
    BY <1>6, EsilArithmetic DEF Apply, ea
  <2>2. straight
    BY <1>6, ProgramNames DEF Sorted, ByType
  <2>3. "a" \in RegNames \ {"pc"}
    BY DEF RegNames
  <2>4. Arithmetic[op.name] \in Assignments /\ Arithmetic[op.name] \notin {"<<=", ">>="}
    BY <1>6, ProgramTables
  <2>5. Ends(At(ea) \o Kws(<<"[2]", "a", Arithmetic[op.name]>>), r, mm, {r.pc})
    BY <1>1, <2>3, <2>4, EndsApply
  <2>6. QED
    BY <1>3, <2>1, <2>2, <2>5
<1>7. CASE op.name = "MIN"
  <2>1. Esil(op) = Increment(ea)
    BY <1>7, EsilMin DEF ea
  <2>2. straight
    BY <1>7 DEF Sorted, ByType
  <2>3. Ends(Increment(ea), r, mm, {r.pc})
    BY <1>1, EndsIncrement
  <2>4. QED
    BY <1>3, <2>1, <2>2, <2>3
<1>8. CASE op.type = "JMP"
  <2>1. Esil(op) = Goto(op.jump)
    BY <1>8, EsilJump
  <2>2. Landings(op, r) = {op.jump % 65536}
    BY <1>8 DEF Landings, ByType
  <2>3. QED
    BY <2>1, <2>2, EndsGoto
<1>9. CASE op.name = "Jcc"
  <2>1. Esil(op) = If(JumpTest(Mode(op.word)), op.jump)
    BY <1>9, EsilJcc
  <2>2. Landings(op, r) = {op.jump % 65536, r.pc}
    BY <1>9 DEF Landings, ByType, Sorted
  <2>3. Tests(JumpTest(Mode(op.word)), r, mm)
    BY FieldRange, JumpTests
  <2>4. QED
    BY <2>1, <2>2, <2>3, EndsIf
<1>10. CASE op.type = "CALL"
  <2>1. Esil(op) = Kws(<<"pc", "l", "=">>) \o Goto(op.jump)
    BY <1>10, EsilCall
  <2>2. Landings(op, r) = {op.jump % 65536}
    BY <1>10 DEF Landings, ByType
  <2>3. QED
    BY <2>1, <2>2, EndsCall
<1>11. CASE op.type = "RET"
  <2>1. Esil(op) = Kws(<<"l", "pc", "=">>)
    BY <1>11, EsilReturn
  <2>2. Landings(op, r) = {r.l}
    BY <1>11 DEF Landings, ByType
  <2>3. QED
    BY <2>1, <2>2, EndsReturn
<1>12. CASE op.name = "SKP"
  <2>1. Esil(op) = If(SkipTest(op.word), op.jump)
    BY <1>12, EsilSkp
  <2>2. Landings(op, r) = {op.jump % 65536, r.pc}
    BY <1>12 DEF Landings, ByType, Sorted
  <2>3. Tests(SkipTest(op.word), r, mm)
    BY SkipTests
  <2>4. QED
    BY <2>1, <2>2, <2>3, EndsIf
<1>13. CASE op.name = "RADD"
  <2>1. Esil(op) = <<y, x, Kw("+=")>>
    BY <1>13, EsilRadd DEF x, y
  <2>2. straight
    BY <1>13 DEF Sorted, ByType
  <2>3. "+=" \in Assignments /\ "+=" \notin {"<<=", ">>="}
    BY DEF Assignments
  <2>4. Ends(<<y, x, Kw("+=")>>, r, mm, {r.pc})
    BY <1>2, <2>3, EndsSet DEF Named8
  <2>5. QED
    BY <1>3, <2>1, <2>2, <2>4
<1>14. CASE op.name = "RADD_CLD"
  <2>1. Esil(op) = <<y, x, Kw("="), Num(0), y, Kw("=")>>
    BY <1>14, EsilMove DEF x, y
  <2>2. straight
    BY <1>14 DEF Sorted, ByType
  <2>3. Ends(<<y, x, Kw("=")>> \o <<Num(0), y, Kw("=")>>, r, mm, {r.pc})
    BY <1>2, EndsMove
  <2>4. Esil(op) = <<y, x, Kw("=")>> \o <<Num(0), y, Kw("=")>>
    BY <2>1, SixConcat
  <2>5. QED
    BY <1>3, <2>2, <2>3, <2>4
<1>15. CASE op.name = "MON"
  <2>1. Esil(op) = <<Num(op.val), Kw("TRAP")>>
    BY <1>15, EsilMon
  <2>2. straight
    BY <1>15 DEF Sorted, ByType
  <2>3. QED
    BY <1>3, <2>1, <2>2, EndsTrap
<1>16. CASE op.name = "shift" /\ Field(op.word, 7, 2) = 0
  <2> DEFINE n == op.word % 64
  <2>1. n \in Nat /\ n <= 63
    OBVIOUS
  <2>2. straight
    BY <1>16 DEF Sorted, ByType
  <2>3. /\ ">>=" \in Assignments /\ "<<=" \in Assignments
        /\ \E g \in RegNames \ {"pc"} : Kw("a") = Kw(g)
    BY DEF Assignments, RegNames
  <2>4. \A i \in Int : Value(Num(i), r) = i /\ Operand(Num(i))
    BY OperandNum DEF Value, Num
  <2>5. CASE op.type = "SHR"
    <3>1. Esil(op) = <<Num(64 - n), Kw("a"), Kw(">>=")>>
      BY <1>16, <2>5, EsilRight
    <3> HIDE DEF n
    <3>2. 64 - n \in Nat
      BY <2>1
    <3> DEFINE k == 64 - n
    <3>3. Value(Num(k), r) \in Nat /\ Operand(Num(k))
      BY <2>4, <3>2
    <3> HIDE DEF k
    <3>4. Ends(<<Num(k), Kw("a"), Kw(">>=")>>, r, mm, {r.pc})
      BY <2>3, <3>3, EndsSet
    <3>5. QED
      BY <1>3, <2>2, <3>1, <3>4 DEF k
  <2>6. CASE op.type # "SHR"
    <3>1. Esil(op) = <<Num(n), Kw("a"), Kw("<<=")>>
      BY <1>16, <2>6, EsilLeft
    <3> HIDE DEF n
    <3>2. Value(Num(n), r) \in Nat /\ Operand(Num(n))
      BY <2>1, <2>4
    <3>3. Ends(<<Num(n), Kw("a"), Kw("<<=")>>, r, mm, {r.pc})
      BY <2>3, <3>2, EndsSet
    <3>4. QED
      BY <1>3, <2>2, <3>1, <3>3
  <2>7. QED
    BY <2>5, <2>6
<1>17. CASE op.name \in DOMAIN ArgumentReg
  <2> DEFINE g == ArgumentReg[op.name]
             how == IF op.type = "MOV" THEN "=" ELSE "+="
  <2>1. Esil(op) = <<Num(op.val), Kw(g), Kw(how)>>
    BY <1>17, EsilArgument
  <2>2. straight
    BY <1>17, ProgramNames DEF Sorted, ByType
  <2>3. g \in RegNames \ {"pc"}
    BY <1>17, ProgramTables
  <2>4. how \in Assignments /\ how \notin {"<<=", ">>="} /\ Operand(Num(op.val))
    BY OperandNum DEF Assignments
  <2> HIDE DEF g, how
  <2>5. Ends(<<Num(op.val), Kw(g), Kw(how)>>, r, mm, {r.pc})
    BY <2>3, <2>4, EndsSet
  <2>6. QED
    BY <1>3, <2>1, <2>2, <2>5
<1>18. CASE ~HasGuard(op)
  <2>1. Esil(op) = <<>>
    BY <1>18, EsilNone
  <2>2. straight
    BY <1>18 DEF HasGuard, ByType
  <2>3. QED
    BY <1>3, <2>1, <2>2, EndsEmpty
<1> HIDE DEF straight
<1>19. QED
  BY <1>4, <1>5, <1>6, <1>7, <1>8, <1>9, <1>10, <1>11, <1>12, <1>13, <1>14, <1>15, <1>16, <1>17,
     <1>18 DEF HasGuard, ByType
=============================================================================
