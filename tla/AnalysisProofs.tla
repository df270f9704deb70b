--------------------------- MODULE AnalysisProofs ---------------------------
(***************************************************************************)
(* Theorems about nd100_op for every address, every run of bytes and both  *)
(* byte orders: where the targets it reports can lie.                      *)
(***************************************************************************)
EXTENDS Nd100Analysis, SequenceTheorems, NumberFacts, TLAPS

\* The byte addresses of 64K words.
InSpace(a) == a \in Nat /\ a < 131072

(* branch_target (120-126): whatever the offset, a target is an even address  *)
(* in the space; one that needs neither the clamp nor the wrap is where the   *)
(* offset says.                                                               *)
THEOREM BranchTargetInSpace ==
  ASSUME NEW addr, InSpace(addr), NEW offset \in Int, -128 <= offset, offset < 128
  PROVE  /\ InSpace(branch_target(addr, offset))
         /\ branch_target(addr, offset) % 2 = 0
         /\ (addr % 2 = 0 /\ InSpace(addr + 2 * offset))
            => branch_target(addr, offset) = addr + 2 * offset
<1> DEFINE t == addr + 2 * offset
<1>1. t \in Int
  BY DEF InSpace
<1>2. ASSUME NEW n \in Int, n >= 0
      PROVE  /\ InSpace(2 * ((n % 131072) \div 2))
             /\ (2 * ((n % 131072) \div 2)) % 2 = 0
             /\ (n < 131072 /\ n % 2 = 0) => 2 * ((n % 131072) \div 2) = n
  <2> DEFINE k == n % 131072
  <2>1. k \in Nat /\ k < 131072
    BY <1>2
  <2>2. n < 131072 => k = n
    BY <1>2
  <2> HIDE DEF k
  <2>3. /\ k \div 2 \in Nat /\ 2 * (k \div 2) <= k
        /\ k % 2 = 0 => 2 * (k \div 2) = k
    BY <2>1
  <2>4. \A m \in Nat : (2 * m) % 2 = 0
    OBVIOUS
  <2>5. /\ InSpace(2 * (k \div 2))
        /\ (2 * (k \div 2)) % 2 = 0
        /\ (n < 131072 /\ n % 2 = 0) => 2 * (k \div 2) = n
    BY <2>1, <2>2, <2>3, <2>4 DEF InSpace
  <2>6. QED
    BY <2>5 DEF k
<1>3. addr % 2 = 0 => t % 2 = 0
  BY DEF InSpace
<1>4. CASE t < 0
  BY <1>4 DEF branch_target, InSpace
<1>5. CASE t >= 0
  <2>1. branch_target(addr, offset) = 2 * ((t % 131072) \div 2)
    BY <1>1, <1>5 DEF branch_target
  <2> HIDE DEF t
  <2>2. InSpace(t) => t < 131072
    BY DEF InSpace
  <2>3. QED
    BY <1>1, <1>2, <1>3, <1>5, <2>1, <2>2 DEF t
<1>6. QED
  BY <1>1, <1>4, <1>5

(* A byte read as a signed number is a branch offset.                         *)
LEMMA SignedRange ==
  ASSUME NEW w \in Int
  PROVE  Signed(w % 256) \in Int /\ -128 <= Signed(w % 256) /\ Signed(w % 256) < 128
<1>1. w % 256 \in Int /\ 0 <= w % 256 /\ w % 256 < 256
  OBVIOUS
<1>2. QED
  BY <1>1 DEF Signed

(* A target is reported past the end of the space by no more than an INIT is  *)
(* long.                                                                      *)
Reachable(t) == t \in Int /\ UNSET <= t /\ t <= 131072 + MAX_OP_SIZE

LEMMA JumpReachable ==
  ASSUME NEW row, NEW w \in Int, NEW addr, InSpace(addr)
  PROVE  Reachable(JumpOf(row, w, addr))
<1>1. InSpace(branch_target(addr, Signed(w % 256)))
  BY SignedRange, BranchTargetInSpace
<1>2. row.name \in DOMAIN Frame => Frame[row.name].jump \in {6, 14}
  BY DEF Frame
<1>3. QED
  BY <1>1, <1>2 DEF InSpace, JumpOf, Reachable, UNSET, MAX_OP_SIZE

LEMMA FailReachable ==
  ASSUME NEW row, NEW addr, InSpace(addr)
  PROVE  Reachable(FailOf(row, addr))
<1>1. row.name \in DOMAIN Frame => Frame[row.name].fail \in {4, 12}
  BY DEF Frame
<1>2. QED
  BY <1>1 DEF InSpace, FailOf, Reachable, UNSET, MAX_OP_SIZE

LEMMA ByteIsNat == \A b \in 0 .. 255 : b \in Nat
OBVIOUS

(* nd100_op (128-1015): from an address in the space, whatever the bytes and  *)
(* their order, each target is unset or at most an INIT past the space, and   *)
(* never a negative number taken for a huge one; the operation is one word,   *)
(* an ENTR with its operand or an INIT with its six, and as long as the bytes *)
(* at hand or shorter.                                                        *)
THEOREM TargetsReachable ==
  ASSUME NEW addr, InSpace(addr), NEW data \in Seq(0 .. 255),
         NEW big_endian \in BOOLEAN, Len(data) >= 2
  PROVE  LET op == nd100_op(addr, data, big_endian) IN
         /\ Reachable(op.jump) /\ Reachable(op.fail)
         /\ op.size \in {2, 4, 14} /\ op.size <= Len(data)
<1> DEFINE w == FromBytes(data, big_endian)
           row == RowOf(w)
           op == [name |-> row.name, type |-> row.type, family |-> row.family,
                  size |-> MIN_OP_SIZE, jump |-> JumpOf(row, w, addr),
                  fail |-> FailOf(row, addr), cond |-> CondOf(row, w),
                  eob |-> EndsBlock(row, w), stack |-> StackOf(row, w),
                  val |-> ValOf(row, w), word |-> w]
           out == CASE row.name = "shift" /\ Field(w, 5, 1) = 1 -> [op EXCEPT !.type = "SHR"]
                    [] row.name \in DOMAIN Frame /\ Len(data) < Frame[row.name].size ->
                         [op EXCEPT !.type = "UNK", !.jump = UNSET, !.fail = UNSET,
                                    !.stack = <<"NULL", 0>>]
                    [] row.name \in DOMAIN Frame /\ Len(data) >= Frame[row.name].size ->
                         [op EXCEPT !.size = Frame[row.name].size]
                    [] OTHER -> op
<1>1. w \in Int
  <2>1. data[1] \in 0 .. 255 /\ data[2] \in 0 .. 255
    <3>1. Len(data) \in Nat /\ 1 \in 1 .. Len(data) /\ 2 \in 1 .. Len(data)
      OBVIOUS
    <3>2. QED
      BY <3>1, ElementOfSeq
  <2>2. data[1] \in Nat /\ data[2] \in Nat
    BY <2>1, ByteIsNat, Zenon
  <2>3. \A a, b \in Nat : 256 * a + b \in Int /\ a + 256 * b \in Int
    OBVIOUS
  <2>4. QED
    BY <2>2, <2>3 DEF FromBytes
<1>2. nd100_op(addr, data, big_endian) = out
  BY DEF nd100_op
<1> HIDE DEF w
<1>3. Len(data) \in Nat
  OBVIOUS
<1>4. /\ op.size = 2
      /\ Reachable(op.jump) /\ Reachable(op.fail)
  <2>1. op.size = MIN_OP_SIZE /\ op.jump = JumpOf(row, w, addr) /\ op.fail = FailOf(row, addr)
    OBVIOUS
  <2> HIDE DEF op, row
  <2>2. Reachable(JumpOf(row, w, addr)) /\ Reachable(FailOf(row, addr))
    BY <1>1, JumpReachable, FailReachable
  <2>3. QED
    BY <2>1, <2>2 DEF MIN_OP_SIZE
<1>5. \A n \in DOMAIN Frame : Frame[n].size \in {4, 14}
  BY DEF Frame
<1>6. Reachable(UNSET)
  BY DEF Reachable, UNSET, MAX_OP_SIZE
<1> HIDE DEF row
<1>7. CASE row.name = "shift" /\ Field(w, 5, 1) = 1
  <2>1. out.jump = op.jump /\ out.fail = op.fail /\ out.size = op.size
    BY <1>7 DEF Frame
  <2>2. QED
    BY <1>2, <1>3, <1>4, <2>1
<1>8. CASE ~(row.name = "shift" /\ Field(w, 5, 1) = 1) /\ row.name \in DOMAIN Frame /\ Len(data) < Frame[row.name].size
  <2>1. out.jump = UNSET /\ out.fail = UNSET /\ out.size = op.size
    BY <1>8, <1>3, <1>5
  <2>2. QED
    BY <1>2, <1>3, <1>4, <1>6, <2>1
<1>9. CASE ~(row.name = "shift" /\ Field(w, 5, 1) = 1) /\ row.name \in DOMAIN Frame /\ Len(data) >= Frame[row.name].size
  <2>1. out.jump = op.jump /\ out.fail = op.fail /\ out.size = Frame[row.name].size
    BY <1>9, <1>3, <1>5
  <2>2. QED
    BY <1>2, <1>3, <1>4, <1>5, <1>9, <2>1
<1>10. CASE ~(row.name = "shift" /\ Field(w, 5, 1) = 1) /\ row.name \notin DOMAIN Frame
  <2>1. out = op
    BY <1>10
  <2>2. QED
    BY <1>2, <1>3, <1>4, <2>1
<1>11. QED
  <2>1. row.name \in DOMAIN Frame =>
          (Len(data) < Frame[row.name].size \/ Len(data) >= Frame[row.name].size)
    BY <1>3, <1>5
  <2>2. QED
    BY <1>7, <1>8, <1>9, <1>10, <2>1

-----------------------------------------------------------------------------
\* The rows of nd100_op.

\* Only a jump, a call and a return are known by their type.
ByType == {"JMP", "CALL", "RET"}
Sorted(op) == op.type \in ByType => op.name \in {"JMP", "JPL", "LEAVE", "ELEAV", "EXIT"}

\* What the names and the types of the rows have to do with each other.
Regular(row) ==
  /\ Sorted(row) /\ row.type # "ILL"
  /\ row.name \in {"Jcc", "SKP", "ENTR", "INIT"} => row.type = "CJMP"
  /\ row.name = "JMP" <=> row.type \in {"JMP", "MJMP"}
  /\ row.name = "MON" => row.type = "SWI"
  /\ row.name = "shift" => row.type = "SHL"
  /\ row.name = "WAIT" => row.low = 8 /\ row.at = \hD200

\* A table of n rows, and the rows of all tables.
IsTable(T, n) == T = [i \in 1 .. n |-> T[i]]
SkipHead == [c \in 1 .. 8 |-> Row("SKP", 6, \hC000 + 256 * (c - 1), "CJMP", "CPU")]
SkipTail == <<Row("decimal", 3, \hC050, "CJMP", "CPU"), Row("TSETP", 0, \hC14E, "CJMP", "CPU"),
              Row("RDUSP", 0, \hC14F, "CJMP", "CPU")>>
Tables == {MemoryRows, ArithmeticRows, BranchRows, FrameRows, SkipHead, SkipTail, RopRows,
           ByteRows, SystemRows, ShiftAndIoRows, ArgumentRows, BitRows}
RegularRows == {row \in {T[i] : T \in Tables, i \in Nat} : Regular(row)}
EarlyRows == {row \in RegularRows : row.name # "WAIT"}

LEMMA TablesAre ==
  /\ IsTable(MemoryRows, 12) /\ IsTable(ArithmeticRows, 9) /\ IsTable(BranchRows, 6)
  /\ IsTable(FrameRows, 5) /\ IsTable(SkipHead, 8) /\ IsTable(SkipTail, 3) /\ IsTable(RopRows, 18)
  /\ IsTable(ByteRows, 10) /\ IsTable(SystemRows, 24) /\ IsTable(ShiftAndIoRows, 3)
  /\ IsTable(ArgumentRows, 8) /\ IsTable(BitRows, 4)
<1>1. IsTable(MemoryRows, 12) /\ IsTable(ArithmeticRows, 9) /\ IsTable(BranchRows, 6)
  BY DEF IsTable, MemoryRows, ArithmeticRows, BranchRows
<1>2. IsTable(FrameRows, 5) /\ IsTable(SkipHead, 8) /\ IsTable(SkipTail, 3) /\ IsTable(RopRows, 18)
  BY DEF IsTable, FrameRows, SkipHead, SkipTail, RopRows
<1>3. IsTable(ByteRows, 10) /\ IsTable(SystemRows, 24) /\ IsTable(ShiftAndIoRows, 3)
  BY DEF IsTable, ByteRows, SystemRows, ShiftAndIoRows
<1>4. IsTable(ArgumentRows, 8) /\ IsTable(BitRows, 4)
  BY DEF IsTable, ArgumentRows, BitRows
<1>5. QED
  BY <1>1, <1>2, <1>3, <1>4

LEMMA EarlyTables ==
  /\ \A i \in 1 .. 12 : Regular(MemoryRows[i]) /\ MemoryRows[i].name # "WAIT"
  /\ \A i \in 1 .. 9 : Regular(ArithmeticRows[i]) /\ ArithmeticRows[i].name # "WAIT"
  /\ \A i \in 1 .. 6 : Regular(BranchRows[i]) /\ BranchRows[i].name # "WAIT"
  /\ \A i \in 1 .. 5 : Regular(FrameRows[i]) /\ FrameRows[i].name # "WAIT"
  /\ \A i \in 1 .. 8 : Regular(SkipHead[i]) /\ SkipHead[i].name # "WAIT"
  /\ \A i \in 1 .. 3 : Regular(SkipTail[i]) /\ SkipTail[i].name # "WAIT"
  /\ \A i \in 1 .. 18 : Regular(RopRows[i]) /\ RopRows[i].name # "WAIT"
<1>1. \A i \in 1 .. 12 : Regular(MemoryRows[i]) /\ MemoryRows[i].name # "WAIT"
  BY DEF MemoryRows, Regular, Sorted, ByType, Row
<1>2. \A i \in 1 .. 9 : Regular(ArithmeticRows[i]) /\ ArithmeticRows[i].name # "WAIT"
  BY DEF ArithmeticRows, Regular, Sorted, ByType, Row
<1>3. \A i \in 1 .. 6 : Regular(BranchRows[i]) /\ BranchRows[i].name # "WAIT"
  BY DEF BranchRows, Regular, Sorted, ByType, Row
<1>4. \A i \in 1 .. 5 : Regular(FrameRows[i]) /\ FrameRows[i].name # "WAIT"
  BY DEF FrameRows, Regular, Sorted, ByType, Row
<1>5. \A i \in 1 .. 8 : Regular(SkipHead[i]) /\ SkipHead[i].name # "WAIT"
  BY DEF SkipHead, Regular, Sorted, ByType, Row
<1>6. \A i \in 1 .. 3 : Regular(SkipTail[i]) /\ SkipTail[i].name # "WAIT"
  BY DEF SkipTail, Regular, Sorted, ByType, Row
<1>7. \A i \in 1 .. 18 : Regular(RopRows[i]) /\ RopRows[i].name # "WAIT"
  BY DEF RopRows, Regular, Sorted, ByType, Row
<1>8. QED
  BY <1>1, <1>2, <1>3, <1>4, <1>5, <1>6, <1>7

LEMMA LateTables ==
  /\ \A i \in 1 .. 10 : Regular(ByteRows[i])
  /\ \A i \in 1 .. 24 : Regular(SystemRows[i])
  /\ \A i \in 1 .. 3 : Regular(ShiftAndIoRows[i])
  /\ \A i \in 1 .. 8 : Regular(ArgumentRows[i])
  /\ \A i \in 1 .. 4 : Regular(BitRows[i])
<1>1. \A i \in 1 .. 10 : Regular(ByteRows[i])
  BY DEF ByteRows, Regular, Sorted, ByType, Row
<1>2. \A i \in 1 .. 24 : Regular(SystemRows[i])
  BY DEF SystemRows, Regular, Sorted, ByType, Row
<1>3. \A i \in 1 .. 3 : Regular(ShiftAndIoRows[i])
  BY DEF ShiftAndIoRows, Regular, Sorted, ByType, Row
<1>4. \A i \in 1 .. 8 : Regular(ArgumentRows[i])
  BY DEF ArgumentRows, Regular, Sorted, ByType, Row
<1>5. \A i \in 1 .. 4 : Regular(BitRows[i])
  BY DEF BitRows, Regular, Sorted, ByType, Row
<1>6. QED
  BY <1>1, <1>2, <1>3, <1>4, <1>5

\* A sequence of n elements of S.
Rows(s, n, S) == s \in Seq(S) /\ Len(s) = n

SameUpTo(n, s, t) == \A i \in 1 .. n : s[i] = t[i]
Follows(m, n, s, t) == \A i \in m + 1 .. m + n : s[i] = t[i - m]

LEMMA TableSeq ==
  ASSUME NEW T, NEW n \in Nat, IsTable(T, n), NEW S, \A i \in 1 .. n : T[i] \in S
  PROVE  Rows(T, n, S)
BY DEF IsTable, Rows

LEMMA RowsJoin ==
  ASSUME NEW S, NEW s, NEW m \in Nat, Rows(s, m, S), NEW t, NEW n \in Nat, Rows(t, n, S)
  PROVE  Rows(s \o t, m + n, S)
BY ConcatProperties DEF Rows

LEMMA RowsFront ==
  ASSUME NEW S, NEW s, NEW m \in Nat, Rows(s, m, S), NEW t, NEW n \in Nat, Rows(t, n, S)
  PROVE  SameUpTo(m, s \o t, s)
<1>1. s \in Seq(S) /\ t \in Seq(S) /\ Len(s) = m /\ Len(t) = n
  BY DEF Rows
<1>2. \A i \in 1 .. Len(s) + Len(t) : (s \o t)[i] = IF i <= Len(s) THEN s[i] ELSE t[i - Len(s)]
  BY <1>1, ConcatProperties, Zenon
<1>3. \A i \in 1 .. m + n : (s \o t)[i] = IF i <= m THEN s[i] ELSE t[i - m]
  BY <1>1, <1>2
<1>4. \A i \in 1 .. m : i \in 1 .. m + n /\ i <= m
  OBVIOUS
<1>5. QED
  BY <1>3, <1>4 DEF SameUpTo

LEMMA RowsBack ==
  ASSUME NEW S, NEW s, NEW m \in Nat, Rows(s, m, S), NEW t, NEW n \in Nat, Rows(t, n, S)
  PROVE  Follows(m, n, s \o t, t)
<1>1. s \in Seq(S) /\ t \in Seq(S) /\ Len(s) = m /\ Len(t) = n
  BY DEF Rows
<1>2. \A i \in 1 .. Len(s) + Len(t) : (s \o t)[i] = IF i <= Len(s) THEN s[i] ELSE t[i - Len(s)]
  BY <1>1, ConcatProperties, Zenon
<1>3. \A i \in 1 .. m + n : (s \o t)[i] = IF i <= m THEN s[i] ELSE t[i - m]
  BY <1>1, <1>2
<1>4. \A i \in m + 1 .. m + n : i \in 1 .. m + n /\ ~(i <= m)
  OBVIOUS
<1>5. QED
  BY <1>3, <1>4 DEF Follows

\* The rows up to the register operations, none of which is WAIT.
FirstRows == MemoryRows \o ArithmeticRows \o BranchRows \o FrameRows \o SkipRows \o RopRows

LEMMA MemberTables ==
  \A T \in Tables : \A i \in Nat : Regular(T[i]) => T[i] \in RegularRows
BY DEF RegularRows

LEMMA EarlySeqs ==
  /\ Rows(MemoryRows, 12, EarlyRows) /\ Rows(ArithmeticRows, 9, EarlyRows)
  /\ Rows(BranchRows, 6, EarlyRows) /\ Rows(FrameRows, 5, EarlyRows)
  /\ Rows(SkipHead, 8, EarlyRows) /\ Rows(SkipTail, 3, EarlyRows)
  /\ Rows(RopRows, 18, EarlyRows)
<1>1. \A T \in Tables : \A i \in Nat : Regular(T[i]) /\ T[i].name # "WAIT" => T[i] \in EarlyRows
  BY MemberTables DEF EarlyRows
<1>2. ASSUME NEW T \in Tables, NEW n \in Nat, IsTable(T, n),
             \A i \in 1 .. n : Regular(T[i]) /\ T[i].name # "WAIT"
      PROVE  Rows(T, n, EarlyRows)
  <2>1. \A i \in 1 .. n : T[i] \in EarlyRows
    BY <1>1, <1>2
  <2>2. QED
    BY <1>2, <2>1, TableSeq
<1>3. /\ MemoryRows \in Tables /\ ArithmeticRows \in Tables /\ BranchRows \in Tables
      /\ FrameRows \in Tables /\ SkipHead \in Tables /\ SkipTail \in Tables /\ RopRows \in Tables
  BY DEF Tables
<1>4. QED
  BY <1>2, <1>3, TablesAre, EarlyTables

LEMMA LateSeqs ==
  /\ Rows(ByteRows, 10, RegularRows) /\ Rows(SystemRows, 24, RegularRows)
  /\ Rows(ShiftAndIoRows, 3, RegularRows) /\ Rows(ArgumentRows, 8, RegularRows)
  /\ Rows(BitRows, 4, RegularRows)
<1>1. ASSUME NEW T \in Tables, NEW n \in Nat, IsTable(T, n), \A i \in 1 .. n : Regular(T[i])
      PROVE  Rows(T, n, RegularRows)
  <2>1. \A i \in 1 .. n : T[i] \in RegularRows
    BY <1>1, MemberTables
  <2>2. QED
    BY <1>1, <2>1, TableSeq
<1>2. /\ ByteRows \in Tables /\ SystemRows \in Tables /\ ShiftAndIoRows \in Tables
      /\ ArgumentRows \in Tables /\ BitRows \in Tables
  BY DEF Tables
<1>3. QED
  BY <1>1, <1>2, TablesAre, LateTables

LEMMA FirstSeq == Rows(FirstRows, 61, EarlyRows) /\ FirstRows[58] = RopRows[15]
<1> DEFINE E == EarlyRows
           q2 == MemoryRows \o ArithmeticRows
           q3 == q2 \o BranchRows
           q4 == q3 \o FrameRows
           q5 == q4 \o SkipRows
           q6 == q5 \o RopRows
<1>1. Rows(SkipRows, 11, E)
  <2>1. SkipRows = SkipHead \o SkipTail
    BY DEF SkipRows, SkipHead, SkipTail
  <2>2. Rows(SkipHead \o SkipTail, 8 + 3, E)
    BY EarlySeqs, RowsJoin
  <2>3. QED
    BY <2>1, <2>2
<1>2. Rows(q2, 12 + 9, E)
  BY EarlySeqs, RowsJoin
<1> HIDE DEF q2
<1>3. Rows(q3, 21 + 6, E)
  BY <1>2, EarlySeqs, RowsJoin
<1> HIDE DEF q3
<1>4. Rows(q4, 27 + 5, E)
  BY <1>3, EarlySeqs, RowsJoin
<1> HIDE DEF q4
<1>5. Rows(q5, 32 + 11, E)
  BY <1>1, <1>4, RowsJoin
<1> HIDE DEF q5
<1>6. Rows(q6, 43 + 18, E)
  BY <1>5, EarlySeqs, RowsJoin
<1>7. q6[58] = RopRows[15]
  <2>1. Follows(43, 18, q6, RopRows)
    BY <1>5, EarlySeqs, RowsBack
  <2> HIDE DEF q6
  <2>2. QED
    BY <2>1 DEF Follows
<1>8. FirstRows = q6
  BY DEF FirstRows, q5, q4, q3, q2
<1>9. 43 + 18 = 61
  OBVIOUS
<1>10. QED
  BY <1>6, <1>7, <1>8, <1>9

(* Every row is regular, and WAIT is none of the first ones.                  *)
LEMMA RowsAre ==
  /\ Rows(OpRows, 110, RegularRows)
  /\ SameUpTo(61, OpRows, FirstRows)
  /\ OpRows[110] = BitRows[4]
<1> DEFINE R == RegularRows
           q1 == FirstRows \o ByteRows
           q2 == q1 \o SystemRows
           q3 == q2 \o ShiftAndIoRows
           q4 == q3 \o ArgumentRows
           q5 == q4 \o BitRows
<1>1. Rows(FirstRows, 61, R)
  <2>1. EarlyRows \subseteq R
    BY DEF EarlyRows
  <2>2. QED
    BY <2>1, FirstSeq DEF Rows
<1>2. Rows(q1, 61 + 10, R)
  BY <1>1, LateSeqs, RowsJoin
<1>3. SameUpTo(61, q1, FirstRows)
  BY <1>1, LateSeqs, RowsFront
<1> HIDE DEF q1
<1>4. Rows(q2, 71 + 24, R)
  BY <1>2, LateSeqs, RowsJoin
<1>5. SameUpTo(71, q2, q1)
  BY <1>2, LateSeqs, RowsFront
<1> HIDE DEF q2
<1>6. Rows(q3, 95 + 3, R)
  BY <1>4, LateSeqs, RowsJoin
<1>7. SameUpTo(95, q3, q2)
  BY <1>4, LateSeqs, RowsFront
<1> HIDE DEF q3
<1>8. Rows(q4, 98 + 8, R)
  BY <1>6, LateSeqs, RowsJoin
<1>9. SameUpTo(98, q4, q3)
  BY <1>6, LateSeqs, RowsFront
<1> HIDE DEF q4
<1>10. Rows(q5, 106 + 4, R)
  BY <1>8, LateSeqs, RowsJoin
<1>11. SameUpTo(106, q5, q4)
  BY <1>8, LateSeqs, RowsFront
<1>12. q5[110] = BitRows[4]
  <2>1. Follows(106, 4, q5, BitRows)
    BY <1>8, LateSeqs, RowsBack
  <2> HIDE DEF q5
  <2>2. QED
    BY <2>1 DEF Follows
<1>13. q5 = OpRows
  BY DEF OpRows, FirstRows, q1, q2, q3, q4
<1> HIDE DEF q5
<1>14. SameUpTo(61, q5, FirstRows)
  BY <1>3, <1>5, <1>7, <1>9, <1>11 DEF SameUpTo
<1>15. QED
  BY <1>10, <1>12, <1>13, <1>14

(* The row that decides of a word is regular; it is never WAIT, whose words   *)
(* the row of RADD AD1 takes first.                                           *)
Least(T, n) == n \in T /\ \A j \in T : n <= j

LEMMA MinIs ==
  ASSUME NEW T, T \subseteq Nat, T # {}
  PROVE  Least(T, Min(T))
BY NatMin DEF Min, Least

LEMMA OtherMatches == \A w \in Nat : w < 65536 => Matches(w, BitRows[4])
<1> TAKE w \in Nat
<1>1. BitRows[4] = Row("other", 16, 0, "UNK", "CPU")
  BY DEF BitRows
<1>2. BitRows[4].low = 16 /\ BitRows[4].at = 0
  BY <1>1 DEF Row
<1>3. 2^16 = 65536
  OBVIOUS
<1>4. w < 65536 => w \div 65536 = 0 \div 65536
  OBVIOUS
<1>5. QED
  BY <1>2, <1>3, <1>4 DEF Matches

LEMMA WaitMatches ==
  ASSUME NEW w \in Nat, NEW row, row.low = 8, row.at = \hD200, Matches(w, row)
  PROVE  Matches(w, RopRows[15])
<1>1. RopRows[15] = Row("RADD_AD1", 9, \hD200, "ADD", "CPU")
  BY DEF RopRows
<1>2. RopRows[15].low = 9 /\ RopRows[15].at = \hD200
  BY <1>1 DEF Row
<1>3. 2^8 = 256 /\ 2^9 = 512
  OBVIOUS
<1>4. w \div 256 = \hD200 \div 256
  BY <1>3 DEF Matches
<1>5. w \div 512 = \hD200 \div 512
  BY <1>4
<1>6. QED
  BY <1>2, <1>3, <1>5 DEF Matches

LEMMA RowsElement ==
  ASSUME NEW S, NEW s, NEW n \in Nat, Rows(s, n, S)
  PROVE  \A i \in 1 .. n : s[i] \in S
BY ElementOfSeq DEF Rows

Matching(w) == {i \in 1 .. Len(OpRows) : Matches(w, OpRows[i])}

LEMMA FirstMatching ==
  ASSUME NEW w, Matching(w) \subseteq Nat, Matching(w) # {}
  PROVE  Least(Matching(w), Min(Matching(w)))
BY MinIs

LEMMA RowOfIs ==
  ASSUME NEW w \in Nat, w < 65536
  PROVE  Regular(RowOf(w)) /\ RowOf(w).name # "WAIT"
<1> DEFINE k == Min(Matching(w))
<1>1. Len(OpRows) = 110 /\ \A i \in 1 .. 110 : OpRows[i] \in RegularRows
  <2>1. Rows(OpRows, 110, RegularRows)
    BY RowsAre
  <2>2. \A i \in 1 .. 110 : OpRows[i] \in RegularRows
    BY <2>1, RowsElement
  <2>3. QED
    BY <2>1, <2>2 DEF Rows
<1>2. /\ Matching(w) \subseteq Nat
      /\ \A i \in 1 .. 110 : Matches(w, OpRows[i]) <=> i \in Matching(w)
      /\ Matching(w) \subseteq 1 .. 110
  BY <1>1 DEF Matching
<1>3. 110 \in Matching(w)
  <2>1. Matches(w, OpRows[110])
    BY OtherMatches, RowsAre
  <2>2. QED
    BY <1>2, <2>1
<1>4. RowOf(w) = OpRows[k]
  BY DEF RowOf, Matching
<1>5. k \in Matching(w) /\ \A j \in Matching(w) : k <= j
  <2>1. Matching(w) # {}
    BY <1>3
  <2>2. Matching(w) \subseteq Nat
    BY <1>2
  <2>3. Least(Matching(w), Min(Matching(w)))
    BY <2>1, <2>2, FirstMatching
  <2>4. QED
    BY <2>3 DEF Least
<1> HIDE DEF k
<1>6. k \in 1 .. 110 /\ Matches(w, OpRows[k]) /\ Regular(OpRows[k])
  <2>1. k \in 1 .. 110 /\ Matches(w, OpRows[k])
    BY <1>2, <1>5
  <2>2. OpRows[k] \in RegularRows
    BY <1>1, <2>1
  <2>3. QED
    BY <2>1, <2>2 DEF RegularRows
<1>7. ASSUME OpRows[k].name = "WAIT" PROVE FALSE
  <2>1. Matches(w, RopRows[15])
    BY <1>6, <1>7, WaitMatches DEF Regular
  <2>2. OpRows[58] = RopRows[15]
    BY RowsAre, FirstSeq DEF SameUpTo
  <2>3. 58 \in Matching(w)
    BY <1>2, <2>1, <2>2
  <2>4. k \in 1 .. 61
    BY <1>5, <1>6, <2>3
  <2>5. FirstRows[k] \in EarlyRows
    <3>1. \A i \in 1 .. 61 : FirstRows[i] \in EarlyRows
      BY FirstSeq, RowsElement
    <3>2. QED
      BY <2>4, <3>1
  <2>6. OpRows[k] = FirstRows[k]
    BY <2>4, RowsAre DEF SameUpTo
  <2>7. QED
    BY <1>7, <2>5, <2>6 DEF EarlyRows
<1>8. QED
  BY <1>4, <1>6, <1>7

-----------------------------------------------------------------------------
\* What nd100_op says of a word: the kind of operation, and where control goes.

(* The word two bytes make, in either order.                                  *)
IsWord(w) == w \in Nat /\ w < 65536

LEMMA WordOfBytes ==
  ASSUME NEW data \in Seq(0 .. 255), Len(data) >= 2, NEW big
  PROVE  IsWord(FromBytes(data, big))
<1>1. data[1] \in 0 .. 255 /\ data[2] \in 0 .. 255
  <2>1. Len(data) \in Nat /\ 1 \in 1 .. Len(data) /\ 2 \in 1 .. Len(data)
    OBVIOUS
  <2>2. QED
    BY <2>1, ElementOfSeq
<1>2. \A b \in 0 .. 255 : b \in Nat /\ b < 256
  OBVIOUS
<1>3. \A b, c \in Nat : b < 256 /\ c < 256 => IsWord(256 * b + c)
  BY DEF IsWord
<1>4. \A b, c \in Nat : b < 256 /\ c < 256 => IsWord(b + 256 * c)
  BY DEF IsWord
<1> DEFINE b == data[1]
           c == data[2]
<1>5. b \in Nat /\ c \in Nat /\ b < 256 /\ c < 256
  BY <1>1, <1>2
<1>6. FromBytes(data, big) = IF big THEN 256 * b + c ELSE b + 256 * c
  BY DEF FromBytes
<1> HIDE DEF b, c
<1>7. IsWord(256 * b + c)
  BY <1>3, <1>5
<1>8. IsWord(b + 256 * c)
  BY <1>4, <1>5
<1>9. QED
  BY <1>6, <1>7, <1>8

(* The flow of an operation at addr: a jump, a call, a conditional jump and a *)
(* skip have a target, an operation with two ways has the one straight on,    *)
(* and only a jump, a return and a monitor call end a block.                  *)
Flow(op, addr) ==
  /\ Sorted(op) /\ op.type # "ILL" /\ op.val \in Int /\ op.jump \in Int
  /\ op.type \in {"JMP", "CALL"} \/ op.name \in {"Jcc", "SKP"} => op.jump # UNSET
  /\ op.type = "CJMP" => addr + op.size \in {op.jump, op.fail} \ {UNSET}
  /\ op.name \in {"Jcc", "SKP"} => op.type = "CJMP"
  /\ op.name = "JMP" => op.type \in {"JMP", "MJMP"}
  /\ op.eob => op.name = "JMP" \/ op.type \in {"RET", "SWI"}

LEMMA FrameIs ==
  /\ DOMAIN Frame = {"ENTR", "INIT"}
  /\ Frame["ENTR"].size = 4 /\ Frame["ENTR"].jump = 6 /\ Frame["ENTR"].fail = 4
  /\ Frame["INIT"].size = 14 /\ Frame["INIT"].jump = 14 /\ Frame["INIT"].fail = 12
BY DEF Frame

LEMMA JumpOfBranch ==
  ASSUME NEW row, Regular(row), row.type \in {"JMP", "CALL"} \/ row.name = "Jcc",
         NEW w \in Nat, NEW addr, InSpace(addr)
  PROVE  InSpace(JumpOf(row, w, addr))
<1>1. JumpOf(row, w, addr) = branch_target(addr, Signed(w % 256))
  <2>1. row.name \notin DOMAIN Frame
    BY FrameIs DEF Regular, Sorted, ByType
  <2>2. ~(row.type = "CJMP" /\ row.name \notin {"Jcc"} \cup DOMAIN Frame)
    OBVIOUS
  <2>3. row.name = "Jcc" \/ row.type \in {"JMP", "CALL"}
    OBVIOUS
  <2>4. QED
    BY <2>1, <2>2, <2>3, Zenon DEF JumpOf
<1>2. InSpace(branch_target(addr, Signed(w % 256)))
  BY SignedRange, BranchTargetInSpace
<1>3. QED
  BY <1>1, <1>2

LEMMA JumpOfSkip ==
  ASSUME NEW row, Regular(row), row.type = "CJMP", row.name # "Jcc",
         row.name \notin DOMAIN Frame, NEW w, NEW addr
  PROVE  JumpOf(row, w, addr) = addr + 4
BY Zenon DEF JumpOf

LEMMA JumpOfFrame ==
  ASSUME NEW row, Regular(row), row.name \in DOMAIN Frame, NEW w, NEW addr
  PROVE  JumpOf(row, w, addr) = addr + Frame[row.name].jump
<1>1. row.type = "CJMP" /\ row.name # "Jcc"
  BY FrameIs DEF Regular
<1>2. row.type \notin {"JMP", "CALL"}
  BY <1>1
<1>3. QED
  BY <1>1, <1>2, Zenon DEF JumpOf

LEMMA FailOfFrame ==
  ASSUME NEW row, row.name \in DOMAIN Frame, NEW addr
  PROVE  FailOf(row, addr) = addr + Frame[row.name].fail
BY Zenon DEF FailOf

LEMMA FailOfOther ==
  ASSUME NEW row, row.name \notin DOMAIN Frame, row.type = "CJMP", NEW addr
  PROVE  FailOf(row, addr) = addr + 2
BY Zenon DEF FailOf

LEMMA ValOfInt == ASSUME NEW row, NEW w \in Nat PROVE ValOf(row, w) \in Int
<1>1. w % 256 \in Int /\ Signed(w % 256) \in Int
  BY SignedRange
<1>2. QED
  BY <1>1 DEF ValOf

LEMMA EndsBlockIs ==
  ASSUME NEW row, Regular(row), row.name # "WAIT", NEW w, EndsBlock(row, w)
  PROVE  row.name = "JMP" \/ row.type \in {"RET", "SWI"}
BY DEF EndsBlock, Regular

\* An operation before the bits of a shift and the operands of a frame are looked at.
Undressed(row, w, addr) ==
  [name |-> row.name, type |-> row.type, family |-> row.family,
   size |-> MIN_OP_SIZE, jump |-> JumpOf(row, w, addr),
   fail |-> FailOf(row, addr), cond |-> CondOf(row, w),
   eob |-> EndsBlock(row, w), stack |-> StackOf(row, w),
   val |-> ValOf(row, w), word |-> w]

LEMMA UndressedParts ==
  ASSUME NEW row, NEW w, NEW addr
  PROVE  LET op == Undressed(row, w, addr) IN
         /\ op.name = row.name /\ op.type = row.type /\ op.size = 2
         /\ op.jump = JumpOf(row, w, addr) /\ op.fail = FailOf(row, addr)
         /\ op.eob = EndsBlock(row, w) /\ op.val = ValOf(row, w) /\ op.word = w
BY DEF Undressed, MIN_OP_SIZE

\* The four forms an operation can take.
AsShift(op) == [op EXCEPT !.type = "SHR"]
AsCutOff(op) == [op EXCEPT !.type = "UNK", !.jump = UNSET, !.fail = UNSET,
                           !.stack = <<"NULL", 0>>]
AsFrame(op, n) == [op EXCEPT !.size = n]

LEMMA FormParts ==
  ASSUME NEW row, NEW w, NEW addr, NEW n
  PROVE  LET op == Undressed(row, w, addr) IN
         /\ AsShift(op).name = op.name /\ AsShift(op).type = "SHR"
         /\ AsShift(op).size = op.size /\ AsShift(op).jump = op.jump
         /\ AsShift(op).fail = op.fail /\ AsShift(op).eob = op.eob /\ AsShift(op).val = op.val
         /\ AsShift(op).word = op.word
         /\ AsCutOff(op).name = op.name /\ AsCutOff(op).type = "UNK"
         /\ AsCutOff(op).size = op.size /\ AsCutOff(op).jump = UNSET
         /\ AsCutOff(op).fail = UNSET /\ AsCutOff(op).eob = op.eob
         /\ AsCutOff(op).val = op.val /\ AsCutOff(op).word = op.word
         /\ AsFrame(op, n).name = op.name /\ AsFrame(op, n).type = op.type
         /\ AsFrame(op, n).size = n /\ AsFrame(op, n).jump = op.jump
         /\ AsFrame(op, n).fail = op.fail /\ AsFrame(op, n).eob = op.eob
         /\ AsFrame(op, n).val = op.val /\ AsFrame(op, n).word = op.word
BY DEF Undressed, AsShift, AsCutOff, AsFrame

Formed(out, row, w, addr) ==
  \/ row.name = "shift" /\ out = AsShift(Undressed(row, w, addr))
  \/ row.name \in DOMAIN Frame /\ out = AsCutOff(Undressed(row, w, addr))
  \/ row.name \in DOMAIN Frame /\ out = AsFrame(Undressed(row, w, addr), Frame[row.name].size)
  \/ row.name \notin DOMAIN Frame /\ out = Undressed(row, w, addr)

LEMMA OpFormed ==
  ASSUME NEW addr, NEW data \in Seq(0 .. 255), Len(data) >= 2, NEW big_endian
  PROVE  LET w == FromBytes(data, big_endian) IN
         Formed(nd100_op(addr, data, big_endian), RowOf(w), w, addr)
<1> DEFINE w == FromBytes(data, big_endian)
           row == RowOf(w)
           op == Undressed(row, w, addr)
           long == Len(data) >= Frame[row.name].size
           right == row.name = "shift" /\ Field(w, 5, 1) = 1
           out == nd100_op(addr, data, big_endian)
<1>1. out = CASE right -> AsShift(op)
              [] row.name \in DOMAIN Frame /\ Len(data) < Frame[row.name].size -> AsCutOff(op)
              [] row.name \in DOMAIN Frame /\ long -> AsFrame(op, Frame[row.name].size)
              [] OTHER -> op
  BY DEF nd100_op, Undressed, AsShift, AsCutOff, AsFrame
<1>2. row.name \in DOMAIN Frame => (Len(data) < Frame[row.name].size <=> ~long)
  <2>1. Len(data) \in Nat /\ \A n \in DOMAIN Frame : Frame[n].size \in Nat
    BY FrameIs
  <2> HIDE DEF row
  <2>2. QED
    BY <2>1
<1> HIDE DEF w, row, op, long, out
<1>3. CASE right
  BY <1>1, <1>3, FrameIs DEF Formed, op, row, w, out
<1>4. CASE row.name \in DOMAIN Frame /\ ~long /\ ~right
  BY <1>1, <1>2, <1>4 DEF Formed, op, row, w, out
<1>5. CASE row.name \in DOMAIN Frame /\ long /\ ~right
  BY <1>1, <1>2, <1>5 DEF Formed, op, row, w, out
<1>6. CASE row.name \notin DOMAIN Frame /\ ~right
  BY <1>1, <1>6 DEF Formed, op, row, w, out
<1>7. QED
  BY <1>3, <1>4, <1>5, <1>6 DEF w, row, out

(* The flow of every word of nd100_op, wherever it stands.                    *)
LEMMA FlowOfOp ==
  ASSUME NEW addr, InSpace(addr), NEW data \in Seq(0 .. 255), Len(data) >= 2, NEW big_endian
  PROVE  Flow(nd100_op(addr, data, big_endian), addr)
<1> DEFINE w == FromBytes(data, big_endian)
           row == RowOf(w)
           op == Undressed(row, w, addr)
           out == nd100_op(addr, data, big_endian)
<1>1. w \in Nat /\ w < 65536
  BY WordOfBytes DEF IsWord
<1>2. Regular(row) /\ row.name # "WAIT"
  BY <1>1, RowOfIs
<1>3. Formed(out, row, w, addr)
  BY OpFormed
<1>4. addr \in Int /\ UNSET = -1 /\ addr >= 0
  BY DEF InSpace, UNSET
<1> SUFFICES Flow(out, addr)
  OBVIOUS
<1> HIDE DEF out, w, row
<1>5. /\ op.name = row.name /\ op.type = row.type /\ op.size = 2
      /\ op.jump = JumpOf(row, w, addr) /\ op.fail = FailOf(row, addr)
      /\ op.eob = EndsBlock(row, w) /\ op.val = ValOf(row, w)
  BY UndressedParts
<1>6. op.val \in Int
  BY <1>1, <1>5, ValOfInt
<1>7. JumpOf(row, w, addr) \in Int
  <2>1. Reachable(JumpOf(row, w, addr))
    BY <1>1, JumpReachable
  <2>2. QED
    BY <2>1 DEF Reachable
<1> HIDE DEF op
<1>8. CASE row.name = "shift" /\ out = AsShift(op)
  <2>1. /\ out.name = "shift" /\ out.type = "SHR" /\ out.jump = op.jump
        /\ out.eob = op.eob /\ out.val = op.val
    BY <1>5, <1>8, FormParts DEF op
  <2>2. ~op.eob
    BY <1>2, <1>5, <1>8, EndsBlockIs DEF Regular
  <2>3. Sorted(out) /\ out.type # "ILL" /\ out.val \in Int /\ out.jump \in Int
    BY <1>5, <1>6, <1>7, <2>1 DEF Sorted, ByType
  <2>4. /\ out.type \notin {"JMP", "CALL", "CJMP"} /\ out.name \notin {"Jcc", "SKP", "JMP"}
        /\ ~out.eob
    BY <2>1, <2>2
  <2>5. QED
    BY <2>3, <2>4, Zenon DEF Flow
<1>9. CASE row.name \in DOMAIN Frame /\ out = AsCutOff(op)
  <2>1. /\ out.name \in {"ENTR", "INIT"} /\ out.type = "UNK" /\ out.jump = UNSET
        /\ out.eob = op.eob /\ out.val = op.val
    BY <1>5, <1>9, FormParts, FrameIs DEF op
  <2>2. ~op.eob
    BY <1>2, <1>5, <1>9, EndsBlockIs, FrameIs DEF Regular
  <2>3. Sorted(out) /\ out.type # "ILL" /\ out.val \in Int /\ out.jump \in Int
    BY <1>4, <1>6, <2>1 DEF Sorted, ByType
  <2>4. /\ out.type \notin {"JMP", "CALL", "CJMP"} /\ out.name \notin {"Jcc", "SKP", "JMP"}
        /\ ~out.eob
    BY <2>1, <2>2
  <2>5. QED
    BY <2>3, <2>4, Zenon DEF Flow
<1>10. CASE row.name \in DOMAIN Frame /\ out = AsFrame(op, Frame[row.name].size)
  <2>1. /\ out.name = row.name /\ out.type = row.type /\ out.size = Frame[row.name].size
        /\ out.jump = op.jump /\ out.fail = op.fail /\ out.eob = op.eob /\ out.val = op.val
    BY <1>5, <1>10, FormParts DEF op
  <2>2. row.type = "CJMP" /\ row.name \in {"ENTR", "INIT"}
    BY <1>2, <1>10, FrameIs DEF Regular
  <2>3. ~op.eob
    BY <1>2, <1>5, <2>2, EndsBlockIs
  <2>4. op.jump = addr + Frame[row.name].jump /\ op.fail = addr + Frame[row.name].fail
    BY <1>2, <1>5, <1>10, JumpOfFrame, FailOfFrame
  <2>5. addr + out.size \in {out.jump, out.fail} \ {UNSET}
    <3>1. out.size \in Nat /\ (out.size = Frame[row.name].jump \/ out.size = Frame[row.name].fail)
      BY <2>1, <2>2, FrameIs
    <3>2. addr + out.size # UNSET
      BY <1>4, <3>1
    <3>3. addr + out.size = out.jump \/ addr + out.size = out.fail
      BY <2>1, <2>4, <3>1
    <3>4. QED
      BY <3>2, <3>3
  <2>6. Sorted(out) /\ out.type # "ILL" /\ out.val \in Int /\ out.jump \in Int
    BY <1>5, <1>6, <1>7, <2>1, <2>2 DEF Sorted, ByType
  <2>7. /\ out.type \notin {"JMP", "CALL"} /\ out.name \notin {"Jcc", "SKP", "JMP"}
        /\ ~out.eob
    BY <2>1, <2>2, <2>3
  <2>8. QED
    BY <2>5, <2>6, <2>7, Zenon DEF Flow
<1>11. CASE row.name \notin DOMAIN Frame /\ out = op
  <2>1. /\ out.name = row.name /\ out.type = row.type /\ out.size = 2
        /\ out.jump = JumpOf(row, w, addr) /\ out.fail = FailOf(row, addr)
        /\ out.eob = EndsBlock(row, w)
    BY <1>5, <1>11
  <2>2. out.type = "CJMP" => addr + out.size \in {out.jump, out.fail} \ {UNSET}
    <3>1. out.type = "CJMP" => out.fail = addr + 2
      BY <1>11, <2>1, FailOfOther
    <3>2. QED
      BY <1>4, <2>1, <3>1
  <2>3. out.type \in {"JMP", "CALL"} \/ out.name = "Jcc" => out.jump # UNSET
    <3>1. out.type \in {"JMP", "CALL"} \/ out.name = "Jcc" => InSpace(out.jump)
      BY <1>1, <1>2, <2>1, JumpOfBranch
    <3>2. QED
      BY <1>4, <3>1 DEF InSpace
  <2>4. out.name = "SKP" => out.jump # UNSET
    <3>1. ASSUME out.name = "SKP" PROVE out.jump = addr + 4
      <4>1. row.type = "CJMP" /\ row.name # "Jcc"
        BY <1>2, <2>1, <3>1 DEF Regular
      <4>2. QED
        BY <1>2, <1>11, <2>1, <4>1, JumpOfSkip
    <3>2. QED
      BY <1>4, <3>1
  <2>5. out.eob => out.name = "JMP" \/ out.type \in {"RET", "SWI"}
    BY <1>2, <2>1, EndsBlockIs
  <2>6. Sorted(out) /\ out.type # "ILL" /\ out.val \in Int /\ out.jump \in Int
    BY <1>2, <1>6, <1>7, <1>11, <2>1 DEF Regular, Sorted
  <2>7. /\ out.name \in {"Jcc", "SKP"} => out.type = "CJMP"
        /\ out.name = "JMP" => out.type \in {"JMP", "MJMP"}
    BY <1>2, <2>1 DEF Regular
  <2>8. out.name \in {"Jcc", "SKP"} => out.jump # UNSET
    BY <2>3, <2>4
  <2>9. QED
    BY <2>2, <2>3, <2>5, <2>6, <2>7, <2>8, Zenon DEF Flow
<1>12. QED
  BY <1>3, <1>8, <1>9, <1>10, <1>11 DEF Formed, op

LEMMA WordOfOp ==
  ASSUME NEW addr, NEW data \in Seq(0 .. 255), Len(data) >= 2, NEW big_endian
  PROVE  IsWord(nd100_op(addr, data, big_endian).word)
<1> DEFINE w == FromBytes(data, big_endian)
           row == RowOf(w)
           out == nd100_op(addr, data, big_endian)
<1>1. IsWord(w)
  BY WordOfBytes
<1>2. Formed(out, row, w, addr)
  BY OpFormed
<1> HIDE DEF out, w, row
<1>3. Undressed(row, w, addr).word = w
  BY UndressedParts
<1>4. out.word = w
  <2>1. AsShift(Undressed(row, w, addr)).word = w
    BY <1>3, FormParts
  <2>2. AsCutOff(Undressed(row, w, addr)).word = w
    BY <1>3, FormParts
  <2>3. AsFrame(Undressed(row, w, addr), Frame[row.name].size).word = w
    BY <1>3, FormParts
  <2>4. QED
    BY <1>2, <1>3, <2>1, <2>2, <2>3, Zenon DEF Formed
<1>5. QED
  BY <1>1, <1>4 DEF out
-----------------------------------------------------------------------------
\* Which words go which way, by the rows of nd100_op.

SkipWord(w) ==
  \/ Within(w, \h4000, \h47FF) \/ Within(w, \hFA00, \hFBFF)
  \/ \E c \in 0 .. 7 : Within(w, \hC000 + 256 * c, \hC03F + 256 * c)
  \/ Within(w, \hC050, \hC057) \/ w = \hC14E \/ w = \hC14F \/ w = \hD10D
EndWord(w) ==
  Within(w, \hA900, \hAFFF) \/ w = \hC09E \/ w = \hC09F \/ w = \hCC62 \/ w = \hD600

JumpRow(row) == row.name = "JMP" /\ row.type = "JMP"
EndRow(row, w) == row.type \in {"MJMP", "RET"} \/ (row.name = "MON" /\ w % 256 = 0)
SkipRow(row) == row.type = "CJMP" /\ row.name \notin {"Jcc", "ENTR", "INIT"}

\* A row is of the kind a word is of.
Agree(row, w) ==
  /\ JumpRow(row) <=> Within(w, \hA800, \hA8FF)
  /\ EndRow(row, w) <=> EndWord(w)
  /\ row.name = "Jcc" <=> Within(w, \hB000, \hB7FF)
  /\ row.type = "CALL" <=> Within(w, \hB800, \hB8FF)
  /\ SkipRow(row) <=> SkipWord(w)
  /\ row.name = "ENTR" <=> w = \hC05D
  /\ row.name = "INIT" <=> w = \hC05C

\* Where the row of one table of nd100_op stands among all of them.
LEMMA RowPlaces ==
  /\ Follows(0, 12, OpRows, MemoryRows) /\ Follows(12, 9, OpRows, ArithmeticRows)
  /\ Follows(21, 6, OpRows, BranchRows) /\ Follows(27, 5, OpRows, FrameRows)
  /\ Follows(32, 8, OpRows, SkipHead) /\ Follows(40, 3, OpRows, SkipTail)
  /\ Follows(43, 18, OpRows, RopRows) /\ Follows(61, 10, OpRows, ByteRows)
  /\ Follows(71, 24, OpRows, SystemRows) /\ Follows(95, 3, OpRows, ShiftAndIoRows)
  /\ Follows(98, 8, OpRows, ArgumentRows) /\ Follows(106, 4, OpRows, BitRows)
<1> DEFINE R == RegularRows
           q2 == MemoryRows \o ArithmeticRows
           q3 == q2 \o BranchRows
           q4 == q3 \o FrameRows
           q6 == q4 \o SkipRows
           q7 == q6 \o RopRows
           q8 == q7 \o ByteRows
           q9 == q8 \o SystemRows
           q10 == q9 \o ShiftAndIoRows
           q11 == q10 \o ArgumentRows
           q12 == q11 \o BitRows
<1>1. /\ Rows(MemoryRows, 12, R) /\ Rows(ArithmeticRows, 9, R)
      /\ Rows(BranchRows, 6, R) /\ Rows(FrameRows, 5, R)
      /\ Rows(SkipHead, 8, R) /\ Rows(SkipTail, 3, R) /\ Rows(RopRows, 18, R)
  <2>1. EarlyRows \subseteq R
    BY DEF EarlyRows
  <2>2. \A T, n : Rows(T, n, EarlyRows) => Rows(T, n, R)
    BY <2>1 DEF Rows
  <2>3. QED
    BY <2>2, EarlySeqs
<1>2. /\ Rows(SkipRows, 11, R)
      /\ SameUpTo(8, SkipRows, SkipHead) /\ Follows(8, 3, SkipRows, SkipTail)
  <2>1. SkipRows = SkipHead \o SkipTail
    BY DEF SkipRows, SkipHead, SkipTail
  <2>2. Rows(SkipHead \o SkipTail, 8 + 3, R)
    BY <1>1, RowsJoin
  <2>3. SameUpTo(8, SkipHead \o SkipTail, SkipHead)
    BY <1>1, RowsFront
  <2>4. Follows(8, 3, SkipHead \o SkipTail, SkipTail)
    BY <1>1, RowsBack
  <2>5. QED
    BY <2>1, <2>2, <2>3, <2>4
<1>3. Rows(q2, 12 + 9, R) /\ SameUpTo(12, q2, MemoryRows) /\ Follows(12, 9, q2, ArithmeticRows)
  BY <1>1, RowsJoin, RowsFront, RowsBack
<1> HIDE DEF q2
<1>4. Rows(q3, 21 + 6, R) /\ SameUpTo(21, q3, q2) /\ Follows(21, 6, q3, BranchRows)
  BY <1>1, <1>3, RowsJoin, RowsFront, RowsBack
<1> HIDE DEF q3
<1>5. Rows(q4, 27 + 5, R) /\ SameUpTo(27, q4, q3) /\ Follows(27, 5, q4, FrameRows)
  BY <1>1, <1>4, RowsJoin, RowsFront, RowsBack
<1> HIDE DEF q4
<1>6. Rows(q6, 32 + 11, R) /\ SameUpTo(32, q6, q4) /\ Follows(32, 11, q6, SkipRows)
  BY <1>2, <1>5, RowsJoin, RowsFront, RowsBack
<1> HIDE DEF q6
<1>7. Rows(q7, 43 + 18, R) /\ SameUpTo(43, q7, q6) /\ Follows(43, 18, q7, RopRows)
  BY <1>1, <1>6, RowsJoin, RowsFront, RowsBack
<1> HIDE DEF q7
<1>8. Rows(q8, 61 + 10, R) /\ SameUpTo(61, q8, q7) /\ Follows(61, 10, q8, ByteRows)
  BY <1>7, LateSeqs, RowsJoin, RowsFront, RowsBack
<1> HIDE DEF q8
<1>9. Rows(q9, 71 + 24, R) /\ SameUpTo(71, q9, q8) /\ Follows(71, 24, q9, SystemRows)
  BY <1>8, LateSeqs, RowsJoin, RowsFront, RowsBack
<1> HIDE DEF q9
<1>10. Rows(q10, 95 + 3, R) /\ SameUpTo(95, q10, q9) /\ Follows(95, 3, q10, ShiftAndIoRows)
  BY <1>9, LateSeqs, RowsJoin, RowsFront, RowsBack
<1> HIDE DEF q10
<1>11. Rows(q11, 98 + 8, R) /\ SameUpTo(98, q11, q10) /\ Follows(98, 8, q11, ArgumentRows)
  BY <1>10, LateSeqs, RowsJoin, RowsFront, RowsBack
<1> HIDE DEF q11
<1>12. SameUpTo(106, q12, q11) /\ Follows(106, 4, q12, BitRows)
  BY <1>11, LateSeqs, RowsFront, RowsBack
<1>13. q12 = OpRows
  BY DEF OpRows, q11, q10, q9, q8, q7, q6, q4, q3, q2
<1> HIDE DEF q12
<1> DEFINE Same(n, q) == SameUpTo(n, q12, q)
<1>14. \A m, n \in Nat : \A q, p : m <= n /\ Same(n, q) /\ SameUpTo(m, q, p) => Same(m, p)
  BY DEF SameUpTo
<1>15. \A m, n, k \in Nat : \A q, T : m + n <= k /\ Same(k, q) /\ Follows(m, n, q, T)
                                        => Follows(m, n, q12, T)
  BY DEF SameUpTo, Follows
<1>16. Same(106, q11)
  BY <1>12
<1> HIDE DEF Same
<1>17. Same(98, q10)
  BY <1>11, <1>14, <1>16
<1>18. Same(95, q9)
  BY <1>10, <1>14, <1>17
<1>19. Same(71, q8)
  BY <1>9, <1>14, <1>18
<1>20. Same(61, q7)
  BY <1>8, <1>14, <1>19
<1>21. Same(43, q6)
  BY <1>7, <1>14, <1>20
<1>22. Same(32, q4)
  BY <1>6, <1>14, <1>21
<1>23. Same(27, q3)
  BY <1>5, <1>14, <1>22
<1>24. Same(21, q2)
  BY <1>4, <1>14, <1>23
<1>25. Same(12, MemoryRows)
  BY <1>3, <1>14, <1>24
<1>26. Follows(98, 8, q12, ArgumentRows) /\ Follows(95, 3, q12, ShiftAndIoRows)
  BY <1>10, <1>11, <1>15, <1>16, <1>17
<1>27. Follows(71, 24, q12, SystemRows) /\ Follows(61, 10, q12, ByteRows)
  BY <1>8, <1>9, <1>15, <1>18, <1>19
<1>28. Follows(43, 18, q12, RopRows) /\ Follows(32, 11, q12, SkipRows)
  BY <1>6, <1>7, <1>15, <1>20, <1>21
<1>29. Follows(27, 5, q12, FrameRows) /\ Follows(21, 6, q12, BranchRows)
  BY <1>4, <1>5, <1>15, <1>22, <1>23
<1>30. Follows(12, 9, q12, ArithmeticRows)
  BY <1>3, <1>15, <1>24
<1>31. Follows(0, 12, q12, MemoryRows)
  BY <1>25 DEF Same, SameUpTo, Follows
<1>32. Follows(32, 8, q12, SkipHead) /\ Follows(40, 3, q12, SkipTail)
  BY <1>2, <1>28 DEF SameUpTo, Follows
<1>33. QED
  BY <1>12, <1>13, <1>26, <1>27, <1>28, <1>29, <1>30, <1>31, <1>32

\* Whatever word the row takes, it is of the kind the word is of.
Good(row) == \A w \in Nat : Matches(w, row) => Agree(row, w)

\* The words a row takes are those from its own to the last one that differs in
\* the low bits only.
Width(low) ==
  CASE low = 0 -> 1 [] low = 3 -> 8 [] low = 4 -> 16 [] low = 6 -> 64 [] low = 7 -> 128
    [] low = 8 -> 256 [] low = 9 -> 512 [] low = 10 -> 1024 [] low = 11 -> 2048
Takes(w, row) == row.at <= w /\ w < row.at + Width(row.low)
Spans(row) == \A w \in Nat : Matches(w, row) <=> Takes(w, row)

Divides(n, at) == at % n = 0

\* Where such a row can begin.
Begins(row) ==
  /\ row.at \in Nat
  /\ \/ row.low = 0
     \/ row.low = 3 /\ Divides(8, row.at)
     \/ row.low = 4 /\ Divides(16, row.at)
     \/ row.low = 6 /\ Divides(64, row.at)
     \/ row.low = 7 /\ Divides(128, row.at)
     \/ row.low = 8 /\ Divides(256, row.at)
     \/ row.low = 9 /\ Divides(512, row.at)
     \/ row.low = 10 /\ Divides(1024, row.at)
     \/ row.low = 11 /\ Divides(2048, row.at)

LEMMA RowSpans == \A row : Begins(row) => Spans(row)
<1> SUFFICES ASSUME NEW row, Begins(row), NEW w \in Nat
             PROVE  Matches(w, row) <=> Takes(w, row)
  BY DEF Spans
<1>1. /\ 2^0 = 1 /\ 2^3 = 8 /\ 2^4 = 16 /\ 2^6 = 64 /\ 2^7 = 128
      /\ 2^8 = 256 /\ 2^9 = 512 /\ 2^10 = 1024 /\ 2^11 = 2048
  OBVIOUS
<1> DEFINE at == row.at
<1>2. at \in Nat
  BY DEF Begins
<1> HIDE DEF at
<1>3. w \div 1 = at \div 1 <=> at <= w /\ w < at + 1
  BY <1>2
<1>4. at % 8 = 0 => (w \div 8 = at \div 8 <=> at <= w /\ w < at + 8)
  BY <1>2
<1>5. at % 16 = 0 => (w \div 16 = at \div 16 <=> at <= w /\ w < at + 16)
  BY <1>2
<1>6. at % 64 = 0 => (w \div 64 = at \div 64 <=> at <= w /\ w < at + 64)
  BY <1>2
<1>7. at % 128 = 0 => (w \div 128 = at \div 128 <=> at <= w /\ w < at + 128)
  BY <1>2
<1>8. at % 256 = 0 => (w \div 256 = at \div 256 <=> at <= w /\ w < at + 256)
  BY <1>2
<1>9. at % 512 = 0 => (w \div 512 = at \div 512 <=> at <= w /\ w < at + 512)
  BY <1>2
<1>10. at % 1024 = 0 => (w \div 1024 = at \div 1024 <=> at <= w /\ w < at + 1024)
  BY <1>2
<1>11. at % 2048 = 0 => (w \div 2048 = at \div 2048 <=> at <= w /\ w < at + 2048)
  BY <1>2
<1>12. CASE row.low = 0
  BY <1>1, <1>3, <1>12 DEF Matches, Takes, Width, at
<1>13. CASE row.low = 3 /\ at % 8 = 0
  BY <1>1, <1>4, <1>13 DEF Matches, Takes, Width, at
<1>14. CASE row.low = 4 /\ at % 16 = 0
  BY <1>1, <1>5, <1>14 DEF Matches, Takes, Width, at
<1>15. CASE row.low = 6 /\ at % 64 = 0
  BY <1>1, <1>6, <1>15 DEF Matches, Takes, Width, at
<1>16. CASE row.low = 7 /\ at % 128 = 0
  BY <1>1, <1>7, <1>16 DEF Matches, Takes, Width, at
<1>17. CASE row.low = 8 /\ at % 256 = 0
  BY <1>1, <1>8, <1>17 DEF Matches, Takes, Width, at
<1>18. CASE row.low = 9 /\ at % 512 = 0
  BY <1>1, <1>9, <1>18 DEF Matches, Takes, Width, at
<1>19. CASE row.low = 10 /\ at % 1024 = 0
  BY <1>1, <1>10, <1>19 DEF Matches, Takes, Width, at
<1>20. CASE row.low = 11 /\ at % 2048 = 0
  BY <1>1, <1>11, <1>20 DEF Matches, Takes, Width, at
<1>21. QED
  BY <1>12, <1>13, <1>14, <1>15, <1>16, <1>17, <1>18, <1>19, <1>20 DEF Begins, Divides, at

LEMMA BeginsIf ==
  ASSUME NEW name, NEW at \in Nat, NEW type, NEW family
  PROVE  /\ Begins(Row(name, 0, at, type, family))
         /\ Divides(8, at) => Begins(Row(name, 3, at, type, family))
         /\ Divides(16, at) => Begins(Row(name, 4, at, type, family))
         /\ Divides(64, at) => Begins(Row(name, 6, at, type, family))
         /\ Divides(128, at) => Begins(Row(name, 7, at, type, family))
         /\ Divides(256, at) => Begins(Row(name, 8, at, type, family))
         /\ Divides(512, at) => Begins(Row(name, 9, at, type, family))
         /\ Divides(1024, at) => Begins(Row(name, 10, at, type, family))
         /\ Divides(2048, at) => Begins(Row(name, 11, at, type, family))
<1>1. \A low : Row(name, low, at, type, family).low = low
                /\ Row(name, low, at, type, family).at = at
  BY DEF Row
<1>2. Begins(Row(name, 0, at, type, family))
  BY <1>1 DEF Begins
<1>3. Divides(8, at) => Begins(Row(name, 3, at, type, family))
  BY <1>1 DEF Begins
<1>4. Divides(16, at) => Begins(Row(name, 4, at, type, family))
  BY <1>1 DEF Begins
<1>5. Divides(64, at) => Begins(Row(name, 6, at, type, family))
  BY <1>1 DEF Begins
<1>6. Divides(128, at) => Begins(Row(name, 7, at, type, family))
  BY <1>1 DEF Begins
<1>7. Divides(256, at) => Begins(Row(name, 8, at, type, family))
  BY <1>1 DEF Begins
<1>8. Divides(512, at) => Begins(Row(name, 9, at, type, family))
  BY <1>1 DEF Begins
<1>9. Divides(1024, at) => Begins(Row(name, 10, at, type, family))
  BY <1>1 DEF Begins
<1>10. Divides(2048, at) => Begins(Row(name, 11, at, type, family))
  BY <1>1 DEF Begins
<1>11. QED
  BY <1>2, <1>3, <1>4, <1>5, <1>6, <1>7, <1>8, <1>9, <1>10

LEMMA TablesBegin ==
  /\ \A i \in 1 .. 12 : Begins(MemoryRows[i])
  /\ \A i \in 1 .. 9 : Begins(ArithmeticRows[i])
  /\ \A i \in 1 .. 6 : Begins(BranchRows[i])
  /\ \A i \in 1 .. 5 : Begins(FrameRows[i])
  /\ \A i \in 1 .. 8 : Begins(SkipHead[i])
  /\ \A i \in 1 .. 3 : Begins(SkipTail[i])
  /\ \A i \in 1 .. 18 : Begins(RopRows[i])
  /\ \A i \in 1 .. 10 : Begins(ByteRows[i])
  /\ \A i \in 1 .. 24 : Begins(SystemRows[i])
  /\ \A i \in 1 .. 3 : Begins(ShiftAndIoRows[i])
  /\ \A i \in 1 .. 8 : Begins(ArgumentRows[i])
  /\ \A i \in 1 .. 3 : Begins(BitRows[i])
<1>1. \A i \in 1 .. 12 : Begins(MemoryRows[i])
  BY DEF MemoryRows, Begins, Divides, Row
<1>2. \A i \in 1 .. 9 : Begins(ArithmeticRows[i])
  BY DEF ArithmeticRows, Begins, Divides, Row
<1>3. \A i \in 1 .. 6 : Begins(BranchRows[i])
  BY DEF BranchRows, Begins, Divides, Row
<1>4. \A i \in 1 .. 5 : Begins(FrameRows[i])
  BY DEF FrameRows, Begins, Divides, Row
<1>5. \A i \in 1 .. 8 : Begins(SkipHead[i])
  BY DEF SkipHead, Begins, Divides, Row
<1>6. \A i \in 1 .. 3 : Begins(SkipTail[i])
  BY DEF SkipTail, Begins, Divides, Row
<1>7. \A i \in 1 .. 18 : Begins(RopRows[i])
  <2>1. /\ Begins(RopRows[1]) /\ Begins(RopRows[2]) /\ Begins(RopRows[3])
        /\ Begins(RopRows[4]) /\ Begins(RopRows[5]) /\ Begins(RopRows[6])
        /\ Begins(RopRows[7]) /\ Begins(RopRows[8]) /\ Begins(RopRows[9])
        /\ Begins(RopRows[10]) /\ Begins(RopRows[11]) /\ Begins(RopRows[12])
        /\ Begins(RopRows[13]) /\ Begins(RopRows[14]) /\ Begins(RopRows[15])
        /\ Begins(RopRows[16]) /\ Begins(RopRows[17]) /\ Begins(RopRows[18])
    BY BeginsIf DEF Divides, RopRows
  <2>2. QED
    BY <2>1
<1>8. \A i \in 1 .. 10 : Begins(ByteRows[i])
  <2>1. /\ Begins(ByteRows[1]) /\ Begins(ByteRows[2]) /\ Begins(ByteRows[3])
        /\ Begins(ByteRows[4]) /\ Begins(ByteRows[5]) /\ Begins(ByteRows[6])
        /\ Begins(ByteRows[7]) /\ Begins(ByteRows[8]) /\ Begins(ByteRows[9])
        /\ Begins(ByteRows[10])
    BY BeginsIf DEF Divides, ByteRows
  <2>2. QED
    BY <2>1
<1>9. \A i \in 1 .. 24 : Begins(SystemRows[i])
  <2>1. /\ Begins(SystemRows[1]) /\ Begins(SystemRows[2]) /\ Begins(SystemRows[3])
        /\ Begins(SystemRows[4]) /\ Begins(SystemRows[5]) /\ Begins(SystemRows[6])
    BY BeginsIf DEF Divides, SystemRows
  <2>2. /\ Begins(SystemRows[7]) /\ Begins(SystemRows[8]) /\ Begins(SystemRows[9])
        /\ Begins(SystemRows[10]) /\ Begins(SystemRows[11]) /\ Begins(SystemRows[12])
    BY BeginsIf DEF Divides, SystemRows
  <2>3. /\ Begins(SystemRows[13]) /\ Begins(SystemRows[14]) /\ Begins(SystemRows[15])
        /\ Begins(SystemRows[16]) /\ Begins(SystemRows[17]) /\ Begins(SystemRows[18])
    BY BeginsIf DEF Divides, SystemRows
  <2>4. /\ Begins(SystemRows[19]) /\ Begins(SystemRows[20]) /\ Begins(SystemRows[21])
        /\ Begins(SystemRows[22]) /\ Begins(SystemRows[23]) /\ Begins(SystemRows[24])
    BY BeginsIf DEF Divides, SystemRows
  <2>5. QED
    BY <2>1, <2>2, <2>3, <2>4
<1>10. \A i \in 1 .. 3 : Begins(ShiftAndIoRows[i])
  BY DEF ShiftAndIoRows, Begins, Divides, Row
<1>11. \A i \in 1 .. 8 : Begins(ArgumentRows[i])
  <2>1. /\ Begins(ArgumentRows[1]) /\ Begins(ArgumentRows[2]) /\ Begins(ArgumentRows[3])
        /\ Begins(ArgumentRows[4]) /\ Begins(ArgumentRows[5]) /\ Begins(ArgumentRows[6])
        /\ Begins(ArgumentRows[7]) /\ Begins(ArgumentRows[8])
    BY BeginsIf DEF Divides, ArgumentRows
  <2>2. QED
    BY <2>1
<1>12. \A i \in 1 .. 3 : Begins(BitRows[i])
  <2>1. /\ Begins(BitRows[1]) /\ Begins(BitRows[2]) /\ Begins(BitRows[3])
    BY BeginsIf DEF Divides, BitRows
  <2>2. QED
    BY <2>1
<1>13. QED
  BY <1>1, <1>2, <1>3, <1>4, <1>5, <1>6, <1>7, <1>8, <1>9, <1>10, <1>11, <1>12

\* Rows that control goes straight on from, and the words it does not.
PlainRow(row) ==
  /\ row.type \notin {"JMP", "MJMP", "RET", "CALL", "CJMP"}
  /\ row.name \notin {"MON", "Jcc", "ENTR", "INIT"}
Special(w) ==
  \/ Within(w, \hA800, \hB8FF) \/ SkipWord(w) \/ EndWord(w) \/ w = \hC05D \/ w = \hC05C

\* Between f and l control goes straight on from every word.
Clear(f, l) == \A w \in Nat : Within(w, f, l) => ~Special(w)

\* A row for some of those words.
Lies(row, f, l) ==
  PlainRow(row) /\ Spans(row) /\ f <= row.at /\ row.at + Width(row.low) <= l + 1
  /\ row.at \in Nat /\ Width(row.low) \in Nat

LEMMA PlainAgrees == \A row : \A w \in Nat : PlainRow(row) /\ ~Special(w) => Agree(row, w)
<1> SUFFICES ASSUME NEW row, NEW w \in Nat, PlainRow(row), ~Special(w) PROVE Agree(row, w)
  OBVIOUS
<1>1. ~JumpRow(row) /\ ~EndRow(row, w) /\ ~SkipRow(row) /\ row.type # "CALL"
  BY DEF PlainRow, JumpRow, EndRow, SkipRow
<1>2. row.name \notin {"Jcc", "ENTR", "INIT"}
  BY DEF PlainRow
<1>3. ~SkipWord(w) /\ ~EndWord(w) /\ w # \hC05D /\ w # \hC05C /\ ~Within(w, \hA800, \hB8FF)
  BY DEF Special
<1>4. /\ ~Within(w, \hA800, \hA8FF) /\ ~Within(w, \hB000, \hB7FF)
      /\ ~Within(w, \hB800, \hB8FF)
  BY <1>3 DEF Within
<1>5. QED
  BY <1>1, <1>2, <1>3, <1>4 DEF Agree

LEMMA PlainGood ==
  ASSUME NEW row, NEW f \in Nat, NEW l \in Nat, Lies(row, f, l), Clear(f, l)
  PROVE  Good(row)
<1> SUFFICES ASSUME NEW w \in Nat, Matches(w, row) PROVE Agree(row, w)
  BY DEF Good
<1>1. row.at <= w /\ w < row.at + Width(row.low)
  BY DEF Lies, Spans, Takes
<1>2. Within(w, f, l)
  BY <1>1 DEF Lies, Within
<1>3. QED
  BY <1>2, PlainAgrees DEF Clear, Lies

LEMMA ClearRanges ==
  /\ Clear(0, \h3FFF) /\ Clear(\h4800, \hA7FF) /\ Clear(\hB900, \hBFFF)
  /\ Clear(\hC058, \hC05B) /\ Clear(\hC180, \hC1FF) /\ Clear(\hC280, \hC2FF)
  /\ Clear(\hC380, \hC3FF) /\ Clear(\hC480, \hC4FF) /\ Clear(\hC580, \hC5FF)
  /\ Clear(\hC640, \hC6FF) /\ Clear(\hC800, \hCC61) /\ Clear(\hCC63, \hD10C)
  /\ Clear(\hD10E, \hD5FF) /\ Clear(\hD601, \hF9FF) /\ Clear(\hFC00, \hFFFF)
<1>1. \A w \in Nat : Special(w) =>
        \/ Within(w, \h4000, \h47FF) \/ Within(w, \hA800, \hB8FF)
        \/ \E c \in 0 .. 7 : Within(w, \hC000 + 256 * c, \hC03F + 256 * c)
        \/ Within(w, \hC050, \hC057) \/ Within(w, \hC05C, \hC05D) \/ Within(w, \hC09E, \hC09F)
        \/ Within(w, \hC14E, \hC14F) \/ w = \hCC62 \/ w = \hD10D \/ w = \hD600
        \/ Within(w, \hFA00, \hFBFF)
  BY DEF Special, SkipWord, EndWord, Within
<1>2. /\ Clear(0, \h3FFF) /\ Clear(\h4800, \hA7FF) /\ Clear(\hB900, \hBFFF)
      /\ Clear(\hC058, \hC05B) /\ Clear(\hC180, \hC1FF) /\ Clear(\hC280, \hC2FF)
  BY <1>1 DEF Clear, Within
<1>3. /\ Clear(\hC380, \hC3FF) /\ Clear(\hC480, \hC4FF) /\ Clear(\hC580, \hC5FF)
      /\ Clear(\hC640, \hC6FF) /\ Clear(\hC800, \hCC61) /\ Clear(\hCC63, \hD10C)
  BY <1>1 DEF Clear, Within
<1>4. Clear(\hD10E, \hD5FF) /\ Clear(\hD601, \hF9FF) /\ Clear(\hFC00, \hFFFF)
  BY <1>1 DEF Clear, Within
<1>5. QED
  BY <1>2, <1>3, <1>4

\* The fields of such a row.
PlainIn(row, f, l) ==
  /\ PlainRow(row) /\ row.at \in Nat /\ f <= row.at
  /\ \/ row.low = 0 /\ row.at <= l
     \/ row.low = 4 /\ row.at + 15 <= l
     \/ row.low = 6 /\ row.at + 63 <= l
     \/ row.low = 7 /\ row.at + 127 <= l
     \/ row.low = 8 /\ row.at + 255 <= l
     \/ row.low = 9 /\ row.at + 511 <= l
     \/ row.low = 10 /\ row.at + 1023 <= l
     \/ row.low = 11 /\ row.at + 2047 <= l

LEMMA FitsGood ==
  ASSUME NEW row, NEW f \in Nat, NEW l \in Nat, PlainIn(row, f, l), Clear(f, l), Begins(row)
  PROVE  Good(row)
<1>1. Spans(row)
  BY RowSpans
<1>2. Width(row.low) \in Nat /\ row.at + Width(row.low) <= l + 1
  BY DEF PlainIn, Width
<1>3. Lies(row, f, l)
  BY <1>1, <1>2 DEF Lies, PlainIn
<1>4. QED
  BY <1>3, PlainGood

LEMMA MemoryGood == \A i \in 1 .. 12 : Good(MemoryRows[i])
<1>1. \A i \in 1 .. 8 : PlainIn(MemoryRows[i], 0, \h3FFF)
  BY DEF PlainIn, PlainRow, MemoryRows, Row
<1>2. \A i \in 10 .. 12 : PlainIn(MemoryRows[i], \h4800, \hA7FF)
  BY DEF PlainIn, PlainRow, MemoryRows, Row
<1>3. Spans(MemoryRows[9])
  BY TablesBegin, RowSpans
<1>4. Good(MemoryRows[9])
  BY <1>3 DEF Good, Spans, Takes, MemoryRows, Row, Width, Agree, Within, SkipWord, EndWord,
              SkipRow, JumpRow, EndRow
<1>5. QED
  BY <1>1, <1>2, <1>4, ClearRanges, FitsGood, TablesBegin

LEMMA ArithmeticGood == \A i \in 1 .. 9 : Good(ArithmeticRows[i])
<1>1. \A i \in 1 .. 9 : PlainIn(ArithmeticRows[i], \h4800, \hA7FF)
  BY DEF PlainIn, PlainRow, ArithmeticRows, Row
<1>2. QED
  BY <1>1, ClearRanges, FitsGood, TablesBegin

LEMMA BranchGood ==
  /\ Good(BranchRows[1]) /\ Good(BranchRows[3]) /\ Good(BranchRows[4]) /\ Good(BranchRows[5])
  /\ \A w \in Nat : Matches(w, BranchRows[2]) => Agree(BranchRows[2], w) \/ Matches(w, BranchRows[1])
  /\ \A w \in Nat : Matches(w, BranchRows[6]) => Agree(BranchRows[6], w) \/ Matches(w, BranchRows[4])
<1>1. \A i \in 1 .. 6 : Spans(BranchRows[i])
  BY TablesBegin, RowSpans
<1>2. Good(BranchRows[1])
  BY <1>1 DEF Good, Spans, Takes, BranchRows, Row, Width, Agree, Within, SkipWord, EndWord,
              SkipRow, JumpRow, EndRow
<1>3. Good(BranchRows[3])
  BY <1>1 DEF Good, Spans, Takes, BranchRows, Row, Width, Agree, Within, SkipWord, EndWord,
              SkipRow, JumpRow, EndRow
<1>4. Good(BranchRows[4])
  BY <1>1 DEF Good, Spans, Takes, BranchRows, Row, Width, Agree, Within, SkipWord, EndWord,
              SkipRow, JumpRow, EndRow
<1>5. PlainIn(BranchRows[5], \hB900, \hBFFF)
  BY DEF PlainIn, PlainRow, BranchRows, Row
<1>6. Good(BranchRows[5])
  BY <1>5, ClearRanges, FitsGood, TablesBegin
<1>7. ASSUME NEW w \in Nat, Matches(w, BranchRows[2])
      PROVE  Agree(BranchRows[2], w) \/ Matches(w, BranchRows[1])
  BY <1>1, <1>7 DEF Spans, Takes, BranchRows, Row, Width, Agree, Within, SkipWord, EndWord,
                    SkipRow, JumpRow, EndRow
<1>8. ASSUME NEW w \in Nat, Matches(w, BranchRows[6])
      PROVE  Agree(BranchRows[6], w) \/ Matches(w, BranchRows[4])
  <2>1. PlainRow(BranchRows[6])
    BY DEF PlainRow, BranchRows, Row
  <2>2. Matches(w, BranchRows[4]) \/ Within(w, \hB900, \hBFFF)
    BY <1>1, <1>8 DEF Spans, Takes, BranchRows, Row, Width, Within
  <2>3. QED
    BY <2>1, <2>2, ClearRanges, PlainAgrees DEF Clear
<1>9. QED
  BY <1>2, <1>3, <1>4, <1>6, <1>7, <1>8

LEMMA FrameGood == \A i \in 1 .. 5 : Good(FrameRows[i])
<1>1. \A i \in 1 .. 5 : Spans(FrameRows[i])
  BY TablesBegin, RowSpans
<1>2. QED
  BY <1>1 DEF Good, Spans, Takes, FrameRows, Row, Width, Agree, Within, SkipWord, EndWord,
              SkipRow, JumpRow, EndRow

LEMMA SkipGood == (\A i \in 1 .. 8 : Good(SkipHead[i])) /\ (\A i \in 1 .. 3 : Good(SkipTail[i]))
<1>1. ASSUME NEW row, row.type = "CJMP", row.name \notin {"Jcc", "ENTR", "INIT", "JMP", "MON"}
      PROVE  /\ ~JumpRow(row) /\ row.type # "CALL" /\ SkipRow(row)
             /\ \A w : ~EndRow(row, w)
  BY <1>1 DEF JumpRow, EndRow, SkipRow
<1>2. \A w \in Nat : Within(w, \hC000, \hD5FF) =>
        /\ ~Within(w, \hA800, \hA8FF) /\ ~Within(w, \hB000, \hB7FF) /\ ~Within(w, \hB800, \hB8FF)
        /\ ~Within(w, \hA900, \hAFFF)
  BY DEF Within
<1>3. ASSUME NEW i \in 1 .. 8 PROVE Good(SkipHead[i])
  <2>1. /\ SkipHead[i].type = "CJMP" /\ SkipHead[i].name = "SKP"
        /\ SkipHead[i].low = 6 /\ SkipHead[i].at = \hC000 + 256 * (i - 1)
    BY DEF SkipHead, Row
  <2>2. Spans(SkipHead[i])
    BY TablesBegin, RowSpans
  <2>3. \A w \in Nat : Matches(w, SkipHead[i]) =>
          Within(w, \hC000 + 256 * (i - 1), \hC03F + 256 * (i - 1))
    BY <2>1, <2>2 DEF Spans, Takes, Width, Within
  <2>4. i - 1 \in 0 .. 7
    OBVIOUS
  <2>5. \A w \in Nat : Within(w, \hC000 + 256 * (i - 1), \hC03F + 256 * (i - 1)) =>
          SkipWord(w) /\ ~EndWord(w) /\ w # \hC05C /\ w # \hC05D /\ Within(w, \hC000, \hD5FF)
    <3>1. \A w : Within(w, \hC000 + 256 * (i - 1), \hC03F + 256 * (i - 1)) => SkipWord(w)
      BY <2>4 DEF SkipWord
    <3>2. \A w \in Nat : Within(w, \hC000 + 256 * (i - 1), \hC03F + 256 * (i - 1)) =>
            ~EndWord(w) /\ w # \hC05C /\ w # \hC05D /\ Within(w, \hC000, \hD5FF)
      BY DEF EndWord, Within
    <3>3. QED
      BY <3>1, <3>2
  <2>6. QED
    BY <1>1, <1>2, <2>1, <2>3, <2>5 DEF Good, Agree
<1>4. ASSUME NEW i \in 1 .. 3 PROVE Good(SkipTail[i])
  <2>1. /\ SkipTail[i].type = "CJMP"
        /\ SkipTail[i].name \notin {"Jcc", "ENTR", "INIT", "JMP", "MON"}
    BY DEF SkipTail, Row
  <2>2. Spans(SkipTail[i])
    BY TablesBegin, RowSpans
  <2>3. \A w \in Nat : Matches(w, SkipTail[i]) =>
          Within(w, \hC050, \hC057) \/ w = \hC14E \/ w = \hC14F
    BY <2>2 DEF Spans, Takes, Width, Within, SkipTail, Row
  <2>4. \A w \in Nat : Within(w, \hC050, \hC057) \/ w = \hC14E \/ w = \hC14F =>
          SkipWord(w) /\ ~EndWord(w) /\ w # \hC05C /\ w # \hC05D /\ Within(w, \hC000, \hD5FF)
    BY DEF SkipWord, EndWord, Within
  <2>5. QED
    BY <1>1, <1>2, <2>1, <2>3, <2>4 DEF Good, Agree
<1>5. QED
  BY <1>3, <1>4

LEMMA RopGood ==
  /\ \A i \in 1 .. 18 : i # 9 => Good(RopRows[i])
  /\ \A w \in Nat : Matches(w, RopRows[9]) => Agree(RopRows[9], w) \/ w = \hCC62
<1>1. \A i \in 1 .. 8 : PlainIn(RopRows[i], \hC800, \hCC61)
  BY DEF PlainIn, PlainRow, RopRows, Row
<1>2. \A i \in 10 .. 14 : PlainIn(RopRows[i], \hCC63, \hD10C)
  BY DEF PlainIn, PlainRow, RopRows, Row
<1>3. \A i \in 15 .. 17 : PlainIn(RopRows[i], \hD10E, \hD5FF)
  BY DEF PlainIn, PlainRow, RopRows, Row
<1>4. PlainIn(RopRows[18], \hCC63, \hD10C)
  BY DEF PlainIn, PlainRow, RopRows, Row
<1>5. ASSUME NEW w \in Nat, Matches(w, RopRows[9]), w # \hCC62 PROVE Agree(RopRows[9], w)
  <2>1. PlainRow(RopRows[9])
    BY DEF PlainRow, RopRows, Row
  <2>2. Spans(RopRows[9])
    BY TablesBegin, RowSpans
  <2>3. Within(w, \hC800, \hCC61) \/ Within(w, \hCC63, \hD10C)
    BY <1>5, <2>2 DEF Spans, Takes, RopRows, Row, Width, Within
  <2>4. QED
    BY <2>1, <2>3, ClearRanges, PlainAgrees DEF Clear
<1>6. (\A i \in 1 .. 8 : Good(RopRows[i])) /\ (\A i \in 10 .. 14 : Good(RopRows[i]))
  BY <1>1, <1>2, ClearRanges, FitsGood, TablesBegin
<1>7. (\A i \in 15 .. 17 : Good(RopRows[i])) /\ Good(RopRows[18])
  BY <1>3, <1>4, ClearRanges, FitsGood, TablesBegin
<1>8. QED
  BY <1>5, <1>6, <1>7

LEMMA ByteGood == \A i \in 1 .. 10 : Good(ByteRows[i])
<1>1. /\ PlainIn(ByteRows[1], \hC280, \hC2FF) /\ PlainIn(ByteRows[2], \hC380, \hC3FF)
      /\ PlainIn(ByteRows[3], \hC480, \hC4FF) /\ PlainIn(ByteRows[4], \hC580, \hC5FF)
  BY DEF PlainIn, PlainRow, ByteRows, Row
<1>2. \A i \in 5 .. 7 : PlainIn(ByteRows[i], \hC058, \hC05B)
  BY DEF PlainIn, PlainRow, ByteRows, Row
<1>3. /\ PlainIn(ByteRows[8], \hC640, \hC6FF) /\ PlainIn(ByteRows[9], \hC180, \hC1FF)
      /\ PlainIn(ByteRows[10], \hD601, \hF9FF)
  BY DEF PlainIn, PlainRow, ByteRows, Row
<1>4. \A i \in 1 .. 10 : Begins(ByteRows[i])
  BY TablesBegin
<1>5. Good(ByteRows[1]) /\ Good(ByteRows[2]) /\ Good(ByteRows[3]) /\ Good(ByteRows[4])
  BY <1>1, <1>4, ClearRanges, FitsGood
<1>6. \A i \in 5 .. 7 : Good(ByteRows[i])
  BY <1>2, <1>4, ClearRanges, FitsGood
<1>7. Good(ByteRows[8]) /\ Good(ByteRows[9]) /\ Good(ByteRows[10])
  BY <1>3, <1>4, ClearRanges, FitsGood
<1>8. QED
  BY <1>5, <1>6, <1>7

\* NLZ, DNZ and SRB come after the rows of RADD that take their words.
LEMMA SystemGood ==
  /\ \A i \in 1 .. 24 : i \notin 18 .. 20 => Good(SystemRows[i])
  /\ \A i \in 18 .. 20 : \A w \in Nat :
       Matches(w, SystemRows[i]) => Matches(w, RopRows[15]) \/ Matches(w, RopRows[17])
<1>1. \A i \in 1 .. 24 : Spans(SystemRows[i])
  BY TablesBegin, RowSpans
<1>2. \A i \in 1 .. 13 : PlainIn(SystemRows[i], \hCC63, \hD10C)
  BY DEF PlainIn, PlainRow, SystemRows, Row
<1>3. Good(SystemRows[14])
  BY <1>1 DEF Good, Spans, Takes, SystemRows, Row, Width, Agree, Within, SkipWord, EndWord,
              SkipRow, JumpRow, EndRow
<1>4. /\ \A i \in 15 .. 17 : PlainIn(SystemRows[i], \hD10E, \hD5FF)
      /\ PlainIn(SystemRows[21], \hD10E, \hD5FF)
  BY DEF PlainIn, PlainRow, SystemRows, Row
<1>5. \A i \in 22 .. 23 : PlainIn(SystemRows[i], \hD601, \hF9FF)
  BY DEF PlainIn, PlainRow, SystemRows, Row
<1>6. Good(SystemRows[24])
  <2>1. SystemRows[24] = Row("MON", 8, \hD600, "SWI", "CPU")
    BY DEF SystemRows
  <2>2. /\ ~JumpRow(SystemRows[24]) /\ ~SkipRow(SystemRows[24])
        /\ \A w : EndRow(SystemRows[24], w) <=> w % 256 = 0
        /\ SystemRows[24].type # "CALL" /\ SystemRows[24].name \notin {"Jcc", "ENTR", "INIT"}
    BY <2>1 DEF Row, JumpRow, SkipRow, EndRow
  <2>3. \A w \in Nat : Matches(w, SystemRows[24]) => Within(w, \hD600, \hD6FF)
    BY <1>1, <2>1 DEF Spans, Takes, Row, Width, Within
  <2>4. \A w \in Nat : Within(w, \hD600, \hD6FF) => (w % 256 = 0 <=> w = \hD600)
    BY DEF Within
  <2>5. \A w \in Nat : Within(w, \hD600, \hD6FF) =>
          /\ ~SkipWord(w) /\ (EndWord(w) <=> w = \hD600) /\ w # \hC05C /\ w # \hC05D
          /\ ~Within(w, \hA800, \hA8FF) /\ ~Within(w, \hB000, \hB7FF) /\ ~Within(w, \hB800, \hB8FF)
    BY DEF Within, SkipWord, EndWord
  <2>6. QED
    BY <2>2, <2>3, <2>4, <2>5 DEF Good, Agree
<1>7. \A i \in 1 .. 24 : Begins(SystemRows[i])
  BY TablesBegin
<1>8. \A i \in 1 .. 13 : Good(SystemRows[i])
  BY <1>2, <1>7, ClearRanges, FitsGood
<1>9. (\A i \in 15 .. 17 : Good(SystemRows[i])) /\ Good(SystemRows[21])
  BY <1>4, <1>7, ClearRanges, FitsGood
<1>10. \A i \in 22 .. 23 : Good(SystemRows[i])
  BY <1>5, <1>7, ClearRanges, FitsGood
<1>11. ASSUME NEW i \in 18 .. 20, NEW w \in Nat, Matches(w, SystemRows[i])
       PROVE  Matches(w, RopRows[15]) \/ Matches(w, RopRows[17])
  <2>1. \hD300 <= w /\ w <= \hD57F
    BY <1>1, <1>11 DEF Spans, Takes, SystemRows, Row, Width
  <2>2. Spans(RopRows[15]) /\ Spans(RopRows[17])
    BY TablesBegin, RowSpans
  <2>3. QED
    BY <2>1, <2>2 DEF Spans, Takes, RopRows, Row, Width
<1>12. QED
  BY <1>3, <1>6, <1>8, <1>9, <1>10, <1>11

LEMMA LastGood ==
  /\ \A i \in 1 .. 3 : Good(ShiftAndIoRows[i])
  /\ \A i \in 1 .. 8 : Good(ArgumentRows[i])
  /\ \A i \in 1 .. 3 : Good(BitRows[i])
<1>1. \A i \in 1 .. 3 : PlainIn(ShiftAndIoRows[i], \hD601, \hF9FF)
  BY DEF PlainIn, PlainRow, ShiftAndIoRows, Row
<1>2. \A i \in 1 .. 8 : PlainIn(ArgumentRows[i], \hD601, \hF9FF)
  BY DEF PlainIn, PlainRow, ArgumentRows, Row
<1>3. PlainIn(BitRows[2], \hD601, \hF9FF) /\ PlainIn(BitRows[3], \hFC00, \hFFFF)
  BY DEF PlainIn, PlainRow, BitRows, Row
<1>4. Good(BitRows[1])
  <2>1. Spans(BitRows[1])
    BY TablesBegin, RowSpans
  <2>2. QED
    BY <2>1 DEF Good, Spans, Takes, BitRows, Row, Width, Agree, Within, SkipWord, EndWord,
                SkipRow, JumpRow, EndRow
<1>5. /\ \A i \in 1 .. 3 : Begins(ShiftAndIoRows[i])
      /\ \A i \in 1 .. 8 : Begins(ArgumentRows[i])
      /\ \A i \in 1 .. 3 : Begins(BitRows[i])
  BY TablesBegin
<1>6. \A i \in 1 .. 3 : Good(ShiftAndIoRows[i])
  BY <1>1, <1>5, ClearRanges, FitsGood
<1>7. \A i \in 1 .. 8 : Good(ArgumentRows[i])
  BY <1>2, <1>5, ClearRanges, FitsGood
<1>8. Good(BitRows[2]) /\ Good(BitRows[3])
  BY <1>3, <1>5, ClearRanges, FitsGood
<1>9. QED
  BY <1>4, <1>6, <1>7, <1>8

\* The row in place i is of the kind of every word it takes, or an earlier one has it.
Earlier(w, i) == \E j \in 1 .. i - 1 : Matches(w, OpRows[j])
Orderly(i) == \A w \in Nat : Matches(w, OpRows[i]) => Agree(OpRows[i], w) \/ Earlier(w, i)

LEMMA GoodOrderly ==
  ASSUME NEW m \in Nat, NEW n \in Nat, NEW T, Follows(m, n, OpRows, T),
         NEW i \in 1 .. n, Good(T[i])
  PROVE  Orderly(m + i)
<1>1. m + i \in m + 1 .. m + n /\ (m + i) - m = i
  OBVIOUS
<1>2. OpRows[m + i] = T[i]
  BY <1>1 DEF Follows
<1>3. QED
  BY <1>2 DEF Good, Orderly

(* Some row but the last takes each word that control does not go straight on *)
(* from.                                                                      *)
LEMMA SpecialTaken == \A w \in Nat : Special(w) => Earlier(w, 110)
<1> SUFFICES ASSUME NEW w \in Nat, Special(w) PROVE Earlier(w, 110)
  OBVIOUS
<1>1. /\ OpRows[9] = MemoryRows[9]
      /\ OpRows[23] = BranchRows[2] /\ OpRows[24] = BranchRows[3] /\ OpRows[25] = BranchRows[4]
      /\ \A i \in 1 .. 5 : OpRows[27 + i] = FrameRows[i]
      /\ \A i \in 1 .. 8 : OpRows[32 + i] = SkipHead[i]
      /\ \A i \in 1 .. 3 : OpRows[40 + i] = SkipTail[i]
      /\ OpRows[85] = SystemRows[14] /\ OpRows[95] = SystemRows[24]
      /\ OpRows[107] = BitRows[1]
  BY RowPlaces DEF Follows
<1>2. \A j \in 1 .. 109 : Matches(w, OpRows[j]) => Earlier(w, 110)
  BY DEF Earlier
<1>3. CASE Within(w, \hA800, \hB8FF)
  <2>1. Spans(BranchRows[2]) /\ Spans(BranchRows[3]) /\ Spans(BranchRows[4])
    BY TablesBegin, RowSpans
  <2>2. Matches(w, BranchRows[2]) \/ Matches(w, BranchRows[3]) \/ Matches(w, BranchRows[4])
    BY <1>3, <2>1 DEF Spans, Takes, Width, Within, BranchRows, Row
  <2>3. QED
    BY <1>1, <1>2, <2>2
<1>4. CASE w = \hC05D \/ w = \hC05C \/ w = \hC09E \/ w = \hC09F \/ w = \hCC62
  <2>1. \A i \in 1 .. 5 : Spans(FrameRows[i])
    BY TablesBegin, RowSpans
  <2>2. \E i \in 1 .. 5 : Matches(w, FrameRows[i])
    BY <1>4, <2>1 DEF Spans, Takes, Width, FrameRows, Row
  <2>3. QED
    BY <1>1, <1>2, <2>2
<1>5. CASE w = \hD10D \/ w = \hD600
  <2>1. Spans(SystemRows[14]) /\ Spans(SystemRows[24])
    BY TablesBegin, RowSpans
  <2>2. /\ SystemRows[14] = Row("IOXT", 0, \hD10D, "CJMP", "IO")
        /\ SystemRows[24] = Row("MON", 8, \hD600, "SWI", "CPU")
    BY DEF SystemRows
  <2>3. Matches(w, SystemRows[14]) \/ Matches(w, SystemRows[24])
    BY <1>5, <2>1, <2>2 DEF Spans, Takes, Width, Row
  <2>4. QED
    BY <1>1, <1>2, <2>3
<1>6. CASE Within(w, \h4000, \h47FF) \/ Within(w, \hFA00, \hFBFF)
  <2>1. Spans(MemoryRows[9]) /\ Spans(BitRows[1])
    BY TablesBegin, RowSpans
  <2>2. Matches(w, MemoryRows[9]) \/ Matches(w, BitRows[1])
    BY <1>6, <2>1 DEF Spans, Takes, Width, Within, MemoryRows, BitRows, Row
  <2>3. QED
    BY <1>1, <1>2, <2>2
<1>7. CASE \E c \in 0 .. 7 : Within(w, \hC000 + 256 * c, \hC03F + 256 * c)
  <2>1. PICK c \in 0 .. 7 : Within(w, \hC000 + 256 * c, \hC03F + 256 * c)
    BY <1>7
  <2>2. c + 1 \in 1 .. 8 /\ 32 + (c + 1) \in 1 .. 109
    OBVIOUS
  <2>3. Spans(SkipHead[c + 1])
    BY <2>2, TablesBegin, RowSpans
  <2>4. SkipHead[c + 1].low = 6 /\ SkipHead[c + 1].at = \hC000 + 256 * c
    BY <2>2 DEF SkipHead, Row
  <2>5. Matches(w, SkipHead[c + 1])
    BY <2>1, <2>3, <2>4 DEF Spans, Takes, Width, Within
  <2>6. QED
    BY <1>1, <1>2, <2>2, <2>5
<1>8. CASE Within(w, \hC050, \hC057) \/ w = \hC14E \/ w = \hC14F
  <2>1. \A i \in 1 .. 3 : Spans(SkipTail[i])
    BY TablesBegin, RowSpans
  <2>2. \E i \in 1 .. 3 : Matches(w, SkipTail[i])
    BY <1>8, <2>1 DEF Spans, Takes, Width, Within, SkipTail, Row
  <2>3. QED
    BY <1>1, <1>2, <2>2
<1>9. Within(w, \hA900, \hAFFF) => Within(w, \hA800, \hB8FF)
  BY DEF Within
<1>10. QED
  BY <1>3, <1>4, <1>5, <1>6, <1>7, <1>8, <1>9 DEF Special, SkipWord, EndWord

LEMMA AllOrderly == \A i \in 1 .. 110 : Orderly(i)
<1>1. \A i \in 1 .. 12 : Orderly(0 + i)
  BY RowPlaces, MemoryGood, GoodOrderly
<1>2. \A i \in 1 .. 9 : Orderly(12 + i)
  BY RowPlaces, ArithmeticGood, GoodOrderly
<1>3. \A i \in 1 .. 6 : Orderly(21 + i)
  <2>1. /\ Orderly(21 + 1) /\ Orderly(21 + 3) /\ Orderly(21 + 4) /\ Orderly(21 + 5)
    BY RowPlaces, BranchGood, GoodOrderly
  <2>2. /\ OpRows[22] = BranchRows[1] /\ OpRows[23] = BranchRows[2]
        /\ OpRows[25] = BranchRows[4] /\ OpRows[27] = BranchRows[6]
    BY RowPlaces DEF Follows
  <2>3. 22 \in 1 .. 23 - 1 /\ 25 \in 1 .. 27 - 1
    OBVIOUS
  <2>4. Orderly(23) /\ Orderly(27)
    BY <2>2, <2>3, BranchGood DEF Orderly, Earlier
  <2>5. QED
    BY <2>1, <2>4
<1>4. \A i \in 1 .. 5 : Orderly(27 + i)
  BY RowPlaces, FrameGood, GoodOrderly
<1>5. \A i \in 1 .. 8 : Orderly(32 + i)
  BY RowPlaces, SkipGood, GoodOrderly
<1>6. \A i \in 1 .. 3 : Orderly(40 + i)
  BY RowPlaces, SkipGood, GoodOrderly
<1>7. \A i \in 1 .. 18 : Orderly(43 + i)
  <2>1. \A i \in 1 .. 18 : i # 9 => Orderly(43 + i)
    BY RowPlaces, RopGood, GoodOrderly
  <2>2. OpRows[52] = RopRows[9] /\ OpRows[32] = FrameRows[5]
    BY RowPlaces DEF Follows
  <2>3. Matches(\hCC62, FrameRows[5])
    BY DEF Matches, FrameRows, Row
  <2>4. 32 \in 1 .. 52 - 1
    OBVIOUS
  <2>5. Orderly(52)
    BY <2>2, <2>3, <2>4, RopGood DEF Orderly, Earlier
  <2>6. QED
    BY <2>1, <2>5
<1>8. \A i \in 1 .. 10 : Orderly(61 + i)
  BY RowPlaces, ByteGood, GoodOrderly
<1>9. \A i \in 1 .. 24 : Orderly(71 + i)
  <2>1. \A i \in 1 .. 24 : i \notin 18 .. 20 => Orderly(71 + i)
    BY RowPlaces, SystemGood, GoodOrderly
  <2>2. /\ \A i \in 18 .. 20 : OpRows[71 + i] = SystemRows[i]
        /\ OpRows[58] = RopRows[15] /\ OpRows[60] = RopRows[17]
    BY RowPlaces DEF Follows
  <2>3. \A i \in 18 .. 20 : 58 \in 1 .. (71 + i) - 1 /\ 60 \in 1 .. (71 + i) - 1
    OBVIOUS
  <2>4. \A i \in 18 .. 20 : Orderly(71 + i)
    BY <2>2, <2>3, SystemGood DEF Orderly, Earlier
  <2>5. QED
    BY <2>1, <2>4
<1>10. \A i \in 1 .. 3 : Orderly(95 + i)
  BY RowPlaces, LastGood, GoodOrderly
<1>11. \A i \in 1 .. 8 : Orderly(98 + i)
  BY RowPlaces, LastGood, GoodOrderly
<1>12. \A i \in 1 .. 3 : Orderly(106 + i)
  BY RowPlaces, LastGood, GoodOrderly
<1>13. Orderly(110)
  <2>1. OpRows[110] = BitRows[4] /\ PlainRow(BitRows[4])
    BY RowsAre DEF PlainRow, BitRows, Row
  <2>2. QED
    BY <2>1, SpecialTaken, PlainAgrees DEF Orderly
<1> HIDE DEF Orderly
<1>14. /\ \A i \in 1 .. 12 : Orderly(i)
       /\ \A i \in 13 .. 21 : Orderly(i)
       /\ \A i \in 22 .. 27 : Orderly(i)
       /\ \A i \in 28 .. 32 : Orderly(i)
  <2>1. \A i \in 1 .. 12 : 0 + i = i
    OBVIOUS
  <2>2. \A i \in 13 .. 21 : i - 12 \in 1 .. 9 /\ 12 + (i - 12) = i
    OBVIOUS
  <2>3. \A i \in 22 .. 27 : i - 21 \in 1 .. 6 /\ 21 + (i - 21) = i
    OBVIOUS
  <2>4. \A i \in 28 .. 32 : i - 27 \in 1 .. 5 /\ 27 + (i - 27) = i
    OBVIOUS
  <2>5. QED
    BY <1>1, <1>2, <1>3, <1>4, <2>1, <2>2, <2>3, <2>4
<1>15. /\ \A i \in 33 .. 40 : Orderly(i)
       /\ \A i \in 41 .. 43 : Orderly(i)
       /\ \A i \in 44 .. 61 : Orderly(i)
       /\ \A i \in 62 .. 71 : Orderly(i)
  <2>1. \A i \in 33 .. 40 : i - 32 \in 1 .. 8 /\ 32 + (i - 32) = i
    OBVIOUS
  <2>2. \A i \in 41 .. 43 : i - 40 \in 1 .. 3 /\ 40 + (i - 40) = i
    OBVIOUS
  <2>3. \A i \in 44 .. 61 : i - 43 \in 1 .. 18 /\ 43 + (i - 43) = i
    OBVIOUS
  <2>4. \A i \in 62 .. 71 : i - 61 \in 1 .. 10 /\ 61 + (i - 61) = i
    OBVIOUS
  <2>5. QED
    BY <1>5, <1>6, <1>7, <1>8, <2>1, <2>2, <2>3, <2>4
<1>16. /\ \A i \in 72 .. 95 : Orderly(i)
       /\ \A i \in 96 .. 98 : Orderly(i)
       /\ \A i \in 99 .. 106 : Orderly(i)
       /\ \A i \in 107 .. 109 : Orderly(i)
  <2>1. \A i \in 72 .. 95 : i - 71 \in 1 .. 24 /\ 71 + (i - 71) = i
    OBVIOUS
  <2>2. \A i \in 96 .. 98 : i - 95 \in 1 .. 3 /\ 95 + (i - 95) = i
    OBVIOUS
  <2>3. \A i \in 99 .. 106 : i - 98 \in 1 .. 8 /\ 98 + (i - 98) = i
    OBVIOUS
  <2>4. \A i \in 107 .. 109 : i - 106 \in 1 .. 3 /\ 106 + (i - 106) = i
    OBVIOUS
  <2>5. QED
    BY <1>9, <1>10, <1>11, <1>12, <2>1, <2>2, <2>3, <2>4
<1>17. QED
  BY <1>13, <1>14, <1>15, <1>16

(* The row that decides of a word is of the kind the word is of.              *)
LEMMA RowAgrees == \A w \in Nat : w < 65536 => Agree(RowOf(w), w)
<1> SUFFICES ASSUME NEW w \in Nat, w < 65536 PROVE Agree(RowOf(w), w)
  OBVIOUS
<1> DEFINE k == Min(Matching(w))
<1>1. Len(OpRows) = 110
  BY RowsAre DEF Rows
<1>2. Matching(w) = {i \in 1 .. 110 : Matches(w, OpRows[i])}
  BY <1>1 DEF Matching
<1>3. 110 \in Matching(w)
  BY <1>2, OtherMatches, RowsAre
<1>4. Least(Matching(w), k)
  <2>1. Matching(w) # {} /\ Matching(w) \subseteq Nat
    BY <1>2, <1>3
  <2>2. QED
    BY <2>1, FirstMatching
<1>5. RowOf(w) = OpRows[k]
  BY DEF RowOf, Matching
<1> HIDE DEF k
<1>6. k \in 1 .. 110 /\ Matches(w, OpRows[k])
  BY <1>2, <1>4 DEF Least
<1>7. ~Earlier(w, k)
  <2>1. \A j \in 1 .. k - 1 : j \in 1 .. 110 /\ ~(k <= j)
    BY <1>6
  <2>2. QED
    BY <1>2, <1>4, <2>1 DEF Least, Earlier
<1>8. Orderly(k)
  BY <1>6, AllOrderly
<1>9. Agree(OpRows[k], w)
  BY <1>6, <1>7, <1>8 DEF Orderly
<1>10. QED
  BY <1>5, <1>9
=============================================================================
