--------------------------- MODULE AddrModeProofs ---------------------------
(***************************************************************************)
(* The two ways to write an addressing mode, "-4,B" and ",B -4", assemble  *)
(* to the same word or are both refused, for every line whatever.          *)
(***************************************************************************)
EXTENDS AsmProofs

\* What may stand behind the mnemonic of a memory reference.
Operands == Commas \cup {"I", "#"}

LEMMA OperandNames ==
  /\ Operands \cap DOMAIN StageOf = {} /\ ";" \notin Operands
  /\ ";" \notin DOMAIN MemrefOp
  /\ AfterNumber \subseteq Commas /\ "#" \notin Commas /\ "I" \notin Commas
  /\ "" \notin Commas
<1> DEFINE free(names) == /\ ",B" \notin names /\ "~,B" \notin names /\ ",X" \notin names
                          /\ "~,X" \notin names /\ "I" \notin names /\ "#" \notin names
<1>1. Operands = {",B", "~,B", ",X", "~,X", "I", "#"}
  BY DEF Operands, Commas, CommaB, CommaX
<1>2. free(DOMAIN FixedOp)
  BY SMT DEF FixedOp
<1>3. free(DOMAIN MemrefOp) /\ ";" \notin DOMAIN MemrefOp
  BY SMT DEF MemrefOp
<1>4. free(DOMAIN CbrOp) /\ free(DOMAIN ArgOp)
  BY SMT DEF CbrOp, ArgOp
<1>5. free(DOMAIN DeltaOp) /\ free(DOMAIN RegOp)
  BY SMT DEF DeltaOp, RegOp
<1>6. free(DOMAIN AliasOp) /\ free(DOMAIN ShiftOp) /\ free(DOMAIN IntOp)
  BY SMT DEF AliasOp, ShiftOp, IntOp
<1>7. free(DOMAIN CondBitOp) /\ free(DOMAIN BitOp) /\ free(OddNames)
  BY SMT DEF CondBitOp, BitOp, OddNames
<1>8. Operands \cap DOMAIN StageOf = {}
  <2> SUFFICES ASSUME NEW m \in Operands PROVE m \notin DOMAIN StageOf
    OBVIOUS
  <2>1. m \in {",B", "~,B", ",X", "~,X", "I", "#"}
    BY <1>1
  <2>2. \A names : free(names) => m \notin names
    BY <2>1
  <2> HIDE DEF free
  <2>3. QED
    BY <1>2, <1>3, <1>4, <1>5, <1>6, <1>7, <2>2, StageNames, Zenon
<1>9. /\ ";" \notin Operands /\ AfterNumber \subseteq Commas
      /\ "#" \notin Commas /\ "I" \notin Commas /\ "" \notin Commas
  BY <1>1 DEF AfterNumber, Commas, CommaB, CommaX
<1>10. QED
  BY <1>3, <1>8, <1>9

LEMMA StagesFromOne == \A m \in DOMAIN StageOf : StageOf[m] >= 1
<1>1. DOMAIN Stages = 1 .. Len(Stages) /\ Len(Stages) \in Nat
  BY DEF Stages
<1> HIDE DEF Stages
<1>2. StageOf = [m \in UNION Range(Stages) |-> CHOOSE k \in 1 .. Len(Stages) : m \in Stages[k]]
  BY DEF StageOf
<1>3. \A m \in UNION Range(Stages) : \E k \in 1 .. Len(Stages) : m \in Stages[k]
  BY <1>1 DEF Range
<1>4. QED
  BY <1>1, <1>2, <1>3

-----------------------------------------------------------------------------
\* The cascade on a memory reference.

(* A line without a comment is its own statement.                             *)
Uncommented(text) == \A i \in 1 .. Len(text) : text[i].t # ";"

LEMMA WholeStatement ==
  ASSUME NEW text, IsText(text), Uncommented(text)
  PROVE  Statement(text) = text
<1> DEFINE T == {tok.t : tok \in Range(text)} \ {";"}
           n == Run(text, T)
           S == {text[i] : i \in 1 .. Len(text)}
<1>1. Len(text) \in Nat /\ text \in Seq(S)
  BY TextSeq
<1>2. \A i \in 1 .. Len(text) : text[i].t \in T
  <2>1. DOMAIN text = 1 .. Len(text)
    <3> HIDE DEF S
    <3>1. QED
      BY <1>1
  <2>2. \A i \in 1 .. Len(text) : text[i] \in Range(text)
    BY <2>1 DEF Range
  <2>3. QED
    BY <2>2 DEF Uncommented
<1> HIDE DEF T
<1>3. n \in 0 .. Len(text) /\ Len(text) <= n
  <2>1. Len(text) \in 0 .. Len(text)
    <3> DEFINE k == Len(text)
    <3>1. k \in Nat
      BY <1>1
    <3> HIDE DEF k
    <3>2. k \in 0 .. k
      BY <3>1
    <3>3. QED
      BY <3>2 DEF k
  <2>2. QED
    BY <1>2, <2>1, RunText
<1> HIDE DEF n, S
<1>4. n = Len(text)
  BY <1>1, <1>3
<1>5. Statement(text) = SubSeq(text, 1, Len(text))
  BY <1>4 DEF Statement, T, n
<1>6. QED
  BY <1>1, <1>5, SubSeqFull

(* What is behind the mnemonic.                                               *)
LEMMA DropFirst ==
  ASSUME NEW p, IsText(p), Len(p) > 0
  PROVE  /\ IsText(Drop(p, 1)) /\ Len(Drop(p, 1)) = Len(p) - 1
         /\ \A i \in Nat : 0 < i /\ 1 + i <= Len(p) => Drop(p, 1)[i] = p[1 + i]
<1>1. Len(p) \in Nat
  BY TextSeq
<1>2. 1 \in Nat /\ 1 <= Len(p)
  BY <1>1
<1>3. /\ IsText(Drop(p, 1))
      /\ Len(Drop(p, 1)) = IF 1 <= Len(p) THEN Len(p) - 1 ELSE 0
      /\ \A i \in Nat : 0 < i /\ 1 + i <= Len(p) => Drop(p, 1)[i] = p[1 + i]
  BY <1>2, DropText, Zenon
<1>4. QED
  BY <1>2, <1>3, Zenon

(* Only the stage of its mnemonic ever sees such a line.                      *)
LEMMA MemrefEncode ==
  ASSUME NEW text, IsText(text), Len(text) > 0, First(text).t \in DOMAIN MemrefOp,
         \A i \in 2 .. Len(text) : text[i].t \in Operands
  PROVE  Encode(text) = MemrefStage(MemrefOp[First(text).t], Drop(text, 1)).word
<1> DEFINE m == First(text).t
           q == Drop(text, 1)
           r == MemrefStage(MemrefOp[m], q)
           tried == Tried(text)
           s0 == [p |-> text, word |-> NONE, next |-> 1]
           s1 == [p |-> r.p, word |-> r.word, next |-> StageOf[m] + 1]
<1>1. Len(text) \in Nat /\ First(text) = text[1]
  BY TextSeq, FirstText
<1>2. Uncommented(text)
  <2> SUFFICES ASSUME NEW i \in 1 .. Len(text) PROVE text[i].t # ";"
    BY DEF Uncommented
  <2>1. CASE i = 1
    BY <1>1, <2>1, OperandNames
  <2>2. CASE i # 1
    <3>1. i \in 2 .. Len(text)
      BY <1>1, <2>2
    <3>2. QED
      BY <3>1, OperandNames
  <2>3. QED
    BY <2>1, <2>2
<1>3. /\ tried[0] = s0
      /\ \A k \in 0 .. Len(text) - 1 : tried[k + 1] = Try(tried[k])
  BY <1>2, WholeStatement, TriedSteps
<1>4. Encode(text) = tried[Len(text)].word
  BY <1>2, WholeStatement DEF Encode
<1>5. IsText(q) /\ Tokens(q) \subseteq Operands
  <2>1. IsText(q) /\ Len(q) = Len(text) - 1 /\ \A i \in Nat : 0 < i /\ 1 + i <= Len(text) => q[i] = text[1 + i]
    BY <1>1, DropFirst, Zenon
  <2> HIDE DEF q
  <2>2. ASSUME NEW i \in 1 .. Len(q)
        PROVE  q[i].t \in Operands
    <3>1. i \in Nat /\ 0 < i /\ 1 + i \in 2 .. Len(text) /\ 1 + i <= Len(text)
      BY <1>1, <2>1
    <3>2. q[i] = text[1 + i]
      BY <2>1, <3>1
    <3>3. QED
      BY <3>1, <3>2
  <2>3. QED
    BY <2>1, <2>2 DEF Tokens
<1>6. m \in DOMAIN StageOf /\ StageOf[m] \in Nat
  BY StageNames, StageNumbers, Zenon
<1>7. StageOf[m] >= 1
  BY <1>6, StagesFromOne
<1>8. Try(s0) = s1
  <2>1. First(s0.p).t = m /\ s0.word = NONE /\ s0.next = 1 /\ Drop(s0.p, 1) = q
    OBVIOUS
  <2>2. Stage(m, q) = r
    BY StageCases
  <2> HIDE DEF m, q, r, s0
  <2>3. QED
    BY <1>6, <1>7, <2>1, <2>2, Zenon DEF Try
<1>9. Try(s1) = s1
  <2>1. IsText(r.p) /\ Tokens(r.p) \subseteq Operands
    BY <1>5, MemrefReads DEF Reads
  <2>2. First(s1.p).t \notin DOMAIN StageOf
    <3>1. s1.p = r.p
      OBVIOUS
    <3> DEFINE p == r.p
    <3> HIDE DEF r
    <3>2. CASE p = <<>>
      BY <3>1, <3>2, StageNumbers DEF First, End, Kw
    <3>3. CASE p # <<>>
      <4>1. Len(p) \in Nat /\ Len(p) # 0
        BY <2>1, <3>3, TextSeq
      <4>2. First(p) = p[1] /\ 1 \in 1 .. Len(p)
        BY <2>1, <4>1, FirstText
      <4>3. First(p).t \in Operands
        BY <2>1, <4>2 DEF Tokens
      <4>4. QED
        BY <3>1, <4>3, OperandNames
    <3>4. QED
      BY <3>2, <3>3
  <2> HIDE DEF s1
  <2>3. QED
    BY <2>2 DEF Try
<1> HIDE DEF tried, s0, s1, r
<1> DEFINE T == {k \in Nat : k + 1 <= Len(text) => tried[k + 1] = s1}
<1>10. Len(text) - 1 \in T
  <2>1. 0 \in T
    <3>1. 0 \in 0 .. Len(text) - 1 /\ 0 + 1 = 1
      BY <1>1
    <3>2. tried[0 + 1] = s1
      BY <1>3, <1>8, <3>1
    <3>3. QED
      BY <3>2
  <2>2. ASSUME NEW k \in T
        PROVE  k + 1 \in T
    <3>1. CASE k + 1 + 1 <= Len(text)
      <4>1. k + 1 \in 0 .. Len(text) - 1 /\ k + 1 <= Len(text)
        BY <1>1, <3>1
      <4>2. tried[k + 1 + 1] = s1
        BY <1>3, <1>9, <4>1
      <4>3. QED
        BY <4>2
    <3>2. QED
      BY <3>1
  <2>3. T = Nat
    <3> HIDE DEF T
    <3>1. T \subseteq Nat
      BY DEF T
    <3>2. QED
      BY <2>1, <2>2, <3>1, SetInduction
  <2>4. Len(text) - 1 \in Nat
    BY <1>1
  <2>5. QED
    BY <2>3, <2>4, Zenon
<1>11. tried[Len(text)] = s1
  <2>1. Len(text) - 1 + 1 = Len(text) /\ Len(text) - 1 \in Nat
    BY <1>1
  <2>2. QED
    BY <1>1, <1>10, <2>1
<1>12. QED
  BY <1>4, <1>11 DEF s1, r, q, m

-----------------------------------------------------------------------------
\* Addressing modes before and behind a number.

(* The number of q is at c + 1, with modes before it and modes written        *)
(* against it behind it.                                                      *)
Reference(q, c) ==
  /\ IsText(q) /\ c \in Nat /\ c < Len(q) /\ IsNum(q[c + 1])
  /\ \A i \in 1 .. c : q[i].t \in Commas \cup {"I"}
  /\ \A i \in c + 2 .. Len(q) : q[i].t \in Commas
  /\ c + 2 <= Len(q) => q[c + 2].t \in AfterNumber

\* parse_addrmode takes an I only at the front or behind the mode that is there.
Leads == {",B", ",X"}
GoodModes(q, c) == \A i \in 1 .. c : q[i].t = "I" => i = 1 \/ (i = 2 /\ q[1].t \in Leads)

LEMMA ModesTaken ==
  ASSUME NEW q, NEW c, Reference(q, c)
  PROVE  LET at == parse_addrmode(q) IN at \in 0 .. c /\ (at = c <=> GoodModes(q, c))
<1> DEFINE lead == IF First(q).t \in Leads THEN 1 ELSE 0
           rest == Drop(q, lead)
           ind == IF First(rest).t = "I" /\ Len(q) > lead + 1 THEN 1 ELSE 0
           k == lead + ind
           tail == Drop(q, k)
           r == Run(tail, Commas)
           at == parse_addrmode(q)
<1>1. at = lead + ind + r
  BY DEF parse_addrmode, Leads
<1>2. IsText(q) /\ c \in Nat /\ Len(q) \in Nat /\ c < Len(q) /\ q[c + 1].t = "#"
  BY TextSeq DEF Reference, IsNum
<1>3. \A i \in 1 .. c : q[i].t \in Commas \cup {"I"}
  BY DEF Reference
<1>4. First(q) = q[1] /\ (c = 0 => q[1].t = "#")
  BY <1>2, FirstText
<1>5. "#" \notin Commas /\ "I" \notin Commas /\ "#" \notin Leads /\ "I" \notin Leads
  BY OperandNames DEF Leads
<1>6. lead \in 0 .. 1 /\ lead <= c
  BY <1>2, <1>4, <1>5
<1>7. First(rest) = q[lead + 1]
  <2>1. lead \in Nat /\ lead < Len(q)
    BY <1>2, <1>6
  <2>2. /\ IsText(rest) /\ Len(rest) = Len(q) - lead
        /\ \A i \in Nat : 0 < i /\ lead + i <= Len(q) => rest[i] = q[lead + i]
    <3> HIDE DEF lead
    <3>1. QED
      BY <1>2, <2>1, DropText
  <2> HIDE DEF rest, lead
  <2>3. rest[1] = q[lead + 1] /\ Len(rest) > 0
    BY <1>2, <2>1, <2>2
  <2>4. QED
    BY <2>2, <2>3, FirstText
<1> HIDE DEF rest
<1>8. /\ k \in 0 .. 2 /\ k <= c
      /\ \A i \in 1 .. k : q[i].t = "I" => i = 1 \/ (i = 2 /\ q[1].t \in Leads)
      /\ \A i \in k + 1 .. c : q[i].t = "I" => ~(i = 1 \/ (i = 2 /\ q[1].t \in Leads))
  <2> DEFINE I(i) == q[i].t = "I"
             leads == q[1].t \in Leads
  <2>1. lead = IF leads THEN 1 ELSE 0
    BY <1>4
  <2>2. ind = IF I(lead + 1) /\ Len(q) > lead + 1 THEN 1 ELSE 0
    BY <1>7
  <2>3. ~I(c + 1) /\ ~(leads /\ I(1)) /\ (c = 0 => ~leads)
    BY <1>2, <1>4, <1>5
  <2> HIDE DEF I, leads, lead, ind
  <2>4. /\ k \in 0 .. 2 /\ k <= c
        /\ \A i \in 1 .. k : I(i) => i = 1 \/ (i = 2 /\ leads)
        /\ \A i \in k + 1 .. c : I(i) => ~(i = 1 \/ (i = 2 /\ leads))
    <3>1. CASE leads /\ I(2)
      <4>1. lead = 1 /\ c # 0 /\ c # 1
        BY <2>1, <2>3, <3>1
      <4>2. ind = 1
        BY <1>2, <2>2, <3>1, <4>1
      <4>3. QED
        BY <1>2, <2>3, <3>1, <4>1, <4>2
    <3>2. CASE leads /\ ~I(2)
      <4>1. lead = 1 /\ ind = 0 /\ c # 0
        BY <2>1, <2>2, <2>3, <3>2
      <4>2. QED
        BY <1>2, <2>3, <3>2, <4>1
    <3>3. CASE ~leads /\ I(1)
      <4>1. lead = 0 /\ c # 0
        BY <2>1, <2>3, <3>3
      <4>2. ind = 1
        BY <1>2, <2>2, <3>3, <4>1
      <4>3. QED
        BY <1>2, <2>3, <3>3, <4>1, <4>2
    <3>4. CASE ~leads /\ ~I(1)
      <4>1. lead = 0 /\ ind = 0
        BY <2>1, <2>2, <3>4
      <4>2. QED
        BY <1>2, <3>4, <4>1
    <3>5. QED
      BY <3>1, <3>2, <3>3, <3>4
  <2>5. QED
    BY <2>4 DEF I, leads
<1> HIDE DEF k
<1>9. /\ IsText(tail) /\ Len(tail) = Len(q) - k
      /\ \A i \in Nat : 0 < i /\ k + i <= Len(q) => tail[i] = q[k + i]
  <2>1. k \in Nat /\ k <= Len(q)
    BY <1>2, <1>8
  <2>2. QED
    BY <1>2, <2>1, DropText
<1>10. /\ r \in 0 .. Len(tail) /\ \A i \in 1 .. r : tail[i].t \in Commas
       /\ \A j \in 0 .. Len(tail) : (\A i \in 1 .. j : tail[i].t \in Commas) => j <= r
  BY <1>9, RunText
<1> HIDE DEF r, tail
<1>11. k + r <= c
  <2>1. SUFFICES ASSUME k + r > c PROVE FALSE
    BY <1>2, <1>8, <1>9, <1>10
  <2>2. c + 1 - k \in 1 .. r /\ k + (c + 1 - k) = c + 1 /\ c + 1 <= Len(q)
    BY <1>2, <1>8, <1>9, <1>10, <2>1
  <2>3. tail[c + 1 - k] = q[c + 1]
    BY <1>9, <2>2
  <2>4. QED
    BY <1>2, <1>5, <1>10, <2>2, <2>3
<1>12. k + r = c <=> \A i \in k + 1 .. c : q[i].t # "I"
  <2>1. ASSUME k + r = c, NEW i \in k + 1 .. c
        PROVE  q[i].t # "I"
    <3>1. i - k \in 1 .. r /\ k + (i - k) = i /\ i <= Len(q)
      BY <1>2, <1>8, <1>9, <1>10, <2>1
    <3>2. tail[i - k] = q[i]
      BY <1>9, <3>1
    <3>3. QED
      BY <1>5, <1>10, <3>1, <3>2
  <2>2. ASSUME \A i \in k + 1 .. c : q[i].t # "I"
        PROVE  k + r = c
    <3>1. c - k \in 0 .. Len(tail)
      BY <1>2, <1>8, <1>9
    <3>2. ASSUME NEW i \in 1 .. c - k
          PROVE  tail[i].t \in Commas
      <4>1. k + i \in k + 1 .. c /\ k + i \in 1 .. c /\ i \in Nat /\ 0 < i /\ k + i <= Len(q)
        BY <1>2, <1>8
      <4>2. tail[i] = q[k + i]
        BY <1>9, <4>1
      <4>3. QED
        BY <1>3, <2>2, <4>1, <4>2
    <3>3. c - k <= r
      BY <1>10, <3>1, <3>2
    <3>4. QED
      BY <1>2, <1>8, <1>9, <1>10, <1>11, <3>3
  <2>3. QED
    BY <2>1, <2>2
<1>13. GoodModes(q, c) <=> \A i \in k + 1 .. c : q[i].t # "I"
  <2> DEFINE ok(i) == i = 1 \/ (i = 2 /\ q[1].t \in Leads)
  <2>1. \A i \in 1 .. k : q[i].t = "I" => ok(i)
    BY <1>8
  <2>2. \A i \in k + 1 .. c : q[i].t = "I" => ~ok(i)
    BY <1>8
  <2>3. GoodModes(q, c) <=> \A i \in 1 .. c : q[i].t = "I" => ok(i)
    BY DEF GoodModes
  <2> HIDE DEF ok
  <2>4. \A i \in 1 .. c : i \in 1 .. k \/ i \in k + 1 .. c
    BY <1>2, <1>8
  <2>5. \A i \in k + 1 .. c : i \in 1 .. c
    BY <1>2, <1>8
  <2>6. QED
    BY <2>1, <2>2, <2>3, <2>4, <2>5, Zenon
<1>14. at = k + r /\ r \in Nat
  BY <1>1, <1>9, <1>10 DEF k
<1> HIDE DEF at
<1>15. at \in 0 .. c
  BY <1>2, <1>8, <1>11, <1>14
<1>16. at = c <=> GoodModes(q, c)
  BY <1>12, <1>13, <1>14, Zenon
<1>17. QED
  BY <1>15, <1>16 DEF at

(* The modes written against the number are all of those behind it.           *)
LEMMA ModesTrailing ==
  ASSUME NEW q, NEW c, Reference(q, c)
  PROVE  c + 1 + parse_trailing_addrmode(Drop(q, c + 1)) = Len(q)
<1> DEFINE tail == Drop(q, c + 1)
           n == Run(tail, Commas)
<1>1. IsText(q) /\ c \in Nat /\ Len(q) \in Nat /\ c + 1 <= Len(q)
  BY TextSeq DEF Reference
<1>2. /\ IsText(tail) /\ Len(tail) = Len(q) - (c + 1)
      /\ \A i \in Nat : 0 < i /\ c + 1 + i <= Len(q) => tail[i] = q[c + 1 + i]
  <2>1. c + 1 \in Nat
    BY <1>1
  <2>2. QED
    BY <1>1, <2>1, DropText
<1>3. \A i \in c + 2 .. Len(q) : q[i].t \in Commas
  BY DEF Reference
<1> HIDE DEF tail
<1>4. \A i \in 1 .. Len(tail) : tail[i].t \in Commas
  <2> TAKE i \in 1 .. Len(tail)
  <2>1. i \in Nat /\ 0 < i /\ c + 1 + i <= Len(q) /\ c + 1 + i \in c + 2 .. Len(q)
    BY <1>1, <1>2
  <2>2. tail[i] = q[c + 1 + i]
    BY <1>2, <2>1
  <2>3. QED
    BY <1>3, <2>1, <2>2
<1>5. n = Len(tail)
  <2>1. n \in 0 .. Len(tail) /\ \A j \in 0 .. Len(tail) : (\A i \in 1 .. j : tail[i].t \in Commas) => j <= n
    BY <1>2, RunText
  <2> HIDE DEF n
  <2>2. Len(tail) \in 0 .. Len(tail)
    BY <1>1, <1>2
  <2>3. Len(tail) <= n
    BY <1>4, <2>1, <2>2
  <2> DEFINE l == Len(tail)
  <2>4. n \in 0 .. l /\ l \in Nat /\ l <= n
    BY <1>1, <1>2, <2>1, <2>3
  <2> HIDE DEF l
  <2>5. n = l
    BY <2>4
  <2>6. QED
    BY <2>5 DEF l
<1>6. First(tail).t \in AfterNumber <=> Len(tail) > 0
  <2>1. CASE Len(tail) > 0
    <3>1. c + 2 <= Len(q) /\ c + 1 + 1 = c + 2
      BY <1>1, <1>2, <2>1
    <3>2. First(tail) = tail[1] /\ tail[1] = q[c + 2]
      BY <1>1, <1>2, <2>1, <3>1, FirstText
    <3>3. q[c + 2].t \in AfterNumber
      BY <3>1 DEF Reference
    <3>4. QED
      BY <2>1, <3>2, <3>3
  <2>2. CASE ~(Len(tail) > 0)
    <3>1. Len(tail) = 0
      BY <1>1, <1>2, <2>2
    <3>2. tail = <<>>
      BY <1>2, <3>1, TextSeq
    <3>3. First(tail).t = ""
      BY <3>2, EmptyText
    <3>4. QED
      BY <2>2, <3>3, OperandNames
  <2>3. QED
    BY <2>1, <2>2
<1>7. parse_trailing_addrmode(tail) = IF First(tail).t \in AfterNumber THEN n ELSE 0
  BY DEF parse_trailing_addrmode
<1> HIDE DEF n
<1>8. parse_trailing_addrmode(tail) = Len(tail)
  BY <1>1, <1>2, <1>5, <1>6, <1>7
<1>9. QED
  BY <1>1, <1>2, <1>8 DEF tail

ModesOf(q, c) == {q[i].t : i \in (1 .. c) \cup (c + 2 .. Len(q))}

(* What the stage makes of a reference.                                       *)
LEMMA MemrefWord ==
  ASSUME NEW base, NEW q, NEW c, Reference(q, c)
  PROVE  MemrefStage(base, q).word =
           IF GoodModes(q, c)
           THEN Done(encode_memref(base, ModesOf(q, c), q[c + 1].n)).word
           ELSE NONE
<1> DEFINE at == parse_addrmode(q)
           rest == Drop(q, at)
           number == First(rest)
           trail == parse_trailing_addrmode(Drop(q, at + 1))
           modes == {q[i].t : i \in (1 .. at) \cup (at + 2 .. at + 1 + trail)}
           num == IsNum(number)
           w(n) == encode_memref(base, modes, n)
           empty == rest = <<>>
<1>1. MemrefStage(base, q) =
        CASE num -> Done(w(number.n)) [] empty -> Done(w(0)) [] OTHER -> Lost(rest)
  BY DEF MemrefStage
<1>2. at \in 0 .. c /\ (at = c <=> GoodModes(q, c))
  BY ModesTaken
<1>3. IsText(q) /\ c \in Nat /\ Len(q) \in Nat /\ c < Len(q) /\ IsNum(q[c + 1])
  BY TextSeq DEF Reference
<1>4. number = q[at + 1] /\ ~empty
  <2>1. at \in Nat /\ at + 1 <= Len(q)
    BY <1>2, <1>3
  <2>2. /\ IsText(rest) /\ Len(rest) = Len(q) - at
        /\ \A i \in Nat : 0 < i /\ at + i <= Len(q) => rest[i] = q[at + i]
    <3> HIDE DEF at
    <3>1. at <= Len(q)
      BY <1>3, <2>1
    <3>2. QED
      BY <1>3, <2>1, <3>1, DropText
  <2> HIDE DEF rest, at
  <2>3. Len(rest) > 0 /\ rest[1] = q[at + 1]
    BY <1>3, <2>1, <2>2
  <2>4. QED
    BY <2>2, <2>3, FirstText
<1>5. CASE GoodModes(q, c)
  <2>1. at = c
    BY <1>2, <1>5
  <2>2. at + 1 + trail = Len(q)
    BY <2>1, ModesTrailing
  <2>3. modes = ModesOf(q, c)
    <3> HIDE DEF at, trail
    <3>1. QED
      BY <2>1, <2>2 DEF ModesOf
  <2>4. num /\ ~empty /\ number = q[c + 1]
    BY <1>3, <1>4, <2>1
  <2> HIDE DEF at, rest, number, trail, modes, num, empty
  <2>5. MemrefStage(base, q) = Done(w(number.n))
    <3> HIDE DEF w
    <3>1. QED
      BY <1>1, <2>4
  <2>6. QED
    BY <1>5, <2>3, <2>4, <2>5
<1>6. CASE ~GoodModes(q, c)
  <2>1. at + 1 \in 1 .. c
    BY <1>2, <1>3, <1>6
  <2>2. q[at + 1].t \in Commas \cup {"I"}
    BY <2>1 DEF Reference
  <2>3. ~num
    BY <1>4, <2>2, OperandNames DEF IsNum
  <2> HIDE DEF at, rest, number, trail, modes, num, empty, w
  <2>4. MemrefStage(base, q) = Lost(rest)
    BY <1>1, <1>4, <2>3
  <2>5. QED
    BY <1>6, <2>4 DEF Lost
<1>7. QED
  BY <1>5, <1>6

-----------------------------------------------------------------------------
\* The two forms.

LEMMA SubText ==
  ASSUME NEW text, IsText(text), NEW k \in 0 .. Len(text)
  PROVE  LET a == SubSeq(text, 1, k) IN
         IsText(a) /\ Len(a) = k /\ \A i \in 1 .. k : a[i] = text[i]
<1> DEFINE S == {text[i] : i \in 1 .. Len(text)}
           a == SubSeq(text, 1, k)
<1>1. /\ Len(text) \in Nat
      /\ \A i \in 1 .. Len(text) : text[i] = [t |-> text[i].t, n |-> text[i].n] /\ text[i].n \in Int
  BY TextSeq
<1>2. \A i \in 1 .. k : text[i] \in S
  BY <1>1
<1> HIDE DEF S, a
<1>3. a \in Seq(S) /\ Len(a) = k /\ \A i \in 1 .. k : a[i] = text[i]
  <2>1. k \in Int /\ 1 \in Int /\ k - 1 + 1 = k
    BY <1>1
  <2>2. /\ a \in Seq(S)
        /\ Len(a) = IF 1 <= k THEN k - 1 + 1 ELSE 0
        /\ \A i \in 1 .. k - 1 + 1 : a[i] = text[1 + i - 1]
    BY <1>2, <2>1, SubSeqProperties DEF a
  <2>3. \A i \in 1 .. k : 1 + i - 1 = i
    BY <1>1
  <2>4. Len(a) = k
    BY <1>1, <2>2
  <2>5. QED
    BY <2>1, <2>2, <2>3, <2>4
<1>4. \A i \in 1 .. Len(a) : a[i] = [t |-> a[i].t, n |-> a[i].n] /\ a[i].n \in Int
  <2> TAKE i \in 1 .. Len(a)
  <2>1. i \in 1 .. k /\ i \in 1 .. Len(text)
    BY <1>1, <1>3
  <2>2. a[i] = text[i]
    BY <1>3, <2>1
  <2>3. QED
    BY <1>1, <2>1, <2>2
<1>5. IsText(a)
  BY <1>3, <1>4, SeqText, Zenon
<1>6. QED
  BY <1>3, <1>5 DEF a

(* The line with its modes in front, token by token.                          *)
LEMMA FrontTokens ==
  ASSUME NEW text, IsText(text), NEW n, ModesBehind(text, n)
  PROVE  LET front == ModesInFront(text, n) IN
         /\ IsText(front) /\ Len(front) = Len(text)
         /\ \A i \in 1 .. n - 1 : front[i] = text[i]
         /\ \A i \in n .. Len(text) - 1 :
              front[i] = IF text[i + 1].t \in CommaB THEN Kw(",B") ELSE Kw(",X")
         /\ front[Len(text)] = text[n]
<1> DEFINE a == SubSeq(text, 1, n - 1)
           l == Len(text) - n
           at(i) == IF text[n + i].t \in CommaB THEN Kw(",B") ELSE Kw(",X")
           b == [i \in 1 .. l |-> at(i)]
           d == <<text[n]>>
           front == ModesInFront(text, n)
<1>1. Len(text) \in Nat /\ n \in 2 .. Len(text) - 1
  BY TextSeq DEF ModesBehind
<1>2. l \in Nat
  BY <1>1
<1>3. IsText(a) /\ Len(a) = n - 1 /\ \A i \in 1 .. n - 1 : a[i] = text[i]
  BY <1>1, SubText
<1>4. IsText(b) /\ Len(b) = l /\ \A i \in 1 .. l : b[i] = at(i)
  <2> DEFINE S == {Kw(",B"), Kw(",X")}
  <2>1. \A i \in 1 .. l : at(i) \in S
    OBVIOUS
  <2>2. \A tok \in S : tok = [t |-> tok.t, n |-> tok.n] /\ tok.n \in Int
    <3>1. \A m : Kw(m) = [t |-> Kw(m).t, n |-> Kw(m).n] /\ Kw(m).n \in Int
      BY DEF Kw
    <3>2. QED
      BY <3>1
  <2> HIDE DEF S, at, l
  <2>3. b \in Seq(S) /\ Len(b) = l /\ \A i \in 1 .. l : b[i] = at(i)
    BY <1>2, <2>1
  <2> HIDE DEF b
  <2>4. \A i \in 1 .. Len(b) : b[i] = [t |-> b[i].t, n |-> b[i].n] /\ b[i].n \in Int
    BY <2>1, <2>2, <2>3
  <2>5. QED
    BY <2>3, <2>4, SeqText
<1>5. IsText(d) /\ Len(d) = 1 /\ d[1] = text[n]
  <2>1. n \in 1 .. Len(text)
    BY <1>1
  <2>2. QED
    BY <2>1, ElementText
<1>6. front = (a \o b) \o d
  BY DEF ModesInFront
<1> DEFINE ab == a \o b
<1> HIDE DEF a, b, d, at, l, front
<1>7. /\ IsText(ab) /\ Len(ab) = n - 1 + l
      /\ \A i \in 1 .. n - 1 : ab[i] = a[i]
      /\ \A i \in 1 .. l : ab[n - 1 + i] = b[i]
  <2>1. /\ IsText(ab) /\ Len(ab) = Len(a) + Len(b)
        /\ \A i \in 1 .. Len(a) : ab[i] = a[i]
        /\ \A i \in 1 .. Len(b) : ab[Len(a) + i] = b[i]
    BY <1>3, <1>4, ConcatText
  <2>2. QED
    BY <1>3, <1>4, <2>1
<1>8. front = ab \o d
  BY <1>6
<1> HIDE DEF ab
<1>9. /\ IsText(front) /\ Len(front) = n - 1 + l + 1
      /\ \A i \in 1 .. n - 1 + l : front[i] = ab[i]
      /\ front[n - 1 + l + 1] = text[n]
  <2>1. /\ IsText(front) /\ Len(front) = Len(ab) + Len(d)
        /\ \A i \in 1 .. Len(ab) : front[i] = ab[i]
        /\ \A i \in 1 .. Len(d) : front[Len(ab) + i] = d[i]
    <3>1. IsText(ab) /\ IsText(d)
      BY <1>5, <1>7
    <3> DEFINE g == ab \o d
    <3>2. /\ IsText(g) /\ Len(g) = Len(ab) + Len(d)
          /\ \A i \in 1 .. Len(ab) : g[i] = ab[i]
          /\ \A i \in 1 .. Len(d) : g[Len(ab) + i] = d[i]
      BY <3>1, ConcatText
    <3>3. front = g
      BY <1>8
    <3> HIDE DEF g
    <3>4. QED
      BY <3>2, <3>3
  <2>2. 1 \in 1 .. Len(d)
    BY <1>5
  <2>3. QED
    BY <1>5, <1>7, <2>1, <2>2
<1>10. n - 1 + l + 1 = Len(text) /\ n - 1 + l = Len(text) - 1
  BY <1>1 DEF l
<1>11. ASSUME NEW i \in 1 .. n - 1
       PROVE  front[i] = text[i]
  <2>1. i \in 1 .. n - 1 + l
    BY <1>1, <1>2
  <2>2. QED
    BY <1>3, <1>7, <1>9, <2>1
<1>12. ASSUME NEW i \in n .. Len(text) - 1
       PROVE  front[i] = IF text[i + 1].t \in CommaB THEN Kw(",B") ELSE Kw(",X")
  <2>1. i - (n - 1) \in 1 .. l /\ n - 1 + (i - (n - 1)) = i /\ i \in 1 .. n - 1 + l
    BY <1>1 DEF l
  <2>2. front[i] = ab[i]
    BY <1>9, <2>1
  <2>3. ab[i] = b[i - (n - 1)]
    BY <1>7, <2>1
  <2>4. b[i - (n - 1)] = at(i - (n - 1))
    BY <1>4, <2>1
  <2>5. n + (i - (n - 1)) = i + 1
    BY <1>1, <2>1
  <2>6. QED
    BY <2>2, <2>3, <2>4, <2>5 DEF at
<1>13. QED
  BY <1>9, <1>10, <1>11, <1>12 DEF front

LEMMA DropOne ==
  ASSUME NEW text, IsText(text), Len(text) > 1
  PROVE  LET q == Drop(text, 1)
             l == Len(text) - 2 + 1
         IN IsText(q) /\ Len(q) = l /\ \A i \in 1 .. l : q[i] = text[i + 1]
<1> DEFINE q == Drop(text, 1)
<1>1. Len(text) \in Nat /\ Len(text) > 0
  BY TextSeq
<1>2. /\ IsText(q) /\ Len(q) = Len(text) - 1
      /\ \A i \in Nat : 0 < i /\ 1 + i <= Len(text) => q[i] = text[1 + i]
  BY <1>1, DropFirst, Zenon
<1> HIDE DEF q
<1>3. \A i \in 1 .. Len(text) - 2 + 1 : q[i] = text[i + 1]
  <2> TAKE i \in 1 .. Len(text) - 2 + 1
  <2>1. i \in Nat /\ 0 < i /\ 1 + i <= Len(text) /\ 1 + i = i + 1
    BY <1>1
  <2>2. QED
    BY <1>2, <2>1
<1>4. QED
  BY <1>1, <1>2, <1>3 DEF q

\* q has its number at n - 1, f the same at the end, and all modes before it.
InFront(tok) == IF tok.t \in CommaB THEN Kw(",B") ELSE Kw(",X")
Twins(q, f, n, last) ==
  /\ Reference(q, n - 2) /\ Reference(f, last)
  /\ Len(q) = last + 1 /\ Len(f) = last + 1
  /\ f[last + 1] = q[n - 1]
  /\ \A i \in 1 .. n - 2 : f[i] = q[i]
  /\ \A i \in n - 1 .. last : f[i] = InFront(q[i + 1])

(* Behind the mnemonic, both forms are references with the same number.       *)
LEMMA BothReferences ==
  ASSUME NEW text, IsText(text), NEW n, ModesBehind(text, n)
  PROVE  Twins(Drop(text, 1), Drop(ModesInFront(text, n), 1), n, Len(text) - 2)
<1> DEFINE q == Drop(text, 1)
           front == ModesInFront(text, n)
           f == Drop(front, 1)
           last == Len(text) - 2
<1>1. Len(text) \in Nat /\ n \in 2 .. Len(text) - 1
  BY TextSeq DEF ModesBehind
<1>2. /\ IsText(front) /\ Len(front) = Len(text)
      /\ \A i \in 1 .. n - 1 : front[i] = text[i]
      /\ \A i \in n .. Len(text) - 1 : front[i] = InFront(text[i + 1])
      /\ front[Len(text)] = text[n]
  BY FrontTokens DEF InFront
<1> HIDE DEF front
<1>3. /\ IsText(q) /\ Len(q) = last + 1
      /\ \A i \in 1 .. last + 1 : q[i] = text[i + 1]
  BY <1>1, DropOne
<1>4. /\ IsText(f) /\ Len(f) = last + 1
      /\ \A i \in 1 .. last + 1 : f[i] = front[i + 1]
  <2>0. Len(front) = Len(text)
    BY <1>2, Zenon
  <2>1. Len(front) > 1 /\ Len(front) - 2 = last
    BY <1>1, <2>0
  <2>2. QED
    BY <1>2, <2>1, DropOne
<1>5. /\ IsNum(text[n]) /\ text[n + 1].t \in AfterNumber
      /\ \A i \in 2 .. n - 1 : text[i].t \in Commas \cup {"I"}
      /\ \A i \in n + 1 .. Len(text) : text[i].t \in Commas
  BY DEF ModesBehind
<1> HIDE DEF q, f
<1>6. last \in Nat /\ n - 2 \in 0 .. last /\ n - 1 \in 1 .. last + 1 /\ n - 1 + 1 = n
  BY <1>1
<1>7. \A i \in 1 .. n - 2 : f[i] = q[i]
  <2> TAKE i \in 1 .. n - 2
  <2>1. i \in 1 .. last + 1 /\ i + 1 \in 1 .. n - 1
    BY <1>1
  <2>2. QED
    BY <1>2, <1>3, <1>4, <2>1
<1>8. \A i \in n - 1 .. last : f[i] = InFront(q[i + 1])
  <2> TAKE i \in n - 1 .. last
  <2>1. i \in 1 .. last + 1 /\ i + 1 \in 1 .. last + 1 /\ i + 1 \in n .. Len(text) - 1
    BY <1>1
  <2>2. f[i] = InFront(text[i + 1 + 1]) /\ q[i + 1] = text[i + 1 + 1]
    BY <1>2, <1>3, <1>4, <2>1
  <2>3. QED
    BY <2>2
<1>9. f[last + 1] = text[n] /\ q[n - 1] = text[n]
  <2>1. last + 1 \in 1 .. last + 1 /\ last + 1 + 1 = Len(text)
    BY <1>1
  <2>2. QED
    BY <1>2, <1>3, <1>4, <1>6, <2>1
<1>10. \A i \in 1 .. n - 2 : q[i].t \in Commas \cup {"I"}
  <2> TAKE i \in 1 .. n - 2
  <2>1. i \in 1 .. last + 1 /\ i + 1 \in 2 .. n - 1
    BY <1>1
  <2>2. QED
    BY <1>3, <1>5, <2>1
<1>11. Reference(q, n - 2)
  <2>1. n - 2 \in Nat /\ n - 2 < Len(q) /\ n - 2 + 1 = n - 1 /\ n - 2 + 2 = n
    BY <1>1, <1>3
  <2>2. \A i \in n .. Len(q) : q[i].t \in Commas
    <3> TAKE i \in n .. Len(q)
    <3>1. i \in 1 .. last + 1 /\ i + 1 \in n + 1 .. Len(text)
      BY <1>1, <1>3
    <3>2. QED
      BY <1>3, <1>5, <3>1
  <2>3. q[n].t \in AfterNumber
    <3>1. n \in 1 .. last + 1
      BY <1>1
    <3>2. QED
      BY <1>3, <1>5, <3>1
  <2>4. QED
    BY <1>3, <1>5, <1>9, <1>10, <2>1, <2>2, <2>3 DEF Reference
<1>12. Reference(f, last)
  <2>1. \A i \in 1 .. last : f[i].t \in Commas \cup {"I"}
    <3> TAKE i \in 1 .. last
    <3>1. CASE i \in 1 .. n - 2
      BY <1>7, <1>10, <3>1
    <3>2. CASE i \in n - 1 .. last
      <4>1. f[i] \in {Kw(",B"), Kw(",X")}
        BY <1>8, <3>2 DEF InFront
      <4>2. \A m : Kw(m).t = m
        BY DEF Kw
      <4>3. ",B" \in Commas /\ ",X" \in Commas
        BY DEF Commas, CommaB, CommaX
      <4>4. QED
        BY <4>1, <4>2, <4>3
    <3>3. QED
      BY <1>1, <3>1, <3>2
  <2>2. last < Len(f) /\ \A i \in last + 2 .. Len(f) : FALSE
    BY <1>4, <1>6
  <2>3. ~(last + 2 <= Len(f))
    BY <1>4, <1>6
  <2>4. QED
    BY <1>4, <1>5, <1>6, <1>9, <2>1, <2>2, <2>3 DEF Reference
<1> HIDE DEF last
<1>13. QED
  BY <1>3, <1>4, <1>7, <1>8, <1>9, <1>11, <1>12 DEF Twins, q, f, front, last

(* A mode put in front is the mode it was.                                    *)
LEMMA ModeKept ==
  ASSUME NEW tok, tok.t \in Commas
  PROVE  LET m == InFront(tok).t IN
         /\ m # "I" /\ tok.t # "I" /\ m \in Commas
         /\ m \in CommaB <=> tok.t \in CommaB
         /\ m \in CommaX <=> tok.t \in CommaX
<1>1. Kw(",B").t = ",B" /\ Kw(",X").t = ",X"
  BY DEF Kw
<1>2. tok.t \in {",B", "~,B", ",X", "~,X"}
  BY DEF Commas, CommaB, CommaX
<1>3. QED
  BY <1>1, <1>2 DEF InFront, Commas, CommaB, CommaX

(* The same modes, in whatever order, give the same word.                     *)
LEMMA SameModes ==
  ASSUME NEW a, NEW b, NEW base, NEW n, "I" \in a <=> "I" \in b,
         a \cap CommaB # {} <=> b \cap CommaB # {}, a \cap CommaX # {} <=> b \cap CommaX # {}
  PROVE  encode_memref(base, a, n) = encode_memref(base, b, n)
BY DEF encode_memref

LEMMA FormsAgree ==
  ASSUME NEW text, IsText(text), NEW n, ModesBehind(text, n)
  PROVE  Encode(text) = Encode(ModesInFront(text, n))
<1> DEFINE front == ModesInFront(text, n)
           q == Drop(text, 1)
           f == Drop(front, 1)
           c == n - 2
           last == Len(text) - 2
           base == MemrefOp[First(text).t]
           A == ModesOf(q, c)
           B == ModesOf(f, last)
<1>1. Len(text) \in Nat /\ n \in 2 .. Len(text) - 1 /\ First(text).t \in DOMAIN MemrefOp
  BY TextSeq DEF ModesBehind
<1>2. /\ IsText(front) /\ Len(front) = Len(text)
      /\ \A i \in 1 .. n - 1 : front[i] = text[i]
      /\ \A i \in n .. Len(text) - 1 : front[i] = InFront(text[i + 1])
      /\ front[Len(text)] = text[n]
  BY FrontTokens DEF InFront
<1>3. /\ Reference(q, c) /\ Reference(f, last)
      /\ Len(q) = last + 1 /\ Len(f) = last + 1
      /\ f[last + 1] = q[n - 1]
      /\ \A i \in 1 .. c : f[i] = q[i]
      /\ \A i \in n - 1 .. last : f[i] = InFront(q[i + 1])
  BY BothReferences DEF Twins
<1>4. First(front) = First(text)
  <2>1. 1 \in 1 .. n - 1 /\ Len(text) > 0
    BY <1>1
  <2>2. front[1] = text[1]
    BY <1>2, <2>1
  <2> HIDE DEF front
  <2>3. QED
    BY <1>2, <2>1, <2>2, FirstText
<1>5. Encode(text) = MemrefStage(base, q).word
  <2>1. \A i \in 2 .. Len(text) : text[i].t \in Operands
    <3> TAKE i \in 2 .. Len(text)
    <3>1. i \in 2 .. n - 1 \/ i = n \/ i \in n + 1 .. Len(text)
      BY <1>1
    <3>2. QED
      BY <3>1 DEF ModesBehind, Operands, IsNum
  <2>2. Len(text) > 0
    BY <1>1
  <2>3. QED
    BY <1>1, <2>1, <2>2, MemrefEncode
<1>6. Encode(front) = MemrefStage(base, f).word
  <2> HIDE DEF front
  <2>1. /\ IsText(front) /\ Len(front) > 1 /\ Len(front) - 2 = last
    <3>1. IsText(front) /\ Len(front) = Len(text)
      BY <1>2, Zenon
    <3>2. QED
      BY <1>1, <3>1
  <2>2. \A i \in 1 .. last + 1 : f[i] = front[i + 1]
    BY <2>1, DropOne
  <2>3. \A i \in 1 .. last + 1 : f[i].t \in Operands
    <3> TAKE i \in 1 .. last + 1
    <3>1. i \in 1 .. last \/ i = last + 1
      BY <1>1
    <3>2. IsNum(f[last + 1]) /\ \A j \in 1 .. last : f[j].t \in Commas \cup {"I"}
      BY <1>3 DEF Reference
    <3>3. QED
      BY <3>1, <3>2 DEF Operands, IsNum
  <2> HIDE DEF f
  <2>4. \A i \in 2 .. Len(front) : front[i].t \in Operands
    <3> TAKE i \in 2 .. Len(front)
    <3>1. i - 1 \in 1 .. last + 1 /\ i - 1 + 1 = i
      BY <1>1, <2>1
    <3>2. QED
      BY <2>2, <2>3, <3>1
  <2>5. Len(front) > 0 /\ First(front).t \in DOMAIN MemrefOp /\ base = MemrefOp[First(front).t]
    BY <1>1, <1>4, <2>1
  <2> HIDE DEF base
  <2>6. QED
    BY <2>1, <2>4, <2>5, MemrefEncode DEF f
<1> HIDE DEF front, q, f, base
<1>7. \A i \in n .. last + 1 : q[i].t \in Commas
  <2>1. c + 2 = n
    BY <1>1
  <2>2. QED
    BY <1>3, <2>1 DEF Reference
<1>8. \A i \in n - 1 .. last :
        /\ f[i].t # "I" /\ q[i + 1].t # "I"
        /\ f[i].t \in CommaB <=> q[i + 1].t \in CommaB
        /\ f[i].t \in CommaX <=> q[i + 1].t \in CommaX
  <2> TAKE i \in n - 1 .. last
  <2>1. i + 1 \in n .. last + 1
    BY <1>1
  <2>2. f[i] = InFront(q[i + 1]) /\ q[i + 1].t \in Commas
    BY <1>3, <1>7, <2>1
  <2>3. QED
    BY <2>2, ModeKept
<1>9. GoodModes(q, c) <=> GoodModes(f, last)
  <2>1. ASSUME GoodModes(q, c), NEW i \in 1 .. last, f[i].t = "I"
        PROVE  i = 1 \/ (i = 2 /\ f[1].t \in Leads)
    <3>1. i \in 1 .. c
      BY <1>1, <1>8, <2>1
    <3>2. f[i] = q[i] /\ f[1] = q[1]
      BY <1>1, <1>3, <3>1
    <3>3. QED
      BY <2>1, <3>1, <3>2 DEF GoodModes
  <2>2. ASSUME GoodModes(f, last), NEW i \in 1 .. c, q[i].t = "I"
        PROVE  i = 1 \/ (i = 2 /\ q[1].t \in Leads)
    <3>1. i \in 1 .. last /\ 1 \in 1 .. c
      BY <1>1
    <3>2. f[i] = q[i] /\ f[1] = q[1]
      BY <1>3, <3>1
    <3>3. QED
      BY <2>2, <3>1, <3>2 DEF GoodModes
  <2>3. QED
    BY <2>1, <2>2 DEF GoodModes
<1>10. \A m : m \in A <=> (\E i \in 1 .. c : q[i].t = m) \/ (\E i \in n - 1 .. last : q[i + 1].t = m)
  <2>1. A = {q[i].t : i \in (1 .. c) \cup (n .. last + 1)}
    <3>1. c + 2 = n
      BY <1>1
    <3>2. QED
      BY <1>3, <3>1 DEF ModesOf
  <2>2. \A i \in n .. last + 1 : i - 1 \in n - 1 .. last /\ i - 1 + 1 = i
    BY <1>1
  <2>3. \A i \in n - 1 .. last : i + 1 \in n .. last + 1
    BY <1>1
  <2> HIDE DEF A, c, last
  <2>4. QED
    BY <2>1, <2>2, <2>3
<1>11. \A m : m \in B <=> (\E i \in 1 .. c : q[i].t = m) \/ (\E i \in n - 1 .. last : f[i].t = m)
  <2>1. B = {f[i].t : i \in 1 .. last}
    <3>1. (1 .. last) \cup (last + 2 .. last + 1) = 1 .. last
      BY <1>1
    <3>2. B = {f[i].t : i \in (1 .. last) \cup (last + 2 .. last + 1)}
      BY <1>3 DEF ModesOf
    <3> HIDE DEF B, last
    <3>3. QED
      BY <3>1, <3>2
  <2>2. \A i : i \in 1 .. last <=> i \in 1 .. c \/ i \in n - 1 .. last
    BY <1>1
  <2> HIDE DEF B, c, last
  <2>3. QED
    BY <1>3, <2>1, <2>2
<1>12. encode_memref(base, A, q[n - 1].n) = encode_memref(base, B, q[n - 1].n)
  <2> HIDE DEF A, B, c, last
  <2>1. "I" \in A <=> "I" \in B
    BY <1>8, <1>10, <1>11
  <2>2. A \cap CommaB # {} <=> B \cap CommaB # {}
    BY <1>8, <1>10, <1>11
  <2>3. A \cap CommaX # {} <=> B \cap CommaX # {}
    BY <1>8, <1>10, <1>11
  <2>4. QED
    BY <2>1, <2>2, <2>3, SameModes
<1>13. MemrefStage(base, q).word = MemrefStage(base, f).word
  <2>1. c + 1 = n - 1
    BY <1>1
  <2> HIDE DEF c, last
  <2>2. MemrefStage(base, q).word =
          IF GoodModes(q, c) THEN Done(encode_memref(base, A, q[c + 1].n)).word ELSE NONE
    BY <1>3, MemrefWord
  <2>3. MemrefStage(base, f).word =
          IF GoodModes(f, last) THEN Done(encode_memref(base, B, f[last + 1].n)).word ELSE NONE
    BY <1>3, MemrefWord
  <2> HIDE DEF A, B
  <2>4. f[last + 1] = q[n - 1]
    BY <1>3, Zenon
  <2>5. QED
    BY <1>9, <1>12, <2>1, <2>2, <2>3, <2>4
<1>14. QED
  BY <1>5, <1>6, <1>13 DEF front

(* GETTING-STARTED.md:117-125: for every line at hand, an addressing mode     *)
(* behind the number is the same as one before it.                            *)
THEOREM FormsEquivalent == Spec => []BothFormsAgree
<1>1. IInv => BothFormsAgree
  <2> SUFFICES ASSUME IInv, NEW n \in 1 .. Len(line), ModesBehind(line, n)
               PROVE  Encode(line) = Encode(ModesInFront(line, n))
    BY DEF BothFormsAgree
  <2>1. IsText(line)
    BY DEF IInv, Typing
  <2>2. QED
    BY <2>1, FormsAgree
<1>2. QED
  BY <1>1, Invariance, PTL
=============================================================================
