----------------------------- MODULE AsmProofs -----------------------------
(***************************************************************************)
(* Theorems about the decoder and the assembler, for every set of words    *)
(* the cursor is put on, every set of typed lines and either char.         *)
(***************************************************************************)
EXTENDS AsmProps, SequenceTheorems, NumberFacts, TLAPS

-----------------------------------------------------------------------------
\* Lines of text.

LEMMA RangeMember == \A n \in Int : \A w : w \in 0 .. n <=> w \in Nat /\ w <= n
OBVIOUS

LEMMA WordIs == \A w : w \in Word <=> w \in Nat /\ w <= MaxWord
<1>1. MaxWord \in Int
  BY DEF MaxWord
<1>2. QED
  BY <1>1, RangeMember DEF Word

LEMMA WordMember == \A w : w \in Word <=> w \in Nat /\ w < 65536
<1>1. MaxWord \in Int /\ \A w \in Nat : w <= MaxWord <=> w < 65536
  BY DEF MaxWord
<1>2. \A w : w \in 0 .. MaxWord <=> w \in Nat /\ w <= MaxWord
  BY <1>1, RangeMember
<1>3. QED
  BY <1>1, <1>2 DEF Word

LEMMA TextSeq ==
  ASSUME NEW l, IsText(l)
  PROVE  /\ Len(l) \in Nat
         /\ l \in Seq({l[i] : i \in 1 .. Len(l)})
         /\ \A i \in 1 .. Len(l) : l[i] = [t |-> l[i].t, n |-> l[i].n] /\ l[i].n \in Int
<1>1. Len(l) \in Nat /\ l = [i \in 1 .. Len(l) |-> [t |-> l[i].t, n |-> l[i].n]]
  BY DEF IsText
<1> DEFINE n == Len(l)
           S == {l[i] : i \in 1 .. n}
<1>2. l \in [1 .. n -> S]
  <2>1. DOMAIN l = 1 .. n /\ l = [i \in 1 .. n |-> l[i]]
    <3> DEFINE f == [i \in 1 .. n |-> [t |-> l[i].t, n |-> l[i].n]]
    <3>1. DOMAIN f = 1 .. n /\ f = [i \in DOMAIN f |-> f[i]]
      OBVIOUS
    <3> HIDE DEF f
    <3>2. QED
      BY <1>1, <3>1, Zenon DEF f
  <2> HIDE DEF n
  <2>2. QED
    BY <2>1, Zenon
<1>3. l \in Seq(S)
  BY <1>1, <1>2, SeqDef, Zenon
<1>4. \A i \in 1 .. n : l[i] = [t |-> l[i].t, n |-> l[i].n] /\ l[i].n \in Int
  BY DEF IsText
<1>5. QED
  BY <1>1, <1>3, <1>4

LEMMA SeqText ==
  ASSUME NEW S, NEW l \in Seq(S), \A i \in 1 .. Len(l) : l[i] = [t |-> l[i].t, n |-> l[i].n] /\ l[i].n \in Int
  PROVE  IsText(l)
<1> DEFINE n == Len(l)
<1>1. n \in Nat /\ l \in [1 .. n -> S]
  BY LenProperties
<1>2. l = [i \in 1 .. n |-> l[i]]
  BY <1>1, Zenon
<1>3. [i \in 1 .. n |-> l[i]] = [i \in 1 .. n |-> [t |-> l[i].t, n |-> l[i].n]]
  BY Zenon
<1>4. QED
  BY <1>1, <1>2, <1>3, Zenon DEF IsText

LEMMA KwsText ==
  ASSUME NEW S, NEW s \in Seq(S)
  PROVE  /\ IsText(Kws(s))
         /\ Len(Kws(s)) = Len(s)
         /\ \A i \in 1 .. Len(s) : Kws(s)[i] = Kw(s[i])
<1>1. Kws(s) \in Seq([t : S, n : Int])
  BY DEF Kws, Kw
<1>2. Len(Kws(s)) = Len(s) /\ \A i \in 1 .. Len(s) : Kws(s)[i] = Kw(s[i])
  BY DEF Kws, Kw
<1>3. \A i \in 1 .. Len(s) : Kw(s[i]) = [t |-> Kw(s[i]).t, n |-> Kw(s[i]).n] /\ Kw(s[i]).n \in Int
  BY DEF Kw
<1>4. QED
  BY <1>1, <1>2, <1>3, SeqText 

LEMMA ConcatText ==
  ASSUME NEW a, NEW b, IsText(a), IsText(b)
  PROVE  /\ IsText(a \o b)
         /\ Len(a \o b) = Len(a) + Len(b)
         /\ \A i \in 1 .. Len(a) : (a \o b)[i] = a[i]
         /\ \A i \in 1 .. Len(b) : (a \o b)[Len(a) + i] = b[i]
<1> DEFINE A == {a[i] : i \in 1 .. Len(a)}
           B == {b[i] : i \in 1 .. Len(b)}
           S == A \cup B
<1>1. a \in Seq(S) /\ b \in Seq(S)
  <2>1. a \in Seq(A) /\ b \in Seq(B)
    BY TextSeq
  <2> HIDE DEF A, B
  <2>2. QED
    BY <2>1, SeqMonotonic
<1> HIDE DEF S
<1>2. /\ a \o b \in Seq(S) /\ Len(a \o b) = Len(a) + Len(b)
      /\ \A i \in 1 .. Len(a) : (a \o b)[i] = a[i]
      /\ \A i \in 1 .. Len(b) : (a \o b)[Len(a) + i] = b[i]
  BY <1>1
<1>3. \A i \in 1 .. Len(a \o b) :
        (a \o b)[i] = [t |-> (a \o b)[i].t, n |-> (a \o b)[i].n] /\ (a \o b)[i].n \in Int
  <2> SUFFICES ASSUME NEW i \in 1 .. Len(a \o b)
               PROVE  (a \o b)[i] = [t |-> (a \o b)[i].t, n |-> (a \o b)[i].n] /\ (a \o b)[i].n \in Int
    OBVIOUS
  <2>1. Len(a) \in Nat /\ Len(b) \in Nat
    BY TextSeq
  <2>2. CASE i \in 1 .. Len(a)
    BY <1>2, <2>2, TextSeq
  <2>3. CASE i \notin 1 .. Len(a)
    <3>1. i - Len(a) \in 1 .. Len(b) /\ i = Len(a) + (i - Len(a))
      BY <1>2, <2>1, <2>3
    <3>2. (a \o b)[i] = b[i - Len(a)]
      BY <1>2, <3>1
    <3>3. QED
      BY <3>1, <3>2, TextSeq
  <2>4. QED
    BY <2>2, <2>3
<1>4. IsText(a \o b)
  BY <1>2, <1>3, SeqText, Zenon
<1>5. QED
  BY <1>2, <1>4

(* What is known of the first token of a line that begins with keywords.      *)
Led(l, m) == IsText(l) /\ Len(l) > 0 /\ l[1].t = m /\ First(l).t = m

LEMMA FirstIsHead ==
  ASSUME NEW l, IsText(l), Len(l) > 0
  PROVE  First(l) = l[1]
<1>1. l # <<>>
  OBVIOUS
<1>2. QED
  BY <1>1, TextSeq DEF First

LEMMA LedKws ==
  ASSUME NEW S, NEW s \in Seq(S), Len(s) > 0
  PROVE  Led(Kws(s), s[1])
<1>1. IsText(Kws(s)) /\ Len(Kws(s)) > 0 /\ Kws(s)[1] = Kw(s[1])
  BY KwsText
<1>2. QED
  BY <1>1, FirstIsHead DEF Led, Kw

LEMMA LedConcat ==
  ASSUME NEW a, NEW b, NEW m, Led(a, m), IsText(b)
  PROVE  Led(a \o b, m)
<1>1. IsText(a) /\ Len(a) > 0 /\ a[1].t = m
  BY DEF Led
<1>2. IsText(a \o b) /\ Len(a \o b) > 0 /\ (a \o b)[1] = a[1]
  BY <1>1, ConcatText, TextSeq
<1>3. QED
  BY <1>1, <1>2, FirstIsHead DEF Led

LEMMA PairConcat == \A a, b : <<a, b>> = <<a>> \o <<b>>
<1> SUFFICES ASSUME NEW a, NEW b PROVE <<a, b>> = <<a>> \o <<b>>
  OBVIOUS
<1> DEFINE S == {a, b}
           s == <<a>>
           t == <<b>>
           u == <<a, b>>
<1>1. /\ s \in Seq(S) /\ Len(s) = 1 /\ s[1] = a
      /\ t \in Seq(S) /\ Len(t) = 1 /\ t[1] = b
      /\ u \in Seq(S) /\ Len(u) = 2 /\ u[1] = a /\ u[2] = b
  OBVIOUS
<1> HIDE DEF S, s, t, u
<1>2. /\ s \o t \in Seq(S) /\ Len(s \o t) = 2
      /\ \A i \in 1 .. 2 : (s \o t)[i] = IF i <= 1 THEN s[i] ELSE t[i - 1]
  <2>1. /\ s \o t \in Seq(S) /\ Len(s \o t) = Len(s) + Len(t)
        /\ \A i \in 1 .. Len(s) + Len(t) : (s \o t)[i] = IF i <= Len(s) THEN s[i] ELSE t[i - Len(s)]
    BY <1>1, ConcatProperties, Zenon
  <2>2. Len(s) + Len(t) = 2
    BY <1>1
  <2>3. QED
    BY <1>1, <2>1, <2>2
<1>3. (s \o t)[1] = s[1] /\ (s \o t)[2] = t[1]
  BY <1>2
<1>4. \A i \in 1 .. 2 : (s \o t)[i] = u[i]
  <2>1. \A i \in 1 .. 2 : i = 1 \/ i = 2
    OBVIOUS
  <2>2. QED
    BY <1>1, <1>3, <2>1, Zenon
<1>5. s \o t = u
  BY <1>1, <1>2, <1>4, SeqEqual
<1>6. QED
  BY <1>5 DEF s, t, u

LEMMA NumText == 
  ASSUME NEW n \in Int
  PROVE  IsText(<<Num(n)>>)
BY DEF IsText, Num

LEMMA TokenText == 
  ASSUME NEW m, NEW n \in Int
  PROVE  IsText(<<[t |-> m, n |-> n]>>)
BY DEF IsText

LEMMA ElementText ==
  ASSUME NEW l, IsText(l), NEW i \in 1 .. Len(l)
  PROVE  IsText(<<l[i]>>)
<1>1. l[i] = [t |-> l[i].t, n |-> l[i].n] /\ l[i].n \in Int
  BY TextSeq
<1>2. QED
  BY <1>1, TokenText

-----------------------------------------------------------------------------
\* The decoder.

LEMMA WordParts ==
  ASSUME NEW w \in Word
  PROVE  /\ w \in Nat /\ w < 65536
         /\ w \div 2048 \in Nat /\ w \div 2048 < 32
         /\ w % 256 \in Nat /\ w % 256 < 256
         /\ w % 2048 \in Nat /\ w % 64 \in Nat
         /\ w % 16 \in 0 .. 15 /\ w % 8 \in 0 .. 7
BY WordMember

LEMMA FieldRanges ==
  ASSUME NEW w \in Nat
  PROVE  /\ Field(w, 8, 3) \in 0 .. 7
         /\ Field(w, 3, 3) \in 0 .. 7 /\ Field(w, 0, 3) \in 0 .. 7
         /\ Field(w, 3, 4) \in 0 .. 15 /\ Field(w, 7, 4) \in 0 .. 15
         /\ Field(w, 9, 2) \in 0 .. 3 /\ Field(w, 7, 2) \in 0 .. 3 /\ Field(w, 6, 2) \in 0 .. 3
         /\ Field(w, 6, 5) \in 0 .. 31
BY DEF Field

LEMMA OffsetText ==
  ASSUME NEW w \in Word
  PROVE  /\ IsText(<<Offset(w)>>) /\ (Offset(w).n - w) % 256 = 0
         /\ Offset(w).n \in Int /\ IsNum(Offset(w))
<1> DEFINE byte == w % 256
           n == IF CharSigned /\ byte >= 128 THEN byte - 256 ELSE byte
<1>1. n \in Int /\ (n - w) % 256 = 0
  BY WordParts
<1>2. Offset(w) = Num(n)
  BY DEF Offset
<1> HIDE DEF n
<1>3. QED
  BY <1>1, <1>2, NumText DEF Num, IsNum

\* A line of n tokens.
TextOf(l, n) == IsText(l) /\ Len(l) = n

LEMMA TextOfKws ==
  ASSUME NEW S, NEW s \in Seq(S), NEW n, Len(s) = n
  PROVE  TextOf(Kws(s), n)
BY KwsText DEF TextOf

LEMMA TextOfConcat ==
  ASSUME NEW a, NEW b, NEW m \in Nat, NEW n \in Nat, TextOf(a, m), TextOf(b, n)
  PROVE  TextOf(a \o b, m + n)
BY ConcatText DEF TextOf

LEMMA TextOfElement ==
  ASSUME NEW l, NEW n \in Nat, TextOf(l, n), NEW i \in 1 .. n
  PROVE  IsText(<<l[i]>>)
BY ElementText DEF TextOf

LEMMA RegisterTables ==
  /\ TextOf(skipregn_dst, 8) /\ TextOf(skipregn_src, 8) /\ TextOf(regn_w, 8)
  /\ TextOf(intregn_r, 16) /\ TextOf(intregn_w, 16)
<1>1. /\ TextOf(<<Num(0)>>, 1) /\ TextOf(<<Num(4)>>, 1)
      /\ TextOf(<<Num(14), Num(15)>>, 2)
      /\ TextOf(<<Num(11), Num(12), Num(13), Num(14), Num(15)>>, 5)
  BY DEF IsText, Num, TextOf
<1>2. TextOf(skipregn_dst, 8)
  <2> DEFINE s == <<"DD", "DP", "DB", "DL", "DA", "DT", "DX">>
  <2>1. s \in Seq({s[i] : i \in 1 .. 7}) /\ Len(s) = 7
    OBVIOUS
  <2>2. TextOf(Kws(s), 7)
    BY <2>1, TextOfKws, Zenon
  <2>3. QED
    BY <1>1, <2>2, TextOfConcat DEF skipregn_dst
<1>3. TextOf(skipregn_src, 8)
  <2> DEFINE s == <<"SD", "SP", "SB", "SL", "SA", "ST", "SX">>
  <2>1. s \in Seq({s[i] : i \in 1 .. 7}) /\ Len(s) = 7
    OBVIOUS
  <2>2. TextOf(Kws(s), 7)
    BY <2>1, TextOfKws, Zenon
  <2>3. QED
    BY <1>1, <2>2, TextOfConcat DEF skipregn_src
<1>4. TextOf(regn_w, 8)
  <2> DEFINE s == <<"DS", "DD", "DP", "DB", "DL", "DA", "DT", "DX">>
  <2>1. s \in Seq({s[i] : i \in 1 .. 8}) /\ Len(s) = 8
    OBVIOUS
  <2>2. QED
    BY <2>1, TextOfKws, Zenon DEF regn_w
<1>5. TextOf(intregn_r, 16)
  <2> DEFINE s == <<"PANS", "STS", "OPR", "PGS", "PVL", "IIC", "PID", "PIE",
                    "CSR", "ACTL", "ALD", "PES", "PGC", "PEA">>
  <2>1. s \in Seq({s[i] : i \in 1 .. 14}) /\ Len(s) = 14
    OBVIOUS
  <2>2. TextOf(Kws(s), 14)
    BY <2>1, TextOfKws, Zenon
  <2>3. QED
    BY <1>1, <2>2, TextOfConcat DEF intregn_r
<1>6. TextOf(intregn_w, 16)
  <2> DEFINE s == <<"PANC", "STS", "LMP", "PCR">>
             r == <<"IIE", "PID", "PIE", "CCL", "LCIL", "UCILR">>
  <2>1. /\ s \in Seq({s[i] : i \in 1 .. 4}) /\ Len(s) = 4
        /\ r \in Seq({r[i] : i \in 1 .. 6}) /\ Len(r) = 6
    OBVIOUS
  <2>2. TextOf(Kws(s), 4) /\ TextOf(Kws(r), 6)
    BY <2>1, TextOfKws, Zenon
  <2>3. TextOf(Kws(s) \o <<Num(4)>>, 4 + 1)
    BY <1>1, <2>2, TextOfConcat
  <2>4. TextOf(Kws(s) \o <<Num(4)>> \o Kws(r), 5 + 6)
    BY <2>2, <2>3, TextOfConcat
  <2>5. QED
    BY <1>1, <2>4, TextOfConcat DEF intregn_w
<1>7. QED
  BY <1>2, <1>3, <1>4, <1>5, <1>6

LEMMA SrcDstText ==
  ASSUME NEW w \in Nat
  PROVE  /\ IsText(<<Src(w)>>) /\ IsText(<<Dst(w)>>)
         /\ IsText(<<Src(w), Dst(w)>>)
<1>1. Field(w, 3, 3) + 1 \in 1 .. 8 /\ Field(w, 0, 3) + 1 \in 1 .. 8
  BY FieldRanges
<1>2. IsText(<<Src(w)>>) /\ IsText(<<Dst(w)>>)
  BY <1>1, RegisterTables, TextOfElement DEF Src, Dst
<1>3. <<Src(w), Dst(w)>> = <<Src(w)>> \o <<Dst(w)>>
  OBVIOUS
<1>4. QED
  BY <1>2, <1>3, ConcatText, Zenon

LEMMA LedOne ==
  ASSUME NEW m
  PROVE  Led(Kws(<<m>>), m)
<1>1. <<m>> \in Seq({m}) /\ Len(<<m>>) > 0 /\ <<m>>[1] = m
  OBVIOUS
<1>2. QED
  BY <1>1, LedKws, Zenon

LEMMA NameLed ==
  ASSUME NEW table, NEW w, Known(table, w)
  PROVE  \E n \in DOMAIN table : table[n] = w /\ Led(Name(table, w), n)
<1> DEFINE n == CHOOSE n \in Named(table, w) : TRUE
<1>1. n \in DOMAIN table /\ table[n] = w
  BY DEF Known, Named
<1>2. Name(table, w) = Kws(<<n>>)
  BY DEF Name
<1> HIDE DEF n
<1>3. QED
  BY <1>1, <1>2, LedOne

LEMMA MemrefLed ==
  ASSUME NEW w \in Word, NEW m
  PROVE  LET text == MemrefText(m, w) IN Led(text, m) /\ text[Len(text)] = Offset(w)
<1> DEFINE k == Field(w, 8, 3) + 1
           s == <<m>> \o relmode_str[k]
           S == {m, ",B", "I", ",X"}
<1>1. k \in 1 .. 8
  BY FieldRanges, WordParts
<1>2. relmode_str[k] \in Seq(S)
  <2> HIDE DEF k
  <2>1. k \in {1, 2, 3, 4, 5, 6, 7, 8}
    BY <1>1
  <2>2. /\ relmode_str[1] \in Seq(S) /\ relmode_str[2] \in Seq(S)
        /\ relmode_str[3] \in Seq(S) /\ relmode_str[4] \in Seq(S)
        /\ relmode_str[5] \in Seq(S) /\ relmode_str[6] \in Seq(S)
        /\ relmode_str[7] \in Seq(S) /\ relmode_str[8] \in Seq(S)
    BY DEF relmode_str
  <2>3. QED
    BY <2>1, <2>2
<1> HIDE DEF k
<1>3. s \in Seq(S) /\ Len(s) > 0 /\ s[1] = m
  <2>1. <<m>> \in Seq(S)
    OBVIOUS
  <2> HIDE DEF S
  <2>2. QED
    BY <1>2, <2>1
<1> HIDE DEF s
<1>4. Led(Kws(s), m)
  BY <1>3, LedKws
<1>5. MemrefText(m, w) = Kws(s) \o <<Offset(w)>>
  BY DEF MemrefText, s, k
<1>6. Led(Kws(s) \o <<Offset(w)>>, m)
  BY <1>4, OffsetText, LedConcat
<1>7. (Kws(s) \o <<Offset(w)>>)[Len(Kws(s) \o <<Offset(w)>>)] = Offset(w)
  BY <1>4, OffsetText, ConcatText DEF Led
<1>8. QED
  BY <1>5, <1>6, <1>7

\* The mnemonics of the branches.
Branches == {"JMP", "JPL"} \cup Range(CondJumps)

LEMMA BranchNames ==
  Branches = {"JMP", "JPL", "JAP", "JAN", "JAZ", "JAF", "JPC", "JNC", "JXZ", "JXN"}
BY DEF Branches, CondJumps, Range

\* A line that names no branch.
NoBranch(l) == IsText(l) /\ First(l).t \notin Branches

LEMMA LedNoBranch ==
  ASSUME NEW l, NEW m, Led(l, m), m \notin Branches
  PROVE  NoBranch(l)
BY DEF Led, NoBranch

LEMMA OneNoBranch ==
  ASSUME NEW m, m \notin Branches
  PROVE  NoBranch(Kws(<<m>>)) /\ \A b : IsText(b) => NoBranch(Kws(<<m>>) \o b)
<1>1. Led(Kws(<<m>>), m)
  BY LedOne, Zenon
<1>2. \A b : IsText(b) => Led(Kws(<<m>>) \o b, m)
  BY <1>1, LedConcat, Zenon
<1>3. QED
  BY <1>1, <1>2, LedNoBranch, Zenon

LEMMA NameNoBranch ==
  ASSUME NEW table, NEW w, Known(table, w), DOMAIN table \cap Branches = {}
  PROVE  NoBranch(Name(table, w))
<1>1. PICK n \in DOMAIN table : Led(Name(table, w), n)
  BY NameLed, Zenon
<1>2. n \notin Branches
  OBVIOUS
<1>3. QED
  BY <1>1, <1>2, LedNoBranch, Zenon

LEMMA EmptyText == IsText(<<>>) /\ First(<<>>).t = ""
BY DEF IsText, First, End, Kw

(* 0140000-0143777.                                                           *)
LEMMA Text140NoBranch ==
  ASSUME NEW w \in Word, NEW c
  PROVE  NoBranch(Text140(w, c))
<1> DEFINE low6 == 64 * (w \div 64)
           low3 == w - 8 * Field(w, 3, 3)
           op == w % 8
           g1 == Field(w, 6, 2) = 0
           g2 == Known(Exact, w)
           g3 == Known(Idents, w)
           g4 == w = \o140133 /\ c = "nd100"
           g5 == c = "nd110" /\ Known(Exact110, w)
           g6 == c = "nd110" /\ low6 = \o140700
           g7 == c = "nd100" /\ Known(Masked100, low6)
           g8 == Known(Masked, low6)
           g9 == low6 = \o140600
           g10 == low6 = \o141200
           g11 == low6 = \o141600
           g12 == Within(low3, \o143300, \o143306)
           t1 == Kws(<<"SKP", "IF">>) \o <<Dst(w)>>
                 \o Kws(<<skiptype_str[Field(w, 8, 3) + 1]>>) \o <<Src(w)>>
           t2 == Name(Exact, w)
           t3 == Kws(<<"IDENT">>) \o Name(Idents, w)
           t5 == Name(Exact110, w)
           t6 == Kws(<<Deltas[op + 1]>>) \o <<Num(8 * Field(w, 3, 3))>>
           t7 == Name(Masked100, low6)
           t8 == Name(Masked, low6)
           t9 == Kws(<<"EXR">>) \o <<Src(w)>>
           t10 == Kws(<<"RMPY">>) \o <<Src(w), Dst(w)>>
           t11 == Kws(<<"RDIV">>) \o <<Src(w)>>
           t12 == Kws(<<PhysMem[op + 1]>>)
           text == Text140(w, c)
<1>1. text = IF g1 THEN t1 ELSE IF g2 THEN t2 ELSE IF g3 THEN t3 ELSE IF g4 THEN <<>>
             ELSE IF g5 THEN t5 ELSE IF g6 THEN t6 ELSE IF g7 THEN t7 ELSE IF g8 THEN t8
             ELSE IF g9 THEN t9 ELSE IF g10 THEN t10 ELSE IF g11 THEN t11
             ELSE IF g12 THEN t12 ELSE Undef
  BY DEF Text140
<1>w. w \in Nat /\ op \in 0 .. 7 /\ Field(w, 3, 3) \in 0 .. 7
  BY WordParts, FieldRanges
<1> HIDE DEF g1, g2, g3, g4, g5, g6, g7, g8, g9, g10, g11, g12,
             t1, t2, t3, t5, t6, t7, t8, t9, t10, t11, t12, text
<1> SUFFICES NoBranch(text)
  BY DEF text
<1>2. \/ text = t1
      \/ (g2 /\ text = t2) \/ (g5 /\ text = t5) \/ (g7 /\ text = t7) \/ (g8 /\ text = t8)
      \/ (g3 /\ text = t3)
      \/ text = <<>>
      \/ text = t6
      \/ (text = t9 \/ text = t10 \/ text = t11 \/ text = Undef)
      \/ (g12 /\ text = t12)
  BY <1>1
<1>3. /\ DOMAIN Exact \cap Branches = {} /\ DOMAIN Exact110 \cap Branches = {}
      /\ DOMAIN Masked \cap Branches = {} /\ DOMAIN Masked100 \cap Branches = {}
      /\ "SKP" \notin Branches /\ "IDENT" \notin Branches /\ "EXR" \notin Branches
      /\ "RMPY" \notin Branches /\ "RDIV" \notin Branches /\ "UNDEF" \notin Branches
      /\ "" \notin Branches
  BY BranchNames DEF Exact, Exact110, Masked, Masked100
<1>r. IsText(<<Src(w)>>) /\ IsText(<<Dst(w)>>) /\ IsText(<<Src(w), Dst(w)>>)
  BY <1>w, SrcDstText
<1>4. CASE text = t1
  <2> DEFINE s == <<"SKP", "IF">>
             b == Kws(<<skiptype_str[Field(w, 8, 3) + 1]>>)
  <2>1. s \in Seq({"SKP", "IF"}) /\ Len(s) > 0 /\ s[1] = "SKP"
    OBVIOUS
  <2>2. Led(Kws(s), "SKP")
    BY <2>1, LedKws, Zenon
  <2>3. IsText(b)
    BY LedOne, Zenon DEF Led
  <2>4. t1 = ((Kws(s) \o <<Dst(w)>>) \o b) \o <<Src(w)>>
    BY Zenon DEF t1
  <2> HIDE DEF s, b
  <2>5. Led(Kws(s) \o <<Dst(w)>>, "SKP")
    BY <2>2, <1>r, LedConcat, Zenon
  <2>6. Led((Kws(s) \o <<Dst(w)>>) \o b, "SKP")
    BY <2>3, <2>5, LedConcat, Zenon
  <2>7. Led(t1, "SKP")
    BY <2>4, <2>6, <1>r, LedConcat, Zenon
  <2>8. QED
    BY <1>3, <1>4, <2>7, LedNoBranch, Zenon
<1>5. CASE (g2 /\ text = t2) \/ (g5 /\ text = t5) \/ (g7 /\ text = t7) \/ (g8 /\ text = t8)
  <2>1. g2 => NoBranch(t2)
    BY <1>3, NameNoBranch, Zenon DEF g2, t2
  <2>2. g5 => NoBranch(t5)
    BY <1>3, NameNoBranch, Zenon DEF g5, t5
  <2>3. g7 => NoBranch(t7)
    BY <1>3, NameNoBranch, Zenon DEF g7, t7
  <2>4. g8 => NoBranch(t8)
    BY <1>3, NameNoBranch, Zenon DEF g8, t8
  <2>5. QED
    BY <1>5, <2>1, <2>2, <2>3, <2>4, Zenon
<1>6. CASE g3 /\ text = t3
  <2>1. PICK n \in DOMAIN Idents : Led(Name(Idents, w), n)
    BY <1>6, NameLed, Zenon DEF g3
  <2>2. IsText(Name(Idents, w))
    BY <2>1, Zenon DEF Led
  <2>3. QED
    BY <1>3, <1>6, <2>2, OneNoBranch, Zenon DEF t3
<1>7. CASE text = <<>>
  BY <1>3, <1>7, EmptyText, Zenon DEF NoBranch
<1>8. CASE text = t6
  <2>1. Deltas[op + 1] \notin Branches
    BY <1>w, BranchNames DEF Deltas
  <2>2. IsText(<<Num(8 * Field(w, 3, 3))>>)
    BY <1>w, NumText
  <2>3. QED
    BY <1>8, <2>1, <2>2, OneNoBranch, Zenon DEF t6
<1>9. CASE text = t9 \/ text = t10 \/ text = t11 \/ text = Undef
  <2>1. NoBranch(t9) /\ NoBranch(t11)
    BY <1>r, <1>3, OneNoBranch, Zenon DEF t9, t11
  <2>2. NoBranch(t10) /\ NoBranch(Undef)
    BY <1>r, <1>3, OneNoBranch, Zenon DEF t10, Undef
  <2>3. QED
    BY <1>9, <2>1, <2>2, Zenon
<1>10. CASE g12 /\ text = t12
  <2>1. op \in 0 .. 6
    BY <1>w, <1>10, SMT DEF g12, Within, Field
  <2>2. PhysMem[op + 1] \notin Branches
    BY <2>1, BranchNames DEF PhysMem
  <2>3. QED
    BY <1>10, <2>2, OneNoBranch, Zenon DEF t12
<1>11. QED
  BY <1>2, <1>4, <1>5, <1>6, <1>7, <1>8, <1>9, <1>10, Zenon

(* A line of an instruction with several operands.                            *)
LEMMA LedMods ==
  ASSUME NEW S, NEW m, m \notin Branches, NEW s \in Seq(S), NEW b, IsText(b)
  PROVE  NoBranch(Kws(<<m>> \o s)) /\ NoBranch(Kws(<<m>> \o s) \o b)
<1> DEFINE T == {m} \cup S
           r == <<m>> \o s
<1>1. r \in Seq(T) /\ Len(r) > 0 /\ r[1] = m
  <2>1. <<m>> \in Seq(T) /\ Len(<<m>>) = 1 /\ <<m>>[1] = m
    OBVIOUS
  <2>2. s \in Seq(T)
    BY SeqMonotonic
  <2> HIDE DEF T
  <2>3. QED
    BY <2>1, <2>2
<1> HIDE DEF r, T
<1>2. Led(Kws(r), m)
  BY <1>1, LedKws, Zenon
<1>3. Led(Kws(r) \o b, m)
  BY <1>2, LedConcat, Zenon
<1>4. QED
  BY <1>2, <1>3, LedNoBranch, Zenon DEF r

(* 0144000-0147777.                                                           *)
LEMMA RopTextNoBranch ==
  ASSUME NEW w \in Word
  PROVE  NoBranch(RopText(w))
<1> DEFINE op == Field(w, 6, 5)
           group == op \div 4
           S == {"AD1", "ADC", "CM1", "CLD"}
           m1 == IF group = 5 THEN <<"AD1">> ELSE <<>>
           m2 == IF group = 6 THEN <<"ADC">> ELSE <<>>
           m3 == IF Field(op, 1, 1) = 1 THEN <<"CM1">> ELSE <<>>
           m4 == IF op % 2 = 1 THEN <<"CLD">> ELSE <<>>
           mods == m1 \o m2 \o m3 \o m4
           name == <<"SWAP", "RAND", "REXO", "RORA", "RADD", "RADD", "RADD">>[group + 1]
           regs == <<Src(w), Dst(w)>>
           text == RopText(w)
<1>1. \/ text = Kws(<<"EXIT">>)
      \/ text = Kws(<<"ROP", "NOOP">>)
      \/ text = Kws(<<"RSUB">>) \o regs
      \/ (group # 7 /\ text = Kws(<<name>> \o mods) \o regs)
  BY Zenon DEF RopText
<1>2. group \in 0 .. 7
  BY FieldRanges, WordParts
<1>3. group # 7 => name \notin Branches
  BY <1>2, BranchNames
<1>w. w \in Nat
  BY WordParts
<1>4. IsText(regs)
  BY <1>w, SrcDstText, Zenon
<1>5. mods \in Seq(S)
  <2>1. /\ <<"AD1">> \in Seq(S) /\ <<"ADC">> \in Seq(S)
        /\ <<"CM1">> \in Seq(S) /\ <<"CLD">> \in Seq(S) /\ <<>> \in Seq(S)
    OBVIOUS
  <2> HIDE DEF S
  <2>2. m1 \in Seq(S) /\ m2 \in Seq(S) /\ m3 \in Seq(S) /\ m4 \in Seq(S)
    BY <2>1, Zenon
  <2> HIDE DEF m1, m2, m3, m4
  <2>3. QED
    BY <2>2
<1> HIDE DEF text, name, mods, regs, group
<1> SUFFICES NoBranch(text)
  BY DEF text
<1>6. "EXIT" \notin Branches /\ "ROP" \notin Branches /\ "RSUB" \notin Branches
  BY BranchNames
<1>7. CASE text = Kws(<<"ROP", "NOOP">>)
  <2> DEFINE s == <<"ROP", "NOOP">>
  <2>1. s \in Seq({"ROP", "NOOP"}) /\ Len(s) > 0 /\ s[1] = "ROP"
    OBVIOUS
  <2>2. Led(Kws(s), "ROP")
    BY <2>1, LedKws, Zenon
  <2>3. QED
    BY <1>6, <1>7, <2>2, LedNoBranch, Zenon
<1>8. CASE text = Kws(<<"EXIT">>) \/ text = Kws(<<"RSUB">>) \o regs
  BY <1>4, <1>6, <1>8, OneNoBranch, Zenon
<1>9. CASE group # 7 /\ text = Kws(<<name>> \o mods) \o regs
  BY <1>3, <1>4, <1>5, <1>9, LedMods, Zenon
<1>10. QED
  BY <1>1, <1>7, <1>8, <1>9

(* 0150000-0153777.                                                           *)
LEMMA Text150NoBranch ==
  ASSUME NEW w \in Word
  PROVE  NoBranch(Text150(w))
<1> DEFINE byte == Num(w % 256)
           level == Field(w, 3, 4)
           reg == regn_w[(w % 8) + 1]
           op == Field(w, 6, 2)
           internal == (IF op = 0 THEN intregn_r ELSE intregn_w)[(w % 16) + 1]
           name == <<"TRA", "TRR", "MCL", "MST">>[op + 1]
           text == Text150(w)
           g1 == w < \o150400
           g2 == Within(w, \o151000, \o151377)
           g3 == Within(w, \o151400, \o151777)
           g4 == Within(w, \o152000, \o152377)
           g5 == Within(w, \o152400, \o152577)
           g6 == Within(w, \o152600, \o152777)
           g7 == Within(w, \o153000, \o153377)
           g8 == Within(w, \o153400, \o153577)
           g9 == Within(w, \o153600, \o153777)
           t1 == Kws(<<name>>) \o <<internal>>
           t3 == Kws(<<"NLZ">>) \o <<Offset(w)>>
           t4 == Kws(<<"DNZ">>) \o <<Offset(w)>>
           t5 == Kws(<<"SRB">>) \o <<Num(8 * level)>>
           t6 == Kws(<<"LRB">>) \o <<Num(level)>>
           t7 == Kws(<<"MON">>) \o <<byte>>
           t8 == Kws(<<"IRW">>) \o <<Num(8 * level), reg>>
           t9 == Kws(<<"IRR">>) \o <<Num(8 * level), reg>>
<1>0. text = IF Known(Exact, w) THEN Name(Exact, w) ELSE IF g1 THEN t1
             ELSE IF g2 THEN Kws(<<"WAIT">>) ELSE IF g3 THEN t3 ELSE IF g4 THEN t4
             ELSE IF g5 THEN t5 ELSE IF g6 THEN t6 ELSE IF g7 THEN t7
             ELSE IF g8 THEN t8 ELSE IF g9 THEN t9 ELSE Undef
  BY DEF Text150
<1> HIDE DEF text, g1, g2, g3, g4, g5, g6, g7, g8, g9, t1, t3, t4, t5, t6, t7, t8, t9
<1>1. \/ (Known(Exact, w) /\ text = Name(Exact, w))
      \/ text = Kws(<<"WAIT">>)
      \/ (text = t1 \/ text = t3 \/ text = t4 \/ text = t5)
      \/ (text = t6 \/ text = t7 \/ text = t8 \/ text = t9 \/ text = Undef)
  BY <1>0
<1>2. /\ w \in Nat /\ op \in 0 .. 3 /\ level \in Int /\ w % 256 \in Int
      /\ (w % 8) + 1 \in 1 .. 8 /\ (w % 16) + 1 \in 1 .. 16
  BY WordParts, FieldRanges
<1>3. name \notin Branches
  BY <1>2, BranchNames
<1>4. IsText(<<internal>>) /\ IsText(<<reg>>)
  BY <1>2, RegisterTables, TextOfElement
<1>5. IsText(<<byte>>) /\ IsText(<<Offset(w)>>) /\ IsText(<<Num(8 * level)>>) /\ IsText(<<Num(level)>>)
  <2> HIDE DEF level
  <2>1. 8 * level \in Int /\ level \in Int
    BY <1>2
  <2>2. IsText(<<Offset(w)>>)
    BY OffsetText
  <2>3. QED
    BY <1>2, <2>1, <2>2, NumText
<1>6. IsText(<<Num(8 * level), reg>>)
  <2>1. <<Num(8 * level), reg>> = <<Num(8 * level)>> \o <<reg>>
    OBVIOUS
  <2>2. QED
    BY <1>4, <1>5, <2>1, ConcatText, Zenon
<1> HIDE DEF name, internal, reg, byte, level
<1>7. /\ "WAIT" \notin Branches /\ "NLZ" \notin Branches /\ "DNZ" \notin Branches
      /\ "SRB" \notin Branches /\ "LRB" \notin Branches /\ "MON" \notin Branches
      /\ "IRW" \notin Branches /\ "IRR" \notin Branches /\ "UNDEF" \notin Branches
      /\ DOMAIN Exact \cap Branches = {}
  BY BranchNames DEF Exact
<1>8. Known(Exact, w) => NoBranch(Name(Exact, w))
  BY <1>7, NameNoBranch, Zenon
<1>9. NoBranch(t1)
  BY <1>3, <1>4, OneNoBranch, Zenon DEF t1
<1>10. NoBranch(Kws(<<"WAIT">>)) /\ NoBranch(Undef)
  BY <1>5, <1>7, OneNoBranch, Zenon DEF Undef
<1>11. NoBranch(t3) /\ NoBranch(t4) /\ NoBranch(t5)
  BY <1>5, <1>7, OneNoBranch, Zenon DEF t3, t4, t5
<1>12. NoBranch(t6) /\ NoBranch(t7)
  BY <1>5, <1>7, OneNoBranch, Zenon DEF t6, t7
<1>13. NoBranch(t8) /\ NoBranch(t9)
  BY <1>6, <1>7, OneNoBranch, Zenon DEF t8, t9
<1>14. NoBranch(text)
  BY <1>1, <1>8, <1>9, <1>10, <1>11, <1>12, <1>13
<1>15. QED
  BY <1>14 DEF text

(* 0154000-0157777.                                                           *)
LEMMA ShiftTextNoBranch ==
  ASSUME NEW w \in Word
  PROVE  NoBranch(ShiftText(w))
<1> DEFINE count == w % 64
           name == <<"SHT", "SHD", "SHA", "SAD">>[Field(w, 7, 2) + 1]
           k == Field(w, 9, 2) + 1
           S == {"ROT", "ZIN", "LIN"}
           right == Kws(<<"SHR">>) \o <<Num(64 - count)>>
           b == IF count >= 32 THEN right ELSE <<Num(count)>>
<1>1. count \in Int /\ Field(w, 7, 2) \in 0 .. 3 /\ k \in 1 .. 4
  BY FieldRanges, WordParts
<1>2. name \notin Branches
  BY <1>1, BranchNames
<1>3. shtype_str[k] \in Seq(S)
  <2>1. /\ shtype_str[1] \in Seq(S) /\ shtype_str[2] \in Seq(S)
        /\ shtype_str[3] \in Seq(S) /\ shtype_str[4] \in Seq(S)
    BY DEF shtype_str
  <2> HIDE DEF k
  <2>2. QED
    BY <1>1, <2>1
<1>4. IsText(b)
  <2>1. IsText(<<Num(64 - count)>>) /\ IsText(<<Num(count)>>)
    BY <1>1, NumText
  <2>2. IsText(Kws(<<"SHR">>))
    BY LedOne, Zenon DEF Led
  <2>3. IsText(right)
    BY <2>1, <2>2, ConcatText, Zenon
  <2>4. QED
    BY <2>1, <2>3, Zenon
<1>5. ShiftText(w) = Kws(<<name>> \o shtype_str[k]) \o b
  BY Zenon DEF ShiftText
<1> HIDE DEF name, k, b, S
<1>6. QED
  BY <1>2, <1>3, <1>4, <1>5, LedMods, Zenon

(* 0174000-0177777.                                                           *)
LEMMA BitTextNoBranch ==
  ASSUME NEW w \in Word
  PROVE  NoBranch(BitText(w))
<1> DEFINE bit == Field(w, 3, 4)
           k == Field(w, 7, 4) + 1
           regs == <<Num(8 * bit), regn_w[(w % 8) + 1]>>
           status == Kws(<<bopstsbit_str[bit + 1]>>)
           b == IF w % 8 # 0 THEN regs ELSE IF bit < 8 THEN status ELSE <<>>
           S == {"BSET", "BSKP", "BSTC", "BSTA", "BLDC", "BLDA", "BANC", "BAND",
                 "BORC", "BORA", "ZRO", "ONE", "BCM", "BAC"}
           Ops == {"BSET", "BSKP", "BSTC", "BSTA", "BLDC", "BLDA", "BANC", "BAND",
                   "BORC", "BORA"}
<1>1. w \in Nat /\ bit \in Int /\ k \in 1 .. 16 /\ (w % 8) + 1 \in 1 .. 8
  BY FieldRanges, WordParts
<1>2. bop_str[k] \in Seq(S) /\ Len(bop_str[k]) > 0 /\ bop_str[k][1] \in Ops
  <2>1. /\ \A i \in 1 .. 4 : bop_str[i] \in Seq(S) /\ Len(bop_str[i]) > 0 /\ bop_str[i][1] \in Ops
        /\ \A i \in 5 .. 8 : bop_str[i] \in Seq(S) /\ Len(bop_str[i]) > 0 /\ bop_str[i][1] \in Ops
        /\ \A i \in 9 .. 12 : bop_str[i] \in Seq(S) /\ Len(bop_str[i]) > 0 /\ bop_str[i][1] \in Ops
        /\ \A i \in 13 .. 16 : bop_str[i] \in Seq(S) /\ Len(bop_str[i]) > 0 /\ bop_str[i][1] \in Ops
    BY DEF bop_str
  <2> HIDE DEF k, S, Ops
  <2>2. k \in 1 .. 4 \/ k \in 5 .. 8 \/ k \in 9 .. 12 \/ k \in 13 .. 16
    BY <1>1
  <2>3. QED
    BY <2>1, <2>2, Zenon
<1>3. Ops \cap Branches = {}
  BY BranchNames
<1>4. IsText(b)
  <2>1. regs = <<Num(8 * bit)>> \o <<regn_w[(w % 8) + 1]>>
    OBVIOUS
  <2>2. IsText(<<Num(8 * bit)>>)
    BY <1>1, NumText
  <2>3. IsText(<<regn_w[(w % 8) + 1]>>)
    BY <1>1, RegisterTables, TextOfElement
  <2>4. IsText(regs)
    BY <2>1, <2>2, <2>3, ConcatText, Zenon
  <2>5. IsText(status)
    BY LedOne, Zenon DEF Led
  <2>6. QED
    BY <2>4, <2>5, EmptyText, Zenon
<1>5. BitText(w) = Kws(bop_str[k]) \o b
  BY Zenon DEF BitText
<1> HIDE DEF k, b, S, Ops
<1>6. Led(Kws(bop_str[k]), bop_str[k][1])
  BY <1>2, LedKws, Zenon
<1>7. Led(BitText(w), bop_str[k][1])
  BY <1>4, <1>5, <1>6, LedConcat, Zenon
<1>8. bop_str[k][1] \notin Branches
  BY <1>2, <1>3, Zenon
<1>9. QED
  BY <1>7, <1>8, LedNoBranch, Zenon

(* nd100_disasm: the lines that name a branch are the words of a branch, and *)
(* they end in its offset.                                                    *)
LEMMA DisasmBranches ==
  ASSUME NEW w \in Word, NEW c
  PROVE  LET text == nd100_disasm(w, c) IN
         /\ IsText(text)
         /\ First(text).t \in Branches <=> nd100_is_branch(w)
         /\ nd100_is_branch(w) => text[Len(text)] = Offset(w)
<1> DEFINE text == nd100_disasm(w, c)
           top == w \div 2048
           sub == Field(w, 8, 3)
           low == w % 2048
           memref == Memref[top + 1]
           jump == CondJumps[sub + 1]
           arg == <<"SAB", "SAA", "SAT", "SAX", "AAB", "AAA", "AAT", "AAX">>[sub + 1]
           t21 == MemrefText(memref, w)
           t22 == Kws(<<jump>>) \o <<Offset(w)>>
           t23 == MemrefText("JPL", w)
           t24 == Text140(w, c)
           t25 == RopText(w)
           t26 == Text150(w)
           t27 == ShiftText(w)
           t28 == Kws(<<"IOT">>) \o <<Num(low)>>
           t29 == Kws(<<"IOX">>) \o <<Num(low)>>
           t30 == Kws(<<arg>>) \o <<Offset(w)>>
           t31 == BitText(w)
           P(l) == /\ IsText(l) /\ First(l).t \in Branches /\ l[Len(l)] = Offset(w)
<1>1. top \in Nat /\ top < 32 /\ sub \in 0 .. 7 /\ low \in Int
  BY WordParts, FieldRanges
<1>2. nd100_is_branch(w) <=> top = 21 \/ top = 22 \/ top = 23
  BY DEF nd100_is_branch
<1>3. IsText(<<Offset(w)>>) /\ IsText(<<Num(low)>>)
  <2>1. IsText(<<Offset(w)>>)
    BY OffsetText
  <2> HIDE DEF low
  <2>2. QED
    BY <1>1, <2>1, NumText
<1>4. text = CASE top <= 21 -> t21 [] top = 22 -> t22 [] top = 23 -> t23 [] top = 24 -> t24
               [] top = 25 -> t25 [] top = 26 -> t26 [] top = 27 -> t27 [] top = 28 -> t28
               [] top = 29 -> t29 [] top = 30 -> t30 [] top = 31 -> t31
  BY DEF nd100_disasm
<1>5. /\ top < 21 => memref \notin Branches
      /\ top = 21 => memref \in Branches
      /\ jump \in Branches /\ "JPL" \in Branches
      /\ "IOT" \notin Branches /\ "IOX" \notin Branches /\ arg \notin Branches
  <2> HIDE DEF top, sub
  <2>1. top < 21 => memref \notin Branches
    BY <1>1, BranchNames DEF Memref
  <2>2. top = 21 => memref \in Branches
    BY BranchNames DEF Memref
  <2>3. jump \in Branches /\ "JPL" \in Branches
    BY <1>1, BranchNames DEF CondJumps
  <2>4. "IOT" \notin Branches /\ "IOX" \notin Branches /\ arg \notin Branches
    BY <1>1, BranchNames
  <2>5. QED
    BY <2>1, <2>2, <2>3, <2>4
<1> HIDE DEF top, sub, low
<1>6. ASSUME NEW m, m \in Branches
      PROVE  P(MemrefText(m, w)) /\ P(Kws(<<m>>) \o <<Offset(w)>>)
  <2>1. P(MemrefText(m, w))
    BY <1>6, MemrefLed, Zenon DEF Led
  <2>2. Led(Kws(<<m>>), m)
    BY LedOne, Zenon
  <2>3. Led(Kws(<<m>>) \o <<Offset(w)>>, m)
    BY <1>3, <2>2, LedConcat, Zenon
  <2> DEFINE a == Kws(<<m>>)
             l == a \o <<Offset(w)>>
  <2>4. l[Len(l)] = Offset(w)
    <3>1. Len(a) \in Nat /\ IsText(a)
      BY <2>2 DEF Led, IsText
    <3> HIDE DEF a
    <3>2. Len(<<Offset(w)>>) = 1 /\ <<Offset(w)>>[1] = Offset(w)
      OBVIOUS
    <3>3. QED
      BY <1>3, <3>1, <3>2, ConcatText
  <2>5. QED
    BY <1>6, <2>1, <2>3, <2>4, Zenon DEF Led
<1>7. NoBranch(t24) /\ NoBranch(t25) /\ NoBranch(t26) /\ NoBranch(t27) /\ NoBranch(t31)
  BY Text140NoBranch, RopTextNoBranch, Text150NoBranch, ShiftTextNoBranch, BitTextNoBranch
<1>8. NoBranch(t28) /\ NoBranch(t29) /\ NoBranch(t30)
  BY <1>3, <1>5, OneNoBranch, Zenon
<1>9. top < 21 => NoBranch(t21)
  <2>1. Led(t21, memref)
    BY MemrefLed, Zenon
  <2>2. QED
    BY <1>5, <2>1, LedNoBranch, Zenon
<1>10. /\ top = 21 => P(t21)
       /\ P(t22) /\ P(t23)
  <2> HIDE DEF P
  <2>1. top = 21 => P(t21)
    BY <1>5, <1>6, Zenon
  <2>2. P(t22) /\ P(t23)
    BY <1>5, <1>6, Zenon
  <2>3. QED
    BY <2>1, <2>2, Zenon
<1> HIDE DEF t21, t22, t23, t24, t25, t26, t27, t28, t29, t30, t31, text, P, memref
<1>11. CASE top = 21 \/ top = 22 \/ top = 23
  <2>1. P(text)
    BY <1>4, <1>10, <1>11
  <2>2. QED
    BY <1>2, <1>11, <2>1, Zenon DEF P, text
<1>12. CASE ~(top = 21 \/ top = 22 \/ top = 23)
  <2>1. NoBranch(text)
    BY <1>1, <1>4, <1>7, <1>8, <1>9, <1>12
  <2>2. QED
    BY <1>2, <1>12, <2>1, Zenon DEF NoBranch, text
<1>13. QED
  BY <1>11, <1>12

(* nd100_branch_offset: the number a branch is listed with, whatever char is. *)
LEMMA BranchOffset ==
  ASSUME NEW w \in Word, nd100_is_branch(w)
  PROVE  (nd100_branch_offset(w) - Offset(w).n) % 256 = 0
<1> DEFINE byte == w % 256
           n == IF CharSigned /\ byte >= 128 THEN byte - 256 ELSE byte
           k == IF byte >= 128 THEN byte - 256 ELSE byte
<1>1. byte \in Int
  BY WordParts
<1>2. (k - n) % 256 = 0
  BY <1>1
<1>3. nd100_branch_offset(w) = k
  BY DEF nd100_branch_offset
<1>4. Offset(w).n = n
  BY DEF Offset, Num
<1> HIDE DEF k, n
<1>5. QED
  BY <1>2, <1>3, <1>4

LEMMA FromBytesWord ==
  ASSUME NEW b \in Seq(0 .. 255), Len(b) = 2, NEW big \in BOOLEAN
  PROVE  FromBytes(b, big) \in Word
<1> DEFINE S == 0 .. 255
           x == b[1]
           y == b[2]
<1>1. x \in S /\ y \in S
  <2>1. 1 \in 1 .. Len(b) /\ 2 \in 1 .. Len(b)
    OBVIOUS
  <2> HIDE DEF S
  <2>2. QED
    BY <2>1, ElementOfSeq, ZenonT(30) DEF S
<1>2. FromBytes(b, big) = IF big THEN 256 * x + y ELSE x + 256 * y
  BY Zenon DEF FromBytes
<1> HIDE DEF x, y
<1>3. x \in Nat /\ y \in Nat /\ x < 256 /\ y < 256
  BY <1>1
<1> HIDE DEF S
<1>4. FromBytes(b, big) \in Nat /\ FromBytes(b, big) < 65536
  BY <1>2, <1>3
<1>5. QED
  BY <1>4, WordMember

LEMMA ToBytesType ==
  ASSUME NEW w \in Word, NEW big \in BOOLEAN
  PROVE  LET b == ToBytes(w, big) IN
         b \in Seq(0 .. 255) /\ Len(b) = 2 /\ FromBytes(b, big) = w
<1> DEFINE x == w \div 256
           y == w % 256
           last == 255
           S == 0 .. last
           b == ToBytes(w, big)
<1>1. x \in S /\ y \in S /\ x \in Int /\ y \in Int /\ 256 * x + y = w
  <2>1. x \in Nat /\ y \in Nat /\ x <= last /\ y <= last /\ 256 * x + y = w /\ last \in Int
    BY WordMember
  <2> HIDE DEF x, y, last
  <2>2. QED
    BY <2>1, RangeMember
<1>2. b = IF big THEN <<x, y>> ELSE <<y, x>>
  BY DEF ToBytes
<1>3. FromBytes(b, big) = IF big THEN 256 * b[1] + b[2] ELSE b[1] + 256 * b[2]
  BY DEF FromBytes
<1> HIDE DEF x, y, S, b
<1>4. b \in Seq(S) /\ Len(b) = 2
  BY <1>1, <1>2
<1>5. FromBytes(b, big) = w
  BY <1>1, <1>2, <1>3
<1>6. QED
  BY <1>4, <1>5, Zenon DEF b, S

-----------------------------------------------------------------------------
\* Listed lines.

LEMMA AnnotationText ==
  ASSUME NEW w \in Word
  PROVE  IsText(Annotation(w))
<1>1. \A n \in Int : IsText(Comment(n))
  <2> TAKE n \in Int
  <2>1. IsText(<<Kw(";")>>)
    <3>1. <<Kw(";")>> = <<[t |-> ";", n |-> 0]>> /\ 0 \in Int
      BY DEF Kw
    <3>2. QED
      BY <3>1, TokenText, Zenon
  <2>2. IsText(<<[t |-> "note", n |-> n]>>)
    BY TokenText, Zenon
  <2>3. Comment(n) = <<Kw(";")>> \o <<[t |-> "note", n |-> n]>>
    <3> DEFINE a == Kw(";")
               b == [t |-> "note", n |-> n]
    <3>1. Comment(n) = <<a, b>>
      BY DEF Comment
    <3>2. QED
      BY <3>1, PairConcat, Zenon
  <2>4. QED
    BY <2>1, <2>2, <2>3, ConcatText, Zenon
<1> DEFINE call == w % 256
           device == w % 2048
           page == w \div 256
           top == w \div 2048
<1>2. call \in Int /\ device \in Int
  BY WordParts
<1>3. IsText(mon_lookup(call)) /\ IsText(iox_lookup(device)) /\ IsText(<<>>)
  <2> HIDE DEF call, device
  <2>1. QED
    BY <1>1, <1>2, EmptyText, Zenon DEF mon_lookup, iox_lookup
<1> DEFINE m == mon_lookup(call)
           i == iox_lookup(device)
           e == <<>>
<1>4. Annotation(w) = IF page = \o153000 \div 256 THEN m
                      ELSE IF top = \o164000 \div 2048 THEN i ELSE e
  BY DEF Annotation
<1> HIDE DEF m, i, e, page, top
<1>5. Annotation(w) = m \/ Annotation(w) = i \/ Annotation(w) = e
  BY <1>4
<1>6. IsText(m) /\ IsText(i) /\ IsText(e)
  BY <1>3, Zenon DEF m, i, e
<1>7. QED
  BY <1>5, <1>6, Zenon

LEMMA ListingText ==
  ASSUME NEW b \in Seq(0 .. 255), Len(b) <= 2, NEW big \in BOOLEAN, NEW c
  PROVE  IsText(Listing(b, big, c))
<1>1. IsText(Invalid)
  BY LedOne, Zenon DEF Invalid, Led
<1>2. CASE Len(b) < 2
  BY <1>1, <1>2, Zenon DEF Listing
<1>3. CASE ~(Len(b) < 2)
  <2> DEFINE w == FromBytes(b, big)
             n == Len(b)
  <2>1. w \in Word
    <3>1. n \in Nat
      OBVIOUS
    <3>2. n <= 2 /\ ~(n < 2)
      BY <1>3
    <3> HIDE DEF n
    <3>3. n = 2
      BY <3>1, <3>2
    <3>4. QED
      BY <3>3, FromBytesWord, Zenon DEF n
  <2>2. Listing(b, big, c) = nd100_disasm(w, c) \o Annotation(w)
    BY <1>3, Zenon DEF Listing
  <2> HIDE DEF w
  <2>3. QED
    BY <2>1, <2>2, DisasmBranches, AnnotationText, ConcatText, Zenon
<1>4. QED
  BY <1>2, <1>3, Zenon

-----------------------------------------------------------------------------
\* The assembler's cursor.

LEMMA FirstText ==
  ASSUME NEW p, IsText(p)
  PROVE  First(p).n \in Int /\ (Len(p) > 0 => First(p) = p[1])
<1>1. Len(p) \in Nat
  BY TextSeq
<1>2. CASE p = <<>>
  <2>1. First(p) = End
    BY <1>2 DEF First
  <2>2. End.n \in Int /\ ~(Len(p) > 0)
    BY <1>2 DEF End, Kw
  <2>3. QED
    BY <2>1, <2>2
<1>3. CASE p # <<>>
  <2>1. Len(p) > 0
    <3>1. p \in Seq({p[i] : i \in 1 .. Len(p)})
      BY TextSeq, Zenon
    <3>2. QED
      BY <1>1, <1>3, <3>1, EmptySeq
  <2>2. First(p) = p[1]
    BY <2>1, FirstIsHead
  <2>3. 1 \in 1 .. Len(p)
    BY <1>1, <2>1
  <2>4. QED
    BY <2>2, <2>3, TextSeq
<1>4. QED
  BY <1>2, <1>3

LEMMA DropText ==
  ASSUME NEW p, IsText(p), NEW n \in Nat
  PROVE  /\ IsText(Drop(p, n))
         /\ Len(Drop(p, n)) = IF n <= Len(p) THEN Len(p) - n ELSE 0
         /\ \A i \in Nat : 0 < i /\ n + i <= Len(p) => Drop(p, n)[i] = p[n + i]
<1> DEFINE S == {p[i] : i \in 1 .. Len(p)}
           q == Drop(p, n)
           m == Len(p)
           k == Len(q)
<1>1. m \in Nat /\ \A i \in 1 .. m : p[i] = [t |-> p[i].t, n |-> p[i].n] /\ p[i].n \in Int
  BY TextSeq
<1>2. \A i \in n + 1 .. m : p[i] \in S
  OBVIOUS
<1> HIDE DEF S, m
<1>3. /\ q \in Seq(S)
      /\ k = IF n + 1 <= m THEN m - (n + 1) + 1 ELSE 0
      /\ \A i \in 1 .. m - (n + 1) + 1 : q[i] = p[n + 1 + i - 1]
  <2>1. n + 1 \in Int /\ m \in Int
    BY <1>1
  <2>2. q = SubSeq(p, n + 1, m)
    BY DEF Drop, m
  <2>3. QED
    BY <1>2, <2>1, <2>2, SubSeqProperties
<1> HIDE DEF q, k
<1>4. k = IF n <= m THEN m - n ELSE 0
  BY <1>1, <1>3
<1>5. \A i \in Nat : 0 < i /\ n + i <= m => q[i] = p[n + i]
  <2> TAKE i \in Nat
  <2>1. HAVE 0 < i /\ n + i <= m
  <2>2. i \in 1 .. m - (n + 1) + 1 /\ n + 1 + i - 1 = n + i
    BY <1>1, <2>1
  <2>3. QED
    BY <1>3, <2>2
<1>6. \A i \in 1 .. k : q[i] = [t |-> q[i].t, n |-> q[i].n] /\ q[i].n \in Int
  <2> TAKE i \in 1 .. k
  <2>1. i \in Nat /\ 0 < i /\ n + i <= m /\ n + i \in 1 .. m
    BY <1>1, <1>4
  <2>2. q[i] = p[n + i]
    BY <1>5, <2>1
  <2>3. QED
    BY <1>1, <2>1, <2>2
<1>7. IsText(q)
  BY <1>3, <1>6, SeqText, Zenon DEF k
<1>8. QED
  BY <1>4, <1>5, <1>7 DEF q, k, m

(* The greatest number of a set of numbers up to n.                           *)
LEMMA MaxUpTo ==
  ASSUME NEW n \in Nat, NEW T, T \subseteq 0 .. n, 0 \in T
  PROVE  Max(T) \in T /\ \A k \in T : Max(T) >= k
<1> DEFINE U == {k \in Nat : \A j \in T : k >= j}
<1>1. n \in U
  OBVIOUS
<1>2. U \subseteq Nat /\ U # {}
  BY <1>1
<1>3. \A k \in U : k \in Nat /\ \A j \in T : k >= j
  OBVIOUS
<1>u. \A k \in Nat : (\A j \in T : k >= j) => k \in U
  OBVIOUS
<1> HIDE DEF U
<1>4. PICK m \in U : \A k \in U : m <= k
  BY <1>2, NatMin, Zenon
<1>5. m \in T
  <2>1. SUFFICES ASSUME m \notin T PROVE FALSE
    OBVIOUS
  <2>2. m \in Nat /\ \A j \in T : j \in Nat /\ m >= j /\ m # j
    BY <1>3, <2>1
  <2>3. m > 0
    BY <2>2
  <2>4. m - 1 \in Nat /\ \A j \in T : m - 1 >= j
    BY <2>2, <2>3
  <2>5. m - 1 \in U
    BY <1>u, <2>4
  <2>6. m <= m - 1
    BY <1>4, <2>5
  <2>7. QED
    BY <2>2, <2>6
<1>6. \E x \in T : \A y \in T : x >= y
  BY <1>3, <1>5
<1>7. QED
  BY <1>6 DEF Max

LEMMA RunText ==
  ASSUME NEW p, IsText(p), NEW S
  PROVE  LET n == Run(p, S) IN
         /\ n \in 0 .. Len(p)
         /\ \A i \in 1 .. n : p[i].t \in S
         /\ \A k \in 0 .. Len(p) : (\A i \in 1 .. k : p[i].t \in S) => k <= n
<1> DEFINE T == {n \in 0 .. Len(p) : \A i \in 1 .. n : p[i].t \in S}
           m == Max(T)
<1>1. Len(p) \in Nat
  BY TextSeq
<1>2. T \subseteq 0 .. Len(p) /\ 0 \in T
  BY <1>1
<1>3. \A k \in T : k \in 0 .. Len(p) /\ \A i \in 1 .. k : p[i].t \in S
  OBVIOUS
<1>4. \A k \in 0 .. Len(p) : (\A i \in 1 .. k : p[i].t \in S) => k \in T
  OBVIOUS
<1> HIDE DEF T
<1>5. m \in T /\ \A k \in T : m >= k
  BY <1>1, <1>2, MaxUpTo
<1>6. Run(p, S) = m
  BY DEF Run, T
<1> HIDE DEF m
<1>7. \A k \in 0 .. Len(p) : (\A i \in 1 .. k : p[i].t \in S) => k <= m
  <2> TAKE k \in 0 .. Len(p)
  <2>1. HAVE \A i \in 1 .. k : p[i].t \in S
  <2>2. k \in T
    BY <1>4, <2>1, Zenon
  <2>3. QED
    BY <1>1, <1>3, <1>5, <2>2
<1>8. QED
  BY <1>3, <1>5, <1>6, <1>7

LEMMA StatementText ==
  ASSUME NEW text, IsText(text)
  PROVE  LET st == Statement(text) IN
         /\ IsText(st) /\ Len(st) <= Len(text)
         /\ \A i \in 1 .. Len(st) : st[i] = text[i]
<1> DEFINE T == {tok.t : tok \in Range(text)} \ {";"}
           n == Run(text, T)
           S == {text[i] : i \in 1 .. Len(text)}
           st == Statement(text)
<1> HIDE DEF T
<1>1. Len(text) \in Nat /\ \A i \in 1 .. Len(text) : text[i] = [t |-> text[i].t, n |-> text[i].n] /\ text[i].n \in Int
  BY TextSeq
<1>2. n \in 0 .. Len(text)
  BY RunText
<1>3. st = SubSeq(text, 1, n)
  BY DEF Statement, T
<1> HIDE DEF n
<1>4. \A i \in 1 .. n : text[i] \in S
  BY <1>1, <1>2
<1> HIDE DEF S, st
<1>5. st \in Seq(S) /\ Len(st) = n /\ \A i \in 1 .. n : st[i] = text[i]
  <2>1. n \in Int /\ 1 \in Int /\ n - 1 + 1 = n
    BY <1>1, <1>2
  <2>2. /\ st \in Seq(S)
        /\ Len(st) = IF 1 <= n THEN n - 1 + 1 ELSE 0
        /\ \A i \in 1 .. n - 1 + 1 : st[i] = text[1 + i - 1]
    BY <1>3, <1>4, <2>1, SubSeqProperties
  <2>3. \A i \in 1 .. n : 1 + i - 1 = i
    BY <1>2
  <2>4. Len(st) = n
    BY <1>1, <1>2, <2>2
  <2>5. QED
    BY <2>1, <2>2, <2>3, <2>4
<1>6. \A i \in 1 .. Len(st) : st[i] = [t |-> st[i].t, n |-> st[i].n] /\ st[i].n \in Int
  <2> TAKE i \in 1 .. Len(st)
  <2>1. i \in 1 .. n /\ i \in 1 .. Len(text)
    BY <1>1, <1>2, <1>5
  <2>2. st[i] = text[i]
    BY <1>5, <2>1
  <2>3. QED
    BY <1>1, <2>1, <2>2
<1>7. IsText(st)
  BY <1>5, <1>6, SeqText, Zenon
<1>8. QED
  BY <1>1, <1>2, <1>5, <1>7 DEF st

-----------------------------------------------------------------------------
\* The cascade.

(* Tried satisfies the equation it is defined by.                             *)
LEMMA TriedSteps ==
  ASSUME NEW text, IsText(text)
  PROVE  LET st == Statement(text) IN
         /\ Tried(text)[0] = [p |-> st, word |-> NONE, next |-> 1]
         /\ \A k \in 0 .. Len(st) - 1 : Tried(text)[k + 1] = Try(Tried(text)[k])
<1> DEFINE st == Statement(text)
           n == Len(st)
           e == [p |-> st, word |-> NONE, next |-> 1]
           Step(g, m) == g = [k \in 0 .. m |-> IF k = 0 THEN e ELSE Try(g[k - 1])]
           T == {m \in Nat : \E g : Step(g, m)}
<1>1. n \in Nat
  BY StatementText, TextSeq
<1>2. Tried(text) = CHOOSE g : Step(g, n)
  BY DEF Tried
<1>3. T = Nat
  <2>1. 0 \in T
    <3> DEFINE g == [k \in 0 .. 0 |-> e]
    <3>1. Step(g, 0)
      OBVIOUS
    <3>2. QED
      BY <3>1
  <2>2. ASSUME NEW m \in T PROVE m + 1 \in T
    <3>1. PICK g : Step(g, m)
      OBVIOUS
    <3>2. m \in Nat
      OBVIOUS
    <3> DEFINE h == [k \in 0 .. m + 1 |-> IF k = m + 1 THEN Try(g[m]) ELSE g[k]]
    <3> HIDE DEF e
    <3>3. \A k \in 0 .. m : g[k] = IF k = 0 THEN e ELSE Try(g[k - 1])
      BY <3>1
    <3>4. \A k \in 0 .. m + 1 : h[k] = IF k = 0 THEN e ELSE Try(h[k - 1])
      <4> TAKE k \in 0 .. m + 1
      <4>1. CASE k = m + 1
        <5>1. k # 0 /\ k - 1 = m /\ k - 1 # m + 1 /\ k - 1 \in 0 .. m + 1
          BY <3>2, <4>1
        <5>2. h[k] = Try(g[m]) /\ h[k - 1] = g[m]
          BY <4>1, <5>1
        <5>3. QED
          BY <5>1, <5>2
      <4>2. CASE k # m + 1
        <5>1. k \in 0 .. m /\ h[k] = g[k]
          BY <3>2, <4>2
        <5>2. CASE k = 0
          BY <3>3, <5>1, <5>2
        <5>3. CASE k # 0
          <6>1. k - 1 \in 0 .. m + 1 /\ k - 1 # m + 1
            BY <3>2, <5>1, <5>3
          <6>2. h[k - 1] = g[k - 1]
            BY <6>1
          <6>3. QED
            BY <3>3, <5>1, <5>3, <6>2
        <5>4. QED
          BY <5>2, <5>3
      <4>3. QED
        BY <4>1, <4>2
    <3>5. h = [k \in 0 .. m + 1 |-> h[k]]
      OBVIOUS
    <3> HIDE DEF h
    <3>6. Step(h, m + 1)
      BY <3>4, <3>5
    <3>7. QED
      BY <3>2, <3>6
  <2>3. T \subseteq Nat
    OBVIOUS
  <2> HIDE DEF T
  <2>4. QED
    BY <2>1, <2>2, <2>3, SetInduction
<1>4. \E g : Step(g, n)
  <2>1. n \in T
    BY <1>1, <1>3
  <2>2. QED
    BY <2>1
<1> DEFINE f == Tried(text)
<1> HIDE DEF e
<1>5. Step(f, n)
  BY <1>2, <1>4
<1> HIDE DEF n, f
<1>6. \A k \in 0 .. n : f[k] = IF k = 0 THEN e ELSE Try(f[k - 1])
  BY <1>5
<1>7. f[0] = e
  BY <1>1, <1>6
<1>8. ASSUME NEW k \in 0 .. n - 1 PROVE f[k + 1] = Try(f[k])
  <2>1. k + 1 \in 0 .. n /\ k + 1 # 0 /\ (k + 1) - 1 = k
    BY <1>1
  <2>2. QED
    BY <1>6, <2>1
<1>9. QED
  BY <1>7, <1>8 DEF n, f, e

-----------------------------------------------------------------------------
\* The mnemonic a word is listed with on an ND-110.

Top(w) == w \div 2048
Opens(w) == First(nd100_disasm(w, "nd110")).t
Named1(table, w) == CHOOSE n \in Named(table, w) : TRUE

LEMMA OneFirst ==
  ASSUME NEW m
  PROVE  First(Kws(<<m>>)).t = m /\ \A b : IsText(b) => First(Kws(<<m>>) \o b).t = m
<1>1. Led(Kws(<<m>>), m)
  BY LedOne, Zenon
<1>2. \A b : IsText(b) => Led(Kws(<<m>>) \o b, m)
  BY <1>1, LedConcat, Zenon
<1>3. QED
  BY <1>1, <1>2, Zenon DEF Led

LEMMA NameFirst ==
  ASSUME NEW table, NEW w
  PROVE  First(Name(table, w)).t = Named1(table, w)
BY OneFirst, Zenon DEF Name, Named1

LEMMA ModsFirst ==
  ASSUME NEW S, NEW m, NEW s \in Seq(S), NEW b, IsText(b)
  PROVE  First(Kws(<<m>> \o s) \o b).t = m
<1> DEFINE T == {m} \cup S
           r == <<m>> \o s
<1>1. r \in Seq(T) /\ Len(r) > 0 /\ r[1] = m
  <2>1. <<m>> \in Seq(T) /\ Len(<<m>>) = 1 /\ <<m>>[1] = m
    OBVIOUS
  <2>2. s \in Seq(T)
    BY SeqMonotonic
  <2> HIDE DEF T
  <2>3. QED
    BY <2>1, <2>2
<1> HIDE DEF r, T
<1>2. Led(Kws(r), m)
  BY <1>1, LedKws, Zenon
<1>3. Led(Kws(r) \o b, m)
  BY <1>2, LedConcat, Zenon
<1>4. QED
  BY <1>3, Zenon DEF r, Led

LEMMA OpensTop ==
  ASSUME NEW w \in Word
  PROVE  LET top == w \div 2048
             sub == Field(w, 8, 3)
         IN /\ top <= 21 => Opens(w) = Memref[top + 1]
            /\ top = 22 => Opens(w) = CondJumps[sub + 1]
            /\ top = 23 => Opens(w) = "JPL"
            /\ top = 24 => Opens(w) = First(Text140(w, "nd110")).t
            /\ top = 25 => Opens(w) = First(RopText(w)).t
            /\ top = 26 => Opens(w) = First(Text150(w)).t
            /\ top = 27 => Opens(w) = First(ShiftText(w)).t
            /\ top = 28 => Opens(w) = "IOT"
            /\ top = 29 => Opens(w) = "IOX"
            /\ top = 30 => Opens(w) = <<"SAB", "SAA", "SAT", "SAX",
                                        "AAB", "AAA", "AAT", "AAX">>[sub + 1]
            /\ top = 31 => Opens(w) = First(BitText(w)).t
<1> DEFINE text == nd100_disasm(w, "nd110")
           top == w \div 2048
           sub == Field(w, 8, 3)
           low == w % 2048
           memref == Memref[top + 1]
           jump == CondJumps[sub + 1]
           arg == <<"SAB", "SAA", "SAT", "SAX", "AAB", "AAA", "AAT", "AAX">>[sub + 1]
           t21 == MemrefText(memref, w)
           t22 == Kws(<<jump>>) \o <<Offset(w)>>
           t23 == MemrefText("JPL", w)
           t24 == Text140(w, "nd110")
           t25 == RopText(w)
           t26 == Text150(w)
           t27 == ShiftText(w)
           t28 == Kws(<<"IOT">>) \o <<Num(low)>>
           t29 == Kws(<<"IOX">>) \o <<Num(low)>>
           t30 == Kws(<<arg>>) \o <<Offset(w)>>
           t31 == BitText(w)
<1>1. top \in Nat /\ top < 32 /\ sub \in 0 .. 7 /\ low \in Int
  BY WordParts, FieldRanges
<1>2. text = CASE top <= 21 -> t21 [] top = 22 -> t22 [] top = 23 -> t23 [] top = 24 -> t24
               [] top = 25 -> t25 [] top = 26 -> t26 [] top = 27 -> t27 [] top = 28 -> t28
               [] top = 29 -> t29 [] top = 30 -> t30 [] top = 31 -> t31
  BY DEF nd100_disasm
<1>3. IsText(<<Offset(w)>>)
  BY OffsetText
<1>4. IsText(<<Num(low)>>)
  BY <1>1, NumText
<1> HIDE DEF top, sub, low
<1>5. First(t21).t = memref /\ First(t23).t = "JPL"
  BY MemrefLed, Zenon DEF Led
<1>6. /\ First(t22).t = jump /\ First(t28).t = "IOT" /\ First(t29).t = "IOX"
      /\ First(t30).t = arg
  BY <1>3, <1>4, OneFirst, Zenon
<1> HIDE DEF t21, t22, t23, t24, t25, t26, t27, t28, t29, t30, t31, text, memref, jump, arg
<1>7. /\ top <= 21 => text = t21
      /\ top = 22 => text = t22
      /\ top = 23 => text = t23
      /\ top = 24 => text = t24
      /\ top = 25 => text = t25
      /\ top = 26 => text = t26
      /\ top = 27 => text = t27
      /\ top = 28 => text = t28
      /\ top = 29 => text = t29
      /\ top = 30 => text = t30
      /\ top = 31 => text = t31
  BY <1>1, <1>2
<1>8. Opens(w) = First(text).t
  BY DEF Opens, text
<1>9. /\ top <= 21 => Opens(w) = memref
      /\ top = 22 => Opens(w) = jump
      /\ top = 23 => Opens(w) = "JPL"
      /\ top = 24 => Opens(w) = First(t24).t
      /\ top = 25 => Opens(w) = First(t25).t
      /\ top = 26 => Opens(w) = First(t26).t
      /\ top = 27 => Opens(w) = First(t27).t
      /\ top = 28 => Opens(w) = "IOT"
      /\ top = 29 => Opens(w) = "IOX"
      /\ top = 30 => Opens(w) = arg
      /\ top = 31 => Opens(w) = First(t31).t
  BY <1>5, <1>6, <1>7, <1>8
<1>10. QED
  BY <1>9 DEF top, sub, memref, jump, arg, t24, t25, t26, t27, t31

LEMMA Opens140 ==
  ASSUME NEW w \in Word, Top(w) = 24
  PROVE  LET low6 == 64 * (w \div 64)
             low3 == w - 8 * Field(w, 3, 3)
             op == w % 8
         IN Opens(w) =
            IF Field(w, 6, 2) = 0 THEN "SKP"
            ELSE IF Known(Exact, w) THEN Named1(Exact, w)
            ELSE IF Known(Idents, w) THEN "IDENT"
            ELSE IF Known(Exact110, w) THEN Named1(Exact110, w)
            ELSE IF low6 = \o140700 THEN Deltas[op + 1]
            ELSE IF Known(Masked, low6) THEN Named1(Masked, low6)
            ELSE IF low6 = \o140600 THEN "EXR"
            ELSE IF low6 = \o141200 THEN "RMPY"
            ELSE IF low6 = \o141600 THEN "RDIV"
            ELSE IF Within(low3, \o143300, \o143306) THEN PhysMem[op + 1]
            ELSE "UNDEF"
<1> DEFINE c == "nd110"
           low6 == 64 * (w \div 64)
           low3 == w - 8 * Field(w, 3, 3)
           op == w % 8
           g1 == Field(w, 6, 2) = 0
           g2 == Known(Exact, w)
           g3 == Known(Idents, w)
           g4 == w = \o140133
           g5 == Known(Exact110, w)
           g6 == low6 = \o140700
           g7 == Known(Masked100, low6)
           g8 == Known(Masked, low6)
           g9 == low6 = \o140600
           g10 == low6 = \o141200
           g11 == low6 = \o141600
           g12 == Within(low3, \o143300, \o143306)
           t1 == Kws(<<"SKP", "IF">>) \o <<Dst(w)>>
                 \o Kws(<<skiptype_str[Field(w, 8, 3) + 1]>>) \o <<Src(w)>>
           t2 == Name(Exact, w)
           t3 == Kws(<<"IDENT">>) \o Name(Idents, w)
           t5 == Name(Exact110, w)
           t6 == Kws(<<Deltas[op + 1]>>) \o <<Num(8 * Field(w, 3, 3))>>
           t7 == Name(Masked100, low6)
           t8 == Name(Masked, low6)
           t9 == Kws(<<"EXR">>) \o <<Src(w)>>
           t10 == Kws(<<"RMPY">>) \o <<Src(w), Dst(w)>>
           t11 == Kws(<<"RDIV">>) \o <<Src(w)>>
           t12 == Kws(<<PhysMem[op + 1]>>)
           text == Text140(w, "nd110")
<1>1. text = IF g1 THEN t1 ELSE IF g2 THEN t2 ELSE IF g3 THEN t3
             ELSE IF g4 /\ c = "nd100" THEN <<>>
             ELSE IF c = "nd110" /\ g5 THEN t5 ELSE IF c = "nd110" /\ g6 THEN t6
             ELSE IF c = "nd100" /\ g7 THEN t7 ELSE IF g8 THEN t8
             ELSE IF g9 THEN t9 ELSE IF g10 THEN t10 ELSE IF g11 THEN t11
             ELSE IF g12 THEN t12 ELSE Undef
  BY DEF Text140
<1>2. w \in Nat /\ op \in 0 .. 7 /\ Field(w, 3, 3) \in 0 .. 7
  BY WordParts, FieldRanges
<1>3. IsText(<<Src(w)>>) /\ IsText(<<Dst(w)>>) /\ IsText(<<Src(w), Dst(w)>>)
  BY <1>2, SrcDstText
<1>4. First(t1).t = "SKP"
  <2> DEFINE s == <<"SKP", "IF">>
             b == Kws(<<skiptype_str[Field(w, 8, 3) + 1]>>)
  <2>1. s \in Seq({"SKP", "IF"}) /\ Len(s) > 0 /\ s[1] = "SKP"
    OBVIOUS
  <2>2. Led(Kws(s), "SKP")
    BY <2>1, LedKws, Zenon
  <2>3. IsText(b)
    BY LedOne, Zenon DEF Led
  <2>4. t1 = ((Kws(s) \o <<Dst(w)>>) \o b) \o <<Src(w)>>
    BY Zenon DEF t1
  <2> HIDE DEF s, b
  <2>5. Led(Kws(s) \o <<Dst(w)>>, "SKP")
    BY <2>2, <1>3, LedConcat, Zenon
  <2>6. Led((Kws(s) \o <<Dst(w)>>) \o b, "SKP")
    BY <2>3, <2>5, LedConcat, Zenon
  <2>7. Led(t1, "SKP")
    BY <2>4, <2>6, <1>3, LedConcat, Zenon
  <2>8. QED
    BY <2>7, Zenon DEF Led
<1>5. /\ First(t2).t = Named1(Exact, w) /\ First(t5).t = Named1(Exact110, w)
      /\ First(t8).t = Named1(Masked, low6)
  <2> HIDE DEF low6
  <2>1. QED
    BY NameFirst, Zenon
<1>6. g3 => First(t3).t = "IDENT"
  <2>1. SUFFICES ASSUME g3 PROVE First(t3).t = "IDENT"
    OBVIOUS
  <2>2. PICK n \in DOMAIN Idents : Led(Name(Idents, w), n)
    BY <2>1, NameLed, Zenon
  <2>3. IsText(Name(Idents, w))
    BY <2>2, Zenon DEF Led
  <2>4. QED
    BY <2>3, OneFirst, Zenon
<1>7. First(t6).t = Deltas[op + 1]
  <2>1. IsText(<<Num(8 * Field(w, 3, 3))>>)
    BY <1>2, NumText
  <2> HIDE DEF op
  <2>2. QED
    BY <2>1, OneFirst, Zenon
<1>8. First(t9).t = "EXR" /\ First(t10).t = "RMPY" /\ First(t11).t = "RDIV"
  BY <1>3, OneFirst, Zenon
<1>9. First(t12).t = PhysMem[op + 1] /\ First(Undef).t = "UNDEF"
  <2> HIDE DEF op
  <2>1. QED
    BY OneFirst, Zenon DEF Undef
<1> HIDE DEF g1, g2, g3, g4, g5, g6, g7, g8, g9, g10, g11, g12,
             t1, t2, t3, t5, t6, t7, t8, t9, t10, t11, t12, text, low6, low3, op
<1>10. Opens(w) = First(text).t
  BY OpensTop DEF text, Top
<1> DEFINE n2 == Named1(Exact, w)
           n5 == Named1(Exact110, w)
           n8 == Named1(Masked, low6)
           n6 == Deltas[op + 1]
           n12 == PhysMem[op + 1]
<1>11. /\ First(t2).t = n2 /\ First(t5).t = n5 /\ First(t8).t = n8
       /\ First(t6).t = n6 /\ First(t12).t = n12
  BY <1>5, <1>7, <1>9, Zenon
<1> HIDE DEF n2, n5, n8, n6, n12
<1>12. First(text).t =
         IF g1 THEN "SKP" ELSE IF g2 THEN n2 ELSE IF g3 THEN "IDENT" ELSE IF g5 THEN n5
         ELSE IF g6 THEN n6 ELSE IF g8 THEN n8 ELSE IF g9 THEN "EXR"
         ELSE IF g10 THEN "RMPY" ELSE IF g11 THEN "RDIV" ELSE IF g12 THEN n12 ELSE "UNDEF"
  BY <1>1, <1>4, <1>6, <1>8, <1>9, <1>11
<1>13. QED
  BY <1>10, <1>12 DEF g1, g2, g3, g5, g6, g8, g9, g10, g11, g12, n2, n5, n6, n8, n12,
                      low6, low3, op

RopNames == <<"SWAP", "RAND", "REXO", "RORA", "RADD", "RADD", "RADD">>
RopName(w, op) ==
  IF w = Exact.EXIT THEN "EXIT" ELSE IF op \div 4 = 7 THEN "ROP"
  ELSE IF op = 22 THEN "RSUB" ELSE RopNames[(op \div 4) + 1]

LEMMA OpensRop ==
  ASSUME NEW w \in Word, Top(w) = 25
  PROVE  Opens(w) = RopName(w, Field(w, 6, 5))
<1> DEFINE op == Field(w, 6, 5)
           group == op \div 4
           S == {"AD1", "ADC", "CM1", "CLD"}
           m1 == IF group = 5 THEN <<"AD1">> ELSE <<>>
           m2 == IF group = 6 THEN <<"ADC">> ELSE <<>>
           m3 == IF Field(op, 1, 1) = 1 THEN <<"CM1">> ELSE <<>>
           m4 == IF op % 2 = 1 THEN <<"CLD">> ELSE <<>>
           mods == m1 \o m2 \o m3 \o m4
           name == RopNames[group + 1]
           regs == <<Src(w), Dst(w)>>
           text == RopText(w)
           exit == w = Exact.EXIT
           noop == Kws(<<"ROP", "NOOP">>)
           rsub == Kws(<<"RSUB">>) \o regs
           other == Kws(<<name>> \o mods) \o regs
<1>1. text = IF exit THEN Kws(<<"EXIT">>) ELSE IF group = 7 THEN noop
             ELSE IF op = 22 THEN rsub ELSE other
  BY DEF RopText, RopNames
<1>2. w \in Nat
  BY WordParts
<1>3. IsText(regs)
  BY <1>2, SrcDstText, Zenon
<1>4. mods \in Seq(S)
  <2>1. /\ <<"AD1">> \in Seq(S) /\ <<"ADC">> \in Seq(S)
        /\ <<"CM1">> \in Seq(S) /\ <<"CLD">> \in Seq(S) /\ <<>> \in Seq(S)
    OBVIOUS
  <2> HIDE DEF S
  <2>2. m1 \in Seq(S) /\ m2 \in Seq(S) /\ m3 \in Seq(S) /\ m4 \in Seq(S)
    BY <2>1, Zenon
  <2> HIDE DEF m1, m2, m3, m4
  <2>3. QED
    BY <2>2
<1>5. First(noop).t = "ROP"
  <2> DEFINE s == <<"ROP", "NOOP">>
  <2>1. s \in Seq({"ROP", "NOOP"}) /\ Len(s) > 0 /\ s[1] = "ROP"
    OBVIOUS
  <2>2. Led(Kws(s), "ROP")
    BY <2>1, LedKws, Zenon
  <2>3. QED
    BY <2>2, Zenon DEF Led
<1> HIDE DEF S, mods, regs, name
<1>6. First(Kws(<<"EXIT">>)).t = "EXIT" /\ First(rsub).t = "RSUB"
  BY <1>3, OneFirst, Zenon
<1>7. First(other).t = name
  <2>1. First(Kws(<<name>> \o mods) \o regs).t = name
    BY <1>3, <1>4, ModsFirst, SMT
  <2>2. QED
    BY <2>1, Zenon
<1> HIDE DEF text, noop, rsub, other, exit, group, op
<1>8. Opens(w) = First(text).t
  BY OpensTop DEF text, Top
<1>9. First(text).t = IF exit THEN "EXIT" ELSE IF group = 7 THEN "ROP"
                      ELSE IF op = 22 THEN "RSUB" ELSE name
  BY <1>1, <1>5, <1>6, <1>7
<1>10. QED
  BY <1>8, <1>9 DEF exit, group, op, name, RopName

LEMMA Opens150 ==
  ASSUME NEW w \in Word, Top(w) = 26
  PROVE  Opens(w) =
           IF Known(Exact, w) THEN Named1(Exact, w)
           ELSE IF w < \o150400 THEN <<"TRA", "TRR", "MCL", "MST">>[Field(w, 6, 2) + 1]
           ELSE IF Within(w, \o151000, \o151377) THEN "WAIT"
           ELSE IF Within(w, \o151400, \o151777) THEN "NLZ"
           ELSE IF Within(w, \o152000, \o152377) THEN "DNZ"
           ELSE IF Within(w, \o152400, \o152577) THEN "SRB"
           ELSE IF Within(w, \o152600, \o152777) THEN "LRB"
           ELSE IF Within(w, \o153000, \o153377) THEN "MON"
           ELSE IF Within(w, \o153400, \o153577) THEN "IRW"
           ELSE IF Within(w, \o153600, \o153777) THEN "IRR"
           ELSE "UNDEF"
<1> DEFINE byte == Num(w % 256)
           level == Field(w, 3, 4)
           reg == regn_w[(w % 8) + 1]
           op == Field(w, 6, 2)
           internal == (IF op = 0 THEN intregn_r ELSE intregn_w)[(w % 16) + 1]
           name == <<"TRA", "TRR", "MCL", "MST">>[op + 1]
           text == Text150(w)
           g0 == Known(Exact, w)
           g1 == w < \o150400
           g2 == Within(w, \o151000, \o151377)
           g3 == Within(w, \o151400, \o151777)
           g4 == Within(w, \o152000, \o152377)
           g5 == Within(w, \o152400, \o152577)
           g6 == Within(w, \o152600, \o152777)
           g7 == Within(w, \o153000, \o153377)
           g8 == Within(w, \o153400, \o153577)
           g9 == Within(w, \o153600, \o153777)
           t0 == Name(Exact, w)
           t1 == Kws(<<name>>) \o <<internal>>
           t2 == Kws(<<"WAIT">>)
           t3 == Kws(<<"NLZ">>) \o <<Offset(w)>>
           t4 == Kws(<<"DNZ">>) \o <<Offset(w)>>
           t5 == Kws(<<"SRB">>) \o <<Num(8 * level)>>
           t6 == Kws(<<"LRB">>) \o <<Num(level)>>
           t7 == Kws(<<"MON">>) \o <<byte>>
           t8 == Kws(<<"IRW">>) \o <<Num(8 * level), reg>>
           t9 == Kws(<<"IRR">>) \o <<Num(8 * level), reg>>
<1>0. text = IF g0 THEN t0 ELSE IF g1 THEN t1 ELSE IF g2 THEN t2 ELSE IF g3 THEN t3
             ELSE IF g4 THEN t4 ELSE IF g5 THEN t5 ELSE IF g6 THEN t6 ELSE IF g7 THEN t7
             ELSE IF g8 THEN t8 ELSE IF g9 THEN t9 ELSE Undef
  BY DEF Text150
<1> HIDE DEF text, g0, g1, g2, g3, g4, g5, g6, g7, g8, g9, t0, t1, t2, t3, t4, t5, t6, t7, t8, t9
<1>2. /\ w \in Nat /\ op \in 0 .. 3 /\ level \in Int /\ w % 256 \in Int
      /\ (w % 8) + 1 \in 1 .. 8 /\ (w % 16) + 1 \in 1 .. 16
  BY WordParts, FieldRanges
<1>4. IsText(<<internal>>) /\ IsText(<<reg>>)
  BY <1>2, RegisterTables, TextOfElement
<1>5. IsText(<<byte>>) /\ IsText(<<Offset(w)>>) /\ IsText(<<Num(8 * level)>>) /\ IsText(<<Num(level)>>)
  <2> HIDE DEF level
  <2>1. 8 * level \in Int /\ level \in Int
    BY <1>2
  <2>2. IsText(<<Offset(w)>>)
    BY OffsetText
  <2>3. QED
    BY <1>2, <2>1, <2>2, NumText
<1>6. IsText(<<Num(8 * level), reg>>)
  <2>1. <<Num(8 * level), reg>> = <<Num(8 * level)>> \o <<reg>>
    OBVIOUS
  <2>2. QED
    BY <1>4, <1>5, <2>1, ConcatText, Zenon
<1> HIDE DEF name, internal, reg, byte, level
<1>7. First(t1).t = name /\ First(t2).t = "WAIT"
  BY <1>4, OneFirst, Zenon DEF t1, t2
<1>8. First(t3).t = "NLZ" /\ First(t4).t = "DNZ" /\ First(t5).t = "SRB"
  BY <1>5, OneFirst, Zenon DEF t3, t4, t5
<1>9. First(t6).t = "LRB" /\ First(t7).t = "MON"
  BY <1>5, OneFirst, Zenon DEF t6, t7
<1>10. First(t8).t = "IRW" /\ First(t9).t = "IRR" /\ First(Undef).t = "UNDEF"
  BY <1>6, OneFirst, Zenon DEF t8, t9, Undef
<1> DEFINE n0 == Named1(Exact, w)
<1>11. First(t0).t = n0
  BY NameFirst, Zenon DEF t0
<1> HIDE DEF n0
<1>12. First(text).t =
         IF g0 THEN n0 ELSE IF g1 THEN name ELSE IF g2 THEN "WAIT" ELSE IF g3 THEN "NLZ"
         ELSE IF g4 THEN "DNZ" ELSE IF g5 THEN "SRB" ELSE IF g6 THEN "LRB"
         ELSE IF g7 THEN "MON" ELSE IF g8 THEN "IRW" ELSE IF g9 THEN "IRR" ELSE "UNDEF"
  BY <1>0, <1>7, <1>8, <1>9, <1>10, <1>11
<1>13. Opens(w) = First(text).t
  BY OpensTop DEF text, Top
<1>14. QED
  BY <1>12, <1>13 DEF g0, g1, g2, g3, g4, g5, g6, g7, g8, g9, n0, name

LEMMA OpensShift ==
  ASSUME NEW w \in Word, Top(w) = 27
  PROVE  Opens(w) = <<"SHT", "SHD", "SHA", "SAD">>[Field(w, 7, 2) + 1]
<1> DEFINE count == w % 64
           name == <<"SHT", "SHD", "SHA", "SAD">>[Field(w, 7, 2) + 1]
           k == Field(w, 9, 2) + 1
           S == {"ROT", "ZIN", "LIN"}
           right == Kws(<<"SHR">>) \o <<Num(64 - count)>>
           b == IF count >= 32 THEN right ELSE <<Num(count)>>
           s == shtype_str[k]
<1>1. count \in Int /\ k \in 1 .. 4
  BY FieldRanges, WordParts
<1>2. s \in Seq(S)
  <2>1. /\ shtype_str[1] \in Seq(S) /\ shtype_str[2] \in Seq(S)
        /\ shtype_str[3] \in Seq(S) /\ shtype_str[4] \in Seq(S)
    BY DEF shtype_str
  <2> HIDE DEF k
  <2>2. QED
    BY <1>1, <2>1
<1>3. IsText(b)
  <2>1. IsText(<<Num(64 - count)>>) /\ IsText(<<Num(count)>>)
    BY <1>1, NumText
  <2>2. IsText(Kws(<<"SHR">>))
    BY LedOne, Zenon DEF Led
  <2> DEFINE left == <<Num(count)>>
  <2>3. IsText(right) /\ IsText(left)
    BY <2>1, <2>2, ConcatText, Zenon
  <2>4. b = right \/ b = left
    OBVIOUS
  <2> HIDE DEF right, left, b
  <2>5. QED
    BY <2>3, <2>4, Zenon
<1>4. ShiftText(w) = Kws(<<name>> \o s) \o b
  BY Zenon DEF ShiftText
<1> HIDE DEF name, s, b, S
<1>5. First(Kws(<<name>> \o s) \o b).t = name
  BY <1>2, <1>3, ModsFirst
<1>6. Opens(w) = First(ShiftText(w)).t
  BY OpensTop DEF Top
<1>7. QED
  BY <1>4, <1>5, <1>6, Zenon DEF name

LEMMA OpensBit ==
  ASSUME NEW w \in Word, Top(w) = 31
  PROVE  Opens(w) = bop_str[Field(w, 7, 4) + 1][1]
<1> DEFINE bit == Field(w, 3, 4)
           k == Field(w, 7, 4) + 1
           regs == <<Num(8 * bit), regn_w[(w % 8) + 1]>>
           status == Kws(<<bopstsbit_str[bit + 1]>>)
           b == IF w % 8 # 0 THEN regs ELSE IF bit < 8 THEN status ELSE <<>>
           S == {"BSET", "BSKP", "BSTC", "BSTA", "BLDC", "BLDA", "BANC", "BAND",
                 "BORC", "BORA", "ZRO", "ONE", "BCM", "BAC"}
<1>1. w \in Nat /\ bit \in Int /\ k \in 1 .. 16 /\ (w % 8) + 1 \in 1 .. 8
  BY FieldRanges, WordParts
<1>2. bop_str[k] \in Seq(S) /\ Len(bop_str[k]) > 0
  <2>1. /\ \A i \in 1 .. 4 : bop_str[i] \in Seq(S) /\ Len(bop_str[i]) > 0
        /\ \A i \in 5 .. 8 : bop_str[i] \in Seq(S) /\ Len(bop_str[i]) > 0
        /\ \A i \in 9 .. 12 : bop_str[i] \in Seq(S) /\ Len(bop_str[i]) > 0
        /\ \A i \in 13 .. 16 : bop_str[i] \in Seq(S) /\ Len(bop_str[i]) > 0
    BY DEF bop_str
  <2> HIDE DEF k, S
  <2>2. k \in 1 .. 4 \/ k \in 5 .. 8 \/ k \in 9 .. 12 \/ k \in 13 .. 16
    BY <1>1
  <2>3. QED
    BY <2>1, <2>2, Zenon
<1>3. IsText(b)
  <2>1. regs = <<Num(8 * bit)>> \o <<regn_w[(w % 8) + 1]>>
    OBVIOUS
  <2>2. IsText(<<Num(8 * bit)>>)
    BY <1>1, NumText
  <2>3. IsText(<<regn_w[(w % 8) + 1]>>)
    BY <1>1, RegisterTables, TextOfElement
  <2>4. IsText(regs)
    BY <2>1, <2>2, <2>3, ConcatText, Zenon
  <2>5. IsText(status)
    BY LedOne, Zenon DEF Led
  <2>6. QED
    BY <2>4, <2>5, EmptyText, Zenon
<1>4. BitText(w) = Kws(bop_str[k]) \o b
  BY Zenon DEF BitText
<1> HIDE DEF k, b, S
<1>5. Led(Kws(bop_str[k]), bop_str[k][1])
  BY <1>2, LedKws, Zenon
<1>6. Led(BitText(w), bop_str[k][1])
  BY <1>3, <1>4, <1>5, LedConcat, Zenon
<1>7. Opens(w) = First(BitText(w)).t
  BY OpensTop DEF Top
<1>8. QED
  BY <1>6, <1>7, Zenon DEF Led, k

-----------------------------------------------------------------------------
\* What a stage leaves behind: a cursor inside the operand and, when it read all
\* of it, a word from first to last.

Tokens(p) == {p[i].t : i \in 1 .. Len(p)}

Gives(r, p, first, last) ==
  /\ IsText(r.p) /\ Tokens(r.p) \subseteq Tokens(p)
  /\ \/ r.word = NONE
     \/ r.word \in Nat /\ first <= r.word /\ r.word <= last

LEMMA DropTokens ==
  ASSUME NEW p, IsText(p), NEW n \in Nat
  PROVE  IsText(Drop(p, n)) /\ Tokens(Drop(p, n)) \subseteq Tokens(p)
<1> DEFINE q == Drop(p, n)
<1>1. Len(p) \in Nat
  BY TextSeq
<1>2. /\ IsText(q)
      /\ Len(q) = IF n <= Len(p) THEN Len(p) - n ELSE 0
      /\ \A i \in Nat : 0 < i /\ n + i <= Len(p) => q[i] = p[n + i]
  BY DropText
<1> HIDE DEF q
<1>3. ASSUME NEW i \in 1 .. Len(q) PROVE q[i].t \in Tokens(p)
  <2>1. i \in Nat /\ 0 < i /\ n + i <= Len(p) /\ n + i \in 1 .. Len(p)
    BY <1>1, <1>2
  <2>2. q[i] = p[n + i]
    BY <1>2, <2>1
  <2>3. QED
    BY <2>1, <2>2 DEF Tokens
<1>4. Tokens(q) \subseteq Tokens(p)
  BY <1>3 DEF Tokens
<1>5. QED
  BY <1>2, <1>4 DEF q

LEMMA DoneGives ==
  ASSUME NEW p, NEW v \in Nat, NEW a \in Int, NEW b \in Int, a <= v, v <= b, b <= MaxWord
  PROVE  Gives(Done(v), p, a, b)
<1>1. Done(v).word = v /\ Done(v).p = <<>>
  <2>1. v % 65536 = v
    BY DEF MaxWord
  <2>2. QED
    BY <2>1 DEF Done
<1>2. Tokens(<<>>) = {}
  BY DEF Tokens
<1>3. IsText(<<>>)
  BY EmptyText, Zenon
<1>4. QED
  BY <1>1, <1>2, <1>3 DEF Gives

LEMMA LostGives ==
  ASSUME NEW p, IsText(p), NEW a, NEW b
  PROVE  /\ Gives(Lost(p), p, a, b)
         /\ \A n \in Nat : Gives(Lost(Drop(p, n)), p, a, b)
<1>1. \A q : Lost(q).word = NONE /\ Lost(q).p = q
  BY DEF Lost
<1>2. QED
  BY <1>1, DropTokens DEF Gives

LEMMA DropGives ==
  ASSUME NEW p, IsText(p), NEW n \in Nat, NEW r, NEW a, NEW b, Gives(r, Drop(p, n), a, b)
  PROVE  Gives(r, p, a, b)
BY DropTokens DEF Gives

LEMMA Registers ==
  ASSUME NEW tok
  PROVE  /\ SrcReg(tok) = NONE \/ SrcReg(tok) \in 0 .. 7
         /\ DstReg(tok) = NONE \/ DstReg(tok) \in 0 .. 7
         /\ parse_sreg(tok) = NONE \/ parse_sreg(tok) \in 0 .. 7
         /\ parse_dreg(tok) = NONE \/ parse_dreg(tok) \in 0 .. 7
         /\ parse_dreg_full(tok) = NONE \/ parse_dreg_full(tok) \in 0 .. 7
         /\ Lookup(StatusBit, tok) = NONE \/ Lookup(StatusBit, tok) \in 0 .. 7
         /\ Lookup(SkipCond, tok) = NONE \/ Lookup(SkipCond, tok) \in 0 .. 7
         /\ Lookup(BitCond, tok) = NONE \/ Lookup(BitCond, tok) \in 0 .. 3
         /\ Lookup(ShiftType, tok) = NONE \/ Lookup(ShiftType, tok) \in 0 .. 3
         /\ Lookup(ReadReg, tok) = NONE \/ Lookup(ReadReg, tok) \in 0 .. 15
         /\ Lookup(WriteReg, tok) = NONE \/ Lookup(WriteReg, tok) \in 0 .. 15
<1>1. /\ \A x \in DOMAIN SReg : SReg[x] \in 0 .. 7
      /\ \A x \in DOMAIN DReg : DReg[x] \in 0 .. 7
      /\ \A x \in DOMAIN BareReg : BareReg[x] \in 0 .. 7
  BY DEF SReg, DReg, BareReg
<1>2. /\ \A x \in DOMAIN StatusBit : StatusBit[x] \in 0 .. 7
      /\ \A x \in DOMAIN SkipCond : SkipCond[x] \in 0 .. 7
      /\ \A x \in DOMAIN BitCond : BitCond[x] \in 0 .. 3
      /\ \A x \in DOMAIN ShiftType : ShiftType[x] \in 0 .. 3
  BY DEF StatusBit, SkipCond, BitCond, ShiftType
<1>3. /\ \A x \in DOMAIN ReadReg : ReadReg[x] \in 0 .. 15
      /\ \A x \in DOMAIN WriteReg : WriteReg[x] \in 0 .. 15
  BY DEF ReadReg, WriteReg
<1>4. ASSUME NEW table, NEW S, \A x \in DOMAIN table : table[x] \in S
      PROVE  Lookup(table, tok) = NONE \/ Lookup(table, tok) \in S
  BY <1>4 DEF Lookup
<1>5. /\ parse_sreg(tok) = NONE \/ parse_sreg(tok) \in 0 .. 7
      /\ parse_dreg(tok) = NONE \/ parse_dreg(tok) \in 0 .. 7
      /\ Lookup(DReg, tok) = NONE \/ Lookup(DReg, tok) \in 0 .. 7
      /\ Lookup(BareReg, tok) = NONE \/ Lookup(BareReg, tok) \in 0 .. 7
  BY <1>1, <1>4, Zenon DEF parse_sreg, parse_dreg
<1>6. /\ Lookup(StatusBit, tok) = NONE \/ Lookup(StatusBit, tok) \in 0 .. 7
      /\ Lookup(SkipCond, tok) = NONE \/ Lookup(SkipCond, tok) \in 0 .. 7
      /\ Lookup(BitCond, tok) = NONE \/ Lookup(BitCond, tok) \in 0 .. 3
      /\ Lookup(ShiftType, tok) = NONE \/ Lookup(ShiftType, tok) \in 0 .. 3
  BY <1>2, <1>4, Zenon
<1>7. /\ Lookup(ReadReg, tok) = NONE \/ Lookup(ReadReg, tok) \in 0 .. 15
      /\ Lookup(WriteReg, tok) = NONE \/ Lookup(WriteReg, tok) \in 0 .. 15
  BY <1>3, <1>4, Zenon
<1>8. 0 \in 0 .. 7
  OBVIOUS
<1>9. parse_reg(tok) = NONE \/ parse_reg(tok) \in 0 .. 7
  BY <1>5, <1>8, Zenon DEF parse_reg
<1>10. parse_dreg_full(tok) = NONE \/ parse_dreg_full(tok) \in 0 .. 7
  BY <1>5, <1>8, Zenon DEF parse_dreg_full
<1>11. /\ SrcReg(tok) = NONE \/ SrcReg(tok) \in 0 .. 7
       /\ DstReg(tok) = NONE \/ DstReg(tok) \in 0 .. 7
  BY <1>5, <1>9, Zenon DEF SrcReg, DstReg, OrElse
<1>12. QED
  BY <1>5, <1>6, <1>7, <1>10, <1>11, Zenon

LEMMA ByteGives ==
  ASSUME NEW p, IsText(p), NEW base \in Nat, base + 255 <= MaxWord
  PROVE  Gives(Byte(base, p), p, base, base + 255)
<1> DEFINE n == First(p).n
<1>1. n \in Int
  BY FirstText
<1>2. Byte(base, p) = IF IsNum(First(p)) THEN Done(base + (n % 256)) ELSE Lost(p)
  BY DEF Byte, Number
<1> HIDE DEF n
<1>3. base + (n % 256) \in Nat /\ base <= base + (n % 256) /\ base + (n % 256) <= base + 255
  BY <1>1
<1>4. QED
  BY <1>2, <1>3, DoneGives, LostGives

LEMMA OneRegGives ==
  ASSUME NEW p, IsText(p), NEW base \in Nat, NEW shift \in Nat, NEW reg,
         reg = NONE \/ reg \in 0 .. 7, base + 7 * shift <= MaxWord
  PROVE  Gives(OneReg(base, reg, p, shift), p, base, base + 7 * shift)
<1>1. CASE reg \in 0 .. 7
  <2>1. OneReg(base, reg, p, shift) = Done(base + shift * reg)
    BY <1>1 DEF OneReg, NONE
  <2>2. base + shift * reg \in Nat /\ base <= base + shift * reg /\ base + shift * reg <= base + 7 * shift
    BY <1>1
  <2>3. QED
    BY <2>1, <2>2, DoneGives
<1>2. CASE reg = NONE
  BY <1>2, LostGives DEF OneReg
<1>3. QED
  BY <1>1, <1>2

LEMMA LevelRegGives ==
  ASSUME NEW p, IsText(p), NEW base \in Nat, base + 127 <= MaxWord
  PROVE  Gives(LevelReg(base, p), p, base, base + 127)
<1> DEFINE n == First(p).n
           reg == parse_dreg_full(First(Drop(p, 1)))
<1>1. n \in Int
  BY FirstText
<1>2. LevelReg(base, p) = IF ~IsNum(First(p)) THEN Lost(p)
                          ELSE IF reg # NONE THEN Done(base + Level(n) + reg)
                          ELSE Lost(Drop(p, 1))
  BY DEF LevelReg
<1>3. reg = NONE \/ reg \in 0 .. 7
  BY Registers
<1> HIDE DEF n, reg
<1>4. Level(n) \in Nat /\ Level(n) <= 120
  BY <1>1 DEF Level
<1>5. reg \in 0 .. 7 => Gives(Done(base + Level(n) + reg), p, base, base + 127)
  BY <1>4, DoneGives
<1>6. 1 \in Nat
  OBVIOUS
<1> DEFINE last == base + 127
<1> HIDE DEF last
<1>7. Gives(Lost(p), p, base, last) /\ Gives(Lost(Drop(p, 1)), p, base, last)
  BY <1>6, LostGives, Zenon
<1>8. QED
  BY <1>2, <1>3, <1>5, <1>7 DEF last

LEMMA BitOperandGives ==
  ASSUME NEW p, IsText(p), NEW base \in Nat, base + 127 <= MaxWord
  PROVE  Gives(BitOperand(base, p), p, base, base + 127)
<1> DEFINE sb == Lookup(StatusBit, First(p))
<1>1. BitOperand(base, p) = IF sb # NONE THEN Done(base + 8 * sb) ELSE LevelReg(base, p)
  BY DEF BitOperand
<1>2. sb = NONE \/ sb \in 0 .. 7
  BY Registers
<1> HIDE DEF sb
<1>3. sb \in 0 .. 7 => Gives(Done(base + 8 * sb), p, base, base + 127)
  BY DoneGives
<1>4. QED
  BY <1>1, <1>2, <1>3, LevelRegGives

LEMMA SrcDstGives ==
  ASSUME NEW p, IsText(p), NEW base \in Nat, base + 63 <= MaxWord
  PROVE  Gives(SrcDst(base, p), p, base, base + 63)
<1> DEFINE src == SrcReg(First(p))
           q == IF src # NONE THEN Drop(p, 1) ELSE p
           dst == DstReg(First(q))
<1>1. SrcDst(base, p) = IF src # NONE /\ dst # NONE THEN Done(base + 8 * src + dst) ELSE Lost(q)
  BY DEF SrcDst
<1>2. (src = NONE \/ src \in 0 .. 7) /\ (dst = NONE \/ dst \in 0 .. 7)
  BY Registers
<1>3. q = p \/ q = Drop(p, 1)
  OBVIOUS
<1> HIDE DEF src, q, dst
<1>4. Gives(Lost(q), p, base, base + 63)
  <2>1. 1 \in Nat
    OBVIOUS
  <2> DEFINE last == base + 63
  <2> HIDE DEF last
  <2>2. Gives(Lost(q), p, base, last)
    BY <1>3, <2>1, LostGives, Zenon
  <2>3. QED
    BY <2>2, Zenon DEF last
<1>5. src \in 0 .. 7 /\ dst \in 0 .. 7 => Gives(Done(base + 8 * src + dst), p, base, base + 63)
  BY DoneGives
<1>6. QED
  BY <1>1, <1>2, <1>4, <1>5

LEMMA MaxWordInt == MaxWord \in Int /\ MaxWord = 65535
BY DEF MaxWord

LEMMA NumberGives ==
  ASSUME NEW p, IsText(p), NEW v \in Nat, NEW a \in Int, NEW b \in Int,
         a <= v, v <= b, b <= MaxWord
  PROVE  Gives(IF IsNum(First(p)) THEN Done(v) ELSE Lost(p), p, a, b)
<1>1. Gives(Done(v), p, a, b)
  BY DoneGives
<1>2. Gives(Lost(p), p, a, b)
  BY LostGives, Zenon
<1>3. QED
  BY <1>1, <1>2, Zenon

LEMMA ModesText ==
  ASSUME NEW p, IsText(p)
  PROVE  parse_addrmode(p) \in Nat
<1> DEFINE lead == IF First(p).t \in {",B", ",X"} THEN 1 ELSE 0
           ind == IF First(Drop(p, lead)).t = "I" /\ Len(p) > lead + 1 THEN 1 ELSE 0
           q == Drop(p, lead + ind)
           n == Run(q, Commas)
<1>1. lead \in Nat /\ ind \in Nat /\ lead + ind \in Nat
  <2>1. lead = 0 \/ lead = 1
    BY Zenon
  <2> HIDE DEF lead
  <2>2. ind = 0 \/ ind = 1
    BY Zenon
  <2> HIDE DEF ind
  <2>3. QED
    BY <2>1, <2>2
<1>2. parse_addrmode(p) = lead + ind + n
  BY DEF parse_addrmode
<1> HIDE DEF lead, ind
<1>3. IsText(q)
  BY <1>1, DropText, Zenon
<1> HIDE DEF q
<1>4. n \in 0 .. Len(q) /\ Len(q) \in Nat
  BY <1>3, RunText, TextSeq
<1> HIDE DEF n
<1>5. QED
  BY <1>1, <1>2, <1>4

PageEnd(base) == base + 2047

LEMMA MemrefStageGives ==
  ASSUME NEW p, IsText(p), NEW base \in Nat, PageEnd(base) <= MaxWord
  PROVE  Gives(MemrefStage(base, p), p, base, PageEnd(base))
<1> DEFINE at == parse_addrmode(p)
           trail == parse_trailing_addrmode(Drop(p, at + 1))
           modes == {p[i].t : i \in (1 .. at) \cup (at + 2 .. at + 1 + trail)}
           rest == Drop(p, at)
           number == First(rest)
           m == number.n
           last == PageEnd(base)
           stage == MemrefStage(base, p)
           w(n) == encode_memref(base, modes, n)
           empty == rest = <<>>
           num == IsNum(number)
<1>1. stage = CASE num -> Done(w(m)) [] empty -> Done(w(0)) [] OTHER -> Lost(rest)
  BY DEF MemrefStage
<1>2. at \in Nat
  BY ModesText
<1> HIDE DEF at
<1>3. IsText(rest) /\ m \in Int
  <2>1. IsText(rest)
    BY <1>2, DropText, Zenon
  <2> HIDE DEF rest
  <2>2. QED
    BY <2>1, FirstText
<1>4. ~(num /\ empty)
  BY DEF First, End, Kw, IsNum
<1> HIDE DEF modes, rest, number
<1>5. ASSUME NEW n \in Int
      PROVE  w(n) \in Nat /\ base <= w(n) /\ w(n) <= last
  <2> DEFINE i == IF "I" \in modes THEN 2 ELSE 0
             b == IF modes \cap CommaB # {} THEN 1 ELSE 0
             x == IF modes \cap CommaX # {} THEN 4 ELSE 0
  <2>1. w(n) = base + 256 * (i + b + x) + (n % 256)
    BY DEF encode_memref
  <2>2. i \in 0 .. 2 /\ b \in 0 .. 1 /\ x \in 0 .. 4
    OBVIOUS
  <2> HIDE DEF i, b, x, w
  <2>e. last = base + 2047
    BY DEF PageEnd
  <2> HIDE DEF last
  <2>3. n % 256 \in Nat /\ n % 256 <= 255
    OBVIOUS
  <2>4. QED
    BY <2>1, <2>2, <2>3, <2>e
<1>6. last <= MaxWord /\ last \in Int
  BY DEF PageEnd
<1> HIDE DEF last, w, m
<1>7. Gives(Done(w(m)), p, base, last) /\ Gives(Done(w(0)), p, base, last)
  BY <1>3, <1>5, <1>6, DoneGives
<1>8. Gives(Lost(rest), p, base, last)
  BY <1>2, LostGives, Zenon DEF rest
<1>9. stage = Done(w(m)) \/ stage = Done(w(0)) \/ stage = Lost(rest)
  BY <1>1, <1>4
<1> HIDE DEF stage
<1>10. Gives(stage, p, base, last)
  BY <1>7, <1>8, <1>9, Zenon
<1>11. QED
  BY <1>10, Zenon DEF stage, last

(* SKP IF: the two bits below the condition stay clear.                       *)
LEMMA SkpStageGives ==
  ASSUME NEW p, IsText(p)
  PROVE  \E base \in Nat :
           /\ \E k \in 0 .. 7 : base = \o140000 + 256 * k
           /\ Gives(SkpStage(p), p, base, base + 63)
<1> DEFINE dst == IF First(p) = Num(0) THEN 0 ELSE parse_dreg(First(p))
           q == IF dst # NONE THEN Drop(p, 1) ELSE p
           cond == Lookup(SkipCond, First(q))
           r == IF cond # NONE THEN Drop(q, 1) ELSE q
           src == IF First(r) = Num(0) THEN 0 ELSE parse_sreg(First(r))
           stage == SkpStage(p)
<1>1. stage = IF NONE \notin {dst, cond, src}
              THEN Done(\o140000 + 256 * cond + 8 * src + dst) ELSE Lost(r)
  BY DEF SkpStage
<1>2. cond = NONE \/ cond \in 0 .. 7
  BY Registers
<1>3. dst = NONE \/ dst \in 0 .. 7
  <2>1. parse_dreg(First(p)) = NONE \/ parse_dreg(First(p)) \in 0 .. 7
    BY Registers, Zenon
  <2>2. QED
    BY <2>1
<1>4. src = NONE \/ src \in 0 .. 7
  <2> HIDE DEF r
  <2>1. parse_sreg(First(r)) = NONE \/ parse_sreg(First(r)) \in 0 .. 7
    BY Registers, Zenon
  <2>2. QED
    BY <2>1
<1>5. 1 \in Nat
  OBVIOUS
<1>6. IsText(q) /\ Tokens(q) \subseteq Tokens(p)
  <2> HIDE DEF dst
  <2>1. q = p \/ q = Drop(p, 1)
    OBVIOUS
  <2> HIDE DEF q
  <2>2. QED
    BY <1>5, <2>1, DropTokens, Zenon
<1>7. IsText(r) /\ Tokens(r) \subseteq Tokens(p)
  <2> HIDE DEF cond, q
  <2>1. r = q \/ r = Drop(q, 1)
    OBVIOUS
  <2>2. IsText(Drop(q, 1)) /\ Tokens(Drop(q, 1)) \subseteq Tokens(q)
    BY <1>5, <1>6, DropTokens, Zenon
  <2> HIDE DEF r
  <2>3. QED
    BY <1>6, <2>1, <2>2, Zenon
<1> HIDE DEF dst, q, cond, r, src, stage
<1>8. \A a, b : Gives(Lost(r), p, a, b)
  <2>1. Lost(r).p = r /\ Lost(r).word = NONE
    BY DEF Lost
  <2>2. QED
    BY <1>7, <2>1, Zenon DEF Gives
<1>9. CASE NONE \in {dst, cond, src}
  <2>1. stage = Lost(r)
    BY <1>1, <1>9
  <2>2. \o140000 \in Nat /\ 0 \in 0 .. 7 /\ \o140000 = \o140000 + 256 * 0
    OBVIOUS
  <2>3. Gives(stage, p, \o140000, \o140000 + 63)
    BY <1>8, <2>1
  <2>4. QED
    BY <2>2, <2>3 DEF stage
<1>10. CASE NONE \notin {dst, cond, src}
  <2> DEFINE base == \o140000 + 256 * cond
             v == base + 8 * src + dst
  <2>1. dst \in 0 .. 7 /\ cond \in 0 .. 7 /\ src \in 0 .. 7
    BY <1>2, <1>3, <1>4, <1>10
  <2>2. stage = Done(v)
    BY <1>1, <1>10
  <2>3. base \in Nat /\ base + 63 \in Int /\ base + 63 <= MaxWord
    BY <2>1 DEF MaxWord
  <2>4. v \in Nat /\ base <= v /\ v <= base + 63
    BY <2>1
  <2> HIDE DEF v
  <2>5. Gives(stage, p, base, base + 63)
    <3> HIDE DEF base
    <3>1. QED
      BY <2>2, <2>3, <2>4, DoneGives
  <2>6. QED
    BY <2>1, <2>3, <2>5 DEF stage
<1>11. QED
  BY <1>9, <1>10

(* A register operation: each modifier on the line adds its bits once.         *)
RegopGives(r, p, base, cld, cm1, ad1, adc) ==
  /\ cld \in {0, \o100} /\ cm1 \in {0, \o200} /\ ad1 \in {0, \o400} /\ adc \in {0, \o1000}
  /\ cm1 # 0 => "CM1" \in Tokens(p)
  /\ ad1 # 0 => "AD1" \in Tokens(p)
  /\ adc # 0 => "ADC" \in Tokens(p)
  /\ Gives(r, p, base + cld + cm1 + ad1 + adc, base + cld + cm1 + ad1 + adc + 63)

LEMMA RegopStageGives ==
  ASSUME NEW p, IsText(p), NEW base \in Nat, base + 1023 <= MaxWord
  PROVE  \E cld, cm1, ad1, adc : RegopGives(RegopStage(base, p), p, base, cld, cm1, ad1, adc)
<1> DEFINE n == Run(p, DOMAIN Modifier)
           mod(m) == IF \E i \in 1 .. n : p[i].t = m THEN Modifier[m] ELSE 0
           cld == mod("CLD")
           cm1 == mod("CM1")
           ad1 == mod("AD1")
           adc == mod("ADC")
           base1 == base + cld + cm1 + ad1 + adc
           q == Drop(p, n)
           stage == RegopStage(base, p)
<1>1. stage = SrcDst(base1, q)
  BY DEF RegopStage
<1>2. n \in 0 .. Len(p) /\ Len(p) \in Nat
  BY RunText, TextSeq
<1> HIDE DEF n
<1>3. ASSUME NEW m
      PROVE  mod(m) = 0 \/ (m \in Tokens(p) /\ mod(m) = Modifier[m])
  <2>1. \A i \in 1 .. n : i \in 1 .. Len(p)
    BY <1>2
  <2>2. (\E i \in 1 .. n : p[i].t = m) => m \in Tokens(p)
    BY <2>1 DEF Tokens
  <2>3. QED
    BY <2>2
<1> HIDE DEF mod
<1>4. /\ cld = 0 \/ ("CLD" \in Tokens(p) /\ cld = Modifier["CLD"])
      /\ cm1 = 0 \/ ("CM1" \in Tokens(p) /\ cm1 = Modifier["CM1"])
      /\ ad1 = 0 \/ ("AD1" \in Tokens(p) /\ ad1 = Modifier["AD1"])
      /\ adc = 0 \/ ("ADC" \in Tokens(p) /\ adc = Modifier["ADC"])
  BY <1>3, Zenon
<1>5. /\ Modifier["CLD"] = \o100 /\ Modifier["CM1"] = \o200
      /\ Modifier["AD1"] = \o400 /\ Modifier["ADC"] = \o1000
  BY DEF Modifier
<1> HIDE DEF cld, cm1, ad1, adc
<1>6. /\ cld \in {0, \o100} /\ cm1 \in {0, \o200} /\ ad1 \in {0, \o400} /\ adc \in {0, \o1000}
      /\ cm1 # 0 => "CM1" \in Tokens(p)
      /\ ad1 # 0 => "AD1" \in Tokens(p)
      /\ adc # 0 => "ADC" \in Tokens(p)
  BY <1>4, <1>5
<1>7. base1 \in Nat /\ base1 + 63 <= MaxWord
  BY <1>6, MaxWordInt
<1>8. IsText(q) /\ n \in Nat
  BY <1>2, DropText
<1> HIDE DEF q, base1
<1>9. Gives(SrcDst(base1, q), q, base1, base1 + 63)
  BY <1>7, <1>8, SrcDstGives
<1> DEFINE last == base1 + 63
<1> HIDE DEF last
<1>10. Gives(SrcDst(base1, q), p, base1, last)
  <2>1. Gives(SrcDst(base1, q), Drop(p, n), base1, last)
    BY <1>9, Zenon DEF q, last
  <2>2. n \in Nat
    BY <1>8
  <2> DEFINE r == SrcDst(base1, q)
  <2> HIDE DEF r
  <2>3. Gives(r, Drop(p, n), base1, last)
    BY <2>1, ZenonT(30) DEF r
  <2>4. Gives(r, p, base1, last)
    BY <2>2, <2>3, DropTokens, Zenon DEF Gives
  <2>5. QED
    BY <2>4, Zenon DEF r
<1>11. Gives(stage, p, base1, base1 + 63)
  BY <1>1, <1>10 DEF last
<1>12. RegopGives(stage, p, base, cld, cm1, ad1, adc)
  BY <1>6, <1>11 DEF base1, RegopGives
<1>13. QED
  BY <1>12 DEF stage

LEMMA CopyStageGives ==
  ASSUME NEW p, IsText(p)
  PROVE  Gives(CopyStage(p), p, \o146100, \o146177)
<1> DEFINE s == First(p).t \in DOMAIN SReg \cup {"S"}
           q == IF s THEN Drop(p, 1) ELSE p
           src == IF s THEN parse_sreg(First(p)) ELSE NONE
           dst == parse_dreg(First(q))
           a == \o146100
           b == \o146177
           v == a + 8 * src + dst
           stage == CopyStage(p)
<1>1. stage = IF src # NONE /\ dst # NONE THEN Done(v) ELSE Lost(q)
  BY DEF CopyStage
<1>2. src = NONE \/ src \in 0 .. 7
  BY Registers
<1>3. dst = NONE \/ dst \in 0 .. 7
  BY Registers
<1>4. q = p \/ q = Drop(p, 1)
  BY Zenon
<1>5. 1 \in Nat
  OBVIOUS
<1>6. a \in Int /\ b \in Int /\ b <= MaxWord
  BY DEF MaxWord
<1> HIDE DEF src, dst, q
<1>7. src # NONE /\ dst # NONE => v \in Nat /\ a <= v /\ v <= b
  BY <1>2, <1>3
<1> HIDE DEF a, b, v, stage
<1>8. Gives(Lost(q), p, a, b)
  BY <1>4, <1>5, LostGives, Zenon
<1>9. src # NONE /\ dst # NONE => Gives(Done(v), p, a, b)
  BY <1>6, <1>7, DoneGives, Zenon
<1>10. Gives(stage, p, a, b)
  BY <1>1, <1>8, <1>9, Zenon
<1>11. QED
  BY <1>10 DEF a, b, stage

(* A shift: the type and the count stay within bits 9 and 10 and 0 to 5.       *)
LEMMA ShiftStageGives ==
  ASSUME NEW p, IsText(p), NEW base \in Nat, base + 2047 <= MaxWord
  PROVE  \E type \in 0 .. 3 :
           Gives(ShiftStage(base, p), p, base + 512 * type, base + 512 * type + 63)
<1> DEFINE type == Lookup(ShiftType, First(p))
           q == IF type # NONE THEN Drop(p, 1) ELSE p
           right == First(q).t = "SHR"
           r == IF right THEN Drop(q, 1) ELSE q
           n == First(r).n
           k == OrElse(type, 0)
           a == base + 512 * k
           b == a + 63
           v == a + ((IF right THEN -n ELSE n) % 64)
           stage == ShiftStage(base, p)
<1>1. stage = IF IsNum(First(r)) THEN Done(v) ELSE Lost(r)
  BY DEF ShiftStage, Number
<1>2. k \in 0 .. 3
  <2>1. type = NONE \/ type \in 0 .. 3
    BY Registers
  <2> HIDE DEF type
  <2>2. QED
    BY <2>1 DEF OrElse
<1>3. 1 \in Nat
  OBVIOUS
<1>4. IsText(q) /\ Tokens(q) \subseteq Tokens(p)
  <2> HIDE DEF type
  <2>1. q = p \/ q = Drop(p, 1)
    BY SMT
  <2> HIDE DEF q
  <2>2. QED
    BY <1>3, <2>1, DropTokens
<1>5. IsText(r) /\ Tokens(r) \subseteq Tokens(p)
  <2> HIDE DEF q
  <2>1. r = q \/ r = Drop(q, 1)
    BY SMT
  <2>2. IsText(Drop(q, 1)) /\ Tokens(Drop(q, 1)) \subseteq Tokens(q)
    BY <1>3, <1>4, DropTokens
  <2> HIDE DEF r
  <2>3. QED
    BY <1>4, <2>1, <2>2
<1> HIDE DEF type, q, right, r, k
<1>6. n \in Int
  BY <1>5, FirstText
<1> HIDE DEF n
<1>7. a \in Nat /\ b \in Int /\ b <= MaxWord
  BY <1>2, MaxWordInt
<1>8. v \in Nat /\ a <= v /\ v <= b
  BY <1>6, <1>7
<1> HIDE DEF v, a, b
<1>9. Gives(Done(v), p, a, b)
  BY <1>7, <1>8, DoneGives
<1>10. Gives(Lost(r), p, a, b)
  <2>1. Lost(r).p = r /\ Lost(r).word = NONE
    BY DEF Lost
  <2>2. QED
    BY <1>5, <2>1 DEF Gives
<1>11. Gives(stage, p, a, b)
  BY <1>1, <1>9, <1>10
<1>12. QED
  BY <1>2, <1>11 DEF a, b, stage

LEMMA IntregStageGives ==
  ASSUME NEW p, IsText(p), NEW m \in DOMAIN IntOp
  PROVE  Gives(IntregStage(m, p), p, IntOp[m], IntOp[m] + 15)
<1> DEFINE reg == Lookup(IF m = "TRA" THEN ReadReg ELSE WriteReg, First(p))
           n == First(p).n
           base == IntOp[m]
           b == base + 15
           num == IsNum(First(p))
           stage == IntregStage(m, p)
<1>1. stage = IF reg # NONE THEN Done(base + reg)
              ELSE IF num THEN Done(base + (n % 16)) ELSE Lost(p)
  BY DEF IntregStage, Number
<1>2. base \in Nat /\ b <= MaxWord
  BY DEF IntOp, MaxWord
<1>3. reg = NONE \/ reg \in 0 .. 15
  <2>1. \/ reg = Lookup(ReadReg, First(p))
        \/ reg = Lookup(WriteReg, First(p))
    BY Zenon
  <2> HIDE DEF reg
  <2>2. QED
    BY <2>1, Registers
<1>4. n \in Int
  BY FirstText
<1> HIDE DEF reg, n, base, num, stage
<1>5. reg \in 0 .. 15 => Gives(Done(base + reg), p, base, b)
  BY <1>2, DoneGives
<1>6. Gives(Done(base + (n % 16)), p, base, b)
  BY <1>2, <1>4, DoneGives
<1>7. Gives(Lost(p), p, base, b)
  <2> HIDE DEF b
  <2>1. QED
    BY LostGives, Zenon
<1> HIDE DEF b
<1>8. Gives(stage, p, base, b)
  BY <1>1, <1>3, <1>5, <1>6, <1>7
<1>9. QED
  BY <1>8 DEF stage, base, b

-----------------------------------------------------------------------------
\* The mnemonics of the words a stage may give.

LEMMA KnownIs ==
  ASSUME NEW table, NEW w
  PROVE  /\ Known(table, w) <=> \E n \in DOMAIN table : table[n] = w
         /\ Known(table, w) => Named1(table, w) \in DOMAIN table /\ table[Named1(table, w)] = w
<1>1. Known(table, w) <=> \E n \in DOMAIN table : table[n] = w
  BY DEF Known, Named
<1>2. Known(table, w) => Named1(table, w) \in DOMAIN table /\ table[Named1(table, w)] = w
  BY DEF Known, Named, Named1
<1>3. QED
  BY <1>1, <1>2

(* Where the words with a name of their own lie.                              *)
LEMMA ExactWords ==
  ASSUME NEW w \in Nat
  PROVE  /\ Known(Exact, w) =>
              \/ \o140120 <= w /\ w <= \o140137
              \/ \o140300 <= w /\ w <= \o140304
              \/ w = \o143500 \/ w = \o146142
              \/ \o150400 <= w /\ w <= \o150417
         /\ Known(Exact110, w) => w = \o140133 \/ (\o140500 <= w /\ w <= \o140517)
         /\ Known(Idents, w) => \o143604 <= w /\ w <= \o143643
         /\ Known(Masked, w) =>
              \/ w = \o140200 \/ w = \o141100 \/ w = \o141300 \/ w = \o141500
              \/ w = \o141700 \/ (\o142100 <= w /\ w <= \o143200)
<1>1. \A n \in DOMAIN Exact :
         \/ \o140120 <= Exact[n] /\ Exact[n] <= \o140137
         \/ \o140300 <= Exact[n] /\ Exact[n] <= \o140304
         \/ Exact[n] = \o143500 \/ Exact[n] = \o146142
         \/ \o150400 <= Exact[n] /\ Exact[n] <= \o150417
  BY SMT DEF Exact
<1>2. \A n \in DOMAIN Exact110 :
         Exact110[n] = \o140133 \/ (\o140500 <= Exact110[n] /\ Exact110[n] <= \o140517)
  BY SMT DEF Exact110
<1>3. \A n \in DOMAIN Idents : \o143604 <= Idents[n] /\ Idents[n] <= \o143643
  BY SMT DEF Idents
<1>4. \A n \in DOMAIN Masked :
         \/ Masked[n] = \o140200 \/ Masked[n] = \o141100 \/ Masked[n] = \o141300
         \/ Masked[n] = \o141500 \/ Masked[n] = \o141700
         \/ (\o142100 <= Masked[n] /\ Masked[n] <= \o143200)
  BY SMT DEF Masked
<1>5. QED
  BY <1>1, <1>2, <1>3, <1>4, KnownIs, SMT

LEMMA MemrefOpens ==
  ASSUME NEW m \in DOMAIN MemrefOp, NEW w \in Word,
         MemrefOp[m] <= w, w <= PageEnd(MemrefOp[m])
  PROVE  Opens(w) = m
<1>1. \/ \E k \in 0 .. 21 : MemrefOp[m] = 2048 * k /\ Memref[k + 1] = m
      \/ MemrefOp[m] = 2048 * 23 /\ m = "JPL"
  BY SMT DEF MemrefOp, Memref
<1>2. w \in Nat
  BY WordParts
<1>3. ASSUME NEW k \in 0 .. 23, MemrefOp[m] = 2048 * k
      PROVE  w \div 2048 = k
  BY <1>2, <1>3, SMT DEF PageEnd
<1>4. CASE \E k \in 0 .. 21 : MemrefOp[m] = 2048 * k /\ Memref[k + 1] = m
  <2>1. PICK k \in 0 .. 21 : MemrefOp[m] = 2048 * k /\ Memref[k + 1] = m
    BY <1>4
  <2>2. w \div 2048 = k
    BY <1>3, <2>1
  <2>3. QED
    BY <2>1, <2>2, OpensTop, SMT
<1>5. CASE MemrefOp[m] = 2048 * 23 /\ m = "JPL"
  <2>1. w \div 2048 = 23
    BY <1>3, <1>5
  <2>2. QED
    BY <1>5, <2>1, OpensTop, SMT
<1>6. QED
  BY <1>1, <1>4, <1>5

(* Conditional jumps and argument instructions.                               *)
LEMMA ByteOpens ==
  ASSUME NEW w \in Word
  PROVE  /\ \A m \in DOMAIN CbrOp : CbrOp[m] <= w /\ w <= CbrOp[m] + 255 => Opens(w) = m
         /\ \A m \in DOMAIN ArgOp : ArgOp[m] <= w /\ w <= ArgOp[m] + 255 => Opens(w) = m
<1> DEFINE names == <<"SAB", "SAA", "SAT", "SAX", "AAB", "AAA", "AAT", "AAX">>
           sub == Field(w, 8, 3)
           top == w \div 2048
<1>1. \A m \in DOMAIN CbrOp : \E k \in 0 .. 7 : CbrOp[m] = 256 * (176 + k) /\ CondJumps[k + 1] = m
  BY SMT DEF CbrOp, CondJumps
<1>2. \A m \in DOMAIN ArgOp : \E k \in 0 .. 7 : ArgOp[m] = 256 * (240 + k) /\ names[k + 1] = m
  BY SMT DEF ArgOp
<1>3. w \in Nat
  BY WordParts
<1>4. ASSUME NEW k \in 0 .. 7, 256 * (176 + k) <= w, w <= 256 * (176 + k) + 255
      PROVE  top = 22 /\ sub = k
  BY <1>3, <1>4, SMT DEF Field
<1>5. ASSUME NEW k \in 0 .. 7, 256 * (240 + k) <= w, w <= 256 * (240 + k) + 255
      PROVE  top = 30 /\ sub = k
  BY <1>3, <1>5, SMT DEF Field
<1>6. (top = 22 => Opens(w) = CondJumps[sub + 1]) /\ (top = 30 => Opens(w) = names[sub + 1])
  BY OpensTop
<1> HIDE DEF names, sub, top
<1>7. ASSUME NEW m \in DOMAIN CbrOp, CbrOp[m] <= w, w <= CbrOp[m] + 255
      PROVE  Opens(w) = m
  <2>1. PICK k \in 0 .. 7 : CbrOp[m] = 256 * (176 + k) /\ CondJumps[k + 1] = m
    BY <1>1
  <2>2. top = 22 /\ sub = k
    BY <1>4, <1>7, <2>1
  <2>3. QED
    BY <1>6, <2>1, <2>2
<1>8. ASSUME NEW m \in DOMAIN ArgOp, ArgOp[m] <= w, w <= ArgOp[m] + 255
      PROVE  Opens(w) = m
  <2>1. PICK k \in 0 .. 7 : ArgOp[m] = 256 * (240 + k) /\ names[k + 1] = m
    BY <1>2
  <2>2. top = 30 /\ sub = k
    BY <1>5, <1>8, <2>1
  <2>3. QED
    BY <1>6, <2>1, <2>2
<1>9. QED
  BY <1>7, <1>8

(* 0140000-0143777.                                                           *)
LEMMA MiscOpens ==
  ASSUME NEW w \in Word
  PROVE  /\ (\E k \in 0 .. 7 : \o140000 + 256 * k <= w /\ w <= \o140000 + 256 * k + 63)
               => Opens(w) = "SKP"
         /\ w \in {IdentOp[m] : m \in DOMAIN IdentOp} => Opens(w) = "IDENT"
         /\ \o140600 <= w /\ w <= \o140677 => Opens(w) = "EXR"
         /\ \o141200 <= w /\ w <= \o141277 => Opens(w) = "RMPY"
         /\ \o141600 <= w /\ w <= \o141677 => Opens(w) = "RDIV"
         /\ \A m \in DOMAIN DeltaOp : (\E k \in 0 .. 7 : w = DeltaOp[m] + 8 * k) => Opens(w) = m
<1>1. w \in Nat
  BY WordParts
<1>2. /\ \o140000 <= w /\ w <= \o143777 => Top(w) = 24
      /\ 64 * (w \div 64) \in Nat
  BY <1>1, SMT DEF Top
<1>3. ASSUME NEW k \in 0 .. 7, \o140000 + 256 * k <= w, w <= \o140000 + 256 * k + 63
      PROVE  Opens(w) = "SKP"
  <2>1. \o140000 <= w /\ w <= \o143777 /\ Field(w, 6, 2) = 0
    BY <1>1, <1>3, SMT DEF Field
  <2>2. QED
    BY <1>2, <2>1, Opens140, SMT
<1>4. ASSUME NEW m \in DOMAIN IdentOp, w = IdentOp[m]
      PROVE  Opens(w) = "IDENT"
  <2>1. Known(Idents, w)
    BY <1>4, KnownIs, SMT DEF IdentOp, Idents
  <2>2. w \in {\o143604, \o143611, \o143622, \o143643}
    BY <1>4, SMT DEF IdentOp
  <2>3. \o140000 <= w /\ w <= \o143777 /\ Field(w, 6, 2) # 0
    BY <2>2, SMT DEF Field
  <2>4. ~Known(Exact, w)
    BY <1>1, <2>2, ExactWords, SMT
  <2>5. QED
    BY <1>2, <2>1, <2>3, <2>4, Opens140, SMT
<1>5. ASSUME NEW low \in {\o140600, \o140700, \o141200, \o141600}, low <= w, w <= low + 63
      PROVE  Opens(w) = IF low = \o140700 THEN Deltas[(w % 8) + 1]
                        ELSE IF low = \o140600 THEN "EXR"
                        ELSE IF low = \o141200 THEN "RMPY" ELSE "RDIV"
  <2>1. /\ \o140000 <= w /\ w <= \o143777 /\ Field(w, 6, 2) # 0
        /\ 64 * (w \div 64) = low
    BY <1>1, <1>5, SMT DEF Field
  <2>2. ~Known(Exact, w) /\ ~Known(Exact110, w) /\ ~Known(Idents, w)
    BY <1>1, <1>5, ExactWords, SMT
  <2>3. ~Known(Masked, low)
    BY <1>5, ExactWords, SMT
  <2>4. QED
    BY <1>2, <1>5, <2>1, <2>2, <2>3, Opens140, SMT
<1>6. ASSUME NEW m \in DOMAIN DeltaOp, NEW k \in 0 .. 7, w = DeltaOp[m] + 8 * k
      PROVE  Opens(w) = m
  <2> DEFINE i == DeltaOp[m] - \o140700
  <2>1. i \in 0 .. 7 /\ Deltas[i + 1] = m /\ DeltaOp[m] = \o140700 + i
    BY SMT DEF DeltaOp, Deltas
  <2> HIDE DEF i
  <2>2. w = \o140700 + 8 * k + i
    BY <1>6, <2>1, SMT
  <2>3. \o140700 <= w /\ w <= \o140700 + 63 /\ w % 8 = i
    BY <2>1, <2>2, SMT
  <2>4. Opens(w) = Deltas[(w % 8) + 1]
    BY <1>5, <2>3, SMT
  <2>5. QED
    BY <2>1, <2>3, <2>4
<1>7. QED
  BY <1>3, <1>4, <1>5, <1>6, SMT

(* 0144000-0147777: the word at 64 k and the 63 after it are one operation.   *)
RopAt(w, k) == \o144000 + 64 * k <= w /\ w <= \o144000 + 64 * k + 63

LEMMA RopOpens ==
  ASSUME NEW w \in Word, NEW k \in 0 .. 31, RopAt(w, k)
  PROVE  /\ k <= 3 => Opens(w) = "SWAP"
         /\ 4 <= k /\ k <= 7 => Opens(w) = "RAND"
         /\ 8 <= k /\ k <= 11 => Opens(w) = "REXO"
         /\ 12 <= k /\ k <= 15 => Opens(w) = "RORA"
         /\ 16 <= k /\ k <= 27 =>
              Opens(w) = IF w = \o146142 THEN "EXIT" ELSE IF k = 22 THEN "RSUB" ELSE "RADD"
         /\ 28 <= k => Opens(w) = "ROP"
<1>1. w \in Nat
  BY WordParts
<1>2. Top(w) = 25 /\ Field(w, 6, 5) = k /\ (w = \o146142 => k = 17)
  BY <1>1, SMT DEF RopAt, Top, Field
<1>3. Exact.EXIT = \o146142
  BY SMT DEF Exact
<1>4. Opens(w) = RopName(w, k)
  BY <1>2, OpensRop
<1>5. /\ k <= 3 => RopName(w, k) = "SWAP"
      /\ 4 <= k /\ k <= 7 => RopName(w, k) = "RAND"
      /\ 8 <= k /\ k <= 11 => RopName(w, k) = "REXO"
      /\ 12 <= k /\ k <= 15 => RopName(w, k) = "RORA"
      /\ 16 <= k /\ k <= 27 =>
           RopName(w, k) = IF w = \o146142 THEN "EXIT" ELSE IF k = 22 THEN "RSUB" ELSE "RADD"
      /\ 28 <= k => RopName(w, k) = "ROP"
  <2> DEFINE exit == w = \o146142
  <2>1. RopName(w, k) = IF exit THEN "EXIT" ELSE IF k \div 4 = 7 THEN "ROP"
                        ELSE IF k = 22 THEN "RSUB" ELSE RopNames[(k \div 4) + 1]
    BY <1>3 DEF RopName
  <2>2. exit => k = 17
    BY <1>2
  <2> HIDE DEF exit
  <2>3. QED
    BY <2>1, <2>2, SMT DEF RopNames, exit
<1>6. QED
  BY <1>4, <1>5, SMT

LEMMA AliasOpens ==
  ASSUME NEW w \in Word
  PROVE  /\ \A m \in DOMAIN AliasOp : AliasOp[m] <= w /\ w <= AliasOp[m] + 7 => Opens(w) = "RADD"
         /\ \o146100 <= w /\ w <= \o146177 => Opens(w) \in {"RADD", "EXIT"}
         /\ w = \o147700 => Opens(w) = "ROP"
<1>1. w \in Nat
  BY WordParts
<1>2. ASSUME NEW m \in DOMAIN AliasOp, AliasOp[m] <= w, w <= AliasOp[m] + 7
      PROVE  Opens(w) = "RADD"
  <2>1. \E k \in {17, 18, 20} : AliasOp[m] = \o144000 + 64 * k
    BY SMT DEF AliasOp
  <2>2. PICK k \in {17, 18, 20} : AliasOp[m] = \o144000 + 64 * k
    BY <2>1
  <2>3. RopAt(w, k) /\ k \in 0 .. 31 /\ 16 <= k /\ k <= 27 /\ k # 22 /\ w # \o146142
    BY <1>1, <1>2, <2>2, SMT DEF RopAt
  <2>4. QED
    BY <2>3, RopOpens, SMT
<1>3. ASSUME \o146100 <= w, w <= \o146177
      PROVE  Opens(w) \in {"RADD", "EXIT"}
  <2>1. RopAt(w, 17)
    BY <1>1, <1>3, SMT DEF RopAt
  <2>2. QED
    BY <2>1, RopOpens, SMT
<1>4. ASSUME w = \o147700
      PROVE  Opens(w) = "ROP"
  <2>1. RopAt(w, 31)
    BY <1>1, <1>4, SMT DEF RopAt
  <2>2. QED
    BY <2>1, RopOpens, SMT
<1>5. QED
  BY <1>2, <1>3, <1>4

(* The mnemonics a listed mnemonic stands for, one by one.                    *)
LEMMA ListedNames ==
  /\ \A m \in DOMAIN AliasOp : ListedAs(m) = {"RADD"}
  /\ ListedAs("COPY") = {"RADD", "EXIT"}
  /\ ListedAs("RADD") = {"RADD", "RSUB", "EXIT"}
  /\ ListedAs("RSUB") = {"RADD", "RSUB"}
  /\ ListedAs("HALT") = {"USER0"}
  /\ \A m \in DOMAIN StageOf :
       m \notin DOMAIN AliasOp \cup {"COPY", "RADD", "RSUB", "HALT"} => ListedAs(m) = {m}
<1> DEFINE names == DOMAIN StageOf
           aliases == DOMAIN AliasOp
<1>1. aliases = {"RCLR", "RINC", "RDCR"}
  BY SMT DEF AliasOp
<1>2. \A m : ListedAs(m) = CASE m \in aliases -> {"RADD"} [] m = "COPY" -> {"RADD", "EXIT"}
                             [] m = "RADD" -> {"RADD", "RSUB", "EXIT"}
                             [] m = "RSUB" -> {"RADD", "RSUB"} [] m = "HALT" -> {"USER0"}
                             [] OTHER -> {m} \cap names
  BY DEF ListedAs
<1> HIDE DEF names, aliases
<1>3. \A m \in aliases : ListedAs(m) = {"RADD"}
  BY <1>1, <1>2, SMT
<1>4. /\ ListedAs("COPY") = {"RADD", "EXIT"}
      /\ ListedAs("RADD") = {"RADD", "RSUB", "EXIT"}
      /\ ListedAs("RSUB") = {"RADD", "RSUB"}
      /\ ListedAs("HALT") = {"USER0"}
  BY <1>1, <1>2, SMT
<1>5. ASSUME NEW m \in names, m \notin aliases \cup {"COPY", "RADD", "RSUB", "HALT"}
      PROVE  ListedAs(m) = {m}
  <2>1. ListedAs(m) = {m} \cap names
    BY <1>2, <1>5, SMT
  <2>2. QED
    BY <1>5, <2>1
<1>6. QED
  BY <1>3, <1>4, <1>5 DEF names, aliases

(* The stages know the mnemonics of the cases of Stage, and no other.          *)
OddNames == {"MON", "IOX", "IOT", "IDENT", "EXR", "NLZ", "DNZ", "IRW", "IRR", "SKP", "COPY",
             "RMPY", "RDIV", "SRB", "LRB", "ROP"}

LEMMA StageNames ==
  \A m : m \in DOMAIN StageOf <=>
    \/ m \in DOMAIN FixedOp \/ m \in DOMAIN MemrefOp \/ m \in DOMAIN CbrOp
    \/ m \in DOMAIN ArgOp \/ m \in DOMAIN DeltaOp \/ m \in DOMAIN RegOp
    \/ m \in DOMAIN AliasOp \/ m \in DOMAIN ShiftOp \/ m \in DOMAIN IntOp
    \/ m \in DOMAIN CondBitOp \/ m \in DOMAIN BitOp \/ m \in OddNames
<1>1. \A m : m \in DOMAIN StageOf <=> \E k \in DOMAIN Stages : m \in Stages[k]
  BY DEF StageOf, Range
<1> DEFINE d1 == DOMAIN FixedOp
           d2 == DOMAIN MemrefOp
           d3 == DOMAIN CbrOp
           d4 == DOMAIN ArgOp
           d14 == DOMAIN DeltaOp
           d16 == DOMAIN RegOp
           d21 == DOMAIN ShiftOp
           d22 == DOMAIN IntOp
           d26 == DOMAIN CondBitOp
           d27 == DOMAIN BitOp
<1>2. Stages = <<d1, d2, d3, d4, {"MON"}, {"IOX"}, {"IOT"}, {"IDENT"}, {"EXR"}, {"NLZ"},
                 {"DNZ"}, {"IRW"}, {"IRR"}, d14, {"SKP"}, d16, {"RCLR"}, {"RINC"}, {"RDCR"},
                 {"COPY"}, {"RMPY"}, {"RDIV"}, d21, d22, {"SRB"}, {"LRB"}, {"ROP"}, d26, d27>>
  BY DEF Stages
<1>3. DOMAIN AliasOp = {"RCLR", "RINC", "RDCR"}
  BY SMT DEF AliasOp
<1> HIDE DEF d1, d2, d3, d4, d14, d16, d21, d22, d26, d27
<1>4. \A m : (\E k \in DOMAIN Stages : m \in Stages[k]) <=>
         \/ m \in d1 \/ m \in d2 \/ m \in d3 \/ m \in d4 \/ m \in d14 \/ m \in d16
         \/ m \in {"RCLR", "RINC", "RDCR"} \/ m \in d21 \/ m \in d22
         \/ m \in d26 \/ m \in d27 \/ m \in OddNames
  BY <1>2, SMT DEF OddNames
<1>5. QED
  BY <1>1, <1>3, <1>4 DEF d1, d2, d3, d4, d14, d16, d21, d22, d26, d27

(* A register operation stays itself unless its modifiers carry into it.      *)
LEMMA RegopOpens ==
  ASSUME NEW w \in Word, NEW m \in DOMAIN RegOp, NEW r, NEW p, NEW cld, NEW cm1, NEW ad1, NEW adc,
         RegopGives(r, p, RegOp[m], cld, cm1, ad1, adc), r.word = w,
         ~CarryInto(m, Tokens(p))
  PROVE  Opens(w) \in ListedAs(m)
<1> DEFINE a == RegOp[m] + cld + cm1 + ad1 + adc
<1>1. w \in Nat /\ w # NONE
  BY WordParts, SMT DEF NONE
<1>2. /\ cld \in {0, \o100} /\ cm1 \in {0, \o200} /\ ad1 \in {0, \o400} /\ adc \in {0, \o1000}
      /\ cm1 # 0 => "CM1" \in Tokens(p)
      /\ ad1 # 0 => "AD1" \in Tokens(p)
      /\ adc # 0 => "ADC" \in Tokens(p)
      /\ a <= w /\ w <= a + 63
  BY <1>1 DEF RegopGives, Gives
<1>3. /\ m = "RSUB" => cm1 = 0
      /\ m # "RADD" => ad1 = 0 /\ adc = 0
      /\ ad1 = 0 \/ adc = 0
  BY <1>2 DEF CarryInto
<1>4. m \in {"SWAP", "RAND", "REXO", "RORA", "RADD", "RSUB"}
  BY SMT DEF RegOp
<1>5. /\ RegOp["SWAP"] = \o144000 /\ RegOp["RAND"] = \o144400 /\ RegOp["REXO"] = \o145000
      /\ RegOp["RORA"] = \o145400 /\ RegOp["RADD"] = \o146000 /\ RegOp["RSUB"] = \o146600
  BY SMT DEF RegOp
<1>6. \E k \in 0 .. 31 :
         /\ RopAt(w, k)
         /\ m = "SWAP" => k <= 3
         /\ m = "RAND" => 4 <= k /\ k <= 7
         /\ m = "REXO" => 8 <= k /\ k <= 11
         /\ m = "RORA" => 12 <= k /\ k <= 15
         /\ m = "RADD" => 16 <= k /\ k <= 27
         /\ m = "RSUB" => k = 22 \/ k = 23
  <2> DEFINE k == (a - \o144000) \div 64
  <2>1. /\ a = \o144000 + 64 * k /\ k \in 0 .. 31
        /\ m = "SWAP" => k <= 3
        /\ m = "RAND" => 4 <= k /\ k <= 7
        /\ m = "REXO" => 8 <= k /\ k <= 11
        /\ m = "RORA" => 12 <= k /\ k <= 15
        /\ m = "RADD" => 16 <= k /\ k <= 27
        /\ m = "RSUB" => k = 22 \/ k = 23
    BY <1>2, <1>3, <1>4, <1>5, SMT
  <2>2. RopAt(w, k)
    BY <1>2, <2>1 DEF RopAt
  <2>3. QED
    BY <2>1, <2>2
<1>7. PICK k \in 0 .. 31 :
         /\ RopAt(w, k)
         /\ m = "SWAP" => k <= 3
         /\ m = "RAND" => 4 <= k /\ k <= 7
         /\ m = "REXO" => 8 <= k /\ k <= 11
         /\ m = "RORA" => 12 <= k /\ k <= 15
         /\ m = "RADD" => 16 <= k /\ k <= 27
         /\ m = "RSUB" => k = 22 \/ k = 23
  BY <1>6
<1>8. /\ m \in {"SWAP", "RAND", "REXO", "RORA"} => Opens(w) = m
      /\ m = "RADD" => Opens(w) \in {"RADD", "RSUB", "EXIT"}
      /\ m = "RSUB" => Opens(w) \in {"RADD", "RSUB"}
  <2>1. w = \o146142 => k = 17
    BY <1>1, <1>7, SMT DEF RopAt
  <2>2. QED
    BY <1>7, <2>1, RopOpens, SMT
<1>9. ASSUME m \in {"SWAP", "RAND", "REXO", "RORA"}
      PROVE  ListedAs(m) = {m}
  <2>1. m \in DOMAIN StageOf
    BY StageNames, Zenon
  <2>2. m \notin DOMAIN AliasOp \cup {"COPY", "RADD", "RSUB", "HALT"}
    BY <1>9, SMT DEF AliasOp
  <2>3. QED
    BY <2>1, <2>2, ListedNames, Zenon
<1>10. QED
  BY <1>4, <1>8, <1>9, ListedNames, SMT

(* 0150000-0153777, and the two transfers to a device.                        *)
LEMMA Text150Opens ==
  ASSUME NEW w \in Word
  PROVE  /\ \o151400 <= w /\ w <= \o151777 => Opens(w) = "NLZ"
         /\ \o152000 <= w /\ w <= \o152377 => Opens(w) = "DNZ"
         /\ \o152400 <= w /\ w <= \o152577 => Opens(w) = "SRB"
         /\ \o152600 <= w /\ w <= \o152777 => Opens(w) = "LRB"
         /\ \o153000 <= w /\ w <= \o153377 => Opens(w) = "MON"
         /\ \o153400 <= w /\ w <= \o153577 => Opens(w) = "IRW"
         /\ \o153600 <= w /\ w <= \o153777 => Opens(w) = "IRR"
         /\ w = \o151000 => Opens(w) = "WAIT"
         /\ \A m \in DOMAIN IntOp : IntOp[m] <= w /\ w <= IntOp[m] + 15 => Opens(w) = m
<1>1. w \in Nat
  BY WordParts
<1>2. \o150000 <= w /\ w <= \o153777 => Top(w) = 26
  BY <1>1, SMT DEF Top
<1>3. (w < \o150400 \/ \o150417 < w) /\ \o150000 <= w => ~Known(Exact, w)
  BY <1>1, ExactWords, SMT
<1>4. ASSUME \o151000 <= w, w <= \o153777
      PROVE  Opens(w) =
               IF Within(w, \o151000, \o151377) THEN "WAIT"
               ELSE IF Within(w, \o151400, \o151777) THEN "NLZ"
               ELSE IF Within(w, \o152000, \o152377) THEN "DNZ"
               ELSE IF Within(w, \o152400, \o152577) THEN "SRB"
               ELSE IF Within(w, \o152600, \o152777) THEN "LRB"
               ELSE IF Within(w, \o153000, \o153377) THEN "MON"
               ELSE IF Within(w, \o153400, \o153577) THEN "IRW"
               ELSE IF Within(w, \o153600, \o153777) THEN "IRR" ELSE "UNDEF"
  BY <1>1, <1>2, <1>3, <1>4, Opens150, SMT
<1>5. ASSUME NEW m \in DOMAIN IntOp, IntOp[m] <= w, w <= IntOp[m] + 15
      PROVE  Opens(w) = m
  <2> DEFINE names == <<"TRA", "TRR", "MCL", "MST">>
  <2>1. \E k \in 0 .. 3 : IntOp[m] = \o150000 + 64 * k /\ names[k + 1] = m
    BY SMT DEF IntOp
  <2>2. PICK k \in 0 .. 3 : IntOp[m] = \o150000 + 64 * k /\ names[k + 1] = m
    BY <2>1
  <2>3. \o150000 <= w /\ w < \o150400 /\ Field(w, 6, 2) = k
    BY <1>1, <1>5, <2>2, SMT DEF Field
  <2>4. Opens(w) = names[k + 1]
    BY <1>1, <1>2, <1>3, <2>3, Opens150, SMT
  <2>5. QED
    BY <2>2, <2>4
<1>6. QED
  BY <1>1, <1>4, <1>5, SMT DEF Within

LEMMA DeviceOpens ==
  ASSUME NEW w \in Word
  PROVE  /\ \o160000 <= w /\ w <= \o163777 => Opens(w) = "IOT"
         /\ \o164000 <= w /\ w <= \o167777 => Opens(w) = "IOX"
<1>1. w \in Nat
  BY WordParts
<1>2. /\ \o160000 <= w /\ w <= \o163777 => w \div 2048 = 28
      /\ \o164000 <= w /\ w <= \o167777 => w \div 2048 = 29
  BY <1>1, SMT
<1>3. QED
  BY <1>2, OpensTop

LEMMA ShiftOpens ==
  ASSUME NEW w \in Word, NEW m \in DOMAIN ShiftOp, NEW type \in 0 .. 3,
         ShiftOp[m] + 512 * type <= w, w <= ShiftOp[m] + 512 * type + 63
  PROVE  Opens(w) = m
<1> DEFINE names == <<"SHT", "SHD", "SHA", "SAD">>
<1>1. w \in Nat
  BY WordParts
<1>2. \E k \in 0 .. 3 : ShiftOp[m] = \o154000 + 128 * k /\ names[k + 1] = m
  BY SMT DEF ShiftOp
<1>3. PICK k \in 0 .. 3 : ShiftOp[m] = \o154000 + 128 * k /\ names[k + 1] = m
  BY <1>2
<1>4. Top(w) = 27 /\ Field(w, 7, 2) = k
  BY <1>1, <1>3, SMT DEF Top, Field
<1>5. Opens(w) = names[k + 1]
  BY <1>4, OpensShift, SMT
<1>6. QED
  BY <1>3, <1>5

LEMMA BitOpens ==
  ASSUME NEW w \in Word
  PROVE  /\ \A m \in DOMAIN BitOp : BitOp[m] <= w /\ w <= BitOp[m] + 127 => Opens(w) = m
         /\ \A m \in DOMAIN CondBitOp, k \in 0 .. 3 :
              CondBitOp[m] + 128 * k <= w /\ w <= CondBitOp[m] + 128 * k + 127 => Opens(w) = m
<1>1. w \in Nat
  BY WordParts
<1> DEFINE base(i) == \o174000 + 128 * i
<1>2. ASSUME NEW i \in 0 .. 15, base(i) <= w, w <= base(i) + 127
      PROVE  Opens(w) = bop_str[i + 1][1]
  <2>1. Top(w) = 31 /\ Field(w, 7, 4) = i
    BY <1>1, <1>2, SMT DEF Top, Field
  <2>2. QED
    BY <2>1, OpensBit
<1>3. \A m \in DOMAIN BitOp : \E i \in 8 .. 15 : BitOp[m] = base(i) /\ bop_str[i + 1][1] = m
  BY SMT DEF BitOp, bop_str
<1>4. ASSUME NEW m \in DOMAIN BitOp, BitOp[m] <= w, w <= BitOp[m] + 127
      PROVE  Opens(w) = m
  <2>1. PICK i \in 8 .. 15 : BitOp[m] = base(i) /\ bop_str[i + 1][1] = m
    BY <1>3
  <2>2. QED
    BY <1>2, <1>4, <2>1
<1>5. \A m \in DOMAIN CondBitOp, k \in 0 .. 3 :
        \E i \in 0 .. 7 : CondBitOp[m] + 128 * k = base(i) /\ bop_str[i + 1][1] = m
  BY SMT DEF CondBitOp, bop_str
<1>6. ASSUME NEW m \in DOMAIN CondBitOp, NEW k \in 0 .. 3,
             CondBitOp[m] + 128 * k <= w, w <= CondBitOp[m] + 128 * k + 127
      PROVE  Opens(w) = m
  <2>1. PICK i \in 0 .. 7 : CondBitOp[m] + 128 * k = base(i) /\ bop_str[i + 1][1] = m
    BY <1>5
  <2>2. QED
    BY <1>2, <1>6, <2>1
<1>7. QED
  BY <1>4, <1>6

(* The instructions without an operand.  HALT is listed as USER0.             *)
LEMMA FixedOpens ==
  ASSUME NEW m \in DOMAIN FixedOp
  PROVE  FixedOp[m] \in Word /\ Opens(FixedOp[m]) = IF m = "HALT" THEN "USER0" ELSE m
<1> DEFINE w == FixedOp[m]
<1>1. w \in Nat /\ w <= MaxWord
  BY SMT DEF FixedOp, MaxWord
<1>2. w \in Word
  BY <1>1 DEF Word
<1>3. \/ m \in DOMAIN Exact /\ w = Exact[m]
      \/ m \in DOMAIN Exact110 /\ w = Exact110[m]
      \/ m \in DOMAIN Masked /\ w = Masked[m] /\ m # "HALT"
      \/ m = "HALT" /\ w = Masked["USER0"]
      \/ w - \o143300 \in 0 .. 6 /\ m = PhysMem[w - \o143300 + 1]
      \/ m = "WAIT" /\ w = \o151000
  BY SMT DEF FixedOp, Exact, Exact110, Masked, PhysMem
<1>4. /\ \A a, b \in DOMAIN Exact : Exact[a] = Exact[b] => a = b
      /\ \A a, b \in DOMAIN Exact110 : Exact110[a] = Exact110[b] => a = b
      /\ \A a, b \in DOMAIN Masked : Masked[a] = Masked[b] => a = b
  BY SMT DEF Exact, Exact110, Masked
<1>5. ASSUME NEW table, \A a, b \in DOMAIN table : table[a] = table[b] => a = b,
             NEW n \in DOMAIN table, w = table[n]
      PROVE  Known(table, w) /\ Named1(table, w) = n
  BY <1>5, KnownIs, Zenon
<1>6. \o140000 <= w /\ w <= \o143777 => Top(w) = 24
  BY <1>1, SMT DEF Top
<1>7. CASE m \in DOMAIN Exact /\ w = Exact[m]
  <2>1. Known(Exact, w) /\ Named1(Exact, w) = m
    BY <1>4, <1>5, <1>7, Zenon
  <2>2. m # "HALT"
    BY <1>7, SMT DEF Exact
  <2>3. CASE w = \o146142
    <3>1. m = "EXIT"
      <4>1. "EXIT" \in DOMAIN Exact /\ Exact["EXIT"] = \o146142
        BY SMT DEF Exact
      <4>2. Exact[m] = Exact["EXIT"]
        BY <1>7, <2>3, <4>1
      <4>3. QED
        BY <1>4, <1>7, <4>1, <4>2
    <3>2. RopAt(w, 17)
      BY <2>3, SMT DEF RopAt
    <3>3. Opens(w) = "EXIT"
      BY <1>2, <2>3, <3>2, RopOpens, SMT
    <3>4. QED
      BY <1>2, <3>1, <3>3
  <2>4. CASE \o150400 <= w /\ w <= \o150417
    <3>1. Top(w) = 26
      BY <1>1, <2>4, SMT DEF Top
    <3>2. QED
      BY <1>2, <2>1, <2>2, <3>1, Opens150
  <2>5. CASE \/ \o140120 <= w /\ w <= \o140137
             \/ \o140300 <= w /\ w <= \o140304
             \/ w = \o143500
    <3>1. Field(w, 6, 2) # 0 /\ \o140000 <= w /\ w <= \o143777
      BY <1>1, <2>5, SMT DEF Field
    <3>2. QED
      BY <1>2, <1>6, <2>1, <2>2, <3>1, Opens140
  <2>6. QED
    BY <1>1, <2>1, <2>3, <2>4, <2>5, ExactWords, SMT
<1>8. CASE m \in DOMAIN Exact110 /\ w = Exact110[m]
  <2>1. Known(Exact110, w) /\ Named1(Exact110, w) = m
    BY <1>4, <1>5, <1>8, Zenon
  <2>2. m # "HALT"
    BY <1>8, SMT DEF Exact110
  <2>3. w = \o140133 \/ (\o140500 <= w /\ w <= \o140517)
    BY <1>1, <2>1, ExactWords
  <2>4. Field(w, 6, 2) # 0 /\ \o140000 <= w /\ w <= \o143777
    BY <1>1, <2>3, SMT DEF Field
  <2>5. ~Known(Idents, w)
    BY <1>1, <2>3, ExactWords, SMT
  <2>6. ~Known(Exact, w)
    <3>1. \A n \in DOMAIN Exact : Exact[n] # \o140133
      BY SMT DEF Exact
    <3>2. w # \o140133 => ~Known(Exact, w)
      BY <1>1, <2>3, ExactWords, SMT
    <3>3. QED
      BY <3>1, <3>2, KnownIs
  <2>7. QED
    BY <1>2, <1>6, <2>1, <2>2, <2>4, <2>5, <2>6, Opens140
<1>9. ASSUME NEW n \in DOMAIN Masked, w = Masked[n]
      PROVE  Opens(w) = n
  <2>1. Known(Masked, w) /\ Named1(Masked, w) = n
    BY <1>4, <1>5, <1>9, Zenon
  <2>2. \/ w = \o140200 \/ w = \o141100 \/ w = \o141300 \/ w = \o141500
        \/ w = \o141700 \/ w = \o142100 \/ w = \o142200 \/ w = \o142300
        \/ w = \o142500 \/ w = \o142600 \/ w = \o142700 \/ w = \o143100 \/ w = \o143200
    BY <1>9, SMT DEF Masked
  <2>3. /\ Field(w, 6, 2) # 0 /\ \o140000 <= w /\ w <= \o143777
        /\ 64 * (w \div 64) = w /\ w # \o140700
    BY <2>2, SMT DEF Field
  <2>4. ~Known(Exact, w) /\ ~Known(Exact110, w) /\ ~Known(Idents, w)
    BY <1>1, <2>2, ExactWords, SMT
  <2>5. QED
    BY <1>2, <1>6, <2>1, <2>3, <2>4, Opens140
<1>10. CASE w - \o143300 \in 0 .. 6 /\ m = PhysMem[w - \o143300 + 1]
  <2> DEFINE i == w - \o143300
  <2>1. i \in 0 .. 6 /\ w = \o143300 + i
    BY <1>10
  <2> HIDE DEF i
  <2>2. /\ Field(w, 6, 2) = 3 /\ Field(w, 3, 3) = 0 /\ w % 8 = i
        /\ 64 * (w \div 64) = \o143300 /\ Top(w) = 24
    BY <2>1, SMT DEF Field, Top
  <2>3. ~Known(Exact, w) /\ ~Known(Exact110, w) /\ ~Known(Idents, w)
    BY <1>1, <2>1, ExactWords, SMT
  <2>4. ~Known(Masked, \o143300)
    BY ExactWords, SMT
  <2>5. Within(w, \o143300, \o143306)
    BY <2>1, SMT DEF Within
  <2>6. Opens(w) = PhysMem[i + 1]
    BY <1>1, <1>2, <2>2, <2>3, <2>4, <2>5, Opens140, SMT
  <2>7. m # "HALT"
    BY <1>10, SMT DEF PhysMem
  <2>8. QED
    BY <1>2, <1>10, <2>6, <2>7 DEF i
<1>11. CASE m = "WAIT" /\ w = \o151000
  BY <1>2, <1>11, Text150Opens, SMT
<1>12. CASE m \in DOMAIN Masked /\ w = Masked[m] /\ m # "HALT"
  BY <1>2, <1>9, <1>12, Zenon
<1>13. CASE m = "HALT" /\ w = Masked["USER0"]
  <2>1. "USER0" \in DOMAIN Masked
    BY SMT DEF Masked
  <2>2. QED
    BY <1>2, <1>9, <1>13, <2>1, Zenon
<1>14. QED
  BY <1>3, <1>7, <1>8, <1>10, <1>11, <1>12, <1>13

-----------------------------------------------------------------------------
\* What the cascade reads.

LEMMA StageCases ==
  ASSUME NEW p, NEW m
  PROVE
    /\ m \in DOMAIN FixedOp => Stage(m, p) = Done(FixedOp[m])
    /\ m \in DOMAIN MemrefOp => Stage(m, p) = MemrefStage(MemrefOp[m], p)
    /\ m \in DOMAIN CbrOp => Stage(m, p) = Byte(CbrOp[m], p)
    /\ m \in DOMAIN ArgOp => Stage(m, p) = Byte(ArgOp[m], p)
    /\ m = "MON" => Stage(m, p) = Byte(\o153000, p)
    /\ m = "IOX" => Stage(m, p) = (IF IsNum(First(p)) THEN Done(\o164000 + (First(p).n % 2048)) ELSE Lost(p))
    /\ m = "IOT" => Stage(m, p) = (IF IsNum(First(p)) THEN Done(\o160000 + (First(p).n % 2048)) ELSE Lost(p))
    /\ m = "IDENT" => Stage(m, p) = OneReg(0, Lookup(IdentOp, First(p)), p, 1)
    /\ m = "EXR" => Stage(m, p) = OneReg(\o140600, SrcReg(First(p)), p, 8)
    /\ m = "NLZ" => Stage(m, p) = Byte(\o151400, p)
    /\ m = "DNZ" => Stage(m, p) = Byte(\o152000, p)
    /\ m = "IRW" => Stage(m, p) = LevelReg(\o153400, p)
    /\ m = "IRR" => Stage(m, p) = LevelReg(\o153600, p)
    /\ m \in DOMAIN DeltaOp => Stage(m, p) = (IF IsNum(First(p)) THEN Done(DeltaOp[m] + 8 * ((First(p).n \div 8) % 8))
                         ELSE Done(DeltaOp[m]))
    /\ m = "SKP" => Stage(m, p) = (IF First(p).t = "IF" THEN SkpStage(Drop(p, 1)) ELSE Lost(p))
    /\ m \in DOMAIN RegOp => Stage(m, p) = RegopStage(RegOp[m], p)
    /\ m \in DOMAIN AliasOp => Stage(m, p) = OneReg(AliasOp[m], DstReg(First(p)), p, 1)
    /\ m = "COPY" => Stage(m, p) = CopyStage(p)
    /\ m = "RMPY" => Stage(m, p) = SrcDst(\o141200, p)
    /\ m = "RDIV" => Stage(m, p) = OneReg(\o141600, SrcReg(First(p)), p, 8)
    /\ m \in DOMAIN ShiftOp => Stage(m, p) = ShiftStage(ShiftOp[m], p)
    /\ m \in DOMAIN IntOp => Stage(m, p) = IntregStage(m, p)
    /\ m = "SRB" => Stage(m, p) = (IF IsNum(First(p)) THEN Done(\o152400 + Level(First(p).n)) ELSE Lost(p))
    /\ m = "LRB" => Stage(m, p) = (IF IsNum(First(p)) THEN Done(\o152600 + 8 * (First(p).n % 16)) ELSE Lost(p))
    /\ m = "ROP" => Stage(m, p) = (IF First(p).t = "NOOP" THEN Done(\o147700) ELSE Lost(p))
    /\ m \in DOMAIN CondBitOp => Stage(m, p) = (LET cond == Lookup(BitCond, First(p)) IN
                         IF cond = NONE THEN Lost(p)
                         ELSE BitOperand(CondBitOp[m] + 128 * cond, Drop(p, 1)))
    /\ m \in DOMAIN BitOp => Stage(m, p) = BitOperand(BitOp[m], p)
<1> DEFINE d1 == DOMAIN FixedOp
           d2 == DOMAIN MemrefOp
           d3 == DOMAIN CbrOp
           d4 == DOMAIN ArgOp
           d14 == DOMAIN DeltaOp
           d16 == DOMAIN RegOp
           d17 == DOMAIN AliasOp
           d21 == DOMAIN ShiftOp
           d22 == DOMAIN IntOp
           d26 == DOMAIN CondBitOp
           d27 == DOMAIN BitOp
           e1 == Done(FixedOp[m])
           e2 == MemrefStage(MemrefOp[m], p)
           e3 == Byte(CbrOp[m], p)
           e4 == Byte(ArgOp[m], p)
           e5 == Byte(\o153000, p)
           e6 == IF IsNum(First(p)) THEN Done(\o164000 + (First(p).n % 2048)) ELSE Lost(p)
           e7 == IF IsNum(First(p)) THEN Done(\o160000 + (First(p).n % 2048)) ELSE Lost(p)
           e8 == OneReg(0, Lookup(IdentOp, First(p)), p, 1)
           e9 == OneReg(\o140600, SrcReg(First(p)), p, 8)
           e10 == Byte(\o151400, p)
           e11 == Byte(\o152000, p)
           e12 == LevelReg(\o153400, p)
           e13 == LevelReg(\o153600, p)
           e14 == IF IsNum(First(p)) THEN Done(DeltaOp[m] + 8 * ((First(p).n \div 8) % 8))
                    ELSE Done(DeltaOp[m])
           e15 == IF First(p).t = "IF" THEN SkpStage(Drop(p, 1)) ELSE Lost(p)
           e16 == RegopStage(RegOp[m], p)
           e17 == OneReg(AliasOp[m], DstReg(First(p)), p, 1)
           e18 == CopyStage(p)
           e19 == SrcDst(\o141200, p)
           e20 == OneReg(\o141600, SrcReg(First(p)), p, 8)
           e21 == ShiftStage(ShiftOp[m], p)
           e22 == IntregStage(m, p)
           e23 == IF IsNum(First(p)) THEN Done(\o152400 + Level(First(p).n)) ELSE Lost(p)
           e24 == IF IsNum(First(p)) THEN Done(\o152600 + 8 * (First(p).n % 16)) ELSE Lost(p)
           e25 == IF First(p).t = "NOOP" THEN Done(\o147700) ELSE Lost(p)
           e26 == LET cond == Lookup(BitCond, First(p)) IN
                    IF cond = NONE THEN Lost(p)
                    ELSE BitOperand(CondBitOp[m] + 128 * cond, Drop(p, 1))
           e27 == BitOperand(BitOp[m], p)
<1>1. Stage(m, p) =
        CASE m \in d1 -> e1 [] m \in d2 -> e2 [] m \in d3 -> e3 [] m \in d4 -> e4
          [] m = "MON" -> e5 [] m = "IOX" -> e6 [] m = "IOT" -> e7 [] m = "IDENT" -> e8
          [] m = "EXR" -> e9 [] m = "NLZ" -> e10 [] m = "DNZ" -> e11 [] m = "IRW" -> e12
          [] m = "IRR" -> e13 [] m \in d14 -> e14 [] m = "SKP" -> e15 [] m \in d16 -> e16
          [] m \in d17 -> e17 [] m = "COPY" -> e18 [] m = "RMPY" -> e19 [] m = "RDIV" -> e20
          [] m \in d21 -> e21 [] m \in d22 -> e22 [] m = "SRB" -> e23 [] m = "LRB" -> e24
          [] m = "ROP" -> e25 [] m \in d26 -> e26 [] m \in d27 -> e27
  BY DEF Stage, Number
<1> DEFINE names == {"MON", "IOX", "IOT", "IDENT", "EXR", "NLZ", "DNZ", "IRW", "IRR",
               "SKP", "COPY", "RMPY", "RDIV", "SRB", "LRB", "ROP"}
<1>2. m \in d1 => m \notin names /\ m \notin d2 /\ m \notin d3 /\ m \notin d4 /\ m \notin d14 /\ m \notin d16 /\ m \notin d17 /\ m \notin d21 /\ m \notin d22 /\ m \notin d26 /\ m \notin d27
  BY DEF FixedOp, MemrefOp, CbrOp, ArgOp, DeltaOp, RegOp, AliasOp, ShiftOp, IntOp, CondBitOp, BitOp
<1>3. m \in d2 => m \notin names /\ m \notin d3 /\ m \notin d4 /\ m \notin d14 /\ m \notin d16 /\ m \notin d17 /\ m \notin d21 /\ m \notin d22 /\ m \notin d26 /\ m \notin d27
  BY DEF MemrefOp, CbrOp, ArgOp, DeltaOp, RegOp, AliasOp, ShiftOp, IntOp, CondBitOp, BitOp
<1>4. m \in d3 => m \notin names /\ m \notin d4 /\ m \notin d14 /\ m \notin d16 /\ m \notin d17 /\ m \notin d21 /\ m \notin d22 /\ m \notin d26 /\ m \notin d27
  BY DEF CbrOp, ArgOp, DeltaOp, RegOp, AliasOp, ShiftOp, IntOp, CondBitOp, BitOp
<1>5. m \in d4 => m \notin names /\ m \notin d14 /\ m \notin d16 /\ m \notin d17 /\ m \notin d21 /\ m \notin d22 /\ m \notin d26 /\ m \notin d27
  BY DEF ArgOp, DeltaOp, RegOp, AliasOp, ShiftOp, IntOp, CondBitOp, BitOp
<1>6. m \in d14 => m \notin names /\ m \notin d16 /\ m \notin d17 /\ m \notin d21 /\ m \notin d22 /\ m \notin d26 /\ m \notin d27
  BY DEF DeltaOp, RegOp, AliasOp, ShiftOp, IntOp, CondBitOp, BitOp
<1>7. m \in d16 => m \notin names /\ m \notin d17 /\ m \notin d21 /\ m \notin d22 /\ m \notin d26 /\ m \notin d27
  BY DEF RegOp, AliasOp, ShiftOp, IntOp, CondBitOp, BitOp
<1>8. m \in d17 => m \notin names /\ m \notin d21 /\ m \notin d22 /\ m \notin d26 /\ m \notin d27
  BY DEF AliasOp, ShiftOp, IntOp, CondBitOp, BitOp
<1>9. m \in d21 => m \notin names /\ m \notin d22 /\ m \notin d26 /\ m \notin d27
  BY DEF ShiftOp, IntOp, CondBitOp, BitOp
<1>10. m \in d22 => m \notin names /\ m \notin d26 /\ m \notin d27
  BY DEF IntOp, CondBitOp, BitOp
<1>11. m \in d26 => m \notin names /\ m \notin d27
  BY DEF CondBitOp, BitOp
<1>12. m \in d27 => m \notin names
  BY DEF BitOp
<1> HIDE DEF d1, d2, d3, d4, d14, d16, d17, d21, d22, d26, d27,
             e1, e2, e3, e4, e5, e6, e7, e8, e9, e10, e11, e12, e13, e14, e15, e16, e17, e18, e19, e20, e21, e22, e23, e24, e25, e26, e27
<1>13. /\ m \in d1 => Stage(m, p) = e1
       /\ m \in d2 => Stage(m, p) = e2
       /\ m \in d3 => Stage(m, p) = e3
       /\ m \in d4 => Stage(m, p) = e4
       /\ m = "MON" => Stage(m, p) = e5
       /\ m = "IOX" => Stage(m, p) = e6
       /\ m = "IOT" => Stage(m, p) = e7
       /\ m = "IDENT" => Stage(m, p) = e8
       /\ m = "EXR" => Stage(m, p) = e9
       /\ m = "NLZ" => Stage(m, p) = e10
       /\ m = "DNZ" => Stage(m, p) = e11
       /\ m = "IRW" => Stage(m, p) = e12
       /\ m = "IRR" => Stage(m, p) = e13
       /\ m \in d14 => Stage(m, p) = e14
       /\ m = "SKP" => Stage(m, p) = e15
       /\ m \in d16 => Stage(m, p) = e16
       /\ m \in d17 => Stage(m, p) = e17
       /\ m = "COPY" => Stage(m, p) = e18
       /\ m = "RMPY" => Stage(m, p) = e19
       /\ m = "RDIV" => Stage(m, p) = e20
       /\ m \in d21 => Stage(m, p) = e21
       /\ m \in d22 => Stage(m, p) = e22
       /\ m = "SRB" => Stage(m, p) = e23
       /\ m = "LRB" => Stage(m, p) = e24
       /\ m = "ROP" => Stage(m, p) = e25
       /\ m \in d26 => Stage(m, p) = e26
       /\ m \in d27 => Stage(m, p) = e27
  BY <1>1, <1>2, <1>3, <1>4, <1>5, <1>6, <1>7, <1>8, <1>9, <1>10, <1>11, <1>12
<1>14. QED
  BY <1>13 DEF d1, d2, d3, d4, d14, d16, d17, d21, d22, d26, d27,
     e1, e2, e3, e4, e5, e6, e7, e8, e9, e10, e11, e12, e13, e14, e15, e16, e17, e18, e19, e20, e21, e22, e23, e24, e25, e26, e27

(* What a stage leaves: a text of the operand's tokens, and a word, if any,    *)
(* that is listed under a name the mnemonic allows unless its modifiers carry. *)
Reads(r, m, p) ==
  /\ IsText(r.p) /\ Tokens(r.p) \subseteq Tokens(p)
  /\ \/ r.word = NONE
     \/ /\ r.word \in Word
        /\ \/ m \in DOMAIN RegOp /\ CarryInto(m, Tokens(p))
           \/ Opens(r.word) \in ListedAs(m)

Plain(m) == ListedAs(m) = {m}

LEMMA PlainNames ==
  /\ \A m \in DOMAIN FixedOp : m # "HALT" => Plain(m)
  /\ \A m \in DOMAIN MemrefOp : Plain(m)
  /\ \A m \in DOMAIN CbrOp : Plain(m)
  /\ \A m \in DOMAIN ArgOp : Plain(m)
  /\ \A m \in DOMAIN DeltaOp : Plain(m)
  /\ \A m \in DOMAIN ShiftOp : Plain(m)
  /\ \A m \in DOMAIN IntOp : Plain(m)
  /\ \A m \in DOMAIN CondBitOp : Plain(m)
  /\ \A m \in DOMAIN BitOp : Plain(m)
  /\ \A m \in OddNames : m # "COPY" => Plain(m)
<1> DEFINE odd == {"RCLR", "RINC", "RDCR", "COPY", "RADD", "RSUB", "HALT"}
<1>1. DOMAIN AliasOp \cup {"COPY", "RADD", "RSUB", "HALT"} = odd
  BY SMT DEF AliasOp
<1>2. \A m \in DOMAIN StageOf : m \notin odd => Plain(m)
  BY <1>1, ListedNames DEF Plain
<1>3. /\ \A m \in DOMAIN FixedOp : m # "HALT" => m \notin odd
      /\ \A m \in DOMAIN MemrefOp : m \notin odd
      /\ \A m \in DOMAIN CbrOp : m \notin odd
      /\ \A m \in DOMAIN ArgOp : m \notin odd
      /\ \A m \in DOMAIN DeltaOp : m \notin odd
  BY SMT DEF FixedOp, MemrefOp, CbrOp, ArgOp, DeltaOp
<1>4. /\ \A m \in DOMAIN ShiftOp : m \notin odd
      /\ \A m \in DOMAIN IntOp : m \notin odd
      /\ \A m \in DOMAIN CondBitOp : m \notin odd
      /\ \A m \in DOMAIN BitOp : m \notin odd
      /\ \A m \in OddNames : m # "COPY" => m \notin odd
  BY SMT DEF ShiftOp, IntOp, CondBitOp, BitOp, OddNames
<1> HIDE DEF odd
<1>5. QED
  BY <1>2, <1>3, <1>4, StageNames, Zenon

LEMMA GivesReads ==
  ASSUME NEW r, NEW p, NEW m, NEW a, NEW b, b <= MaxWord, b \in Int, Gives(r, p, a, b),
         \A w \in Word : a <= w /\ w <= b => Opens(w) \in ListedAs(m)
  PROVE  Reads(r, m, p)
<1>1. CASE r.word = NONE
  BY <1>1 DEF Gives, Reads
<1>2. CASE r.word \in Nat /\ a <= r.word /\ r.word <= b
  <2> DEFINE v == r.word
  <2>1. v \in Nat /\ a <= v /\ v <= b
    BY <1>2
  <2> HIDE DEF v
  <2>2. v <= MaxWord
    <3>1. MaxWord \in Int
      BY MaxWordInt, SMT
    <3>2. QED
      BY <2>1, <3>1, SMT
  <2>3. v \in Word
    BY <2>1, <2>2, WordIs, Zenon
  <2>4. Opens(v) \in ListedAs(m)
    BY <2>1, <2>3, Zenon
  <2>5. QED
    BY <2>3, <2>4, Zenon DEF Gives, Reads, v
<1>3. QED
  BY <1>1, <1>2 DEF Gives

LEMMA PlainReads ==
  ASSUME NEW r, NEW p, NEW m, Plain(m), NEW a, NEW b, b <= MaxWord, b \in Int,
         Gives(r, p, a, b), \A w \in Word : a <= w /\ w <= b => Opens(w) = m
  PROVE  Reads(r, m, p)
BY GivesReads DEF Plain

LEMMA FixedReads ==
  ASSUME NEW p, IsText(p), NEW m \in DOMAIN FixedOp
  PROVE  Reads(Done(FixedOp[m]), m, p)
<1> DEFINE w == FixedOp[m]
<1>1. w \in Word /\ Opens(w) = IF m = "HALT" THEN "USER0" ELSE m
  BY FixedOpens
<1>2. Opens(w) \in ListedAs(m)
  BY <1>1, PlainNames, ListedNames DEF Plain
<1>3. w \in Nat /\ w <= MaxWord /\ w \in Int
  <2> HIDE DEF w
  <2>1. w \in Nat /\ w <= MaxWord
    BY <1>1, WordIs, Zenon
  <2>2. QED
    BY <2>1, SMT
<1> HIDE DEF w
<1>4. Gives(Done(w), p, w, w)
  BY <1>3, DoneGives
<1>5. \A v \in Word : w <= v /\ v <= w => v = w
  BY <1>3, WordMember
<1>6. Reads(Done(w), m, p)
  BY <1>2, <1>3, <1>4, <1>5, GivesReads
<1>7. QED
  BY <1>6 DEF w

LEMMA MemrefReads ==
  ASSUME NEW p, IsText(p), NEW m \in DOMAIN MemrefOp
  PROVE  Reads(MemrefStage(MemrefOp[m], p), m, p)
<1> DEFINE a == MemrefOp[m]
           b == PageEnd(a)
           r == MemrefStage(a, p)
<1>1. a \in Nat /\ b \in Int /\ b <= MaxWord
  BY SMT DEF MemrefOp, PageEnd, MaxWord
<1>2. Gives(r, p, a, b)
  BY <1>1, MemrefStageGives
<1>3. \A w \in Word : a <= w /\ w <= b => Opens(w) = m
  BY MemrefOpens
<1>4. Plain(m)
  BY PlainNames
<1> HIDE DEF a, b, r
<1>5. Reads(r, m, p)
  BY <1>1, <1>2, <1>3, <1>4, PlainReads
<1>6. QED
  BY <1>5 DEF r, a

(* The stages whose operand is one byte.                                      *)
LEMMA ByteReads ==
  ASSUME NEW p, IsText(p), NEW m, NEW a \in Nat, Plain(m), a + 255 <= MaxWord,
         \A w \in Word : a <= w /\ w <= a + 255 => Opens(w) = m
  PROVE  Reads(Byte(a, p), m, p)
<1> DEFINE b == a + 255
           r == Byte(a, p)
<1>1. Gives(r, p, a, b)
  BY ByteGives
<1>2. b <= MaxWord /\ b \in Int /\ \A w \in Word : a <= w /\ w <= b => Opens(w) = m
  OBVIOUS
<1> HIDE DEF b, r
<1>3. Reads(r, m, p)
  BY <1>1, <1>2, PlainReads
<1>4. QED
  BY <1>3 DEF r

(* Register operations, whose modifiers may carry into the opcode.            *)
LEMMA RegopReads ==
  ASSUME NEW p, IsText(p), NEW m \in DOMAIN RegOp
  PROVE  Reads(RegopStage(RegOp[m], p), m, p)
<1> DEFINE base == RegOp[m]
           r == RegopStage(base, p)
<1>1. base \in Nat /\ base + 1023 <= MaxWord
  BY SMT DEF RegOp, MaxWord
<1>2. \E cld, cm1, ad1, adc : RegopGives(r, p, base, cld, cm1, ad1, adc)
  BY <1>1, RegopStageGives
<1>3. PICK cld, cm1, ad1, adc : RegopGives(r, p, base, cld, cm1, ad1, adc)
  BY <1>2
<1>4. IsText(r.p) /\ Tokens(r.p) \subseteq Tokens(p)
  BY <1>3 DEF RegopGives, Gives
<1>5. \/ r.word = NONE
      \/ r.word \in Nat /\ r.word <= MaxWord
  BY <1>1, <1>3, MaxWordInt, SMT DEF RegopGives, Gives
<1>6. r.word = NONE \/ r.word \in Word
  BY <1>5, WordIs, Zenon
<1>7. ASSUME r.word \in Word, ~CarryInto(m, Tokens(p))
      PROVE  Opens(r.word) \in ListedAs(m)
  BY <1>3, <1>7, RegopOpens, Zenon
<1> HIDE DEF r, base
<1>8. Reads(r, m, p)
  BY <1>4, <1>6, <1>7, Zenon DEF Reads
<1>9. QED
  BY <1>8 DEF r, base

(* RCLR, RINC, RDCR and COPY are listed as what they stand for.               *)
LEMMA AliasReads ==
  ASSUME NEW p, IsText(p)
  PROVE  /\ \A m \in DOMAIN AliasOp : Reads(OneReg(AliasOp[m], DstReg(First(p)), p, 1), m, p)
         /\ Reads(CopyStage(p), "COPY", p)
<1>1. ASSUME NEW m \in DOMAIN AliasOp
      PROVE  Reads(OneReg(AliasOp[m], DstReg(First(p)), p, 1), m, p)
  <2> DEFINE a == AliasOp[m]
             b == a + 7 * 1
             reg == DstReg(First(p))
             r == OneReg(a, reg, p, 1)
  <2>1. a \in Nat /\ a + 7 * 1 <= MaxWord /\ 1 \in Nat
    BY SMT DEF AliasOp, MaxWord
  <2>2. reg = NONE \/ reg \in 0 .. 7
    BY Registers
  <2> HIDE DEF a, reg
  <2>3. Gives(r, p, a, b)
    BY <2>1, <2>2, OneRegGives
  <2>4. \A w \in Word : a <= w /\ w <= b => Opens(w) \in ListedAs(m)
    <3>1. b = a + 7 /\ ListedAs(m) = {"RADD"}
      BY <2>1, ListedNames
    <3> HIDE DEF b
    <3>2. \A w \in Word : a <= w /\ w <= b => Opens(w) = "RADD"
      BY <3>1, AliasOpens DEF a
    <3>3. QED
      BY <3>1, <3>2
  <2>5. b \in Int /\ b <= MaxWord
    BY <2>1
  <2> HIDE DEF b, r
  <2>6. Reads(r, m, p)
    BY <2>3, <2>4, <2>5, GivesReads
  <2>7. QED
    BY <2>6 DEF r, a, reg
<1>2. Reads(CopyStage(p), "COPY", p)
  <2> DEFINE a == \o146100
             b == \o146177
             r == CopyStage(p)
  <2>1. Gives(r, p, a, b)
    BY CopyStageGives
  <2>2. \A w \in Word : a <= w /\ w <= b => Opens(w) \in ListedAs("COPY")
    BY AliasOpens, ListedNames, SMT
  <2>3. b \in Int /\ b <= MaxWord
    BY MaxWordInt, SMT
  <2> HIDE DEF a, b, r
  <2>4. Reads(r, "COPY", p)
    BY <2>1, <2>2, <2>3, GivesReads
  <2>5. QED
    BY <2>4 DEF r
<1>3. QED
  BY <1>1, <1>2

LEMMA ShiftReads ==
  ASSUME NEW p, IsText(p), NEW m \in DOMAIN ShiftOp
  PROVE  Reads(ShiftStage(ShiftOp[m], p), m, p)
<1> DEFINE base == ShiftOp[m]
           r == ShiftStage(base, p)
<1>1. base \in Nat /\ base + 2047 <= MaxWord
  BY SMT DEF ShiftOp, MaxWord
<1>2. \E type \in 0 .. 3 : Gives(r, p, base + 512 * type, base + 512 * type + 63)
  BY <1>1, ShiftStageGives
<1>3. PICK type \in 0 .. 3 : Gives(r, p, base + 512 * type, base + 512 * type + 63)
  BY <1>2
<1> DEFINE a == base + 512 * type
           b == a + 63
<1>4. b \in Int /\ b <= MaxWord
  BY <1>1, MaxWordInt, SMT
<1>5. \A w \in Word : a <= w /\ w <= b => Opens(w) = m
  BY ShiftOpens, SMT
<1>6. Plain(m)
  BY PlainNames
<1>7. Gives(r, p, a, b)
  BY <1>3
<1> HIDE DEF base, r, a, b
<1>8. Reads(r, m, p)
  BY <1>4, <1>5, <1>6, <1>7, PlainReads
<1>9. QED
  BY <1>8 DEF r, base

LEMMA IntregReads ==
  ASSUME NEW p, IsText(p), NEW m \in DOMAIN IntOp
  PROVE  Reads(IntregStage(m, p), m, p)
<1> DEFINE a == IntOp[m]
           b == a + 15
           r == IntregStage(m, p)
<1>1. a \in Nat /\ b \in Int /\ b <= MaxWord
  BY SMT DEF IntOp, MaxWord
<1>2. Gives(r, p, a, b)
  BY IntregStageGives
<1>3. \A w \in Word : a <= w /\ w <= b => Opens(w) = m
  BY Text150Opens, SMT
<1>4. Plain(m)
  BY PlainNames
<1> HIDE DEF a, b, r
<1>5. Reads(r, m, p)
  BY <1>1, <1>2, <1>3, <1>4, PlainReads
<1>6. QED
  BY <1>5 DEF r, a

(* The bit operations.                                                        *)
LEMMA BitReads ==
  ASSUME NEW p, IsText(p)
  PROVE  /\ \A m \in DOMAIN BitOp : Reads(BitOperand(BitOp[m], p), m, p)
         /\ \A m \in DOMAIN CondBitOp :
              Reads(LET cond == Lookup(BitCond, First(p)) IN
                    IF cond = NONE THEN Lost(p)
                    ELSE BitOperand(CondBitOp[m] + 128 * cond, Drop(p, 1)), m, p)
<1>1. ASSUME NEW q, IsText(q), NEW a \in Nat, NEW m, Plain(m), a + 127 <= MaxWord,
             \A w \in Word : a <= w /\ w <= a + 127 => Opens(w) = m
      PROVE  Reads(BitOperand(a, q), m, q)
  <2> DEFINE b == a + 127
             r == BitOperand(a, q)
  <2>1. Gives(r, q, a, b)
    BY <1>1, BitOperandGives
  <2>2. b \in Int /\ b <= MaxWord /\ \A w \in Word : a <= w /\ w <= b => Opens(w) = m
    BY <1>1
  <2> HIDE DEF b, r
  <2>3. Reads(r, m, q)
    BY <1>1, <2>1, <2>2, PlainReads
  <2>4. QED
    BY <2>3 DEF r
<1>2. ASSUME NEW m \in DOMAIN BitOp
      PROVE  Reads(BitOperand(BitOp[m], p), m, p)
  <2>1. BitOp[m] \in Nat /\ BitOp[m] + 127 <= MaxWord
    BY SMT DEF BitOp, MaxWord
  <2>2. \A w \in Word : BitOp[m] <= w /\ w <= BitOp[m] + 127 => Opens(w) = m
    BY BitOpens
  <2>3. QED
    BY <1>1, <2>1, <2>2, PlainNames
<1>3. ASSUME NEW m \in DOMAIN CondBitOp
      PROVE  Reads(LET cond == Lookup(BitCond, First(p)) IN
                   IF cond = NONE THEN Lost(p)
                   ELSE BitOperand(CondBitOp[m] + 128 * cond, Drop(p, 1)), m, p)
  <2> DEFINE cond == Lookup(BitCond, First(p))
             a == CondBitOp[m] + 128 * cond
             q == Drop(p, 1)
             r == BitOperand(a, q)
  <2> SUFFICES Reads(IF cond = NONE THEN Lost(p) ELSE r, m, p)
    OBVIOUS
  <2>1. cond = NONE \/ cond \in 0 .. 3
    BY Registers
  <2>2. CASE cond = NONE
    <3>1. Gives(Lost(p), p, 0, 0) /\ Lost(p).word = NONE
      BY LostGives DEF Lost
    <3>2. Reads(Lost(p), m, p)
      BY <3>1, Zenon DEF Gives, Reads
    <3>3. QED
      BY <2>2, <3>2
  <2>3. CASE cond \in 0 .. 3
    <3> HIDE DEF cond
    <3>1. a \in Nat /\ a + 127 <= MaxWord /\ cond # NONE
      BY <2>3, SMT DEF CondBitOp, MaxWord, NONE
    <3>2. \A w \in Word : a <= w /\ w <= a + 127 => Opens(w) = m
      BY <2>3, BitOpens
    <3>3. 1 \in Nat
      OBVIOUS
    <3>4. IsText(q) /\ Tokens(q) \subseteq Tokens(p)
      BY <3>3, DropTokens, Zenon
    <3> HIDE DEF a, q
    <3>5. Reads(r, m, q)
      BY <1>1, <3>1, <3>2, <3>4, PlainNames
    <3> HIDE DEF r
    <3>6. m \notin DOMAIN RegOp
      BY SMT DEF CondBitOp, RegOp
    <3>7. Reads(r, m, p)
      BY <3>4, <3>5, <3>6, Zenon DEF Reads
    <3>8. QED
      BY <3>1, <3>7
  <2>4. QED
    BY <2>1, <2>2, <2>3
<1>4. QED
  BY <1>2, <1>3

(* The stages that are one mnemonic each.                                     *)
LEMMA LostReads ==
  ASSUME NEW p, IsText(p), NEW m
  PROVE  Reads(Lost(p), m, p) /\ Reads(Lost(Drop(p, 1)), m, p)
<1>1. 1 \in Nat
  OBVIOUS
<1>2. Gives(Lost(p), p, 0, 0) /\ Gives(Lost(Drop(p, 1)), p, 0, 0)
  BY <1>1, LostGives, Zenon
<1>3. Lost(p).word = NONE /\ Lost(Drop(p, 1)).word = NONE
  BY DEF Lost
<1>4. QED
  BY <1>2, <1>3, Zenon DEF Gives, Reads

LEMMA NumberReads ==
  ASSUME NEW p, IsText(p), NEW m, Plain(m), NEW v \in Nat, v <= MaxWord,
         \A w \in Word : w = v => Opens(w) = m
  PROVE  Reads(Done(v), m, p)
<1>1. v \in Int /\ v <= v
  OBVIOUS
<1>2. Gives(Done(v), p, v, v)
  BY <1>1, DoneGives
<1>3. \A w \in Word : v <= w /\ w <= v => Opens(w) = m
  BY <1>1, WordParts
<1>4. QED
  BY <1>1, <1>2, <1>3, PlainReads

LEMMA OneRegReads ==
  ASSUME NEW p, IsText(p), NEW tok
  PROVE  /\ Reads(OneReg(0, Lookup(IdentOp, tok), p, 1), "IDENT", p)
         /\ Reads(OneReg(\o140600, SrcReg(tok), p, 8), "EXR", p)
         /\ Reads(OneReg(\o141600, SrcReg(tok), p, 8), "RDIV", p)
<1>1. Plain("IDENT") /\ Plain("EXR") /\ Plain("RDIV")
  BY PlainNames, SMT DEF OddNames
<1>2. ASSUME NEW a, NEW m, Plain(m), a \in {\o140600, \o141600},
             \A w \in Word : a <= w /\ w <= a + 63 => Opens(w) = m
      PROVE  Reads(OneReg(a, SrcReg(tok), p, 8), m, p)
  <2> DEFINE reg == SrcReg(tok)
             b == a + 7 * 8
             r == OneReg(a, reg, p, 8)
  <2>1. a \in Nat /\ a + 7 * 8 <= MaxWord /\ 8 \in Nat
    BY <1>2, SMT DEF MaxWord
  <2>2. reg = NONE \/ reg \in 0 .. 7
    BY Registers
  <2> HIDE DEF reg
  <2>3. Gives(r, p, a, b)
    BY <2>1, <2>2, OneRegGives
  <2>4. b \in Int /\ b <= MaxWord /\ \A w \in Word : a <= w /\ w <= b => Opens(w) = m
    BY <1>2, <2>1, WordParts
  <2> HIDE DEF b, r
  <2>5. Reads(r, m, p)
    BY <1>2, <2>3, <2>4, PlainReads
  <2>6. QED
    BY <2>5 DEF r, reg
<1>3. /\ \A w \in Word : \o140600 <= w /\ w <= \o140600 + 63 => Opens(w) = "EXR"
      /\ \A w \in Word : \o141600 <= w /\ w <= \o141600 + 63 => Opens(w) = "RDIV"
  BY MiscOpens, SMT
<1>4. /\ Reads(OneReg(\o140600, SrcReg(tok), p, 8), "EXR", p)
      /\ Reads(OneReg(\o141600, SrcReg(tok), p, 8), "RDIV", p)
  BY <1>1, <1>2, <1>3, SMT
<1>5. Reads(OneReg(0, Lookup(IdentOp, tok), p, 1), "IDENT", p)
  <2> DEFINE reg == Lookup(IdentOp, tok)
             r == OneReg(0, reg, p, 1)
  <2>1. reg = NONE \/ (tok.t \in DOMAIN IdentOp /\ reg = IdentOp[tok.t])
    BY DEF Lookup
  <2>2. CASE reg = NONE
    <3>1. r = Lost(p)
      BY <2>2 DEF OneReg
    <3>2. QED
      BY <3>1, LostReads
  <2>3. CASE tok.t \in DOMAIN IdentOp /\ reg = IdentOp[tok.t]
    <3>1. reg \in Nat /\ reg <= MaxWord /\ reg # NONE
      BY <2>3, SMT DEF IdentOp, MaxWord, NONE
    <3>2. \A w \in Word : w = reg => Opens(w) = "IDENT"
      BY <2>3, MiscOpens
    <3> HIDE DEF reg
    <3>3. r = Done(reg)
      BY <3>1, SMT DEF OneReg
    <3>4. Reads(Done(reg), "IDENT", p)
      BY <1>1, <3>1, <3>2, NumberReads
    <3>5. QED
      BY <3>3, <3>4 DEF reg
  <2>4. QED
    BY <2>1, <2>2, <2>3
<1>6. QED
  BY <1>4, <1>5

LEMMA LevelReads ==
  ASSUME NEW p, IsText(p)
  PROVE  /\ Reads(LevelReg(\o153400, p), "IRW", p)
         /\ Reads(LevelReg(\o153600, p), "IRR", p)
         /\ Reads(SrcDst(\o141200, p), "RMPY", p)
<1>1. Plain("IRW") /\ Plain("IRR") /\ Plain("RMPY")
  BY PlainNames, SMT DEF OddNames
<1>2. /\ \A w \in Word : \o153400 <= w /\ w <= \o153400 + 127 => Opens(w) = "IRW"
      /\ \A w \in Word : \o153600 <= w /\ w <= \o153600 + 127 => Opens(w) = "IRR"
  BY Text150Opens, SMT
<1>3. \A w \in Word : \o141200 <= w /\ w <= \o141200 + 63 => Opens(w) = "RMPY"
  BY MiscOpens, SMT
<1>4. ASSUME NEW a, a \in {\o153400, \o153600}, NEW m, Plain(m),
             \A w \in Word : a <= w /\ w <= a + 127 => Opens(w) = m
      PROVE  Reads(LevelReg(a, p), m, p)
  <2> DEFINE b == a + 127
             r == LevelReg(a, p)
  <2>1. a \in Nat /\ a + 127 <= MaxWord
    BY <1>4, SMT DEF MaxWord
  <2>2. Gives(r, p, a, b)
    BY <2>1, LevelRegGives
  <2>3. b \in Int /\ b <= MaxWord /\ \A w \in Word : a <= w /\ w <= b => Opens(w) = m
    BY <1>4, <2>1
  <2> HIDE DEF b, r
  <2>4. Reads(r, m, p)
    BY <1>4, <2>2, <2>3, PlainReads
  <2>5. QED
    BY <2>4 DEF r
<1>5. Reads(SrcDst(\o141200, p), "RMPY", p)
  <2> DEFINE a == \o141200
             b == a + 63
             r == SrcDst(a, p)
  <2>1. a \in Nat /\ a + 63 <= MaxWord /\ b \in Int /\ b <= MaxWord
    BY SMT DEF MaxWord
  <2>2. Gives(r, p, a, b)
    BY <2>1, SrcDstGives, SMT
  <2>3. \A w \in Word : a <= w /\ w <= b => Opens(w) = "RMPY"
    BY <1>3
  <2> HIDE DEF a, b, r
  <2>4. Reads(r, "RMPY", p)
    BY <1>1, <2>1, <2>2, <2>3, PlainReads
  <2>5. QED
    BY <2>4 DEF r, a
<1>6. QED
  BY <1>1, <1>2, <1>4, <1>5, SMT

LEMMA SkpReads ==
  ASSUME NEW p, IsText(p)
  PROVE  Reads(IF First(p).t = "IF" THEN SkpStage(Drop(p, 1)) ELSE Lost(p), "SKP", p)
<1> DEFINE q == Drop(p, 1)
           r == SkpStage(q)
<1>1. 1 \in Nat
  OBVIOUS
<1>2. IsText(q) /\ Tokens(q) \subseteq Tokens(p)
  BY <1>1, DropTokens, Zenon
<1> HIDE DEF q
<1>3. \E base \in Nat :
        /\ \E k \in 0 .. 7 : base = \o140000 + 256 * k
        /\ Gives(r, q, base, base + 63)
  BY <1>2, SkpStageGives
<1>4. PICK a \in Nat :
        /\ \E k \in 0 .. 7 : a = \o140000 + 256 * k
        /\ Gives(r, q, a, a + 63)
  BY <1>3
<1> DEFINE b == a + 63
<1>5. b \in Int /\ b <= MaxWord
  BY <1>4, SMT DEF MaxWord
<1>6. \A w \in Word : a <= w /\ w <= b => Opens(w) = "SKP"
  BY <1>4, MiscOpens, SMT
<1>7. Plain("SKP")
  BY PlainNames, SMT DEF OddNames
<1>8. Gives(r, q, a, b)
  BY <1>4
<1> HIDE DEF b, r
<1>9. Reads(r, "SKP", q)
  BY <1>5, <1>6, <1>7, <1>8, PlainReads
<1>10. "SKP" \notin DOMAIN RegOp
  BY SMT DEF RegOp
<1>11. Reads(r, "SKP", p)
  BY <1>2, <1>9, <1>10, Zenon DEF Reads
<1>12. QED
  BY <1>11, LostReads DEF r, q

LEMMA NumberStageReads ==
  ASSUME NEW p, IsText(p), IsNum(First(p))
  PROVE  LET n == First(p).n IN
         /\ Reads(Done(\o164000 + (n % 2048)), "IOX", p)
         /\ Reads(Done(\o160000 + (n % 2048)), "IOT", p)
         /\ Reads(Done(\o152400 + Level(n)), "SRB", p)
         /\ Reads(Done(\o152600 + 8 * (n % 16)), "LRB", p)
<1> DEFINE n == First(p).n
           v1 == \o164000 + (n % 2048)
           v2 == \o160000 + (n % 2048)
           v3 == \o152400 + Level(n)
           v4 == \o152600 + 8 * (n % 16)
<1>1. n \in Int
  BY FirstText
<1> HIDE DEF n
<1>2. Level(n) \in Nat /\ Level(n) <= 120
  BY <1>1, SMT DEF Level
<1>3. /\ v1 \in Nat /\ \o164000 <= v1 /\ v1 <= \o167777 /\ v1 <= MaxWord
      /\ v2 \in Nat /\ \o160000 <= v2 /\ v2 <= \o163777 /\ v2 <= MaxWord
      /\ v3 \in Nat /\ \o152400 <= v3 /\ v3 <= \o152577 /\ v3 <= MaxWord
      /\ v4 \in Nat /\ \o152600 <= v4 /\ v4 <= \o152777 /\ v4 <= MaxWord
  BY <1>1, <1>2, SMT DEF MaxWord
<1>4. Plain("IOX") /\ Plain("IOT") /\ Plain("SRB") /\ Plain("LRB")
  BY PlainNames, SMT DEF OddNames
<1> HIDE DEF v1, v2, v3, v4
<1>5. /\ \A w \in Word : w = v1 => Opens(w) = "IOX"
      /\ \A w \in Word : w = v2 => Opens(w) = "IOT"
  BY <1>3, DeviceOpens, SMT
<1>6. /\ \A w \in Word : w = v3 => Opens(w) = "SRB"
      /\ \A w \in Word : w = v4 => Opens(w) = "LRB"
  BY <1>3, Text150Opens, SMT
<1>7. /\ v1 \in Nat /\ v1 <= MaxWord /\ v2 \in Nat /\ v2 <= MaxWord
      /\ v3 \in Nat /\ v3 <= MaxWord /\ v4 \in Nat /\ v4 <= MaxWord
  BY <1>3, SMT
<1>8. /\ Reads(Done(v1), "IOX", p) /\ Reads(Done(v2), "IOT", p)
      /\ Reads(Done(v3), "SRB", p) /\ Reads(Done(v4), "LRB", p)
  BY <1>4, <1>5, <1>6, <1>7, NumberReads, Zenon
<1>9. QED
  BY <1>8 DEF v1, v2, v3, v4, n

LEMMA DeltaReads ==
  ASSUME NEW p, IsText(p), NEW m \in DOMAIN DeltaOp
  PROVE  Reads(IF IsNum(First(p)) THEN Done(DeltaOp[m] + 8 * ((First(p).n \div 8) % 8))
               ELSE Done(DeltaOp[m]), m, p)
<1> DEFINE k == (First(p).n \div 8) % 8
           v == DeltaOp[m]
<1>1. First(p).n \in Int
  BY FirstText
<1>2. k \in 0 .. 7
  BY <1>1, SMT
<1>3. v \in Nat /\ v + 56 <= MaxWord
  BY SMT DEF DeltaOp, MaxWord
<1>4. \A w \in Word : (\E i \in 0 .. 7 : w = v + 8 * i) => Opens(w) = m
  BY MiscOpens, SMT
<1>5. Plain(m)
  BY PlainNames
<1> HIDE DEF k, v
<1>6. ASSUME NEW i \in 0 .. 7
      PROVE  Reads(Done(v + 8 * i), m, p)
  <2> DEFINE u == v + 8 * i
  <2>1. u \in Nat /\ u <= MaxWord
    BY <1>3, MaxWordInt, SMT
  <2>2. \A w \in Word : w = u => Opens(w) = m
    BY <1>4, SMT
  <2> HIDE DEF u
  <2>3. Reads(Done(u), m, p)
    BY <1>5, <2>1, <2>2, NumberReads, Zenon
  <2>4. QED
    BY <2>3 DEF u
<1>7. v + 8 * 0 = v /\ 0 \in 0 .. 7
  BY <1>3, SMT
<1>8. Reads(Done(v), m, p)
  BY <1>6, <1>7
<1>9. Reads(Done(v + 8 * k), m, p)
  BY <1>2, <1>6
<1>10. QED
  BY <1>8, <1>9 DEF v, k

LEMMA RopReads ==
  ASSUME NEW p, IsText(p)
  PROVE  Reads(IF First(p).t = "NOOP" THEN Done(\o147700) ELSE Lost(p), "ROP", p)
<1> DEFINE v == \o147700
<1>1. v \in Nat /\ v <= MaxWord
  BY SMT DEF MaxWord
<1>2. \A w \in Word : w = v => Opens(w) = "ROP"
  BY AliasOpens, SMT
<1>3. Plain("ROP")
  BY PlainNames, SMT DEF OddNames
<1> HIDE DEF v
<1>4. Reads(Done(v), "ROP", p)
  BY <1>1, <1>2, <1>3, NumberReads
<1>5. QED
  BY <1>4, LostReads DEF v

LEMMA BytesRead ==
  ASSUME NEW p, IsText(p)
  PROVE  /\ \A m \in DOMAIN CbrOp : Reads(Byte(CbrOp[m], p), m, p)
         /\ \A m \in DOMAIN ArgOp : Reads(Byte(ArgOp[m], p), m, p)
         /\ Reads(Byte(\o153000, p), "MON", p)
         /\ Reads(Byte(\o151400, p), "NLZ", p)
         /\ Reads(Byte(\o152000, p), "DNZ", p)
<1>1. ASSUME NEW m \in DOMAIN CbrOp
      PROVE  Reads(Byte(CbrOp[m], p), m, p)
  <2>1. CbrOp[m] \in Nat /\ CbrOp[m] + 255 <= MaxWord
    BY SMT DEF CbrOp, MaxWord
  <2>2. \A w \in Word : CbrOp[m] <= w /\ w <= CbrOp[m] + 255 => Opens(w) = m
    BY ByteOpens
  <2>3. QED
    BY <2>1, <2>2, ByteReads, PlainNames
<1>2. ASSUME NEW m \in DOMAIN ArgOp
      PROVE  Reads(Byte(ArgOp[m], p), m, p)
  <2>1. ArgOp[m] \in Nat /\ ArgOp[m] + 255 <= MaxWord
    BY SMT DEF ArgOp, MaxWord
  <2>2. \A w \in Word : ArgOp[m] <= w /\ w <= ArgOp[m] + 255 => Opens(w) = m
    BY ByteOpens
  <2>3. QED
    BY <2>1, <2>2, ByteReads, PlainNames
<1>3. Plain("MON") /\ Plain("NLZ") /\ Plain("DNZ")
  BY PlainNames, SMT DEF OddNames
<1>4. /\ \A w \in Word : \o153000 <= w /\ w <= \o153000 + 255 => Opens(w) = "MON"
      /\ \A w \in Word : \o151400 <= w /\ w <= \o151400 + 255 => Opens(w) = "NLZ"
      /\ \A w \in Word : \o152000 <= w /\ w <= \o152000 + 255 => Opens(w) = "DNZ"
  BY Text150Opens, SMT
<1>5. /\ \o153000 \in Nat /\ \o153000 + 255 <= MaxWord
      /\ \o151400 \in Nat /\ \o151400 + 255 <= MaxWord
      /\ \o152000 \in Nat /\ \o152000 + 255 <= MaxWord
  BY SMT DEF MaxWord
<1>6. /\ Reads(Byte(\o153000, p), "MON", p)
      /\ Reads(Byte(\o151400, p), "NLZ", p)
      /\ Reads(Byte(\o152000, p), "DNZ", p)
  BY <1>3, <1>4, <1>5, ByteReads, SMT
<1>7. QED
  BY <1>1, <1>2, <1>6

(* Whatever stands at the cursor, each stage reads it so.                     *)
LEMMA StageReads ==
  ASSUME NEW p, IsText(p), NEW m \in DOMAIN StageOf
  PROVE  Reads(Stage(m, p), m, p)
<1>1. m \in OddNames => Reads(Stage(m, p), m, p)
  <2>1. Reads(Lost(p), m, p)
    BY LostReads
  <2>2. m = "MON" \/ m = "NLZ" \/ m = "DNZ" => Reads(Stage(m, p), m, p)
    BY BytesRead, StageCases
  <2>3. /\ m = "IOX" => Reads(Stage(m, p), m, p)
        /\ m = "IOT" => Reads(Stage(m, p), m, p)
        /\ m = "SRB" => Reads(Stage(m, p), m, p)
        /\ m = "LRB" => Reads(Stage(m, p), m, p)
    BY <2>1, NumberStageReads, StageCases
  <2>4. m = "IDENT" \/ m = "EXR" \/ m = "RDIV" => Reads(Stage(m, p), m, p)
    BY OneRegReads, StageCases
  <2>5. m = "IRW" \/ m = "IRR" \/ m = "RMPY" => Reads(Stage(m, p), m, p)
    BY LevelReads, StageCases
  <2>6. m = "SKP" => Reads(Stage(m, p), m, p)
    BY SkpReads, StageCases
  <2>7. m = "COPY" => Reads(Stage(m, p), m, p)
    BY AliasReads, StageCases
  <2>8. m = "ROP" => Reads(Stage(m, p), m, p)
    BY RopReads, StageCases
  <2>9. QED
    BY <2>2, <2>3, <2>4, <2>5, <2>6, <2>7, <2>8 DEF OddNames
<1>2. /\ m \in DOMAIN FixedOp => Reads(Stage(m, p), m, p)
      /\ m \in DOMAIN MemrefOp => Reads(Stage(m, p), m, p)
      /\ m \in DOMAIN CbrOp => Reads(Stage(m, p), m, p)
      /\ m \in DOMAIN ArgOp => Reads(Stage(m, p), m, p)
      /\ m \in DOMAIN DeltaOp => Reads(Stage(m, p), m, p)
      /\ m \in DOMAIN RegOp => Reads(Stage(m, p), m, p)
  <2>1. m \in DOMAIN FixedOp => Reads(Stage(m, p), m, p)
    BY FixedReads, StageCases
  <2>2. m \in DOMAIN MemrefOp => Reads(Stage(m, p), m, p)
    BY MemrefReads, StageCases
  <2>3. (m \in DOMAIN CbrOp => Reads(Stage(m, p), m, p)) /\ (m \in DOMAIN ArgOp => Reads(Stage(m, p), m, p))
    BY BytesRead, StageCases
  <2>4. m \in DOMAIN DeltaOp => Reads(Stage(m, p), m, p)
    BY DeltaReads, StageCases
  <2>5. m \in DOMAIN RegOp => Reads(Stage(m, p), m, p)
    BY RegopReads, StageCases
  <2>6. QED
    BY <2>1, <2>2, <2>3, <2>4, <2>5
<1>3. /\ m \in DOMAIN AliasOp => Reads(Stage(m, p), m, p)
      /\ m \in DOMAIN ShiftOp => Reads(Stage(m, p), m, p)
      /\ m \in DOMAIN IntOp => Reads(Stage(m, p), m, p)
      /\ m \in DOMAIN CondBitOp => Reads(Stage(m, p), m, p)
      /\ m \in DOMAIN BitOp => Reads(Stage(m, p), m, p)
  <2>1. m \in DOMAIN AliasOp => Reads(Stage(m, p), m, p)
    BY AliasReads, StageCases
  <2>2. m \in DOMAIN ShiftOp => Reads(Stage(m, p), m, p)
    BY ShiftReads, StageCases
  <2>3. m \in DOMAIN IntOp => Reads(Stage(m, p), m, p)
    BY IntregReads, StageCases
  <2>4. m \in DOMAIN CondBitOp => Reads(Stage(m, p), m, p)
    BY BitReads, StageCases
  <2>5. m \in DOMAIN BitOp => Reads(Stage(m, p), m, p)
    BY BitReads, StageCases
  <2>6. QED
    BY <2>1, <2>2, <2>3, <2>4, <2>5
<1>4. QED
  BY <1>1, <1>2, <1>3, StageNames, Zenon

LEMMA StageNumbers ==
  /\ \A m \in DOMAIN StageOf : StageOf[m] \in Nat
  /\ "" \notin DOMAIN StageOf
<1>1. DOMAIN Stages = 1 .. Len(Stages)
  BY DEF Stages
<1>2. \A m \in DOMAIN StageOf : StageOf[m] \in 1 .. Len(Stages)
  <2> HIDE DEF Stages
  <2>1. StageOf = [m \in UNION Range(Stages) |-> CHOOSE k \in 1 .. Len(Stages) : m \in Stages[k]]
    BY DEF StageOf
  <2>2. \A m \in UNION Range(Stages) : \E k \in 1 .. Len(Stages) : m \in Stages[k]
    BY <1>1 DEF Range
  <2>3. QED
    BY <2>1, <2>2
<1>3. Len(Stages) \in Nat
  BY DEF Stages
<1>4. \A m \in DOMAIN StageOf : StageOf[m] \in Nat
  BY <1>2, <1>3
<1>5. /\ "" \notin DOMAIN FixedOp /\ "" \notin DOMAIN MemrefOp /\ "" \notin DOMAIN CbrOp
      /\ "" \notin DOMAIN ArgOp /\ "" \notin DOMAIN DeltaOp /\ "" \notin DOMAIN RegOp
  BY SMT DEF FixedOp, MemrefOp, CbrOp, ArgOp, DeltaOp, RegOp
<1>6. /\ "" \notin DOMAIN AliasOp /\ "" \notin DOMAIN ShiftOp /\ "" \notin DOMAIN IntOp
      /\ "" \notin DOMAIN CondBitOp /\ "" \notin DOMAIN BitOp /\ "" \notin OddNames
  BY SMT DEF AliasOp, ShiftOp, IntOp, CondBitOp, BitOp, OddNames
<1>7. QED
  BY <1>4, <1>5, <1>6, StageNames, Zenon

(* What holds of the cascade after any number of tries: the tokens left are    *)
(* tokens of the statement, and once a stage has taken its mnemonic only later *)
(* stages may follow; a word found is listed under one of their names.        *)
Fits(w, text) == w \in Word /\ (Carries(text) \/ Opens(w) \in Operation(text))

TriedInv(s, text) ==
  /\ IsText(s.p) /\ Tokens(s.p) \subseteq Names(text)
  /\ \/ s.p = Statement(text) /\ s.word = NONE
     \/ /\ First(text).t \in DOMAIN StageOf
        /\ s.next \in Nat /\ s.next > StageOf[First(text).t]
        /\ s.word = NONE \/ Fits(s.word, text)

LEMMA StatementFirst ==
  ASSUME NEW text, IsText(text)
  PROVE  LET st == Statement(text) IN
         /\ IsText(st) /\ Tokens(st) = Names(text)
         /\ Len(st) > 0 => First(st) = First(text)
<1> DEFINE st == Statement(text)
<1>1. IsText(st) /\ Len(st) <= Len(text) /\ \A i \in 1 .. Len(st) : st[i] = text[i]
  BY StatementText
<1>2. Tokens(st) = Names(text)
  BY DEF Tokens, Names
<1> HIDE DEF st
<1>3. ASSUME Len(st) > 0
      PROVE  First(st) = First(text)
  <2>1. Len(st) \in Nat /\ Len(text) \in Nat
    BY <1>1, TextSeq
  <2>2. st[1] = text[1] /\ Len(text) > 0
    BY <1>1, <1>3, <2>1
  <2>3. QED
    BY <1>1, <1>3, <2>2, FirstIsHead
<1>4. QED
  BY <1>1, <1>2, <1>3 DEF st

(* A mnemonic of the statement, its first or a later stage's, may carry or is  *)
(* among the operations of the line.                                          *)
LEMMA ReadsFit ==
  ASSUME NEW text, IsText(text), NEW r, NEW q, NEW m \in DOMAIN StageOf, Reads(r, m, q),
         Tokens(q) \subseteq Names(text), m \in Names(text),
         First(text).t \in DOMAIN StageOf,
         m = First(text).t \/ StageOf[m] > StageOf[First(text).t]
  PROVE  /\ IsText(r.p) /\ Tokens(r.p) \subseteq Names(text)
         /\ r.word = NONE \/ Fits(r.word, text)
<1>1. IsText(r.p) /\ Tokens(r.p) \subseteq Names(text)
  BY DEF Reads
<1>2. m \in DOMAIN RegOp /\ CarryInto(m, Tokens(q)) => Carries(text)
  <2>1. CarryInto(m, Tokens(q)) => CarryInto(m, Names(text))
    BY DEF CarryInto
  <2>2. QED
    BY <2>1 DEF Carries
<1>3. ListedAs(m) \subseteq Operation(text)
  BY DEF Operation
<1>4. QED
  BY <1>1, <1>2, <1>3, Zenon DEF Reads, Fits

LEMMA TryKeeps ==
  ASSUME NEW text, IsText(text), Len(Statement(text)) > 0, NEW s, TriedInv(s, text)
  PROVE  TriedInv(Try(s), text)
<1> DEFINE st == Statement(text)
           first == First(text).t
           m == First(s.p).t
           q == Drop(s.p, 1)
           r == Stage(m, q)
           goes == s.word = NONE /\ m \in DOMAIN StageOf /\ StageOf[m] >= s.next
           s1 == [p |-> r.p, word |-> r.word, next |-> StageOf[m] + 1]
<1>1. Try(s) = IF goes THEN s1 ELSE s
  BY DEF Try
<1>2. CASE ~goes
  BY <1>1, <1>2
<1>3. CASE goes
  <2>1. IsText(s.p) /\ Tokens(s.p) \subseteq Names(text)
    BY DEF TriedInv
  <2>2. Len(s.p) > 0 /\ m \in Names(text)
    <3>1. Len(s.p) \in Nat
      BY <2>1, TextSeq
    <3>2. s.p = <<>> => m = ""
      BY DEF First, End, Kw
    <3>3. s.p # <<>>
      BY <1>3, <3>2, StageNumbers
    <3>4. Len(s.p) # 0
      BY <2>1, <3>3, TextSeq
    <3>5. First(s.p) = s.p[1] /\ 1 \in 1 .. Len(s.p)
      BY <2>1, <3>1, <3>4, FirstIsHead
    <3>6. m \in Tokens(s.p)
      BY <3>5 DEF Tokens
    <3>7. QED
      BY <2>1, <3>1, <3>4, <3>6
  <2>3. IsText(q) /\ Tokens(q) \subseteq Names(text)
    <3>1. 1 \in Nat
      OBVIOUS
    <3>2. QED
      BY <2>1, <3>1, DropTokens
  <2>4. Reads(r, m, q)
    BY <1>3, <2>3, StageReads
  <2>5. first \in DOMAIN StageOf /\ (m = first \/ StageOf[m] > StageOf[first])
    <3>1. CASE s.p = st /\ s.word = NONE
      BY <1>3, <3>1, StatementFirst
    <3>2. CASE first \in DOMAIN StageOf /\ s.next \in Nat /\ s.next > StageOf[first]
      <4>1. StageOf[first] \in Nat /\ StageOf[m] \in Nat
        BY <1>3, <3>2, StageNumbers, Zenon
      <4>2. StageOf[m] >= s.next
        BY <1>3, Zenon
      <4> DEFINE i == StageOf[m]
                 j == StageOf[first]
      <4> HIDE DEF m, first
      <4>3. i \in Nat /\ j \in Nat /\ i >= s.next /\ s.next > j /\ s.next \in Nat
        BY <3>2, <4>1, <4>2
      <4> HIDE DEF i, j
      <4>4. i > j
        BY <4>3
      <4>5. QED
        BY <3>2, <4>4 DEF i, j
    <3>3. QED
      BY <3>1, <3>2 DEF TriedInv
  <2> HIDE DEF m, q, r, first
  <2>6. /\ IsText(r.p) /\ Tokens(r.p) \subseteq Names(text)
        /\ r.word = NONE \/ Fits(r.word, text)
    BY <1>3, <2>2, <2>3, <2>4, <2>5, ReadsFit DEF first
  <2>7. StageOf[m] + 1 \in Nat /\ StageOf[m] + 1 > StageOf[first]
    <3> DEFINE i == StageOf[m]
               j == StageOf[first]
    <3>1. i \in Nat /\ j \in Nat
      BY <1>3, <2>5, StageNumbers, Zenon
    <3>2. i = j \/ i > j
      BY <2>5, Zenon
    <3> HIDE DEF i, j
    <3>3. i + 1 \in Nat /\ i + 1 > j
      BY <3>1, <3>2
    <3>4. QED
      BY <3>3 DEF i, j
  <2>8. s1.p = r.p /\ s1.word = r.word /\ s1.next = StageOf[m] + 1
    OBVIOUS
  <2> HIDE DEF s1
  <2>9. TriedInv(s1, text)
    BY <2>5, <2>6, <2>7, <2>8 DEF TriedInv, first
  <2>10. QED
    BY <1>1, <1>3, <2>9
<1>4. QED
  BY <1>2, <1>3

(* assemble gives a word of sixteen bits or none, and one listed under a name  *)
(* the line allows.                                                           *)
LEMMA EncodeFits ==
  ASSUME NEW text, IsText(text)
  PROVE  Encode(text) = NONE \/ Fits(Encode(text), text)
<1> DEFINE st == Statement(text)
           tried == Tried(text)
           T == {k \in Nat : k <= Len(st) => TriedInv(tried[k], text)}
<1>1. IsText(st) /\ Tokens(st) = Names(text) /\ Len(st) \in Nat
  BY StatementFirst, TextSeq
<1>2. /\ tried[0] = [p |-> st, word |-> NONE, next |-> 1]
      /\ \A k \in 0 .. Len(st) - 1 : tried[k + 1] = Try(tried[k])
  BY TriedSteps
<1>3. Encode(text) = tried[Len(st)].word
  BY DEF Encode
<1>4. TriedInv(tried[0], text)
  <2>1. tried[0].p = st /\ tried[0].word = NONE
    BY <1>2
  <2>2. QED
    BY <1>1, <2>1 DEF TriedInv
<1> HIDE DEF tried, st
<1>5. ASSUME NEW k \in T
      PROVE  k + 1 \in T
  <2>1. CASE k + 1 <= Len(st)
    <3>1. k \in 0 .. Len(st) - 1 /\ Len(st) > 0
      BY <1>1, <2>1
    <3>2. TriedInv(tried[k], text)
      BY <1>1, <2>1
    <3>3. tried[k + 1] = Try(tried[k])
      BY <1>2, <3>1
    <3>4. TriedInv(tried[k + 1], text)
      BY <3>1, <3>2, <3>3, TryKeeps DEF st
    <3>5. QED
      BY <3>4
  <2>2. QED
    BY <2>1
<1>6. Len(st) \in T
  <2>1. T \subseteq Nat /\ 0 \in T
    BY <1>4
  <2>2. T = Nat
    BY <1>5, <2>1, SetInduction
  <2>3. QED
    BY <1>1, <2>2
<1>7. TriedInv(tried[Len(st)], text)
  BY <1>1, <1>6
<1>8. QED
  BY <1>3, <1>7 DEF TriedInv

-----------------------------------------------------------------------------
\* The plugin in its host.

BytesOK(b) == b \in Seq(0 .. 255) /\ Len(b) <= 2

LEMMA BytesTyped ==
  /\ BytesOK(<<>>)
  /\ \A w \in Word : BytesOK(<<w % 256>>)
  /\ \A w \in Word, big \in BOOLEAN : BytesOK(ToBytes(w, big))
  /\ \A b, c : \A big \in BOOLEAN : BytesOK(b) => IsText(Listing(b, big, c))
<1>1. BytesOK(<<>>)
  BY DEF BytesOK
<1>2. ASSUME NEW w \in Word
      PROVE  BytesOK(<<w % 256>>)
  <2> DEFINE S == 0 .. 255
             x == w % 256
  <2>1. x \in S
    BY WordParts
  <2> HIDE DEF S, x
  <2>2. <<x>> \in Seq(S) /\ Len(<<x>>) <= 2
    BY <2>1
  <2>3. QED
    BY <2>2, Zenon DEF BytesOK, S, x
<1>3. ASSUME NEW w \in Word, NEW big \in BOOLEAN
      PROVE  BytesOK(ToBytes(w, big))
  <2> DEFINE b == ToBytes(w, big)
  <2>1. b \in Seq(0 .. 255) /\ Len(b) = 2
    BY ToBytesType
  <2> HIDE DEF b
  <2>2. Len(b) <= 2
    BY <2>1, SMT
  <2>3. QED
    BY <2>1, <2>2 DEF BytesOK, b
<1>4. ASSUME NEW b, NEW c, NEW big \in BOOLEAN, BytesOK(b)
      PROVE  IsText(Listing(b, big, c))
  BY <1>4, ListingText DEF BytesOK
<1>5. QED
  BY <1>1, <1>2, <1>3, <1>4

(* What was written is two bytes, a word the line fits, in the order in force. *)
Written ==
  outcome = "written" => Len(bytes) = 2 /\ Fits(FromBytes(bytes, big_endian), line)

Typing ==
  /\ BytesOK(bytes) /\ big_endian \in BOOLEAN /\ cpu \in Cpus /\ IsText(line)
  /\ origin.how \in {"none", "listed", "typed"} /\ origin.cpu \in Cpus
  /\ outcome \in {"none", "read", "written", "refused"}
  /\ line # <<>> => origin.how # "none"

IInv == Typing /\ Written

LEMMA TypingIs == Typing <=> TypeOK
BY DEF Typing, TypeOK, BytesOK

LEMMA OriginFields ==
  /\ NoOrigin.how = "none" /\ NoOrigin.cpu \in Cpus
  /\ \A h, c : [how |-> h, cpu |-> c].how = h /\ [how |-> h, cpu |-> c].cpu = c
BY DEF NoOrigin, Cpus

LEMMA InitInv == Init => IInv
BY BytesTyped, EmptyText, OriginFields DEF Init, IInv, Typing, Written

LEMMA SeekInv == IInv /\ Seek => IInv'
<1> SUFFICES ASSUME IInv, Seek PROVE IInv'
  OBVIOUS
<1>1. BytesOK(bytes')
  BY BytesTyped, WordsAssumption DEF IInv, Typing, Seek
<1>2. outcome # "written"
  BY DEF IInv, Written, Seek
<1>3. QED
  BY <1>1, <1>2 DEF IInv, Typing, Written, Seek

LEMMA LeaveInv == IInv /\ Leave => IInv'
BY BytesTyped, EmptyText, OriginFields DEF IInv, Typing, Written, Leave

LEMMA DisassembleInv == IInv /\ Disassemble => IInv'
<1> SUFFICES ASSUME IInv, Disassemble PROVE IInv'
  OBVIOUS
<1>1. IsText(line')
  BY BytesTyped DEF IInv, Typing, Disassemble
<1>2. origin'.how = "listed" /\ origin'.cpu = cpu
  BY OriginFields DEF Disassemble
<1>3. outcome' \in {"read", "refused"}
  BY DEF Disassemble
<1>4. Typing'
  BY <1>1, <1>2, <1>3 DEF IInv, Typing, Disassemble
<1>5. QED
  BY <1>3, <1>4 DEF IInv, Written

LEMMA TypeInv == IInv /\ Type => IInv'
<1> SUFFICES ASSUME IInv, Type PROVE IInv'
  OBVIOUS
<1>1. IsText(line')
  BY TypedAssumption DEF Type
<1>2. origin'.how = "typed" /\ origin'.cpu = cpu
  BY OriginFields DEF Type
<1>3. Typing'
  BY <1>1, <1>2 DEF IInv, Typing, Type
<1>4. outcome' = "none"
  BY DEF Type
<1>5. QED
  BY <1>3, <1>4 DEF IInv, Written

LEMMA AssembleInv == IInv /\ Assemble => IInv'
<1> SUFFICES ASSUME IInv, Assemble PROVE IInv'
  OBVIOUS
<1> DEFINE w == Encode(line)
<1>1. /\ outcome' = IF w = NONE THEN "refused" ELSE "written"
      /\ bytes' = IF w = NONE THEN bytes ELSE ToBytes(w, big_endian)
      /\ UNCHANGED <<big_endian, cpu, line, origin>>
  BY DEF Assemble
<1>2. w = NONE \/ Fits(w, line)
  BY EncodeFits DEF IInv, Typing
<1> HIDE DEF w
<1>3. CASE w = NONE
  <2>1. outcome' = "refused" /\ bytes' = bytes
    BY <1>1, <1>3, Zenon
  <2>2. QED
    BY <1>1, <2>1 DEF IInv, Typing, Written
<1>4. CASE w # NONE
  <2>1. outcome' = "written" /\ bytes' = ToBytes(w, big_endian)
    BY <1>1, <1>4, Zenon
  <2>2. w \in Word /\ Fits(w, line)
    BY <1>2, <1>4 DEF Fits
  <2>3. BytesOK(bytes')
    BY <2>1, <2>2, BytesTyped DEF IInv, Typing
  <2>4. Len(bytes') = 2 /\ FromBytes(bytes', big_endian) = w
    BY <2>1, <2>2, ToBytesType DEF IInv, Typing
  <2>5. Written'
    BY <1>1, <2>2, <2>4 DEF Written
  <2>6. Typing'
    BY <1>1, <2>1, <2>3 DEF IInv, Typing
  <2>7. QED
    BY <2>5, <2>6 DEF IInv
<1>5. QED
  BY <1>3, <1>4

LEMMA ReconfigureInv == IInv /\ Reconfigure => IInv'
<1> SUFFICES ASSUME IInv, Reconfigure PROVE IInv'
  OBVIOUS
<1>1. big_endian' \in BOOLEAN /\ cpu' \in Cpus /\ outcome' = "none" /\ UNCHANGED <<bytes, line, origin>>
  BY DEF IInv, Typing, Reconfigure
<1>2. QED
  BY <1>1 DEF IInv, Typing, Written

LEMMA StutterInv == IInv /\ UNCHANGED vars => IInv'
BY DEF IInv, Typing, Written, vars

(* IInv is inductive.                                                         *)
THEOREM Invariance == Spec => []IInv
<1>1. IInv /\ [Next]_vars => IInv'
  BY SeekInv, LeaveInv, DisassembleInv, TypeInv, AssembleInv, ReconfigureInv, StutterInv
     DEF Next
<1>2. QED
  BY <1>1, InitInv, PTL DEF Spec

(* Type correctness: every line at hand is a text, listed or typed, and every *)
(* byte written is a byte: no operand leaves the sixteen bits of a word.      *)
THEOREM TypeCorrect == Spec => []TypeOK
<1>1. IInv => TypeOK
  BY TypingIs DEF IInv
<1>2. QED
  BY <1>1, Invariance, PTL

(* nd100_is_branch and nd100_branch_offset (756-783) agree with the listing   *)
(* on every word the cursor may meet, whichever sign the build's char has.    *)
THEOREM BranchesCorrect == Spec => []BranchesListed
<1>1. IInv => BranchesListed
  <2> SUFFICES ASSUME IInv, Len(bytes) = 2
               PROVE  LET w == FromBytes(bytes, big_endian)
                          text == nd100_disasm(w, cpu)
                          jump == First(text).t \in {"JMP", "JPL"} \cup Range(CondJumps)
                      IN /\ nd100_is_branch(w) <=> jump
                         /\ jump => (nd100_branch_offset(w) - text[Len(text)].n) % 256 = 0
    BY DEF BranchesListed
  <2> DEFINE w == FromBytes(bytes, big_endian)
             text == nd100_disasm(w, cpu)
             jump == First(text).t \in Branches
  <2>1. w \in Word
    BY FromBytesWord DEF IInv, Typing, BytesOK
  <2>2. nd100_is_branch(w) <=> jump
    BY <2>1, DisasmBranches
  <2>3. ASSUME jump
        PROVE  (nd100_branch_offset(w) - text[Len(text)].n) % 256 = 0
    <3>1. nd100_is_branch(w)
      BY <2>2, <2>3
    <3>2. text[Len(text)] = Offset(w)
      BY <2>1, <3>1, DisasmBranches
    <3>3. (nd100_branch_offset(w) - Offset(w).n) % 256 = 0
      BY <2>1, <3>1, BranchOffset
    <3>4. QED
      BY <3>2, <3>3
  <2>4. QED
    BY <2>2, <2>3 DEF Branches
<1>2. QED
  BY <1>1, Invariance, PTL

(* assemble (247-996): whatever the numbers and registers of a line, and      *)
(* wherever in the cascade it is read, the word written is listed as the      *)
(* operation the line names, unless its modifiers carry.                      *)
THEOREM OperandsConfined == Spec => []OperandsStayInField
<1>1. IInv => OperandsStayInField
  BY DEF IInv, Written, Fits, Opens, OperandsStayInField
<1>2. QED
  BY <1>1, Invariance, PTL
=============================================================================
