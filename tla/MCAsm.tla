------------------------------- MODULE MCAsm -------------------------------
(***************************************************************************)
(* Words and lines for TLC.                                                *)
(***************************************************************************)
EXTENDS AsmProps

\* A few words of each kind, known calls and devices and ND-110 codes.
MCFewWords == {
  0, 8, 127, \o044774, \o047400, \o124012, \o130377, \o134410, \o140133, \o140501,
  \o140713, \o140200, \o141277, \o142277, \o143377, \o143604, \o146142, \o146655,
  \o147400, \o150005, \o150105, \o150317, \o151007, \o152477, \o153050, \o153060,
  \o153455, \o154140, \o157677, \o160010, \o164010, \o164011, \o170377, \o174000,
  \o174100, \o175215, \o177777 }

N(s, ns) == Kws(s) \o [i \in 1 .. Len(ns) |-> Num(ns[i])]

Numbers == {-129, -4, 0, 5, 120, 256, 2049}
OneNumber == DOMAIN MemrefOp \cup DOMAIN CbrOp \cup DOMAIN ArgOp \cup DOMAIN DeltaOp
             \cup {"MON", "IOX", "IOT", "NLZ", "DNZ", "SRB", "LRB"}
Modes == Range(relmode_str)
Behind == {<<"~,B">>, <<"~,X">>, <<"~,B", "~,X">>, <<"~,X", "~,B">>, <<"~,B", ",X">>}

MCTyped ==
  {N(<<m>>, <<n>>) : m \in OneNumber, n \in Numbers}
  \cup {Kws(<<m>>) : m \in DOMAIN FixedOp \cup DOMAIN DeltaOp \cup {"LDA", "JAP", "SHT"}}
  \cup {N(<<"LDA">> \o mode, <<n>>) : mode \in Modes, n \in {-4, 15}}
  \cup {N(<<"LDA">> \o mode, <<n>>) \o Kws(behind)
          : mode \in Modes, behind \in Behind, n \in {-4, 15}}
  \cup {Kws(<<m>> \o mods \o <<"SA", "DX">>)
          : m \in DOMAIN RegOp, mods \in UNION {[1 .. k -> DOMAIN Modifier] : k \in 0 .. 2}}
  \cup {Kws(<<"RADD", "CLD", "SL", "DP">>)}
  \cup {Kws(<<m, r>>) : m \in DOMAIN AliasOp, r \in {"DA", "A", "SA"}}
  \cup {Kws(<<m, s, d>>) : m \in {"COPY", "RMPY", "SWAP"}, s \in {"SL", "B", "DA"},
                           d \in {"DA", "DP", "X", "SA"}}
  \cup {N(<<m>> \o type, <<n>>) : m \in DOMAIN ShiftOp, n \in {0, 4, 32, 70, -1},
          type \in {<<>>, <<"ROT">>, <<"ZIN">>, <<"LIN">>, <<"SHR">>, <<"LIN", "SHR">>}}
  \cup {Kws(<<m, r>>) : m \in DOMAIN IntOp, r \in {"STS", "PCR", "PID", "PEA"}}
  \cup {N(<<m>>, <<n>>) : m \in DOMAIN IntOp, n \in {3, 7, 20}}
  \cup {N(<<m>>, <<n>>) \o Kws(<<"DS">>) : m \in {"IRW", "IRR"} \cup DOMAIN BitOp,
                                           n \in {0, 8, 120, 137}}
  \cup {N(<<m, c>>, <<n>>) \o Kws(<<r>>) : m \in DOMAIN CondBitOp, c \in DOMAIN BitCond,
          n \in {8, 64}, r \in {"DS", "DA"}}
  \cup {Kws(<<"IDENT", "PL12">>), Kws(<<"ROP", "NOOP">>), Kws(<<"EXR", "SA">>),
        Kws(<<"SKP", "IF", "DA", "GRE", "SA">>), Kws(<<"SKP", "IF", "DA", "GRE">>),
        N(<<"LDA", "MON">>, <<5>>), N(<<"MON", "LDA">>, <<5>>),
        Kws(<<"LDA", "I">>), N(<<"LDA">>, <<8>>) \o Kws(<<",B">>)}
=============================================================================
