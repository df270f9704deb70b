----------------------------- MODULE MCAnalysis -----------------------------
(***************************************************************************)
(* Images and registers for TLC.                                           *)
(***************************************************************************)
EXTENDS AnalysisProps

Regs(a, b, x) == [s |-> 0, d |-> 7, p |-> 5, b |-> b, l |-> 4, a |-> a, t |-> 9, x |-> x,
                  pc |-> 0]
MCRegisters == {Regs(0, 1, 0), Regs(1, 0, 1), Regs(40000, 1, 1), Regs(65535, 2, 40001)}

\* Sessions of every combination.
Combined(images, bases, orders, processors, registers, bound) ==
  [words : images, base : bases, big : orders, cpu : processors, reg : registers,
   steps : {bound}]

\* No row of the analysis tells words apart that differ in their last six bits
\* only, but for the words named one by one.
Singled == {Exact[n] : n \in DOMAIN Exact} \cup {Exact110[n] : n \in DOMAIN Exact110}
           \cup {\o140236, \o140237, \hC838}
MCWords == {64 * q + r : q \in 0 .. 1023, r \in {0, 5, 63}} \cup Singled
MCWordImages == {<<w>> : w \in MCWords}
                \cup {<<w, 0, 0, 0, 0, 0, 0>> : w \in {Exact.ENTR, Exact.INIT}}

\* One instruction before three words of memory.
Stepping ==
  {2048 * top + 256 * mode + n : top \in (0 .. 21) \cup {23}, mode \in 0 .. 7,
                                 n \in {0, 1, 2, 255}}
  \cup {2048 * top + 256 * sub + n : top \in {22, 30}, sub \in 0 .. 7, n \in {1, 3, 255}}
  \cup {\hC000 + 256 * cond + 8 * src + dst : cond \in 0 .. 7, src \in {0, 5, 7},
                                              dst \in {0, 2, 5, 7}}
  \cup {\hD000 + 64 * cld + 8 * src + dst : cld \in 0 .. 1, src \in {0, 5, 7},
                                             dst \in {0, 2, 3, 5}}
  \cup {\hCC62, \hC09E, \hD600, \hD605, \hD843, \hD850, \hD860, \hD87E, \hD8C1, \hC05D, \hCC65}
MCStepImages == {<<w, 2, 3, 1>> : w \in Stepping} \cup {<<\h4001, 65535>>}

\* Each word on both processors, at the bottom, in the middle and at the top of the
\* address space; each instruction emulated once, in both byte orders.
MCWordSessions ==
  Combined(MCWordImages, {0, 65536, 131058}, {TRUE}, Cpus, {Regs(0, 0, 0)}, 0)
  \cup Combined(MCStepImages, {0}, BOOLEAN, {"nd100"}, MCRegisters, 1)

\* SAA 1; JAF -1; JPL 2; EXIT; SKP IF DA EQL 0; ENTR
Alphabet == {\hF101, \hB3FF, \hB802, \hCC62, \hC005, \hC05D}
Programs ==
  {
    \* a loop that counts down, with a call in it
    <<\hF102, \hB804, \hF5FF, \hB3FE, \hA800, \hF205, \hCC62>>,
    \* INIT with its operands, a JMP as the error return, and a frame below
    <<\hC05C, 0, 1, 2, 3, 4, \hA802, \hC05D, 8, \hCC62, \hF101, \hCC62>>,
    \* a pattern in the operands of ENTR and one between routines
    <<\hB803, \hC05D, \hC838, \hF101, \hC838, \hF102, \hCC62>>,
    \* a program that stores over itself, through memory, and skips
    <<\h0803, \h4005, \hF101, \h0000, \hBA05, 1>>,
    <<\hD600, \hF101, \hAA03, 2>>, <<\hD601, \hBC01, \hFA05, \hD10D, \hC050, \hE800>> }
MCProgramSessions ==
  Combined([1 .. 4 -> Alphabet], {0}, BOOLEAN, {"nd100"}, {Regs(0, 0, 1)}, 5)
  \cup Combined(Programs, {0, 4096}, BOOLEAN, {"nd100"}, {Regs(0, 0, 1)}, 5)

MCSessions == MCWordSessions \cup MCProgramSessions

MCFindings ==
  Combined({<<w>> : w \in {\hD300, \hD400, \hD500, \hC05E, \hC05F, \hCFC0, \hD000, \hD0CF}},
           {0}, {TRUE}, {"nd100"}, {Regs(0, 0, 0)}, 0)
\* TRR IIE, and MIN of 65535.
MCCommented ==
  Combined({<<\hD045>>, <<\h4001, 65535>>}, {0}, {TRUE}, {"nd100"}, {Regs(1, 0, 0)}, 1)
MCPatterns ==
  Combined({<<\hC838>>, <<\hCC65>>, <<\hC05D, 0>>}, {0}, {TRUE}, {"nd100"},
           {Regs(0, 0, 0)}, 0)
=============================================================================
