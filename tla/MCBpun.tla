------------------------------- MODULE MCBpun -------------------------------
(***************************************************************************)
(* Files for TLC: every short preamble over the characters the parser      *)
(* tells apart, each followed by every kind of header; and a few whole     *)
(* tapes with NUL padding, parity bits and long numbers.                   *)
(***************************************************************************)
EXTENDS BpunProps

\* '0' '2' '8' '/' CR, '/' with its parity bit, and LF.
Alphabet == {48, 50, 56, 47, 13, 175, 10}

Preambles(n) == UNION {[1 .. k -> Alphabet] : k \in 0 .. n}

Tails == {
  <<33, 0, 2, 0, 2, 0, 9, 0, 9>>,      \* address 2, count 2, two words
  <<33, 0, 0, 0, 0, 0, 0, 3>>,         \* FloMon, count 3
  <<33, 0, 0, 0, 0, 0, 0>>,            \* FloMon without a count byte
  <<33, 0, 0, 0, 0, 0, 1>>,            \* no data
  <<33, 0, 0, 0, 0>>,
  <<33, 2, 0>>,                        \* no header
  <<>> }                               \* no '!'

ShortFiles(n) == {p \o t : p \in Preambles(n), t \in Tails}

MCFiles5 == ShortFiles(5)
MCFiles3 == ShortFiles(3)

\* The text 200004/: a number of more than 16 bits.
Wide == <<50, 48, 48, 48, 48, 52, 47>>
Zeros(n) == [i \in 1 .. n |-> 0]
Sevens(n) == [i \in 1 .. n |-> 55]

Section == <<0, 2, 0, 2, 0, 9, 0, 9, 0, 18, 0, 0>>

Tapes == {
  Zeros(12) \o Wide \o <<141, 10, 177, 33>> \o Section,
  Sevens(12) \o <<47, 50, 13, 51, 33>> \o Section \o Section,
  <<50, 47, 13, 51, 33, 0, 0, 0, 0, 0, 0, 2>> \o [i \in 1 .. 8 |-> i],
  Zeros(20) \o <<50, 47, 33>> \o Section,
  Zeros(260) \o <<50, 47, 33>> \o Section,
  <<9, 50, 47, 33>> \o Section,
  <<52, 47, 49, 48, 33, 255, 255, 255, 255, 0, 1>> }

MCTapes == Tapes \cup ShortFiles(2)
==============================================================================
