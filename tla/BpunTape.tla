------------------------------ MODULE BpunTape ------------------------------
(***************************************************************************)
(* What tells a BPUN tape from another file: the characters of its         *)
(* preamble, and bpun_check_buffer of src/rz_bin_bpun.c, which the host    *)
(* asks about every file, other plugins' files included.                   *)
(***************************************************************************)
EXTENDS Integers, Sequences

\* The characters bpun_parse and bpun_check_buffer tell apart.
NUL == 0    LF == 10    CR == 13    SPACE == 32
BANG == 33  SLASH == 47
Digits == 48 .. 57
OctalDigits == 48 .. 55

Char(b) == b % 128                       \* paper tape marks the top bit

\* The characters among the first n bytes that come before a '!'.
Before(f, n) == {Char(f[i]) : i \in {i \in 1 .. n : \A j \in 1 .. i : Char(f[j]) # BANG}}

\* Mutant: a control character is passed over like a NUL.
CheckBufferAnyControl(f, n) ==
  n >= 4 /\ SLASH \in Before(f, n) /\ Before(f, n) \cap OctalDigits # {}

\* bpun_check_buffer on a window of n bytes: no control character but NUL, CR
\* and LF before the '!', and a slash and an octal digit somewhere before it.
CheckBuffer(f, n) ==
  LET seen == Before(f, n)
  IN /\ n >= 4
     /\ \A c \in seen : c < SPACE => c \in {NUL, CR, LF}
     /\ SLASH \in seen
     /\ seen \cap OctalDigits # {}
=============================================================================
