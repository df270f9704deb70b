---------------------------- MODULE Nd100Listing ----------------------------
(***************************************************************************)
(* A listed line: the two bytes of a word in either order, its text, and   *)
(* the comment that names a known monitor call or device register.  The    *)
(* tables of src/moncalls.c and src/iodevs.c are the numbers they have an  *)
(* entry for; the comment carries the number in place of the name.         *)
(***************************************************************************)
EXTENDS Nd100Disasm

\* Mutant: the bytes are not masked.
ToBytesUnmasked(w, big) == IF big THEN <<w \div 256, w>> ELSE <<w, w \div 256>>
ToBytes(w, big) == IF big THEN <<w \div 256, w % 256>> ELSE <<w % 256, w \div 256>>
FromBytes(b, big) == IF big THEN 256 * b[1] + b[2] ELSE b[1] + 256 * b[2]

-----------------------------------------------------------------------------
\* Monitor calls by number, decimal as in the source; those above 255 fit no MON.
mon_call_table ==
  (0 .. 12) \cup (14 .. 15) \cup (17 .. 20) \cup (22 .. 33) \cup (35 .. 36) \cup {40}
  \cup (42 .. 100) \cup (102 .. 109) \cup (111 .. 114) \cup (116 .. 117)
  \cup (119 .. 129) \cup (134 .. 135) \cup (138 .. 146) \cup (151 .. 175)
  \cup (178 .. 179) \cup (183 .. 195) \cup (198 .. 207) \cup (210 .. 216)
  \cup (218 .. 225) \cup (256 .. 262) \cup (264 .. 281) \cup (285 .. 288)
  \cup (320 .. 325) \cup {327, 332}

\* Device registers by IOX address: clocks, teletypes, printers, disks.
iox_devices ==
  (\o10 .. \o23) \cup (\o60 .. \o77) \cup (\o160 .. \o177) \cup (\o300 .. \o307)
  \cup (\o400 .. \o407) \cup (\o430 .. \o437) \cup (\o540 .. \o577)
  \cup (\o660 .. \o677) \cup (\o760 .. \o777) \cup (\o1060 .. \o1077)
  \cup (\o1540 .. \o1577)

Comment(num) == <<Kw(";"), [t |-> "note", n |-> num]>>
mon_lookup(num) == IF num \in mon_call_table THEN Comment(num) ELSE <<>>
iox_lookup(addr) == IF addr \in iox_devices THEN Comment(addr) ELSE <<>>

Annotation(w) ==
  IF w \div 256 = \o153000 \div 256 THEN mon_lookup(w % 256)
  ELSE IF w \div 2048 = \o164000 \div 2048 THEN iox_lookup(w % 2048)
  ELSE <<>>

Invalid == Kws(<<"invalid">>)

\* The line disassemble shows for the bytes b.
Listing(b, big, c) ==
  IF Len(b) < 2 THEN Invalid
  ELSE LET w == FromBytes(b, big) IN nd100_disasm(w, c) \o Annotation(w)
=============================================================================
