------------------------------ MODULE AsmPlugin ------------------------------
(***************************************************************************)
(* The assembler plugin in its host: assemble and disassemble of           *)
(* src/rz_asm_nd100.c on the bytes at the user's cursor.  The user lists   *)
(* what is there, types a line of his own, writes the line at hand into    *)
(* the bytes, and changes the byte order and the processor at any time in  *)
(* between, so that a line may be written under other settings than those  *)
(* it was read under.                                                      *)
(***************************************************************************)
EXTENDS Nd100Asm, Nd100Listing

CONSTANTS
  Words,          \* the words the cursor may be put on
  Typed,          \* the lines the user may type
  Reconfigurable  \* may the user change the settings while at work?

ASSUME WordsAssumption == Words \subseteq Word
ASSUME TypedAssumption == \A l \in Typed : IsText(l)
ASSUME SettingsAssumption == Reconfigurable \in BOOLEAN

VARIABLES
  bytes,       \* the bytes at the cursor: two, or fewer at the end of the file
  big_endian,  \* a->big_endian
  cpu,         \* a->cpu
  line,        \* the line of text at hand
  origin,      \* where it comes from: [how, cpu]
  outcome      \* of the call just made: "none", "read", "written" or "refused"

vars == <<bytes, big_endian, cpu, line, origin, outcome>>

NoOrigin == [how |-> "none", cpu |-> "nd100"]

-----------------------------------------------------------------------------
Init ==
  /\ bytes = <<>> /\ line = <<>> /\ origin = NoOrigin /\ outcome = "none"
  /\ big_endian \in BOOLEAN /\ cpu \in Cpus

\* The user moves to other bytes; a file may end inside a word.  Bound: he
\* moves, or types, only when nothing is at hand.
Seek ==
  /\ bytes = <<>> /\ line = <<>>
  /\ \/ \E w \in Words : bytes' = ToBytes(w, big_endian)
     \/ \E w \in Words : bytes' = <<w % 256>> /\ w < 256
  /\ UNCHANGED <<big_endian, cpu, line, origin, outcome>>

Leave ==
  /\ bytes # <<>> \/ line # <<>>
  /\ bytes' = <<>> /\ line' = <<>> /\ origin' = NoOrigin /\ outcome' = "none"
  /\ UNCHANGED <<big_endian, cpu>>

Disassemble ==
  /\ line' = Listing(bytes, big_endian, cpu)
  /\ origin' = [how |-> "listed", cpu |-> cpu]
  /\ outcome' = IF Len(bytes) < 2 THEN "refused" ELSE "read"
  /\ UNCHANGED <<bytes, big_endian, cpu>>

Type ==
  /\ bytes = <<>> /\ line = <<>>
  /\ line' \in Typed
  /\ origin' = [how |-> "typed", cpu |-> cpu]
  /\ outcome' = "none"
  /\ UNCHANGED <<bytes, big_endian, cpu>>

\* Mutant: assemble does not look at the byte order.
AssembleLittle ==
  /\ origin.how # "none"
  /\ LET w == Encode(line) IN
     /\ outcome' = IF w = NONE THEN "refused" ELSE "written"
     /\ bytes' = IF w = NONE THEN bytes ELSE ToBytes(w, FALSE)
  /\ UNCHANGED <<big_endian, cpu, line, origin>>

\* The line at hand becomes bytes in the order in force, whatever the processor.
Assemble ==
  /\ origin.how # "none"
  /\ LET w == Encode(line) IN
     /\ outcome' = IF w = NONE THEN "refused" ELSE "written"
     /\ bytes' = IF w = NONE THEN bytes ELSE ToBytes(w, big_endian)
  /\ UNCHANGED <<big_endian, cpu, line, origin>>

\* e cfg.bigendian, e asm.cpu
Reconfigure ==
  /\ Reconfigurable
  /\ \/ big_endian' = ~big_endian /\ UNCHANGED cpu
     \/ cpu' \in Cpus \ {cpu} /\ UNCHANGED big_endian
  /\ outcome' = "none"
  /\ UNCHANGED <<bytes, line, origin>>

Next == Seek \/ Leave \/ Disassemble \/ Type \/ Assemble \/ Reconfigure

Spec == Init /\ [][Next]_vars
=============================================================================
