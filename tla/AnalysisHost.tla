---------------------------- MODULE AnalysisHost ----------------------------
(***************************************************************************)
(* The analysis plugin in its host: an image in memory, an analysis that   *)
(* follows the targets nd100_op reports from the entry and from the        *)
(* routine beginnings found by pattern, and an emulation that steps        *)
(* through the same words with the programs of Nd100Esil, reading and      *)
(* writing the image.  The host interleaves the three as the user asks.    *)
(***************************************************************************)
EXTENDS Nd100Esil

CONSTANTS
  Sessions,    \* what the host may begin with: [words, base, big, cpu, reg, steps], an
               \* image mapped at a byte address, its byte order, asm.cpu, registers
               \* but for pc, and the bound on how far an emulation goes
  Outside      \* the byte read where nothing is mapped

ASSUME SessionsAssumption ==
  \A s \in Sessions : /\ s.words \in Seq(Word) \ {<<>>} /\ s.big \in BOOLEAN /\ s.cpu \in Cpus
                      /\ s.base \in Nat /\ s.base % TEXT_ALIGN = 0
                      /\ s.base + 2 * Len(s.words) <= 131072     \* 64K words
                      /\ s.reg \in [RegNames -> Word] /\ s.steps \in Nat
ASSUME OutsideAssumption == Outside \in 0 .. 255

VARIABLES
  mem,    \* the image: [base, bytes, big, outside]
  cpu,    \* a->cpu
  todo,   \* addresses still to be analysed
  ops,    \* what nd100_op said of each address analysed
  hits,   \* where the patterns were found
  reg,    \* the registers
  steps,  \* how many instructions may still be emulated
  last,   \* the step just made: [addr, op, reg, mem, carry], as it was before
  patched \* has a store gone into the image?

vars == <<mem, cpu, todo, ops, hits, reg, steps, last, patched>>

NoStep == [addr |-> UNSET]

Mapped(a) == a - mem.base \in 0 .. Len(mem.bytes) - 1

\* The bytes the host hands over: as many as one operation may have.
Fetch(a) ==
  LET first == a - mem.base + 1
  IN SubSeq(mem.bytes, first, Min({Len(mem.bytes), first + MAX_OP_SIZE - 1}))

OpAt(a) == nd100_op(a, IF Mapped(a) THEN Fetch(a) ELSE <<>>, mem.big)

\* Where control may go from an operation at a, as the operation says.
Successors(op, a) ==
  ({op.jump, op.fail} \ {UNSET})
  \cup (IF op.eob \/ op.type \in {"CJMP", "ILL"} THEN {} ELSE {a + op.size})

-----------------------------------------------------------------------------
InBytes(words, big) ==
  [i \in 1 .. 2 * Len(words) |-> ToBytes(words[(i + 1) \div 2], big)[2 - (i % 2)]]

Begin(s) ==
  /\ mem = [base |-> s.base, bytes |-> InBytes(s.words, s.big), big |-> s.big,
            outside |-> Outside]
  /\ cpu = s.cpu /\ steps = s.steps
  /\ reg = [s.reg EXCEPT !.pc = s.base % 65536]

Init ==
  /\ \E s \in Sessions : Begin(s)
  /\ todo = {mem.base} /\ ops = <<>> /\ hits = {}
  /\ last = NoStep /\ patched = FALSE

\* The host looks for the patterns at every aligned address, once.
Search ==
  /\ hits = {}
  /\ hits' = {a \in mem.base .. mem.base + Len(mem.bytes) - 2 :
                /\ (a - mem.base) % TEXT_ALIGN = 0
                /\ SubSeq(Fetch(a), 1, 2) \in nd100_preludes(mem.big)}
  /\ hits' # {}
  /\ todo' = todo \cup (hits' \ DOMAIN ops)
  /\ UNCHANGED <<mem, cpu, ops, reg, steps, last, patched>>

\* One address is analysed; what it leads to comes next.
Analyse ==
  \E a \in todo :
    LET op == OpAt(a)
        known == DOMAIN ops \cup {a}
        next == {t \in Successors(op, a) : Mapped(t)} \ known
    IN /\ ops' = [k \in known |-> IF k = a THEN op ELSE ops[k]]
       /\ todo' = (todo \ {a}) \cup next
       /\ UNCHANGED <<mem, cpu, hits, reg, steps, last, patched>>

\* One instruction is emulated, analysed anew as it stands in memory now.
Step ==
  /\ steps > 0 /\ Mapped(reg.pc) /\ Mapped(reg.pc + 1)
  /\ \E carry \in BOOLEAN :
       LET op == OpAt(reg.pc)
           m == Emulate(op, reg, mem, carry)
       IN /\ carry => op.name = "Jcc" /\ op.cond \in {"HS", "LO"}
          /\ reg' = m.reg /\ mem' = m.mem
          /\ last' = [addr |-> reg.pc, op |-> op, reg |-> reg, mem |-> mem, carry |-> carry]
          /\ steps' = steps - 1
          /\ patched' = (patched \/ m.mem # mem)
  /\ UNCHANGED <<cpu, todo, ops, hits>>

Next == Search \/ Analyse \/ Step

Spec == Init /\ [][Next]_vars
=============================================================================
