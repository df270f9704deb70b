----------------------------- MODULE HostProofs -----------------------------
(***************************************************************************)
(* The analysis plugin in its host, for every image of up to 64K words:    *)
(* the analysis stays inside the image, an emulation goes only where the   *)
(* analysis says control goes, and the analysis goes where the lines of    *)
(* the decoder say.                                                        *)
(***************************************************************************)
EXTENDS AnalysisProps, EsilProofs

-----------------------------------------------------------------------------
\* One instruction: where its program leaves pc.

\* The registers when pc has moved behind the operation.
Moved(op, r) == [r EXCEPT !.pc = (@ + op.size) % 65536]

LEMMA MovedIs ==
  ASSUME NEW r \in Regs, NEW op, op.size \in Nat
  PROVE  /\ Moved(op, r) \in Regs
         /\ Moved(op, r).pc = (r.pc + op.size) % 65536
         /\ Moved(op, r).l = r.l
<1>1. "pc" \in RegNames /\ "l" \in RegNames /\ "pc" # "l"
  BY DEF RegNames
<1>2. r.pc \in Word /\ DOMAIN r = RegNames
  BY <1>1 DEF Regs
<1>3. (r.pc + op.size) % 65536 \in Word
  <2>1. r.pc + op.size \in Int
    BY <1>2, WordRange
  <2>2. QED
    BY <2>1, ModWord
<1>4. Moved(op, r) = With(r, "pc", (r.pc + op.size) % 65536)
  BY DEF Moved, With
<1> DEFINE v == (r.pc + op.size) % 65536
<1> HIDE DEF v
<1>5. With(r, "pc", v) \in Regs /\ With(r, "pc", v).pc = v /\ With(r, "pc", v).l = r.l
  BY <1>1, <1>2, <1>3 DEF With, Regs, v
<1>6. QED
  BY <1>4, <1>5 DEF v

(* Emulating an operation leaves words in the registers, an image of the same *)
(* shape and pc on one of its landings.                                       *)
LEMMA EmulateEnds ==
  ASSUME NEW op, Sorted(op), op.word \in Nat, op.val \in Int, op.jump \in Int, op.size \in Nat,
         NEW r \in Regs, NEW mm \in Images, NEW carry
  PROVE  Ended(Emulate(op, r, mm, carry), mm, Landings(op, Moved(op, r)))
<1>1. Start(op, r, mm, carry) = On(<<>>, Moved(op, r), mm, carry, 1)
  BY DEF Start, On, Machine, Moved
<1>2. Moved(op, r) \in Regs
  BY MovedIs
<1>3. Ends(Esil(op), Moved(op, r), mm, Landings(op, Moved(op, r)))
  BY <1>2, EsilEnds
<1>4. QED
  BY <1>1, <1>3 DEF Ends, Emulate

\* Is pc where the successors of an operation say?
OnGraph(pc, op, a) == \E t \in Successors(op, a) : pc = t % 65536

LEMMA TargetOnGraph ==
  ASSUME NEW op, NEW a, op.jump # UNSET
  PROVE  OnGraph(op.jump % 65536, op, a)
BY DEF OnGraph, Successors

LEMMA BehindOnGraph ==
  ASSUME NEW op, NEW a, Flow(op, a), op.type \in ByType \cup {"MJMP", "SWI"} => ~op.eob
  PROVE  OnGraph((a + op.size) % 65536, op, a)
<1>1. a + op.size \in Successors(op, a)
  <2>1. CASE op.type = "CJMP"
    BY <2>1 DEF Flow, Successors
  <2>2. CASE op.type # "CJMP"
    <3>1. ~op.eob
      BY DEF Flow, ByType
    <3>2. QED
      BY <2>2, <3>1 DEF Flow, Successors
  <2>3. QED
    BY <2>1, <2>2
<1>2. QED
  BY <1>1 DEF OnGraph

(* An operation with two ways takes one the analysis has.                     *)
LEMMA LandsOnGraph ==
  ASSUME NEW op, NEW a, Flow(op, a), op.type # "RET", op.type \in {"MJMP", "SWI"} => ~op.eob,
         NEW r, r.pc = (a + op.size) % 65536, NEW pc \in Landings(op, r)
  PROVE  OnGraph(pc, op, a)
<1>1. CASE op.type \in {"JMP", "CALL"}
  <2>1. pc = op.jump % 65536
    BY <1>1, LandingsTarget
  <2>2. op.jump # UNSET
    BY <1>1 DEF Flow
  <2>3. QED
    BY <2>1, <2>2, TargetOnGraph
<1>2. CASE op.type \notin ByType
  <2>1. OnGraph((a + op.size) % 65536, op, a)
    BY <1>2, BehindOnGraph
  <2>2. CASE op.name \in {"Jcc", "SKP"}
    <3>1. pc = op.jump % 65536 \/ pc = r.pc
      BY <1>2, <2>2, LandingsEither
    <3>2. op.jump # UNSET
      BY <2>2 DEF Flow
    <3>3. OnGraph(op.jump % 65536, op, a)
      BY <3>2, TargetOnGraph
    <3>4. QED
      BY <2>1, <3>1, <3>3
  <2>3. CASE op.name \notin {"Jcc", "SKP"}
    <3>1. pc = r.pc
      BY <1>2, <2>3, LandingsBehind
    <3>2. QED
      BY <2>1, <3>1
  <2>4. QED
    BY <2>2, <2>3
<1>3. QED
  BY <1>1, <1>2 DEF ByType

(* A jump through memory has no program.                                      *)
LEMMA MemoryJump ==
  ASSUME NEW op, NEW a, Flow(op, a), op.type = "MJMP", op.eob
  PROVE  ~HasProgram(op)
<1>1. op.name = "JMP"
  BY DEF Flow
<1>2. ~HasGuard(op)
  BY <1>1, ProgramNames DEF HasGuard, ByType
<1>3. QED
  BY <1>2, EsilNone DEF HasProgram

-----------------------------------------------------------------------------
\* The invariant.

\* An image inside the address space.
Fits(mm) == mm \in Images /\ mm.base + Len(mm.bytes) <= 131072

\* What nd100_op can say of any address.
Bounded(op) == Reachable(op.jump) /\ Reachable(op.fail) /\ op.size \in Nat

\* What is known of a step that left `pc` in the register of that name.
WasStep(s, pc) ==
  /\ s.addr \in Nat /\ s.reg \in Regs /\ s.reg.pc = s.addr
  /\ IsWord(s.op.word) /\ s.op.size \in Nat /\ Flow(s.op, s.addr)
  /\ pc \in Landings(s.op, Moved(s.op, s.reg))

Machinery == Fits(mem) /\ reg \in Regs /\ cpu \in Cpus /\ steps \in Nat

Worklist ==
  /\ \A a \in todo \cup DOMAIN ops : a \in Nat /\ Mapped(a)
  /\ todo \cap DOMAIN ops = {}

\* Where an analysed operation leads is analysed, still to be analysed or not mapped.
Closed ==
  \A a \in DOMAIN ops : \A t \in Successors(ops[a], a) :
    Mapped(t) => t \in DOMAIN ops \cup todo

\* As long as nothing was stored, what was said of an address still holds.
Fresh ==
  ~patched => /\ \A a \in DOMAIN ops : ops[a] = OpAt(a)
              /\ \A a \in Nat : Stepped /\ last.addr = a => last.op = OpAt(a)

IInv ==
  /\ Machinery
  /\ Worklist
  /\ \A a \in DOMAIN ops : Bounded(ops[a])
  /\ Closed
  /\ Fresh
  /\ Stepped => WasStep(last, reg.pc)

-----------------------------------------------------------------------------
\* The bytes the host hands over.

LEMMA MinOfTwo == \A m, n \in Int : Min({m, n}) = IF m <= n THEN m ELSE n
<1>1. ASSUME NEW m \in Int, NEW n \in Int PROVE Min({m, n}) = IF m <= n THEN m ELSE n
  <2> DEFINE k == IF m <= n THEN m ELSE n
  <2>1. k \in {m, n} /\ \A y \in {m, n} : k <= y
    OBVIOUS
  <2>2. \A x \in {m, n} : (\A y \in {m, n} : x <= y) => x = k
    OBVIOUS
  <2>3. QED
    BY <2>1, <2>2 DEF Min
<1>2. QED
  BY <1>1

LEMMA FetchIs ==
  ASSUME Fits(mem), NEW a \in Nat, Mapped(a)
  PROVE  /\ Fetch(a) \in Seq(0 .. 255)
         /\ Mapped(a + 1) => Len(Fetch(a)) >= 2
<1> DEFINE first == a - mem.base + 1
           n == Len(mem.bytes)
           end == Min({n, first + 13})
<1>1. mem.base \in Nat /\ mem.bytes \in Seq(Bytes) /\ n \in Nat
  BY DEF Fits, Images
<1>2. first \in 1 .. n
  BY <1>1 DEF Mapped
<1>3. end = IF n <= first + 13 THEN n ELSE first + 13
  BY <1>1, <1>2, MinOfTwo
<1>4. Mapped(a + 1) => first + 1 <= n
  BY <1>1 DEF Mapped
<1>5. Fetch(a) = SubSeq(mem.bytes, first, end)
  BY DEF Fetch, MAX_OP_SIZE
<1> HIDE DEF first, n, end
<1>6. end \in Int /\ first \in Int /\ first <= end /\ end <= n
  BY <1>1, <1>2, <1>3
<1>7. \A i \in first .. end : mem.bytes[i] \in Bytes
  <2>1. \A i \in first .. end : i \in 1 .. n
    BY <1>1, <1>2, <1>6
  <2>2. QED
    BY <1>1, <2>1, ElementOfSeq DEF n
<1>8. /\ SubSeq(mem.bytes, first, end) \in Seq(Bytes)
      /\ Len(SubSeq(mem.bytes, first, end)) = end - first + 1
  BY <1>6, <1>7, SubSeqProperties
<1>9. Mapped(a + 1) => end - first + 1 >= 2
  BY <1>1, <1>2, <1>3, <1>4
<1>10. QED
  BY <1>5, <1>8, <1>9 DEF Bytes

LEMMA MappedInSpace ==
  ASSUME Fits(mem), NEW a \in Nat, Mapped(a)
  PROVE  InSpace(a)
<1> DEFINE n == Len(mem.bytes)
<1>1. mem.base \in Nat /\ n \in Nat /\ mem.base + n <= 131072
  BY DEF Fits, Images
<1>2. a - mem.base \in 0 .. n - 1
  BY DEF Mapped
<1> HIDE DEF n
<1>3. QED
  BY <1>1, <1>2 DEF InSpace

(* What nd100_op says of the bytes at an address of the image.                *)
LEMMA OpAtBounded ==
  ASSUME Fits(mem), NEW a \in Nat, Mapped(a)
  PROVE  Bounded(OpAt(a))
<1>1. InSpace(a) /\ Fetch(a) \in Seq(0 .. 255) /\ mem.big \in BOOLEAN
  BY MappedInSpace, FetchIs DEF Fits, Images
<1>2. OpAt(a) = nd100_op(a, Fetch(a), mem.big)
  BY DEF OpAt
<1> DEFINE data == Fetch(a)
           big == mem.big
           op == nd100_op(a, data, big)
<1> HIDE DEF data, big
<1>3. CASE Len(data) >= 2
  <2>1. Reachable(op.jump) /\ Reachable(op.fail) /\ op.size \in {2, 4, 14}
    BY <1>1, <1>3, TargetsReachable DEF data, big
  <2> HIDE DEF op
  <2>2. QED
    BY <1>2, <2>1 DEF Bounded, op, data, big
<1>4. CASE ~(Len(data) >= 2)
  <2>1. Len(data) < 2
    BY <1>1, <1>4 DEF data
  <2>2. op = NoOp
    BY <2>1 DEF nd100_op
  <2>3. QED
    BY <1>2, <2>2 DEF Bounded, NoOp, Reachable, UNSET, MAX_OP_SIZE, MIN_OP_SIZE, data, big
<1>5. QED
  BY <1>3, <1>4

LEMMA OpAtFlow ==
  ASSUME Fits(mem), NEW a \in Nat, Mapped(a), Mapped(a + 1)
  PROVE  Flow(OpAt(a), a)
<1>1. InSpace(a) /\ Fetch(a) \in Seq(0 .. 255) /\ Len(Fetch(a)) >= 2
  BY MappedInSpace, FetchIs
<1>2. OpAt(a) = nd100_op(a, Fetch(a), mem.big)
  BY DEF OpAt
<1>3. QED
  BY <1>1, <1>2, FlowOfOp

LEMMA OpAtWord ==
  ASSUME Fits(mem), NEW a \in Nat, Mapped(a), Mapped(a + 1)
  PROVE  IsWord(OpAt(a).word)
<1>1. Fetch(a) \in Seq(0 .. 255) /\ Len(Fetch(a)) >= 2
  BY FetchIs
<1>2. OpAt(a) = nd100_op(a, Fetch(a), mem.big)
  BY DEF OpAt
<1>3. QED
  BY <1>1, <1>2, WordOfOp

-----------------------------------------------------------------------------
\* The invariant holds at the beginning.

LEMMA InBytesIs ==
  ASSUME NEW words \in Seq(Word), NEW big \in BOOLEAN
  PROVE  InBytes(words, big) \in Seq(Bytes) /\ Len(InBytes(words, big)) = 2 * Len(words)
<1> DEFINE n == 2 * Len(words)
           k(i) == (i + 1) \div 2
           b(i) == ToBytes(words[k(i)], big)[2 - (i % 2)]
           new == [i \in 1 .. n |-> b(i)]
<1>1. Len(words) \in Nat /\ n \in Nat
  OBVIOUS
<1>2. ASSUME NEW i \in 1 .. n PROVE b(i) \in Bytes
  <2>1. k(i) \in 1 .. Len(words) /\ (2 - (i % 2) = 1 \/ 2 - (i % 2) = 2)
    BY <1>1
  <2>2. words[k(i)] \in Word
    BY <2>1, ElementOfSeq
  <2> DEFINE w == words[k(i)]
  <2>3. ToBytes(w, big)[1] \in Bytes /\ ToBytes(w, big)[2] \in Bytes
    BY <2>2, HalvesOfWord
  <2>4. QED
    BY <2>1, <2>3
<1>3. InBytes(words, big) = new
  BY DEF InBytes
<1> HIDE DEF b, n
<1>4. new \in Seq(Bytes) /\ Len(new) = n
  BY <1>1, <1>2
<1>5. QED
  BY <1>3, <1>4 DEF n

LEMMA InitInv == Init => IInv
<1> SUFFICES ASSUME Init PROVE IInv
  OBVIOUS
<1>1. PICK s \in Sessions : Begin(s)
  BY DEF Init
<1>2. /\ s.words \in Seq(Word) /\ s.words # <<>> /\ s.big \in BOOLEAN /\ s.cpu \in Cpus
      /\ s.base \in Nat /\ s.base + 2 * Len(s.words) <= 131072
      /\ s.reg \in [RegNames -> Word] /\ s.steps \in Nat
  BY SessionsAssumption
<1> DEFINE bytes == InBytes(s.words, s.big)
<1>3. bytes \in Seq(Bytes) /\ Len(bytes) = 2 * Len(s.words)
  BY <1>2, InBytesIs
<1> HIDE DEF bytes
<1>4. Len(s.words) \in Nat /\ Len(s.words) # 0
  BY <1>2
<1>5. mem \in Images /\ mem.base = s.base /\ mem.bytes = bytes
  BY <1>1, <1>2, <1>3, OutsideAssumption DEF Begin, Images, Bytes, bytes
<1>6. Machinery
  <2>1. Fits(mem)
    BY <1>2, <1>3, <1>5 DEF Fits
  <2>2. s.base % 65536 \in Word
    BY <1>2, ModWord
  <2>3. reg \in Regs
    BY <1>1, <1>2, <2>2 DEF Begin, Regs
  <2>4. QED
    BY <1>1, <1>2, <2>1, <2>3 DEF Begin, Machinery
<1>7. todo = {mem.base} /\ DOMAIN ops = {} /\ last = NoStep
  BY DEF Init
<1>8. ~Stepped
  BY <1>7 DEF Stepped, NoStep
<1>9. Worklist
  <2>1. Mapped(mem.base) /\ mem.base \in Nat
    BY <1>2, <1>3, <1>4, <1>5 DEF Mapped
  <2>2. QED
    BY <1>7, <2>1 DEF Worklist
<1>10. Closed
  BY <1>7 DEF Closed
<1>11. Fresh
  BY <1>7, <1>8 DEF Fresh
<1>12. QED
  BY <1>6, <1>7, <1>8, <1>9, <1>10, <1>11 DEF IInv

-----------------------------------------------------------------------------
\* Every step keeps it.

LEMMA SuccessorsNat ==
  ASSUME Fits(mem), NEW op, Bounded(op), NEW a \in Nat, NEW t \in Successors(op, a), Mapped(t)
  PROVE  t \in Nat
<1>1. t \in Int
  BY DEF Successors, Bounded, Reachable
<1>2. mem.base \in Nat /\ Len(mem.bytes) \in Nat
  BY DEF Fits, Images
<1>3. t - mem.base >= 0
  BY <1>1, <1>2 DEF Mapped
<1>4. QED
  BY <1>1, <1>2, <1>3

LEMMA SearchInv == IInv /\ Search => IInv'
<1> SUFFICES ASSUME IInv, Search PROVE IInv'
  OBVIOUS
<1> DEFINE found == hits' \ DOMAIN ops
<1>1. todo' = todo \cup found /\ UNCHANGED <<mem, cpu, ops, reg, steps, last, patched>>
  BY DEF Search
<1>2. \A a \in hits' : a \in Nat /\ Mapped(a)
  <2>1. mem.base \in Nat /\ Len(mem.bytes) \in Nat
    BY DEF IInv, Machinery, Fits, Images
  <2>2. \A a \in hits' : a \in mem.base .. mem.base + Len(mem.bytes) - 2
    BY DEF Search
  <2> TAKE a \in hits'
  <2> DEFINE b == mem.base
             n == Len(mem.bytes)
  <2>3. b \in Nat /\ n \in Nat /\ a \in b .. b + n - 2
    BY <2>1, <2>2
  <2> HIDE DEF b, n
  <2>4. a \in Nat /\ a - b \in 0 .. n - 1
    BY <2>3
  <2>5. QED
    BY <2>4 DEF Mapped, b, n
<1>3. Machinery'
  BY <1>1 DEF IInv, Machinery
<1>4. Worklist'
  BY <1>1, <1>2 DEF IInv, Worklist, Mapped
<1>5. (\A a \in DOMAIN ops : Bounded(ops[a]))'
  BY <1>1 DEF IInv
<1>6. Closed'
  BY <1>1 DEF IInv, Closed, Mapped
<1>7. Fresh'
  BY <1>1 DEF IInv, Fresh, OpAt, Fetch, Mapped, Stepped
<1>8. (Stepped => WasStep(last, reg.pc))'
  BY <1>1 DEF IInv, Stepped
<1>9. QED
  BY <1>3, <1>4, <1>5, <1>6, <1>7, <1>8 DEF IInv

LEMMA AnalyseInv == IInv /\ Analyse => IInv'
<1> SUFFICES ASSUME IInv, Analyse PROVE IInv'
  OBVIOUS
<1>1. PICK a \in todo :
        LET op == OpAt(a)
            known == DOMAIN ops \cup {a}
            next == {t \in Successors(op, a) : Mapped(t)} \ known
        IN /\ ops' = [k \in known |-> IF k = a THEN op ELSE ops[k]]
           /\ todo' = (todo \ {a}) \cup next
           /\ UNCHANGED <<mem, cpu, hits, reg, steps, last, patched>>
  BY DEF Analyse
<1> DEFINE op == OpAt(a)
           known == DOMAIN ops \cup {a}
           next == {t \in Successors(op, a) : Mapped(t)} \ known
<1>2. /\ DOMAIN ops' = known
      /\ \A k \in known : ops'[k] = IF k = a THEN op ELSE ops[k]
      /\ todo' = (todo \ {a}) \cup next
      /\ UNCHANGED <<mem, cpu, hits, reg, steps, last, patched>>
  BY <1>1
<1>3. a \in Nat /\ Mapped(a) /\ Fits(mem)
  BY DEF IInv, Machinery, Worklist
<1>4. Bounded(op)
  BY <1>3, OpAtBounded
<1> HIDE DEF op
<1>5. \A t \in next : t \in Nat /\ Mapped(t)
  BY <1>3, <1>4, SuccessorsNat
<1>6. Machinery'
  BY <1>2 DEF IInv, Machinery
<1>7. Worklist'
  <2>1. \A k \in todo' \cup DOMAIN ops' : k \in Nat /\ Mapped(k)
    BY <1>2, <1>3, <1>5 DEF IInv, Worklist
  <2>2. todo' \cap DOMAIN ops' = {}
    BY <1>2 DEF IInv, Worklist
  <2>3. QED
    BY <1>2, <2>1, <2>2 DEF Worklist, Mapped
<1>8. (\A k \in DOMAIN ops : Bounded(ops[k]))'
  BY <1>2, <1>4 DEF IInv
<1>9. Closed'
  <2> SUFFICES ASSUME NEW k \in known, NEW t \in Successors(ops'[k], k), Mapped(t)
               PROVE  t \in known \cup todo'
    BY <1>2 DEF Closed, Mapped
  <2>1. CASE k = a
    BY <1>2, <2>1
  <2>2. CASE k # a
    <3>1. t \in DOMAIN ops \cup todo
      BY <1>2, <2>2 DEF IInv, Closed
    <3>2. QED
      BY <1>2, <3>1
  <2>3. QED
    BY <2>1, <2>2
<1>10. Fresh'
  <2>1. \A k : OpAt(k)' = OpAt(k)
    BY <1>2 DEF OpAt, Fetch, Mapped
  <2>2. ~patched => \A k \in known : ops'[k] = OpAt(k)
    BY <1>2 DEF IInv, Fresh, op
  <2>3. QED
    BY <1>2, <2>1, <2>2 DEF IInv, Fresh, Stepped
<1>11. (Stepped => WasStep(last, reg.pc))'
  BY <1>2 DEF IInv, Stepped
<1>12. QED
  BY <1>6, <1>7, <1>8, <1>9, <1>10, <1>11 DEF IInv

LEMMA MappedSame ==
  ASSUME mem'.base = mem.base, Len(mem'.bytes) = Len(mem.bytes)
  PROVE  \A a : Mapped(a)' <=> Mapped(a)
BY DEF Mapped

(* What a step leaves: registers, pc on a landing, an image of the same shape. *)
LEMMA StepEnds ==
  ASSUME IInv, Step
  PROVE  LET pc == reg.pc
             op == OpAt(pc) IN
         /\ pc \in Nat /\ IsWord(op.word) /\ op.size \in Nat /\ Flow(op, pc)
         /\ reg' \in Regs /\ reg'.pc \in Landings(op, Moved(op, reg))
         /\ Fits(mem') /\ mem'.base = mem.base /\ Len(mem'.bytes) = Len(mem.bytes)
<1> DEFINE pc == reg.pc
           op == OpAt(pc)
<1>1. PICK carry \in BOOLEAN :
        reg' = Emulate(op, reg, mem, carry).reg /\ mem' = Emulate(op, reg, mem, carry).mem
  BY DEF Step
<1>2. Mapped(pc) /\ Mapped(pc + 1)
  BY DEF Step
<1>3. Fits(mem) /\ reg \in Regs /\ mem \in Images
  BY DEF IInv, Machinery, Fits
<1>4. pc \in Nat
  <2>1. "pc" \in RegNames
    BY DEF RegNames
  <2>2. pc \in Word
    BY <1>3, <2>1 DEF Regs
  <2>3. QED
    BY <2>2, WordRange
<1>5. Flow(op, pc) /\ IsWord(op.word) /\ op.size \in Nat
  BY <1>2, <1>3, <1>4, OpAtFlow, OpAtWord, OpAtBounded DEF Bounded
<1>6. Sorted(op) /\ op.word \in Nat /\ op.val \in Int /\ op.jump \in Int
  BY <1>5 DEF Flow, IsWord
<1> DEFINE m == Emulate(op, reg, mem, carry)
           lands == Landings(op, Moved(op, reg))
<1> HIDE DEF op
<1>7. Ended(m, mem, lands)
  BY <1>3, <1>5, <1>6, EmulateEnds
<1> HIDE DEF m, lands, pc
<1>8. reg' \in Regs /\ reg'.pc \in lands /\ SameShape(mem, mem')
  BY <1>1, <1>7 DEF Ended, m, pc, lands
<1>9. mem' \in Images /\ mem'.base = mem.base /\ Len(mem'.bytes) = Len(mem.bytes)
  BY <1>8 DEF SameShape
<1>10. Fits(mem')
  BY <1>3, <1>9 DEF Fits
<1>11. QED
  BY <1>4, <1>5, <1>8, <1>9, <1>10 DEF lands, op, pc

LEMMA StepInv == IInv /\ Step => IInv'
<1> SUFFICES ASSUME IInv, Step PROVE IInv'
  OBVIOUS
<1> DEFINE pc == reg.pc
           op == OpAt(pc)
           lands == Landings(op, Moved(op, reg))
<1>1. PICK carry \in BOOLEAN :
        /\ mem' = Emulate(op, reg, mem, carry).mem
        /\ last' = [addr |-> pc, op |-> op, reg |-> reg, mem |-> mem, carry |-> carry]
        /\ patched' = (patched \/ Emulate(op, reg, mem, carry).mem # mem)
  BY DEF Step
<1>2. steps > 0 /\ steps' = steps - 1 /\ UNCHANGED <<cpu, todo, ops, hits>>
  BY DEF Step
<1>3. reg \in Regs /\ cpu \in Cpus /\ steps \in Nat
  BY DEF IInv, Machinery
<1>4. pc \in Nat /\ Flow(op, pc) /\ IsWord(op.word) /\ op.size \in Nat
  BY StepEnds
<1>5. /\ reg' \in Regs /\ reg'.pc \in lands
      /\ Fits(mem') /\ mem'.base = mem.base /\ Len(mem'.bytes) = Len(mem.bytes)
  BY StepEnds
<1> HIDE DEF op, lands, pc
<1>6. \A a : Mapped(a)' <=> Mapped(a)
  BY <1>5, MappedSame
<1>7. ~patched' => ~patched /\ mem' = mem
  BY <1>1
<1>8. last'.addr = pc /\ last'.op = op /\ last'.reg = reg
  BY <1>1
<1>9. Machinery'
  BY <1>2, <1>3, <1>5 DEF Machinery
<1>10. Worklist'
  BY <1>2, <1>6 DEF IInv, Worklist
<1>11. (\A a \in DOMAIN ops : Bounded(ops[a]))'
  BY <1>2 DEF IInv
<1>12. Closed'
  BY <1>2, <1>6 DEF IInv, Closed
<1>13. Fresh'
  <2> SUFFICES ASSUME ~patched'
               PROVE  /\ \A a \in DOMAIN ops : ops[a] = OpAt(a)'
                      /\ \A a \in Nat : last'.addr = a => last'.op = OpAt(a)'
    BY <1>2 DEF Fresh
  <2>1. mem' = mem /\ ~patched
    BY <1>7
  <2>2. \A a : OpAt(a)' = OpAt(a)
    BY <2>1 DEF OpAt, Fetch, Mapped
  <2>3. \A a \in DOMAIN ops : ops[a] = OpAt(a)'
    BY <2>1, <2>2 DEF IInv, Fresh
  <2>4. \A a \in Nat : last'.addr = a => last'.op = OpAt(a)'
    BY <1>8, <2>2 DEF op
  <2>5. QED
    BY <2>3, <2>4
<1>14. WasStep(last', reg'.pc)
  BY <1>3, <1>4, <1>5, <1>8 DEF WasStep, lands, pc, op
<1>15. QED
  BY <1>9, <1>10, <1>11, <1>12, <1>13, <1>14 DEF IInv

(* The invariant holds in every state.                                        *)
THEOREM HostInvariance == Spec => []IInv
<1>1. IInv /\ [Next]_vars => IInv'
  <2> SUFFICES ASSUME IInv, [Next]_vars PROVE IInv'
    OBVIOUS
  <2>1. CASE Search
    BY <2>1, SearchInv
  <2>2. CASE Analyse
    BY <2>2, AnalyseInv
  <2>3. CASE Step
    BY <2>3, StepInv
  <2>4. CASE UNCHANGED vars
    <3>1. \A a : (Mapped(a)' <=> Mapped(a)) /\ OpAt(a)' = OpAt(a)
      BY <2>4 DEF vars, OpAt, Fetch, Mapped
    <3>2. Machinery' /\ Worklist' /\ (\A a \in DOMAIN ops : Bounded(ops[a]))'
      BY <2>4, <3>1 DEF vars, IInv, Machinery, Worklist
    <3>3. Closed'
      BY <2>4, <3>1 DEF vars, IInv, Closed
    <3>4. Fresh'
      BY <2>4, <3>1 DEF vars, IInv, Fresh, Stepped
    <3>5. (Stepped => WasStep(last, reg.pc))'
      BY <2>4 DEF vars, IInv, Stepped
    <3>6. QED
      BY <3>2, <3>3, <3>4, <3>5 DEF IInv
  <2>5. QED
    BY <2>1, <2>2, <2>3, <2>4 DEF Next
<1>2. QED
  BY <1>1, InitInv, PTL DEF Spec

-----------------------------------------------------------------------------
\* What follows from it.

LEMMA ReachableRange == \A t : Reachable(t) => t \in UNSET .. 131072 + MAX_OP_SIZE
<1> DEFINE top == 131072 + MAX_OP_SIZE
<1>1. UNSET \in Int /\ top \in Int
  BY DEF UNSET, MAX_OP_SIZE
<1>2. \A t : Reachable(t) => t \in Int /\ UNSET <= t /\ t <= top
  BY DEF Reachable
<1> HIDE DEF top
<1>3. \A t : Reachable(t) => t \in UNSET .. top
  BY <1>1, <1>2
<1>4. QED
  BY <1>3 DEF top

LEMMA InvTypes == IInv => TypeOK
<1> SUFFICES ASSUME IInv PROVE TypeOK
  OBVIOUS
<1>1. mem.bytes \in Seq(0 .. 255) /\ mem.base \in Nat /\ cpu \in Cpus
  BY DEF IInv, Machinery, Fits, Images, Bytes
<1>2. (\A a \in todo \cup DOMAIN ops : Mapped(a)) /\ todo \cap DOMAIN ops = {}
  BY DEF IInv, Worklist
<1>3. \A a \in DOMAIN ops : /\ ops[a].jump \in UNSET .. 131072 + MAX_OP_SIZE
                            /\ ops[a].fail \in UNSET .. 131072 + MAX_OP_SIZE
  BY ReachableRange DEF IInv, Bounded
<1>4. reg \in [RegNames -> Word] /\ steps \in Nat
  BY DEF IInv, Machinery, Regs
<1>5. Stepped => last.op.word \in Word
  BY WordRange DEF IInv, WasStep, IsWord
<1>6. QED
  BY <1>1, <1>2, <1>3, <1>4, <1>5 DEF TypeOK

(* nd100_op and its programs (src/rz_analysis_nd100.c:128-1015): whatever is  *)
(* searched, analysed and emulated, and in whatever order, the analysis stays *)
(* in the image, no target lies below the address space or more than an INIT  *)
(* above it, and every register holds a word.                                 *)
THEOREM TypeCorrect == Spec => []TypeOK
BY InvTypes, HostInvariance, PTL

(* The parts of a step that the graph is about.                               *)
LEMMA StepParts ==
  ASSUME IInv, Stepped
  PROVE  /\ Flow(last.op, last.addr) /\ last.reg \in Regs /\ last.op.size \in Nat
         /\ last.addr \in Nat
         /\ reg.pc \in Landings(last.op, Moved(last.op, last.reg))
         /\ Moved(last.op, last.reg).pc = After % 65536
         /\ Moved(last.op, last.reg).l = last.reg.l
<1>1. WasStep(last, reg.pc)
  BY DEF IInv
<1>2. last.reg \in Regs /\ last.op.size \in Nat /\ last.reg.pc = last.addr
  BY <1>1 DEF WasStep
<1>3. QED
  BY <1>1, <1>2, MovedIs DEF WasStep, After

LEMMA StepReturns ==
  ASSUME IInv, Stepped, last.op.type = "RET"
  PROVE  reg.pc = last.reg.l
<1>1. Landings(last.op, Moved(last.op, last.reg)) = {Moved(last.op, last.reg).l}
  BY LandingsReturn
<1>2. QED
  BY <1>1, StepParts

LEMMA StepTraps ==
  ASSUME IInv, Stepped, last.op.type = "SWI"
  PROVE  reg.pc = After % 65536
<1>1. last.op.type \notin ByType /\ last.op.name \notin {"Jcc", "SKP"}
  BY StepParts DEF Flow, ByType
<1>2. Landings(last.op, Moved(last.op, last.reg)) = {Moved(last.op, last.reg).pc}
  BY <1>1, LandingsBehind
<1>3. QED
  BY <1>2, StepParts

LEMMA StepFollows ==
  ASSUME IInv, Stepped, last.op.type # "RET", ~(last.op.type \in {"MJMP", "SWI"} /\ last.op.eob)
  PROVE  OnGraph(reg.pc, last.op, last.addr)
<1> DEFINE op == last.op
           r == Moved(last.op, last.reg)
<1>1. Flow(op, last.addr) /\ reg.pc \in Landings(op, r)
  BY StepParts
<1>2. r.pc = (last.addr + op.size) % 65536
  BY StepParts DEF After
<1> HIDE DEF r
<1>3. QED
  BY <1>1, <1>2, LandsOnGraph

LEMMA InvOnGraph == IInv => EmulationOnGraph
<1> SUFFICES ASSUME IInv, Stepped, HasProgram(last.op)
             PROVE  reg.pc \in {t % 65536 : t \in CASE last.op.type = "RET" -> {last.reg.l}
                                                    [] last.op.type = "SWI" -> {After}
                                                    [] OTHER -> Successors(last.op, last.addr)}
  BY DEF EmulationOnGraph
<1> DEFINE there == CASE last.op.type = "RET" -> {last.reg.l}
                      [] last.op.type = "SWI" -> {After}
                      [] OTHER -> Successors(last.op, last.addr)
<1>1. CASE last.op.type = "RET"
  <2>1. there = {last.reg.l}
    BY <1>1
  <2>2. last.reg.l \in Word
    <3>1. "l" \in RegNames
      BY DEF RegNames
    <3>2. QED
      BY <3>1, StepParts DEF Regs
  <2>3. reg.pc = last.reg.l % 65536
    BY <1>1, <2>2, StepReturns, WordMod
  <2> HIDE DEF there
  <2>4. QED
    BY <2>1, <2>3 DEF there
<1>2. CASE last.op.type = "SWI"
  <2>1. there = {After}
    BY <1>2
  <2>2. reg.pc = After % 65536
    BY <1>2, StepTraps
  <2>3. QED
    BY <2>1, <2>2
<1>3. CASE last.op.type \notin {"RET", "SWI"}
  <2>1. there = Successors(last.op, last.addr)
    BY <1>3
  <2>2. ~(last.op.type \in {"MJMP", "SWI"} /\ last.op.eob)
    BY <1>3, MemoryJump, StepParts
  <2>3. OnGraph(reg.pc, last.op, last.addr)
    BY <1>3, <2>2, StepFollows
  <2>4. QED
    BY <2>1, <2>3 DEF OnGraph
<1>4. QED
  BY <1>1, <1>2, <1>3

(* nd100_op's jump and fail (362-507) against its ESIL text, for every word,  *)
(* image and content of the registers: a word that has a program goes, when   *)
(* emulated, where the analysis says control goes, and a return to L.         *)
THEOREM OnGraphAlways == Spec => []EmulationOnGraph
BY InvOnGraph, HostInvariance, PTL

LEMMA InvCovers == IInv => AnalysisCoversEmulation
<1> DEFINE returns == {ops[c].fail : c \in {k \in DOMAIN ops : ops[k].type \in Calls}}
           lost == \/ last.op.type \in {"MJMP", "SWI"} /\ last.op.eob
                   \/ last.op.type = "RET" /\ last.reg.l \notin returns
                   \/ \E t \in Successors(last.op, last.addr) : t \notin Word
<1> SUFFICES ASSUME IInv, Stepped, todo = {}, ~patched, last.addr \in DOMAIN ops, ~lost,
                    Mapped(reg.pc)
             PROVE  reg.pc \in DOMAIN ops
  BY DEF AnalysisCoversEmulation
<1>1. \A a \in DOMAIN ops : \A t \in Successors(ops[a], a) : Mapped(t) => t \in DOMAIN ops
  BY DEF IInv, Closed
<1>2. CASE last.op.type = "RET"
  <2>1. PICK c \in DOMAIN ops : ops[c].fail = last.reg.l
    BY <1>2
  <2>2. reg.pc = last.reg.l
    BY <1>2, StepReturns
  <2>3. last.reg.l # UNSET
    <3>1. "l" \in RegNames
      BY DEF RegNames
    <3>2. last.reg.l \in Nat
      BY <3>1, StepParts, WordRange DEF Regs
    <3>3. QED
      BY <3>2 DEF UNSET
  <2>4. reg.pc \in Successors(ops[c], c)
    BY <2>1, <2>2, <2>3 DEF Successors
  <2>5. QED
    BY <1>1, <2>4
<1>3. CASE last.op.type # "RET"
  <2>1. OnGraph(reg.pc, last.op, last.addr)
    BY <1>3, StepFollows
  <2>2. PICK t \in Successors(last.op, last.addr) : reg.pc = t % 65536
    BY <2>1 DEF OnGraph
  <2>3. reg.pc = t
    BY <2>2, WordMod
  <2>4. last.op = ops[last.addr]
    BY StepParts DEF IInv, Fresh
  <2>5. QED
    BY <1>1, <2>2, <2>3, <2>4
<1>4. QED
  BY <1>2, <1>3

(* The whole of nd100_op, its targets, sizes and programs together, for every *)
(* image, entry and content of the registers: once the analysis has followed  *)
(* everything, an emulation that starts inside what was analysed stays there, *)
(* as long as it does not change the program and does not go through memory,  *)
(* to an address not behind a call, or past what pc can hold.                 *)
THEOREM CoveredAlways == Spec => []AnalysisCoversEmulation
BY InvCovers, HostInvariance, PTL

-----------------------------------------------------------------------------
\* Lines of the decoder.

IsLine(l) == Len(l) \in Nat /\ l = [i \in 1 .. Len(l) |-> l[i]]

\* A line that begins with the keyword m.
Leads(l, m) == IsLine(l) /\ Len(l) > 0 /\ l[1].t = m

LEMMA LineSeq == ASSUME NEW l, IsLine(l) PROVE \E S : l \in Seq(S)
<1> DEFINE n == Len(l)
           S == {l[i] : i \in 1 .. n}
<1>1. n \in Nat /\ l = [i \in 1 .. n |-> l[i]]
  BY DEF IsLine
<1>2. [i \in 1 .. n |-> l[i]] \in [1 .. n -> S]
  OBVIOUS
<1> HIDE DEF n
<1>3. l \in [1 .. n -> S]
  BY <1>1, <1>2
<1>4. l \in Seq(S)
  BY <1>1, <1>3, SeqDef
<1>5. QED
  BY <1>4

LEMMA SeqLine == ASSUME NEW S, NEW l \in Seq(S) PROVE IsLine(l)
<1> DEFINE n == Len(l)
<1>1. n \in Nat /\ l \in [1 .. n -> S]
  BY LenProperties
<1>2. l = [i \in 1 .. n |-> l[i]]
  BY <1>1
<1>3. QED
  BY <1>1, <1>2 DEF IsLine

LEMMA LineJoin ==
  ASSUME NEW a, NEW b, IsLine(a), IsLine(b)
  PROVE  /\ IsLine(a \o b) /\ Len(a \o b) = Len(a) + Len(b)
         /\ \A i \in 1 .. Len(a) : (a \o b)[i] = a[i]
         /\ \A i \in 1 .. Len(b) : (a \o b)[Len(a) + i] = b[i]
<1>1. PICK A : a \in Seq(A)
  BY LineSeq
<1>2. PICK B : b \in Seq(B)
  BY LineSeq
<1> DEFINE S == A \cup B
<1>3. a \in Seq(S) /\ b \in Seq(S)
  BY <1>1, <1>2, SeqMonotonic
<1> HIDE DEF S
<1>4. a \o b \in Seq(S) /\ Len(a \o b) = Len(a) + Len(b)
  BY <1>3
<1>5. /\ \A i \in 1 .. Len(a) : (a \o b)[i] = a[i]
      /\ \A i \in 1 .. Len(b) : (a \o b)[Len(a) + i] = b[i]
  BY <1>3
<1>6. QED
  BY <1>4, <1>5, SeqLine

LEMMA LeadsJoin ==
  ASSUME NEW a, NEW b, NEW m, Leads(a, m), IsLine(b)
  PROVE  Leads(a \o b, m)
<1>1. IsLine(a) /\ Len(a) > 0 /\ Len(a) \in Nat /\ Len(b) \in Nat
  BY DEF Leads, IsLine
<1>2. IsLine(a \o b) /\ Len(a \o b) = Len(a) + Len(b) /\ \A i \in 1 .. Len(a) : (a \o b)[i] = a[i]
  BY <1>1, LineJoin
<1>3. 1 \in 1 .. Len(a)
  BY <1>1
<1>4. QED
  BY <1>1, <1>2, <1>3 DEF Leads

LEMMA KwsLine ==
  ASSUME NEW S, NEW s \in Seq(S)
  PROVE  /\ IsLine(Kws(s)) /\ Len(Kws(s)) = Len(s)
         /\ \A i \in 1 .. Len(s) : Kws(s)[i] = Kw(s[i])
<1>1. Kws(s) \in Seq([t : S, n : Int])
  BY DEF Kws, Kw
<1>2. Len(Kws(s)) = Len(s) /\ \A i \in 1 .. Len(s) : Kws(s)[i] = Kw(s[i])
  BY DEF Kws, Kw
<1>3. QED
  BY <1>1, <1>2, SeqLine

LEMMA LeadsKws ==
  ASSUME NEW S, NEW s \in Seq(S), Len(s) > 0
  PROVE  Leads(Kws(s), s[1])
<1>1. IsLine(Kws(s)) /\ Len(Kws(s)) = Len(s) /\ Kws(s)[1] = Kw(s[1])
  BY KwsLine
<1>2. QED
  BY <1>1 DEF Leads, Kw

LEMMA TupleLine == \A x : IsLine(<<x>>) /\ Len(<<x>>) = 1 /\ <<x>>[1] = x
<1> SUFFICES ASSUME NEW x PROVE IsLine(<<x>>) /\ Len(<<x>>) = 1 /\ <<x>>[1] = x
  OBVIOUS
<1>1. <<x>> \in Seq({x})
  OBVIOUS
<1>2. QED
  BY <1>1, SeqLine

LEMMA PairLine == \A x, y : IsLine(<<x, y>>) /\ Len(<<x, y>>) = 2 /\ <<x, y>>[1] = x /\ <<x, y>>[2] = y
<1> SUFFICES ASSUME NEW x, NEW y
             PROVE  IsLine(<<x, y>>) /\ Len(<<x, y>>) = 2 /\ <<x, y>>[1] = x /\ <<x, y>>[2] = y
  OBVIOUS
<1>1. <<x, y>> \in Seq({x, y})
  OBVIOUS
<1>2. QED
  BY <1>1, SeqLine

LEMMA EmptyLine == IsLine(<<>>) /\ Len(<<>>) = 0
<1>1. <<>> \in Seq({}) /\ Len(<<>>) = 0
  OBVIOUS
<1>2. QED
  BY <1>1, SeqLine

(* A single keyword, and what may follow it.                                  *)
LEMMA KwLine == \A m : IsLine(Kws(<<m>>)) /\ Len(Kws(<<m>>)) = 1 /\ Kws(<<m>>)[1] = Kw(m)
<1> SUFFICES ASSUME NEW m
             PROVE  IsLine(Kws(<<m>>)) /\ Len(Kws(<<m>>)) = 1 /\ Kws(<<m>>)[1] = Kw(m)
  OBVIOUS
<1> DEFINE s == <<m>>
<1>1. s \in Seq({m}) /\ Len(s) = 1 /\ s[1] = m
  OBVIOUS
<1> HIDE DEF s
<1>2. IsLine(Kws(s)) /\ Len(Kws(s)) = Len(s) /\ \A i \in 1 .. Len(s) : Kws(s)[i] = Kw(s[i])
  BY <1>1, KwsLine
<1>3. 1 \in 1 .. Len(s)
  BY <1>1
<1>4. IsLine(Kws(s)) /\ Len(Kws(s)) = 1 /\ Kws(s)[1] = Kw(m)
  BY <1>1, <1>2, <1>3
<1>5. QED
  BY <1>4 DEF s

LEMMA KwLeads == \A m : Leads(Kws(<<m>>), m)
<1> SUFFICES ASSUME NEW m PROVE Leads(Kws(<<m>>), m)
  OBVIOUS
<1> DEFINE l == Kws(<<m>>)
<1>1. IsLine(l) /\ Len(l) = 1 /\ l[1] = Kw(m)
  BY KwLine
<1> HIDE DEF l
<1>2. Leads(l, m)
  BY <1>1 DEF Leads, Kw
<1>3. QED
  BY <1>2 DEF l

LEMMA KwJoinLeads == \A m, b : IsLine(b) => Leads(Kws(<<m>>) \o b, m)
BY KwLeads, LeadsJoin

\* A keyword and one more token.
LEMMA KwAndLine ==
  ASSUME NEW m, NEW x
  PROVE  LET l == Kws(<<m>>) \o <<x>> IN
         IsLine(l) /\ Len(l) = 2 /\ l[1] = Kw(m) /\ l[2] = x
<1> DEFINE a == Kws(<<m>>)
           b == <<x>>
<1>1. IsLine(a) /\ Len(a) = 1 /\ a[1] = Kw(m)
  BY KwLine
<1>2. IsLine(b) /\ Len(b) = 1 /\ b[1] = x
  BY TupleLine
<1> HIDE DEF a, b
<1> DEFINE l == a \o b
<1>3. /\ IsLine(l) /\ Len(l) = Len(a) + Len(b)
      /\ \A i \in 1 .. Len(a) : l[i] = a[i]
      /\ \A i \in 1 .. Len(b) : l[Len(a) + i] = b[i]
  <2>1. IsLine(a) /\ IsLine(b)
    BY <1>1, <1>2
  <2> HIDE DEF l
  <2>2. QED
    BY <2>1, LineJoin DEF l
<1> HIDE DEF l
<1>4. l[1] = a[1]
  BY <1>1, <1>3
<1>5. l[2] = b[1]
  <2>1. 1 \in 1 .. Len(b) /\ Len(a) + 1 = 2
    BY <1>1, <1>2
  <2>2. QED
    BY <1>3, <2>1
<1>6. Len(l) = 2
  BY <1>1, <1>2, <1>3
<1>7. QED
  BY <1>1, <1>2, <1>3, <1>4, <1>5, <1>6 DEF a, b, l

LEMMA PairIs == ASSUME NEW l, IsLine(l), Len(l) = 2 PROVE l = <<l[1], l[2]>>
BY DEF IsLine

-----------------------------------------------------------------------------
\* What the first token of a line says of its word.

Late == {"NLZ", "DNZ", "SRB"}
Control == Skips \cup Returns \cup Jumps \cup {"ENTR", "INIT", "WAIT", "MON", "SWAP"}

\* The words listed as a skip, but for those of Late.
SkipListed(w, c) ==
  \/ Within(w, \h4000, \h47FF) \/ Within(w, \hFA00, \hFBFF)
  \/ \E k \in 0 .. 7 : Within(w, \hC000 + 256 * k, \hC03F + 256 * k)
  \/ Within(w, \hC050, \hC057) \/ w = \hD10D
  \/ (w = \hC14E \/ w = \hC14F) /\ c = "nd110"

Reads(m, w, c) ==
  /\ m = "JMP" <=> Within(w, \hA800, \hAFFF)
  /\ m \in Jumps \ {"JMP"} <=> Within(w, \hB000, \hBFFF)
  /\ m \in Skips \ Late <=> SkipListed(w, c)
  /\ m \in Late <=> Within(w, \hD300, \hD57F)
  /\ m = "ENTR" <=> w = \hC05D
  /\ m = "INIT" <=> w = \hC05C
  /\ m = "EXIT" <=> w = \hCC62
  /\ m \in {"LEAVE", "ELEAV"} <=> w = \hC05E \/ w = \hC05F
  /\ m = "WAIT" <=> Within(w, \hD200, \hD2FF)
  /\ m = "MON" <=> Within(w, \hD600, \hD6FF)
  /\ m = "SWAP" => Within(w, \hC800, \hCFFF)

\* The words a name of Control can belong to on the processor c.
Marked(w, c) ==
  \/ Within(w, \h4000, \h47FF) \/ Within(w, \hA800, \hBFFF) \/ Within(w, \hFA00, \hFBFF)
  \/ \E k \in 0 .. 7 : Within(w, \hC000 + 256 * k, \hC03F + 256 * k)
  \/ Within(w, \hC050, \hC057) \/ Within(w, \hC05C, \hC05F) \/ w = \hD10D
  \/ (w = \hC14E \/ w = \hC14F) /\ c = "nd110"
  \/ Within(w, \hC800, \hCFFF)
  \/ Within(w, \hD200, \hD57F) \/ Within(w, \hD600, \hD6FF)

\* A line of the word w on the processor c.
Tells(l, w, c) == \E m : (Leads(l, m) \/ (l = <<>> /\ m = "")) /\ Reads(m, w, c)

LEMMA LeadsTells == \A l, m, w, c : Leads(l, m) /\ Reads(m, w, c) => Tells(l, w, c)
BY DEF Tells

LEMMA JumpsAre ==
  Jumps = {"JMP", "JPL", "JAP", "JAN", "JAZ", "JAF", "JPC", "JNC", "JXZ", "JXN"}
<1>1. Range(CondJumps) = {CondJumps[i] : i \in 1 .. 8}
  BY DEF Range, CondJumps
<1>2. {CondJumps[i] : i \in 1 .. 8} = {"JAP", "JAN", "JAZ", "JAF", "JPC", "JNC", "JXZ", "JXN"}
  BY DEF CondJumps
<1>3. QED
  BY <1>1, <1>2 DEF Jumps

LEMMA PlainReads == \A m, w, c : m \notin Control /\ w \in Nat /\ ~Marked(w, c) => Reads(m, w, c)
<1> SUFFICES ASSUME NEW m, NEW w \in Nat, NEW c, m \notin Control, ~Marked(w, c)
             PROVE  Reads(m, w, c)
  OBVIOUS
<1>1. /\ m \notin {"JMP", "ENTR", "INIT", "EXIT", "WAIT", "MON", "LEAVE", "ELEAV", "SWAP"}
      /\ m \notin Jumps /\ m \notin Skips /\ m \notin Late
  BY DEF Control, Skips, Returns, Jumps, Late
<1>2. /\ ~Within(w, \hA800, \hAFFF) /\ ~Within(w, \hB000, \hBFFF)
      /\ ~Within(w, \hD300, \hD57F) /\ w # \hC05D /\ w # \hC05C /\ w # \hCC62
      /\ w # \hC05E /\ w # \hC05F /\ ~Within(w, \hD200, \hD2FF) /\ ~Within(w, \hD600, \hD6FF)
  BY DEF Marked, Within
<1>3. ~SkipListed(w, c)
  BY DEF Marked, SkipListed
<1>4. QED
  BY <1>1, <1>2, <1>3, SMT DEF Reads

-----------------------------------------------------------------------------
\* Memory reference instructions, jumps and arguments.

LEMMA ModeStrings ==
  \E S : \A i \in 1 .. 8 : relmode_str[i] \in Seq(S) /\ (Len(relmode_str[i]) = 0 <=> i = 1)
<1> DEFINE S == {"I", ",B", ",X"}
           Empty(s) == Len(s) = 0
<1>1. <<>> \in Seq(S) /\ Empty(<<>>)
  OBVIOUS
<1>2. "I" \in S /\ ",B" \in S /\ ",X" \in S
  OBVIOUS
<1> HIDE DEF S
<1>3. ASSUME NEW x \in S PROVE <<x>> \in Seq(S) /\ ~Empty(<<x>>)
  <2>1. <<x>> \in Seq(S) /\ Len(<<x>>) = 1
    OBVIOUS
  <2>2. QED
    BY <2>1
<1>4. ASSUME NEW x \in S, NEW y \in S PROVE <<x, y>> \in Seq(S) /\ ~Empty(<<x, y>>)
  <2>1. <<x, y>> \in Seq(S) /\ Len(<<x, y>>) = 2
    OBVIOUS
  <2>2. QED
    BY <2>1
<1>5. ASSUME NEW x \in S, NEW y \in S, NEW z \in S
      PROVE  <<x, y, z>> \in Seq(S) /\ ~Empty(<<x, y, z>>)
  <2>1. <<x, y, z>> \in Seq(S) /\ Len(<<x, y, z>>) = 3
    OBVIOUS
  <2>2. QED
    BY <2>1
<1> HIDE DEF Empty
<1>6. relmode_str[1] \in Seq(S) /\ Empty(relmode_str[1])
  BY <1>1 DEF relmode_str
<1>7. /\ relmode_str[2] \in Seq(S) /\ ~Empty(relmode_str[2])
      /\ relmode_str[3] \in Seq(S) /\ ~Empty(relmode_str[3])
      /\ relmode_str[5] \in Seq(S) /\ ~Empty(relmode_str[5])
  BY <1>3, <1>2 DEF relmode_str
<1>8. /\ relmode_str[4] \in Seq(S) /\ ~Empty(relmode_str[4])
      /\ relmode_str[6] \in Seq(S) /\ ~Empty(relmode_str[6])
      /\ relmode_str[7] \in Seq(S) /\ ~Empty(relmode_str[7])
  BY <1>4, <1>2 DEF relmode_str
<1>9. relmode_str[8] \in Seq(S) /\ ~Empty(relmode_str[8])
  BY <1>5, <1>2 DEF relmode_str
<1>10. \A i \in 1 .. 8 : relmode_str[i] \in Seq(S) /\ (Empty(relmode_str[i]) <=> i = 1)
  <2>1. \A i \in 1 .. 8 : i = 1 \/ i = 2 \/ i = 3 \/ i = 4 \/ i = 5 \/ i = 6 \/ i = 7 \/ i = 8
    OBVIOUS
  <2>2. QED
    BY <1>6, <1>7, <1>8, <1>9, <2>1
<1>11. QED
  BY <1>10 DEF Empty

LEMMA ModeField == \A w \in Nat : Field(w, 8, 3) \in 0 .. 7
BY DEF Field

\* The line of an instruction with an address: two tokens if it has no mode.
LEMMA MemrefLine ==
  ASSUME NEW m, NEW w \in Nat
  PROVE  LET l == MemrefText(m, w) IN
         /\ Leads(l, m)
         /\ Len(l) = 2 <=> Field(w, 8, 3) = 0
         /\ Len(l) = 2 => l[2] = Offset(w)
<1> DEFINE k == Field(w, 8, 3) + 1
           mode == relmode_str[k]
           s == <<m>> \o mode
           a == Kws(s)
           b == <<Offset(w)>>
           l == MemrefText(m, w)
<1>1. k \in 1 .. 8 /\ (k = 1 <=> Field(w, 8, 3) = 0)
  BY ModeField
<1>2. PICK S : mode \in Seq(S) /\ (Len(mode) = 0 <=> k = 1)
  BY <1>1, ModeStrings
<1> HIDE DEF k, mode
<1> DEFINE T == {m} \cup S
<1>3. <<m>> \in Seq(T) /\ mode \in Seq(T)
  BY <1>2, SeqMonotonic
<1> HIDE DEF T
<1>4. s \in Seq(T) /\ Len(s) = 1 + Len(mode) /\ s[1] = m /\ Len(mode) \in Nat
  BY <1>3
<1> HIDE DEF s
<1>5. Leads(a, m)
  BY <1>4, LeadsKws
<1>6. Len(a) = 1 + Len(mode) /\ IsLine(a)
  BY <1>4, KwsLine
<1>7. IsLine(b) /\ Len(b) = 1 /\ b[1] = Offset(w)
  BY TupleLine
<1>8. l = a \o b
  BY DEF MemrefText, a, b, s, mode, k
<1> HIDE DEF a, b, l
<1>9. Leads(l, m)
  BY <1>5, <1>7, <1>8, LeadsJoin
<1>10. Len(l) = Len(a) + Len(b) /\ \A i \in 1 .. Len(b) : l[Len(a) + i] = b[i]
  <2>1. IsLine(a) /\ IsLine(b)
    BY <1>6, <1>7
  <2>2. QED
    BY <1>8, <2>1, LineJoin
<1>11. Len(l) = 2 + Len(mode)
  BY <1>4, <1>6, <1>7, <1>10
<1>12. Len(l) = 2 <=> Field(w, 8, 3) = 0
  BY <1>1, <1>2, <1>4, <1>11
<1>13. Len(l) = 2 => l[2] = Offset(w)
  <2>1. ASSUME Len(l) = 2 PROVE Len(a) = 1
    <3>1. Len(mode) = 0
      <4>1. \A n \in Nat : 2 = 2 + n => n = 0
        OBVIOUS
      <4>2. QED
        BY <1>4, <1>11, <2>1, <4>1, Zenon
    <3>2. QED
      BY <1>6, <3>1
  <2>2. 1 \in 1 .. Len(b) /\ 1 + 1 = 2
    BY <1>7
  <2>3. QED
    BY <1>7, <1>10, <2>1, <2>2
<1>14. QED
  BY <1>9, <1>12, <1>13 DEF l

LEMMA ControlIs ==
  \A m : m \in Control <=>
     \/ m \in {"SKP", "BSKP", "MIN", "IOXT", "NLZ", "DNZ", "SRB", "ADDD", "SUBD", "COMD", "TSET"}
     \/ m \in {"PACK", "UPACK", "SHDE", "RDUS", "TSETP", "RDUSP", "EXIT", "LEAVE", "ELEAV"}
     \/ m \in {"JMP", "JPL", "JAP", "JAN", "JAZ", "JAF", "JPC", "JNC", "JXZ", "JXN"}
     \/ m \in {"ENTR", "INIT", "WAIT", "MON", "SWAP"}
BY JumpsAre DEF Control, Skips, Returns

LEMMA MemrefNames ==
  \A i \in 1 .. 22 : /\ i = 9 => Memref[i] = "MIN"
                     /\ i = 22 => Memref[i] = "JMP"
                     /\ i \notin {9, 22} => Memref[i] \notin Control
<1>1. \A i \in 1 .. 11 : i # 9 => Memref[i] \notin Control
  BY ControlIs DEF Memref
<1>2. \A i \in 12 .. 21 : Memref[i] \notin Control
  BY ControlIs DEF Memref
<1>3. Memref[9] = "MIN" /\ Memref[22] = "JMP"
  BY DEF Memref
<1>4. \A i \in 1 .. 22 : i \in 1 .. 11 \/ i \in 12 .. 21 \/ i = 22
  OBVIOUS
<1>5. QED
  BY <1>1, <1>2, <1>3, <1>4

LEMMA JumpNames == \A i \in 1 .. 8 : CondJumps[i] \in Jumps \ {"JMP"}
BY JumpsAre DEF CondJumps

ArgumentNames == <<"SAB", "SAA", "SAT", "SAX", "AAB", "AAA", "AAT", "AAX">>

LEMMA ArgumentPlain == \A i \in 1 .. 8 : ArgumentNames[i] \notin Control
BY ControlIs DEF ArgumentNames

\* The names of one kind each.
LEMMA KindReads ==
  ASSUME NEW w \in Nat, NEW c
  PROVE  /\ Within(w, \h4000, \h47FF) => Reads("MIN", w, c)
         /\ Within(w, \hA800, \hAFFF) => Reads("JMP", w, c)
         /\ \A m \in Jumps \ {"JMP"} : Within(w, \hB000, \hBFFF) => Reads(m, w, c)
         /\ Within(w, \hFA00, \hFBFF) => Reads("BSKP", w, c)
         /\ (\E k \in 0 .. 7 : Within(w, \hC000 + 256 * k, \hC03F + 256 * k)) => Reads("SKP", w, c)
         /\ Within(w, \hD200, \hD2FF) => Reads("WAIT", w, c)
         /\ \A m \in Late : Within(w, \hD300, \hD57F) => Reads(m, w, c)
         /\ Within(w, \hD600, \hD6FF) => Reads("MON", w, c)
<1>1. Within(w, \h4000, \h47FF) => Reads("MIN", w, c)
  BY JumpsAre DEF Reads, Within, SkipListed, Skips, Late
<1>2. Within(w, \hA800, \hAFFF) => Reads("JMP", w, c)
  BY JumpsAre DEF Reads, Within, SkipListed, Skips, Late
<1>3. ASSUME NEW m \in Jumps \ {"JMP"}, Within(w, \hB000, \hBFFF) PROVE Reads(m, w, c)
  BY <1>3, JumpsAre DEF Reads, Within, SkipListed, Skips, Late
<1>4. Within(w, \hFA00, \hFBFF) => Reads("BSKP", w, c)
  BY JumpsAre DEF Reads, Within, SkipListed, Skips, Late
<1>5. ASSUME NEW k \in 0 .. 7, Within(w, \hC000 + 256 * k, \hC03F + 256 * k) PROVE Reads("SKP", w, c)
  <2>1. SkipListed(w, c)
    BY <1>5 DEF SkipListed
  <2>2. \A i \in 0 .. 7 : i <= 0 \/ i >= 1
    OBVIOUS
  <2>3. \hC000 <= w /\ w <= \hC73F
    BY <1>5 DEF Within
  <2>4. w # \hC05D /\ w # \hC05C /\ w # \hC05E /\ w # \hC05F
    BY <1>5 DEF Within
  <2>5. QED
    BY <2>1, <2>3, <2>4, JumpsAre DEF Reads, Within, Skips, Late
<1>6. Within(w, \hD200, \hD2FF) => Reads("WAIT", w, c)
  BY JumpsAre DEF Reads, Within, SkipListed, Skips, Late
<1>7. ASSUME NEW m \in Late, Within(w, \hD300, \hD57F) PROVE Reads(m, w, c)
  BY <1>7, JumpsAre DEF Reads, Within, SkipListed, Skips, Late
<1>8. Within(w, \hD600, \hD6FF) => Reads("MON", w, c)
  BY JumpsAre DEF Reads, Within, SkipListed, Skips, Late
<1>9. QED
  BY <1>1, <1>2, <1>3, <1>4, <1>5, <1>6, <1>7, <1>8

-----------------------------------------------------------------------------
\* Instructions named by a table.

LEMMA PlainTells ==
  \A l, m, w, c : Leads(l, m) /\ m \notin Control /\ w \in Nat /\ ~Marked(w, c) => Tells(l, w, c)
BY PlainReads, LeadsTells

LEMMA NameTells ==
  ASSUME NEW table, NEW v, NEW w, NEW c, Known(table, v),
         \A n \in DOMAIN table : table[n] = v => Reads(n, w, c)
  PROVE  Tells(Name(table, v), w, c)
<1> DEFINE n == CHOOSE n \in Named(table, v) : TRUE
<1>1. n \in Named(table, v)
  BY DEF Known
<1>2. Reads(n, w, c)
  BY <1>1 DEF Named
<1>3. Name(table, v) = Kws(<<n>>)
  BY DEF Name
<1> HIDE DEF n
<1>4. QED
  BY <1>2, <1>3, KwLeads, LeadsTells

LEMMA NameIsLine == ASSUME NEW table, NEW v PROVE IsLine(Name(table, v))
BY KwLine DEF Name

LEMMA PlainNames ==
  /\ \A n \in DOMAIN Masked : n \notin Control
  /\ \A n \in DOMAIN Masked100 : n \notin Control
  /\ \A i \in 1 .. 8 : Deltas[i] \notin Control
  /\ \A i \in 1 .. 7 : PhysMem[i] \notin Control
<1>1. \A n \in DOMAIN Masked : n \notin Control
  BY ControlIs DEF Masked
<1>2. \A n \in DOMAIN Masked100 : n \notin Control
  BY ControlIs DEF Masked100
<1>3. \A i \in 1 .. 8 : Deltas[i] \notin Control
  BY ControlIs DEF Deltas
<1>4. \A i \in 1 .. 7 : PhysMem[i] \notin Control
  BY ControlIs DEF PhysMem
<1>5. QED
  BY <1>1, <1>2, <1>3, <1>4

\* The words of one skip or frame instruction each.
LEMMA WordReads ==
  \A c : /\ \A n \in Skips \ Late : \A w \in Nat : Within(w, \hC050, \hC057) \/ w = \hD10D => Reads(n, w, c)
         /\ Reads("INIT", \hC05C, c) /\ Reads("ENTR", \hC05D, c)
         /\ Reads("LEAVE", \hC05E, c) /\ Reads("ELEAV", \hC05F, c)
         /\ Reads("EXIT", \hCC62, c)
         /\ \A n \in Skips \ Late : Reads(n, \hC14E, "nd110") /\ Reads(n, \hC14F, "nd110")
<1> SUFFICES ASSUME NEW c
             PROVE
         /\ \A n \in Skips \ Late : \A w \in Nat : Within(w, \hC050, \hC057) \/ w = \hD10D => Reads(n, w, c)
         /\ Reads("INIT", \hC05C, c) /\ Reads("ENTR", \hC05D, c)
         /\ Reads("LEAVE", \hC05E, c) /\ Reads("ELEAV", \hC05F, c)
         /\ Reads("EXIT", \hCC62, c)
         /\ \A n \in Skips \ Late : Reads(n, \hC14E, "nd110") /\ Reads(n, \hC14F, "nd110")
  OBVIOUS
<1>1. ASSUME NEW n \in Skips \ Late, NEW w \in Nat, Within(w, \hC050, \hC057) \/ w = \hD10D
      PROVE  Reads(n, w, c)
  BY <1>1, JumpsAre DEF Reads, Within, SkipListed, Skips, Late
<1>2. Reads("INIT", \hC05C, c)
  BY JumpsAre DEF Reads, Within, SkipListed, Skips, Late
<1>3. Reads("ENTR", \hC05D, c)
  BY JumpsAre DEF Reads, Within, SkipListed, Skips, Late
<1>4. Reads("LEAVE", \hC05E, c)
  BY JumpsAre DEF Reads, Within, SkipListed, Skips, Late
<1>5. Reads("ELEAV", \hC05F, c)
  BY JumpsAre DEF Reads, Within, SkipListed, Skips, Late
<1>6. Reads("EXIT", \hCC62, c)
  BY JumpsAre DEF Reads, Within, SkipListed, Skips, Late
<1>7. ASSUME NEW n \in Skips \ Late PROVE Reads(n, \hC14E, "nd110") /\ Reads(n, \hC14F, "nd110")
  BY <1>7, JumpsAre DEF Reads, Within, SkipListed, Skips, Late
<1>8. QED
  BY <1>1, <1>2, <1>3, <1>4, <1>5, <1>6, <1>7

LEMMA ExactReads == \A c : \A n \in DOMAIN Exact : Reads(n, Exact[n], c)
<1> SUFFICES ASSUME NEW c PROVE \A n \in DOMAIN Exact : Reads(n, Exact[n], c)
  OBVIOUS
<1> DEFINE skips == {"ADDD", "SUBD", "COMD", "TSET", "PACK", "UPACK", "SHDE", "RDUS"}
           plain1 == {"BFILL", "MOVB", "MOVBF", "SETPT", "CLEPT", "CLNREENT", "CHREENT_PAGES",
                      "CLEPU", "LWCS"}
           plain2 == {"OPCOM", "IOF", "ION", "POF", "PIOF", "SEX", "REX", "PON", "PION",
                      "EXAM", "DEPO"}
           Unmarked(n) == Exact[n] \in Nat /\ ~Marked(Exact[n], c) /\ n \notin Control
<1>1. DOMAIN Exact = skips \cup plain1 \cup plain2
                     \cup {"INIT", "ENTR", "LEAVE", "ELEAV", "IOXT", "EXIT"}
  BY DEF Exact
<1>2. \A n \in skips : Exact[n] \in Nat /\ Within(Exact[n], \hC050, \hC057) /\ n \in Skips \ Late
  BY DEF Exact, Within, Skips, Late
<1>3. /\ Exact["IOXT"] = \hD10D /\ Exact["EXIT"] = \hCC62 /\ Exact["INIT"] = \hC05C
      /\ Exact["ENTR"] = \hC05D /\ Exact["LEAVE"] = \hC05E /\ Exact["ELEAV"] = \hC05F
  BY DEF Exact
<1>4. "IOXT" \in Skips \ Late
  BY DEF Skips, Late
<1>5. \A n \in plain1 : Unmarked(n)
  <2>1. \A n \in plain1 : n \notin Control
    BY ControlIs
  <2>2. \A n \in plain1 : Exact[n] \in Nat /\ (Within(Exact[n], \hC058, \hC05A)
                                              \/ Within(Exact[n], \hC0C0, \hC0C4)
                                              \/ Exact[n] = \hC740)
    BY DEF Exact, Within
  <2>3. \A w \in Nat : Within(w, \hC058, \hC05A) \/ Within(w, \hC0C0, \hC0C4) \/ w = \hC740
                       => ~Marked(w, c)
    BY DEF Marked, Within
  <2> HIDE DEF plain1
  <2>4. QED
    BY <2>1, <2>2, <2>3
<1>6. \A n \in plain2 : Unmarked(n)
  <2>1. \A n \in plain2 : n \notin Control
    BY ControlIs
  <2>2. \A n \in plain2 : Exact[n] \in Nat /\ (Within(Exact[n], \hD100, \hD10C)
                                              \/ Within(Exact[n], \hD10E, \hD10F))
    BY DEF Exact, Within
  <2>3. \A w \in Nat : Within(w, \hD100, \hD10C) \/ Within(w, \hD10E, \hD10F) => ~Marked(w, c)
    BY DEF Marked, Within
  <2> HIDE DEF plain2
  <2>4. QED
    BY <2>1, <2>2, <2>3
<1>7. \A n \in plain1 \cup plain2 : Reads(n, Exact[n], c)
  BY <1>5, <1>6, PlainReads
<1> HIDE DEF Unmarked, plain1, plain2
<1>8. \A n \in skips : Reads(n, Exact[n], c)
  BY <1>2, WordReads
<1> HIDE DEF skips
<1>9. /\ Reads("IOXT", Exact["IOXT"], c) /\ Reads("EXIT", Exact["EXIT"], c)
      /\ Reads("INIT", Exact["INIT"], c) /\ Reads("ENTR", Exact["ENTR"], c)
      /\ Reads("LEAVE", Exact["LEAVE"], c) /\ Reads("ELEAV", Exact["ELEAV"], c)
  BY <1>3, <1>4, WordReads
<1>10. QED
  BY <1>1, <1>7, <1>8, <1>9

LEMMA Exact110Reads == \A n \in DOMAIN Exact110 : Reads(n, Exact110[n], "nd110")
<1> DEFINE plain == {"VERSN", "WGLOB", "RGLOB", "INSPL", "REMPL", "CNREK", "CLPT", "ENPT",
                     "REPT", "LBIT", "SBITP", "LBYTP", "SBYTP"}
<1>1. DOMAIN Exact110 = plain \cup {"TSETP", "RDUSP"}
  BY DEF Exact110
<1>2. Exact110["TSETP"] = \hC14E /\ Exact110["RDUSP"] = \hC14F
  BY DEF Exact110
<1>3. {"TSETP", "RDUSP"} \subseteq Skips \ Late
  BY DEF Skips, Late
<1>4. \A n \in plain : n \notin Control
  BY ControlIs
<1>5. \A n \in plain : Exact110[n] \in Nat /\ (Exact110[n] = \hC05B
                                               \/ Within(Exact110[n], \hC140, \hC14D))
  BY DEF Exact110, Within
<1>6. \A w \in Nat : w = \hC05B \/ Within(w, \hC140, \hC14D) => ~Marked(w, "nd110")
  BY DEF Marked, Within
<1> HIDE DEF plain
<1>7. \A n \in plain : Reads(n, Exact110[n], "nd110")
  BY <1>4, <1>5, <1>6, PlainReads
<1>8. QED
  BY <1>1, <1>2, <1>3, <1>7, WordReads

\* The words that no table of exact words names.
LEMMA UnknownExact ==
  \A w \in Nat : ~Known(Exact, w) =>
    ~Within(w, \hC050, \hC057) /\ ~Within(w, \hC05C, \hC05F) /\ w # \hD10D /\ w # \hCC62
<1> SUFFICES ASSUME NEW w \in Nat, ~Known(Exact, w)
             PROVE  /\ ~Within(w, \hC050, \hC057) /\ ~Within(w, \hC05C, \hC05F)
                    /\ w # \hD10D /\ w # \hCC62
  OBVIOUS
<1>1. \A n \in DOMAIN Exact : Exact[n] # w
  BY DEF Known, Named
<1>2. /\ w # \hC050 /\ w # \hC051 /\ w # \hC052 /\ w # \hC053
      /\ w # \hC054 /\ w # \hC055 /\ w # \hC056 /\ w # \hC057
  <2>1. {"ADDD", "SUBD", "COMD", "TSET", "PACK", "UPACK", "SHDE", "RDUS"} \subseteq DOMAIN Exact
    BY DEF Exact
  <2>2. /\ Exact["ADDD"] = \hC050 /\ Exact["SUBD"] = \hC051 /\ Exact["COMD"] = \hC052
        /\ Exact["TSET"] = \hC053 /\ Exact["PACK"] = \hC054 /\ Exact["UPACK"] = \hC055
        /\ Exact["SHDE"] = \hC056 /\ Exact["RDUS"] = \hC057
    BY DEF Exact
  <2>3. QED
    BY <1>1, <2>1, <2>2
<1>3. w # \hC05C /\ w # \hC05D /\ w # \hC05E /\ w # \hC05F /\ w # \hD10D /\ w # \hCC62
  <2>1. {"INIT", "ENTR", "LEAVE", "ELEAV", "IOXT", "EXIT"} \subseteq DOMAIN Exact
    BY DEF Exact
  <2>2. /\ Exact["IOXT"] = \hD10D /\ Exact["EXIT"] = \hCC62 /\ Exact["INIT"] = \hC05C
        /\ Exact["ENTR"] = \hC05D /\ Exact["LEAVE"] = \hC05E /\ Exact["ELEAV"] = \hC05F
    BY DEF Exact
  <2>3. QED
    BY <1>1, <2>1, <2>2
<1>4. QED
  BY <1>2, <1>3 DEF Within

LEMMA UnknownExact110 == \A w : ~Known(Exact110, w) => w # \hC14E /\ w # \hC14F
<1>1. "TSETP" \in DOMAIN Exact110 /\ "RDUSP" \in DOMAIN Exact110
  BY DEF Exact110
<1>2. Exact110["TSETP"] = \hC14E /\ Exact110["RDUSP"] = \hC14F
  BY DEF Exact110
<1>3. QED
  BY <1>1, <1>2 DEF Known, Named

-----------------------------------------------------------------------------
\* The groups of instructions.

\* A skip on two registers has the bits 6 and 7 clear.
LEMMA SkipField ==
  \A w \in Nat : Within(w, \hC000, \hC7FF) =>
    (Field(w, 6, 2) = 0 <=> \E k \in 0 .. 7 : Within(w, \hC000 + 256 * k, \hC03F + 256 * k))
<1> SUFFICES ASSUME NEW w \in Nat, Within(w, \hC000, \hC7FF)
             PROVE  Field(w, 6, 2) = 0 <=>
                    \E k \in 0 .. 7 : Within(w, \hC000 + 256 * k, \hC03F + 256 * k)
  OBVIOUS
<1> DEFINE f == (w \div 64) % 4
           r == w - \hC000
           k == r \div 256
           Near(i) == Within(w, \hC000 + 256 * i, \hC03F + 256 * i)
<1>1. Field(w, 6, 2) = f
  BY DEF Field
<1>2. r \in Nat /\ r < 2048 /\ w = \hC000 + r
  BY DEF Within
<1> HIDE DEF r
<1>3. k \in 0 .. 7 /\ 256 * k <= r /\ r < 256 * k + 256
  BY <1>2
<1>4. f = 0 => r < 256 * k + 64
  BY <1>2
<1>5. \A i \in 0 .. 7 : 256 * i <= r /\ r < 256 * i + 64 => f = 0
  BY <1>2
<1> HIDE DEF f, k
<1>6. f = 0 => Near(k)
  BY <1>2, <1>3, <1>4 DEF Within
<1>7. \A i \in 0 .. 7 : Near(i) => 256 * i <= r /\ r < 256 * i + 64
  BY <1>2 DEF Within
<1>8. QED
  BY <1>1, <1>3, <1>5, <1>6, <1>7

LEMMA NoName == "" \notin Control
<1> SUFFICES ASSUME "" \in Control PROVE FALSE
  OBVIOUS
<1> DEFINE m == ""
<1>1. /\ m \notin {"SKP", "BSKP", "MIN", "IOXT", "NLZ", "DNZ", "SRB", "ADDD", "SUBD", "COMD", "TSET"}
      /\ m \notin {"PACK", "UPACK", "SHDE", "RDUS", "TSETP", "RDUSP", "EXIT", "LEAVE", "ELEAV"}
      /\ m \notin {"JMP", "JPL", "JAP", "JAN", "JAZ", "JAF", "JPC", "JNC", "JXZ", "JXN"}
      /\ m \notin {"ENTR", "INIT", "WAIT", "MON", "SWAP"}
  OBVIOUS
<1> HIDE DEF m
<1>2. m \notin Control
  BY <1>1, ControlIs
<1>3. QED
  BY <1>2 DEF m

LEMMA EmptyTells == \A w \in Nat : \A c : ~Marked(w, c) => Tells(<<>>, w, c)
<1> SUFFICES ASSUME NEW w \in Nat, NEW c, ~Marked(w, c) PROVE Tells(<<>>, w, c)
  OBVIOUS
<1> DEFINE m == ""
<1>1. Reads(m, w, c)
  BY NoName, PlainReads
<1>2. <<>> = <<>> /\ m = ""
  OBVIOUS
<1> HIDE DEF m
<1>3. QED
  BY <1>1, <1>2, Zenon DEF Tells

LEMMA IdentsKnown == \A w \in Nat : Known(Idents, w) => w # \hC14E /\ w # \hC14F
BY DEF Known, Named, Idents

\* The line of a skip on two registers.
LEMMA SkipText ==
  ASSUME NEW x, NEW y, NEW k
  PROVE  Leads(Kws(<<"SKP", "IF">>) \o <<x>> \o Kws(<<k>>) \o <<y>>, "SKP")
<1> DEFINE s == <<"SKP", "IF">>
           a == Kws(s)
           b == Kws(<<k>>)
           q == a \o <<x>>
           r == q \o b
<1>1. Leads(a, "SKP")
  <2>1. s \in Seq({"SKP", "IF"}) /\ Len(s) > 0 /\ s[1] = "SKP"
    OBVIOUS
  <2> HIDE DEF s
  <2>2. Leads(Kws(s), s[1])
    BY <2>1, LeadsKws
  <2>3. QED
    BY <2>1, <2>2
<1>2. IsLine(b) /\ IsLine(<<x>>) /\ IsLine(<<y>>)
  BY KwLine, TupleLine
<1> HIDE DEF a, b
<1>3. Leads(q, "SKP")
  BY <1>1, <1>2, LeadsJoin
<1> HIDE DEF q
<1>4. Leads(r, "SKP")
  BY <1>2, <1>3, LeadsJoin
<1> HIDE DEF r
<1>5. Leads(r \o <<y>>, "SKP")
  BY <1>2, <1>4, LeadsJoin
<1>6. QED
  BY <1>5 DEF r, q, a, b, s

LEMMA Text140Tells ==
  ASSUME NEW w \in Nat, Within(w, \hC000, \hC7FF), NEW c \in Cpus
  PROVE  Tells(Text140(w, c), w, c)
<1> DEFINE low6 == 64 * (w \div 64)
           low3 == w - 8 * Field(w, 3, 3)
           op == w % 8
           g1 == Field(w, 6, 2) = 0
           g2 == Known(Exact, w)
           g3 == Known(Idents, w)
           g4 == w = \o140133 /\ c = "nd100"
           g5 == c = "nd110" /\ Known(Exact110, w)
           g6 == c = "nd110" /\ low6 = \o140700
           g7 == c = "nd100" /\ Known(Masked100, low6)
           g8 == Known(Masked, low6)
           g9 == low6 = \o140600
           g10 == low6 = \o141200
           g11 == low6 = \o141600
           g12 == Within(low3, \o143300, \o143306)
           dst == Dst(w)
           src == Src(w)
           cond == skiptype_str[Field(w, 8, 3) + 1]
           t1 == Kws(<<"SKP", "IF">>) \o <<dst>> \o Kws(<<cond>>) \o <<src>>
           t2 == Name(Exact, w)
           t3 == Kws(<<"IDENT">>) \o Name(Idents, w)
           t5 == Name(Exact110, w)
           t6 == Kws(<<Deltas[op + 1]>>) \o <<Num(8 * Field(w, 3, 3))>>
           t7 == Name(Masked100, low6)
           t8 == Name(Masked, low6)
           t9 == Kws(<<"EXR">>) \o <<Src(w)>>
           t10 == Kws(<<"RMPY">>) \o <<Src(w), Dst(w)>>
           t11 == Kws(<<"RDIV">>) \o <<Src(w)>>
           t12 == Kws(<<PhysMem[op + 1]>>)
           text == Text140(w, c)
           late == ~g1 /\ ~g2 /\ (g3 \/ ~g5)
<1>1. text = IF g1 THEN t1 ELSE IF g2 THEN t2 ELSE IF g3 THEN t3 ELSE IF g4 THEN <<>>
             ELSE IF g5 THEN t5 ELSE IF g6 THEN t6 ELSE IF g7 THEN t7 ELSE IF g8 THEN t8
             ELSE IF g9 THEN t9 ELSE IF g10 THEN t10 ELSE IF g11 THEN t11
             ELSE IF g12 THEN t12 ELSE Undef
  BY DEF Text140
<1>2. op \in 0 .. 7 /\ w < 65536
  BY DEF Within
<1>3. late => ~Marked(w, c)
  <2> HIDE DEF g1, g2, g3, g5
  <2> SUFFICES ASSUME ~g1, ~g2, g3 \/ ~g5 PROVE ~Marked(w, c)
    OBVIOUS
  <2>1. ~\E k \in 0 .. 7 : Within(w, \hC000 + 256 * k, \hC03F + 256 * k)
    BY SkipField DEF g1
  <2>2. ~Within(w, \hC050, \hC057) /\ ~Within(w, \hC05C, \hC05F) /\ w # \hD10D /\ w # \hCC62
    BY UnknownExact DEF g2
  <2>3. ~((w = \hC14E \/ w = \hC14F) /\ c = "nd110")
    BY UnknownExact110, IdentsKnown DEF g3, g5
  <2>4. QED
    BY <2>1, <2>2, <2>3 DEF Marked, Within
<1>4. g1 => Tells(t1, w, c)
  <2> SUFFICES ASSUME g1 PROVE Tells(t1, w, c)
    OBVIOUS
  <2>1. Reads("SKP", w, c)
    BY SkipField, KindReads
  <2> HIDE DEF dst, src, cond
  <2>2. Leads(t1, "SKP")
    BY SkipText
  <2> HIDE DEF t1
  <2>3. QED
    BY <2>1, <2>2, LeadsTells
<1>5. g2 => Tells(t2, w, c)
  BY NameTells, ExactReads
<1>6. g5 => Tells(t5, w, c)
  BY NameTells, Exact110Reads
<1>7. Leads(t3, "IDENT") /\ "IDENT" \notin Control
  BY NameIsLine, KwJoinLeads, ControlIs
<1>8. late => Tells(<<>>, w, c)
  <2> HIDE DEF late
  <2>1. QED
    BY <1>3, EmptyTells
<1>9. Leads(t6, Deltas[op + 1]) /\ Deltas[op + 1] \notin Control
  <2>1. op + 1 \in 1 .. 8
    BY <1>2
  <2> HIDE DEF op
  <2>2. QED
    BY <2>1, TupleLine, KwJoinLeads, PlainNames
<1>10. late /\ g7 => Tells(t7, w, c)
  <2>1. late => \A n \in DOMAIN Masked100 : Reads(n, w, c)
    BY <1>3, PlainNames, PlainReads
  <2> HIDE DEF late, low6
  <2>2. QED
    BY <2>1, NameTells
<1>11. late /\ g8 => Tells(t8, w, c)
  <2>1. late => \A n \in DOMAIN Masked : Reads(n, w, c)
    BY <1>3, PlainNames, PlainReads
  <2> HIDE DEF late, low6
  <2>2. QED
    BY <2>1, NameTells
<1>12. /\ Leads(t9, "EXR") /\ "EXR" \notin Control /\ Leads(t11, "RDIV") /\ "RDIV" \notin Control
  BY TupleLine, KwJoinLeads, ControlIs
<1>13. Leads(t10, "RMPY") /\ "RMPY" \notin Control
  BY PairLine, KwJoinLeads, ControlIs
<1>14. g12 => Leads(t12, PhysMem[op + 1]) /\ PhysMem[op + 1] \notin Control
  <2>1. g12 => op + 1 \in 1 .. 7
    <3> DEFINE f == (w \div 8) % 8
    <3>1. Field(w, 3, 3) = f
      BY DEF Field
    <3>2. low3 % 8 = op
      <4>1. f \in Nat
        OBVIOUS
      <4> HIDE DEF f
      <4>2. (w - 8 * f) % 8 = w % 8
        BY <4>1
      <4>3. QED
        BY <3>1, <4>2
    <3>3. low3 \in Int
      BY <3>1
    <3> HIDE DEF low3, op
    <3>4. Within(low3, \o143300, \o143306) => low3 % 8 \in 0 .. 6
      BY <3>3 DEF Within
    <3>5. QED
      BY <3>2, <3>4
  <2> HIDE DEF op, g12
  <2>2. QED
    BY <2>1, KwLeads, PlainNames
<1>15. Leads(Undef, "UNDEF") /\ "UNDEF" \notin Control
  BY KwLeads, ControlIs DEF Undef
<1> HIDE DEF g1, g2, g3, g4, g5, g6, g7, g8, g9, g10, g11, g12,
             dst, src, cond, t1, t2, t3, t5, t6, t7, t8, t9, t10, t11, t12, text, low6, low3, op
<1>16. late => /\ Tells(t3, w, c) /\ Tells(t6, w, c) /\ Tells(t9, w, c) /\ Tells(t10, w, c)
               /\ Tells(t11, w, c) /\ (g12 => Tells(t12, w, c)) /\ Tells(Undef, w, c)
  BY <1>3, <1>7, <1>9, <1>12, <1>13, <1>14, <1>15, PlainTells
<1>17. Tells(text, w, c)
  <2>1. CASE g1
    BY <1>1, <1>4, <2>1
  <2>2. CASE ~g1 /\ g2
    BY <1>1, <1>5, <2>2
  <2>3. CASE ~g1 /\ ~g2 /\ ~g3 /\ g5
    <3>1. ~g4
      BY <2>3 DEF g4, g5
    <3>2. QED
      BY <1>1, <1>6, <2>3, <3>1
  <2>4. CASE late
    BY <1>1, <1>8, <1>10, <1>11, <1>16, <2>4
  <2>5. QED
    BY <2>1, <2>2, <2>3, <2>4
<1>18. QED
  BY <1>17 DEF text

LEMMA RopNames ==
  \A i \in 1 .. 7 : <<"SWAP", "RAND", "REXO", "RORA", "RADD", "RADD", "RADD">>[i] \notin Control \ {"SWAP"}
<1> DEFINE names == <<"SWAP", "RAND", "REXO", "RORA", "RADD", "RADD", "RADD">>
<1>1. \A i \in 1 .. 7 : names[i] \notin Control \ {"SWAP"}
  BY ControlIs
<1>2. QED
  BY <1>1

LEMMA RopReads ==
  ASSUME NEW m, m \notin Control \ {"SWAP"}, NEW w \in Nat, Within(w, \hC800, \hCFFF), w # \hCC62,
         NEW c
  PROVE  Reads(m, w, c)
<1>1. /\ m \notin {"JMP", "ENTR", "INIT", "EXIT", "WAIT", "MON", "LEAVE", "ELEAV"}
      /\ m \notin Jumps /\ m \notin Skips /\ m \notin Late
  BY ControlIs, JumpsAre DEF Skips, Late
<1>2. /\ ~Within(w, \hA800, \hAFFF) /\ ~Within(w, \hB000, \hBFFF)
      /\ ~Within(w, \hD300, \hD57F) /\ w # \hC05D /\ w # \hC05C
      /\ w # \hC05E /\ w # \hC05F /\ ~Within(w, \hD200, \hD2FF) /\ ~Within(w, \hD600, \hD6FF)
  BY DEF Within
<1>3. ~SkipListed(w, c)
  BY DEF SkipListed, Within
<1>4. QED
  BY <1>1, <1>2, <1>3, SMT DEF Reads

\* A name, more keywords and operands.
LEMMA NameModsLeads ==
  ASSUME NEW S, NEW m, NEW s \in Seq(S), NEW b, IsLine(b)
  PROVE  Leads(Kws(<<m>> \o s) \o b, m)
<1> DEFINE T == {m} \cup S
           r == <<m>> \o s
<1>1. <<m>> \in Seq(T) /\ s \in Seq(T) /\ Len(<<m>>) = 1 /\ <<m>>[1] = m
  BY SeqMonotonic
<1> HIDE DEF T
<1>2. r \in Seq(T) /\ Len(r) > 0 /\ r[1] = m
  BY <1>1
<1> HIDE DEF r
<1>3. Leads(Kws(r), m)
  BY <1>2, LeadsKws
<1>4. Leads(Kws(r) \o b, m)
  BY <1>3, LeadsJoin
<1>5. QED
  BY <1>4 DEF r

LEMMA RopTells ==
  ASSUME NEW w \in Nat, Within(w, \hC800, \hCFFF), NEW c
  PROVE  Tells(RopText(w), w, c)
<1> DEFINE op == Field(w, 6, 5)
           group == op \div 4
           S == {"AD1", "ADC", "CM1", "CLD"}
           m1 == IF group = 5 THEN <<"AD1">> ELSE <<>>
           m2 == IF group = 6 THEN <<"ADC">> ELSE <<>>
           m3 == IF Field(op, 1, 1) = 1 THEN <<"CM1">> ELSE <<>>
           m4 == IF op % 2 = 1 THEN <<"CLD">> ELSE <<>>
           mods == m1 \o m2 \o m3 \o m4
           name == <<"SWAP", "RAND", "REXO", "RORA", "RADD", "RADD", "RADD">>[group + 1]
           regs == <<Src(w), Dst(w)>>
           text == RopText(w)
           exit == w = Exact.EXIT
           noop == Kws(<<"ROP", "NOOP">>)
           rsub == Kws(<<"RSUB">>) \o regs
           other == Kws(<<name>> \o mods) \o regs
<1>1. text = IF exit THEN Kws(<<"EXIT">>) ELSE IF group = 7 THEN noop
             ELSE IF op = 22 THEN rsub ELSE other
  BY DEF RopText
<1>2. group # 7 => group + 1 \in 1 .. 7
  BY DEF Field
<1>3. IsLine(regs)
  BY PairLine
<1>4. mods \in Seq(S)
  <2>1. /\ <<"AD1">> \in Seq(S) /\ <<"ADC">> \in Seq(S)
        /\ <<"CM1">> \in Seq(S) /\ <<"CLD">> \in Seq(S) /\ <<>> \in Seq(S)
    OBVIOUS
  <2> HIDE DEF S
  <2> DEFINE Mod(p, m) == IF p THEN <<m>> ELSE <<>>
  <2>2. \A p : \A m : <<m>> \in Seq(S) => Mod(p, m) \in Seq(S)
    BY <2>1
  <2>3. m1 = Mod(group = 5, "AD1") /\ m2 = Mod(group = 6, "ADC")
    OBVIOUS
  <2>4. m3 = Mod(Field(op, 1, 1) = 1, "CM1") /\ m4 = Mod(op % 2 = 1, "CLD")
    OBVIOUS
  <2> HIDE DEF Mod, m1, m2, m3, m4
  <2>5. m1 \in Seq(S) /\ m2 \in Seq(S) /\ m3 \in Seq(S) /\ m4 \in Seq(S)
    BY <2>1, <2>2, <2>3, <2>4
  <2> HIDE DEF m1, m2, m3, m4
  <2>6. QED
    BY <2>5
<1>5. Leads(noop, "ROP")
  <2> DEFINE s == <<"ROP", "NOOP">>
  <2>1. s \in Seq({"ROP", "NOOP"}) /\ Len(s) > 0 /\ s[1] = "ROP"
    OBVIOUS
  <2> HIDE DEF s
  <2>2. Leads(Kws(s), "ROP")
    BY <2>1, LeadsKws
  <2>3. QED
    BY <2>2 DEF s
<1>6. exit <=> w = \hCC62
  BY DEF Exact
<1>7. exit => Tells(Kws(<<"EXIT">>), w, c)
  BY <1>6, WordReads, KwLeads, LeadsTells
<1>8. ~exit => \A m : m \notin Control \ {"SWAP"} => Reads(m, w, c)
  BY <1>6, RopReads
<1>9. "ROP" \notin Control /\ "RSUB" \notin Control /\ (group # 7 => name \notin Control \ {"SWAP"})
  <2>1. "ROP" \notin Control /\ "RSUB" \notin Control
    BY ControlIs
  <2> HIDE DEF group
  <2>2. QED
    BY <1>2, <2>1, RopNames
<1> HIDE DEF S, mods, regs, name
<1>10. Leads(rsub, "RSUB")
  BY <1>3, KwJoinLeads
<1>11. Leads(other, name)
  BY <1>3, <1>4, NameModsLeads
<1> HIDE DEF text, noop, rsub, other, exit, group, op
<1>12. ~exit => Tells(noop, w, c) /\ Tells(rsub, w, c) /\ (group # 7 => Tells(other, w, c))
  BY <1>5, <1>8, <1>9, <1>10, <1>11, LeadsTells
<1>13. Tells(text, w, c)
  BY <1>1, <1>7, <1>12
<1>14. QED
  BY <1>13 DEF text

LEMMA Text150Tells ==
  ASSUME NEW w \in Nat, Within(w, \hD000, \hD7FF), NEW c
  PROVE  /\ Tells(Text150(w), w, c)
         /\ Within(w, \hD600, \hD6FF) => Text150(w) = Kws(<<"MON">>) \o <<Num(w % 256)>>
<1> DEFINE byte == Num(w % 256)
           level == Field(w, 3, 4)
           dest == regn_w[(w % 8) + 1]
           op == Field(w, 6, 2)
           internal == (IF op = 0 THEN intregn_r ELSE intregn_w)[(w % 16) + 1]
           names == <<"TRA", "TRR", "MCL", "MST">>
           name == names[op + 1]
           text == Text150(w)
           g0 == Known(Exact, w)
           g1 == w < \o150400
           g2 == Within(w, \o151000, \o151377)
           g3 == Within(w, \o151400, \o151777)
           g4 == Within(w, \o152000, \o152377)
           g5 == Within(w, \o152400, \o152577)
           g6 == Within(w, \o152600, \o152777)
           g7 == Within(w, \o153000, \o153377)
           g8 == Within(w, \o153400, \o153577)
           g9 == Within(w, \o153600, \o153777)
           t0 == Name(Exact, w)
           t1 == Kws(<<name>>) \o <<internal>>
           t2 == Kws(<<"WAIT">>)
           t3 == Kws(<<"NLZ">>) \o <<Offset(w)>>
           t4 == Kws(<<"DNZ">>) \o <<Offset(w)>>
           t5 == Kws(<<"SRB">>) \o <<Num(8 * level)>>
           t6 == Kws(<<"LRB">>) \o <<Num(level)>>
           t7 == Kws(<<"MON">>) \o <<byte>>
           t8 == Kws(<<"IRW">>) \o <<Num(8 * level), dest>>
           t9 == Kws(<<"IRR">>) \o <<Num(8 * level), dest>>
<1>0. text = IF g0 THEN t0 ELSE IF g1 THEN t1 ELSE IF g2 THEN t2 ELSE IF g3 THEN t3
             ELSE IF g4 THEN t4 ELSE IF g5 THEN t5 ELSE IF g6 THEN t6 ELSE IF g7 THEN t7
             ELSE IF g8 THEN t8 ELSE IF g9 THEN t9 ELSE Undef
  BY DEF Text150
<1>1. op + 1 \in 1 .. 4
  BY DEF Field
<1>2. \A i \in 1 .. 4 : names[i] \notin Control
  BY ControlIs
<1>3. "LRB" \notin Control /\ "IRW" \notin Control /\ "IRR" \notin Control /\ "UNDEF" \notin Control
  BY ControlIs
<1> HIDE DEF text, g0, g1, g2, g3, g4, g5, g6, g7, g8, g9, t0, t1, t2, t3, t4, t5, t6, t7, t8, t9,
             names, op, internal, dest, level, byte
<1>4. name \notin Control
  BY <1>1, <1>2
<1> HIDE DEF name
<1>5. g0 => Tells(t0, w, c)
  BY NameTells, ExactReads DEF g0, t0
<1>6. Leads(t1, name) /\ Leads(t2, "WAIT")
  BY TupleLine, KwLeads, KwJoinLeads DEF t1, t2
<1>7. Leads(t3, "NLZ") /\ Leads(t4, "DNZ") /\ Leads(t5, "SRB")
  BY TupleLine, KwJoinLeads DEF t3, t4, t5
<1>8. Leads(t6, "LRB") /\ Leads(t7, "MON")
  BY TupleLine, KwJoinLeads DEF t6, t7
<1>9. Leads(t8, "IRW") /\ Leads(t9, "IRR") /\ Leads(Undef, "UNDEF")
  BY PairLine, KwLeads, KwJoinLeads DEF t8, t9, Undef
<1>10. g2 => Reads("WAIT", w, c)
  BY KindReads DEF g2
<1>11. (g3 \/ g4 \/ g5) => Reads("NLZ", w, c) /\ Reads("DNZ", w, c) /\ Reads("SRB", w, c)
  <2>1. (g3 \/ g4 \/ g5) => Within(w, \hD300, \hD57F)
    BY DEF g3, g4, g5, Within
  <2>2. {"NLZ", "DNZ", "SRB"} = Late
    BY DEF Late
  <2>3. QED
    BY <2>1, <2>2, KindReads
<1>12. g7 => Reads("MON", w, c)
  BY KindReads DEF g7
<1>13. ~g0 /\ ~g2 /\ ~g3 /\ ~g4 /\ ~g5 /\ ~g7 => ~Marked(w, c)
  <2>1. ~g0 => w # \hD10D /\ w # \hCC62
    BY UnknownExact DEF g0
  <2>2. QED
    BY <2>1 DEF g2, g3, g4, g5, g7, Marked, Within
<1>14. g1 => ~g2 /\ ~g3 /\ ~g4 /\ ~g5 /\ ~g7
  BY DEF g1, g2, g3, g4, g5, g7, Within
<1>15. g7 => ~g0 /\ ~g1 /\ ~g2 /\ ~g3 /\ ~g4 /\ ~g5 /\ ~g6
  <2>1. g7 => ~g1 /\ ~g2 /\ ~g3 /\ ~g4 /\ ~g5 /\ ~g6
    BY DEF g1, g2, g3, g4, g5, g6, g7, Within
  <2>2. g7 => ~g0
    <3>1. \A n \in DOMAIN Exact : Exact[n] < \hD600
      BY DEF Exact
    <3>2. QED
      BY <3>1 DEF g0, g7, Known, Named, Within
  <2>3. QED
    BY <2>1, <2>2
<1>16. /\ g2 => Tells(t2, w, c)
       /\ g3 => Tells(t3, w, c)
       /\ g4 => Tells(t4, w, c)
       /\ g5 => Tells(t5, w, c)
       /\ g7 => Tells(t7, w, c)
  BY <1>6, <1>7, <1>8, <1>10, <1>11, <1>12, LeadsTells
<1>17. ~Marked(w, c) => /\ Tells(t1, w, c) /\ Tells(t6, w, c) /\ Tells(t8, w, c)
                        /\ Tells(t9, w, c) /\ Tells(Undef, w, c)
  BY <1>3, <1>4, <1>6, <1>8, <1>9, PlainTells
<1>18. Tells(text, w, c)
  <2>1. CASE g0
    BY <1>0, <1>5, <2>1
  <2>2. CASE ~g0 /\ g1
    BY <1>0, <1>13, <1>14, <1>17, <2>2
  <2>3. CASE ~g0 /\ ~g1 /\ (g2 \/ g3 \/ g4 \/ g5)
    BY <1>0, <1>16, <2>3
  <2>4. CASE g7
    BY <1>0, <1>15, <1>16, <2>4
  <2>5. CASE ~g0 /\ ~g1 /\ ~g2 /\ ~g3 /\ ~g4 /\ ~g5 /\ ~g7
    BY <1>0, <1>13, <1>17, <2>5
  <2>6. QED
    BY <2>1, <2>2, <2>3, <2>4, <2>5
<1>19. g7 => text = t7
  BY <1>0, <1>15
<1>20. QED
  BY <1>18, <1>19 DEF text, g7, t7, byte

LEMMA ShiftTells ==
  ASSUME NEW w \in Nat, Within(w, \hD800, \hDFFF), NEW c
  PROVE  Tells(ShiftText(w), w, c)
<1> DEFINE count == w % 64
           names == <<"SHT", "SHD", "SHA", "SAD">>
           j == Field(w, 7, 2) + 1
           name == names[j]
           k == Field(w, 9, 2) + 1
           S == {"ROT", "ZIN", "LIN"}
           right == Kws(<<"SHR">>) \o <<Num(64 - count)>>
           left == <<Num(count)>>
           b == IF count >= 32 THEN right ELSE left
           s == shtype_str[k]
<1>1. j \in 1 .. 4 /\ k \in 1 .. 4
  BY DEF Field
<1>2. s \in Seq(S)
  <2>1. /\ shtype_str[1] \in Seq(S) /\ shtype_str[2] \in Seq(S)
        /\ shtype_str[3] \in Seq(S) /\ shtype_str[4] \in Seq(S)
    BY DEF shtype_str
  <2> HIDE DEF k
  <2>2. QED
    BY <1>1, <2>1
<1>3. \A i \in 1 .. 4 : names[i] \notin Control
  BY ControlIs
<1>4. ~Marked(w, c)
  BY DEF Marked, Within
<1>5. ShiftText(w) = Kws(<<name>> \o s) \o b
  BY DEF ShiftText
<1> HIDE DEF names, j, k, count, s, S
<1>6. name \notin Control
  BY <1>1, <1>3
<1>7. IsLine(right)
  <2> DEFINE tail == <<Num(64 - count)>>
             keyword == Kws(<<"SHR">>)
  <2>1. IsLine(keyword) /\ IsLine(tail)
    BY KwLine, TupleLine
  <2> HIDE DEF tail, keyword
  <2>2. IsLine(keyword \o tail)
    BY <2>1, LineJoin
  <2>3. QED
    BY <2>2 DEF keyword, tail
<1>8. IsLine(left)
  BY TupleLine
<1> HIDE DEF right, left, name
<1>9. IsLine(b)
  BY <1>7, <1>8
<1> HIDE DEF b
<1>10. Leads(Kws(<<name>> \o s) \o b, name)
  BY <1>2, <1>9, NameModsLeads
<1>11. QED
  BY <1>4, <1>5, <1>6, <1>10, PlainTells

BitNames == {"BSET", "BSKP", "BSTC", "BSTA", "BLDC", "BLDA", "BANC", "BAND",
             "BORC", "BORA", "ZRO", "ONE", "BCM", "BAC"}

\* The keywords of a bit operation: a skip at four of the sixteen.
BitEntry(i) ==
  /\ bop_str[i] \in Seq(BitNames) /\ Len(bop_str[i]) > 0
  /\ i \in 5 .. 8 => bop_str[i][1] = "BSKP"
  /\ i \notin 5 .. 8 => bop_str[i][1] \notin Control

LEMMA BitStrings == \A i \in 1 .. 16 : BitEntry(i)
<1> DEFINE Of(s, m) == s \in Seq(BitNames) /\ Len(s) > 0 /\ s[1] = m
<1>1. ASSUME NEW x \in BitNames PROVE Of(<<x>>, x)
  <2>1. <<x>> \in Seq(BitNames) /\ Len(<<x>>) = 1 /\ <<x>>[1] = x
    OBVIOUS
  <2>2. QED
    BY <2>1
<1>2. ASSUME NEW x \in BitNames, NEW y \in BitNames PROVE Of(<<x, y>>, x)
  <2>1. <<x, y>> \in Seq(BitNames) /\ Len(<<x, y>>) = 2 /\ <<x, y>>[1] = x
    OBVIOUS
  <2>2. QED
    BY <2>1
<1>3. /\ {"BSET", "BSKP", "BSTC", "BSTA", "BLDC", "BLDA", "BANC"} \subseteq BitNames
      /\ {"BAND", "BORC", "BORA", "ZRO", "ONE", "BCM", "BAC"} \subseteq BitNames
  BY DEF BitNames
<1> HIDE DEF Of
<1>4. /\ Of(bop_str[1], "BSET") /\ Of(bop_str[2], "BSET")
      /\ Of(bop_str[3], "BSET") /\ Of(bop_str[4], "BSET")
  BY <1>2, <1>3 DEF bop_str
<1>5. /\ Of(bop_str[5], "BSKP") /\ Of(bop_str[6], "BSKP")
      /\ Of(bop_str[7], "BSKP") /\ Of(bop_str[8], "BSKP")
  BY <1>2, <1>3 DEF bop_str
<1>6. /\ Of(bop_str[9], "BSTC") /\ Of(bop_str[10], "BSTA")
      /\ Of(bop_str[11], "BLDC") /\ Of(bop_str[12], "BLDA")
  BY <1>1, <1>3 DEF bop_str
<1>7. /\ Of(bop_str[13], "BANC") /\ Of(bop_str[14], "BAND")
      /\ Of(bop_str[15], "BORC") /\ Of(bop_str[16], "BORA")
  BY <1>1, <1>3 DEF bop_str
<1>8. \A m \in {"BSET", "BSTC", "BSTA", "BLDC", "BLDA", "BANC", "BAND", "BORC", "BORA"} :
        m \notin Control
  BY ControlIs
<1>9. \A i : \A m \in {"BSET", "BSTC", "BSTA", "BLDC", "BLDA", "BANC", "BAND", "BORC", "BORA"} :
        i \notin 5 .. 8 /\ Of(bop_str[i], m) => BitEntry(i)
  BY <1>8 DEF Of, BitEntry
<1>10. \A i \in 5 .. 8 : Of(bop_str[i], "BSKP") => BitEntry(i)
  BY DEF Of, BitEntry
<1>11. BitEntry(1) /\ BitEntry(2) /\ BitEntry(3) /\ BitEntry(4)
  BY <1>4, <1>9
<1>12. BitEntry(5) /\ BitEntry(6) /\ BitEntry(7) /\ BitEntry(8)
  BY <1>5, <1>10
<1>13. BitEntry(9) /\ BitEntry(10) /\ BitEntry(11) /\ BitEntry(12)
  BY <1>6, <1>9
<1>14. BitEntry(13) /\ BitEntry(14) /\ BitEntry(15) /\ BitEntry(16)
  BY <1>7, <1>9
<1>15. \A i \in 1 .. 16 :
         \/ i = 1 \/ i = 2 \/ i = 3 \/ i = 4 \/ i = 5 \/ i = 6 \/ i = 7 \/ i = 8
         \/ i = 9 \/ i = 10 \/ i = 11 \/ i = 12 \/ i = 13 \/ i = 14 \/ i = 15 \/ i = 16
  OBVIOUS
<1>16. QED
  BY <1>11, <1>12, <1>13, <1>14, <1>15

LEMMA BitTells ==
  ASSUME NEW w \in Nat, Within(w, \hF800, \hFFFF), NEW c
  PROVE  Tells(BitText(w), w, c)
<1> DEFINE bit == Field(w, 3, 4)
           k == Field(w, 7, 4) + 1
           regs == <<Num(8 * bit), regn_w[(w % 8) + 1]>>
           status == Kws(<<bopstsbit_str[bit + 1]>>)
           b == IF w % 8 # 0 THEN regs ELSE IF bit < 8 THEN status ELSE <<>>
           strings == bop_str[k]
           name == strings[1]
           a == Kws(strings)
<1>1. k \in 1 .. 16 /\ (k \in 5 .. 8 <=> Within(w, \hFA00, \hFBFF))
  <2> DEFINE f == (w \div 128) % 16
  <2>1. Field(w, 7, 4) = f
    BY DEF Field
  <2>2. f \in 0 .. 15 /\ (f \in 4 .. 7 <=> Within(w, \hFA00, \hFBFF))
    BY DEF Within
  <2> HIDE DEF f
  <2>3. QED
    BY <2>1, <2>2
<1>2. BitText(w) = a \o b
  BY DEF BitText
<1>3. IsLine(regs) /\ IsLine(status) /\ IsLine(<<>>)
  BY PairLine, KwLine, EmptyLine
<1> HIDE DEF regs, status
<1>4. IsLine(b)
  BY <1>3
<1> HIDE DEF k, b, bit
<1>5. /\ strings \in Seq(BitNames) /\ Len(strings) > 0
      /\ Within(w, \hFA00, \hFBFF) => name = "BSKP"
      /\ ~Within(w, \hFA00, \hFBFF) => name \notin Control
  <2>1. BitEntry(k)
    BY <1>1, BitStrings
  <2>2. QED
    BY <1>1, <2>1 DEF BitEntry
<1> HIDE DEF strings
<1>6. Leads(a, name)
  BY <1>5, LeadsKws
<1> HIDE DEF a, name
<1>7. Leads(a \o b, name)
  BY <1>4, <1>6, LeadsJoin
<1>8. CASE Within(w, \hFA00, \hFBFF)
  <2>1. Reads("BSKP", w, c)
    BY <1>8, KindReads
  <2>2. QED
    BY <1>2, <1>5, <1>7, <1>8, <2>1, LeadsTells
<1>9. CASE ~Within(w, \hFA00, \hFBFF)
  <2>1. ~Marked(w, c)
    BY <1>9 DEF Marked, Within
  <2>2. QED
    BY <1>2, <1>5, <1>7, <1>9, <2>1, PlainTells
<1>10. QED
  BY <1>8, <1>9

LEMMA MemrefTells ==
  ASSUME NEW i \in 1 .. 22, NEW w \in Nat, 2048 * (i - 1) <= w, w < 2048 * i, NEW c
  PROVE  Tells(MemrefText(Memref[i], w), w, c)
<1>1. Leads(MemrefText(Memref[i], w), Memref[i])
  BY MemrefLine
<1>2. CASE i = 9
  <2>1. Memref[i] = "MIN" /\ Within(w, \h4000, \h47FF)
    BY <1>2, MemrefNames DEF Within
  <2>2. Reads("MIN", w, c)
    BY <2>1, KindReads
  <2>3. QED
    BY <1>1, <2>1, <2>2, LeadsTells
<1>3. CASE i = 22
  <2>1. Memref[i] = "JMP" /\ Within(w, \hA800, \hAFFF)
    BY <1>3, MemrefNames DEF Within
  <2>2. Reads("JMP", w, c)
    BY <2>1, KindReads
  <2>3. QED
    BY <1>1, <2>1, <2>2, LeadsTells
<1>4. CASE i \notin {9, 22}
  <2>1. Memref[i] \notin Control
    BY <1>4, MemrefNames
  <2>2. ~Within(w, \h4000, \h47FF) /\ w < \hA800
    <3>1. i <= 8 \/ (i >= 10 /\ i <= 21)
      BY <1>4
    <3>2. QED
      BY <3>1 DEF Within
  <2>3. ~Marked(w, c)
    BY <2>2 DEF Marked, Within
  <2>4. QED
    BY <1>1, <2>1, <2>3, PlainTells
<1>5. QED
  BY <1>2, <1>3, <1>4

(* nd100_disasm: a line of every word, which begins with the name its word    *)
(* has, and all of it for a jump, a monitor call and a register operation.    *)
DisasmSays(l, w) ==
  /\ Within(w, \hA800, \hAFFF) => l = MemrefText("JMP", w)
  /\ Within(w, \hB000, \hB7FF) => Len(l) = 2 /\ l[2] = Offset(w)
  /\ Within(w, \hB800, \hBFFF) => l = MemrefText("JPL", w)
  /\ Within(w, \hC800, \hCFFF) => l = RopText(w)
  /\ Within(w, \hD600, \hD6FF) => l = Kws(<<"MON">>) \o <<Num(w % 256)>>

LEMMA DisasmTells ==
  ASSUME NEW w, IsWord(w), NEW c \in Cpus
  PROVE  Tells(nd100_disasm(w, c), w, c) /\ DisasmSays(nd100_disasm(w, c), w)
<1> DEFINE text == nd100_disasm(w, c)
           top == w \div 2048
           sub == Field(w, 8, 3)
           low == w % 2048
           memref == Memref[top + 1]
           jump == CondJumps[sub + 1]
           arg == <<"SAB", "SAA", "SAT", "SAX", "AAB", "AAA", "AAT", "AAX">>[sub + 1]
           t21 == MemrefText(memref, w)
           t22 == Kws(<<jump>>) \o <<Offset(w)>>
           t23 == MemrefText("JPL", w)
           t24 == Text140(w, c)
           t25 == RopText(w)
           t26 == Text150(w)
           t27 == ShiftText(w)
           t28 == Kws(<<"IOT">>) \o <<Num(low)>>
           t29 == Kws(<<"IOX">>) \o <<Num(low)>>
           t30 == Kws(<<arg>>) \o <<Offset(w)>>
           t31 == BitText(w)
<1>1. w \in Nat /\ w < 65536
  BY DEF IsWord
<1>2. top \in Nat /\ top < 32 /\ 2048 * top <= w /\ w < 2048 * top + 2048
  BY <1>1
<1>3. sub + 1 \in 1 .. 8
  BY <1>1, ModeField
<1>4. text = CASE top <= 21 -> t21 [] top = 22 -> t22 [] top = 23 -> t23 [] top = 24 -> t24
               [] top = 25 -> t25 [] top = 26 -> t26 [] top = 27 -> t27 [] top = 28 -> t28
               [] top = 29 -> t29 [] top = 30 -> t30 [] top = 31 -> t31
  BY DEF nd100_disasm
<1>5. arg \notin Control
  BY <1>3, ArgumentPlain DEF ArgumentNames
<1>6. jump \in Jumps \ {"JMP"}
  BY <1>3, JumpNames
<1> HIDE DEF sub, low
<1>7. Leads(t28, "IOT") /\ Leads(t29, "IOX")
  BY TupleLine, KwJoinLeads
<1> HIDE DEF arg, jump
<1>8. Leads(t30, arg) /\ Leads(t22, jump)
  BY TupleLine, KwJoinLeads
<1>9. Len(t22) = 2 /\ t22[2] = Offset(w)
  BY KwAndLine
<1>10. "IOT" \notin Control /\ "IOX" \notin Control
  BY ControlIs
<1> HIDE DEF text, memref, top, t21, t22, t23, t24, t25, t26, t27, t28, t29, t30, t31
<1>11. CASE top <= 21
  <2>1. text = t21
    BY <1>2, <1>4, <1>11
  <2>2. top + 1 \in 1 .. 22 /\ 2048 * ((top + 1) - 1) <= w /\ w < 2048 * (top + 1)
    BY <1>1, <1>2, <1>11
  <2>3. Within(w, \hA800, \hAFFF) => top = 21
    BY <1>1, <1>2 DEF Within
  <2>4. w < \hB000
    BY <1>1, <1>2, <1>11
  <2>5. Tells(t21, w, c)
    <3> DEFINE i == top + 1
    <3> HIDE DEF i
    <3>1. i \in 1 .. 22 /\ 2048 * (i - 1) <= w /\ w < 2048 * i
      BY <2>2 DEF i
    <3>2. Tells(MemrefText(Memref[i], w), w, c)
      BY <1>1, <3>1, MemrefTells
    <3>3. QED
      BY <3>2 DEF i, t21, memref
  <2>6. Within(w, \hA800, \hAFFF) => t21 = MemrefText("JMP", w)
    BY <2>3, MemrefNames DEF t21, memref
  <2>7. QED
    BY <1>1, <2>1, <2>4, <2>5, <2>6 DEF DisasmSays, Within, text
<1>12. CASE top = 22
  <2>1. text = t22
    BY <1>4, <1>12
  <2>2. Within(w, \hB000, \hB7FF)
    BY <1>1, <1>2, <1>12 DEF Within
  <2>3. Tells(t22, w, c)
    <3>1. Within(w, \hB000, \hBFFF)
      BY <1>1, <2>2 DEF Within
    <3>2. Reads(jump, w, c)
      BY <1>1, <1>6, <3>1, KindReads
    <3>3. QED
      BY <1>8, <3>2, LeadsTells
  <2>4. \hB000 <= w /\ w <= \hB7FF
    BY <2>2 DEF Within
  <2>5. QED
    BY <1>1, <1>9, <2>1, <2>3, <2>4 DEF DisasmSays, Within, text
<1>13. CASE top = 23
  <2>1. text = t23
    BY <1>4, <1>13
  <2>2. Within(w, \hB800, \hBFFF)
    BY <1>1, <1>2, <1>13 DEF Within
  <2>3. Tells(t23, w, c)
    <3>1. "JPL" \in Jumps \ {"JMP"}
      BY JumpsAre
    <3>2. Within(w, \hB000, \hBFFF)
      BY <1>1, <2>2 DEF Within
    <3>3. Reads("JPL", w, c)
      BY <1>1, <3>1, <3>2, KindReads
    <3>4. Leads(t23, "JPL")
      BY <1>1, MemrefLine DEF t23
    <3>5. QED
      BY <3>3, <3>4, LeadsTells
  <2>4. \hB800 <= w /\ w <= \hBFFF
    BY <2>2 DEF Within
  <2>5. QED
    BY <1>1, <2>1, <2>3, <2>4 DEF DisasmSays, Within, text, t23
<1>14. CASE top = 24
  <2>1. text = t24
    BY <1>4, <1>14
  <2>2. \hC000 <= w /\ w <= \hC7FF
    BY <1>1, <1>2, <1>14
  <2>3. Tells(t24, w, c)
    BY <1>1, <2>2, Text140Tells DEF t24, Within
  <2>4. QED
    BY <1>1, <2>1, <2>2, <2>3 DEF DisasmSays, Within, text
<1>15. CASE top = 25
  <2>1. text = t25
    BY <1>4, <1>15
  <2>2. \hC800 <= w /\ w <= \hCFFF
    BY <1>1, <1>2, <1>15
  <2>3. Tells(t25, w, c)
    BY <1>1, <2>2, RopTells DEF t25, Within
  <2>4. QED
    BY <1>1, <2>1, <2>2, <2>3 DEF DisasmSays, Within, text, t25
<1>16. CASE top = 26
  <2>1. text = t26
    BY <1>4, <1>16
  <2>2. \hD000 <= w /\ w <= \hD7FF
    BY <1>1, <1>2, <1>16
  <2>3. Within(w, \hD000, \hD7FF)
    BY <2>2 DEF Within
  <2>4. Tells(t26, w, c) /\ (Within(w, \hD600, \hD6FF) => t26 = Kws(<<"MON">>) \o <<Num(w % 256)>>)
    BY <1>1, <2>3, Text150Tells DEF t26
  <2>5. QED
    BY <1>1, <2>1, <2>2, <2>4 DEF DisasmSays, Within, text
<1>17. CASE top = 27
  <2>1. text = t27
    BY <1>4, <1>17
  <2>2. \hD800 <= w /\ w <= \hDFFF
    BY <1>1, <1>2, <1>17
  <2>3. Tells(t27, w, c)
    BY <1>1, <2>2, ShiftTells DEF t27, Within
  <2>4. QED
    BY <1>1, <2>1, <2>2, <2>3 DEF DisasmSays, Within, text
<1>18. CASE top \in {28, 29, 30}
  <2>1. text = t28 \/ text = t29 \/ text = t30
    <3>1. top = 28 => text = t28
      BY <1>4
    <3>2. top = 29 => text = t29
      BY <1>4
    <3>3. top = 30 => text = t30
      BY <1>4
    <3>4. QED
      BY <1>18, <3>1, <3>2, <3>3
  <2>2. \hE000 <= w /\ w < \hF800
    BY <1>1, <1>2, <1>18
  <2>3. ~Marked(w, c)
    BY <1>1, <2>2 DEF Marked, Within
  <2>4. Tells(t28, w, c) /\ Tells(t29, w, c) /\ Tells(t30, w, c)
    BY <1>1, <1>5, <1>7, <1>8, <1>10, <2>3, PlainTells
  <2>5. QED
    BY <1>1, <2>1, <2>2, <2>4 DEF DisasmSays, Within, text
<1>19. CASE top = 31
  <2>1. text = t31
    BY <1>4, <1>19
  <2>2. \hF800 <= w /\ w <= \hFFFF
    BY <1>1, <1>2, <1>19
  <2>3. Tells(t31, w, c)
    BY <1>1, <2>2, BitTells DEF t31, Within
  <2>4. QED
    BY <1>1, <2>1, <2>2, <2>3 DEF DisasmSays, Within, text
<1>20. QED
  <2>1. top <= 21 \/ top \in {22, 23, 24, 25, 26, 27, 28, 29, 30, 31}
    BY <1>2
  <2>2. QED
    BY <1>11, <1>12, <1>13, <1>14, <1>15, <1>16, <1>17, <1>18, <1>19, <2>1

-----------------------------------------------------------------------------
\* The lines that begin a routine.

SwapLine == Kws(<<"SWAP", "SX">>) \o <<Num(0)>>

LEMMA SwapLineIs ==
  /\ IsLine(SwapLine) /\ Len(SwapLine) = 3
  /\ SwapLine[1] = Kw("SWAP") /\ SwapLine[2] = Kw("SX") /\ SwapLine[3] = Num(0)
<1> DEFINE s == <<"SWAP", "SX">>
           a == Kws(s)
           b == <<Num(0)>>
           l == a \o b
<1>1. s \in Seq({"SWAP", "SX"}) /\ Len(s) = 2 /\ s[1] = "SWAP" /\ s[2] = "SX"
  OBVIOUS
<1> HIDE DEF s
<1>2. IsLine(a) /\ Len(a) = Len(s) /\ \A i \in 1 .. Len(s) : a[i] = Kw(s[i])
  BY <1>1, KwsLine
<1>3. a[1] = Kw("SWAP") /\ a[2] = Kw("SX")
  BY <1>1, <1>2
<1>4. IsLine(b) /\ Len(b) = 1 /\ b[1] = Num(0)
  BY TupleLine
<1> HIDE DEF a, b
<1>5. IsLine(a) /\ IsLine(b)
  BY <1>2, <1>4
<1>6. /\ IsLine(l) /\ Len(l) = Len(a) + Len(b)
      /\ \A i \in 1 .. Len(a) : l[i] = a[i]
      /\ \A i \in 1 .. Len(b) : l[Len(a) + i] = b[i]
  BY <1>5, LineJoin
<1> HIDE DEF l
<1>7. l[1] = a[1] /\ l[2] = a[2] /\ l[3] = b[1] /\ Len(l) = 3
  BY <1>1, <1>2, <1>4, <1>6
<1>8. SwapLine = l
  BY DEF SwapLine, l, a, b, s
<1>9. QED
  BY <1>3, <1>4, <1>6, <1>7, <1>8

\* A register table: 0 and then seven names.
LEMMA RegisterNames ==
  /\ \A i \in 1 .. 8 : skipregn_src[i] = Kw("SX") <=> i = 8
  /\ \A i \in 1 .. 8 : skipregn_dst[i] = Num(0) <=> i = 1
<1> DEFINE zero == <<Num(0)>>
           src == <<"SD", "SP", "SB", "SL", "SA", "ST", "SX">>
           dst == <<"DD", "DP", "DB", "DL", "DA", "DT", "DX">>
           a == Kws(src)
           b == Kws(dst)
<1>1. src \in Seq({"SD", "SP", "SB", "SL", "SA", "ST", "SX"}) /\ Len(src) = 7
  OBVIOUS
<1>2. dst \in Seq({"DD", "DP", "DB", "DL", "DA", "DT", "DX"}) /\ Len(dst) = 7
  OBVIOUS
<1>3. \A i \in 1 .. 7 : (src[i] = "SX" <=> i = 7) /\ src[i] # "#"
  OBVIOUS
<1>4. \A i \in 1 .. 7 : dst[i] # "#"
  OBVIOUS
<1> HIDE DEF src, dst
<1>5. IsLine(a) /\ Len(a) = 7 /\ \A i \in 1 .. 7 : a[i] = Kw(src[i])
  BY <1>1, KwsLine
<1>6. IsLine(b) /\ Len(b) = 7 /\ \A i \in 1 .. 7 : b[i] = Kw(dst[i])
  BY <1>2, KwsLine
<1>7. IsLine(zero) /\ Len(zero) = 1 /\ zero[1] = Num(0)
  BY TupleLine
<1>8. skipregn_src = zero \o a /\ skipregn_dst = zero \o b
  BY DEF skipregn_src, skipregn_dst, src, dst
<1> HIDE DEF zero, a, b
<1>9. IsLine(zero) /\ IsLine(a) /\ IsLine(b)
  BY <1>5, <1>6, <1>7
<1>10. /\ \A i \in 1 .. Len(zero) : (zero \o a)[i] = zero[i]
       /\ \A i \in 1 .. Len(a) : (zero \o a)[Len(zero) + i] = a[i]
  BY <1>9, LineJoin
<1>11. /\ \A i \in 1 .. Len(zero) : (zero \o b)[i] = zero[i]
       /\ \A i \in 1 .. Len(b) : (zero \o b)[Len(zero) + i] = b[i]
  BY <1>9, LineJoin
<1>12. skipregn_src[1] = Num(0) /\ \A i \in 1 .. 7 : skipregn_src[1 + i] = Kw(src[i])
  <2>1. skipregn_src[1] = zero[1]
    <3>1. 1 \in 1 .. Len(zero)
      BY <1>7
    <3>2. QED
      BY <1>8, <1>10, <3>1
  <2>2. ASSUME NEW i \in 1 .. 7 PROVE skipregn_src[1 + i] = a[i]
    <3>1. i \in 1 .. Len(a)
      BY <1>5
    <3>2. (zero \o a)[Len(zero) + i] = a[i]
      BY <1>10, <3>1
    <3>3. QED
      BY <1>7, <1>8, <3>2
  <2>3. QED
    BY <1>5, <1>7, <2>1, <2>2
<1>13. skipregn_dst[1] = Num(0) /\ \A i \in 1 .. 7 : skipregn_dst[1 + i] = Kw(dst[i])
  <2>1. skipregn_dst[1] = zero[1]
    <3>1. 1 \in 1 .. Len(zero)
      BY <1>7
    <3>2. QED
      BY <1>8, <1>11, <3>1
  <2>2. ASSUME NEW i \in 1 .. 7 PROVE skipregn_dst[1 + i] = b[i]
    <3>1. i \in 1 .. Len(b)
      BY <1>6
    <3>2. (zero \o b)[Len(zero) + i] = b[i]
      BY <1>11, <3>1
    <3>3. QED
      BY <1>7, <1>8, <3>2
  <2>3. QED
    BY <1>6, <1>7, <2>1, <2>2
<1>14. \A x, y : (Kw(x) = Kw(y) <=> x = y) /\ (Kw(x) = Num(0) <=> x = "#")
  BY DEF Kw, Num
<1>15. "#" # "SX"
  OBVIOUS
<1>16. Num(0) # Kw("SX")
  BY <1>14, <1>15
<1>17. \A i \in 1 .. 8 : i = 1 \/ (i - 1 \in 1 .. 7 /\ 1 + (i - 1) = i)
  OBVIOUS
<1>18. ASSUME NEW i \in 1 .. 8 PROVE skipregn_src[i] = Kw("SX") <=> i = 8
  <2>1. CASE i = 1
    BY <1>12, <1>16, <2>1
  <2>2. CASE i - 1 \in 1 .. 7 /\ 1 + (i - 1) = i
    <3>1. skipregn_src[i] = Kw(src[i - 1])
      BY <1>12, <2>2
    <3>2. src[i - 1] = "SX" <=> i - 1 = 7
      BY <1>3, <2>2
    <3>3. QED
      BY <1>14, <3>1, <3>2
  <2>3. QED
    BY <1>17, <2>1, <2>2
<1>19. ASSUME NEW i \in 1 .. 8 PROVE skipregn_dst[i] = Num(0) <=> i = 1
  <2>1. CASE i = 1
    BY <1>13, <2>1
  <2>2. CASE i - 1 \in 1 .. 7 /\ 1 + (i - 1) = i
    <3>1. skipregn_dst[i] = Kw(dst[i - 1]) /\ dst[i - 1] # "#"
      BY <1>4, <1>13, <2>2
    <3>2. QED
      BY <1>14, <2>2, <3>1
  <2>3. QED
    BY <1>17, <2>1, <2>2
<1>20. QED
  BY <1>18, <1>19

\* A name, n more keywords and two registers.
LEMMA RopLine ==
  ASSUME NEW S, NEW m, NEW s \in Seq(S), NEW x, NEW y
  PROVE  LET l == Kws(<<m>> \o s) \o <<x, y>> IN
         /\ IsLine(l) /\ Len(l) = 3 + Len(s) /\ l[1] = Kw(m)
         /\ Len(s) = 0 => l[2] = x /\ l[3] = y
<1> DEFINE T == {m} \cup S
           r == <<m>> \o s
           a == Kws(r)
           b == <<x, y>>
           l == a \o b
<1>1. <<m>> \in Seq(T) /\ s \in Seq(T) /\ Len(<<m>>) = 1 /\ <<m>>[1] = m /\ Len(s) \in Nat
  BY SeqMonotonic
<1> HIDE DEF T
<1>2. r \in Seq(T) /\ Len(r) = 1 + Len(s) /\ r[1] = m
  BY <1>1
<1> HIDE DEF r
<1>3. IsLine(a) /\ Len(a) = Len(r) /\ \A i \in 1 .. Len(r) : a[i] = Kw(r[i])
  BY <1>2, KwsLine
<1>4. IsLine(b) /\ Len(b) = 2 /\ b[1] = x /\ b[2] = y
  BY PairLine
<1> HIDE DEF a, b
<1>5. IsLine(a) /\ IsLine(b)
  BY <1>3, <1>4
<1>6. /\ IsLine(l) /\ Len(l) = Len(a) + Len(b)
      /\ \A i \in 1 .. Len(a) : l[i] = a[i]
      /\ \A i \in 1 .. Len(b) : l[Len(a) + i] = b[i]
  BY <1>5, LineJoin
<1> HIDE DEF l
<1> DEFINE n == Len(s)
<1>7. n \in Nat /\ Len(a) = 1 + n /\ Len(b) = 2
  BY <1>1, <1>2, <1>3, <1>4
<1> HIDE DEF n
<1>8. Len(l) = 3 + n
  BY <1>6, <1>7
<1>9. l[1] = Kw(m)
  <2>1. 1 \in 1 .. Len(a) /\ 1 \in 1 .. Len(r)
    BY <1>3, <1>7
  <2>2. QED
    BY <1>2, <1>3, <1>6, <2>1
<1>10. n = 0 => l[2] = x /\ l[3] = y
  <2> SUFFICES ASSUME n = 0 PROVE l[2] = x /\ l[3] = y
    OBVIOUS
  <2>1. Len(a) = 1 /\ 1 \in 1 .. Len(b) /\ 2 \in 1 .. Len(b)
    BY <1>7
  <2>2. l[1 + 1] = b[1] /\ l[1 + 2] = b[2]
    BY <1>6, <2>1
  <2>3. QED
    BY <1>4, <2>2
<1>11. QED
  BY <1>6, <1>8, <1>9, <1>10 DEF n, l, a, b, r

LEMMA RopFields ==
  \A w \in Nat : Within(w, \hC800, \hCFFF) =>
    /\ Field(w, 6, 5) \in 0 .. 31 /\ Field(w, 3, 3) \in 0 .. 7 /\ Field(w, 0, 3) \in 0 .. 7
    /\ w = \hC800 + 64 * Field(w, 6, 5) + 8 * Field(w, 3, 3) + Field(w, 0, 3)
<1> SUFFICES ASSUME NEW w \in Nat, Within(w, \hC800, \hCFFF)
             PROVE  /\ Field(w, 6, 5) \in 0 .. 31 /\ Field(w, 3, 3) \in 0 .. 7
                    /\ Field(w, 0, 3) \in 0 .. 7
                    /\ w = \hC800 + 64 * Field(w, 6, 5) + 8 * Field(w, 3, 3) + Field(w, 0, 3)
  OBVIOUS
<1> DEFINE f == (w \div 64) % 32
           s == (w \div 8) % 8
           d == w % 8
<1>1. Field(w, 6, 5) = f /\ Field(w, 3, 3) = s /\ Field(w, 0, 3) = d
  BY DEF Field
<1>2. \hC800 <= w /\ w <= \hCFFF
  BY DEF Within
<1>3. f \in 0 .. 31 /\ s \in 0 .. 7 /\ d \in 0 .. 7 /\ w = \hC800 + 64 * f + 8 * s + d
  BY <1>2
<1> HIDE DEF f, s, d
<1>4. QED
  BY <1>1, <1>3

LEMMA SwapNames ==
  \A i \in 1 .. 7 : <<"SWAP", "RAND", "REXO", "RORA", "RADD", "RADD", "RADD">>[i] = "SWAP" <=> i = 1
OBVIOUS

LEMMA JoinEmpty ==
  ASSUME NEW S, NEW s \in Seq(S), NEW t \in Seq(S)
  PROVE  s \o t \in Seq(S) /\ (Len(s \o t) = 0 <=> Len(s) = 0 /\ Len(t) = 0)
<1>1. s \o t \in Seq(S) /\ Len(s \o t) = Len(s) + Len(t) /\ Len(s) \in Nat /\ Len(t) \in Nat
  OBVIOUS
<1>2. \A x, y \in Nat : x + y = 0 <=> x = 0 /\ y = 0
  OBVIOUS
<1>3. QED
  BY <1>1, <1>2

LEMMA SameTriple ==
  ASSUME NEW a, NEW b, IsLine(a), IsLine(b), Len(a) = 3, Len(b) = 3,
         a[1] = b[1], a[2] = b[2], a[3] = b[3]
  PROVE  a = b
<1>1. a = [i \in 1 .. 3 |-> a[i]] /\ b = [i \in 1 .. 3 |-> b[i]]
  BY DEF IsLine
<1>2. \A i \in 1 .. 3 : a[i] = b[i]
  <2>1. \A i \in 1 .. 3 : i = 1 \/ i = 2 \/ i = 3
    OBVIOUS
  <2>2. QED
    BY <2>1
<1>3. [i \in 1 .. 3 |-> a[i]] = [i \in 1 .. 3 |-> b[i]]
  BY <1>2
<1>4. QED
  BY <1>1, <1>3

(* Only the word of the pattern lists as SWAP SX 0.                           *)
LEMMA SwapWord ==
  ASSUME NEW w \in Nat, Within(w, \hC800, \hCFFF)
  PROVE  RopText(w) = SwapLine <=> w = \hC838
<1> DEFINE op == Field(w, 6, 5)
           group == op \div 4
           S == {"AD1", "ADC", "CM1", "CLD"}
           m1 == IF group = 5 THEN <<"AD1">> ELSE <<>>
           m2 == IF group = 6 THEN <<"ADC">> ELSE <<>>
           m3 == IF Field(op, 1, 1) = 1 THEN <<"CM1">> ELSE <<>>
           m4 == IF op % 2 = 1 THEN <<"CLD">> ELSE <<>>
           mods == m1 \o m2 \o m3 \o m4
           names == <<"SWAP", "RAND", "REXO", "RORA", "RADD", "RADD", "RADD">>
           name == names[group + 1]
           src == Src(w)
           dst == Dst(w)
           text == RopText(w)
           exit == w = Exact.EXIT
           noop == Kws(<<"ROP", "NOOP">>)
           rsub == Kws(<<"RSUB">>) \o <<src, dst>>
           other == Kws(<<name>> \o mods) \o <<src, dst>>
           Bare(s) == s \in Seq(S) /\ (Len(s) = 0 => s = <<>>)
<1>1. text = IF exit THEN Kws(<<"EXIT">>) ELSE IF group = 7 THEN noop
             ELSE IF op = 22 THEN rsub ELSE other
  BY DEF RopText
<1>2. /\ op \in 0 .. 31 /\ Field(w, 3, 3) \in 0 .. 7 /\ Field(w, 0, 3) \in 0 .. 7
      /\ w = \hC800 + 64 * op + 8 * Field(w, 3, 3) + Field(w, 0, 3)
  BY RopFields
<1>3. (src = Kw("SX") <=> Field(w, 3, 3) = 7) /\ (dst = Num(0) <=> Field(w, 0, 3) = 0)
  <2> DEFINE i == Field(w, 3, 3) + 1
             j == Field(w, 0, 3) + 1
  <2>1. i \in 1 .. 8 /\ j \in 1 .. 8 /\ (i = 8 <=> Field(w, 3, 3) = 7)
        /\ (j = 1 <=> Field(w, 0, 3) = 0)
    BY <1>2
  <2>2. src = skipregn_src[i] /\ dst = skipregn_dst[j]
    BY DEF Src, Dst
  <2> HIDE DEF i, j, src, dst
  <2>3. QED
    BY <2>1, <2>2, RegisterNames
<1>4. exit <=> w = \hCC62
  BY DEF Exact
<1>5. mods \in Seq(S) /\ (Len(mods) = 0 <=> (group \notin {5, 6} /\ Field(op, 1, 1) # 1 /\ op % 2 # 1))
  <2>1. /\ <<"AD1">> \in Seq(S) /\ <<"ADC">> \in Seq(S)
        /\ <<"CM1">> \in Seq(S) /\ <<"CLD">> \in Seq(S) /\ <<>> \in Seq(S)
    OBVIOUS
  <2>2. /\ Len(<<"AD1">>) = 1 /\ Len(<<"ADC">>) = 1 /\ Len(<<"CM1">>) = 1 /\ Len(<<"CLD">>) = 1
        /\ Len(<<>>) = 0
    OBVIOUS
  <2> DEFINE q == Field(op, 1, 1)
             r == op % 2
  <2> HIDE DEF S, group, q, r
  <2>3. m1 \in Seq(S) /\ (Len(m1) = 0 <=> group # 5)
    BY <2>1, <2>2
  <2>4. m2 \in Seq(S) /\ (Len(m2) = 0 <=> group # 6)
    BY <2>1, <2>2
  <2>5. m3 \in Seq(S) /\ (Len(m3) = 0 <=> q # 1)
    BY <2>1, <2>2 DEF q
  <2>6. m4 \in Seq(S) /\ (Len(m4) = 0 <=> r # 1)
    BY <2>1, <2>2 DEF r
  <2> HIDE DEF m1, m2, m3, m4
  <2> DEFINE m12 == m1 \o m2
             m123 == m12 \o m3
  <2>7. m12 \in Seq(S) /\ (Len(m12) = 0 <=> group # 5 /\ group # 6)
    BY <2>3, <2>4, JoinEmpty
  <2> HIDE DEF m12
  <2>8. m123 \in Seq(S) /\ (Len(m123) = 0 <=> group # 5 /\ group # 6 /\ q # 1)
    BY <2>5, <2>7, JoinEmpty
  <2> HIDE DEF m123
  <2>9. m123 \o m4 \in Seq(S) /\ (Len(m123 \o m4) = 0 <=> group # 5 /\ group # 6 /\ q # 1 /\ r # 1)
    BY <2>6, <2>8, JoinEmpty
  <2>10. mods = m123 \o m4
    BY DEF m123, m12
  <2>11. QED
    BY <2>9, <2>10 DEF q, r
<1>6. Len(mods) = 0 /\ group = 0 <=> op = 0
  <2>1. Field(op, 1, 1) = (op \div 2) % 2
    BY DEF Field
  <2>2. op = 0 <=> group = 0 /\ (op \div 2) % 2 # 1 /\ op % 2 # 1
    BY <1>2
  <2>3. group = 0 => group \notin {5, 6}
    OBVIOUS
  <2> HIDE DEF mods, group, op
  <2>4. QED
    BY <1>5, <2>1, <2>2, <2>3
<1>7. group # 7 => (name = "SWAP" <=> group = 0)
  <2>1. group # 7 => group + 1 \in 1 .. 7 /\ (group + 1 = 1 <=> group = 0)
    BY <1>2
  <2> HIDE DEF group
  <2>2. QED
    BY <2>1, SwapNames
<1>8. op = 22 => group = 5
  OBVIOUS
<1> HIDE DEF S, mods, names, name, src, dst, group, op
<1>9. /\ IsLine(other) /\ Len(other) = 3 + Len(mods) /\ other[1] = Kw(name)
      /\ Len(mods) = 0 => other[2] = src /\ other[3] = dst
  BY <1>5, RopLine
<1>10. Len(mods) \in Nat
  BY <1>5
<1> HIDE DEF other
<1>11. \A x, y : Kw(x) = Kw(y) <=> x = y
  BY DEF Kw
<1>12. other = SwapLine <=> Len(mods) = 0 /\ name = "SWAP" /\ src = Kw("SX") /\ dst = Num(0)
  <2> DEFINE n == Len(mods)
  <2>1. n \in Nat /\ Len(other) = 3 + n
    BY <1>9, <1>10
  <2> HIDE DEF n
  <2>2. Len(other) = 3 <=> n = 0
    BY <2>1
  <2>3. other = SwapLine => n = 0 /\ other[1] = Kw("SWAP") /\ other[2] = Kw("SX") /\ other[3] = Num(0)
    BY <2>2, SwapLineIs
  <2>4. n = 0 /\ other[1] = Kw("SWAP") /\ other[2] = Kw("SX") /\ other[3] = Num(0) => other = SwapLine
    <3> SUFFICES ASSUME n = 0, other[1] = Kw("SWAP"), other[2] = Kw("SX"), other[3] = Num(0)
                 PROVE  other = SwapLine
      OBVIOUS
    <3>1. IsLine(other) /\ Len(other) = 3
      BY <1>9, <2>2
    <3>2. QED
      BY <3>1, SwapLineIs, SameTriple
  <2>5. QED
    BY <1>9, <1>11, <2>3, <2>4 DEF n
<1>13. Len(Kws(<<"EXIT">>)) # 3 /\ Len(noop) # 3
  <2>1. Len(Kws(<<"EXIT">>)) = 1
    BY KwLine
  <2>2. Len(noop) = 2
    <3> DEFINE s == <<"ROP", "NOOP">>
    <3>1. s \in Seq({"ROP", "NOOP"}) /\ Len(s) = 2
      OBVIOUS
    <3> HIDE DEF s
    <3>2. Len(Kws(s)) = 2
      BY <3>1, KwsLine
    <3>3. QED
      BY <3>2 DEF s
  <2> HIDE DEF noop
  <2>3. QED
    BY <2>1, <2>2
<1>14. rsub # SwapLine
  <2>1. Leads(rsub, "RSUB")
    BY PairLine, KwJoinLeads
  <2> HIDE DEF rsub
  <2>2. "RSUB" # "SWAP"
    OBVIOUS
  <2>3. QED
    BY <2>1, <2>2, SwapLineIs DEF Leads, Kw
<1> HIDE DEF noop, rsub, exit, text
<1>15. text = SwapLine <=> ~exit /\ group # 7 /\ op # 22 /\ other = SwapLine
  BY <1>1, <1>13, <1>14, SwapLineIs
<1>16. text = SwapLine <=> ~exit /\ op = 0 /\ group = 0 /\ Field(w, 3, 3) = 7 /\ Field(w, 0, 3) = 0
  <2>1. group = 0 => group # 7 /\ op # 22
    BY <1>8
  <2>2. QED
    BY <1>3, <1>6, <1>7, <1>12, <1>15, <2>1
<1>17. op = 0 => group = 0
  BY <1>6
<1>18. op = 0 /\ Field(w, 3, 3) = 7 /\ Field(w, 0, 3) = 0 <=> w = \hC838
  <2> DEFINE s == Field(w, 3, 3)
             d == Field(w, 0, 3)
  <2>1. op \in 0 .. 31 /\ s \in 0 .. 7 /\ d \in 0 .. 7 /\ w = \hC800 + 64 * op + 8 * s + d
    BY <1>2
  <2> HIDE DEF s, d
  <2>2. op = 0 /\ s = 7 /\ d = 0 <=> w = \hC838
    BY <2>1
  <2>3. QED
    BY <2>2 DEF s, d
<1>19. QED
  BY <1>4, <1>16, <1>17, <1>18 DEF text

\* The words of ENTR and INIT list as nothing else.
LEMMA FrameLine ==
  ASSUME NEW c \in Cpus
  PROVE  nd100_disasm(\hC05D, c) = Kws(<<"ENTR">>) /\ nd100_disasm(\hC05C, c) = Kws(<<"INIT">>)
<1>1. ASSUME NEW n \in {"ENTR", "INIT"}, NEW w \in {\hC05C, \hC05D}, Exact[n] = w,
             \A k \in DOMAIN Exact : Exact[k] = w => k = n
      PROVE  nd100_disasm(w, c) = Kws(<<n>>)
  <2>1. w \div 2048 = 24 /\ (w \div 64) % 4 # 0
    OBVIOUS
  <2>2. nd100_disasm(w, c) = Text140(w, c)
    BY <2>1 DEF nd100_disasm
  <2>3. Field(w, 6, 2) # 0
    BY <2>1 DEF Field
  <2>4. n \in DOMAIN Exact
    BY DEF Exact
  <2>5. Named(Exact, w) = {n}
    BY <1>1, <2>4 DEF Named
  <2>6. Known(Exact, w) /\ Name(Exact, w) = Kws(<<n>>)
    BY <2>5 DEF Known, Name
  <2>7. Text140(w, c) = Name(Exact, w)
    BY <2>3, <2>6 DEF Text140
  <2>8. QED
    BY <2>2, <2>6, <2>7
<1>2. Exact["ENTR"] = \hC05D /\ Exact["INIT"] = \hC05C
  BY DEF Exact
<1>3. \A k \in DOMAIN Exact : Exact[k] = \hC05D => k = "ENTR"
  BY DEF Exact
<1>4. \A k \in DOMAIN Exact : Exact[k] = \hC05C => k = "INIT"
  BY DEF Exact
<1>5. QED
  BY <1>1, <1>2, <1>3, <1>4

LEMMA OneLead == \A l, m, n : Leads(l, m) /\ Leads(l, n) => m = n
BY DEF Leads

Preludes == {SwapLine, Kws(<<"ENTR">>), Kws(<<"INIT">>)}
PreludeWords == {\hC838, \hC05D, \hC05C}

(* The lines that begin a routine are those of the three words of             *)
(* nd100_preludes.                                                            *)
LEMMA PreludeLines ==
  ASSUME NEW w, IsWord(w), NEW c \in Cpus
  PROVE  nd100_disasm(w, c) \in Preludes <=> w \in PreludeWords
<1> DEFINE l == nd100_disasm(w, c)
<1>1. w \in Nat /\ w < 65536
  BY DEF IsWord
<1>3. Tells(l, w, c) /\ DisasmSays(l, w)
  BY DisasmTells
<1>4. (w = \hC05D => l = Kws(<<"ENTR">>)) /\ (w = \hC05C => l = Kws(<<"INIT">>))
  BY FrameLine
<1> HIDE DEF l
<1>2. PICK m : (Leads(l, m) \/ (l = <<>> /\ m = "")) /\ Reads(m, w, c)
  BY <1>3 DEF Tells
<1>5. \A n : Leads(l, n) => m = n
  <2>1. ASSUME NEW n, Leads(l, n) PROVE m = n
    <3>1. l # <<>>
      <4>1. Len(l) > 0
        BY <2>1 DEF Leads
      <4>2. Len(<<>>) = 0
        BY EmptyLine
      <4>3. QED
        BY <4>1, <4>2
    <3>2. QED
      BY <1>2, <2>1, <3>1, OneLead
  <2>2. QED
    BY <2>1
<1>6. l = Kws(<<"ENTR">>) => w = \hC05D
  <2>1. Leads(Kws(<<"ENTR">>), "ENTR")
    BY KwLeads
  <2>2. l = Kws(<<"ENTR">>) => m = "ENTR"
    BY <1>5, <2>1
  <2>3. QED
    BY <1>2, <2>2 DEF Reads
<1>7. l = Kws(<<"INIT">>) => w = \hC05C
  <2>1. Leads(Kws(<<"INIT">>), "INIT")
    BY KwLeads
  <2>2. l = Kws(<<"INIT">>) => m = "INIT"
    BY <1>5, <2>1
  <2>3. QED
    BY <1>2, <2>2 DEF Reads
<1>8. l = SwapLine <=> w = \hC838
  <2>1. l = SwapLine => Within(w, \hC800, \hCFFF)
    <3>1. Leads(SwapLine, "SWAP")
      BY SwapLineIs DEF Leads, Kw
    <3>2. l = SwapLine => m = "SWAP"
      BY <1>5, <3>1
    <3>3. QED
      BY <1>2, <3>2 DEF Reads
  <2>2. w = \hC838 => Within(w, \hC800, \hCFFF)
    BY DEF Within
  <2>3. Within(w, \hC800, \hCFFF) => (l = SwapLine <=> w = \hC838)
    BY <1>1, <1>3, SwapWord DEF DisasmSays
  <2>4. QED
    BY <2>1, <2>2, <2>3
<1>9. QED
  BY <1>4, <1>6, <1>7, <1>8 DEF Preludes, PreludeWords, l

-----------------------------------------------------------------------------
\* Where control goes from a word, as nd100_op has it.

Target(w, a) == branch_target(a, Signed(w % 256))

Goes(S, w, a) ==
  /\ Within(w, \hA800, \hA8FF) => S = {Target(w, a)}
  /\ Within(w, \hB000, \hB8FF) => S = {Target(w, a), a + 2}
  /\ SkipWord(w) => S = {a + 2, a + 4}
  /\ EndWord(w) => S = {}
  /\ w = \hC05D => S = {a + 4, a + 6}
  /\ w = \hC05C => S = {a + 12, a + 14}
  /\ (/\ ~Within(w, \hA800, \hA8FF) /\ ~Within(w, \hB000, \hB8FF) /\ ~SkipWord(w)
      /\ ~EndWord(w) /\ w # \hC05D /\ w # \hC05C) => S = {a + 2}

\* The successors of an operation from the three parts they are made of.
Ways(op, a) == {t \in {op.jump, op.fail} : t # UNSET}

LEMMA SuccessorsAre ==
  ASSUME NEW op, NEW a
  PROVE  /\ op.eob \/ op.type \in {"CJMP", "ILL"} => Successors(op, a) = Ways(op, a)
         /\ ~op.eob /\ op.type \notin {"CJMP", "ILL"} =>
              Successors(op, a) = Ways(op, a) \cup {a + op.size}
BY DEF Successors, Ways

(* What the row that decides says of the target and the way straight on.      *)
LEMMA RowTargets ==
  ASSUME NEW row, Regular(row), row.name # "WAIT", row.name \notin DOMAIN Frame, NEW w, NEW a
  PROVE  /\ row.name = "Jcc" \/ row.type \in {"JMP", "CALL"} => JumpOf(row, w, a) = Target(w, a)
         /\ SkipRow(row) => JumpOf(row, w, a) = a + 4
         /\ row.name # "Jcc" /\ row.type \notin {"JMP", "CALL", "CJMP"} => JumpOf(row, w, a) = UNSET
         /\ row.type \in {"CJMP"} \cup Calls => FailOf(row, a) = a + 2
         /\ row.type \notin {"CJMP"} \cup Calls => FailOf(row, a) = UNSET
<1>1. row.name # "ENTR" /\ row.name # "INIT"
  BY FrameIs
<1>2. row.name = "Jcc" => row.type = "CJMP"
  BY DEF Regular
<1>3. ASSUME row.name = "Jcc" \/ row.type \in {"JMP", "CALL"}
      PROVE  JumpOf(row, w, a) = Target(w, a)
  <2>1. ~(row.type = "CJMP" /\ row.name \notin {"Jcc"} \cup DOMAIN Frame)
    BY <1>3
  <2>2. QED
    BY <1>3, <2>1, Zenon DEF JumpOf, Target
<1>4. ASSUME SkipRow(row) PROVE JumpOf(row, w, a) = a + 4
  BY <1>4, JumpOfSkip DEF SkipRow
<1>5. ASSUME row.name # "Jcc", row.type \notin {"JMP", "CALL", "CJMP"}
      PROVE  JumpOf(row, w, a) = UNSET
  <2>1. /\ ~(row.name = "Jcc" \/ row.type \in {"JMP", "CALL"})
        /\ row.type # "CJMP"
    BY <1>5
  <2>2. QED
    BY <2>1, Zenon DEF JumpOf
<1>6. row.type \in {"CJMP"} \cup Calls => FailOf(row, a) = a + 2
  BY Zenon DEF FailOf
<1>7. row.type \notin {"CJMP"} \cup Calls => FailOf(row, a) = UNSET
  BY Zenon DEF FailOf
<1>8. QED
  BY <1>3, <1>4, <1>5, <1>6, <1>7

(* An operation that is not a frame goes where its word says.                 *)
LEMMA RowGoes ==
  ASSUME NEW row, Regular(row), row.name # "WAIT", row.name \notin DOMAIN Frame,
         NEW w, IsWord(w), Agree(row, w), NEW a, InSpace(a),
         NEW op, op.name = row.name,
         op.type = row.type \/ (row.type = "SHL" /\ op.type = "SHR"),
         op.jump = JumpOf(row, w, a), op.fail = FailOf(row, a), op.size = 2,
         op.eob = EndsBlock(row, w)
  PROVE  Goes(Successors(op, a), w, a)
<1> DEFINE S == Successors(op, a)
           t == Target(w, a)
<1>1. a \in Nat /\ a + 2 # UNSET /\ a + 4 # UNSET
  BY DEF InSpace, UNSET
<1>2. t # UNSET
  <2>1. w \in Nat
    BY DEF IsWord
  <2>2. InSpace(t)
    BY <2>1, SignedRange, BranchTargetInSpace DEF Target
  <2> HIDE DEF t
  <2>3. QED
    BY <2>2 DEF InSpace, UNSET
<1>3. /\ row.name = "Jcc" \/ row.type \in {"JMP", "CALL"} => op.jump = t
      /\ SkipRow(row) => op.jump = a + 4
      /\ row.name # "Jcc" /\ row.type \notin {"JMP", "CALL", "CJMP"} => op.jump = UNSET
      /\ row.type \in {"CJMP"} \cup Calls => op.fail = a + 2
      /\ row.type \notin {"CJMP"} \cup Calls => op.fail = UNSET
  BY RowTargets
<1>4. row.name # "ENTR" /\ row.name # "INIT"
  BY FrameIs
<1>5. op.eob <=> row.name = "JMP" \/ row.type = "RET" \/ (row.name = "MON" /\ w % 256 = 0)
  BY DEF EndsBlock
<1>6. /\ row.name = "JMP" <=> row.type \in {"JMP", "MJMP"}
      /\ row.name = "Jcc" => row.type = "CJMP"
      /\ row.name = "MON" => row.type = "SWI"
      /\ row.type # "ILL"
  BY DEF Regular
<1>7. /\ JumpRow(row) <=> Within(w, \hA800, \hA8FF)
      /\ EndRow(row, w) <=> EndWord(w)
      /\ row.name = "Jcc" <=> Within(w, \hB000, \hB7FF)
      /\ row.type = "CALL" <=> Within(w, \hB800, \hB8FF)
      /\ SkipRow(row) <=> SkipWord(w)
      /\ w # \hC05D /\ w # \hC05C
  BY <1>4 DEF Agree
<1>8. /\ op.eob \/ op.type \in {"CJMP", "ILL"} => S = Ways(op, a)
      /\ ~op.eob /\ op.type \notin {"CJMP", "ILL"} => S = Ways(op, a) \cup {a + 2}
  BY SuccessorsAre
<1> HIDE DEF S, t
<1>9. JumpRow(row) => S = {t}
  <2>1. JumpRow(row) => row.type = "JMP" /\ op.eob /\ op.jump = t /\ op.fail = UNSET
    BY <1>3, <1>5 DEF JumpRow, Calls
  <2>2. QED
    BY <1>2, <1>8, <2>1 DEF Ways
<1>10. row.name = "Jcc" => S = {t, a + 2}
  <2>1. row.name = "Jcc" => op.type = "CJMP" /\ op.jump = t /\ op.fail = a + 2
    BY <1>3, <1>6
  <2>2. QED
    BY <1>1, <1>2, <1>8, <2>1 DEF Ways
<1>11. row.type = "CALL" => S = {t, a + 2}
  <2>1. row.type = "CALL" => /\ op.type = "CALL" /\ op.jump = t /\ op.fail = a + 2
                             /\ ~op.eob
    BY <1>3, <1>5, <1>6 DEF Calls
  <2>2. QED
    BY <1>1, <1>2, <1>8, <2>1 DEF Ways
<1>12. SkipRow(row) => S = {a + 2, a + 4}
  <2>1. SkipRow(row) => op.type = "CJMP" /\ op.jump = a + 4 /\ op.fail = a + 2
    BY <1>3 DEF SkipRow
  <2>2. QED
    BY <1>1, <1>8, <2>1 DEF Ways
<1>13. EndRow(row, w) => S = {}
  <2>1. EndRow(row, w) => op.eob /\ op.jump = UNSET /\ op.fail = UNSET
    <3>1. EndRow(row, w) => row.name # "Jcc" /\ row.type \in {"MJMP", "RET", "SWI"} /\ op.eob
      BY <1>5, <1>6 DEF EndRow
    <3>2. QED
      BY <1>3, <3>1 DEF Calls
  <2>2. QED
    BY <1>8, <2>1 DEF Ways
<1>14. ASSUME ~JumpRow(row), ~EndRow(row, w), row.name # "Jcc", row.type # "CALL", ~SkipRow(row)
       PROVE  S = {a + 2}
  <2>1. row.type # "CJMP" /\ row.type # "MJMP" /\ row.type # "RET"
    BY <1>4, <1>14 DEF SkipRow, EndRow
  <2>2. row.type # "JMP" /\ row.name # "JMP"
    BY <1>6, <1>14, <2>1 DEF JumpRow
  <2>3. ~op.eob
    BY <1>5, <1>14, <2>1, <2>2 DEF EndRow
  <2>4. op.jump = UNSET
    BY <1>3, <1>14, <2>1, <2>2
  <2>5. op.fail = UNSET \/ op.fail = a + 2
    BY <1>3
  <2>6. op.type \notin {"CJMP", "ILL"}
    BY <1>6, <2>1
  <2>7. QED
    BY <1>1, <1>8, <2>3, <2>4, <2>5, <2>6 DEF Ways
<1>15. Within(w, \hB000, \hB8FF) <=> Within(w, \hB000, \hB7FF) \/ Within(w, \hB800, \hB8FF)
  <2>1. w \in Nat
    BY DEF IsWord
  <2>2. QED
    BY <2>1 DEF Within
<1>16. Goes(S, w, a)
  BY <1>7, <1>9, <1>10, <1>11, <1>12, <1>13, <1>14, <1>15 DEF Goes, t
<1>17. QED
  BY <1>16 DEF S

LEMMA FrameGoes ==
  ASSUME NEW n \in {"ENTR", "INIT"}, NEW a, InSpace(a), NEW w, w = (IF n = "ENTR" THEN \hC05D ELSE \hC05C),
         NEW op, op.type = "CJMP", op.jump = a + Frame[n].jump, op.fail = a + Frame[n].fail
  PROVE  Goes(Successors(op, a), w, a)
<1> DEFINE S == Successors(op, a)
<1>1. a \in Nat
  BY DEF InSpace
<1>2. S = Ways(op, a)
  BY SuccessorsAre
<1>3. op.jump # UNSET /\ op.fail # UNSET
  BY <1>1, FrameIs DEF UNSET
<1> HIDE DEF S
<1>4. S = {op.jump, op.fail}
  BY <1>2, <1>3 DEF Ways
<1>5. w \in Nat /\ (w = \hC05D \/ w = \hC05C)
  OBVIOUS
<1>6. /\ ~Within(w, \hA800, \hA8FF) /\ ~Within(w, \hB000, \hB8FF) /\ ~SkipWord(w)
      /\ ~EndWord(w)
  BY <1>5 DEF Within, SkipWord, EndWord
<1>7. n = "ENTR" => S = {a + 4, a + 6}
  BY <1>4, FrameIs
<1>8. n = "INIT" => S = {a + 12, a + 14}
  BY <1>4, FrameIs
<1>9. Goes(S, w, a)
  BY <1>6, <1>7, <1>8 DEF Goes
<1>10. QED
  BY <1>9 DEF S

\* What nd100_op says at a of the word w.
Said(op, w, a) ==
  /\ op.word = w /\ IsWord(w)
  /\ op.name = "ENTR" <=> w = \hC05D
  /\ op.name = "INIT" <=> w = \hC05C
  /\ IF CutOff(op) THEN Successors(op, a) = {a + 2} ELSE Goes(Successors(op, a), w, a)

(* nd100_op, whatever stands behind the word.                                 *)
LEMMA OpSaid ==
  ASSUME NEW a, InSpace(a), NEW data \in Seq(0 .. 255), Len(data) >= 2, NEW big
  PROVE  Said(nd100_op(a, data, big), FromBytes(data, big), a)
<1> DEFINE w == FromBytes(data, big)
           row == RowOf(w)
           op == Undressed(row, w, a)
           out == nd100_op(a, data, big)
           n == Frame[row.name].size
<1>1. IsWord(w)
  BY WordOfBytes
<1>2. Regular(row) /\ row.name # "WAIT" /\ Agree(row, w)
  BY <1>1, RowOfIs, RowAgrees DEF IsWord
<1>3. Formed(out, row, w, a)
  BY OpFormed
<1> SUFFICES Said(out, w, a)
  OBVIOUS
<1> HIDE DEF out, w, row
<1>4. /\ op.name = row.name /\ op.type = row.type /\ op.size = 2
      /\ op.jump = JumpOf(row, w, a) /\ op.fail = FailOf(row, a)
      /\ op.eob = EndsBlock(row, w) /\ op.word = w
  BY UndressedParts
<1> HIDE DEF op
<1>5. (row.name = "ENTR" <=> w = \hC05D) /\ (row.name = "INIT" <=> w = \hC05C)
  BY <1>2 DEF Agree
<1>6. CASE row.name = "shift" /\ out = AsShift(op)
  <2>1. /\ out.name = row.name /\ out.type = "SHR" /\ out.size = 2 /\ out.jump = op.jump
        /\ out.fail = op.fail /\ out.eob = op.eob /\ out.word = w
    BY <1>4, <1>6, FormParts DEF op
  <2>2. row.type = "SHL" /\ row.name \notin DOMAIN Frame
    BY <1>2, <1>6, FrameIs DEF Regular
  <2>3. Goes(Successors(out, a), w, a)
    BY <1>1, <1>2, <1>4, <2>1, <2>2, RowGoes
  <2>4. ~CutOff(out)
    BY <2>1 DEF CutOff
  <2>5. QED
    BY <1>1, <1>5, <2>1, <2>3, <2>4 DEF Said
<1>7. CASE row.name \in DOMAIN Frame /\ out = AsCutOff(op)
  <2>1. /\ out.name = row.name /\ out.type = "UNK" /\ out.word = w /\ out.size = 2
        /\ out.jump = UNSET /\ out.fail = UNSET /\ out.eob = op.eob
    <3>1. /\ out.name = op.name /\ out.type = "UNK" /\ out.word = op.word
          /\ out.size = op.size /\ out.jump = UNSET /\ out.fail = UNSET /\ out.eob = op.eob
      BY <1>7, FormParts DEF op
    <3>2. QED
      BY <1>4, <3>1
  <2>2. CutOff(out)
    BY <1>7, <2>1 DEF CutOff
  <2>3. ~out.eob
    BY <1>2, <1>4, <1>7, <2>1, EndsBlockIs, FrameIs DEF Regular
  <2>4. Successors(out, a) = {a + 2}
    BY <2>1, <2>3 DEF Successors
  <2>5. QED
    BY <1>1, <1>5, <2>1, <2>2, <2>4 DEF Said
<1>8. CASE row.name \in DOMAIN Frame /\ out = AsFrame(op, n)
  <2>1. /\ out.name = row.name /\ out.type = row.type /\ out.jump = op.jump
        /\ out.fail = op.fail /\ out.word = w
    BY <1>4, <1>8, FormParts DEF op
  <2>2. row.name \in {"ENTR", "INIT"}
    BY <1>8, FrameIs
  <2>3. row.type = "CJMP"
    BY <1>2, <2>2 DEF Regular
  <2>4. op.jump = a + Frame[row.name].jump /\ op.fail = a + Frame[row.name].fail
    BY <1>2, <1>4, <1>8, JumpOfFrame, FailOfFrame
  <2>5. w = (IF row.name = "ENTR" THEN \hC05D ELSE \hC05C)
    BY <1>5, <2>2
  <2>6. Goes(Successors(out, a), w, a)
    BY <2>1, <2>2, <2>3, <2>4, <2>5, FrameGoes
  <2>7. ~CutOff(out)
    BY <2>1, <2>3 DEF CutOff
  <2>8. QED
    BY <1>1, <1>5, <2>1, <2>6, <2>7 DEF Said
<1>9. CASE row.name \notin DOMAIN Frame /\ out = op
  <2>1. Goes(Successors(out, a), w, a)
    BY <1>1, <1>2, <1>4, <1>9, RowGoes
  <2>2. ~CutOff(out)
    BY <1>4, <1>9 DEF CutOff
  <2>3. QED
    BY <1>1, <1>4, <1>5, <1>9, <2>1, <2>2 DEF Said
<1>10. QED
  BY <1>3, <1>6, <1>7, <1>8, <1>9 DEF Formed, op, n

-----------------------------------------------------------------------------
\* Where control goes from a word, as its line has it.

Plainly(m) == m \notin Jumps \cup Skips \cup Returns \cup {"ENTR", "INIT", "WAIT", "MON"}

\* The target a line shows.
Shown(l, a) == IF Len(l) = 2 THEN {Reach(a, l[2].n)} ELSE {}
MonZero == <<Kw("MON"), Num(0)>>

LEMMA ListedIs ==
  ASSUME NEW l, NEW a, NEW m, (l = <<>> /\ m = "") \/ (l # <<>> /\ l[1].t = m)
  PROVE  LET S == ListedSuccessors(l, a) IN
         /\ m = "JMP" => S = Shown(l, a)
         /\ m \in Jumps \ {"JMP"} => S = Shown(l, a) \cup {a + 2}
         /\ m \in Skips => S = {a + 2, a + 4}
         /\ m = "ENTR" => S = {a + 4, a + 6}
         /\ m = "INIT" => S = {a + 12, a + 14}
         /\ m \in Returns \cup {"WAIT"} \/ l = MonZero => S = {}
         /\ m = "MON" /\ l # MonZero => S = {a + 2}
         /\ Plainly(m) => S = {a + 2}
<1> DEFINE c1 == m = "JMP"
           c2 == m \in Jumps \ {"JMP"}
           c3 == m \in Skips
           c4 == m = "ENTR"
           c5 == m = "INIT"
           c6 == m \in Returns \cup {"WAIT"} \/ l = MonZero
           t == Shown(l, a)
           S == ListedSuccessors(l, a)
<1>1. (IF l = <<>> THEN "" ELSE l[1].t) = m
  OBVIOUS
<1>2. S = CASE c1 -> t [] c2 -> t \cup {a + 2} [] c3 -> {a + 2, a + 4} [] c4 -> {a + 4, a + 6}
            [] c5 -> {a + 12, a + 14} [] c6 -> {} [] OTHER -> {a + 2}
  BY <1>1 DEF ListedSuccessors, Shown, MonZero
<1>3. l = MonZero => m = "MON"
  <2>1. MonZero # <<>> /\ MonZero[1].t = "MON"
    BY DEF MonZero, Kw
  <2>2. QED
    BY <2>1
<1>4. /\ m \in Jumps => m \notin Skips \cup Returns \cup {"ENTR", "INIT", "WAIT", "MON"}
      /\ m \in Skips => m \notin Returns \cup {"ENTR", "INIT", "WAIT", "MON"}
      /\ m \in Returns \cup {"WAIT", "MON"} => m \notin {"ENTR", "INIT"}
      /\ m = "MON" => m \notin Returns \cup {"WAIT"}
      /\ "ENTR" # "INIT" /\ "JMP" \in Jumps
  BY JumpsAre DEF Skips, Returns
<1>5. /\ c1 => ~c2 /\ ~c3 /\ ~c4 /\ ~c5 /\ ~c6
      /\ c2 => ~c3 /\ ~c4 /\ ~c5 /\ ~c6
      /\ c3 => ~c4 /\ ~c5 /\ ~c6
      /\ c4 => ~c5 /\ ~c6
      /\ c5 => ~c6
  BY <1>3, <1>4, Zenon
<1>6. m = "MON" /\ l # MonZero => ~c1 /\ ~c2 /\ ~c3 /\ ~c4 /\ ~c5 /\ ~c6
  BY <1>4, Zenon
<1>7. Plainly(m) => ~c1 /\ ~c2 /\ ~c3 /\ ~c4 /\ ~c5 /\ ~c6
  BY <1>3, <1>4, Zenon DEF Plainly
<1> HIDE DEF S, t
<1>8. /\ c1 => S = t
      /\ c2 => S = t \cup {a + 2}
      /\ c3 => S = {a + 2, a + 4}
      /\ c4 => S = {a + 4, a + 6}
      /\ c5 => S = {a + 12, a + 14}
      /\ c6 => S = {}
      /\ ~c1 /\ ~c2 /\ ~c3 /\ ~c4 /\ ~c5 /\ ~c6 => S = {a + 2}
  <2> HIDE DEF c1, c2, c3, c4, c5, c6
  <2>1. QED
    BY <1>2, <1>5
<1>9. QED
  BY <1>6, <1>7, <1>8 DEF S, t

(* The target a line shows is the one nd100_op has, at an even address.       *)
LEMMA ReachTarget ==
  ASSUME CharSigned, NEW a, InSpace(a), a % 2 = 0, NEW w, IsWord(w)
  PROVE  Reach(a, Offset(w).n) = Target(w, a)
<1> DEFINE o == Signed(w % 256)
           t == a + 2 * o
<1>1. o \in Int /\ a \in Nat
  BY SignedRange DEF IsWord, InSpace
<1>2. Offset(w).n = o
  <2>1. Offset(w) = Num(o)
    BY DEF Offset, Signed
  <2>2. QED
    BY <2>1 DEF Num
<1> HIDE DEF o
<1>3. t \in Int /\ t % 2 = 0
  BY <1>1
<1> HIDE DEF t
<1>4. t >= 0 => t % 131072 = 2 * ((t % 131072) \div 2)
  <2> SUFFICES ASSUME t >= 0 PROVE t % 131072 = 2 * ((t % 131072) \div 2)
    OBVIOUS
  <2> DEFINE k == t % 131072
             q == t \div 131072
  <2>1. k \in Nat /\ q \in Int /\ t = 131072 * q + k
    BY <1>3
  <2> HIDE DEF k, q
  <2>2. k % 2 = 0
    BY <1>3, <2>1
  <2>3. k = 2 * (k \div 2)
    BY <2>1, <2>2
  <2>4. QED
    BY <2>3 DEF k
<1>5. t < 0 \/ t >= 0
  BY <1>3
<1>6. Reach(a, o) = IF t < 0 THEN 0 ELSE t % 131072
  BY DEF Reach, t
<1>7. Target(w, a) = IF t < 0 THEN 0 ELSE 2 * ((t % 131072) \div 2)
  BY DEF Target, branch_target, t, o
<1>8. Reach(a, o) = Target(w, a)
  BY <1>3, <1>4, <1>5, <1>6, <1>7
<1>9. QED
  BY <1>2, <1>8

\* The successors a line shows for the word w at a.
Shows(S, w, c, a) ==
  /\ Within(w, \hA800, \hA8FF) => S = {Target(w, a)}
  /\ Within(w, \hA900, \hAFFF) => S = {}
  /\ Within(w, \hB000, \hB8FF) => S = {Target(w, a), a + 2}
  /\ Within(w, \hB900, \hBFFF) => S = {a + 2}
  /\ SkipListed(w, c) \/ Within(w, \hD300, \hD57F) => S = {a + 2, a + 4}
  /\ w = \hC05D => S = {a + 4, a + 6}
  /\ w = \hC05C => S = {a + 12, a + 14}
  /\ w = \hC05E \/ w = \hC05F \/ w = \hCC62 \/ Within(w, \hD200, \hD2FF) \/ w = \hD600 => S = {}
  /\ (/\ ~Within(w, \hA800, \hBFFF) /\ ~SkipListed(w, c) /\ ~Within(w, \hD200, \hD57F)
      /\ ~Within(w, \hC05C, \hC05F) /\ w # \hCC62 /\ w # \hD600) => S = {a + 2}

MisreadWord(w, c) ==
  \/ Within(w, \hC05E, \hC05F) \/ Within(w, \hC09E, \hC09F) \/ Within(w, \hD200, \hD57F)
  \/ (w = \hC14E \/ w = \hC14F) /\ c = "nd100"

(* The name a line begins with, and what follows from it.                     *)
LEMMA LineName ==
  ASSUME NEW w, IsWord(w), NEW c \in Cpus
  PROVE  LET l == nd100_disasm(w, c) IN
         \E m : ((l = <<>> /\ m = "") \/ (l # <<>> /\ l[1].t = m)) /\ Reads(m, w, c)
<1> DEFINE l == nd100_disasm(w, c)
<1>1. Tells(l, w, c)
  BY DisasmTells
<1> HIDE DEF l
<1>2. PICK m : (Leads(l, m) \/ (l = <<>> /\ m = "")) /\ Reads(m, w, c)
  BY <1>1 DEF Tells
<1>3. Leads(l, m) => l # <<>> /\ l[1].t = m
  <2>1. Leads(l, m) => Len(l) > 0 /\ l[1].t = m
    BY DEF Leads
  <2>2. Len(<<>>) = 0
    BY EmptyLine
  <2>3. QED
    BY <2>1, <2>2
<1>4. QED
  BY <1>2, <1>3 DEF l

(* What a jump and a monitor call show.                                       *)
LEMMA LineShown ==
  ASSUME NEW w, IsWord(w), NEW c \in Cpus, NEW a
  PROVE  LET l == nd100_disasm(w, c) IN
         /\ Within(w, \hA800, \hA8FF) \/ Within(w, \hB000, \hB8FF) =>
              Shown(l, a) = {Reach(a, Offset(w).n)}
         /\ Within(w, \hA900, \hAFFF) \/ Within(w, \hB900, \hBFFF) => Shown(l, a) = {}
         /\ Within(w, \hD600, \hD6FF) => (l = MonZero <=> w = \hD600)
<1> DEFINE l == nd100_disasm(w, c)
<1>1. w \in Nat
  BY DEF IsWord
<1>2. DisasmSays(l, w)
  BY DisasmTells
<1> HIDE DEF l
<1>3. Len(l) = 2 /\ l[2] = Offset(w) => Shown(l, a) = {Reach(a, Offset(w).n)}
  BY DEF Shown
<1>4. Len(l) # 2 => Shown(l, a) = {}
  BY DEF Shown
<1>5. Field(w, 8, 3) = 0 <=> (w \div 256) % 8 = 0
  BY DEF Field
<1>6. /\ Within(w, \hA800, \hA8FF) \/ Within(w, \hB800, \hB8FF) => Field(w, 8, 3) = 0
      /\ Within(w, \hA900, \hAFFF) \/ Within(w, \hB900, \hBFFF) => Field(w, 8, 3) # 0
  BY <1>1, <1>5 DEF Within
<1>7. ASSUME NEW m, l = MemrefText(m, w)
      PROVE  /\ Len(l) = 2 <=> Field(w, 8, 3) = 0
             /\ Len(l) = 2 => l[2] = Offset(w)
  BY <1>1, <1>7, MemrefLine
<1>8. /\ Within(w, \hA800, \hAFFF) => l = MemrefText("JMP", w)
      /\ Within(w, \hB800, \hBFFF) => l = MemrefText("JPL", w)
      /\ Within(w, \hB000, \hB7FF) => Len(l) = 2 /\ l[2] = Offset(w)
  BY <1>2 DEF DisasmSays
<1>9. /\ Within(w, \hA800, \hA8FF) \/ Within(w, \hA900, \hAFFF) => Within(w, \hA800, \hAFFF)
      /\ Within(w, \hB800, \hB8FF) \/ Within(w, \hB900, \hBFFF) => Within(w, \hB800, \hBFFF)
      /\ Within(w, \hB000, \hB8FF) => Within(w, \hB000, \hB7FF) \/ Within(w, \hB800, \hB8FF)
  BY <1>1 DEF Within
<1>10. /\ Within(w, \hA800, \hA8FF) \/ Within(w, \hB000, \hB8FF) => Len(l) = 2 /\ l[2] = Offset(w)
       /\ Within(w, \hA900, \hAFFF) \/ Within(w, \hB900, \hBFFF) => Len(l) # 2
  BY <1>6, <1>7, <1>8, <1>9
<1>11. ASSUME Within(w, \hD600, \hD6FF) PROVE l = MonZero <=> w = \hD600
  <2> DEFINE b == w % 256
  <2>1. l = Kws(<<"MON">>) \o <<Num(b)>>
    BY <1>2, <1>11 DEF DisasmSays
  <2>2. b = 0 <=> w = \hD600
    BY <1>1, <1>11 DEF Within
  <2> HIDE DEF b
  <2>3. IsLine(l) /\ Len(l) = 2 /\ l[1] = Kw("MON") /\ l[2] = Num(b)
    BY <2>1, KwAndLine
  <2>4. l = <<l[1], l[2]>>
    BY <2>3, PairIs
  <2>5. l = <<Kw("MON"), Num(b)>>
    BY <2>3, <2>4
  <2>6. l = MonZero <=> Num(b) = Num(0)
    BY <2>3, <2>5, PairLine DEF MonZero
  <2>7. Num(b) = Num(0) <=> b = 0
    BY DEF Num
  <2>8. QED
    BY <2>2, <2>6, <2>7
<1>12. QED
  BY <1>3, <1>4, <1>10, <1>11 DEF l

(* Where every line says control goes, and which words are read otherwise.    *)
LEMMA LineShows ==
  ASSUME CharSigned, NEW w, IsWord(w), NEW c \in Cpus, NEW a, InSpace(a), a % 2 = 0
  PROVE  Shows(ListedSuccessors(nd100_disasm(w, c), a), w, c, a)
<1> DEFINE l == nd100_disasm(w, c)
           S == ListedSuccessors(l, a)
           t == Shown(l, a)
<1>1. w \in Nat
  BY DEF IsWord
<1>2. PICK m : ((l = <<>> /\ m = "") \/ (l # <<>> /\ l[1].t = m)) /\ Reads(m, w, c)
  BY LineName
<1>3. /\ Within(w, \hA800, \hA8FF) \/ Within(w, \hB000, \hB8FF) => t = {Target(w, a)}
      /\ Within(w, \hA900, \hAFFF) \/ Within(w, \hB900, \hBFFF) => t = {}
      /\ Within(w, \hD600, \hD6FF) => (l = MonZero <=> w = \hD600)
  BY LineShown, ReachTarget
<1> HIDE DEF l
<1>4. /\ m = "JMP" => S = t
      /\ m \in Jumps \ {"JMP"} => S = t \cup {a + 2}
      /\ m \in Skips => S = {a + 2, a + 4}
      /\ m = "ENTR" => S = {a + 4, a + 6}
      /\ m = "INIT" => S = {a + 12, a + 14}
      /\ m \in Returns \cup {"WAIT"} \/ l = MonZero => S = {}
      /\ m = "MON" /\ l # MonZero => S = {a + 2}
      /\ Plainly(m) => S = {a + 2}
  BY <1>2, ListedIs
<1> HIDE DEF S, t
<1>5. /\ m = "JMP" <=> Within(w, \hA800, \hAFFF)
      /\ m \in Jumps \ {"JMP"} <=> Within(w, \hB000, \hBFFF)
      /\ m \in Skips \ Late <=> SkipListed(w, c)
      /\ m \in Late <=> Within(w, \hD300, \hD57F)
      /\ m = "ENTR" <=> w = \hC05D
      /\ m = "INIT" <=> w = \hC05C
      /\ m = "EXIT" <=> w = \hCC62
      /\ m \in {"LEAVE", "ELEAV"} <=> w = \hC05E \/ w = \hC05F
      /\ m = "WAIT" <=> Within(w, \hD200, \hD2FF)
      /\ m = "MON" <=> Within(w, \hD600, \hD6FF)
  <2>1. Reads(m, w, c)
    BY <1>2
  <2>2. QED
    BY <2>1 DEF Reads
<1>6. Late \subseteq Skips /\ Returns = {"EXIT", "LEAVE", "ELEAV"} /\ "JMP" \in Jumps
  BY JumpsAre DEF Late, Skips, Returns
<1>7. /\ Within(w, \hA800, \hA8FF) => S = {Target(w, a)}
      /\ Within(w, \hA900, \hAFFF) => S = {}
  <2>1. Within(w, \hA800, \hA8FF) \/ Within(w, \hA900, \hAFFF) => Within(w, \hA800, \hAFFF)
    BY <1>1 DEF Within
  <2>2. QED
    BY <1>3, <1>4, <1>5, <2>1
<1>8. /\ Within(w, \hB000, \hB8FF) => S = {Target(w, a), a + 2}
      /\ Within(w, \hB900, \hBFFF) => S = {a + 2}
  <2>1. Within(w, \hB000, \hB8FF) \/ Within(w, \hB900, \hBFFF) => Within(w, \hB000, \hBFFF)
    BY <1>1 DEF Within
  <2>2. Within(w, \hB000, \hBFFF) => S = t \cup {a + 2}
    BY <1>4, <1>5
  <2>3. QED
    BY <1>3, <2>1, <2>2
<1>9. SkipListed(w, c) \/ Within(w, \hD300, \hD57F) => S = {a + 2, a + 4}
  BY <1>4, <1>5, <1>6
<1>10. (w = \hC05D => S = {a + 4, a + 6}) /\ (w = \hC05C => S = {a + 12, a + 14})
  BY <1>4, <1>5
<1>11. w = \hC05E \/ w = \hC05F \/ w = \hCC62 \/ Within(w, \hD200, \hD2FF) \/ w = \hD600 => S = {}
  <2>1. w = \hC05E \/ w = \hC05F \/ w = \hCC62 \/ Within(w, \hD200, \hD2FF) => S = {}
    BY <1>4, <1>5, <1>6
  <2>2. w = \hD600 => Within(w, \hD600, \hD6FF)
    BY DEF Within
  <2>3. w = \hD600 => S = {}
    BY <1>3, <1>4, <2>2
  <2>4. QED
    BY <2>1, <2>3
<1>12. ASSUME ~Within(w, \hA800, \hBFFF), ~SkipListed(w, c), ~Within(w, \hD200, \hD57F),
              ~Within(w, \hC05C, \hC05F), w # \hCC62, w # \hD600
       PROVE  S = {a + 2}
  <2>1. /\ ~Within(w, \hA800, \hAFFF) /\ ~Within(w, \hB000, \hBFFF)
        /\ ~Within(w, \hD200, \hD2FF) /\ ~Within(w, \hD300, \hD57F)
        /\ w # \hC05C /\ w # \hC05D /\ w # \hC05E /\ w # \hC05F
    BY <1>1, <1>12 DEF Within
  <2>2. CASE m = "MON"
    BY <1>3, <1>4, <1>5, <1>12, <2>2
  <2>3. CASE m # "MON"
    <3>1. m \notin Jumps /\ m \notin Skips
      BY <1>5, <1>12, <2>1
    <3>2. m \notin Returns \cup {"ENTR", "INIT", "WAIT", "MON"}
      BY <1>5, <1>6, <1>12, <2>1, <2>3
    <3>3. Plainly(m)
      BY <3>1, <3>2 DEF Plainly
    <3>4. QED
      BY <1>4, <3>3
  <2>4. QED
    BY <2>2, <2>3
<1>13. Shows(S, w, c, a)
  BY <1>7, <1>8, <1>9, <1>10, <1>11, <1>12 DEF Shows
<1>14. QED
  BY <1>13 DEF S, l

(* The two ways to read a word part exactly at the words misread.             *)
LEMMA WaysPart ==
  ASSUME NEW w, IsWord(w), NEW c \in Cpus, NEW a, InSpace(a),
         NEW S, Goes(S, w, a), NEW T, Shows(T, w, c, a)
  PROVE  S = T <=> ~MisreadWord(w, c)
<1>1. w \in Nat /\ a \in Nat
  BY DEF IsWord, InSpace
<1>2. c = "nd100" \/ c = "nd110"
  BY DEF Cpus
<1>3. "nd100" # "nd110"
  OBVIOUS
<1>4. {a + 2} # {a + 2, a + 4} /\ {a + 2} # {} /\ {a + 2, a + 4} # {}
  BY <1>1
<1>5. SkipWord(w) <=> SkipListed(w, c) \/ ((w = \hC14E \/ w = \hC14F) /\ c = "nd100")
  <2>1. "nd100" # "nd110"
    OBVIOUS
  <2>2. QED
    BY <1>2, <2>1 DEF SkipWord, SkipListed
<1> DEFINE skips == SkipWord(w)
           listed == SkipListed(w, c)
<1>6. ASSUME skips
      PROVE  /\ ~Within(w, \hA800, \hBFFF) /\ ~Within(w, \hC05C, \hC05F) /\ w # \hCC62
             /\ ~Within(w, \hC09E, \hC09F) /\ ~Within(w, \hD200, \hD57F) /\ ~EndWord(w)
             /\ w # \hD600
  BY <1>1, <1>6 DEF SkipWord, Within, EndWord
<1>7. w = \hC14E \/ w = \hC14F =>
        /\ ~Within(w, \hA800, \hBFFF) /\ ~Within(w, \hC05C, \hC05F) /\ w # \hCC62
        /\ ~Within(w, \hD200, \hD57F) /\ w # \hD600 /\ ~Within(w, \h4000, \h47FF)
        /\ ~Within(w, \hFA00, \hFBFF) /\ ~Within(w, \hC050, \hC057) /\ w # \hD10D
        /\ \A k \in 0 .. 7 : ~Within(w, \hC000 + 256 * k, \hC03F + 256 * k)
  BY DEF Within
<1>8. CASE (w = \hC14E \/ w = \hC14F) /\ c = "nd100"
  <2>1. SkipWord(w) /\ ~SkipListed(w, c)
    BY <1>3, <1>7, <1>8 DEF SkipWord, SkipListed
  <2>2. S = {a + 2, a + 4}
    BY <2>1 DEF Goes
  <2>3. T = {a + 2}
    BY <1>7, <1>8, <2>1 DEF Shows
  <2>4. MisreadWord(w, c)
    BY <1>8 DEF MisreadWord
  <2>5. QED
    BY <1>4, <2>2, <2>3, <2>4
<1>9. CASE skips /\ ~((w = \hC14E \/ w = \hC14F) /\ c = "nd100")
  <2>1. S = {a + 2, a + 4} /\ T = {a + 2, a + 4}
    BY <1>5, <1>9 DEF Goes, Shows
  <2>2. ~MisreadWord(w, c)
    <3>1. ~Within(w, \hC05E, \hC05F)
      BY <1>1, <1>6, <1>9 DEF Within
    <3>2. QED
      BY <1>6, <1>9, <3>1 DEF MisreadWord
  <2>3. QED
    BY <2>1, <2>2
<1>10. CASE ~skips
  <2>1. ~listed /\ ~((w = \hC14E \/ w = \hC14F) /\ c = "nd100")
    BY <1>5, <1>10
  <2>2. CASE Within(w, \hA800, \hBFFF)
    <3>1. ~MisreadWord(w, c)
      BY <1>1, <2>1, <2>2 DEF MisreadWord, Within
    <3>2. CASE Within(w, \hA800, \hA8FF)
      BY <3>1, <3>2 DEF Goes, Shows
    <3>3. CASE Within(w, \hA900, \hAFFF)
      <4>1. EndWord(w)
        BY <3>3 DEF EndWord
      <4>2. QED
        BY <3>1, <3>3, <4>1 DEF Goes, Shows
    <3>4. CASE Within(w, \hB000, \hB8FF)
      BY <3>1, <3>4 DEF Goes, Shows
    <3>5. CASE Within(w, \hB900, \hBFFF)
      <4>1. /\ ~Within(w, \hA800, \hA8FF) /\ ~Within(w, \hB000, \hB8FF) /\ ~EndWord(w)
            /\ w # \hC05D /\ w # \hC05C
        BY <1>1, <3>5 DEF Within, EndWord
      <4>2. S = {a + 2}
        BY <1>10, <4>1 DEF Goes
      <4>3. T = {a + 2}
        BY <3>5 DEF Shows
      <4>4. QED
        BY <3>1, <4>2, <4>3
    <3>6. \/ Within(w, \hA800, \hA8FF) \/ Within(w, \hA900, \hAFFF)
          \/ Within(w, \hB000, \hB8FF) \/ Within(w, \hB900, \hBFFF)
      BY <1>1, <2>2 DEF Within
    <3>7. QED
      BY <3>2, <3>3, <3>4, <3>5, <3>6
  <2>3. CASE ~Within(w, \hA800, \hBFFF)
    <3>1. /\ ~Within(w, \hA800, \hA8FF) /\ ~Within(w, \hB000, \hB8FF) /\ ~Within(w, \hA900, \hAFFF)
      BY <1>1, <2>3 DEF Within
    <3>2. CASE w = \hC05D \/ w = \hC05C
      <4>1. ~MisreadWord(w, c)
        BY <2>1, <3>2 DEF MisreadWord, Within
      <4>2. QED
        BY <3>2, <4>1 DEF Goes, Shows
    <3>3. CASE w = \hCC62 \/ w = \hD600
      <4>1. ~MisreadWord(w, c)
        BY <2>1, <3>3 DEF MisreadWord, Within
      <4>2. S = {}
        BY <3>3 DEF Goes, EndWord
      <4>3. T = {}
        BY <3>3 DEF Shows
      <4>4. QED
        BY <4>1, <4>2, <4>3
    <3>4. CASE w = \hC09E \/ w = \hC09F
      <4>1. MisreadWord(w, c)
        BY <3>4 DEF MisreadWord, Within
      <4>2. S = {}
        BY <3>4 DEF Goes, EndWord
      <4>3. ~Within(w, \hD200, \hD57F) /\ ~Within(w, \hC05C, \hC05F) /\ w # \hCC62 /\ w # \hD600
        BY <3>4 DEF Within
      <4>4. T = {a + 2}
        BY <2>1, <2>3, <4>3 DEF Shows
      <4>5. QED
        BY <1>4, <4>1, <4>2, <4>4
    <3>5. CASE w \notin {\hC05D, \hC05C, \hCC62, \hD600, \hC09E, \hC09F}
      <4>1. ~EndWord(w)
        BY <3>1, <3>5 DEF EndWord
      <4>2. S = {a + 2}
        BY <1>10, <3>1, <3>5, <4>1 DEF Goes
      <4>3. CASE w = \hC05E \/ w = \hC05F \/ Within(w, \hD200, \hD57F)
        <5>1. MisreadWord(w, c)
          BY <4>3 DEF MisreadWord, Within
        <5>2. Within(w, \hD200, \hD57F) => Within(w, \hD200, \hD2FF) \/ Within(w, \hD300, \hD57F)
          BY <1>1 DEF Within
        <5>3. T = {} \/ T = {a + 2, a + 4}
          BY <4>3, <5>2 DEF Shows
        <5>4. QED
          BY <1>4, <4>2, <5>1, <5>3
      <4>4. CASE ~(w = \hC05E \/ w = \hC05F \/ Within(w, \hD200, \hD57F))
        <5>1. ~Within(w, \hC05C, \hC05F) /\ ~Within(w, \hC05E, \hC05F) /\ ~Within(w, \hC09E, \hC09F)
          BY <1>1, <3>5, <4>4 DEF Within
        <5>2. ~MisreadWord(w, c)
          BY <2>1, <4>4, <5>1 DEF MisreadWord
        <5>3. T = {a + 2}
          BY <2>1, <2>3, <3>5, <4>4, <5>1 DEF Shows
        <5>4. QED
          BY <4>2, <5>2, <5>3
      <4>5. QED
        BY <4>3, <4>4
    <3>6. QED
      BY <3>2, <3>3, <3>4, <3>5
  <2>4. QED
    BY <2>2, <2>3
<1>11. QED
  BY <1>8, <1>9, <1>10

LEMMA MisreadIs ==
  ASSUME cpu \in Cpus, NEW op, IsWord(op.word)
  PROVE  Misread(op) <=> MisreadWord(op.word, cpu)
<1> DEFINE w == op.word
           l == nd100_disasm(w, cpu)
<1>1. PICK m : ((l = <<>> /\ m = "") \/ (l # <<>> /\ l[1].t = m)) /\ Reads(m, w, cpu)
  BY LineName
<1>2. Mnemonic(op) = m
  BY <1>1 DEF Mnemonic, Text
<1>3. w \in Nat
  BY DEF IsWord
<1> HIDE DEF w, l
<1>4. Reads(m, w, cpu)
  BY <1>1
<1>5. /\ m \in Late <=> Within(w, \hD300, \hD57F)
      /\ m \in {"LEAVE", "ELEAV"} <=> w = \hC05E \/ w = \hC05F
      /\ m = "WAIT" <=> Within(w, \hD200, \hD2FF)
  BY <1>4 DEF Reads
<1>6. m \in {"LEAVE", "ELEAV", "WAIT", "NLZ", "DNZ", "SRB"} <=>
        Within(w, \hC05E, \hC05F) \/ Within(w, \hD200, \hD57F)
  <2>1. Within(w, \hC05E, \hC05F) <=> w = \hC05E \/ w = \hC05F
    BY <1>3 DEF Within
  <2>2. Within(w, \hD200, \hD57F) <=> Within(w, \hD200, \hD2FF) \/ Within(w, \hD300, \hD57F)
    BY <1>3 DEF Within
  <2>3. m \in {"LEAVE", "ELEAV", "WAIT", "NLZ", "DNZ", "SRB"} <=>
          m \in {"LEAVE", "ELEAV"} \/ m = "WAIT" \/ m \in Late
    BY DEF Late
  <2>4. QED
    BY <1>5, <2>1, <2>2, <2>3
<1>7. w \in {\o140236, \o140237} <=> Within(w, \hC09E, \hC09F)
  BY <1>3 DEF Within
<1>8. w \in {\o140516, \o140517} <=> w = \hC14E \/ w = \hC14F
  OBVIOUS
<1>9. Misread(op) <=> \/ m \in {"LEAVE", "ELEAV", "WAIT", "NLZ", "DNZ", "SRB"}
                      \/ w \in {\o140236, \o140237}
                      \/ w \in {\o140516, \o140517} /\ cpu = "nd100"
  BY <1>2 DEF Misread, w
<1>10. QED
  BY <1>6, <1>7, <1>8, <1>9 DEF MisreadWord, w

(* nd100_op of a word at an even address, against the line of the word.       *)
LEMMA SaidFollows ==
  ASSUME CharSigned, cpu \in Cpus, NEW a, InSpace(a), a % 2 = 0, NEW op, NEW w, Said(op, w, a),
         ~CutOff(op)
  PROVE  Successors(op, a) = ListedSuccessors(Text(op), a) <=> ~Misread(op)
<1>1. op.word = w /\ IsWord(w) /\ Goes(Successors(op, a), w, a)
  BY DEF Said
<1>2. Text(op) = nd100_disasm(w, cpu)
  BY <1>1 DEF Text
<1>3. Shows(ListedSuccessors(nd100_disasm(w, cpu), a), w, cpu, a)
  BY <1>1, LineShows
<1>4. Misread(op) <=> MisreadWord(w, cpu)
  BY <1>1, MisreadIs
<1>5. QED
  BY <1>1, <1>2, <1>3, <1>4, WaysPart

-----------------------------------------------------------------------------
\* What further holds of an analysis that begins at an even address.

Aligned(a) == a \in Nat /\ a % 2 = 0

\* Where Search finds the patterns.
Beginnings ==
  {a \in mem.base .. mem.base + Len(mem.bytes) - 2 :
     /\ (a - mem.base) % TEXT_ALIGN = 0
     /\ SubSeq(Fetch(a), 1, 2) \in nd100_preludes(mem.big)}

\* Is the address the entry, a pattern, or where an analysed operation leads?
Led(t) == t = mem.base \/ t \in hits \/ \E k \in DOMAIN ops : t \in Successors(ops[k], k)

Even == /\ Aligned(mem.base) /\ Aligned(Len(mem.bytes))
        /\ \A a \in todo \cup DOMAIN ops : Aligned(a)

Follow ==
  /\ Even
  /\ \A a \in DOMAIN ops : InSpace(a) /\ Said(ops[a], ops[a].word, a)
  /\ \A t \in todo \cup DOMAIN ops : Led(t)
  /\ ~patched => hits = {} \/ hits = Beginnings

LEMMA SuccessorsAligned ==
  ASSUME NEW a, InSpace(a), Aligned(a), NEW op, NEW w, Said(op, w, a),
         NEW t \in Successors(op, a)
  PROVE  Aligned(t)
<1> DEFINE S == Successors(op, a)
           b == Target(w, a)
<1>1. w \in Nat
  BY DEF Said, IsWord
<1>2. Aligned(b)
  <2> DEFINE o == Signed(w % 256)
  <2>1. o \in Int /\ -128 <= o /\ o < 128
    BY <1>1, SignedRange
  <2>2. b = branch_target(a, o)
    BY DEF Target
  <2> HIDE DEF b, o
  <2>3. InSpace(b) /\ b % 2 = 0
    BY <2>1, <2>2, BranchTargetInSpace
  <2>4. QED
    BY <2>3 DEF InSpace, Aligned
<1>3. S = {a + 2} \/ Goes(S, w, a)
  BY DEF Said
<1> HIDE DEF S, b
<1>4. /\ Aligned(a + 2) /\ Aligned(a + 4) /\ Aligned(a + 6) /\ Aligned(a + 12)
      /\ Aligned(a + 14)
  BY DEF Aligned
<1>5. S \subseteq {b, a + 2, a + 4, a + 6, a + 12, a + 14}
  BY <1>3 DEF Goes, b
<1>6. QED
  BY <1>2, <1>4, <1>5 DEF S

LEMMA MappedPair ==
  ASSUME Fits(mem), Even, NEW a, Aligned(a), Mapped(a)
  PROVE  Mapped(a + 1)
<1> DEFINE b == mem.base
           n == Len(mem.bytes)
<1>1. a \in Nat /\ b \in Nat /\ n \in Nat /\ a % 2 = 0 /\ b % 2 = 0 /\ n % 2 = 0
  BY DEF Even, Aligned
<1>2. a - b \in 0 .. n - 1
  BY DEF Mapped
<1> HIDE DEF b, n
<1>3. (a + 1) - b \in 0 .. n - 1
  <2> DEFINE x == a - b
  <2>1. x \in Int /\ x % 2 = 0 /\ (a + 1) - b = x + 1
    BY <1>1
  <2>2. x \in 0 .. n - 1
    BY <1>2
  <2> HIDE DEF x
  <2>3. x # n - 1
    BY <1>1, <2>1
  <2>4. x + 1 \in 0 .. n - 1
    BY <1>1, <2>1, <2>2, <2>3
  <2>5. QED
    BY <2>1, <2>4
<1>4. QED
  BY <1>3 DEF Mapped, b, n

LEMMA OpAtSaid ==
  ASSUME Fits(mem), Even, NEW a, Aligned(a), Mapped(a)
  PROVE  /\ InSpace(a) /\ Said(OpAt(a), OpAt(a).word, a)
         /\ Fetch(a) \in Seq(0 .. 255) /\ Len(Fetch(a)) >= 2
         /\ OpAt(a).word = FromBytes(Fetch(a), mem.big)
<1>1. a \in Nat /\ Mapped(a + 1)
  BY MappedPair DEF Aligned
<1>2. InSpace(a) /\ Fetch(a) \in Seq(0 .. 255) /\ Len(Fetch(a)) >= 2
  BY <1>1, MappedInSpace, FetchIs
<1> DEFINE d == Fetch(a)
           w == FromBytes(d, mem.big)
<1>3. OpAt(a) = nd100_op(a, d, mem.big)
  BY DEF OpAt
<1>4. Said(nd100_op(a, d, mem.big), w, a)
  BY <1>2, OpSaid
<1> HIDE DEF w
<1>5. Said(OpAt(a), w, a)
  BY <1>3, <1>4
<1>6. OpAt(a).word = w
  BY <1>5 DEF Said
<1>7. QED
  BY <1>2, <1>5, <1>6 DEF w

LEMMA InitFollow == Init => Follow
<1> SUFFICES ASSUME Init PROVE Follow
  OBVIOUS
<1>1. PICK s \in Sessions : Begin(s)
  BY DEF Init
<1>2. /\ s.words \in Seq(Word) /\ s.big \in BOOLEAN /\ s.base \in Nat /\ s.base % 2 = 0
  BY SessionsAssumption DEF TEXT_ALIGN
<1> DEFINE bytes == InBytes(s.words, s.big)
<1>3. Len(bytes) = 2 * Len(s.words)
  BY <1>2, InBytesIs
<1> HIDE DEF bytes
<1>4. mem.base = s.base /\ mem.bytes = bytes
  BY <1>1 DEF Begin, bytes
<1>5. todo = {mem.base} /\ DOMAIN ops = {} /\ hits = {}
  BY DEF Init
<1>6. Aligned(Len(bytes))
  <2> DEFINE n == Len(s.words)
  <2>1. n \in Nat
    BY <1>2
  <2> HIDE DEF n
  <2>2. 2 * n \in Nat /\ (2 * n) % 2 = 0
    BY <2>1
  <2>3. QED
    BY <1>3, <2>2 DEF Aligned, n
<1>7. Even
  BY <1>2, <1>4, <1>5, <1>6 DEF Even, Aligned
<1>8. \A t \in todo \cup DOMAIN ops : Led(t)
  BY <1>5 DEF Led
<1>9. QED
  BY <1>5, <1>7, <1>8 DEF Follow

LEMMA SearchFollow == IInv /\ Follow /\ Search => Follow'
<1> SUFFICES ASSUME IInv, Follow, Search PROVE Follow'
  OBVIOUS
<1>1. /\ hits = {} /\ hits' = Beginnings /\ todo' = todo \cup (hits' \ DOMAIN ops)
      /\ UNCHANGED <<mem, cpu, ops, reg, steps, last, patched>>
  BY DEF Search, Beginnings
<1>2. \A a \in hits' : Aligned(a)
  <2> TAKE a \in hits'
  <2> DEFINE b == mem.base
             n == Len(mem.bytes)
  <2>1. b \in Nat /\ n \in Nat /\ b % 2 = 0
    BY DEF Follow, Even, Aligned
  <2>2. a \in b .. b + n - 2 /\ (a - b) % 2 = 0
    BY <1>1 DEF Beginnings, TEXT_ALIGN
  <2> HIDE DEF b, n
  <2>3. a \in Nat /\ a % 2 = 0
    BY <2>1, <2>2
  <2>4. QED
    BY <2>3 DEF Aligned
<1>3. Even'
  BY <1>1, <1>2 DEF Follow, Even
<1>4. \A t : Led(t) \/ t \in hits' => Led(t)'
  BY <1>1 DEF Led
<1>5. \A t \in todo' \cup DOMAIN ops' : Led(t)'
  BY <1>1, <1>4 DEF Follow
<1>6. Beginnings' = Beginnings
  BY <1>1 DEF Beginnings, Fetch
<1>7. (\A a \in DOMAIN ops : InSpace(a) /\ Said(ops[a], ops[a].word, a))'
  BY <1>1 DEF Follow
<1>8. QED
  BY <1>1, <1>3, <1>5, <1>6, <1>7 DEF Follow

LEMMA AnalyseFollow == IInv /\ Follow /\ Analyse => Follow'
<1> SUFFICES ASSUME IInv, Follow, Analyse PROVE Follow'
  OBVIOUS
<1>1. PICK a \in todo :
        LET op == OpAt(a)
            known == DOMAIN ops \cup {a}
            next == {t \in Successors(op, a) : Mapped(t)} \ known
        IN /\ ops' = [k \in known |-> IF k = a THEN op ELSE ops[k]]
           /\ todo' = (todo \ {a}) \cup next
           /\ UNCHANGED <<mem, cpu, hits, reg, steps, last, patched>>
  BY DEF Analyse
<1> DEFINE op == OpAt(a)
           known == DOMAIN ops \cup {a}
           next == {t \in Successors(op, a) : Mapped(t)} \ known
<1>2. /\ DOMAIN ops' = known
      /\ \A k \in known : ops'[k] = IF k = a THEN op ELSE ops[k]
      /\ todo' = (todo \ {a}) \cup next
      /\ UNCHANGED <<mem, cpu, hits, reg, steps, last, patched>>
  BY <1>1
<1>3. Fits(mem) /\ Even /\ Aligned(a) /\ Mapped(a) /\ a \notin DOMAIN ops
  BY DEF IInv, Machinery, Worklist, Follow, Even
<1>4. InSpace(a) /\ Said(op, op.word, a)
  BY <1>3, OpAtSaid
<1> HIDE DEF op
<1>5. \A t \in next : Aligned(t)
  BY <1>3, <1>4, SuccessorsAligned
<1>6. \A k \in DOMAIN ops : ops'[k] = ops[k]
  BY <1>2, <1>3
<1>7. Even'
  <2>1. \A k \in todo' \cup DOMAIN ops' : Aligned(k)
    BY <1>2, <1>3, <1>5 DEF Even
  <2>2. QED
    BY <1>2, <1>3, <2>1 DEF Even
<1>8. (\A k \in DOMAIN ops : InSpace(k) /\ Said(ops[k], ops[k].word, k))'
  <2> SUFFICES ASSUME NEW k \in known PROVE InSpace(k) /\ Said(ops'[k], ops'[k].word, k)
    BY <1>2
  <2>1. CASE k = a
    BY <1>2, <1>4, <2>1
  <2>2. CASE k # a
    BY <1>6, <2>2 DEF Follow
  <2>3. QED
    BY <2>1, <2>2
<1>9. \A t : Led(t) \/ t \in next => Led(t)'
  <2>1. ASSUME NEW t, Led(t) PROVE Led(t)'
    <3>1. ASSUME NEW k \in DOMAIN ops, t \in Successors(ops[k], k)
          PROVE  \E j \in DOMAIN ops' : t \in Successors(ops'[j], j)
      <4>1. k \in DOMAIN ops' /\ t \in Successors(ops'[k], k)
        BY <1>2, <1>6, <3>1
      <4>2. QED
        BY <4>1
    <3>2. QED
      BY <1>2, <2>1, <3>1 DEF Led
  <2>2. ASSUME NEW t \in next PROVE Led(t)'
    <3>1. a \in DOMAIN ops' /\ t \in Successors(ops'[a], a)
      BY <1>2
    <3>2. QED
      BY <3>1 DEF Led
  <2>3. QED
    BY <2>1, <2>2
<1>10. \A t \in todo' \cup DOMAIN ops' : Led(t)'
  BY <1>2, <1>9 DEF Follow
<1>11. Beginnings' = Beginnings
  BY <1>2 DEF Beginnings, Fetch
<1>12. QED
  BY <1>2, <1>7, <1>8, <1>10, <1>11 DEF Follow

LEMMA StepFollow == IInv /\ Follow /\ IInv' /\ Step => Follow'
<1> SUFFICES ASSUME IInv, Follow, Step PROVE Follow'
  OBVIOUS
<1> DEFINE pc == reg.pc
           op == OpAt(pc)
<1>1. PICK carry \in BOOLEAN :
        /\ mem' = Emulate(op, reg, mem, carry).mem
        /\ patched' = (patched \/ Emulate(op, reg, mem, carry).mem # mem)
  BY DEF Step
<1>2. Mapped(pc) /\ Mapped(pc + 1) /\ UNCHANGED <<cpu, todo, ops, hits>>
  BY DEF Step
<1>3. mem'.base = mem.base /\ Len(mem'.bytes) = Len(mem.bytes)
  BY StepEnds
<1>4. ~patched' => ~patched /\ mem' = mem
  BY <1>1
<1>5. Even'
  BY <1>2, <1>3 DEF Follow, Even
<1>6. \A t : Led(t) => Led(t)'
  BY <1>2, <1>3 DEF Led
<1>7. mem' = mem => Beginnings' = Beginnings
  BY DEF Beginnings, Fetch
<1>8. QED
  BY <1>2, <1>4, <1>5, <1>6, <1>7 DEF Follow

(* The invariant of the host, and what further holds of its analysis.         *)
LEMMA FollowInvariance == Spec => [](IInv /\ Follow)
<1>1. IInv /\ Follow /\ [Next]_vars /\ IInv' => Follow'
  <2> SUFFICES ASSUME IInv, Follow, [Next]_vars, IInv' PROVE Follow'
    OBVIOUS
  <2>1. CASE Search
    BY <2>1, SearchFollow
  <2>2. CASE Analyse
    BY <2>2, AnalyseFollow
  <2>3. CASE Step
    BY <2>3, StepFollow
  <2>4. CASE UNCHANGED vars
    <3>1. /\ mem' = mem /\ todo' = todo /\ ops' = ops /\ hits' = hits /\ patched' = patched
      BY <2>4 DEF vars
    <3>2. Even' /\ Beginnings' = Beginnings
      BY <3>1 DEF Follow, Even, Beginnings, Fetch
    <3>3. \A t : Led(t) => Led(t)'
      BY <3>1 DEF Led
    <3>4. QED
      BY <3>1, <3>2, <3>3 DEF Follow
  <2>5. QED
    BY <2>1, <2>2, <2>3, <2>4 DEF Next
<1>2. QED
  BY <1>1, InitFollow, HostInvariance, PTL DEF Spec

LEMMA InvFollows == CharSigned /\ IInv /\ Follow => FlowFollowsListing
<1> SUFFICES ASSUME CharSigned, IInv, Follow, NEW a \in DOMAIN ops, ~CutOff(ops[a])
             PROVE  Successors(ops[a], a) = ListedSuccessors(Text(ops[a]), a)
                      <=> ~Misread(ops[a])
  BY DEF FlowFollowsListing
<1>1. cpu \in Cpus
  BY DEF IInv, Machinery
<1>2. InSpace(a) /\ Said(ops[a], ops[a].word, a) /\ a % 2 = 0
  BY DEF Follow, Even, Aligned
<1>3. QED
  BY <1>1, <1>2, SaidFollows

(* nd100_op (128-1015) against nd100_disasm, on a build whose plain char is   *)
(* signed: in every image, at every address the analysis reaches and on both  *)
(* processors, it goes from a word where the line of the word says control    *)
(* goes, except for exactly the words of Misread.                             *)
THEOREM FlowFollowsAlways == ASSUME CharSigned PROVE Spec => []FlowFollowsListing
<1>1. IInv /\ Follow => FlowFollowsListing
  BY InvFollows
<1>2. QED
  BY <1>1, FollowInvariance, PTL

(* The frames by their names, and where they lead.                            *)
LEMMA FrameLeads ==
  ASSUME cpu \in Cpus, NEW op, NEW a, InSpace(a), Said(op, op.word, a), ~CutOff(op)
  PROVE  /\ Mnemonic(op) = "ENTR" => Successors(op, a) = {a + 4, a + 6}
         /\ Mnemonic(op) = "INIT" => Successors(op, a) = {a + 12, a + 14}
<1> DEFINE w == op.word
           l == nd100_disasm(w, cpu)
<1>1. IsWord(w) /\ Goes(Successors(op, a), w, a)
  BY DEF Said
<1>2. PICK m : ((l = <<>> /\ m = "") \/ (l # <<>> /\ l[1].t = m)) /\ Reads(m, w, cpu)
  BY <1>1, LineName
<1>3. Mnemonic(op) = m
  BY <1>2 DEF Mnemonic, Text
<1> HIDE DEF l, w
<1>4. (m = "ENTR" <=> w = \hC05D) /\ (m = "INIT" <=> w = \hC05C)
  <2>1. Reads(m, w, cpu)
    BY <1>2
  <2>2. QED
    BY <2>1 DEF Reads
<1>5. QED
  BY <1>1, <1>3, <1>4 DEF Goes

LEMMA InvSkips == IInv /\ Follow => InlineDataSkipped
<1> SUFFICES ASSUME IInv, Follow, NEW a \in DOMAIN ops,
                    Mnemonic(ops[a]) \in DOMAIN Frame, ~CutOff(ops[a]),
                    NEW i \in 1 .. (IF Mnemonic(ops[a]) = "ENTR" THEN 1 ELSE 5),
                    a + 2 * i \in DOMAIN ops,
                    a + 2 * i \notin hits \cup {mem.base}
             PROVE  \E k \in DOMAIN ops \ {a} : a + 2 * i \in Successors(ops[k], k)
  BY DEF InlineDataSkipped
<1> DEFINE m == Mnemonic(ops[a])
           t == a + 2 * i
<1>1. cpu \in Cpus
  BY DEF IInv, Machinery
<1>2. InSpace(a) /\ Said(ops[a], ops[a].word, a)
  BY DEF Follow
<1>3. /\ m = "ENTR" => Successors(ops[a], a) = {a + 4, a + 6}
      /\ m = "INIT" => Successors(ops[a], a) = {a + 12, a + 14}
  BY <1>1, <1>2, FrameLeads
<1>4. m = "ENTR" \/ m = "INIT"
  BY FrameIs
<1> HIDE DEF m
<1>5. (m = "ENTR" /\ i = 1) \/ (m = "INIT" /\ i \in 1 .. 5)
  <2>1. "ENTR" # "INIT"
    OBVIOUS
  <2>2. m = "ENTR" => i \in 1 .. 1
    BY DEF m
  <2>3. m # "ENTR" => i \in 1 .. 5
    BY DEF m
  <2>4. QED
    BY <1>4, <2>2, <2>3
<1>6. t \notin Successors(ops[a], a)
  <2>1. a \in Nat
    BY <1>2 DEF InSpace
  <2>2. CASE m = "ENTR" /\ i = 1
    BY <1>3, <2>1, <2>2
  <2>3. CASE m = "INIT" /\ i \in 1 .. 5
    BY <1>3, <2>1, <2>3
  <2>4. QED
    BY <1>5, <2>2, <2>3
<1>7. PICK k \in DOMAIN ops : t \in Successors(ops[k], k)
  BY DEF Follow, Led
<1> HIDE DEF t
<1>8. k # a
  BY <1>6, <1>7
<1>9. QED
  BY <1>7, <1>8 DEF t

(* nd100_op's sizes (481-508), in every image: no operand of an ENTR or INIT  *)
(* is analysed as code unless something else leads there.                     *)
THEOREM InlineSkippedAlways == Spec => []InlineDataSkipped
BY InvSkips, FollowInvariance, PTL

(* The patterns of nd100_preludes (1017-1060) are the words of PreludeWords,  *)
(* in either order.                                                           *)
LEMMA PatternWords ==
  ASSUME NEW d \in Seq(0 .. 255), Len(d) >= 2, NEW big \in BOOLEAN
  PROVE  SubSeq(d, 1, 2) \in nd100_preludes(big) <=> FromBytes(d, big) \in PreludeWords
<1> DEFINE x == d[1]
           y == d[2]
           s == SubSeq(d, 1, 2)
<1>1. x \in Nat /\ x < 256 /\ y \in Nat /\ y < 256
  <2>1. Len(d) \in Nat /\ 1 \in 1 .. Len(d) /\ 2 \in 1 .. Len(d)
    OBVIOUS
  <2>2. x \in 0 .. 255 /\ y \in 0 .. 255
    BY <2>1, ElementOfSeq
  <2> HIDE DEF x, y
  <2>3. QED
    BY <2>2
<1>2. s = <<x, y>>
  <2>1. \A i \in 1 .. 2 : d[i] \in 0 .. 255
    <3>1. Len(d) \in Nat /\ \A i \in 1 .. 2 : i \in 1 .. Len(d)
      OBVIOUS
    <3>2. QED
      BY <3>1, ElementOfSeq
  <2>2. s \in Seq(0 .. 255) /\ Len(s) = 2 /\ \A i \in 1 .. 2 : s[i] = d[i]
    BY <2>1, SubSeqProperties
  <2> HIDE DEF s
  <2>3. IsLine(s)
    BY <2>2, SeqLine
  <2>4. s = <<s[1], s[2]>>
    BY <2>2, <2>3, PairIs
  <2>5. s[1] = x /\ s[2] = y
    BY <2>2
  <2>6. QED
    BY <2>4, <2>5
<1> HIDE DEF x, y, s
<1>3. \A p, q : <<x, y>> = <<p, q>> <=> x = p /\ y = q
  BY PairLine
<1>4. CASE big
  <2>1. s \in nd100_preludes(big) <=>
          (x = \hC8 /\ y = \h38) \/ (x = \hC0 /\ y = \h5D) \/ (x = \hC0 /\ y = \h5C)
    BY <1>2, <1>3, <1>4 DEF nd100_preludes
  <2>2. FromBytes(d, big) = 256 * x + y
    BY <1>4 DEF FromBytes, x, y
  <2>3. 256 * x + y \in PreludeWords <=>
          (x = \hC8 /\ y = \h38) \/ (x = \hC0 /\ y = \h5D) \/ (x = \hC0 /\ y = \h5C)
    BY <1>1 DEF PreludeWords
  <2>4. QED
    BY <2>1, <2>2, <2>3 DEF s
<1>5. CASE ~big
  <2>1. s \in nd100_preludes(big) <=>
          (y = \hC8 /\ x = \h38) \/ (y = \hC0 /\ x = \h5D) \/ (y = \hC0 /\ x = \h5C)
    BY <1>2, <1>3, <1>5 DEF nd100_preludes
  <2>2. FromBytes(d, big) = x + 256 * y
    BY <1>5 DEF FromBytes, x, y
  <2>3. x + 256 * y \in PreludeWords <=>
          (y = \hC8 /\ x = \h38) \/ (y = \hC0 /\ x = \h5D) \/ (y = \hC0 /\ x = \h5C)
    <3>1. x + 256 * y = \hC838 <=> y = \hC8 /\ x = \h38
      BY <1>1
    <3>2. x + 256 * y = \hC05D <=> y = \hC0 /\ x = \h5D
      BY <1>1
    <3>3. x + 256 * y = \hC05C <=> y = \hC0 /\ x = \h5C
      BY <1>1
    <3>4. QED
      BY <3>1, <3>2, <3>3 DEF PreludeWords
  <2>4. QED
    BY <2>1, <2>2, <2>3 DEF s
<1>6. QED
  BY <1>4, <1>5

LEMMA InvFinds == IInv /\ Follow => PreludesFound
<1> DEFINE aligned == {mem.base + 2 * i : i \in 0 .. Len(mem.bytes) \div 2 - 1}
           line(a) == Text(OpAt(a))
<1> SUFFICES ASSUME IInv, Follow, hits # {}, ~patched
             PROVE  hits = {a \in aligned : line(a) \in Preludes}
  BY DEF PreludesFound, Preludes, SwapLine
<1>1. hits = Beginnings
  BY DEF Follow
<1>2. Fits(mem) /\ cpu \in Cpus /\ Even /\ mem.big \in BOOLEAN
  BY DEF IInv, Machinery, Fits, Images, Follow
<1> DEFINE b == mem.base
           n == Len(mem.bytes)
<1>3. b \in Nat /\ n \in Nat /\ b % 2 = 0 /\ n % 2 = 0
  BY <1>2 DEF Even, Aligned
<1>4. \A a : a \in aligned <=> a \in b .. b + n - 2 /\ (a - b) % 2 = 0
  <2> HIDE DEF b, n
  <2> DEFINE T == {b + 2 * i : i \in 0 .. n \div 2 - 1}
  <2>1. ASSUME NEW a \in T PROVE a \in b .. b + n - 2 /\ (a - b) % 2 = 0
    <3>1. PICK i \in 0 .. n \div 2 - 1 : a = b + 2 * i
      BY <2>1
    <3>2. i \in Nat /\ 2 * i <= n - 2
      BY <1>3
    <3>3. a - b = 2 * i /\ (2 * i) % 2 = 0 /\ a \in Int
      BY <1>3, <3>1, <3>2
    <3>4. QED
      BY <1>3, <3>1, <3>2, <3>3
  <2>2. ASSUME NEW a \in b .. b + n - 2, (a - b) % 2 = 0 PROVE a \in T
    <3> DEFINE i == (a - b) \div 2
    <3>1. a = b + 2 * i /\ i \in 0 .. n \div 2 - 1
      BY <1>3, <2>2
    <3>2. QED
      BY <3>1
  <2>3. QED
    BY <2>1, <2>2 DEF b, n
<1>5. ASSUME NEW a \in aligned
      PROVE  line(a) \in Preludes <=> SubSeq(Fetch(a), 1, 2) \in nd100_preludes(mem.big)
  <2>1. a \in b .. b + n - 2 /\ (a - b) % 2 = 0
    BY <1>4, <1>5
  <2> HIDE DEF b, n, aligned
  <2>2. a \in Nat /\ a % 2 = 0 /\ a - b \in 0 .. n - 1
    BY <1>3, <2>1
  <2>3. Aligned(a) /\ Mapped(a)
    BY <2>2 DEF Aligned, Mapped, b, n
  <2> DEFINE d == Fetch(a)
             w == FromBytes(d, mem.big)
  <2>4. d \in Seq(0 .. 255) /\ Len(d) >= 2 /\ OpAt(a).word = w
    BY <1>2, <2>3, OpAtSaid
  <2>5. IsWord(w)
    BY <2>4, WordOfBytes
  <2>6. line(a) = nd100_disasm(w, cpu)
    BY <2>4 DEF Text
  <2>7. SubSeq(d, 1, 2) \in nd100_preludes(mem.big) <=> w \in PreludeWords
    BY <1>2, <2>4, PatternWords
  <2> HIDE DEF w, d, line
  <2>8. nd100_disasm(w, cpu) \in Preludes <=> w \in PreludeWords
    BY <1>2, <2>5, PreludeLines
  <2>9. QED
    BY <2>6, <2>7, <2>8 DEF d
<1>6. Beginnings = {a \in aligned : SubSeq(Fetch(a), 1, 2) \in nd100_preludes(mem.big)}
  <2>1. \A a : a \in Beginnings <=> /\ a \in b .. b + n - 2 /\ (a - b) % 2 = 0
                                    /\ SubSeq(Fetch(a), 1, 2) \in nd100_preludes(mem.big)
    BY DEF Beginnings, TEXT_ALIGN
  <2> HIDE DEF aligned, b, n
  <2>2. QED
    BY <1>4, <2>1
<1> HIDE DEF aligned, line
<1>7. QED
  BY <1>1, <1>5, <1>6

(* nd100_preludes (1017-1060) against the decoder, in every image and both    *)
(* byte orders: until a store goes into the image the patterns found are      *)
(* exactly the aligned words that list as SWAP SX 0, ENTR and INIT.           *)
THEOREM PreludesAlways == Spec => []PreludesFound
BY InvFinds, FollowInvariance, PTL
=============================================================================
