------------------------------ MODULE AsmProps ------------------------------
(***************************************************************************)
(* What the decoder and the assembler must agree on.                       *)
(***************************************************************************)
EXTENDS AsmPlugin

Listed == origin.how = "listed"

Users == {"USER0", "USER1", "USER2", "USER3", "USER4", "USER5", "USER6", "USER7",
          "USER8", "USER9"}
BareBitOps == {Kws(b) : b \in Range(bop_str)}

\* Lines the decoder writes and the assembler does not know: unused and user
\* codes, internal registers past the fourth that are named, and operations on
\* status bits without a name.
Unknown(text) ==
  \/ First(text).t \in {"", "UNDEF", "invalid"} \cup Users
  \/ /\ First(text).t \in {"TRR", "MCL", "MST"}
     /\ text[2].t \in {"IIE", "PID", "PIE", "CCL", "LCIL", "UCILR"}
  \/ text \in BareBitOps

\* AD1 and ADC belong to RADD; added to another operation, or twice the same
\* bit, they carry into the operation (line 714).
Names(text) == {Statement(text)[i].t : i \in 1 .. Len(Statement(text))}
CarryInto(op, names) ==
  \/ op # "RADD" /\ names \cap {"AD1", "ADC"} # {}
  \/ op = "RSUB" /\ "CM1" \in names
  \/ {"AD1", "ADC"} \subseteq names
Carries(text) == \E op \in Names(text) \cap DOMAIN RegOp : CarryInto(op, Names(text))

\* The mnemonics under which the decoder lists what m assembles to.  RADD CLD
\* SL DP, which COPY may write, is the word of EXIT.
ListedAs(m) ==
  CASE m \in DOMAIN AliasOp -> {"RADD"}
    [] m = "COPY" -> {"RADD", "EXIT"}
    [] m = "RADD" -> {"RADD", "RSUB", "EXIT"}
    [] m = "RSUB" -> {"RADD", "RSUB"}
    [] m = "HALT" -> {"USER0"}
    [] OTHER -> {m} \cap DOMAIN StageOf

\* The mnemonics a line may come back under.  A mnemonic where an operand
\* should be makes the assembler start over from it, if its stage is yet to come.
Operation(text) ==
  LET first == First(text).t
      later == {m \in Names(text) \cap DOMAIN StageOf :
                  first \in DOMAIN StageOf /\ StageOf[m] > StageOf[first]}
  IN UNION {ListedAs(m) : m \in {first} \cup later}

\* A memory reference with its number at n and addressing modes written behind it,
\* and the same line with those modes before the number.
ModesBehind(text, n) ==
  /\ First(text).t \in DOMAIN MemrefOp
  /\ n \in 2 .. Len(text) - 1 /\ IsNum(text[n])
  /\ \A i \in 2 .. n - 1 : text[i].t \in Commas \cup {"I"}
  /\ text[n + 1].t \in AfterNumber
  /\ \A i \in n + 1 .. Len(text) : text[i].t \in Commas
ModesInFront(text, n) ==
  SubSeq(text, 1, n - 1)
  \o [i \in 1 .. Len(text) - n |-> IF text[n + i].t \in CommaB THEN Kw(",B") ELSE Kw(",X")]
  \o <<text[n]>>

(* Types, and that a line at hand has an origin.                              *)
TypeOK ==
  /\ bytes \in Seq(0 .. 255) /\ Len(bytes) <= 2
  /\ big_endian \in BOOLEAN /\ cpu \in Cpus
  /\ IsText(line)
  /\ origin.how \in {"none", "listed", "typed"} /\ origin.cpu \in Cpus
  /\ outcome \in {"none", "read", "written", "refused"}
  /\ line # <<>> => origin.how # "none"

(* disassemble (1000-1050) against assemble (247-996), README.md:126: a       *)
(* listed line, its comment included, once written reads back as the same     *)
(* line, under either byte order and also when it was listed for the ND-100   *)
(* and written under the ND-110.                                              *)
WriteReadsBack ==
  (/\ Listed /\ outcome = "written"
   /\ origin.cpu \in {cpu, "nd100"})
  => Listing(bytes, big_endian, cpu) = line

(* The same two tables, name by name: assemble refuses a listed line exactly  *)
(* when it is one of the few the decoder writes and the assembler lacks.      *)
RefusesOnlyUnknown ==
  Listed => /\ outcome = "refused" => Unknown(line)
            /\ outcome = "written" => ~Unknown(line)

(* nd100_is_branch and nd100_branch_offset (756-783) against the listing: the *)
(* branches are the lines with a jump mnemonic, and the offset is the number  *)
(* the line shows, whichever sign the build's char gives it.                  *)
BranchesListed ==
  Len(bytes) = 2 =>
    LET w == FromBytes(bytes, big_endian)
        text == nd100_disasm(w, cpu)
        jump == First(text).t \in {"JMP", "JPL"} \cup Range(CondJumps)
    IN /\ nd100_is_branch(w) <=> jump
       /\ jump => (nd100_branch_offset(w) - text[Len(text)].n) % 256 = 0

(* assemble (247-996): whatever the numbers and registers of a line, what it  *)
(* wrote is listed on an ND-110 as the operation it names, or the one its     *)
(* alias stands for: an operand too wide for its field never reaches the      *)
(* opcode.                                                                    *)
OperandsStayInField ==
  (outcome = "written" /\ ~Carries(line)) =>
    First(nd100_disasm(FromBytes(bytes, big_endian), "nd110")).t \in Operation(line)

(* GETTING-STARTED.md:117-125, "Both produce the same encoding": an           *)
(* addressing mode written behind the number is the same as one before it,    *)
(* and where the modes before the number are refused, both forms are.         *)
BothFormsAgree ==
  \A n \in 1 .. Len(line) :
    ModesBehind(line, n) => Encode(line) = Encode(ModesInFront(line, n))

(* README.md:126, "Full round-trip assembly of the entire ND-100/ND-110       *)
(* instruction set": every listed instruction assembles.                      *)
EveryListingAssembles ==
  (Listed /\ First(line).t \notin {"", "UNDEF", "invalid"} \cup Users)
  => outcome # "refused"
=============================================================================
