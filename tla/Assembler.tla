------------------------------ MODULE Assembler ------------------------------
(***************************************************************************)
(* ax-asm: two passes over the lines of a file.  The first finds the       *)
(* address of every label, the second parses and encodes the lines of code *)
(* and stops at one that it cannot parse; only a file without such a line  *)
(* is written.  One step is one turn of a loop.                            *)
(***************************************************************************)
EXTENDS AsmText, Encoding, FiniteSets

CONSTANT Files   \* that may be assembled

ASSUME FilesAssumption == Files \subseteq Seq(Line)

NoLabel == -1    \* the address of a label that the file does not define

-----------------------------------------------------------------------------
(* Instructions by mnemonic: those of three registers ...                  *)
ScalarMnemonics == {"ADD.X", "SUB.X", "AND", "OR", "XOR", "SHL", "SHR", "SRA"}
SlowMnemonics   == {"MUL", "MUL.X", "DIV", "DIV.X", "SLT", "SLTU"}
OtherMnemonics  == {"FADD.X", "FMUL.X"}
VectorMnemonics == {"VADD", "VMUL", "VFMA", "VPERM", "VADD.M", "VMUL.M", "VFMA.M", "VPERM.M"}

ScalarVariant(mn) ==
  CASE mn = "ADD.X" -> "Add" [] mn = "SUB.X" -> "Sub" [] mn = "AND" -> "And" [] mn = "OR" -> "Or"
    [] mn = "XOR" -> "Xor" [] mn = "SHL" -> "Shl" [] mn = "SHR" -> "Shr" [] mn = "SRA" -> "Sra"

SlowVariant(mn) ==
  CASE mn \in {"MUL", "MUL.X"} -> "Mul" [] mn \in {"DIV", "DIV.X"} -> "Div"
    [] mn = "SLT" -> "Slt" [] mn = "SLTU" -> "Sltu"

OtherVariant(mn) == CASE mn = "FADD.X" -> "FAdd" [] mn = "FMUL.X" -> "FMul"

VectorVariant(mn) ==
  CASE mn = "VADD" -> "VAdd" [] mn = "VADD.M" -> "VAdd.M" [] mn = "VMUL" -> "VMul"
    [] mn = "VMUL.M" -> "VMul.M" [] mn = "VFMA" -> "VFma" [] mn = "VFMA.M" -> "VFma.M"
    [] mn = "VPERM" -> "VPerm" [] mn = "VPERM.M" -> "VPerm.M"

(* ... and the branches.                                                   *)
BranchMnemonics == {"BEQ", "BRANCH.X", "BNE", "BLT", "BGE", "BLTU", "BGEU"}

BranchVariant(mn) == IF mn = "BRANCH.X" THEN "BEQ" ELSE mn

-----------------------------------------------------------------------------
Instr(v, rd, rs1, rs2, imm) == [v |-> v, rd |-> rd, rs1 |-> rs1, rs2 |-> rs2, imm |-> imm]

(* The conversion to i16; a number that is none is 0, without an error.    *)
Wrap16(n) == ((n + 32768) % 65536) - 32768
Number(x) == IF x.t = "int" THEN x.n ELSE 0

(* mutant: distances are in bytes *)
ByteDistance(target, pc) == target - pc

Distance(target, pc) == (target - pc) \div 4

(* parse_branch_target: a label of the file, a number, or else 0.          *)
TransferTarget(x, at, pc) ==
  IF x.t = "name" /\ at[x.name] # NoLabel THEN Distance(at[x.name], pc) ELSE Number(x)

(* The first k operands are there, and are registers.                      *)
Registers(args, k) == Len(args) >= k /\ \A j \in 1 .. k : args[j].t = "reg"

(* The base register and displacement of a bracketed operand, where a      *)
(* hexadecimal displacement is not a number.                               *)
IsMemory(x)     == x.t \in {"mem", "reg"}
Base(x)         == IF x.t = "reg" THEN x.n ELSE x.base
Displacement(x) == IF x.t = "mem" /\ x.form # "hex" THEN Wrap16(x.disp) ELSE 0

(* parse_line: the instruction of a line, in a set that is empty when      *)
(* there is none.  The arms are operators of their own.                    *)
ThreeRegisters(v, a) ==
  IF Registers(a, 3) THEN {Instr(v, a[1].n, a[2].n, a[3].n, 0)} ELSE {}

AddImmediate(a) ==
  IF Registers(a, 2) /\ Len(a) >= 3
    THEN {Instr("AddI", a[1].n, a[2].n, 0, Wrap16(Number(a[3])))} ELSE {}

(* With blanks, a bracketed operand looks like more operands, none of them *)
(* a register.                                                             *)
Bracketed(a) == Registers(a, 1) /\ Len(a) = 2 /\ IsMemory(a[2])
Wide(x)      == x.t = "mem" /\ x.form = "wide"

LoadX(a) ==
  CASE Len(a) >= 3 /\ Registers(a, 2) ->
         {Instr("LoadX", a[1].n, a[2].n, 0, Wrap16(Number(a[3])))}
    [] Bracketed(a) /\ ~Wide(a[2]) ->
         {Instr("LoadX", a[1].n, Base(a[2]), 0, Displacement(a[2]))}
    [] OTHER -> {}

(* The base register comes first without brackets, and second with them.   *)
StoreX(a) ==
  CASE Len(a) >= 3 /\ Registers(a, 2) ->
         {Instr("StoreX", 0, a[1].n, a[2].n, Wrap16(Number(a[3])))}
    [] Bracketed(a) /\ ~Wide(a[2]) ->
         {Instr("StoreX", 0, Base(a[2]), a[1].n, Displacement(a[2]))}
    [] OTHER -> {}

(* The memory operand is all the words behind the first operand, joined;   *)
(* only a single operand there is modelled.                                *)
VLoad(a) ==
  IF Bracketed(a) THEN {Instr("VLoad", a[1].n, Base(a[2]), 0, Displacement(a[2]))} ELSE {}

VStore(a) ==
  IF Bracketed(a) THEN {Instr("VStore", 0, Base(a[2]), a[1].n, Displacement(a[2]))} ELSE {}

BranchX(v, a, at, pc) ==
  IF Registers(a, 2) /\ Len(a) >= 3
    THEN {Instr(v, 0, a[1].n, a[2].n, Wrap16(TransferTarget(a[3], at, pc)))} ELSE {}

JumpX(a, at, pc) ==
  IF Registers(a, 1) /\ Len(a) >= 2
    THEN {Instr("JumpX", a[1].n, 0, 0, TransferTarget(a[2], at, pc))} ELSE {}

IsCsr(a) == Registers(a, 1) /\ Len(a) >= 2 /\ a[2].t = "int"

ParseLine(line, at, pc) ==
  LET mn == line.mn
      a  == line.args
  IN CASE mn \in ScalarMnemonics -> ThreeRegisters(ScalarVariant(mn), a)
       [] mn \in SlowMnemonics   -> ThreeRegisters(SlowVariant(mn), a)
       [] mn \in OtherMnemonics  -> ThreeRegisters(OtherVariant(mn), a)
       [] mn \in VectorMnemonics -> ThreeRegisters(VectorVariant(mn), a)
       [] mn = "ADDI"    -> AddImmediate(a)
       [] mn = "LOAD.X"  -> LoadX(a)
       [] mn = "STORE.X" -> StoreX(a)
       [] mn = "VLOAD"   -> VLoad(a)
       [] mn = "VSTORE"  -> VStore(a)
       [] mn \in BranchMnemonics -> BranchX(BranchVariant(mn), a, at, pc)
       [] mn = "JUMP.X"  -> JumpX(a, at, pc)
       [] mn = "CSR.READ" /\ IsCsr(a)  -> {Instr("CsrRead", a[1].n, 0, 0, a[2].n % 65536)}
       [] mn = "CSR.WRITE" /\ IsCsr(a) -> {Instr("CsrWrite", 0, a[1].n, 0, a[2].n % 65536)}
       [] mn = "ECALL"   -> {Instr("Ecall", 0, 0, 0, 0)}
       [] mn = "EXRET"   -> {Instr("Exret", 0, 0, 0, 0)}
       [] mn = "VCMP.GT" /\ Registers(a, 2) -> {Instr("VCmpGt", 0, a[1].n, a[2].n, 0)}
       [] mn = ".word" /\ a # <<>> -> {Instr("Raw", 0, 0, 0, Number(a[1]))}
       [] OTHER -> {}

-----------------------------------------------------------------------------
VARIABLES text, pass, line_num, labels, current_pc, words

asm_vars == <<text, pass, line_num, labels, current_pc, words>>

NoLabels == [l \in LabelNames |-> NoLabel]

Opened == pass = "labels" /\ line_num = 1 /\ labels = NoLabels /\ current_pc = 0 /\ words = <<>>

AsmInit == text \in Files /\ Opened

(* mutant: the first of two labels with one name counts *)
FirstDefinition(at, l, pc) == IF at[l] = NoLabel THEN [at EXCEPT ![l] = pc] ELSE at

Define(at, l, pc) == [at EXCEPT ![l] = pc]

Here(kind) == line_num <= Len(text) /\ text[line_num].kind = kind

ReadLabel ==
  /\ pass = "labels" /\ Here("label")
  /\ labels' = Define(labels, text[line_num].name, current_pc)
  /\ line_num' = line_num + 1
  /\ UNCHANGED <<text, pass, current_pc, words>>

ReadCode ==
  /\ pass = "labels" /\ Here("code")
  /\ current_pc' = current_pc + 4
  /\ line_num' = line_num + 1
  /\ UNCHANGED <<text, pass, labels, words>>

SkipLine ==
  /\ Here("blank") \/ (pass = "code" /\ Here("label"))
  /\ pass \in {"labels", "code"}
  /\ line_num' = line_num + 1
  /\ UNCHANGED <<text, pass, labels, current_pc, words>>

SecondPass ==
  /\ pass = "labels" /\ line_num > Len(text)
  /\ pass' = "code" /\ line_num' = 1 /\ current_pc' = 0
  /\ UNCHANGED <<text, labels, words>>

AssembleLine ==
  /\ pass = "code" /\ Here("code")
  /\ \E i \in ParseLine(text[line_num], labels, current_pc) : words' = Append(words, Encode(i))
  /\ current_pc' = current_pc + 4
  /\ line_num' = line_num + 1
  /\ UNCHANGED <<text, pass, labels>>

(* mutant: a line with an error is skipped *)
SkipError ==
  /\ pass = "code" /\ Here("code")
  /\ ParseLine(text[line_num], labels, current_pc) = {}
  /\ line_num' = line_num + 1
  /\ UNCHANGED <<text, pass, labels, current_pc, words>>

RejectLine ==
  /\ pass = "code" /\ Here("code")
  /\ ParseLine(text[line_num], labels, current_pc) = {}
  /\ pass' = "failed"
  /\ UNCHANGED <<text, line_num, labels, current_pc, words>>

(* The files of words and of hexadecimal digits.                           *)
WriteFiles ==
  /\ pass = "code" /\ line_num > Len(text)
  /\ pass' = "written"
  /\ UNCHANGED <<text, line_num, labels, current_pc, words>>

AsmNext == ReadLabel \/ ReadCode \/ SkipLine \/ SecondPass \/ AssembleLine \/ RejectLine \/ WriteFiles

AsmSpec == AsmInit /\ [][AsmNext]_asm_vars

-----------------------------------------------------------------------------
AsmTypeOK ==
  /\ text \in Seq(Line)
  /\ pass \in {"labels", "code", "failed", "written"}
  /\ line_num \in 1 .. Len(text) + 1
  /\ labels \in [LabelNames -> Nat \cup {NoLabel}]
  /\ current_pc \in Nat
  /\ words \in Seq(Int)

(* The address of line k: the code before it, whatever else is between.    *)
LineAddress(k) == 4 * Cardinality({j \in 1 .. k - 1 : text[j].kind = "code"})

DefinitionsOf(l) == {k \in DOMAIN text : text[k].kind = "label" /\ text[k].name = l}
LastDefinition(l) == CHOOSE k \in DefinitionsOf(l) : \A j \in DefinitionsOf(l) : j <= k

(* Line k has just been assembled, to the last word.                       *)
JustAssembled(k) ==
  pass = "code" /\ k = line_num - 1 /\ k \in DOMAIN text /\ text[k].kind = "code"

LastWord == words[Len(words)]

BranchTo(k, l) == text[k].mn \in BranchMnemonics /\ text[k].args[3] = L(l)
JumpTo(k, l)   == text[k].mn = "JUMP.X" /\ text[k].args[2] = L(l)

(* A branch or jump to a label leads there: from the place that its word   *)
(* gets in the file the decoder reads a distance to the line of the last   *)
(* definition, or the distance does not fit in the instruction.            *)
BranchesReach ==
  \A k \in DOMAIN text, l \in LabelNames :
    JustAssembled(k) /\ DefinitionsOf(l) # {} =>
      LET here == 4 * (Len(words) - 1)
          goal == LineAddress(LastDefinition(l))
      IN  /\ BranchTo(k, l) /\ Imm14((goal - here) \div 4)
               => here + 4 * Decode(LastWord).imm14 = goal
          /\ JumpTo(k, l) /\ Imm19((goal - here) \div 4)
               => here + 4 * Decode(LastWord).imm19 = goal

(* The decoder of the emulator reads from a word what its line says: the   *)
(* fields of all layouts are where it looks for them, and signs survive.   *)
InstructionsSurvive ==
  \A k \in DOMAIN text :
    JustAssembled(k) =>
      \A i \in ParseLine(text[k], labels, current_pc - 4) : Fits(i) => Reads(i, Decode(LastWord))

(* A file is written only when all of its lines are instructions, and with *)
(* one word for each.                                                      *)
NothingHalfWritten ==
  pass = "written" =>
    /\ 4 * Len(words) = LineAddress(Len(text) + 1)
    /\ \A k \in DOMAIN text : text[k].kind = "code" => ParseLine(text[k], labels, LineAddress(k)) # {}
=============================================================================
