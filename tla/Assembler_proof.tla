---------------------------- MODULE Assembler_proof ----------------------------
(***************************************************************************)
(* The proofs about Encoding, for all operands, and about Assembler and    *)
(* Disassembler, for any files, of any length, over any labels.            *)
(***************************************************************************)
EXTENDS Disassembler, FiniteSetTheorems, TLAPS

-----------------------------------------------------------------------------
(* Words: what the decoder reads is what the encoder wrote                 *)

(* Quotient and remainder of a number in two digits.                       *)
LEMMA Digits ==
  ASSUME NEW x \in Int, NEW y \in Int, 0 <= y
  PROVE  /\ y < 32     => (x * 32 + y) \div 32 = x /\ (x * 32 + y) % 32 = y
         /\ y < 128    => (x * 128 + y) \div 128 = x
         /\ y < 512    => (x * 512 + y) \div 512 = x /\ (x * 512 + y) % 512 = y
         /\ y < 4096   => (x * 4096 + y) % 4096 = y
         /\ y < 16384  => (x * 16384 + y) \div 16384 = x /\ (x * 16384 + y) % 16384 = y
         /\ y < 524288 => (x * 524288 + y) \div 524288 = x /\ (x * 524288 + y) % 524288 = y
BY SMT

(* Shifts one after the other.                                             *)
LEMMA Shifts ==
  ASSUME NEW w \in Int
  PROVE  /\ (w \div 128) \div 4096 = w \div 524288
         /\ (w \div 512) \div 32 = w \div 16384
         /\ (w \div 16384) \div 32 = w \div 524288
         /\ (w \div 524288) \div 32 = w \div 16777216
BY SMT

(* Sign extension undoes the mask.                                         *)
LEMMA Extend ==
  ASSUME NEW x \in Int
  PROVE  /\ Imm14(x) => SignExtend(x % 16384, 8192) = x
         /\ Imm19(x) => SignExtend(x % 524288, 262144) = x
BY SMT DEF Imm14, Imm19, SignExtend

-----------------------------------------------------------------------------
(* The fields of the four layouts.                                         *)
LEMMA FieldsR ==
  ASSUME NEW i \in Instruction, NEW op \in Nat, NEW f \in Nat, f < 512
  PROVE  LET d == Decode(PackR(op, i.rd, i.rs1, i.rs2, f))
         IN d.op = op /\ d.rd = i.rd /\ d.rs1 = i.rs1 /\ d.rs2 = i.rs2 /\ d.funct = f
<1> DEFINE a  == i.rd
           b  == i.rs1
           c  == i.rs2
           w3 == op * 32 + a
           w2 == w3 * 32 + b
           w1 == w2 * 32 + c
           w  == w1 * 512 + f
<1>0. a \in Nat /\ a < 32 /\ b \in Nat /\ b < 32 /\ c \in Nat /\ c < 32
  BY SMT DEF Instruction, Reg
<1> HIDE DEF a, b, c
<1>1. PackR(op, a, b, c, f) = w
  BY <1>0, SMT DEF PackR
<1>2. w3 \in Nat /\ w2 \in Nat /\ w1 \in Nat /\ w \in Nat
  BY <1>0, SMT
<1>3. w3 \div 32 = op /\ w3 % 32 = a
  BY <1>0, Digits, SMT
<1> HIDE DEF w3
<1>4. w2 \div 32 = w3 /\ w2 % 32 = b
  BY <1>0, <1>2, Digits, SMT
<1> HIDE DEF w2
<1>5. w1 \div 32 = w2 /\ w1 % 32 = c
  BY <1>0, <1>2, Digits, SMT
<1> HIDE DEF w1
<1>6. w \div 512 = w1 /\ w % 512 = f
  BY <1>0, <1>2, Digits, SMT
<1> HIDE DEF w
<1>7. w \div 16384 = w2 /\ w \div 524288 = w3 /\ w \div 16777216 = op
  BY <1>2, <1>3, <1>4, <1>5, <1>6, Shifts, SMT
<1>8. LET d == Decode(PackR(op, a, b, c, f))
      IN d.op = op /\ d.rd = a /\ d.rs1 = b /\ d.rs2 = c /\ d.funct = f
  BY <1>1, <1>3, <1>4, <1>5, <1>6, <1>7 DEF Decode
<1> QED
  BY <1>8 DEF a, b, c

LEMMA OpcodeAlone ==
  ASSUME NEW op \in Nat
  PROVE  Decode(PackR(op, 0, 0, 0, 0)).op = op
<1>1. PackR(op, 0, 0, 0, 0) = op * 16777216
  BY SMT DEF PackR
<1>2. (op * 16777216) \div 16777216 = op
  BY SMT
<1> QED
  BY <1>1, <1>2 DEF Decode

LEMMA FieldsI ==
  ASSUME NEW op \in Nat, NEW a \in Nat, NEW b \in Nat, NEW imm \in Int,
         a < 32, b < 32, Imm14(imm)
  PROVE  LET d == Decode(PackI(op, a, b, imm))
         IN d.op = op /\ d.rd = a /\ d.rs1 = b /\ d.imm14 = imm
<1> DEFINE w3 == op * 32 + a
           w2 == w3 * 32 + b
           f  == imm % 16384
           w  == w2 * 16384 + f
<1>1. PackI(op, a, b, imm) = w
  BY SMT DEF PackI
<1>2. w3 \in Nat /\ w2 \in Nat /\ f \in Nat /\ f < 16384 /\ w \in Nat
  BY SMT
<1>3. w3 \div 32 = op /\ w3 % 32 = a
  BY Digits, SMT
<1> HIDE DEF w3
<1>4. w2 \div 32 = w3 /\ w2 % 32 = b
  BY <1>2, Digits, SMT
<1> HIDE DEF w2
<1>5. SignExtend(f, 8192) = imm
  BY Extend
<1> HIDE DEF f
<1>6. w \div 16384 = w2 /\ w % 16384 = f
  BY <1>2, Digits, SMT
<1> HIDE DEF w
<1>7. w \div 524288 = w3 /\ w \div 16777216 = op
  BY <1>2, <1>3, <1>4, <1>6, Shifts, SMT
<1> QED
  BY <1>1, <1>3, <1>4, <1>5, <1>6, <1>7 DEF Decode

LEMMA FieldsJ ==
  ASSUME NEW op \in Nat, NEW a \in Nat, NEW imm \in Int, a < 32, Imm19(imm)
  PROVE  LET d == Decode(PackJ(op, a, imm))
         IN d.op = op /\ d.rd = a /\ d.imm19 = imm
<1> DEFINE w3 == op * 32 + a
           f  == imm % 524288
           w  == w3 * 524288 + f
<1>1. PackJ(op, a, imm) = w
  BY SMT DEF PackJ
<1>2. w3 \in Nat /\ f \in Nat /\ f < 524288 /\ w \in Nat
  BY SMT
<1>3. w3 \div 32 = op /\ w3 % 32 = a
  BY Digits, SMT
<1> HIDE DEF w3
<1>4. SignExtend(f, 262144) = imm
  BY Extend
<1> HIDE DEF f
<1>5. w \div 524288 = w3 /\ w % 524288 = f
  BY <1>2, Digits, SMT
<1> HIDE DEF w
<1>6. w \div 16777216 = op
  BY <1>2, <1>3, <1>5, Shifts, SMT
<1> QED
  BY <1>1, <1>3, <1>4, <1>5, <1>6 DEF Decode

LEMMA FieldsC ==
  ASSUME NEW op \in Nat, NEW a \in Nat, NEW csr \in Nat, a < 32, csr < 4096
  PROVE  LET d == Decode(PackC(op, a, csr))
         IN d.op = op /\ d.rd = a /\ d.csr = csr
<1> DEFINE w3 == op * 32 + a
           w2 == w3 * 4096 + csr
           w  == w2 * 128 + 0
<1>1. PackC(op, a, csr) = w
  <2>1. csr % 4096 = csr
    BY SMT
  <2> QED
    BY <2>1, SMT DEF PackC
<1>2. w3 \in Nat /\ w2 \in Nat /\ w \in Nat
  BY SMT
<1>3. w3 \div 32 = op /\ w3 % 32 = a
  BY Digits, SMT
<1>4. w2 \div 4096 = w3 /\ w2 % 4096 = csr
  <2> HIDE DEF w3
  <2> QED
    BY <1>2, SMT
<1> HIDE DEF w3, w2
<1>5. w \div 128 = w2
  BY <1>2, Digits, SMT
<1> HIDE DEF w
<1>6. w \div 524288 = w3 /\ w \div 16777216 = op
  BY <1>2, <1>3, <1>4, <1>5, Shifts, SMT
<1> QED
  BY <1>1, <1>3, <1>4, <1>5, <1>6 DEF Decode

-----------------------------------------------------------------------------
(* The classes of variants do not overlap.                                 *)
LEMMA Classes ==
  ASSUME NEW v \in Variant
  PROVE  /\ v \in RegOps => v \notin Based \cup Stores \cup Branches \cup Csrs \cup Systems \cup {"JumpX", "Raw"}
         /\ v \in Based => v \notin Stores \cup Branches \cup Csrs \cup Systems \cup {"JumpX", "Raw"}
         /\ v \in Stores \cup Branches => v \notin Csrs \cup Systems \cup {"JumpX", "Raw"}
         /\ v \in Csrs => v \notin Systems \cup {"JumpX", "Raw"}
         /\ v \in Systems => v \notin {"JumpX", "Raw"}
BY DEF Variant, RegOps, ScalarOps, SlowOps, VectorOps, MaskedOps, OtherOps, Based, Stores, Branches, Csrs, Systems

LEMMA RegCodes ==
  ASSUME NEW v \in RegOps
  PROVE  RegCode(v) \in Nat /\ Funct(v) \in Nat /\ Funct(v) < 512
<1>1. CASE v \in ScalarOps
  <2>1. RegCode(v) = ScalarCode(v)
    BY <1>1 DEF RegCode, ScalarOps, SlowOps, VectorOps, MaskedOps, OtherOps
  <2> QED
    BY <1>1, <2>1, SMT DEF ScalarOps, ScalarCode, Funct, MaskedOps
<1>2. CASE v \in SlowOps
  <2>1. RegCode(v) = SlowCode(v)
    BY <1>2 DEF RegCode, ScalarOps, SlowOps, VectorOps, MaskedOps, OtherOps
  <2> QED
    BY <1>2, <2>1, SMT DEF SlowOps, SlowCode, Funct, MaskedOps
<1>3. CASE v \in VectorOps \cup MaskedOps
  <2>1. RegCode(v) = VectorCode(v)
    BY <1>3 DEF RegCode, ScalarOps, SlowOps, VectorOps, MaskedOps, OtherOps
  <2> QED
    BY <1>3, <2>1, SMT DEF VectorOps, VectorCode, Funct, MaskedOps
<1>4. CASE v \in OtherOps
  <2>1. RegCode(v) = OtherCode(v)
    BY <1>4 DEF RegCode, ScalarOps, SlowOps, VectorOps, MaskedOps, OtherOps
  <2> QED
    BY <1>4, <2>1, SMT DEF OtherOps, OtherCode, Funct, MaskedOps
<1> QED
  BY <1>1, <1>2, <1>3, <1>4 DEF RegOps

LEMMA ImmCodes ==
  ASSUME NEW v \in Based \cup Stores \cup Branches
  PROVE  ImmCode(v) \in Nat
<1>1. CASE v \in Branches
  BY <1>1, SMT DEF ImmCode, Branches, BranchCode
<1>2. CASE v \notin Branches
  BY <1>2, SMT DEF ImmCode, Based, Stores, Branches, MemoryCode
<1> QED
  BY <1>1, <1>2

(* The decoder that the emulator and the disassembler share reads from the *)
(* word of an instruction all that the assembler put there: the layouts of *)
(* encode and decode agree, and sign extension undoes the masks.           *)
THEOREM DecodeEncode ==
  ASSUME NEW i \in Instruction, Fits(i)
  PROVE  Reads(i, Decode(Encode(i)))
<1> DEFINE d == Decode(Encode(i))
<1>1. /\ i.v \in Variant /\ i.imm \in Int
      /\ i.rd \in Nat /\ i.rd < 32 /\ i.rs1 \in Nat /\ i.rs1 < 32 /\ i.rs2 \in Nat /\ i.rs2 < 32
  BY SMT DEF Instruction, Reg
<1> DEFINE Fixed == Csrs \cup Systems \cup {"JumpX", "Raw"}
<1>2. CASE i.v \in RegOps
  <2>1. i.v \notin Based \cup Stores \cup Branches \cup Fixed
    BY <1>1, <1>2, Classes
  <2>2. Encode(i) = PackR(RegCode(i.v), i.rd, i.rs1, i.rs2, Funct(i.v))
    BY <1>2, <2>1, SMT DEF Encode, Csrs, Systems
  <2>3. RegCode(i.v) \in Nat /\ Funct(i.v) \in Nat /\ Funct(i.v) < 512
    BY <1>2, RegCodes
  <2>4. d.op = RegCode(i.v) /\ d.rd = i.rd /\ d.rs1 = i.rs1 /\ d.rs2 = i.rs2 /\ d.funct = Funct(i.v)
    BY <1>1, <2>2, <2>3, FieldsR, SMT
  <2> HIDE DEF d
  <2>5. Reads(i, d)
    BY <2>1, <2>4 DEF Reads, Csrs, Systems
  <2> QED
    BY <2>5 DEF d
<1>3. CASE i.v \in Based
  <2>1. i.v \notin RegOps \cup Stores \cup Branches \cup Fixed
    BY <1>1, <1>3, Classes
  <2>2. Encode(i) = PackI(ImmCode(i.v), i.rd, i.rs1, i.imm)
    BY <1>3, <2>1, SMT DEF Encode, Csrs, Systems
  <2>3. ImmCode(i.v) \in Nat /\ Imm14(i.imm)
    BY <1>3, ImmCodes DEF Fits
  <2>4. d.op = ImmCode(i.v) /\ d.rd = i.rd /\ d.rs1 = i.rs1 /\ d.imm14 = i.imm
    BY <1>1, <2>2, <2>3, FieldsI
  <2> HIDE DEF d
  <2>5. Reads(i, d)
    BY <2>1, <2>4 DEF Reads, Csrs, Systems
  <2> QED
    BY <2>5 DEF d
<1>4. CASE i.v \in Stores \cup Branches
  <2>1. i.v \notin RegOps \cup Based \cup Fixed
    BY <1>1, <1>4, Classes
  <2>2. Encode(i) = PackI(ImmCode(i.v), i.rs1, i.rs2, i.imm)
    BY <1>4, <2>1, SMT DEF Encode, Csrs, Systems
  <2>3. ImmCode(i.v) \in Nat /\ Imm14(i.imm)
    BY <1>4, ImmCodes DEF Fits
  <2>4. d.op = ImmCode(i.v) /\ d.rd = i.rs1 /\ d.rs1 = i.rs2 /\ d.imm14 = i.imm
    BY <1>1, <2>2, <2>3, FieldsI
  <2> HIDE DEF d
  <2>5. Reads(i, d)
    BY <2>1, <2>4 DEF Reads, Csrs, Systems
  <2> QED
    BY <2>5 DEF d
<1> DEFINE Packed == RegOps \cup Based \cup Stores \cup Branches
<1>5. CASE i.v = "JumpX"
  <2>1. i.v \notin Packed
    BY <1>1, <1>5, Classes
  <2>2. Encode(i) = PackJ(65, i.rd, i.imm)
    BY <1>5, <2>1, SMT DEF Encode
  <2>3. Imm19(i.imm)
    BY <1>5 DEF Fits
  <2>4. d.op = 65 /\ d.rd = i.rd /\ d.imm19 = i.imm
    BY <1>1, <2>2, <2>3, FieldsJ
  <2> HIDE DEF d
  <2>5. Reads(i, d)
    BY <1>5, <2>1, <2>4, SMT DEF Reads
  <2> QED
    BY <2>5 DEF d
<1>6. CASE i.v \in Csrs
  <2>1. i.v \notin Packed
    BY <1>1, <1>6, Classes
  <2>2. i.imm \in Nat /\ i.imm < 4096
    BY <1>1, <1>6, SMT DEF Fits
  <2>3. CASE i.v = "CsrRead"
    <3>1. Encode(i) = PackC(66, i.rd, i.imm)
      BY <2>1, <2>3, SMT DEF Encode
    <3>2. d.op = 66 /\ d.rd = i.rd /\ d.csr = i.imm
      BY <1>1, <2>2, <3>1, FieldsC
    <3> HIDE DEF d
    <3>3. Reads(i, d)
      BY <2>1, <2>3, <3>2, SMT DEF Reads
    <3> QED
      BY <3>3 DEF d
  <2>4. CASE i.v = "CsrWrite"
    <3>1. Encode(i) = PackC(67, i.rs1, i.imm)
      BY <2>1, <2>4, SMT DEF Encode
    <3>2. d.op = 67 /\ d.rd = i.rs1 /\ d.csr = i.imm
      BY <1>1, <2>2, <3>1, FieldsC
    <3> HIDE DEF d
    <3>3. Reads(i, d)
      BY <2>1, <2>4, <3>2, SMT DEF Reads
    <3> QED
      BY <3>3 DEF d
  <2> QED
    BY <1>6, <2>3, <2>4 DEF Csrs
<1>7. CASE i.v \in Systems
  <2>1. i.v \notin Packed
    BY <1>1, <1>7, Classes
  <2> DEFINE op == IF i.v = "Ecall" THEN 68 ELSE 69
  <2>2. Encode(i) = PackR(op, 0, 0, 0, 0)
    BY <1>7, <2>1, SMT DEF Encode, Systems
  <2>3. op \in Nat
    BY SMT
  <2>4. d.op = op
    BY <2>2, <2>3, OpcodeAlone
  <2> HIDE DEF d
  <2>5. Reads(i, d)
    BY <1>7, <2>1, <2>4, SMT DEF Reads, Systems
  <2> QED
    BY <2>5 DEF d
<1>8. CASE i.v = "Raw"
  <2>1. i.v \notin Packed
    BY <1>1, <1>8, Classes
  <2> HIDE DEF d
  <2>2. Reads(i, d)
    BY <1>8, <2>1, SMT DEF Reads
  <2> QED
    BY <2>2 DEF d
<1> QED
  BY <1>1, <1>2, <1>3, <1>4, <1>5, <1>6, <1>7, <1>8 DEF Variant

-----------------------------------------------------------------------------
(* What a line of code says                                                *)

(* The fields of an operand are those of its kind.                         *)
LEMMA OperandFields ==
  ASSUME NEW x \in Operand
  PROVE  /\ x.t \in {"reg", "int", "name", "mem"}
         /\ x.t = "reg" => x.n \in Reg
         /\ x.t = "int" => x.n \in Int
         /\ x.t = "name" => x.name \in LabelNames
         /\ x.t = "mem" => x.base \in Reg /\ x.disp \in Int
BY DEF Operand, Reg

(* A line of code has a mnemonic and operands, a line of a label a name.   *)
LEMMA LineFields ==
  ASSUME NEW line \in Line
  PROVE  /\ line.kind \in {"code", "label", "blank"}
         /\ line.kind = "code" => line.args \in Seq(Operand)
         /\ line.kind = "label" => line.name \in LabelNames
BY DEF Line, Blank

(* The conversion to i16 yields a number, and leaves a distance that fits  *)
(* in an instruction as it is.                                             *)
LEMMA WrapFacts ==
  ASSUME NEW n \in Int
  PROVE  Wrap16(n) \in Int /\ (Imm14(n) => Wrap16(n) = n)
BY SMT DEF Wrap16, Imm14

(* A branch distance is a number, whatever the operand.                    *)
LEMMA TargetType ==
  ASSUME NEW x \in Operand, NEW at \in [LabelNames -> Int], NEW pc \in Int
  PROVE  Number(x) \in Int /\ TransferTarget(x, at, pc) \in Int
<1>1. Number(x) \in Int
  BY OperandFields DEF Number
<1>2. x.t = "name" => at[x.name] \in Int
  BY OperandFields
<1>3. ASSUME NEW t \in Int
      PROVE  Distance(t, pc) \in Int
  BY SMT DEF Distance
<1>4. QED
  BY <1>1, <1>2, <1>3 DEF TransferTarget

(* The first operands of an arm that asks for registers.                   *)
LEMMA RegisterOperands ==
  ASSUME NEW a \in Seq(Operand), NEW k \in Nat, Registers(a, k)
  PROVE  \A j \in 1 .. k : a[j].n \in Reg
BY OperandFields DEF Registers

(* A bracketed operand, or the register that may stand for one.            *)
LEMMA BracketedOperands ==
  ASSUME NEW a \in Seq(Operand), Bracketed(a)
  PROVE  a[1].n \in Reg /\ Base(a[2]) \in Reg /\ Displacement(a[2]) \in Int
<1>1. a[1] \in Operand /\ a[2] \in Operand /\ a[1].t = "reg"
  BY DEF Bracketed, Registers
<1>2. Base(a[2]) \in Reg
  BY <1>1, OperandFields DEF Bracketed, IsMemory, Base
<1>3. Displacement(a[2]) \in Int
  BY <1>1, OperandFields, WrapFacts DEF Displacement
<1>4. QED
  BY <1>1, <1>2, <1>3, OperandFields

-----------------------------------------------------------------------------
(* The arms of parse_line                                                  *)

(* What an arm delivers: one instruction or none, the fields a comparison  *)
(* does not have being 0.                                                  *)
Parsed(S) ==
  S = {} \/ \E i \in Instruction : S = {i} /\ (i.v = "VCmpGt" => i.rd = 0)

(* Variants by mnemonic.                                                   *)
LEMMA Variants ==
  ASSUME NEW mn
  PROVE  /\ mn \in ScalarMnemonics => ScalarVariant(mn) \in ScalarOps
         /\ mn \in SlowMnemonics   => SlowVariant(mn) \in SlowOps
         /\ mn \in OtherMnemonics  => OtherVariant(mn) \in {"FAdd", "FMul"}
         /\ mn \in VectorMnemonics => VectorVariant(mn) \in VectorOps \cup MaskedOps
         /\ mn \in BranchMnemonics => BranchVariant(mn) \in Branches
<1>1. mn \in ScalarMnemonics => ScalarVariant(mn) \in ScalarOps
  BY DEF ScalarMnemonics, ScalarVariant, ScalarOps
<1>2. mn \in SlowMnemonics => SlowVariant(mn) \in SlowOps
  BY DEF SlowMnemonics, SlowVariant, SlowOps
<1>3. mn \in OtherMnemonics => OtherVariant(mn) \in {"FAdd", "FMul"}
  BY DEF OtherMnemonics, OtherVariant
<1>4. mn \in VectorMnemonics => VectorVariant(mn) \in VectorOps \cup MaskedOps
  BY DEF VectorMnemonics, VectorVariant, VectorOps, MaskedOps
<1>5. mn \in BranchMnemonics => BranchVariant(mn) \in Branches
  BY DEF BranchMnemonics, BranchVariant, Branches
<1>6. QED
  BY <1>1, <1>2, <1>3, <1>4, <1>5

(* An instruction of these fields is one.                                  *)
LEMMA InstrType ==
  ASSUME NEW v \in Variant, NEW rd \in Reg, NEW rs1 \in Reg, NEW rs2 \in Reg,
         NEW imm \in Int
  PROVE  Instr(v, rd, rs1, rs2, imm) \in Instruction
BY DEF Instr, Instruction

(* Three registers, or an error: parser.rs of the three-operand formats.   *)
LEMMA ThreeRegistersParsed ==
  ASSUME NEW a \in Seq(Operand), NEW v \in Variant, v # "VCmpGt"
  PROVE  Parsed(ThreeRegisters(v, a))
<1>1. CASE Registers(a, 3)
  <2>1. a[1].n \in Reg /\ a[2].n \in Reg /\ a[3].n \in Reg
    BY <1>1, RegisterOperands
  <2>2. Instr(v, a[1].n, a[2].n, a[3].n, 0) \in Instruction
    BY <2>1, InstrType
  <2>3. QED
    BY <1>1, <2>2 DEF ThreeRegisters, Parsed, Instr
<1>2. CASE ~Registers(a, 3)
  BY <1>2 DEF ThreeRegisters, Parsed
<1>3. QED
  BY <1>1, <1>2

(* Loads, stores and ADDI.                                                 *)
LEMMA MemoryParsed ==
  ASSUME NEW a \in Seq(Operand)
  PROVE  /\ Parsed(AddImmediate(a)) /\ Parsed(LoadX(a)) /\ Parsed(StoreX(a))
         /\ Parsed(VLoad(a)) /\ Parsed(VStore(a))
<1> 0 \in Reg /\ {"AddI", "LoadX", "StoreX", "VLoad", "VStore"} \subseteq Variant
  BY DEF Reg, Variant, Based, Stores
<1>1. ASSUME Registers(a, 2), Len(a) >= 3
      PROVE  a[1].n \in Reg /\ a[2].n \in Reg /\ Wrap16(Number(a[3])) \in Int
  <2>1. a[1].n \in Reg /\ a[2].n \in Reg
    BY <1>1, RegisterOperands
  <2>2. Number(a[3]) \in Int
    BY <1>1, OperandFields DEF Number
  <2>3. QED
    BY <2>1, <2>2, WrapFacts
<1>2. Parsed(AddImmediate(a))
  BY <1>1, InstrType DEF AddImmediate, Parsed, Instr
<1>3. Parsed(LoadX(a))
  <2>1. CASE Len(a) >= 3 /\ Registers(a, 2)
    <3>1. LoadX(a) = {Instr("LoadX", a[1].n, a[2].n, 0, Wrap16(Number(a[3])))}
      BY <2>1 DEF LoadX, Bracketed
    <3>2. QED
      BY <1>1, <2>1, <3>1, InstrType DEF Parsed, Instr
  <2>2. CASE ~(Len(a) >= 3 /\ Registers(a, 2)) /\ Bracketed(a) /\ ~Wide(a[2])
    <3>1. LoadX(a) = {Instr("LoadX", a[1].n, Base(a[2]), 0, Displacement(a[2]))}
      BY <2>2 DEF LoadX
    <3>2. QED
      BY <2>2, <3>1, BracketedOperands, InstrType DEF Parsed, Instr
  <2>3. QED
    BY <2>1, <2>2 DEF LoadX, Parsed
<1>4. Parsed(StoreX(a))
  <2>1. CASE Len(a) >= 3 /\ Registers(a, 2)
    <3>1. StoreX(a) = {Instr("StoreX", 0, a[1].n, a[2].n, Wrap16(Number(a[3])))}
      BY <2>1 DEF StoreX, Bracketed
    <3>2. QED
      BY <1>1, <2>1, <3>1, InstrType DEF Parsed, Instr
  <2>2. CASE ~(Len(a) >= 3 /\ Registers(a, 2)) /\ Bracketed(a) /\ ~Wide(a[2])
    <3>1. StoreX(a) = {Instr("StoreX", 0, Base(a[2]), a[1].n, Displacement(a[2]))}
      BY <2>2 DEF StoreX
    <3>2. QED
      BY <2>2, <3>1, BracketedOperands, InstrType DEF Parsed, Instr
  <2>3. QED
    BY <2>1, <2>2 DEF StoreX, Parsed
<1>5. Parsed(VLoad(a)) /\ Parsed(VStore(a))
  BY BracketedOperands, InstrType DEF VLoad, VStore, Parsed, Instr
<1>6. QED
  BY <1>2, <1>3, <1>4, <1>5

(* Branches and jumps.                                                     *)
LEMMA TransferParsed ==
  ASSUME NEW a \in Seq(Operand), NEW at \in [LabelNames -> Int], NEW pc \in Int
  PROVE  /\ \A v \in Branches : Parsed(BranchX(v, a, at, pc))
         /\ Parsed(JumpX(a, at, pc))
<1> 0 \in Reg /\ Branches \subseteq Variant /\ "VCmpGt" \notin Branches
    /\ "JumpX" \in Variant
  BY DEF Reg, Variant, Branches
<1>1. ASSUME NEW v \in Branches
      PROVE  Parsed(BranchX(v, a, at, pc))
  <2>1. CASE Registers(a, 2) /\ Len(a) >= 3
    <3>1. a[1].n \in Reg /\ a[2].n \in Reg /\ a[3] \in Operand
      BY <2>1, RegisterOperands
    <3>2. Instr(v, 0, a[1].n, a[2].n, Wrap16(TransferTarget(a[3], at, pc))) \in Instruction
      BY <3>1, TargetType, WrapFacts, InstrType
    <3>3. QED
      BY <2>1, <3>2 DEF BranchX, Parsed, Instr
  <2>2. QED
    BY <2>1 DEF BranchX, Parsed
<1>2. Parsed(JumpX(a, at, pc))
  <2>1. CASE Registers(a, 1) /\ Len(a) >= 2
    <3>1. a[1].n \in Reg /\ a[2] \in Operand
      BY <2>1, RegisterOperands
    <3>2. Instr("JumpX", a[1].n, 0, 0, TransferTarget(a[2], at, pc)) \in Instruction
      BY <3>1, TargetType, InstrType
    <3>3. QED
      BY <2>1, <3>2 DEF JumpX, Parsed, Instr
  <2>2. QED
    BY <2>1 DEF JumpX, Parsed
<1>3. QED
  BY <1>1, <1>2

-----------------------------------------------------------------------------
(* parse_line                                                              *)

(* Which arm a mnemonic selects.                                           *)
LEMMA ArmOf ==
  ASSUME NEW line, NEW at, NEW pc
  PROVE  LET mn == line.mn
             a  == line.args
             P  == ParseLine(line, at, pc)
         IN  /\ mn \in ScalarMnemonics => P = ThreeRegisters(ScalarVariant(mn), a)
             /\ mn \in SlowMnemonics   => P = ThreeRegisters(SlowVariant(mn), a)
             /\ mn \in OtherMnemonics  => P = ThreeRegisters(OtherVariant(mn), a)
             /\ mn \in VectorMnemonics => P = ThreeRegisters(VectorVariant(mn), a)
             /\ mn \in BranchMnemonics => P = BranchX(BranchVariant(mn), a, at, pc)
             /\ mn = "ADDI"    => P = AddImmediate(a)
             /\ mn = "LOAD.X"  => P = LoadX(a)
             /\ mn = "STORE.X" => P = StoreX(a)
             /\ mn = "VLOAD"   => P = VLoad(a)
             /\ mn = "VSTORE"  => P = VStore(a)
             /\ mn = "JUMP.X"  => P = JumpX(a, at, pc)
             /\ mn = "CSR.READ" =>
                  P = IF IsCsr(a) THEN {Instr("CsrRead", a[1].n, 0, 0, a[2].n % 65536)} ELSE {}
             /\ mn = "CSR.WRITE" =>
                  P = IF IsCsr(a) THEN {Instr("CsrWrite", 0, a[1].n, 0, a[2].n % 65536)} ELSE {}
             /\ mn = "ECALL" => P = {Instr("Ecall", 0, 0, 0, 0)}
             /\ mn = "EXRET" => P = {Instr("Exret", 0, 0, 0, 0)}
             /\ mn = "VCMP.GT" =>
                  P = IF Registers(a, 2) THEN {Instr("VCmpGt", 0, a[1].n, a[2].n, 0)} ELSE {}
             /\ mn = ".word" =>
                  P = IF a # <<>> THEN {Instr("Raw", 0, 0, 0, Number(a[1]))} ELSE {}
             /\ mn \notin ScalarMnemonics \cup SlowMnemonics \cup OtherMnemonics
                    \cup VectorMnemonics \cup BranchMnemonics
                    \cup {"ADDI", "LOAD.X", "STORE.X", "VLOAD", "VSTORE", "JUMP.X",
                          "CSR.READ", "CSR.WRITE", "ECALL", "EXRET", "VCMP.GT", ".word"}
                  => P = {}
<1> DEFINE mn == line.mn
<1>1. CASE mn \in ScalarMnemonics
  BY <1>1 DEF ParseLine, ScalarMnemonics, SlowMnemonics, OtherMnemonics, VectorMnemonics,
     BranchMnemonics
<1>2. CASE mn \in SlowMnemonics
  BY <1>2 DEF ParseLine, ScalarMnemonics, SlowMnemonics, OtherMnemonics, VectorMnemonics,
     BranchMnemonics
<1>3. CASE mn \in OtherMnemonics
  BY <1>3 DEF ParseLine, ScalarMnemonics, SlowMnemonics, OtherMnemonics, VectorMnemonics,
     BranchMnemonics
<1>4. CASE mn \in VectorMnemonics
  BY <1>4 DEF ParseLine, ScalarMnemonics, SlowMnemonics, OtherMnemonics, VectorMnemonics,
     BranchMnemonics
<1>5. CASE mn \in BranchMnemonics
  BY <1>5 DEF ParseLine, ScalarMnemonics, SlowMnemonics, OtherMnemonics, VectorMnemonics,
     BranchMnemonics
<1>6. CASE mn \notin ScalarMnemonics \cup SlowMnemonics \cup OtherMnemonics
               \cup VectorMnemonics \cup BranchMnemonics
  <2>1. CASE mn \in {"ADDI", "LOAD.X", "STORE.X", "VLOAD", "VSTORE", "JUMP.X"}
    BY <1>6, <2>1 DEF ParseLine
  <2>2. CASE mn \in {"CSR.READ", "CSR.WRITE", "ECALL", "EXRET", "VCMP.GT", ".word"}
    BY <1>6, <2>2 DEF ParseLine
  <2>3. CASE mn \notin {"ADDI", "LOAD.X", "STORE.X", "VLOAD", "VSTORE", "JUMP.X",
                        "CSR.READ", "CSR.WRITE", "ECALL", "EXRET", "VCMP.GT", ".word"}
    BY <1>6, <2>3 DEF ParseLine
  <2>4. QED
    BY <2>1, <2>2, <2>3
<1>7. QED
  BY <1>1, <1>2, <1>3, <1>4, <1>5, <1>6

(* A line is one instruction or none.                                      *)
LEMMA LineParsed ==
  ASSUME NEW line \in Line, line.kind = "code",
         NEW at \in [LabelNames -> Int], NEW pc \in Int
  PROVE  Parsed(ParseLine(line, at, pc))
<1> DEFINE mn == line.mn
           a  == line.args
           P  == ParseLine(line, at, pc)
<1>1. a \in Seq(Operand)
  BY LineFields
<1>2. CASE mn \in ScalarMnemonics \cup SlowMnemonics \cup OtherMnemonics \cup VectorMnemonics
  <2>1. PICK v \in RegOps \ {"VCmpGt"} : P = ThreeRegisters(v, a)
    <3>1. ScalarOps \cup SlowOps \cup {"FAdd", "FMul"} \cup VectorOps \cup MaskedOps
            \subseteq RegOps \ {"VCmpGt"}
      BY DEF RegOps, ScalarOps, SlowOps, VectorOps, MaskedOps, OtherOps
    <3>2. QED
      BY <1>2, <3>1, Variants, ArmOf
  <2>2. v \in Variant /\ v # "VCmpGt"
    BY DEF Variant
  <2>3. QED
    BY <1>1, <2>1, <2>2, ThreeRegistersParsed
<1>3. CASE mn \in BranchMnemonics
  BY <1>1, <1>3, Variants, ArmOf, TransferParsed
<1>4. CASE mn = "JUMP.X"
  BY <1>1, <1>4, ArmOf, TransferParsed
<1>5. CASE mn \in {"ADDI", "LOAD.X", "STORE.X", "VLOAD", "VSTORE"}
  BY <1>1, <1>5, ArmOf, MemoryParsed
<1>6. CASE mn \in {"CSR.READ", "CSR.WRITE"}
  <2>1. ASSUME IsCsr(a)
        PROVE  a[1].n \in Reg /\ a[2].n % 65536 \in Int
    <3>1. a[1].n \in Reg
      BY <1>1, <2>1, RegisterOperands DEF IsCsr
    <3>2. a[2].n \in Int
      BY <1>1, <2>1, OperandFields DEF IsCsr
    <3>3. a[2].n % 65536 \in Int
      BY <3>2, SMT
    <3>4. QED
      BY <3>1, <3>3
  <2>2. 0 \in Reg /\ {"CsrRead", "CsrWrite"} \subseteq Variant
    BY DEF Reg, Variant, Csrs
  <2>3. QED
    BY <1>6, <2>1, <2>2, ArmOf, InstrType DEF Parsed, Instr
<1>7. CASE mn \in {"ECALL", "EXRET"}
  <2>1. 0 \in Reg /\ {"Ecall", "Exret"} \subseteq Variant
    BY DEF Reg, Variant, Systems
  <2>2. QED
    BY <1>7, <2>1, ArmOf, InstrType DEF Parsed, Instr
<1>8. CASE mn = "VCMP.GT"
  <2>1. 0 \in Reg /\ "VCmpGt" \in Variant
    BY DEF Reg, Variant, RegOps, OtherOps
  <2>2. Registers(a, 2) => a[1].n \in Reg /\ a[2].n \in Reg
    BY <1>1, RegisterOperands
  <2>3. QED
    BY <1>8, <2>1, <2>2, ArmOf, InstrType DEF Parsed, Instr
<1>9. CASE mn = ".word"
  <2>1. 0 \in Reg /\ "Raw" \in Variant
    BY DEF Reg, Variant
  <2>2. a # <<>> => Number(a[1]) \in Int
    BY <1>1, OperandFields DEF Number
  <2>3. QED
    BY <1>9, <2>1, <2>2, ArmOf, InstrType DEF Parsed, Instr
<1>10. CASE P = {}
  BY <1>10 DEF Parsed
<1>11. QED
  <2> HIDE DEF P
  <2>1. \/ mn \in ScalarMnemonics \cup SlowMnemonics \cup OtherMnemonics
                    \cup VectorMnemonics \cup BranchMnemonics
        \/ mn \in {"ADDI", "LOAD.X", "STORE.X", "VLOAD", "VSTORE", "JUMP.X",
                   "CSR.READ", "CSR.WRITE", "ECALL", "EXRET", "VCMP.GT", ".word"}
        \/ P = {}
    BY ArmOf DEF P
  <2>2. QED
    BY <1>2, <1>3, <1>4, <1>5, <1>6, <1>7, <1>8, <1>9, <1>10, <2>1

(* Only the directive for data makes a raw word.                           *)
LEMMA RawIsData ==
  ASSUME NEW line \in Line, line.kind = "code", line.mn # ".word",
         NEW at \in [LabelNames -> Int], NEW pc \in Int,
         NEW i \in ParseLine(line, at, pc)
  PROVE  i.v # "Raw"
<1> DEFINE mn == line.mn
           a  == line.args
           P  == ParseLine(line, at, pc)
<1>1. CASE mn \in ScalarMnemonics \cup SlowMnemonics \cup OtherMnemonics \cup VectorMnemonics
  <2>1. PICK v \in RegOps : P = ThreeRegisters(v, a)
    <3>1. ScalarOps \cup SlowOps \cup {"FAdd", "FMul"} \cup VectorOps \cup MaskedOps
            \subseteq RegOps
      BY DEF RegOps, OtherOps
    <3>2. QED
      BY <1>1, <3>1, Variants, ArmOf
  <2>2. v # "Raw"
    BY DEF RegOps, ScalarOps, SlowOps, VectorOps, MaskedOps, OtherOps
  <2>3. QED
    BY <2>1, <2>2 DEF ThreeRegisters, Instr
<1>2. CASE mn \in BranchMnemonics
  <2>1. BranchVariant(mn) # "Raw"
    BY <1>2, Variants DEF Branches
  <2>2. QED
    BY <1>2, <2>1, ArmOf DEF BranchX, Instr
<1>3. CASE mn \in {"ADDI", "LOAD.X", "STORE.X", "VLOAD", "VSTORE", "JUMP.X"}
  BY <1>3, ArmOf DEF AddImmediate, LoadX, StoreX, VLoad, VStore, JumpX, Instr
<1>4. CASE mn \in {"CSR.READ", "CSR.WRITE", "ECALL", "EXRET", "VCMP.GT"}
  BY <1>4, ArmOf DEF Instr
<1>5. QED
  BY <1>1, <1>2, <1>3, <1>4, ArmOf

(* The distance of a branch or jump to a label with an address.            *)
LEMMA TransferInstruction ==
  ASSUME NEW line \in Line, line.kind = "code",
         NEW at \in [LabelNames -> Int], NEW pc \in Int,
         NEW l \in LabelNames, at[l] # NoLabel,
         NEW i \in ParseLine(line, at, pc)
  PROVE  /\ line.mn \in BranchMnemonics /\ line.args[3] = L(l) =>
              i.v \in Branches /\ i.imm = Wrap16(Distance(at[l], pc))
         /\ line.mn = "JUMP.X" /\ line.args[2] = L(l) =>
              i.v = "JumpX" /\ i.imm = Distance(at[l], pc)
<1>1. TransferTarget(L(l), at, pc) = Distance(at[l], pc)
  BY DEF TransferTarget, L
<1>2. line.mn \in BranchMnemonics /\ line.args[3] = L(l) =>
        i.v \in Branches /\ i.imm = Wrap16(Distance(at[l], pc))
  BY <1>1, Variants, ArmOf DEF BranchX, Instr
<1>3. line.mn = "JUMP.X" /\ line.args[2] = L(l) =>
        i.v = "JumpX" /\ i.imm = Distance(at[l], pc)
  BY <1>1, ArmOf DEF JumpX, Instr
<1>4. QED
  BY <1>2, <1>3

-----------------------------------------------------------------------------
(* Words                                                                   *)

(* The layout of each class of variants.                                   *)
LEMMA Layouts ==
  ASSUME NEW i \in Instruction
  PROVE  /\ i.v \in RegOps =>
              Encode(i) = PackR(RegCode(i.v), i.rd, i.rs1, i.rs2, Funct(i.v))
         /\ i.v \in Based => Encode(i) = PackI(ImmCode(i.v), i.rd, i.rs1, i.imm)
         /\ i.v \in Stores \cup Branches =>
              Encode(i) = PackI(ImmCode(i.v), i.rs1, i.rs2, i.imm)
         /\ i.v = "JumpX"    => Encode(i) = PackJ(65, i.rd, i.imm)
         /\ i.v = "CsrRead"  => Encode(i) = PackC(66, i.rd, i.imm)
         /\ i.v = "CsrWrite" => Encode(i) = PackC(67, i.rs1, i.imm)
         /\ i.v = "Ecall"    => Encode(i) = PackR(68, 0, 0, 0, 0)
         /\ i.v = "Exret"    => Encode(i) = PackR(69, 0, 0, 0, 0)
         /\ i.v = "Raw"      => Encode(i) = i.imm
<1>0. i.v \in Variant
  BY DEF Instruction
<1>1. CASE i.v \in RegOps
  BY <1>0, <1>1, Classes DEF Encode, Csrs, Systems
<1>2. CASE i.v \in Based
  BY <1>0, <1>2, Classes DEF Encode, Csrs, Systems
<1>3. CASE i.v \in Stores \cup Branches
  BY <1>0, <1>3, Classes DEF Encode, Csrs, Systems
<1>4. CASE i.v \in Csrs \cup Systems \cup {"JumpX", "Raw"}
  <2>1. i.v \notin RegOps \cup Based \cup Stores \cup Branches
    BY <1>0, <1>4, Classes
  <2>2. QED
    BY <1>4, <2>1 DEF Encode, Csrs, Systems
<1>5. QED
  BY <1>0, <1>1, <1>2, <1>3, <1>4 DEF Variant

(* A word is a number.                                                     *)
LEMMA WordType ==
  ASSUME NEW i \in Instruction
  PROVE  Encode(i) \in Int
<1>1. /\ i.v \in Variant /\ i.imm \in Int
      /\ i.rd \in Int /\ i.rs1 \in Int /\ i.rs2 \in Int
  BY SMT DEF Instruction, Reg
<1>2. ASSUME NEW op \in Int, NEW a \in Int, NEW b \in Int, NEW c \in Int, NEW n \in Int
      PROVE  PackR(op, a, b, c, n) \in Int /\ PackI(op, a, b, n) \in Int
             /\ PackJ(op, a, n) \in Int /\ PackC(op, a, n) \in Int
  BY SMT DEF PackR, PackI, PackJ, PackC
<1>3. CASE i.v \in RegOps
  <2>1. RegCode(i.v) \in Int /\ Funct(i.v) \in Int
    <3>1. RegCode(i.v) \in Nat /\ Funct(i.v) \in Nat
      BY <1>3, RegCodes
    <3>2. QED
      BY <3>1, SMT
  <2>2. PackR(RegCode(i.v), i.rd, i.rs1, i.rs2, Funct(i.v)) \in Int
    BY ONLY <1>1, <1>2, <2>1
  <2>3. QED
    BY <1>3, <2>2, Layouts
<1>4. CASE i.v \in Based \cup Stores \cup Branches
  <2>1. ImmCode(i.v) \in Int
    <3>1. ImmCode(i.v) \in Nat
      BY <1>4, ImmCodes
    <3>2. QED
      BY <3>1, SMT
  <2>2. /\ PackI(ImmCode(i.v), i.rd, i.rs1, i.imm) \in Int
        /\ PackI(ImmCode(i.v), i.rs1, i.rs2, i.imm) \in Int
    BY ONLY <1>1, <1>2, <2>1
  <2>3. QED
    BY <1>4, <2>2, Layouts
<1>5. CASE i.v \in Csrs \cup Systems \cup {"JumpX", "Raw"}
  <2>1. /\ PackJ(65, i.rd, i.imm) \in Int
        /\ PackC(66, i.rd, i.imm) \in Int /\ PackC(67, i.rs1, i.imm) \in Int
    BY <1>1, SMT DEF PackJ, PackC
  <2>2. PackR(68, 0, 0, 0, 0) \in Int /\ PackR(69, 0, 0, 0, 0) \in Int
    BY SMT DEF PackR
  <2>3. QED
    BY <1>1, <1>5, <2>1, <2>2, Layouts DEF Csrs, Systems
<1>6. QED
  BY <1>1, <1>3, <1>4, <1>5 DEF Variant

-----------------------------------------------------------------------------
(* Addresses                                                               *)

(* A line of code moves the address by a word, another line does not.      *)
LEMMA NextAddress ==
  ASSUME NEW k \in DOMAIN text, text \in Seq(Line)
  PROVE  /\ LineAddress(k) \in Nat
         /\ text[k].kind = "code" => LineAddress(k + 1) = LineAddress(k) + 4
         /\ text[k].kind # "code" => LineAddress(k + 1) = LineAddress(k)
<1> DEFINE C(n) == {j \in 1 .. n - 1 : text[j].kind = "code"}
<1>1. k \in 1 .. Len(text)
  OBVIOUS
<1>2. IsFiniteSet(C(k)) /\ Cardinality(C(k)) \in Nat
  <2>1. IsFiniteSet(1 .. k - 1)
    BY <1>1, FS_Interval
  <2>2. C(k) \in SUBSET (1 .. k - 1)
    OBVIOUS
  <2>3. IsFiniteSet(C(k))
    BY <2>1, <2>2, FS_Subset
  <2>4. QED
    BY <2>3, FS_CardinalityType
<1>3. LineAddress(k) \in Nat
  <2>1. \A n \in Nat : 4 * n \in Nat
    BY SMT
  <2>2. QED
    BY <1>2, <2>1 DEF LineAddress
<1>4. CASE text[k].kind = "code"
  <2>1. C(k + 1) = C(k) \cup {k} /\ k \notin C(k)
    BY <1>1, <1>4
  <2>2. Cardinality(C(k + 1)) = Cardinality(C(k)) + 1
    BY <1>2, <2>1, FS_AddElement
  <2>3. QED
    BY <1>2, <1>4, <2>2 DEF LineAddress
<1>5. CASE text[k].kind # "code"
  <2>1. C(k + 1) = C(k)
    BY <1>1, <1>5
  <2>2. LineAddress(k + 1) = LineAddress(k)
    BY <2>1 DEF LineAddress
  <2>3. QED
    BY <1>3, <1>5, <2>2
<1>6. QED
  BY <1>3, <1>4, <1>5

(* The first line of a file is at address 0.                               *)
LEMMA FirstAddress == LineAddress(1) = 0
<1>1. {j \in 1 .. 1 - 1 : text[j].kind = "code"} = {}
  OBVIOUS
<1>2. QED
  BY <1>1, FS_EmptySet DEF LineAddress

(* Every line has an address, and so has the end of the file.              *)
LEMMA AddressType ==
  ASSUME text \in Seq(Line), NEW k \in 1 .. Len(text) + 1
  PROVE  LineAddress(k) \in Nat /\ \E n \in Nat : LineAddress(k) = 4 * n
<1>1. IsFiniteSet(1 .. k - 1)
  BY FS_Interval
<1>2. {j \in 1 .. k - 1 : text[j].kind = "code"} \in SUBSET (1 .. k - 1)
  OBVIOUS
<1>3. Cardinality({j \in 1 .. k - 1 : text[j].kind = "code"}) \in Nat
  BY <1>1, <1>2, FS_Subset, FS_CardinalityType
<1>4. \A n \in Nat : 4 * n \in Nat
  BY SMT
<1>5. QED
  BY <1>3, <1>4 DEF LineAddress

-----------------------------------------------------------------------------
(* The inductive invariant                                                 *)

(* Of the definitions of a label among the first n - 1 lines the last one  *)
(* counts.                                                                 *)
LabelsUpTo(n) ==
  \A l \in LabelNames :
    \/ labels[l] = NoLabel /\ \A j \in DefinitionsOf(l) : j >= n
    \/ \E k \in DefinitionsOf(l) :
         /\ k < n /\ \A j \in DefinitionsOf(l) : j < n => j <= k
         /\ labels[l] = LineAddress(k)

(* Every line of code before line n is an instruction.                     *)
ParsedUpTo(n) ==
  \A k \in DOMAIN text : k < n /\ text[k].kind = "code" =>
    ParseLine(text[k], labels, LineAddress(k)) # {}

(* The last word is the one of the line just assembled.                    *)
LastWordParsed ==
  \A k \in DOMAIN text : JustAssembled(k) =>
    /\ words # <<>>
    /\ \E i \in ParseLine(text[k], labels, current_pc - 4) : LastWord = Encode(i)

AInv ==
  /\ AsmTypeOK
  /\ pass = "labels" =>
       words = <<>> /\ current_pc = LineAddress(line_num) /\ LabelsUpTo(line_num)
  /\ pass # "labels" => LabelsUpTo(Len(text) + 1)
  /\ pass = "code" =>
       current_pc = LineAddress(line_num) /\ 4 * Len(words) = current_pc
  /\ pass \in {"code", "written"} => ParsedUpTo(line_num)
  /\ pass = "written" =>
       line_num = Len(text) + 1 /\ 4 * Len(words) = LineAddress(line_num)
  /\ LastWordParsed

(* A file that was just opened satisfies the invariant.                    *)
LEMMA AsmInitInv == AsmInit => AInv
<1> SUFFICES ASSUME AsmInit PROVE AInv
  OBVIOUS
<1>1. text \in Seq(Line) /\ Opened
  BY FilesAssumption DEF AsmInit
<1>2. AsmTypeOK
  BY <1>1 DEF AsmTypeOK, Opened, NoLabels
<1>3. LabelsUpTo(1)
  <2>1. \A l \in LabelNames : labels[l] = NoLabel
    BY <1>1 DEF Opened, NoLabels
  <2>2. DOMAIN text = 1 .. Len(text) /\ Len(text) \in Nat
    BY <1>1
  <2>3. \A l \in LabelNames : \A j \in DefinitionsOf(l) : j >= 1
    BY <2>2 DEF DefinitionsOf
  <2>4. QED
    BY <2>1, <2>3 DEF LabelsUpTo
<1>4. LastWordParsed
  BY <1>1 DEF LastWordParsed, JustAssembled, Opened
<1>5. QED
  BY <1>1, <1>2, <1>3, <1>4, FirstAddress DEF AInv, Opened

(* The text of a file does not change, nor do its labels and addresses.    *)
LEMMA SameText ==
  ASSUME text' = text
  PROVE  /\ \A k : LineAddress(k)' = LineAddress(k)
         /\ \A l : DefinitionsOf(l)' = DefinitionsOf(l)
BY DEF LineAddress, DefinitionsOf

(* A line that defines no label leaves the labels as they are.             *)
LEMMA NoDefinition ==
  ASSUME AsmTypeOK, line_num \in DOMAIN text, text[line_num].kind # "label",
         LabelsUpTo(line_num)
  PROVE  LabelsUpTo(line_num + 1)
<1> SUFFICES ASSUME NEW l \in LabelNames
             PROVE  \/ labels[l] = NoLabel /\ \A j \in DefinitionsOf(l) : j >= line_num + 1
                    \/ \E k \in DefinitionsOf(l) :
                         /\ k < line_num + 1
                         /\ \A j \in DefinitionsOf(l) : j < line_num + 1 => j <= k
                         /\ labels[l] = LineAddress(k)
  BY DEF LabelsUpTo
<1>1. line_num \in Int /\ DefinitionsOf(l) \subseteq Int /\ line_num \notin DefinitionsOf(l)
  BY DEF AsmTypeOK, DefinitionsOf
<1>2. CASE labels[l] = NoLabel /\ \A j \in DefinitionsOf(l) : j >= line_num
  <2>1. \A j \in DefinitionsOf(l) : j >= line_num + 1
    BY <1>1, <1>2
  <2>2. QED
    BY <1>2, <2>1
<1>3. ASSUME NEW k \in DefinitionsOf(l), k < line_num,
             \A j \in DefinitionsOf(l) : j < line_num => j <= k,
             labels[l] = LineAddress(k)
      PROVE  /\ k < line_num + 1
             /\ \A j \in DefinitionsOf(l) : j < line_num + 1 => j <= k
  <2>1. \A j \in DefinitionsOf(l) : j < line_num + 1 => j < line_num
    BY <1>1
  <2>2. QED
    BY <1>1, <1>3, <2>1
<1>4. QED
  BY <1>2, <1>3 DEF LabelsUpTo

(* A line that is a label gives it the address of the line.                *)
LEMMA ReadLabelInv ==
  ASSUME AInv, ReadLabel
  PROVE  AInv'
<1>1. /\ text \in Seq(Line) /\ line_num \in 1 .. Len(text) /\ labels \in [LabelNames -> Nat \cup {NoLabel}]
      /\ text[line_num].kind = "label" /\ text[line_num].name \in LabelNames
      /\ current_pc \in Nat /\ current_pc = LineAddress(line_num)
  <2>1. text \in Seq(Line) /\ line_num \in 1 .. Len(text)
    BY DEF AInv, AsmTypeOK, ReadLabel, Here
  <2>2. text[line_num] \in Line
    BY <2>1
  <2>3. QED
    BY <2>1, <2>2, LineFields DEF AInv, AsmTypeOK, ReadLabel, Here
<1>2. AsmTypeOK'
  BY <1>1 DEF AInv, AsmTypeOK, ReadLabel, Define
<1>3. LineAddress(line_num + 1) = LineAddress(line_num)
  BY <1>1, NextAddress
<1>4. (LabelsUpTo(line_num))'
  <2> SUFFICES ASSUME NEW l \in LabelNames
               PROVE  \/ labels'[l] = NoLabel /\ \A j \in DefinitionsOf(l) : j >= line_num + 1
                      \/ \E k \in DefinitionsOf(l) :
                           /\ k < line_num + 1
                           /\ \A j \in DefinitionsOf(l) : j < line_num + 1 => j <= k
                           /\ labels'[l] = LineAddress(k)
    BY SameText DEF LabelsUpTo, ReadLabel
  <2>1. DefinitionsOf(l) \subseteq Int
    BY <1>1 DEF DefinitionsOf
  <2>2. CASE l = text[line_num].name
    <3>1. line_num \in DefinitionsOf(l)
      BY <1>1, <2>2 DEF DefinitionsOf
    <3>2. labels'[l] = LineAddress(line_num)
      BY <1>1, <2>2 DEF ReadLabel, Define
    <3>3. line_num < line_num + 1 /\ \A j \in DefinitionsOf(l) : j < line_num + 1 => j <= line_num
      BY <1>1, <2>1
    <3>4. QED
      BY <3>1, <3>2, <3>3
  <2>3. CASE l # text[line_num].name
    <3>1. labels'[l] = labels[l] /\ line_num \notin DefinitionsOf(l)
      BY <1>1, <2>3 DEF ReadLabel, Define, DefinitionsOf
    <3>2. \A j \in DefinitionsOf(l) :
            /\ j < line_num + 1 <=> j < line_num
            /\ j >= line_num + 1 <=> j >= line_num
      BY <1>1, <2>1, <3>1
    <3>3. LabelsUpTo(line_num)
      BY DEF AInv, ReadLabel
    <3>4. QED
      BY <3>1, <3>2, <3>3 DEF LabelsUpTo
  <2>4. QED
    BY <2>2, <2>3
<1>5. LastWordParsed'
  BY DEF LastWordParsed, JustAssembled, ReadLabel
<1>6. QED
  BY <1>1, <1>2, <1>3, <1>4, <1>5, SameText DEF AInv, ReadLabel

(* In the first pass a line of code moves the address on.                  *)
LEMMA ReadCodeInv ==
  ASSUME AInv, ReadCode
  PROVE  AInv'
<1>1. /\ text \in Seq(Line) /\ line_num \in 1 .. Len(text) /\ text[line_num].kind = "code"
      /\ LineAddress(line_num) \in Nat /\ current_pc = LineAddress(line_num)
  BY NextAddress DEF AInv, AsmTypeOK, ReadCode, Here
<1>2. LineAddress(line_num + 1) = current_pc + 4
  BY <1>1, NextAddress
<1>3. AsmTypeOK'
  BY <1>1 DEF AInv, AsmTypeOK, ReadCode
<1>4. LabelsUpTo(line_num + 1)
  BY <1>1, NoDefinition DEF AInv, ReadCode
<1>5. (LabelsUpTo(line_num))'
  BY <1>4, SameText DEF LabelsUpTo, ReadCode
<1>6. LastWordParsed'
  BY DEF LastWordParsed, JustAssembled, ReadCode
<1>7. QED
  BY <1>1, <1>2, <1>3, <1>5, <1>6, SameText DEF AInv, ReadCode

(* A line that is skipped has no address of its own.                       *)
LEMMA SkipLineInv ==
  ASSUME AInv, SkipLine
  PROVE  AInv'
<1>1. /\ text \in Seq(Line) /\ line_num \in 1 .. Len(text) /\ text[line_num].kind # "code"
      /\ LineAddress(line_num) \in Nat /\ current_pc = LineAddress(line_num)
      /\ pass' = pass /\ text' = text /\ labels' = labels /\ words' = words
      /\ current_pc' = current_pc /\ line_num' = line_num + 1
  BY NextAddress DEF AInv, AsmTypeOK, SkipLine, Here
<1>2. LineAddress(line_num + 1) = current_pc
  BY <1>1, NextAddress
<1>3. AsmTypeOK'
  BY <1>1 DEF AInv, AsmTypeOK
<1>4. pass = "labels" => (LabelsUpTo(line_num))'
  <2>1. pass = "labels" => LabelsUpTo(line_num + 1)
    BY <1>1, NoDefinition DEF AInv, SkipLine, Here
  <2>2. QED
    BY <1>1, <2>1, SameText DEF LabelsUpTo
<1>5. pass = "code" => (ParsedUpTo(line_num))' /\ (LabelsUpTo(Len(text) + 1))'
  <2>1. pass = "code" => ParsedUpTo(line_num + 1)
    BY <1>1 DEF AInv, ParsedUpTo
  <2>2. pass = "code" => LabelsUpTo(Len(text) + 1)
    BY DEF AInv
  <2>3. QED
    BY <1>1, <2>1, <2>2, SameText DEF ParsedUpTo, LabelsUpTo
<1>6. LastWordParsed'
  BY <1>1 DEF LastWordParsed, JustAssembled
<1>7. pass \in {"labels", "code"}
  BY DEF SkipLine
<1>8. QED
  BY <1>1, <1>2, <1>3, <1>4, <1>5, <1>6, <1>7, SameText DEF AInv

(* The second pass starts with all labels, and no words.                   *)
LEMMA SecondPassInv ==
  ASSUME AInv, SecondPass
  PROVE  AInv'
<1>1. /\ text \in Seq(Line) /\ line_num = Len(text) + 1 /\ words = <<>>
      /\ pass' = "code" /\ line_num' = 1 /\ current_pc' = 0
      /\ text' = text /\ labels' = labels /\ words' = words
  BY DEF AInv, AsmTypeOK, SecondPass
<1>2. AsmTypeOK'
  BY <1>1 DEF AInv, AsmTypeOK
<1>3. (LabelsUpTo(Len(text) + 1))'
  <2>1. LabelsUpTo(Len(text) + 1)
    BY <1>1 DEF AInv, SecondPass
  <2>2. QED
    BY <1>1, <2>1, SameText DEF LabelsUpTo
<1>4. (ParsedUpTo(line_num))'
  BY <1>1 DEF ParsedUpTo
<1>5. LastWordParsed'
  BY <1>1 DEF LastWordParsed, JustAssembled
<1>6. (LineAddress(line_num))' = 0
  BY <1>1, FirstAddress, SameText DEF LineAddress
<1>7. QED
  BY <1>1, <1>2, <1>3, <1>4, <1>5, <1>6 DEF AInv

(* After an error, and when the files are written, nothing happens.        *)
LEMMA LastStepInv ==
  ASSUME AInv, RejectLine \/ WriteFiles
  PROVE  AInv'
<1>1. /\ text' = text /\ labels' = labels /\ words' = words /\ line_num' = line_num
      /\ current_pc' = current_pc /\ pass = "code" /\ pass' \in {"failed", "written"}
      /\ pass' = "written" => line_num > Len(text)
  BY DEF RejectLine, WriteFiles
<1>2. AsmTypeOK'
  BY <1>1 DEF AInv, AsmTypeOK
<1>3. (LabelsUpTo(Len(text) + 1))' /\ (ParsedUpTo(line_num))'
  <2>1. LabelsUpTo(Len(text) + 1) /\ ParsedUpTo(line_num)
    BY <1>1 DEF AInv
  <2>2. QED
    BY <1>1, <2>1, SameText DEF LabelsUpTo, ParsedUpTo
<1>4. LastWordParsed'
  BY <1>1 DEF LastWordParsed, JustAssembled
<1>5. pass' = "written" =>
        line_num = Len(text) + 1 /\ 4 * Len(words) = LineAddress(line_num)
  BY <1>1 DEF AInv, AsmTypeOK
<1>6. QED
  BY <1>1, <1>2, <1>3, <1>4, <1>5, SameText DEF AInv

(* A line that is assembled adds the word at its address.                  *)
LEMMA AssembleLineInv ==
  ASSUME AInv, AssembleLine
  PROVE  AInv'
<1>1. /\ text \in Seq(Line) /\ line_num \in 1 .. Len(text) /\ text[line_num].kind = "code"
      /\ labels \in [LabelNames -> Int] /\ words \in Seq(Int)
      /\ LineAddress(line_num) \in Nat /\ current_pc = LineAddress(line_num)
      /\ 4 * Len(words) = current_pc
      /\ pass = "code" /\ pass' = pass /\ text' = text /\ labels' = labels
      /\ current_pc' = current_pc + 4 /\ line_num' = line_num + 1
  BY NextAddress DEF AInv, AsmTypeOK, AssembleLine, Here, NoLabel
<1>2. PICK i \in ParseLine(text[line_num], labels, current_pc) : words' = Append(words, Encode(i))
  BY DEF AssembleLine
<1>3. i \in Instruction
  <2>1. text[line_num] \in Line /\ current_pc \in Int
    BY <1>1
  <2>2. Parsed(ParseLine(text[line_num], labels, current_pc))
    BY <1>1, <2>1, LineParsed
  <2>3. QED
    BY <1>2, <2>2 DEF Parsed
<1>4. /\ words' \in Seq(Int) /\ Len(words') = Len(words) + 1 /\ words' # <<>>
      /\ words'[Len(words')] = Encode(i)
  BY <1>1, <1>2, <1>3, WordType
<1>5. LineAddress(line_num + 1) = current_pc + 4
  BY <1>1, NextAddress
<1>6. AsmTypeOK'
  BY <1>1, <1>4 DEF AInv, AsmTypeOK
<1>7. (LabelsUpTo(Len(text) + 1))' /\ (ParsedUpTo(line_num))'
  <2>1. LabelsUpTo(Len(text) + 1)
    BY <1>1 DEF AInv
  <2>2. ParsedUpTo(line_num + 1)
    BY <1>1, <1>2 DEF AInv, ParsedUpTo
  <2>3. (LabelsUpTo(Len(text) + 1))'
    BY <1>1, <2>1, SameText DEF LabelsUpTo
  <2>4. (ParsedUpTo(line_num))'
    BY <1>1, <2>2, SameText DEF ParsedUpTo
  <2>5. QED
    BY <2>3, <2>4
<1>8. LastWordParsed'
  <2>1. ASSUME NEW k \in DOMAIN text, (JustAssembled(k))'
        PROVE  k = line_num
    BY <1>1, <2>1 DEF JustAssembled
  <2>2. (current_pc - 4)' = current_pc
    BY <1>1
  <2>3. LastWord' = Encode(i)
    BY <1>4 DEF LastWord
  <2>4. QED
    BY <1>1, <1>2, <1>4, <2>1, <2>2, <2>3 DEF LastWordParsed
<1>9. 4 * Len(words') = current_pc'
  BY <1>1, <1>4
<1>10. QED
  BY <1>1, <1>5, <1>6, <1>7, <1>8, <1>9, SameText DEF AInv

(* The inductive invariant of both passes.                                 *)
THEOREM AsmInvariance == AsmSpec => []AInv
<1>1. ASSUME AInv, [AsmNext]_asm_vars
      PROVE  AInv'
  <2>1. CASE AsmNext
    BY <1>1, <2>1, ReadLabelInv, ReadCodeInv, SkipLineInv, SecondPassInv, AssembleLineInv,
       LastStepInv DEF AsmNext
  <2>2. CASE UNCHANGED asm_vars
    <3>1. /\ text' = text /\ pass' = pass /\ line_num' = line_num /\ labels' = labels
          /\ current_pc' = current_pc /\ words' = words
      BY <2>2 DEF asm_vars
    <3>2. AsmTypeOK'
      BY <1>1, <3>1 DEF AInv, AsmTypeOK
    <3>3. \A n : (LabelsUpTo(n))' <=> LabelsUpTo(n)
      BY <3>1, SameText DEF LabelsUpTo
    <3>4. \A n : (ParsedUpTo(n))' <=> ParsedUpTo(n)
      BY <3>1, SameText DEF ParsedUpTo
    <3>5. LastWordParsed'
      BY <1>1, <3>1 DEF AInv, LastWordParsed, JustAssembled, LastWord
    <3>6. QED
      BY <1>1, <3>1, <3>2, <3>3, <3>4, <3>5, SameText DEF AInv
  <2>3. QED
    BY <1>1, <2>1, <2>2
<1>2. QED
  BY AsmInitInv, <1>1, PTL DEF AsmSpec

(* The state of the assembler has its types, in every run on every file.   *)
THEOREM AsmTypeCorrect == AsmSpec => []AsmTypeOK
<1>1. AInv => AsmTypeOK
  BY DEF AInv
<1>2. QED
  BY <1>1, AsmInvariance, PTL

(* Nothing is written but a file all of whose lines of code are            *)
(* instructions, with one word for each.                                   *)
THEOREM WholeFiles == AsmSpec => []NothingHalfWritten
<1>1. AInv => NothingHalfWritten
  <2> SUFFICES ASSUME AInv, pass = "written"
               PROVE  /\ 4 * Len(words) = LineAddress(Len(text) + 1)
                      /\ \A k \in DOMAIN text : text[k].kind = "code" =>
                           ParseLine(text[k], labels, LineAddress(k)) # {}
    BY DEF NothingHalfWritten
  <2>1. line_num = Len(text) + 1 /\ 4 * Len(words) = LineAddress(line_num) /\ text \in Seq(Line)
    BY DEF AInv, AsmTypeOK
  <2>2. ParsedUpTo(line_num)
    BY DEF AInv
  <2>3. \A k \in DOMAIN text : k < line_num
    BY <2>1
  <2>4. QED
    BY <2>1, <2>2, <2>3 DEF ParsedUpTo
<1>2. QED
  BY <1>1, AsmInvariance, PTL

-----------------------------------------------------------------------------
(* What the decoder makes of the words                                     *)

(* The line just assembled is one instruction, and its word is the last.   *)
LEMMA JustParsed ==
  ASSUME AInv, NEW k \in DOMAIN text, JustAssembled(k)
  PROVE  /\ text[k] \in Line /\ text[k].kind = "code"
         /\ labels \in [LabelNames -> Int] /\ current_pc - 4 \in Int
         /\ \E i \in Instruction :
              /\ ParseLine(text[k], labels, current_pc - 4) = {i}
              /\ LastWord = Encode(i)
              /\ i.v = "VCmpGt" => i.rd = 0
<1>1. /\ text[k] \in Line /\ text[k].kind = "code"
      /\ labels \in [LabelNames -> Int] /\ current_pc \in Int
  BY DEF AInv, AsmTypeOK, JustAssembled, NoLabel
<1>2. current_pc - 4 \in Int
  BY <1>1
<1>3. Parsed(ParseLine(text[k], labels, current_pc - 4))
  BY <1>1, <1>2, LineParsed
<1>4. PICK i \in ParseLine(text[k], labels, current_pc - 4) : LastWord = Encode(i)
  BY DEF AInv, LastWordParsed
<1>5. QED
  BY <1>1, <1>2, <1>3, <1>4 DEF Parsed

(* The decoder of the emulator reads from every word that is assembled     *)
(* what its line says, if it fits.                                         *)
THEOREM LinesSurvive == AsmSpec => []InstructionsSurvive
<1>1. AInv => InstructionsSurvive
  <2> SUFFICES ASSUME AInv, NEW k \in DOMAIN text, JustAssembled(k),
                      NEW i \in ParseLine(text[k], labels, current_pc - 4), Fits(i)
               PROVE  Reads(i, Decode(LastWord))
    BY DEF InstructionsSurvive
  <2>1. i \in Instruction /\ LastWord = Encode(i)
    BY JustParsed
  <2>2. QED
    BY <2>1, DecodeEncode
<1>2. QED
  BY <1>1, AsmInvariance, PTL

(* Where the label of a line leads.                                        *)
LEMMA LabelAddress ==
  ASSUME AInv, pass = "code", NEW l \in LabelNames, DefinitionsOf(l) # {}
  PROVE  /\ LastDefinition(l) \in DOMAIN text
         /\ labels[l] = LineAddress(LastDefinition(l)) /\ labels[l] # NoLabel
<1>1. text \in Seq(Line) /\ LabelsUpTo(Len(text) + 1)
  BY DEF AInv, AsmTypeOK
<1>2. \A j \in DefinitionsOf(l) : j \in 1 .. Len(text)
  BY <1>1 DEF DefinitionsOf
<1>3. \A j \in DefinitionsOf(l) : j < Len(text) + 1 /\ ~(j >= Len(text) + 1)
  BY <1>1, <1>2
<1>4. PICK k \in DefinitionsOf(l) :
        (\A j \in DefinitionsOf(l) : j <= k) /\ labels[l] = LineAddress(k)
  BY <1>1, <1>3 DEF LabelsUpTo
<1>5. \A j \in DefinitionsOf(l) : (\A m \in DefinitionsOf(l) : m <= j) => j = k
  BY <1>2, <1>4
<1>6. LastDefinition(l) = k
  BY <1>4, <1>5 DEF LastDefinition
<1>7. k \in 1 .. Len(text) + 1
  BY <1>2
<1>8. LineAddress(k) \in Nat
  BY <1>1, <1>7, AddressType
<1>9. QED
  BY <1>2, <1>4, <1>6, <1>8 DEF NoLabel, DefinitionsOf

(* Distances between lines are whole words.                                *)
LEMMA WholeDistance ==
  ASSUME NEW a \in Int, NEW b \in Int, \E n \in Int : a = 4 * n, \E n \in Int : b = 4 * n
  PROVE  Distance(a, b) \in Int /\ b + 4 * Distance(a, b) = a
<1>1. PICK n \in Int : a = 4 * n
  OBVIOUS
<1>2. PICK m \in Int : b = 4 * m
  OBVIOUS
<1>3. (4 * n - 4 * m) \div 4 = n - m
  BY SMT
<1>4. Distance(a, b) = n - m
  BY <1>1, <1>2, <1>3 DEF Distance
<1>5. QED
  BY <1>1, <1>2, <1>4, SMT

(* Every branch and every jump to a label leads to its last definition,    *)
(* unless it is too far away.                                              *)
THEOREM LabelsReached == AsmSpec => []BranchesReach
<1>1. AInv => BranchesReach
  <2> SUFFICES ASSUME AInv, NEW k \in DOMAIN text, NEW l \in LabelNames,
                      JustAssembled(k), DefinitionsOf(l) # {}
               PROVE  LET here == 4 * (Len(words) - 1)
                          goal == LineAddress(LastDefinition(l))
                      IN  /\ BranchTo(k, l) /\ Imm14((goal - here) \div 4)
                               => here + 4 * Decode(LastWord).imm14 = goal
                          /\ JumpTo(k, l) /\ Imm19((goal - here) \div 4)
                               => here + 4 * Decode(LastWord).imm19 = goal
    BY DEF BranchesReach
  <2> DEFINE here == 4 * (Len(words) - 1)
             goal == LineAddress(LastDefinition(l))
  <2>1. PICK i \in Instruction :
          ParseLine(text[k], labels, current_pc - 4) = {i} /\ LastWord = Encode(i)
    BY JustParsed
  <2>2. /\ pass = "code" /\ Len(words) \in Int /\ 4 * Len(words) = current_pc
        /\ text \in Seq(Line)
    BY DEF AInv, AsmTypeOK, JustAssembled
  <2>3. here = current_pc - 4
    BY <2>2
  <2>4. LastDefinition(l) \in DOMAIN text /\ labels[l] = goal /\ labels[l] # NoLabel
    BY <2>2, LabelAddress
  <2>5. goal \in Int /\ \E n \in Int : goal = 4 * n
    <3>1. LastDefinition(l) \in 1 .. Len(text) + 1
      BY <2>2, <2>4
    <3>2. goal \in Nat /\ \E n \in Nat : goal = 4 * n
      BY <2>2, <3>1, AddressType
    <3>3. QED
      BY <3>2
  <2>6. here \in Int /\ \E n \in Int : here = 4 * n
    <3>1. Len(words) - 1 \in Int
      BY <2>2, SMT
    <3>2. \A n \in Int : 4 * n \in Int
      BY SMT
    <3>3. QED
      BY <3>1, <3>2, Zenon
  <2>7. Distance(goal, here) \in Int /\ here + 4 * Distance(goal, here) = goal
    <3> HIDE DEF here, goal
    <3> QED
      BY <2>5, <2>6, WholeDistance
  <2>8. /\ BranchTo(k, l) => i.v \in Branches /\ i.imm = Wrap16(Distance(goal, here))
        /\ JumpTo(k, l) => i.v = "JumpX" /\ i.imm = Distance(goal, here)
    <3> HIDE DEF here, goal
    <3> QED
      BY <2>1, <2>3, <2>4, JustParsed, TransferInstruction DEF BranchTo, JumpTo
  <2>9. ASSUME BranchTo(k, l), Imm14(Distance(goal, here))
        PROVE  Decode(LastWord).imm14 = Distance(goal, here)
    <3> HIDE DEF here, goal
    <3>1. i.v \in Branches /\ i.imm = Distance(goal, here)
      BY <2>7, <2>8, <2>9, WrapFacts
    <3>2. Fits(i)
      BY <2>9, <3>1 DEF Fits, Branches, Csrs
    <3>3. Reads(i, Decode(LastWord))
      BY <2>1, <3>2, DecodeEncode
    <3>4. QED
      BY <3>1, <3>3 DEF Reads
  <2>10. ASSUME JumpTo(k, l), Imm19(Distance(goal, here))
         PROVE  Decode(LastWord).imm19 = Distance(goal, here)
    <3> HIDE DEF here, goal
    <3>1. i.v = "JumpX" /\ i.imm = Distance(goal, here)
      BY <2>8, <2>10
    <3>2. Fits(i)
      BY <2>10, <3>1 DEF Fits, Based, Stores, Branches, Csrs
    <3>3. Reads(i, Decode(LastWord))
      BY <2>1, <3>2, DecodeEncode
    <3>4. QED
      BY <3>1, <3>3 DEF Reads
  <2>11. Distance(goal, here) = (goal - here) \div 4
    BY DEF Distance
  <2> HIDE DEF here, goal
  <2>12. /\ BranchTo(k, l) /\ Imm14((goal - here) \div 4) => here + 4 * Decode(LastWord).imm14 = goal
         /\ JumpTo(k, l) /\ Imm19((goal - here) \div 4) => here + 4 * Decode(LastWord).imm19 = goal
    BY <2>7, <2>9, <2>10, <2>11
  <2>13. QED
    BY <2>12 DEF here, goal
<1>2. QED
  BY <1>1, AsmInvariance, PTL

-----------------------------------------------------------------------------
(* Assembly of a listing                                                   *)

(* Line P is what is printed for a word with the fields d.                *)
Printed(P, d) ==
  /\ d.op = 1 /\ d.funct = 0 => P = ThreeFields("ADD.X", d)
  /\ d.op = 1 /\ d.funct = 1 => P = ThreeFields("SUB.X", d)
  /\ d.op = 2 => P = ThreeFields("AND", d)
  /\ d.op = 3 => P = ThreeFields("OR", d)
  /\ d.op = 4 => P = ThreeFields("XOR", d)
  /\ d.op = 5 => P = ThreeFields("SHL", d)
  /\ d.op = 6 => P = ThreeFields(IF d.funct = 1 THEN "SRA" ELSE "SHR", d)
  /\ d.op = 7 => P = ThreeFields("MUL.X", d)
  /\ d.op = 8 => P = ThreeFields("DIV.X", d)
  /\ d.op = 10 => P = ThreeFields("SLT", d)
  /\ d.op = 11 => P = ThreeFields("SLTU", d)
  /\ d.op = 80 => P = ThreeFields("FADD.X", d)
  /\ d.op = 81 => P = ThreeFields("FMUL.X", d)
  /\ d.op = 84 => P = Code("VCMP.GT", <<R(d.rs1), R(d.rs2)>>)
  /\ d.op = 98 => P = Masked("VADD", "VADD.M", d)
  /\ d.op = 99 => P = Masked("VMUL", "VMUL.M", d)
  /\ d.op = 100 => P = Masked("VFMA", "VFMA.M", d)
  /\ d.op = 101 => P = Masked("VPERM", "VPERM.M", d)
  /\ d.op = 9  => P = Compared("ADDI", d)
  /\ d.op = 33 => P = LoadFields("LOAD.X", d)
  /\ d.op = 34 => P = StoreFields("STORE.X", d)
  /\ d.op = 96 => P = LoadFields("VLOAD", d)
  /\ d.op = 97 => P = StoreFields("VSTORE", d)
  /\ d.op = 64 => P = Compared("BEQ", d)
  /\ d.op = 70 => P = Compared("BNE", d)
  /\ d.op = 71 => P = Compared("BLT", d)
  /\ d.op = 72 => P = Compared("BGE", d)
  /\ d.op = 73 => P = Compared("BLTU", d)
  /\ d.op = 74 => P = Compared("BGEU", d)
  /\ d.op = 65 => P = Code("JUMP.X", <<R(d.rd), I(d.imm19)>>)
  /\ d.op = 66 => P = Code("CSR.READ", <<R(d.rd), I(d.csr)>>)
  /\ d.op = 67 => P = Code("CSR.WRITE", <<R(d.rd), I(d.csr)>>)
  /\ d.op = 68 => P = Code("ECALL", <<>>)
  /\ d.op = 69 => P = Code("EXRET", <<>>)

(* The line printed for a word is the one of its opcode.                   *)
LEMMA PrintedOf ==
  ASSUME NEW w
  PROVE  Printed(Disassemble(w), Decode(w))
<1> DEFINE d == Decode(w)
<1>1. CASE d.op = 1 /\ d.funct = 0
  BY <1>1 DEF Disassemble, Printed
<1>2. CASE d.op = 1 /\ d.funct = 1
  BY <1>2 DEF Disassemble, Printed
<1>3. CASE d.op = 2
  BY <1>3 DEF Disassemble, Printed
<1>4. CASE d.op = 3
  BY <1>4 DEF Disassemble, Printed
<1>5. CASE d.op = 4
  BY <1>5 DEF Disassemble, Printed
<1>6. CASE d.op = 5
  BY <1>6 DEF Disassemble, Printed
<1>7. CASE d.op = 6
  BY <1>7 DEF Disassemble, Printed
<1>8. CASE d.op = 7
  BY <1>8 DEF Disassemble, Printed
<1>9. CASE d.op = 8
  BY <1>9 DEF Disassemble, Printed
<1>10. CASE d.op = 10
  BY <1>10 DEF Disassemble, Printed
<1>11. CASE d.op = 11
  BY <1>11 DEF Disassemble, Printed
<1>12. CASE d.op = 80
  BY <1>12 DEF Disassemble, Printed
<1>13. CASE d.op = 81
  BY <1>13 DEF Disassemble, Printed
<1>14. CASE d.op = 84
  BY <1>14 DEF Disassemble, Printed
<1>15. CASE d.op = 98
  BY <1>15 DEF Disassemble, Printed
<1>16. CASE d.op = 99
  BY <1>16 DEF Disassemble, Printed
<1>17. CASE d.op = 100
  BY <1>17 DEF Disassemble, Printed
<1>18. CASE d.op = 101
  BY <1>18 DEF Disassemble, Printed
<1>19. CASE d.op = 9
  BY <1>19 DEF Disassemble, Printed
<1>20. CASE d.op = 33
  BY <1>20 DEF Disassemble, Printed
<1>21. CASE d.op = 34
  BY <1>21 DEF Disassemble, Printed
<1>22. CASE d.op = 96
  BY <1>22 DEF Disassemble, Printed
<1>23. CASE d.op = 97
  BY <1>23 DEF Disassemble, Printed
<1>24. CASE d.op = 64
  BY <1>24 DEF Disassemble, Printed
<1>25. CASE d.op = 70
  BY <1>25 DEF Disassemble, Printed
<1>26. CASE d.op = 71
  BY <1>26 DEF Disassemble, Printed
<1>27. CASE d.op = 72
  BY <1>27 DEF Disassemble, Printed
<1>28. CASE d.op = 73
  BY <1>28 DEF Disassemble, Printed
<1>29. CASE d.op = 74
  BY <1>29 DEF Disassemble, Printed
<1>30. CASE d.op = 65
  BY <1>30 DEF Disassemble, Printed
<1>31. CASE d.op = 66
  BY <1>31 DEF Disassemble, Printed
<1>32. CASE d.op = 67
  BY <1>32 DEF Disassemble, Printed
<1>33. CASE d.op = 68
  BY <1>33 DEF Disassemble, Printed
<1>34. CASE d.op = 69
  BY <1>34 DEF Disassemble, Printed
<1>35. CASE /\ ~(d.op = 1 /\ d.funct \in {0, 1})
            /\ d.op \notin {2, 3, 4, 5, 6, 7, 8, 9, 10, 11, 33, 34, 64, 65, 66, 67, 68, 69, 70,
                           71, 72, 73, 74, 80, 81, 84, 96, 97, 98, 99, 100, 101}
  BY <1>35 DEF Printed
<1>36. QED
  BY <1>1, <1>2, <1>3, <1>4, <1>5, <1>6, <1>7, <1>8, <1>9, <1>10, <1>11, <1>12,
     <1>13, <1>14, <1>15, <1>16, <1>17, <1>18, <1>19, <1>20, <1>21, <1>22, <1>23,
     <1>24, <1>25, <1>26, <1>27, <1>28, <1>29, <1>30, <1>31, <1>32, <1>33, <1>34,
     <1>35

(* The mnemonic printed for an instruction of three registers.             *)
PrintedName(v) ==
  CASE v = "Add" -> "ADD.X" [] v = "Sub" -> "SUB.X" [] v = "And" -> "AND" [] v = "Or" -> "OR"
    [] v = "Xor" -> "XOR" [] v = "Shl" -> "SHL" [] v = "Shr" -> "SHR" [] v = "Sra" -> "SRA"
    [] v = "Mul" -> "MUL.X" [] v = "Div" -> "DIV.X" [] v = "Slt" -> "SLT" [] v = "Sltu" -> "SLTU"
    [] v = "FAdd" -> "FADD.X" [] v = "FMul" -> "FMUL.X"
    [] v = "VAdd" -> "VADD" [] v = "VMul" -> "VMUL" [] v = "VFma" -> "VFMA" [] v = "VPerm" -> "VPERM"
    [] v = "VAdd.M" -> "VADD.M" [] v = "VMul.M" -> "VMUL.M" [] v = "VFma.M" -> "VFMA.M"
    [] v = "VPerm.M" -> "VPERM.M"

(* An instruction of three registers is printed under its own name.        *)
LEMMA NamePrinted ==
  ASSUME NEW w, NEW v \in RegOps, v # "VCmpGt",
         Decode(w).op = RegCode(v), Decode(w).funct = Funct(v)
  PROVE  Disassemble(w) = ThreeFields(PrintedName(v), Decode(w))
<1> DEFINE d == Decode(w)
<1>1. CASE v \in ScalarOps
  <2>1. RegCode(v) = ScalarCode(v)
    BY <1>1 DEF RegCode, ScalarOps, SlowOps, VectorOps, MaskedOps, OtherOps
  <2>2. CASE v \in {"Add", "Sub"}
    BY <2>1, <2>2, PrintedOf DEF Printed, ScalarCode, Funct, MaskedOps, PrintedName
  <2>3. CASE v \in {"Shr", "Sra"}
    <3>1. d.op = 6 /\ (d.funct = 1 <=> v = "Sra")
      BY <2>1, <2>3 DEF ScalarCode, Funct, MaskedOps
    <3>2. PrintedName(v) = IF v = "Sra" THEN "SRA" ELSE "SHR"
      BY <2>3 DEF PrintedName
    <3>3. QED
      BY <3>1, <3>2, PrintedOf DEF Printed
  <2>4. CASE v \in {"And", "Or", "Xor", "Shl"}
    BY <2>1, <2>4, PrintedOf DEF Printed, ScalarCode, PrintedName
  <2>5. QED
    BY <1>1, <2>2, <2>3, <2>4 DEF ScalarOps
<1>2. CASE v \in SlowOps
  <2>1. RegCode(v) = SlowCode(v)
    BY <1>2 DEF RegCode, ScalarOps, SlowOps, VectorOps, MaskedOps, OtherOps
  <2>2. QED
    BY <1>2, <2>1, PrintedOf DEF Printed, SlowOps, SlowCode, PrintedName
<1>3. CASE v \in VectorOps \cup MaskedOps
  <2>1. RegCode(v) = VectorCode(v)
    BY <1>3 DEF RegCode, ScalarOps, SlowOps, VectorOps, MaskedOps, OtherOps
  <2>2. (0 \div 256) % 2 = 0 /\ (256 \div 256) % 2 = 1
    BY SMT
  <2>3. v \in VectorOps => Funct(v) = 0
    BY DEF VectorOps, Funct, MaskedOps
  <2>4. v \in MaskedOps => Funct(v) = 256
    BY DEF Funct, MaskedOps
  <2>5. v \in VectorOps => v \notin MaskedOps
    BY DEF VectorOps, MaskedOps
  <2>6. \A mn, masked :
          Masked(mn, masked, d) = ThreeFields(IF v \in MaskedOps THEN masked ELSE mn, d)
    BY <1>3, <2>2, <2>3, <2>4, <2>5 DEF Masked
  <2>7. CASE v \in {"VAdd", "VAdd.M"}
    <3>1. PrintedName(v) = IF v \in MaskedOps THEN "VADD.M" ELSE "VADD"
      BY <2>7 DEF PrintedName, MaskedOps
    <3>2. d.op = 98
      BY <2>1, <2>7 DEF VectorCode
    <3>3. Disassemble(w) = Masked("VADD", "VADD.M", d)
      BY <3>2, PrintedOf DEF Printed
    <3>4. QED
      BY <2>6, <3>1, <3>3
  <2>8. CASE v \in {"VMul", "VMul.M"}
    <3>1. PrintedName(v) = IF v \in MaskedOps THEN "VMUL.M" ELSE "VMUL"
      BY <2>8 DEF PrintedName, MaskedOps
    <3>2. d.op = 99
      BY <2>1, <2>8 DEF VectorCode
    <3>3. Disassemble(w) = Masked("VMUL", "VMUL.M", d)
      BY <3>2, PrintedOf DEF Printed
    <3>4. QED
      BY <2>6, <3>1, <3>3
  <2>9. CASE v \in {"VFma", "VFma.M"}
    <3>1. PrintedName(v) = IF v \in MaskedOps THEN "VFMA.M" ELSE "VFMA"
      BY <2>9 DEF PrintedName, MaskedOps
    <3>2. d.op = 100
      BY <2>1, <2>9 DEF VectorCode
    <3>3. Disassemble(w) = Masked("VFMA", "VFMA.M", d)
      BY <3>2, PrintedOf DEF Printed
    <3>4. QED
      BY <2>6, <3>1, <3>3
  <2>10. CASE v \in {"VPerm", "VPerm.M"}
    <3>1. PrintedName(v) = IF v \in MaskedOps THEN "VPERM.M" ELSE "VPERM"
      BY <2>10 DEF PrintedName, MaskedOps
    <3>2. d.op = 101
      BY <2>1, <2>10 DEF VectorCode
    <3>3. Disassemble(w) = Masked("VPERM", "VPERM.M", d)
      BY <3>2, PrintedOf DEF Printed
    <3>4. QED
      BY <2>6, <3>1, <3>3
  <2>11. QED
    BY <1>3, <2>7, <2>8, <2>9, <2>10 DEF VectorOps, MaskedOps
<1>4. CASE v \in OtherOps
  <2>1. RegCode(v) = OtherCode(v)
    BY <1>4 DEF RegCode, ScalarOps, SlowOps, VectorOps, MaskedOps, OtherOps
  <2>2. QED
    BY <1>4, <2>1, PrintedOf DEF Printed, OtherOps, OtherCode, PrintedName
<1>5. QED
  BY <1>1, <1>2, <1>3, <1>4 DEF RegOps

(* The assembler takes the mnemonic printed for a variant as that variant. *)
LEMMA NameParsed ==
  ASSUME NEW v \in RegOps, v # "VCmpGt", NEW a, NEW at, NEW pc
  PROVE  ParseLine(Code(PrintedName(v), a), at, pc) = ThreeRegisters(v, a)
<1> DEFINE line == Code(PrintedName(v), a)
<1>1. line.mn = PrintedName(v) /\ line.args = a
  BY DEF Code
<1>2. CASE v \in ScalarOps
  <2>1. PrintedName(v) \in ScalarMnemonics /\ ScalarVariant(PrintedName(v)) = v
    BY <1>2 DEF ScalarOps, PrintedName, ScalarMnemonics, ScalarVariant
  <2>2. QED
    BY <1>1, <2>1, ArmOf
<1>3. CASE v \in SlowOps
  <2>1. PrintedName(v) \in SlowMnemonics /\ SlowVariant(PrintedName(v)) = v
    BY <1>3 DEF SlowOps, PrintedName, SlowMnemonics, SlowVariant
  <2>2. QED
    BY <1>1, <2>1, ArmOf
<1>4. CASE v \in VectorOps \cup MaskedOps
  <2>1. PrintedName(v) \in VectorMnemonics /\ VectorVariant(PrintedName(v)) = v
    BY <1>4 DEF VectorOps, MaskedOps, PrintedName, VectorMnemonics, VectorVariant
  <2>2. QED
    BY <1>1, <2>1, ArmOf
<1>5. CASE v \in OtherOps
  <2>1. PrintedName(v) \in OtherMnemonics /\ OtherVariant(PrintedName(v)) = v
    BY <1>5 DEF OtherOps, PrintedName, OtherMnemonics, OtherVariant
  <2>2. QED
    BY <1>1, <2>1, ArmOf
<1>6. QED
  BY <1>2, <1>3, <1>4, <1>5 DEF RegOps

(* Only the bits of an immediate that have room count: an instruction has  *)
(* the word of one that fits.                                              *)
LEMMA FittingWord ==
  ASSUME NEW i \in Instruction, i.v # "Raw"
  PROVE  \E j \in Instruction :
           /\ Fits(j) /\ Encode(j) = Encode(i)
           /\ j.v = i.v /\ j.rd = i.rd
<1> DEFINE With(n) == [i EXCEPT !.imm = n]
<1>1. /\ i.v \in Variant /\ i.imm \in Int
      /\ \A n \in Int : /\ With(n) \in Instruction /\ With(n).imm = n /\ With(n).v = i.v
                        /\ With(n).rd = i.rd /\ With(n).rs1 = i.rs1 /\ With(n).rs2 = i.rs2
  BY DEF Instruction
<1> HIDE DEF With
<1>2. CASE i.v \in Based \cup Stores \cup Branches
  <2> DEFINE n == SignExtend(i.imm % 16384, 8192)
  <2>1. n \in Int /\ Imm14(n) /\ n % 16384 = i.imm % 16384
    BY <1>1, SMT DEF SignExtend, Imm14
  <2> HIDE DEF n
  <2>2. Fits(With(n))
    BY <1>1, <1>2, <2>1 DEF Fits, Based, Stores, Branches, Csrs
  <2>3. Encode(With(n)) = Encode(i)
    BY <1>1, <1>2, <2>1, Layouts DEF PackI
  <2>4. QED
    BY <1>1, <2>1, <2>2, <2>3
<1>3. CASE i.v = "JumpX"
  <2> DEFINE n == SignExtend(i.imm % 524288, 262144)
  <2>1. n \in Int /\ Imm19(n) /\ n % 524288 = i.imm % 524288
    BY <1>1, SMT DEF SignExtend, Imm19
  <2> HIDE DEF n
  <2>2. Fits(With(n))
    BY <1>1, <1>3, <2>1 DEF Fits, Based, Stores, Branches, Csrs
  <2>3. Encode(With(n)) = Encode(i)
    BY <1>1, <1>3, <2>1, Layouts DEF PackJ
  <2>4. QED
    BY <1>1, <2>1, <2>2, <2>3
<1>4. CASE i.v \in Csrs
  <2> DEFINE n == i.imm % 4096
  <2>1. n \in Int /\ 0 <= n /\ n < 4096 /\ n % 4096 = i.imm % 4096
    BY <1>1, SMT
  <2> HIDE DEF n
  <2>2. Fits(With(n))
    BY <1>1, <1>4, <2>1 DEF Fits, Based, Stores, Branches, Csrs
  <2>3. Encode(With(n)) = Encode(i)
    BY <1>1, <1>4, <2>1, Layouts DEF PackC, Csrs
  <2>4. QED
    BY <1>1, <2>1, <2>2, <2>3
<1>5. CASE i.v \in RegOps \cup Systems
  <2>1. Fits(i)
    BY <1>1, <1>5, Classes DEF Fits
  <2>2. QED
    BY <2>1
<1>6. QED
  BY <1>1, <1>2, <1>3, <1>4, <1>5 DEF Variant

(* Instructions of three registers in a listing.                           *)
LEMMA RegisterListing ==
  ASSUME NEW i \in Instruction, i.v \in RegOps, i.v # "VCmpGt",
         NEW w, Reads(i, Decode(w)), NEW at, NEW pc
  PROVE  ParseLine(Disassemble(w), at, pc) = {Instr(i.v, i.rd, i.rs1, i.rs2, 0)}
<1> DEFINE a == <<R(i.rd), R(i.rs1), R(i.rs2)>>
<1>1. Disassemble(w) = Code(PrintedName(i.v), a)
  BY NamePrinted DEF Reads, ThreeFields
<1>2. ParseLine(Disassemble(w), at, pc) = ThreeRegisters(i.v, a)
  BY <1>1, NameParsed
<1>3. Registers(a, 3) /\ a[1].n = i.rd /\ a[2].n = i.rs1 /\ a[3].n = i.rs2
  BY DEF Registers, R
<1>4. QED
  BY <1>2, <1>3 DEF ThreeRegisters

(* A register and a bracketed operand.                                     *)
LEMMA BracketOperands ==
  ASSUME NEW r, NEW q, NEW n \in Int, Imm14(n)
  PROVE  LET a == <<R(r), M(q, n)>>
         IN  /\ Bracketed(a) /\ Len(a) = 2 /\ ~Wide(a[2])
             /\ a[1].n = r /\ Base(a[2]) = q /\ Displacement(a[2]) = n
<1>1. Wrap16(n) = n
  BY WrapFacts
<1>2. QED
  BY <1>1 DEF Bracketed, Registers, IsMemory, Wide, Base, Displacement, R, M

(* Loads, stores and ADDI in a listing.                                    *)
LEMMA MemoryListing ==
  ASSUME NEW i \in Instruction, i.v \in Based \cup Stores, Fits(i),
         NEW w, Reads(i, Decode(w)), NEW at, NEW pc
  PROVE  ParseLine(Disassemble(w), at, pc) =
           {IF i.v \in Based THEN Instr(i.v, i.rd, i.rs1, 0, i.imm)
                             ELSE Instr(i.v, 0, i.rs1, i.rs2, i.imm)}
<1>1. i.imm \in Int /\ Imm14(i.imm) /\ Wrap16(i.imm) = i.imm
  BY WrapFacts DEF Instruction, Fits
<1>2. CASE i.v = "AddI"
  <2>1. Disassemble(w) = Code("ADDI", <<R(i.rd), R(i.rs1), I(i.imm)>>)
    <3>1. Decode(w).op = 9
      BY <1>2 DEF Reads, Based, ImmCode, Branches, MemoryCode
    <3>2. QED
      BY <1>2, <3>1, PrintedOf DEF Printed, Compared, Reads, Based
  <2>2. ParseLine(Disassemble(w), at, pc) = AddImmediate(<<R(i.rd), R(i.rs1), I(i.imm)>>)
    BY <2>1, ArmOf DEF Code
  <2> DEFINE a == <<R(i.rd), R(i.rs1), I(i.imm)>>
  <2>3. /\ Registers(a, 2) /\ Len(a) >= 3
        /\ a[1].n = i.rd /\ a[2].n = i.rs1 /\ Number(a[3]) = i.imm
    BY <1>1 DEF Registers, R, I, Number
  <2> HIDE DEF a
  <2>4. QED
    BY <1>1, <1>2, <2>2, <2>3 DEF AddImmediate, Based, a
<1>3. CASE i.v \in {"LoadX", "VLoad"}
  <2> DEFINE a == <<R(i.rd), M(i.rs1, i.imm)>>
  <2>1. Disassemble(w) = Code(IF i.v = "LoadX" THEN "LOAD.X" ELSE "VLOAD", a)
    <3>1. Decode(w).op = IF i.v = "LoadX" THEN 33 ELSE 96
      BY <1>3 DEF Reads, Based, ImmCode, Branches, MemoryCode
    <3>2. LoadFields(IF i.v = "LoadX" THEN "LOAD.X" ELSE "VLOAD", Decode(w)) =
            Code(IF i.v = "LoadX" THEN "LOAD.X" ELSE "VLOAD", a)
      BY <1>3 DEF LoadFields, Reads, Based
    <3>3. CASE i.v = "LoadX"
      BY <3>1, <3>2, <3>3, PrintedOf DEF Printed
    <3>4. CASE i.v # "LoadX"
      BY <3>1, <3>2, <3>4, PrintedOf DEF Printed
    <3>5. QED
      BY <3>3, <3>4
  <2>2. ParseLine(Disassemble(w), at, pc) = IF i.v = "LoadX" THEN LoadX(a) ELSE VLoad(a)
    BY <2>1, ArmOf DEF Code
  <2>3. ~(Len(a) >= 3) /\ Bracketed(a) /\ ~Wide(a[2])
        /\ a[1].n = i.rd /\ Base(a[2]) = i.rs1 /\ Displacement(a[2]) = i.imm
    BY <1>1, BracketOperands
  <2> HIDE DEF a
  <2>4. QED
    BY <1>3, <2>2, <2>3 DEF LoadX, VLoad, Based
<1>4. CASE i.v \in Stores
  <2> DEFINE a == <<R(i.rs2), M(i.rs1, i.imm)>>
  <2>1. Disassemble(w) = Code(IF i.v = "StoreX" THEN "STORE.X" ELSE "VSTORE", a)
    <3>1. Decode(w).op = IF i.v = "StoreX" THEN 34 ELSE 97
      BY <1>4 DEF Reads, Stores, ImmCode, Branches, MemoryCode
    <3>2. StoreFields(IF i.v = "StoreX" THEN "STORE.X" ELSE "VSTORE", Decode(w)) =
            Code(IF i.v = "StoreX" THEN "STORE.X" ELSE "VSTORE", a)
      BY <1>4 DEF StoreFields, Reads, Stores
    <3>3. CASE i.v = "StoreX"
      BY <3>1, <3>2, <3>3, PrintedOf DEF Printed
    <3>4. CASE i.v # "StoreX"
      BY <3>1, <3>2, <3>4, PrintedOf DEF Printed
    <3>5. QED
      BY <3>3, <3>4
  <2>2. ParseLine(Disassemble(w), at, pc) = IF i.v = "StoreX" THEN StoreX(a) ELSE VStore(a)
    BY <2>1, ArmOf DEF Code
  <2>3. ~(Len(a) >= 3) /\ Bracketed(a) /\ ~Wide(a[2])
        /\ a[1].n = i.rs2 /\ Base(a[2]) = i.rs1 /\ Displacement(a[2]) = i.imm
    BY <1>1, BracketOperands
  <2> HIDE DEF a
  <2>4. QED
    BY <1>4, <2>2, <2>3 DEF StoreX, VStore, Based, Stores
<1>5. QED
  BY <1>2, <1>3, <1>4 DEF Based

(* Branches, jumps and accesses to CSRs in a listing, whatever the labels. *)
LEMMA TransferListing ==
  ASSUME NEW i \in Instruction, i.v \in Branches \cup {"JumpX"} \cup Csrs, Fits(i),
         NEW w, Reads(i, Decode(w)), NEW at, NEW pc
  PROVE  ParseLine(Disassemble(w), at, pc) =
           {CASE i.v \in Branches -> Instr(i.v, 0, i.rs1, i.rs2, i.imm)
              [] i.v = "JumpX"    -> Instr(i.v, i.rd, 0, 0, i.imm)
              [] i.v = "CsrRead"  -> Instr(i.v, i.rd, 0, 0, i.imm)
              [] i.v = "CsrWrite" -> Instr(i.v, 0, i.rs1, 0, i.imm)}
<1>1. i.imm \in Int
  BY DEF Instruction
<1>2. CASE i.v \in Branches
  <2> DEFINE a == <<R(i.rs1), R(i.rs2), I(i.imm)>>
  <2>1. Decode(w).op = BranchCode(i.v) /\ Compared(i.v, Decode(w)) = Code(i.v, a)
    BY <1>2 DEF Reads, ImmCode, Compared
  <2>2. Disassemble(w) = Code(i.v, a)
    BY <1>2, <2>1, PrintedOf DEF Printed, BranchCode, Branches
  <2>3. i.v \in BranchMnemonics /\ BranchVariant(i.v) = i.v
    BY <1>2 DEF Branches, BranchMnemonics, BranchVariant
  <2>4. ParseLine(Disassemble(w), at, pc) = BranchX(i.v, a, at, pc)
    BY <2>2, <2>3, ArmOf DEF Code
  <2>5. Registers(a, 2) /\ Len(a) >= 3 /\ a[1].n = i.rs1 /\ a[2].n = i.rs2
    BY DEF Registers, R
  <2>6. TransferTarget(a[3], at, pc) = i.imm
    BY DEF TransferTarget, Number, I
  <2>7. Wrap16(i.imm) = i.imm
    BY <1>1, <1>2, WrapFacts DEF Fits
  <2> HIDE DEF a
  <2>8. QED
    BY <1>2, <2>4, <2>5, <2>6, <2>7 DEF BranchX, Branches
<1>3. CASE i.v = "JumpX"
  <2> DEFINE a == <<R(i.rd), I(i.imm)>>
  <2>1. Disassemble(w) = Code("JUMP.X", a)
    BY <1>3, PrintedOf DEF Printed, Reads
  <2>2. ParseLine(Disassemble(w), at, pc) = JumpX(a, at, pc)
    BY <2>1, ArmOf DEF Code
  <2>3. Registers(a, 1) /\ Len(a) >= 2 /\ a[1].n = i.rd
    BY DEF Registers, R
  <2>4. TransferTarget(a[2], at, pc) = i.imm
    BY DEF TransferTarget, Number, I
  <2> HIDE DEF a
  <2>5. QED
    BY <1>3, <2>2, <2>3, <2>4 DEF JumpX, Branches
<1>4. CASE i.v \in Csrs
  <2>1. i.imm % 65536 = i.imm
    BY <1>1, <1>4, SMT DEF Fits
  <2>2. CASE i.v = "CsrRead"
    <3> DEFINE a == <<R(i.rd), I(i.imm)>>
    <3>1. Disassemble(w) = Code("CSR.READ", a)
      BY <2>2, PrintedOf DEF Printed, Reads
    <3>2. IsCsr(a) /\ a[1].n = i.rd /\ a[2].n = i.imm
      BY DEF IsCsr, Registers, R, I
    <3> HIDE DEF a
    <3>3. ParseLine(Disassemble(w), at, pc) = {Instr("CsrRead", i.rd, 0, 0, i.imm)}
      BY <2>1, <3>1, <3>2, ArmOf DEF Code
    <3>4. QED
      BY <2>2, <3>3 DEF Branches
  <2>3. CASE i.v = "CsrWrite"
    <3> DEFINE a == <<R(i.rs1), I(i.imm)>>
    <3>1. Disassemble(w) = Code("CSR.WRITE", a)
      BY <2>3, PrintedOf DEF Printed, Reads
    <3>2. IsCsr(a) /\ a[1].n = i.rs1 /\ a[2].n = i.imm
      BY DEF IsCsr, Registers, R, I
    <3> HIDE DEF a
    <3>3. ParseLine(Disassemble(w), at, pc) = {Instr("CsrWrite", 0, i.rs1, 0, i.imm)}
      BY <2>1, <3>1, <3>2, ArmOf DEF Code
    <3>4. QED
      BY <2>3, <3>3 DEF Branches
  <2>4. QED
    BY <1>4, <2>2, <2>3 DEF Csrs
<1>5. QED
  BY <1>2, <1>3, <1>4

(* What is printed for the word of an instruction is one instruction again *)
(* with that word.                                                         *)
LEMMA Reassembled ==
  ASSUME NEW i \in Instruction, i.v # "Raw", i.v = "VCmpGt" => i.rd = 0, NEW at, NEW pc
  PROVE  {Encode(j) : j \in ParseLine(Disassemble(Encode(i)), at, pc)} = {Encode(i)}
<1>1. PICK f \in Instruction :
        Fits(f) /\ Encode(f) = Encode(i) /\ f.v = i.v /\ f.rd = i.rd
  BY FittingWord
<1> DEFINE w == Encode(f)
           P == ParseLine(Disassemble(w), at, pc)
<1>2. Reads(f, Decode(w))
  BY <1>1, DecodeEncode
<1>3. /\ f.v \in Variant \ {"Raw"} /\ f.rd \in Reg /\ f.rs1 \in Reg /\ f.rs2 \in Reg /\ f.imm \in Int
      /\ 0 \in Reg
  BY <1>1 DEF Instruction, Reg
<1>4. ASSUME NEW rd \in Reg, NEW rs1 \in Reg, NEW rs2 \in Reg, NEW imm \in Int,
             P = {Instr(f.v, rd, rs1, rs2, imm)}, Encode(Instr(f.v, rd, rs1, rs2, imm)) = w
      PROVE  {Encode(j) : j \in P} = {w}
  BY <1>4
<1>5. \A rd \in Reg, rs1 \in Reg, rs2 \in Reg, imm \in Int :
        LET j == Instr(f.v, rd, rs1, rs2, imm)
        IN  j \in Instruction /\ j.v = f.v /\ j.rd = rd /\ j.rs1 = rs1 /\ j.rs2 = rs2 /\ j.imm = imm
  BY <1>3, InstrType DEF Instr
<1>6. {Encode(j) : j \in P} = {w}
  <2>1. CASE f.v \in RegOps /\ f.v # "VCmpGt"
    <3>1. P = {Instr(f.v, f.rd, f.rs1, f.rs2, 0)}
      BY <1>2, <2>1, RegisterListing
    <3>2. Encode(Instr(f.v, f.rd, f.rs1, f.rs2, 0)) = w
      BY <1>3, <1>5, <2>1, Layouts
    <3>3. QED
      BY <1>3, <1>4, <3>1, <3>2
  <2>2. CASE f.v = "VCmpGt"
    <3> DEFINE a == <<R(f.rs1), R(f.rs2)>>
    <3>1. f.v \in RegOps /\ RegCode(f.v) = 84
      BY <2>2 DEF RegOps, RegCode, OtherCode, ScalarOps, SlowOps, VectorOps, MaskedOps, OtherOps
    <3>2. Disassemble(w) = Code("VCMP.GT", a)
      <4>1. Decode(w).op = 84 /\ Decode(w).rs1 = f.rs1 /\ Decode(w).rs2 = f.rs2
        BY <1>2, <3>1 DEF Reads
      <4>2. <<R(Decode(w).rs1), R(Decode(w).rs2)>> = a
        BY <4>1
      <4>3. Printed(Disassemble(w), Decode(w))
        BY PrintedOf
      <4> HIDE DEF a, w
      <4>4. QED
        BY <4>1, <4>2, <4>3 DEF Printed
    <3>3. Registers(a, 2) /\ a[1].n = f.rs1 /\ a[2].n = f.rs2
      BY DEF Registers, R
    <3> HIDE DEF a
    <3>4. P = {Instr(f.v, 0, f.rs1, f.rs2, 0)}
      BY <2>2, <3>2, <3>3, ArmOf DEF Code
    <3>5. f.rd = 0
      BY <1>1, <2>2
    <3>6. Encode(Instr(f.v, 0, f.rs1, f.rs2, 0)) = w
      BY <1>3, <1>5, <3>1, <3>5, Layouts
    <3>7. QED
      BY <1>3, <1>4, <3>4, <3>6
  <2>3. CASE f.v \in Based
    <3>1. P = {Instr(f.v, f.rd, f.rs1, 0, f.imm)}
      BY <1>1, <1>2, <2>3, MemoryListing
    <3>2. Encode(Instr(f.v, f.rd, f.rs1, 0, f.imm)) = w
      BY <1>3, <1>5, <2>3, Layouts
    <3>3. QED
      BY <1>3, <1>4, <3>1, <3>2
  <2>4. CASE f.v \in Stores
    <3>1. P = {Instr(f.v, 0, f.rs1, f.rs2, f.imm)}
      BY <1>1, <1>2, <2>4, MemoryListing DEF Based, Stores
    <3>2. Encode(Instr(f.v, 0, f.rs1, f.rs2, f.imm)) = w
      BY <1>3, <1>5, <2>4, Layouts
    <3>3. QED
      BY <1>3, <1>4, <3>1, <3>2
  <2>5. CASE f.v \in Branches
    <3>1. P = {Instr(f.v, 0, f.rs1, f.rs2, f.imm)}
      BY <1>1, <1>2, <2>5, TransferListing DEF Branches
    <3>2. Encode(Instr(f.v, 0, f.rs1, f.rs2, f.imm)) = w
      BY <1>3, <1>5, <2>5, Layouts
    <3>3. QED
      BY <1>3, <1>4, <3>1, <3>2
  <2>6. CASE f.v \in {"JumpX", "CsrRead"}
    <3>1. P = {Instr(f.v, f.rd, 0, 0, f.imm)}
      BY <1>1, <1>2, <2>6, TransferListing DEF Branches, Csrs
    <3>2. Encode(Instr(f.v, f.rd, 0, 0, f.imm)) = w
      BY <1>3, <1>5, <2>6, Layouts
    <3>3. QED
      BY <1>3, <1>4, <3>1, <3>2
  <2>7. CASE f.v = "CsrWrite"
    <3>1. P = {Instr(f.v, 0, f.rs1, 0, f.imm)}
      BY <1>1, <1>2, <2>7, TransferListing DEF Branches, Csrs
    <3>2. Encode(Instr(f.v, 0, f.rs1, 0, f.imm)) = w
      BY <1>3, <1>5, <2>7, Layouts
    <3>3. QED
      BY <1>3, <1>4, <3>1, <3>2
  <2>8. CASE f.v \in Systems
    <3>1. Disassemble(w) = Code(IF f.v = "Ecall" THEN "ECALL" ELSE "EXRET", <<>>)
      BY <1>2, <2>8, PrintedOf DEF Printed, Reads, Systems
    <3>2. P = {Instr(f.v, 0, 0, 0, 0)}
      BY <2>8, <3>1, ArmOf DEF Code, Systems
    <3>3. Encode(Instr(f.v, 0, 0, 0, 0)) = w
      BY <1>3, <1>5, <2>8, Layouts DEF Systems
    <3>4. QED
      BY <1>3, <1>4, <3>2, <3>3
  <2>9. QED
    BY <1>3, <2>1, <2>2, <2>3, <2>4, <2>5, <2>6, <2>7, <2>8 DEF Variant, Csrs
<1>7. QED
  BY <1>1, <1>6

(* A listing is assembly of the same program, for every program.           *)
THEOREM ListingsReassemble == AsmSpec => []ListingReassembles
<1>1. AInv => ListingReassembles
  <2> SUFFICES ASSUME AInv, NEW k \in DOMAIN text, JustAssembled(k), text[k].mn # ".word"
               PROVE  {Encode(i) : i \in ParseLine(Disassemble(LastWord), labels, current_pc - 4)}
                        = {LastWord}
    BY DEF ListingReassembles
  <2>1. PICK i \in Instruction :
          /\ ParseLine(text[k], labels, current_pc - 4) = {i}
          /\ LastWord = Encode(i)
          /\ i.v = "VCmpGt" => i.rd = 0
    BY JustParsed
  <2>2. i.v # "Raw"
    BY <2>1, JustParsed, RawIsData
  <2>3. QED
    BY <2>1, <2>2, Reassembled
<1>2. QED
  BY <1>1, AsmInvariance, PTL
=============================================================================
