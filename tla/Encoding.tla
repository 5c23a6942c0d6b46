------------------------------- MODULE Encoding -------------------------------
(***************************************************************************)
(* Instruction words of 32 bits: how ax-asm packs an instruction, and the  *)
(* decoder that ax-emu and ax-disasm share.  An instruction is a record of *)
(* its variant v and the fields of all variants, 0 where it has none; imm  *)
(* is an immediate, an offset, the address of a CSR or a raw word.         *)
(***************************************************************************)
EXTENDS Integers

Reg == 0 .. 31

ScalarOps == {"Add", "Sub", "And", "Or", "Xor", "Shl", "Shr", "Sra"}
SlowOps   == {"Mul", "Div", "Slt", "Sltu"}
VectorOps == {"VAdd", "VMul", "VFma", "VPerm"}
MaskedOps == {"VAdd.M", "VMul.M", "VFma.M", "VPerm.M"}
OtherOps  == {"VCmpGt", "FAdd", "FMul"}
RegOps    == ScalarOps \cup SlowOps \cup VectorOps \cup MaskedOps \cup OtherOps

Based    == {"AddI", "LoadX", "VLoad"}    \* rd, rs1 and an immediate
Stores   == {"StoreX", "VStore"}          \* rs1, rs2 and an immediate
Branches == {"BEQ", "BNE", "BLT", "BGE", "BLTU", "BGEU"}
Csrs     == {"CsrRead", "CsrWrite"}
Systems  == {"Ecall", "Exret"}

Variant == RegOps \cup Based \cup Stores \cup Branches \cup Csrs \cup Systems \cup {"JumpX", "Raw"}

Instruction == [v : Variant, rd : Reg, rs1 : Reg, rs2 : Reg, imm : Int]

-----------------------------------------------------------------------------
(* Opcodes, and the funct of 9 bits that tells variants of one apart.      *)
ScalarCode(v) ==
  CASE v \in {"Add", "Sub"} -> 1 [] v = "And" -> 2 [] v = "Or" -> 3
    [] v = "Xor" -> 4 [] v = "Shl" -> 5 [] v \in {"Shr", "Sra"} -> 6

SlowCode(v) == CASE v = "Mul" -> 7 [] v = "Div" -> 8 [] v = "Slt" -> 10 [] v = "Sltu" -> 11

VectorCode(v) ==
  CASE v \in {"VAdd", "VAdd.M"} -> 98 [] v \in {"VMul", "VMul.M"} -> 99
    [] v \in {"VFma", "VFma.M"} -> 100 [] v \in {"VPerm", "VPerm.M"} -> 101

OtherCode(v) == CASE v = "VCmpGt" -> 84 [] v = "FAdd" -> 80 [] v = "FMul" -> 81

RegCode(v) ==
  CASE v \in ScalarOps -> ScalarCode(v) [] v \in SlowOps -> SlowCode(v)
    [] v \in VectorOps \cup MaskedOps -> VectorCode(v) [] v \in OtherOps -> OtherCode(v)

Funct(v) == CASE v \in {"Sub", "Sra"} -> 1 [] v \in MaskedOps -> 256 [] OTHER -> 0

BranchCode(v) ==
  CASE v = "BEQ" -> 64 [] v = "BNE" -> 70 [] v = "BLT" -> 71
    [] v = "BGE" -> 72 [] v = "BLTU" -> 73 [] v = "BGEU" -> 74

MemoryCode(v) ==
  CASE v = "LoadX" -> 33 [] v = "StoreX" -> 34 [] v = "AddI" -> 9
    [] v = "VLoad" -> 96 [] v = "VStore" -> 97

ImmCode(v) == IF v \in Branches THEN BranchCode(v) ELSE MemoryCode(v)

-----------------------------------------------------------------------------
(* The layouts.  A mask keeps the low bits of an immediate of any sign.    *)
PackR(op, a, b, c, f) == op * 16777216 + a * 524288 + b * 16384 + c * 512 + f
PackI(op, a, b, imm)  == op * 16777216 + a * 524288 + b * 16384 + (imm % 16384)
PackJ(op, a, imm)     == op * 16777216 + a * 524288 + (imm % 524288)
PackC(op, a, csr)     == op * 16777216 + a * 524288 + (csr % 4096) * 128

Encode(i) ==
  CASE i.v \in RegOps -> PackR(RegCode(i.v), i.rd, i.rs1, i.rs2, Funct(i.v))
    [] i.v \in Based  -> PackI(ImmCode(i.v), i.rd, i.rs1, i.imm)
    [] i.v \in Stores \cup Branches -> PackI(ImmCode(i.v), i.rs1, i.rs2, i.imm)
    [] i.v = "JumpX"    -> PackJ(65, i.rd, i.imm)
    [] i.v = "CsrRead"  -> PackC(66, i.rd, i.imm)
    [] i.v = "CsrWrite" -> PackC(67, i.rs1, i.imm)
    [] i.v = "Ecall"    -> PackR(68, 0, 0, 0, 0)
    [] i.v = "Exret"    -> PackR(69, 0, 0, 0, 0)
    [] i.v = "Raw"      -> i.imm

(* mutant: immediates are not sign-extended *)
Unextended(x, half) == x

SignExtend(x, half) == IF x < half THEN x ELSE x - 2 * half

(* decode: every field of every layout.                                    *)
Decode(w) ==
  [op    |-> w \div 16777216,
   rd    |-> (w \div 524288) % 32,
   rs1   |-> (w \div 16384) % 32,
   rs2   |-> (w \div 512) % 32,
   funct |-> w % 512,
   csr   |-> (w \div 128) % 4096,
   imm14 |-> SignExtend(w % 16384, 8192),
   imm19 |-> SignExtend(w % 524288, 262144)]

-----------------------------------------------------------------------------
Imm14(x) == -8192 <= x /\ x <= 8191
Imm19(x) == -262144 <= x /\ x <= 262143

(* An instruction whose immediate has room in its word.                    *)
Fits(i) ==
  /\ i.v \in Based \cup Stores \cup Branches => Imm14(i.imm)
  /\ i.v = "JumpX" => Imm19(i.imm)
  /\ i.v \in Csrs  => 0 <= i.imm /\ i.imm < 4096

(* What the decoder reads from a word d is what i says.                    *)
Reads(i, d) ==
  /\ i.v \in RegOps =>
       /\ d.op = RegCode(i.v) /\ d.funct = Funct(i.v)
       /\ d.rd = i.rd /\ d.rs1 = i.rs1 /\ d.rs2 = i.rs2
  /\ i.v \in Based =>
       d.op = ImmCode(i.v) /\ d.rd = i.rd /\ d.rs1 = i.rs1 /\ d.imm14 = i.imm
  /\ i.v \in Stores \cup Branches =>
       d.op = ImmCode(i.v) /\ d.rd = i.rs1 /\ d.rs1 = i.rs2 /\ d.imm14 = i.imm
  /\ i.v = "JumpX"    => d.op = 65 /\ d.rd = i.rd /\ d.imm19 = i.imm
  /\ i.v = "CsrRead"  => d.op = 66 /\ d.rd = i.rd /\ d.csr = i.imm
  /\ i.v = "CsrWrite" => d.op = 67 /\ d.rd = i.rs1 /\ d.csr = i.imm
  /\ i.v = "Ecall"    => d.op = 68
  /\ i.v = "Exret"    => d.op = 69
=============================================================================
