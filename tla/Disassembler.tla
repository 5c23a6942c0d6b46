---------------------------- MODULE Disassembler ----------------------------
(***************************************************************************)
(* ax-disasm: the line of assembly that it prints for a word.  (It leaves  *)
(* out a displacement of zero, which reads the same.)                      *)
(***************************************************************************)
EXTENDS Assembler

(* Register fields in the order in which an instruction is written.        *)
ThreeFields(mn, d) == Code(mn, <<R(d.rd), R(d.rs1), R(d.rs2)>>)
Compared(mn, d)    == Code(mn, <<R(d.rd), R(d.rs1), I(d.imm14)>>)

LoadFields(mn, d) == Code(mn, <<R(d.rd), M(d.rs1, d.imm14)>>)

(* Base and data of a store are not where those of a load are.             *)
StoreFields(mn, d) == Code(mn, <<R(d.rs1), M(d.rd, d.imm14)>>)

Masked(mn, masked, d) == ThreeFields(IF (d.funct \div 256) % 2 = 1 THEN masked ELSE mn, d)

Disassemble(w) ==
  LET d == Decode(w) IN
  CASE d.op = 1 /\ d.funct = 0 -> ThreeFields("ADD.X", d)
    [] d.op = 1 /\ d.funct = 1 -> ThreeFields("SUB.X", d)
    [] d.op = 1 /\ d.funct > 1 -> ThreeFields("UNKNOWN.01", d)
    [] d.op = 2  -> ThreeFields("AND", d)
    [] d.op = 3  -> ThreeFields("OR", d)
    [] d.op = 4  -> ThreeFields("XOR", d)
    [] d.op = 5  -> ThreeFields("SHL", d)
    [] d.op = 6  -> ThreeFields(IF d.funct = 1 THEN "SRA" ELSE "SHR", d)
    [] d.op = 7  -> ThreeFields("MUL.X", d)
    [] d.op = 8  -> ThreeFields("DIV.X", d)
    [] d.op = 9  -> Compared("ADDI", d)
    [] d.op = 10 -> ThreeFields("SLT", d)
    [] d.op = 11 -> ThreeFields("SLTU", d)
    [] d.op = 33 -> LoadFields("LOAD.X", d)
    [] d.op = 34 -> StoreFields("STORE.X", d)
    [] d.op = 64 -> Compared("BEQ", d)
    [] d.op = 70 -> Compared("BNE", d)
    [] d.op = 71 -> Compared("BLT", d)
    [] d.op = 72 -> Compared("BGE", d)
    [] d.op = 73 -> Compared("BLTU", d)
    [] d.op = 74 -> Compared("BGEU", d)
    [] d.op = 65 -> Code("JUMP.X", <<R(d.rd), I(d.imm19)>>)
    [] d.op = 66 -> Code("CSR.READ", <<R(d.rd), I(d.csr)>>)
    [] d.op = 67 -> Code("CSR.WRITE", <<R(d.rd), I(d.csr)>>)
    [] d.op = 68 -> Code("ECALL", <<>>)
    [] d.op = 69 -> Code("EXRET", <<>>)
    [] d.op = 80 -> ThreeFields("FADD.X", d)
    [] d.op = 81 -> ThreeFields("FMUL.X", d)
    [] d.op = 84 -> Code("VCMP.GT", <<R(d.rs1), R(d.rs2)>>)
    [] d.op = 96 -> LoadFields("VLOAD", d)
    [] d.op = 97 -> StoreFields("VSTORE", d)
    [] d.op = 98 -> Masked("VADD", "VADD.M", d)
    [] d.op = 99 -> Masked("VMUL", "VMUL.M", d)
    [] d.op = 100 -> Masked("VFMA", "VFMA.M", d)
    [] d.op = 101 -> Masked("VPERM", "VPERM.M", d)
    [] OTHER -> Code(".WORD", <<I(w)>>)

(* The listing is assembly of the same program: what the disassembler      *)
(* prints for the word of an instruction assembles to that word again,     *)
(* aliases, defaults, both orders of operands and masked forms included.   *)
(* (Raw data need not: the directive is printed in upper case.)            *)
ListingReassembles ==
  \A k \in DOMAIN text :
    JustAssembled(k) /\ text[k].mn # ".word" =>
      {Encode(i) : i \in ParseLine(Disassemble(LastWord), labels, current_pc - 4)} = {LastWord}
=============================================================================
