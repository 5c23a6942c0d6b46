-------------------------------- MODULE Emulator --------------------------------
(***************************************************************************)
(* The emulator ax-emu: privilege levels, traps and returns, single-level  *)
(* paging, scalar and vector accesses, and the main loop.  A step is one   *)
(* instruction, any one: it is fetched without translation from memory     *)
(* that programs may write.  General registers are left out, so operands   *)
(* are arbitrary.  Memory is in words of 8 bytes, code in words of 4; a    *)
(* word of memory is represented by what it says as a page table entry.    *)
(***************************************************************************)
EXTENDS Naturals

CONSTANTS
  CodeWords,      \* instruction addresses, after which the PC wraps
  BinaryWords,    \* those of the loaded binary
  PageWords,      \* words of a page, 512
  RamPages,       \* pages of RAM
  VirtPages,      \* virtual pages that programs address
  VecWords,       \* words of a vector register, 32
  Data,           \* the words that instructions compute
  CsrWrites,      \* the CSR writes that programs contain
  OverflowChecks, \* debug build: an addition that overflows panics
  TestMode        \* --test

PC      == 0 .. CodeWords - 1
Offset  == 0 .. PageWords - 1
Address == [page : Nat, off : Offset]
Ram     == [page : 0 .. RamPages - 1, off : Offset]
Virtual == [page : 0 .. VirtPages - 1, off : Offset]
Word    == [valid : BOOLEAN, writeable : BOOLEAN, ppn : Nat]
Level   == 0 .. 3
Cause   == {"none", "written", "illegal", "access", "alignment", "page", "privileged", "call"}
Mstatus == [mie : BOOLEAN, mpie : BOOLEAN, mpp : Level]

CsrWrite ==
  [reg : {"handler", "epc"}, val : PC] \cup [reg : {"mstatus"}, val : Mstatus]
    \cup [reg : {"mmu"}, val : BOOLEAN] \cup [reg : {"ptbase"}, val : Address]
    \cup [reg : {"vl"}, val : 0 .. VecWords] \cup [reg : {"status"}, val : 0 .. 2]
    \cup [reg : {"cause"}, val : {"written"}]

ASSUME EmulatorAssumption ==
  /\ {CodeWords, BinaryWords, PageWords, RamPages, VirtPages, VecWords} \subseteq Nat \ {0}
  /\ BinaryWords < CodeWords
  /\ Data \subseteq Word /\ Data # {} /\ CsrWrites \subseteq CsrWrite
  /\ OverflowChecks \in BOOLEAN /\ TestMode \in BOOLEAN

VARIABLES
  pc, pl,
  csr,     \* the CSRs that steer execution; mstatus field by field
  ram,
  vr,      \* a vector register
  halted   \* why the process has ended, if it has

vars == <<pc, pl, csr, ram, vr, halted>>

Halt == {"no", "done", "loop", "passed", "failed", "unhandled", "panic"}
Csr  == [handler : PC, epc : PC, cause : Cause, mie : BOOLEAN, mpie : BOOLEAN, mpp : Level,
         mmu : BOOLEAN, ptbase : Address, vl : 0 .. VecWords, status : 0 .. 2]

TypeOK ==
  /\ pc \in PC /\ pl \in Level /\ csr \in Csr
  /\ ram \in [Ram -> Word] /\ vr \in [0 .. VecWords - 1 -> Word]
  /\ halted \in Halt

-----------------------------------------------------------------------------
Succ(p) == IF p = CodeWords - 1 THEN 0 ELSE p + 1   \* the next PC, wrapping
Pred(p) == IF p = 0 THEN CodeWords - 1 ELSE p - 1   \* wrapping_sub(4)

(* The word n words behind address a.                                      *)
Plus(a, n) == [page |-> a.page + (a.off + n) \div PageWords, off |-> (a.off + n) % PageWords]

InRam(a) == a.page < RamPages

Pte(page) == Plus(csr.ptbase, page)   \* the address of a page's entry

(* mutant: the page may be written as soon as it is valid *)
AnyValid(page, write) ==
  IF ~InRam(Pte(page)) \/ ~ram[Pte(page)].valid THEN "page"
  ELSE IF ram[Pte(page)].ppn >= RamPages THEN "access" ELSE "none"

(* What is wrong with the translation of a page.                           *)
Fault(page, write) ==
  IF \/ ~InRam(Pte(page))
     \/ ~ram[Pte(page)].valid
     \/ write /\ ~ram[Pte(page)].writeable
    THEN "page"
  ELSE IF ram[Pte(page)].ppn >= RamPages THEN "access" ELSE "none"

(* translate: the error, and the address.  Levels are not looked at.       *)
TranslateFault(v, write) == IF csr.mmu THEN Fault(v.page, write) ELSE "none"
Translate(v) == IF csr.mmu THEN [page |-> ram[Pte(v.page)].ppn, off |-> v.off] ELSE v

(* The same for an element of a vector, where RAM's end is checked.        *)
ElementFault(v, write) ==
  IF TranslateFault(v, write) # "none" THEN TranslateFault(v, write)
  ELSE IF InRam(Translate(v)) THEN "none" ELSE "access"

(* mutant: page tables belong to everybody *)
MachineOnly(reg) == IF reg \in {"handler", "epc", "cause", "mstatus"} THEN 3 ELSE 0

RequiredPl(reg) ==
  CASE reg \in {"handler", "epc", "cause", "mstatus"} -> 3
    [] reg \in {"mmu", "ptbase"} -> 1
    [] OTHER -> 0

-----------------------------------------------------------------------------
(* Adding 4 to the PC p that an instruction has left.                      *)
Overflows(p) == OverflowChecks /\ p = CodeWords - 1

(* The main loop after an instruction that left the PC at p.  (The process *)
(* is gone after a panic; pc' is then what a release build would have.)    *)
Finish(p) ==
  /\ pc' = Succ(p)
  /\ halted' =
       IF Overflows(p) THEN "panic"
       ELSE CASE TestMode /\ csr'.status = 1 -> "passed"
              [] TestMode /\ csr'.status = 2 -> "failed"
              [] TestMode => csr'.status = 0 ->
                   IF pc' # pc THEN "no" ELSE IF TestMode THEN "failed" ELSE "loop"

(* enter_trap, with the PC that is saved in the end.                       *)
EnterTrap(cause, epc) ==
  /\ UNCHANGED <<ram, vr>>
  /\ IF csr.handler # 0
       THEN /\ csr' = [csr EXCEPT !.epc = epc, !.cause = cause, !.mpie = csr.mie,
                                  !.mie = FALSE, !.mpp = pl]
            /\ pl' = 3
            /\ Finish(Pred(csr.handler))
       ELSE halted' = "unhandled" /\ UNCHANGED <<pc, pl, csr>>

(* Registers, arithmetic, branches that are not taken, unknown opcodes.    *)
Compute == UNCHANGED <<pl, csr, ram, vr>> /\ Finish(pc)

Jump == \E target \in PC : UNCHANGED <<pl, csr, ram, vr>> /\ Finish(Pred(target))

Illegal == EnterTrap("illegal", pc)

Misaligned == EnterTrap("alignment", pc)

(* Without translation, RAM reads as 0 and ignores stores behind its end.  *)
Load ==
  \E v \in Virtual :
    IF TranslateFault(v, FALSE) # "none"
      THEN EnterTrap(TranslateFault(v, FALSE), pc)
      ELSE UNCHANGED <<pl, csr, ram, vr>> /\ Finish(pc)

Store ==
  \E v \in Virtual, w \in Data :
    IF TranslateFault(v, TRUE) # "none"
      THEN EnterTrap(TranslateFault(v, TRUE), pc)
      ELSE /\ ram' = IF InRam(Translate(v)) THEN [ram EXCEPT ![Translate(v)] = w] ELSE ram
           /\ UNCHANGED <<pl, csr, vr>> /\ Finish(pc)

Elements == 0 .. csr.vl - 1

(* Elements that fault; the first of them decides.                         *)
Faults(v, write) == {i \in Elements : ElementFault(Plus(v, i), write) # "none"}
First(S) == CHOOSE i \in S : \A j \in S : i <= j

(* The start of a vector within the addresses in use.                      *)
VectorBase == {v \in Virtual : \A i \in Elements : Plus(v, i) \in Virtual}

VLoad ==
  \E v \in VectorBase :
    IF Faults(v, FALSE) # {}
      THEN EnterTrap(ElementFault(Plus(v, First(Faults(v, FALSE))), FALSE), pc)
      ELSE /\ vr' = [i \in DOMAIN vr |->
                       IF i \in Elements THEN ram[Translate(Plus(v, i))] ELSE vr[i]]
           /\ UNCHANGED <<pl, csr, ram>> /\ Finish(pc)

(* Elements S are stored in order: the last one that lands on a stays.     *)
StoredAt(v, S, a) == {i \in S : Translate(Plus(v, i)) = a}
Last(S) == CHOOSE i \in S : \A j \in S : j <= i

Stored(v, S) ==
  [a \in Ram |-> IF StoredAt(v, S, a) # {} THEN vr[Last(StoredAt(v, S, a))] ELSE ram[a]]

(* mutant: elements before the fault are stored *)
EagerVStore ==
  \E v \in VectorBase :
    /\ ram' = Stored(v, {i \in Elements : \A j \in Faults(v, TRUE) : i < j})
    /\ IF Faults(v, TRUE) # {} /\ csr.handler # 0
         THEN /\ csr' = [csr EXCEPT !.epc = pc, !.mpp = pl]
              /\ pl' = 3 /\ Finish(Pred(csr.handler)) /\ UNCHANGED vr
         ELSE UNCHANGED <<pl, csr, vr>> /\ Finish(pc)

VStore ==
  \E v \in VectorBase :
    IF Faults(v, TRUE) # {}
      THEN EnterTrap(ElementFault(Plus(v, First(Faults(v, TRUE))), TRUE), pc)
      ELSE /\ ram' = Stored(v, Elements)
           /\ UNCHANGED <<pl, csr, vr>> /\ Finish(pc)

(* VADD, VMUL, VFMA, VPERM: any results, in any of the elements.           *)
VectorOp ==
  \E mask \in SUBSET Elements : \E result \in [mask -> Data] :
    /\ vr' = [i \in DOMAIN vr |-> IF i \in mask THEN result[i] ELSE vr[i]]
    /\ UNCHANGED <<pl, csr, ram>> /\ Finish(pc)

CsrRead ==
  \E w \in CsrWrites :
    IF pl < RequiredPl(w.reg)
      THEN EnterTrap("privileged", pc)
      ELSE UNCHANGED <<pl, csr, ram, vr>> /\ Finish(pc)

Written(w) ==
  CASE w.reg = "handler" -> [csr EXCEPT !.handler = w.val]
    [] w.reg = "epc"     -> [csr EXCEPT !.epc = w.val]
    [] w.reg = "cause"   -> [csr EXCEPT !.cause = w.val]
    [] w.reg = "mmu"     -> [csr EXCEPT !.mmu = w.val]
    [] w.reg = "ptbase"  -> [csr EXCEPT !.ptbase = w.val]
    [] w.reg = "vl"      -> [csr EXCEPT !.vl = w.val]
    [] w.reg = "status"  -> [csr EXCEPT !.status = w.val]
    [] w.reg = "mstatus" ->
         [csr EXCEPT !.mie = w.val.mie, !.mpie = w.val.mpie, !.mpp = w.val.mpp]

WriteCsr ==
  \E w \in CsrWrites :
    IF pl < RequiredPl(w.reg)
      THEN EnterTrap("privileged", pc)
      ELSE csr' = Written(w) /\ Finish(pc) /\ UNCHANGED <<pl, ram, vr>>

Ecall == EnterTrap("call", Succ(pc))

(* mutant: any level may return *)
UncheckedExret ==
  /\ pl' = csr.mpp
  /\ csr' = [csr EXCEPT !.mpp = 0, !.mie = csr.mpie, !.mpie = TRUE]
  /\ Finish(Pred(csr.epc)) /\ UNCHANGED <<ram, vr>>

Exret ==
  IF pl < 3
    THEN EnterTrap("privileged", pc)
    ELSE /\ pl' = csr.mpp
         /\ csr' = [csr EXCEPT !.mpp = 0, !.mie = csr.mpie, !.mpie = TRUE]
         /\ Finish(Pred(csr.epc)) /\ UNCHANGED <<ram, vr>>

-----------------------------------------------------------------------------
(* RAM holds the binary, and code is any: so the words of RAM are any too. *)
Init ==
  /\ pc = 0 /\ pl = 3
  /\ csr = [handler |-> 0, epc |-> 0, cause |-> "none", mie |-> FALSE, mpie |-> FALSE,
            mpp |-> 0, mmu |-> FALSE, ptbase |-> [page |-> 0, off |-> 0], vl |-> 0, status |-> 0]
  /\ ram \in [Ram -> Data]
  /\ vr = [i \in 0 .. VecWords - 1 |-> [valid |-> FALSE, writeable |-> FALSE, ppn |-> 0]]
  /\ halted = "no"

Execute ==
  /\ halted = "no" /\ pc < BinaryWords
  /\ \/ Compute \/ Jump \/ Illegal \/ Misaligned
     \/ Load \/ Store \/ VLoad \/ VStore \/ VectorOp
     \/ CsrRead \/ WriteCsr \/ Ecall \/ Exret

Done ==
  /\ halted = "no" /\ pc >= BinaryWords
  /\ halted' = "done" /\ UNCHANGED <<pc, pl, csr, ram, vr>>

Next == Execute \/ Done

Spec == Init /\ [][Next]_vars

-----------------------------------------------------------------------------
(* Page p of the program is in RAM page f and may be written.              *)
MapsWriteable(p, f) ==
  /\ InRam(Pte(p)) /\ ram[Pte(p)].valid /\ ram[Pte(p)].writeable
  /\ ram[Pte(p)].ppn = f

(* With translation on, no instruction of any level changes a page of RAM  *)
(* that the table does not map as writeable: the pages that one vector     *)
(* store runs through are each looked up.                                  *)
Confined ==
  [][csr.mmu => \A a \in Ram : ram'[a] # ram[a] =>
                  \E p \in 0 .. VirtPages - 1 : MapsWriteable(p, a.page)]_vars

TablePages == {Pte(p).page : p \in 0 .. VirtPages - 1}

TableProtected ==
  \A p \in 0 .. VirtPages - 1, f \in TablePages : ~MapsWriteable(p, f)

(* The entry of each page, none behind RAM.                                *)
Mapping == [p \in 0 .. VirtPages - 1 |-> IF InRam(Pte(p)) THEN {ram[Pte(p)]} ELSE {}]

(* A program at level 0 under a page table that does not map itself as     *)
(* writeable never changes its own translation, whatever it executes.      *)
UserKeepsMapping ==
  [][pl = 0 /\ csr.mmu /\ TableProtected => csr'.mmu /\ Mapping' = Mapping]_vars

(* An instruction that changes memory or a vector register is complete: it *)
(* has not trapped, so a trap leaves nothing half done to be done again.   *)
EffectOrTrap ==
  [][<<ram, vr>>' # <<ram, vr>> => pc' = Succ(pc) /\ UNCHANGED <<pl, csr>>]_vars

(* Levels and traps work as TrapMachine promises to software.              *)
TM == INSTANCE TrapMachine
        WITH mode <- pl, handler <- csr.handler, enabled <- csr.mie, NextPc <- Succ,
             saved <- [pc |-> csr.epc, mode |-> csr.mpp, enabled |-> csr.mpie]

PrivilegeLevels == TM!Spec
=============================================================================
