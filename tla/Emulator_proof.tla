----------------------------- MODULE Emulator_proof -----------------------------
(***************************************************************************)
(* Proofs about Emulator, for any memory, page size, program and table:    *)
(* types, that it implements TrapMachine, and what translation protects.   *)
(***************************************************************************)
EXTENDS Emulator, TLAPS, WellFoundedInduction

(* What an instruction comes to.                                           *)
Quiet == \E p \in PC : UNCHANGED <<pl, csr, ram, vr>> /\ Finish(p)

Trapping == \E cause \in Cause, epc \in {pc, Succ(pc)} : EnterTrap(cause, epc)

Storing ==
  \E v \in Virtual, w \in Data :
    /\ TranslateFault(v, TRUE) = "none"
    /\ ram' = IF InRam(Translate(v)) THEN [ram EXCEPT ![Translate(v)] = w] ELSE ram
    /\ UNCHANGED <<pl, csr, vr>> /\ Finish(pc)

VLoading ==
  \E v \in VectorBase :
    /\ Faults(v, FALSE) = {}
    /\ vr' = [i \in DOMAIN vr |-> IF i \in Elements THEN ram[Translate(Plus(v, i))] ELSE vr[i]]
    /\ UNCHANGED <<pl, csr, ram>> /\ Finish(pc)

VStoring ==
  \E v \in VectorBase :
    /\ Faults(v, TRUE) = {}
    /\ ram' = Stored(v, Elements)
    /\ UNCHANGED <<pl, csr, vr>> /\ Finish(pc)

Writing ==
  \E w \in CsrWrites :
    ~(pl < RequiredPl(w.reg)) /\ csr' = Written(w) /\ Finish(pc) /\ UNCHANGED <<pl, ram, vr>>

Returning ==
  /\ ~(pl < 3)
  /\ pl' = csr.mpp
  /\ csr' = [csr EXCEPT !.mpp = 0, !.mie = csr.mpie, !.mpie = TRUE]
  /\ Finish(Pred(csr.epc)) /\ UNCHANGED <<ram, vr>>

-----------------------------------------------------------------------------
LEMMA Wrap == \A p \in PC : Succ(p) \in PC /\ Pred(p) \in PC /\ Succ(Pred(p)) = p
BY EmulatorAssumption DEF PC, Succ, Pred

LEMMA FaultCauses ==
  ASSUME NEW v, NEW write
  PROVE  /\ TranslateFault(v, write) \in Cause
         /\ ElementFault(v, write) \in Cause
BY DEF TranslateFault, ElementFault, Fault, Cause

LEMMA Shape ==
  ASSUME TypeOK, Execute
  PROVE  \/ Quiet \/ Trapping \/ Storing \/ VLoading \/ VStoring \/ VectorOp
         \/ Writing \/ Returning
<1> USE DEF Quiet, Trapping
<1>0. pc \in PC /\ Succ(pc) \in PC /\ \A p \in PC : Pred(p) \in PC
  BY Wrap DEF TypeOK
<1>1. CASE Compute
  BY <1>0, <1>1 DEF Compute
<1>2. CASE Jump
  BY <1>0, <1>2 DEF Jump
<1>3. CASE Illegal \/ Misaligned \/ Ecall
  BY <1>3 DEF Illegal, Misaligned, Ecall, Cause
<1>4. CASE Load
  BY <1>0, <1>4, FaultCauses DEF Load
<1>5. CASE Store
  BY <1>5, FaultCauses DEF Store, Storing
<1>6. CASE VLoad
  BY <1>6, FaultCauses DEF VLoad, VLoading
<1>7. CASE VStore
  BY <1>7, FaultCauses DEF VStore, VStoring
<1>8. CASE CsrRead
  BY <1>0, <1>8 DEF CsrRead, Cause
<1>9. CASE WriteCsr
  BY <1>9 DEF WriteCsr, Writing, Cause
<1>10. CASE Exret
  BY <1>10 DEF Exret, Returning, Cause
<1> QED
  BY <1>1, <1>2, <1>3, <1>4, <1>5, <1>6, <1>7, <1>8, <1>9, <1>10 DEF Execute

-----------------------------------------------------------------------------
(* The last element of a nonempty set exists.                              *)
LEMMA LastIn ==
  ASSUME NEW n \in Nat, NEW S \in SUBSET (0 .. n), S # {}
  PROVE  Last(S) \in S
<1> DEFINE T == {n - i : i \in S}
           R == {ss \in Nat \X Nat : ss[1] < ss[2]}
<1>1. T \subseteq Nat
  OBVIOUS
<1>2. T # {}
  OBVIOUS
<1>3. R = OpToRel(<, Nat)
  BY Zenon DEF OpToRel
<1>4. PICK t \in T : \A y \in T : ~(<<y, t>> \in R)
  <2>1. IsWellFoundedOn(R, Nat)
    BY <1>3, NatLessThanWellFounded, Zenon
  <2> HIDE DEF R, T
  <2> QED
    BY <1>1, <1>2, <2>1, WFMin, Zenon
<1>5. \A y \in T : t <= y
  <2>1. \A a, b \in Nat : a < b => <<a, b>> \in R
    OBVIOUS
  <2> HIDE DEF R, T
  <2>2. \A y \in T : ~(y < t)
    BY <1>1, <1>4, <2>1
  <2> QED
    BY <1>1, <2>2
<1>6. PICK i \in S : t = n - i
  BY <1>4
<1>7. \A j \in S : j <= i
  BY <1>5, <1>6
<1> QED
  BY <1>6, <1>7 DEF Last

LEMMA PlusFacts ==
  ASSUME NEW a \in Address, NEW n \in Nat
  PROVE  Plus(a, n) \in Address
<1>1. PageWords \in Nat \ {0}
  BY EmulatorAssumption
<1>2. a.page \in Nat /\ a.off + n \in Nat
  BY <1>1 DEF Address, Offset
<1>3. ASSUME NEW s \in Nat
      PROVE  s \div PageWords \in Nat /\ s % PageWords \in 0 .. PageWords - 1
  BY <1>1
<1> QED
  BY <1>2, <1>3 DEF Plus, Address, Offset

LEMMA InRamFacts ==
  ASSUME NEW a \in Address, InRam(a)
  PROVE  a \in Ram
BY EmulatorAssumption DEF InRam, Address, Ram

LEMMA VirtualFacts == Virtual \subseteq Address
BY EmulatorAssumption DEF Virtual, Address

(* A translation without a fault is an address; behind ElementFault it is  *)
(* in RAM.                                                                 *)
LEMMA Translates ==
  ASSUME TypeOK, NEW v \in Address, NEW write, TranslateFault(v, write) = "none"
  PROVE  Translate(v) \in Address
<1>1. CASE csr.mmu
  <2>1. Pte(v.page) \in Address
    BY PlusFacts DEF TypeOK, Csr, Address, Pte
  <2>2. InRam(Pte(v.page))
    BY <1>1 DEF TranslateFault, Fault
  <2>3. ram[Pte(v.page)].ppn \in Nat
    BY <2>1, <2>2, InRamFacts DEF TypeOK, Word
  <2> QED
    BY <1>1, <2>3 DEF Translate, Address
<1>2. CASE ~csr.mmu
  BY <1>2 DEF Translate
<1> QED
  BY <1>1, <1>2

LEMMA ElementInRam ==
  ASSUME TypeOK, NEW v \in Address, NEW write, ElementFault(v, write) = "none"
  PROVE  TranslateFault(v, write) = "none" /\ Translate(v) \in Ram
<1>1. TranslateFault(v, write) = "none"
  BY DEF ElementFault
<1>2. InRam(Translate(v))
  BY <1>1 DEF ElementFault
<1> QED
  BY <1>1, <1>2, Translates, InRamFacts

LEMMA ElementsOk ==
  ASSUME TypeOK
  PROVE  Elements \subseteq 0 .. VecWords - 1
BY EmulatorAssumption DEF TypeOK, Csr, Elements

-----------------------------------------------------------------------------
LEMMA FinishFacts ==
  ASSUME NEW p \in PC, Finish(p), csr'.status \in 0 .. 2
  PROVE  pc' = Succ(p) /\ pc' \in PC /\ halted' \in Halt
<1>1. pc' = Succ(p) /\ pc' \in PC
  BY Wrap DEF Finish
<1>2. TestMode \in BOOLEAN /\ OverflowChecks \in BOOLEAN
  BY EmulatorAssumption
<1>3. CASE Overflows(p)
  BY <1>1, <1>3 DEF Finish, Halt
<1>4. CASE ~Overflows(p) /\ TestMode /\ csr'.status = 1
  BY <1>1, <1>4 DEF Finish, Halt
<1>5. CASE ~Overflows(p) /\ TestMode /\ csr'.status = 2
  BY <1>1, <1>5 DEF Finish, Halt
<1>6. CASE ~Overflows(p) /\ (TestMode => csr'.status = 0)
  BY <1>1, <1>6 DEF Finish, Halt
<1> QED
  BY <1>2, <1>3, <1>4, <1>5, <1>6

(* Types are kept when the CSRs, RAM and the vector register have theirs   *)
(* and the main loop goes on.                                              *)
LEMMA Kept ==
  ASSUME NEW p \in PC, Finish(p), pl' \in Level, csr' \in Csr,
         ram' \in [Ram -> Word], vr' \in [0 .. VecWords - 1 -> Word]
  PROVE  TypeOK'
<1>1. csr'.status \in 0 .. 2
  BY DEF Csr
<1> QED
  BY <1>1, FinishFacts DEF TypeOK

LEMMA TrapFacts ==
  ASSUME TypeOK, NEW cause \in Cause, NEW epc \in PC, EnterTrap(cause, epc)
  PROVE  TypeOK'
<1>1. CASE csr.handler # 0
  <2>1. csr' \in Csr /\ pl' \in Level
    <3>1. csr \in Csr /\ pl \in Level /\ 3 \in Level
      BY DEF TypeOK, Level
    <3>2. /\ csr' = [csr EXCEPT !.epc = epc, !.cause = cause, !.mpie = csr.mie,
                               !.mie = FALSE, !.mpp = pl]
          /\ pl' = 3
      BY <1>1, Zenon DEF EnterTrap
    <3>3. csr.mie \in BOOLEAN
      BY <3>1 DEF Csr
    <3> QED
      BY <3>1, <3>2, <3>3 DEF Csr
  <2>2. Pred(csr.handler) \in PC /\ Finish(Pred(csr.handler))
    BY <1>1, Wrap DEF EnterTrap, TypeOK, Csr
  <2>3. ram' \in [Ram -> Word] /\ vr' \in [0 .. VecWords - 1 -> Word]
    BY DEF EnterTrap, TypeOK
  <2> QED
    BY <2>1, <2>2, <2>3, Kept
<1>2. CASE ~(csr.handler # 0)
  BY <1>2 DEF EnterTrap, TypeOK, Halt
<1> QED
  BY <1>1, <1>2

LEMMA WrittenFacts ==
  ASSUME TypeOK, NEW w \in CsrWrites
  PROVE  Written(w) \in Csr
<1>1. w \in CsrWrite /\ csr \in Csr
  BY EmulatorAssumption DEF TypeOK
<1>2. CASE w.reg \in {"handler", "epc"}
  BY <1>1, <1>2 DEF Written, CsrWrite, Csr
<1>3. CASE w.reg = "cause"
  BY <1>1, <1>3 DEF Written, CsrWrite, Csr, Cause
<1>4. CASE w.reg \in {"mmu", "ptbase"}
  BY <1>1, <1>4 DEF Written, CsrWrite, Csr
<1>5. CASE w.reg \in {"vl", "status"}
  BY <1>1, <1>5 DEF Written, CsrWrite, Csr
<1>6. CASE w.reg = "mstatus"
  <2>1. w.val \in Mstatus
    BY <1>1, <1>6 DEF CsrWrite
  <2> QED
    BY <1>1, <1>6, <2>1 DEF Written, Mstatus, Csr
<1> QED
  BY <1>1, <1>2, <1>3, <1>4, <1>5, <1>6 DEF CsrWrite

-----------------------------------------------------------------------------
LEMMA InitTypeOK == Init => TypeOK
<1> SUFFICES ASSUME Init PROVE TypeOK
  OBVIOUS
<1>1. pc \in PC /\ pl \in Level /\ halted \in Halt
  BY EmulatorAssumption DEF Init, PC, Level, Halt
<1>2. csr \in Csr
  <2>1. 0 \in PC /\ [page |-> 0, off |-> 0] \in Address /\ 0 \in 0 .. VecWords
    BY EmulatorAssumption DEF PC, Address, Offset
  <2>2. "none" \in Cause /\ 0 \in Level
    BY DEF Cause, Level
  <2> QED
    BY <2>1, <2>2 DEF Init, Csr
<1>3. ram \in [Ram -> Word]
  BY EmulatorAssumption DEF Init
<1>4. vr \in [0 .. VecWords - 1 -> Word]
  BY DEF Init, Word
<1> QED
  BY <1>1, <1>2, <1>3, <1>4 DEF TypeOK

LEMMA NextTypeOK ==
  ASSUME TypeOK, [Next]_vars
  PROVE  TypeOK'
<1>0. pc \in PC /\ pl \in Level /\ csr \in Csr /\ ram \in [Ram -> Word]
        /\ vr \in [0 .. VecWords - 1 -> Word] /\ Data \subseteq Word
  BY EmulatorAssumption DEF TypeOK
<1>1. CASE Quiet
  BY <1>0, <1>1, Kept DEF Quiet
<1>2. CASE Trapping
  <2>1. Succ(pc) \in PC
    BY <1>0, Wrap
  <2> QED
    BY <1>0, <1>2, <2>1, TrapFacts DEF Trapping
<1>3. CASE Storing
  <2>1. ram' \in [Ram -> Word]
    BY <1>0, <1>3 DEF Storing
  <2> QED
    BY <1>0, <1>3, <2>1, Kept DEF Storing
<1>4. CASE VLoading
  <2>1. PICK v \in VectorBase :
          /\ Faults(v, FALSE) = {}
          /\ vr' = [i \in DOMAIN vr |->
                     IF i \in Elements THEN ram[Translate(Plus(v, i))] ELSE vr[i]]
          /\ UNCHANGED <<pl, csr, ram>> /\ Finish(pc)
    BY <1>4 DEF VLoading
  <2>2. ASSUME NEW i \in Elements
        PROVE  ram[Translate(Plus(v, i))] \in Word
    <3>1. Plus(v, i) \in Address
      BY VirtualFacts DEF VectorBase
    <3>2. ElementFault(Plus(v, i), FALSE) = "none"
      BY <2>1 DEF Faults
    <3> QED
      BY <1>0, <3>1, <3>2, ElementInRam
  <2>3. vr' \in [0 .. VecWords - 1 -> Word]
    BY <1>0, <2>1, <2>2
  <2> QED
    BY <1>0, <2>1, <2>3, Kept
<1>5. CASE VStoring
  <2>1. PICK v \in VectorBase :
          /\ ram' = Stored(v, Elements)
          /\ UNCHANGED <<pl, csr, vr>> /\ Finish(pc)
    BY <1>5 DEF VStoring
  <2>2. ASSUME NEW a \in Ram, StoredAt(v, Elements, a) # {}
        PROVE  vr[Last(StoredAt(v, Elements, a))] \in Word
    <3>1. StoredAt(v, Elements, a) \subseteq 0 .. VecWords - 1 /\ VecWords - 1 \in Nat
      BY ElementsOk, EmulatorAssumption DEF StoredAt
    <3>2. Last(StoredAt(v, Elements, a)) \in 0 .. VecWords - 1
      BY <2>2, <3>1, LastIn
    <3> QED
      BY <1>0, <3>2
  <2>3. ram' \in [Ram -> Word]
    BY <1>0, <2>1, <2>2 DEF Stored
  <2> QED
    BY <1>0, <2>1, <2>3, Kept
<1>6. CASE VectorOp
  <2>1. PICK mask \in SUBSET Elements : \E result \in [mask -> Data] :
          /\ vr' = [i \in DOMAIN vr |-> IF i \in mask THEN result[i] ELSE vr[i]]
          /\ UNCHANGED <<pl, csr, ram>> /\ Finish(pc)
    BY <1>6 DEF VectorOp
  <2>2. vr' \in [0 .. VecWords - 1 -> Word]
    BY <1>0, <2>1
  <2> QED
    BY <1>0, <2>1, <2>2, Kept
<1>7. CASE Writing
  <2>1. csr' \in Csr
    BY <1>7, WrittenFacts DEF Writing
  <2> QED
    BY <1>0, <1>7, <2>1, Kept DEF Writing
<1>8. CASE Returning
  <2>1. csr.mpp \in Level /\ csr.mpie \in BOOLEAN /\ 0 \in Level /\ Pred(csr.epc) \in PC
    BY <1>0, Wrap DEF Csr, Level
  <2>2. csr' \in Csr /\ pl' \in Level
    BY <1>0, <1>8, <2>1 DEF Returning, Csr
  <2> QED
    BY <1>0, <1>8, <2>1, <2>2, Kept DEF Returning
<1>9. CASE Done
  BY <1>0, <1>9 DEF Done, TypeOK, Halt
<1>10. CASE UNCHANGED vars
  BY <1>10 DEF vars, TypeOK
<1> QED
  BY <1>1, <1>2, <1>3, <1>4, <1>5, <1>6, <1>7, <1>8, <1>9, <1>10, Shape DEF Next

(* The emulator's state stays in the types the code gives it: the PC and   *)
(* the saved PC are in range, a level is one of four, no access leaves     *)
(* memory (executor.rs, cpu.rs, memory.rs).                                *)
THEOREM TypeCorrect == Spec => []TypeOK
<1>1. Init => TypeOK
  BY InitTypeOK
<1>2. TypeOK /\ [Next]_vars => TypeOK'
  BY NextTypeOK
<1> QED
  BY <1>1, <1>2, PTL DEF Spec

-----------------------------------------------------------------------------
LEMMA EffectStep ==
  ASSUME TypeOK, [Next]_vars, <<ram, vr>>' # <<ram, vr>>
  PROVE  pc' = Succ(pc) /\ UNCHANGED <<pl, csr>>
<1>1. ~(UNCHANGED vars) /\ ~Done /\ ~Quiet /\ ~Trapping /\ ~Writing /\ ~Returning
  BY DEF vars, Done, Quiet, Trapping, EnterTrap, Writing, Returning
<1>2. Storing \/ VLoading \/ VStoring \/ VectorOp
  BY <1>1, Shape DEF Next
<1>3. UNCHANGED <<pl, csr>> /\ Finish(pc)
  BY <1>2 DEF Storing, VLoading, VStoring, VectorOp
<1> QED
  BY <1>3 DEF Finish

(* A vector access or store that traps has changed nothing: what changes   *)
(* memory or a vector register goes on to the next instruction             *)
(* (executor.rs:315-387).                                                  *)
THEOREM EffectCorrect == Spec => EffectOrTrap
<1>1. TypeOK /\ [Next]_vars
        => [<<ram, vr>>' # <<ram, vr>> => pc' = Succ(pc) /\ UNCHANGED <<pl, csr>>]_vars
  BY EffectStep
<1> QED
  BY <1>1, TypeCorrect, PTL DEF Spec, EffectOrTrap

LEMMA ConfinedStep ==
  ASSUME TypeOK, [Next]_vars, csr.mmu, NEW a \in Ram, ram'[a] # ram[a]
  PROVE  \E p \in 0 .. VirtPages - 1 : MapsWriteable(p, a.page)
<1>0. ram' # ram
  OBVIOUS
<1>1. ~(UNCHANGED vars) /\ ~Done /\ ~Quiet /\ ~Trapping /\ ~Writing /\ ~Returning
        /\ ~VLoading /\ ~VectorOp
  BY <1>0 DEF vars, Done, Quiet, Trapping, EnterTrap, Writing, Returning, VLoading, VectorOp
<1>2. ASSUME NEW v \in Virtual, TranslateFault(v, TRUE) = "none", a = Translate(v)
      PROVE  v.page \in 0 .. VirtPages - 1 /\ MapsWriteable(v.page, a.page)
  <2>1. Fault(v.page, TRUE) = "none" /\ a.page = ram[Pte(v.page)].ppn
    BY <1>2 DEF TranslateFault, Translate
  <2> QED
    BY <2>1 DEF Fault, MapsWriteable, Virtual
<1>3. CASE Storing
  <2>1. PICK v \in Virtual, w \in Data :
          /\ TranslateFault(v, TRUE) = "none"
          /\ ram' = IF InRam(Translate(v)) THEN [ram EXCEPT ![Translate(v)] = w] ELSE ram
    BY <1>3 DEF Storing
  <2>2. a = Translate(v)
    BY <2>1 DEF TypeOK
  <2> QED
    BY <1>2, <2>1, <2>2
<1>4. CASE VStoring
  <2>1. PICK v \in VectorBase : Faults(v, TRUE) = {} /\ ram' = Stored(v, Elements)
    BY <1>4 DEF VStoring
  <2>2. PICK i \in Elements : Translate(Plus(v, i)) = a
    BY <2>1 DEF Stored, StoredAt
  <2>3. Plus(v, i) \in Virtual /\ ElementFault(Plus(v, i), TRUE) = "none"
    BY <2>1 DEF VectorBase, Faults
  <2>4. TranslateFault(Plus(v, i), TRUE) = "none"
    BY <2>3 DEF ElementFault
  <2> QED
    BY <1>2, <2>2, <2>3, <2>4
<1> QED
  BY <1>1, <1>3, <1>4, Shape DEF Next

(* With translation on, stores of any level change only pages that the     *)
(* table maps as writeable (executor.rs:5-36, 152-169, 350-387).           *)
THEOREM ConfinedCorrect == Spec => Confined
<1>1. TypeOK /\ [Next]_vars
        => [csr.mmu => \A a \in Ram : ram'[a] # ram[a] =>
                          \E p \in 0 .. VirtPages - 1 : MapsWriteable(p, a.page)]_vars
  BY ConfinedStep
<1> QED
  BY <1>1, TypeCorrect, PTL DEF Spec, Confined

LEMMA UserStep ==
  ASSUME TypeOK, [Next]_vars, pl = 0, csr.mmu, TableProtected
  PROVE  csr'.mmu /\ Mapping' = Mapping
<1>1. csr'.mmu = csr.mmu /\ csr'.ptbase = csr.ptbase
  <2>0. csr \in Csr
    BY DEF TypeOK
  <2>1. CASE Trapping
    <3>1. PICK cause \in Cause, epc \in {pc, Succ(pc)} : EnterTrap(cause, epc)
      BY <2>1 DEF Trapping
    <3>2. \/ UNCHANGED csr
          \/ csr' = [csr EXCEPT !.epc = epc, !.cause = cause, !.mpie = csr.mie,
                                !.mie = FALSE, !.mpp = pl]
      BY <3>1, Zenon DEF EnterTrap
    <3> QED
      BY <2>0, <3>2 DEF Csr
  <2>2. CASE Writing
    <3>1. PICK w \in CsrWrites : ~(pl < RequiredPl(w.reg)) /\ csr' = Written(w)
      BY <2>2 DEF Writing
    <3>2. w.reg \in {"vl", "status"}
      BY <3>1, EmulatorAssumption DEF RequiredPl, CsrWrite
    <3> QED
      BY <2>0, <3>1, <3>2 DEF Written, Csr
  <2>3. CASE Quiet \/ Storing \/ VLoading \/ VStoring \/ VectorOp \/ Done \/ UNCHANGED vars
    BY <2>3 DEF Quiet, Storing, VLoading, VStoring, VectorOp, Done, vars
  <2>4. ~Returning
    BY DEF Returning
  <2> QED
    BY <2>1, <2>2, <2>3, <2>4, Shape DEF Next
<1>2. \A p \in 0 .. VirtPages - 1 : Pte(p)' = Pte(p)
  BY <1>1 DEF Pte, Plus
<1>3. ASSUME NEW p \in 0 .. VirtPages - 1, InRam(Pte(p))
      PROVE  ram'[Pte(p)] = ram[Pte(p)]
  <2>1. Pte(p) \in Ram
    BY <1>3, PlusFacts, InRamFacts, EmulatorAssumption DEF Pte, TypeOK, Csr
  <2>2. \A q \in 0 .. VirtPages - 1 : ~MapsWriteable(q, Pte(p).page)
    BY DEF TableProtected, TablePages
  <2> QED
    BY <2>1, <2>2, ConfinedStep
<1>4. Mapping' = Mapping
  BY <1>2, <1>3 DEF Mapping, InRam
<1> QED
  BY <1>1, <1>4

(* A program at level 0 cannot change its own translation when no page of  *)
(* its table is mapped as writeable (executor.rs:5-36, 230-264).           *)
THEOREM UserCorrect == Spec => UserKeepsMapping
<1>1. TypeOK /\ [Next]_vars
        => [pl = 0 /\ csr.mmu /\ TableProtected => csr'.mmu /\ Mapping' = Mapping]_vars
  BY UserStep
<1> QED
  BY <1>1, TypeCorrect, PTL DEF Spec, UserKeepsMapping

-----------------------------------------------------------------------------
LEMMA InitLevels == Init => TM!Init
<1> SUFFICES ASSUME Init PROVE TM!Init
  OBVIOUS
<1>1. TypeOK
  BY InitTypeOK
<1> QED
  BY <1>1 DEF TM!Init, TM!Saved, TM!Level, Level, TypeOK, Csr, Init

LEMMA StepLevels ==
  ASSUME TypeOK, TypeOK', [Next]_vars
  PROVE  [TM!Next]_(TM!vars)
<1> USE DEF TM!Next, TM!vars
<1>0. pc \in PC /\ pc' \in PC /\ csr \in Csr /\ csr' \in Csr /\ pl \in Level
  BY DEF TypeOK
<1>1. CASE Quiet \/ Storing \/ VLoading \/ VStoring \/ VectorOp
  <2>1. UNCHANGED <<pl, csr>>
    BY <1>1 DEF Quiet, Storing, VLoading, VStoring, VectorOp
  <2> QED
    BY <1>0, <2>1 DEF TM!Run
<1>2. CASE Trapping
  <2>1. PICK cause \in Cause, epc \in {pc, Succ(pc)} : EnterTrap(cause, epc)
    BY <1>2 DEF Trapping
  <2>2. CASE csr.handler # 0
    <3>1. /\ csr' = [csr EXCEPT !.epc = epc, !.cause = cause, !.mpie = csr.mie,
                                !.mie = FALSE, !.mpp = pl]
          /\ pl' = 3 /\ Finish(Pred(csr.handler))
      BY <2>1, <2>2, Zenon DEF EnterTrap
    <3>2. pc' = csr.handler
      BY <1>0, <3>1, Wrap DEF Finish, Csr
    <3>3. /\ csr'.handler = csr.handler /\ csr'.epc = epc /\ csr'.mpp = pl
          /\ csr'.mpie = csr.mie /\ csr'.mie = FALSE
      BY <1>0, <3>1 DEF Csr
    <3> QED
      BY <2>1, <2>2, <3>1, <3>2, <3>3 DEF TM!Trap
  <2>3. CASE ~(csr.handler # 0)
    BY <2>1, <2>3 DEF EnterTrap
  <2> QED
    BY <2>2, <2>3
<1>3. CASE Writing
  <2>1. PICK w \in CsrWrites : ~(pl < RequiredPl(w.reg)) /\ csr' = Written(w)
    BY <1>3 DEF Writing
  <2>2. CASE w.reg \in {"handler", "epc", "cause", "mstatus"}
    <3>1. pl = 3 /\ pl' = pl
      BY <1>0, <1>3, <2>1, <2>2 DEF RequiredPl, Level, Writing
    <3> QED
      BY <1>0, <3>1 DEF TM!Manage, TM!Saved, TM!Level, Csr, Level
  <2>3. CASE w.reg \in {"mmu", "ptbase", "vl", "status"}
    <3>1. /\ csr'.handler = csr.handler /\ csr'.epc = csr.epc /\ csr'.mpp = csr.mpp
          /\ csr'.mpie = csr.mpie /\ csr'.mie = csr.mie
      BY <1>0, <2>1, <2>3 DEF Written, Csr
    <3>2. pl' = pl
      BY <1>3 DEF Writing
    <3> QED
      BY <1>0, <3>1, <3>2 DEF TM!Run
  <2> QED
    BY <2>2, <2>3, EmulatorAssumption DEF CsrWrite
<1>4. CASE Returning
  <2>1. pl = 3 /\ pl' = csr.mpp /\ pc' = csr.epc
    BY <1>0, <1>4, Wrap DEF Returning, Finish, Csr, Level
  <2>2. /\ csr'.handler = csr.handler /\ csr'.epc = csr.epc /\ csr'.mpp = 0
        /\ csr'.mpie = TRUE /\ csr'.mie = csr.mpie
    BY <1>0, <1>4 DEF Returning, Csr
  <2>3. [pc |-> csr.epc, mode |-> csr.mpp, enabled |-> csr.mpie]'
          = [pc |-> csr.epc, mode |-> 0, enabled |-> TRUE]
    BY <2>2, Zenon
  <2> QED
    BY <2>1, <2>2, <2>3 DEF TM!Return
<1>5. CASE Done \/ UNCHANGED vars
  BY <1>5 DEF Done, vars
<1> QED
  BY <1>1, <1>2, <1>3, <1>4, <1>5, Shape DEF Next

(* The emulator implements TrapMachine: a program's level rises only in a  *)
(* trap, which saves where it came from, and only level 3 changes handler  *)
(* and saved state or returns (executor.rs:38-57, 230-287).                *)
THEOREM LevelsCorrect == Spec => PrivilegeLevels
<1>1. Init => TM!Init
  BY InitLevels
<1>2. TypeOK /\ TypeOK' /\ [Next]_vars => [TM!Next]_(TM!vars)
  BY StepLevels
<1> QED
  BY <1>1, <1>2, TypeCorrect, PTL DEF Spec, PrivilegeLevels, TM!Spec
=============================================================================
