----------------------------- MODULE SmtCore_proof -----------------------------
(***************************************************************************)
(* Proofs about SmtCore, for any programs, predictor size, latencies and   *)
(* events: the inductive invariant IInv, that threads take turns in the    *)
(* stages, run in order, and get the results of their own operands.        *)
(***************************************************************************)
EXTENDS SmtCore, TLAPS

(* The predictor only remembers branches and jumps, and only they are      *)
(* predicted taken.                                                        *)
BtbHoldsBranches ==
  \A i \in 0 .. BtbEntries - 1 : btb[i].valid => code[btb[i].pc].op \in {"branch", "jump"}

OnlyBranchesTaken ==
  /\ IF_ID.live /\ IF_ID.taken => Instr(IF_ID).op \in {"branch", "jump"}
  /\ ID_EX.live /\ ID_EX.taken => Instr(ID_EX).op \in {"branch", "jump"}

(* Where the fetch behind instruction s went.                              *)
Expected(s) == IF s.taken THEN Instr(s).arg ELSE PcPlus4(s.pc)

(* The PC of a thread is what follows its youngest instruction, unless a   *)
(* return overtook that instruction.                                       *)
FetchFollows ==
  /\ IF_ID.live =>
       \/ Is(EX_MEM, {"exret"}) /\ EX_MEM.thread = IF_ID.thread
       \/ virt_pc[IF_ID.thread] = Expected(IF_ID)
  /\ ID_EX.live =>
       \/ Is(MEM_WB, {"exret"}) /\ MEM_WB.thread = ID_EX.thread
       \/ virt_pc[ID_EX.thread] = Expected(ID_EX)

(* One multiplication or division is under way, with the operand in EX.    *)
MulInFlight ==
  IF muldiv.state = "mul"
    THEN /\ ID_EX.alu = "mul"
         /\ muldiv.start => ~mul.valid0 /\ ~mul.valid1 /\ ~mul.ready
         /\ mul.valid0 => mul.stage1 = ID_EX.operand /\ ~mul.valid1 /\ ~mul.ready
         /\ mul.valid1 => mul.stage2 = ID_EX.operand /\ ~mul.ready
         /\ mul.ready => mul.stage3 = ID_EX.operand
    ELSE ~mul.valid0 /\ ~mul.valid1 /\ ~mul.ready

DivInFlight ==
  IF muldiv.state = "div"
    THEN /\ ID_EX.alu = "div"
         /\ muldiv.start => ~div.busy /\ ~div.ready
         /\ div.busy => div.b = ID_EX.operand /\ ~div.ready
         /\ div.ready => div.quotient = ID_EX.operand
    ELSE ~div.busy /\ ~div.ready

(* The thread in IF/ID, be it a bubble, is not the one that is fetched, and *)
(* the one in EX is; only IF/ID as reset leaves it may hold any thread.    *)
InTurn ==
  /\ IF_ID.thread = fetch_thread_id => ~IF_ID.live /\ IF_ID.pc = virt_pc[IF_ID.thread]
  /\ ID_EX.live => ID_EX.thread = fetch_thread_id

OpInAlu == ID_EX.live => ID_EX.alu = AluOp(ID_EX)

IInv ==
  /\ TypeOK /\ StagesAlternate /\ InTurn
  /\ BtbHoldsBranches /\ OnlyBranchesTaken /\ FetchFollows
  /\ MulInFlight /\ DivInFlight /\ OpInAlu

-----------------------------------------------------------------------------
LEMMA Mod == ASSUME NEW a \in Nat, NEW n \in Nat \ {0} PROVE a % n \in 0 .. n - 1
  OBVIOUS

LEMMA Constants ==
  /\ \A pc \in PC : PcPlus4(pc) \in PC /\ pc % BtbEntries \in 0 .. BtbEntries - 1
  /\ 0 \in PC /\ 0 \in Operands /\ Operands \subseteq PC
<1>1. PcCount \in Nat \ {0} /\ BtbEntries \in Nat \ {0} /\ Operands \subseteq PC /\ 0 \in Operands
  BY CoreAssumption
<1>2. \A pc \in PC : pc \in Nat /\ pc + 1 \in Nat
  BY <1>1 DEF PC
<1>3. \A pc \in PC : PcPlus4(pc) \in PC
  BY <1>1, <1>2, Mod DEF PcPlus4, PC
<1>4. \A pc \in PC : pc % BtbEntries \in 0 .. BtbEntries - 1
  BY <1>1, <1>2, Mod
<1> QED BY <1>1, <1>3, <1>4 DEF PC

(* Programs hold instructions, whose jumps stay in the instruction space.  *)
LEMMA Program ==
  ASSUME TypeOK
  PROVE  /\ code \in [PC -> Instruction] /\ events \subseteq Wires
         /\ \A pc \in PC : code[pc].op \in {"branch", "jump"} => code[pc].arg \in PC
<1>1. code \in [PC -> Instruction] /\ events \subseteq Wires
  <2>1. [code |-> code, events |-> events] \in [code : [PC -> Instruction], events : SUBSET Wires]
    BY CoreAssumption DEF TypeOK
  <2> QED BY <2>1
<1>2. \A i \in Instruction : i.op \in {"branch", "jump"} => i.arg \in PC
  BY DEF Instruction, Op
<1> QED BY <1>1, <1>2

LEMMA InitInv == Init => IInv
<1> SUFFICES ASSUME Init PROVE IInv
  OBVIOUS
<1> USE Constants
<1>0. PICK s \in Scenarios : code = s.code /\ events = s.events
  BY DEF Init
<1>1. [code |-> code, events |-> events] \in Scenarios
  <2>1. s \in [code : [PC -> Instruction], events : SUBSET Wires]
    BY CoreAssumption
  <2> QED BY <1>0, <2>1
<1>2. virt_pc \in [Thread -> PC] /\ fetch_thread_id \in Thread
  BY DEF Init, Thread
<1>3. /\ IF_ID \in [thread : Thread, pc : PC, live : BOOLEAN, taken : BOOLEAN]
      /\ ID_EX \in [thread : Thread, pc : PC, live : BOOLEAN, taken : BOOLEAN,
                    alu : {"mul", "div", "other"}, operand : Operands]
      /\ ~IF_ID.live /\ ~ID_EX.live
  BY DEF Init, Thread
<1>4. /\ EX_MEM \in [thread : Thread, pc : PC, live : BOOLEAN, operand : Operands]
      /\ MEM_WB \in [thread : Thread, pc : PC, live : BOOLEAN]
  BY DEF Init, Thread
<1>5. /\ btb \in [0 .. BtbEntries - 1 -> [valid : BOOLEAN, pc : PC, counter : 0 .. 3]]
      /\ \A i \in 0 .. BtbEntries - 1 : ~btb[i].valid
  BY DEF Init
<1>6. /\ muldiv \in [state : {"idle", "mul", "div"}, start : BOOLEAN]
      /\ mul \in [valid0 : BOOLEAN, valid1 : BOOLEAN, ready : BOOLEAN,
                  stage1 : Operands, stage2 : Operands, stage3 : Operands]
  BY DEF Init
<1>7. div \in [busy : BOOLEAN, count : 0 .. DivCycles - 1, ready : BOOLEAN,
               b : Operands, quotient : Operands]
  BY CoreAssumption DEF Init
<1>8. wait \in 0 .. Latency + 1
  BY CoreAssumption DEF Init
<1>9. csr \in [Thread -> CsrState] /\ mip \subseteq Irq /\ wires \in events
  BY DEF Init, CsrState, Mode, Cause
<1>10. TypeOK
  BY <1>1, <1>2, <1>3, <1>4, <1>5, <1>6, <1>7, <1>8, <1>9 DEF TypeOK
<1>11. StagesAlternate /\ InTurn /\ OnlyBranchesTaken /\ FetchFollows /\ OpInAlu
  BY <1>3 DEF Init, StagesAlternate, InTurn, OnlyBranchesTaken, FetchFollows, OpInAlu
<1>12. BtbHoldsBranches
  BY <1>5 DEF BtbHoldsBranches
<1>13. MulInFlight /\ DivInFlight
  BY DEF Init, MulInFlight, DivInFlight
<1> QED BY <1>10, <1>11, <1>12, <1>13 DEF IInv

-----------------------------------------------------------------------------
(* Types of the registers that move in every cycle.                        *)
LEMMA AlwaysTypes ==
  ASSUME IInv, Always
  PROVE  /\ [code |-> code, events |-> events]' \in Scenarios
         /\ muldiv' \in [state : {"idle", "mul", "div"}, start : BOOLEAN]
         /\ mul' \in [valid0 : BOOLEAN, valid1 : BOOLEAN, ready : BOOLEAN,
                      stage1 : Operands, stage2 : Operands, stage3 : Operands]
         /\ div' \in [busy : BOOLEAN, count : 0 .. DivCycles - 1, ready : BOOLEAN,
                      b : Operands, quotient : Operands]
         /\ wait' \in 0 .. Latency + 1
         /\ csr' \in [Thread -> CsrState] /\ mip' \subseteq Irq /\ wires' \in events'
<1> USE Constants
<1>1. [code |-> code, events |-> events]' \in Scenarios /\ wires' \in events'
  BY DEF IInv, TypeOK, Always
<1>2. muldiv' \in [state : {"idle", "mul", "div"}, start : BOOLEAN]
  <2>1. ID_EX.alu \in {"mul", "div", "other"}
    BY DEF IInv, TypeOK
  <2>2. muldiv \in [state : {"idle", "mul", "div"}, start : BOOLEAN]
    BY DEF IInv, TypeOK
  <2> QED BY <2>1, <2>2 DEF Always, MuldivEdge
<1>3. ID_EX.operand \in Operands /\ EX_MEM.operand \in Operands
  BY DEF IInv, TypeOK
<1>4. mul' \in [valid0 : BOOLEAN, valid1 : BOOLEAN, ready : BOOLEAN,
                stage1 : Operands, stage2 : Operands, stage3 : Operands]
  <2>1. mul \in [valid0 : BOOLEAN, valid1 : BOOLEAN, ready : BOOLEAN,
                 stage1 : Operands, stage2 : Operands, stage3 : Operands]
    BY DEF IInv, TypeOK
  <2> QED BY <1>3, <2>1 DEF Always, MulEdge, IInv, TypeOK
<1>5. div' \in [busy : BOOLEAN, count : 0 .. DivCycles - 1, ready : BOOLEAN,
                b : Operands, quotient : Operands]
  <2>1. div \in [busy : BOOLEAN, count : 0 .. DivCycles - 1, ready : BOOLEAN,
                 b : Operands, quotient : Operands]
    BY DEF IInv, TypeOK
  <2>2. DivCycles - 1 \in 0 .. DivCycles - 1
    BY CoreAssumption
  <2>3. div.count # 0 => div.count - 1 \in 0 .. DivCycles - 1
    BY <2>1, CoreAssumption
  <2> QED BY <1>3, <2>1, <2>2, <2>3 DEF Always, DivEdge
<1>6. wait' \in 0 .. Latency + 1
  BY CoreAssumption DEF Always, WaitEdge, IInv, TypeOK
<1>7. mip' \subseteq Irq
  BY Program DEF Always, IInv, TypeOK, Wires
<1>8. csr' \in [Thread -> CsrState]
  <2>1. /\ csr \in [Thread -> CsrState] /\ fetch_thread_id \in Thread
        /\ EX_MEM.thread \in Thread /\ ID_EX.thread \in Thread
        /\ virt_pc \in [Thread -> PC] /\ IF_ID.pc \in PC /\ ID_EX.pc \in PC
    BY DEF IInv, TypeOK
  <2>2. ASSUME NEW c \in CsrState, NEW pc \in PC, NEW cause \in Cause
        PROVE  Trapped(c, pc, cause) \in CsrState
    BY DEF Trapped, CsrState, Mode
  <2>3. ASSUME NEW c \in CsrState PROVE Returned(c) \in CsrState
    BY DEF Returned, CsrState, Mode
  <2>4. ASSUME NEW c \in CsrState, NEW reg, NEW v \in Operands
        PROVE  Written(c, reg, v) \in CsrState
    <3>1. v \in PC /\ "written" \in Cause
      BY DEF Cause
    <3> QED BY <3>1 DEF Written, CsrState, Mode
  <2>5. \A t \in Thread : IrqPc(t) \in PC /\ IrqCause(t) \in Cause
    BY <2>1 DEF IrqPc, IrqCause, Cause, CsrState, Irq
  <2>6. ASSUME NEW t \in Thread, NEW c \in CsrState
        PROVE  [csr EXCEPT ![t] = c] \in [Thread -> CsrState]
    BY <2>1
  <2>7. \A t \in Thread : csr[t] \in CsrState /\ virt_pc[t] \in PC
    BY <2>1
  <2>8. 0 \in Thread /\ 1 \in Thread /\ {"ecall", "ipage", "dpage"} \subseteq Cause
    BY DEF Thread, Cause
  <2>9. CASE Is(EX_MEM, {"csrw"})
    BY <1>3, <2>1, <2>4, <2>6, <2>7, <2>9 DEF Always, CsrEdge
  <2>10. CASE ~Is(EX_MEM, {"csrw"}) /\ Is(ID_EX, {"ecall"})
    BY <2>1, <2>2, <2>6, <2>7, <2>8, <2>10 DEF Always, CsrEdge
  <2>11. CASE ~Is(EX_MEM, {"csrw"}) /\ ~Is(ID_EX, {"ecall"})
    BY <1>3, <2>1, <2>2, <2>3, <2>5, <2>6, <2>7, <2>8, <2>11 DEF Always, CsrEdge
  <2> QED BY <2>9, <2>10, <2>11
<1> QED BY <1>1, <1>2, <1>4, <1>5, <1>6, <1>7, <1>8

(* Types of the pipeline registers and of the predictor.                   *)
LEMMA AdvanceTypes ==
  ASSUME IInv, Advance
  PROVE  /\ virt_pc' \in [Thread -> PC] /\ fetch_thread_id' \in Thread
         /\ IF_ID' \in [thread : Thread, pc : PC, live : BOOLEAN, taken : BOOLEAN]
         /\ ID_EX' \in [thread : Thread, pc : PC, live : BOOLEAN, taken : BOOLEAN,
                        alu : {"mul", "div", "other"}, operand : Operands]
         /\ EX_MEM' \in [thread : Thread, pc : PC, live : BOOLEAN, operand : Operands]
         /\ MEM_WB' \in [thread : Thread, pc : PC, live : BOOLEAN]
         /\ btb' \in [0 .. BtbEntries - 1 -> [valid : BOOLEAN, pc : PC, counter : 0 .. 3]]
<1> USE Constants
<1>1. /\ virt_pc \in [Thread -> PC] /\ fetch_thread_id \in Thread
      /\ IF_ID \in [thread : Thread, pc : PC, live : BOOLEAN, taken : BOOLEAN]
      /\ ID_EX \in [thread : Thread, pc : PC, live : BOOLEAN, taken : BOOLEAN,
                    alu : {"mul", "div", "other"}, operand : Operands]
      /\ EX_MEM \in [thread : Thread, pc : PC, live : BOOLEAN, operand : Operands]
      /\ btb \in [0 .. BtbEntries - 1 -> [valid : BOOLEAN, pc : PC, counter : 0 .. 3]]
      /\ csr \in [Thread -> CsrState]
  BY DEF IInv, TypeOK
<1>2. \A pc \in PC : Predicts(pc) \in BOOLEAN /\ (Predicts(pc) => BtbTarget(pc) \in PC)
  BY <1>1, Program, CoreAssumption DEF Predicts, BtbTarget, IInv, BtbHoldsBranches
<1>3. virt_pc' \in [Thread -> PC] /\ fetch_thread_id' \in Thread
  <2>1. NextPc \in [Thread -> PC]
    <3>1. Branch_Taken_EX => Instr(ID_EX).arg \in PC
      BY <1>1, Program DEF Branch_Taken_EX, Is, Instr, IInv
    <3>2. \A t \in Thread : csr[t].handler \in PC /\ csr[t].epc \in PC /\ virt_pc[t] \in PC
      BY <1>1 DEF CsrState
    <3> QED BY <1>2, <3>1, <3>2 DEF NextPc
  <2>2. NextTurn \in Thread
    BY <1>1 DEF NextTurn, Thread
  <2> QED BY <1>1, <2>1, <2>2 DEF Advance, PcEdge
<1>4. IF_ID' \in [thread : Thread, pc : PC, live : BOOLEAN, taken : BOOLEAN]
  <2>1. virt_pc[fetch_thread_id] \in PC
    BY <1>1
  <2>2. Predicts(virt_pc[fetch_thread_id]) \in BOOLEAN
    BY <1>2, <2>1
  <2> DEFINE fetched == [thread |-> fetch_thread_id, pc |-> virt_pc[fetch_thread_id],
                         live |-> TRUE, taken |-> Predicts(virt_pc[fetch_thread_id])]
             held == IF Stall_IF_ID THEN IF_ID ELSE fetched
  <2>3. held \in [thread : Thread, pc : PC, live : BOOLEAN, taken : BOOLEAN]
    BY <1>1, <2>1, <2>2
  <2>4. [held EXCEPT !.live = FALSE, !.taken = FALSE]
           \in [thread : Thread, pc : PC, live : BOOLEAN, taken : BOOLEAN]
    BY <2>3
  <2>5. IF_ID' \in {held, [held EXCEPT !.live = FALSE, !.taken = FALSE]}
    BY DEF Advance, IfIdEdge
  <2> QED BY <2>3, <2>4, <2>5
<1>5. ID_EX' \in [thread : Thread, pc : PC, live : BOOLEAN, taken : BOOLEAN,
                  alu : {"mul", "div", "other"}, operand : Operands]
  <2>1. AluOp(IF_ID) \in {"mul", "div", "other"}
    BY DEF AluOp, Is
  <2>2. 0 \in Thread
    BY DEF Thread
  <2>3. [ID_EX EXCEPT !.live = FALSE, !.taken = FALSE, !.thread = 0]
          \in [thread : Thread, pc : PC, live : BOOLEAN, taken : BOOLEAN,
               alu : {"mul", "div", "other"}, operand : Operands]
    BY <1>1, <2>2
  <2>4. CASE ID_EX' = [ID_EX EXCEPT !.live = FALSE, !.taken = FALSE, !.thread = 0]
    BY <2>3, <2>4
  <2>5. CASE \E v \in Operands :
               ID_EX' = [thread |-> IF_ID.thread, pc |-> IF_ID.pc, live |-> IF_ID.live,
                         taken |-> IF_ID.taken, alu |-> AluOp(IF_ID), operand |-> v]
    BY <1>1, <2>1, <2>5
  <2> QED BY <2>4, <2>5 DEF Advance, IdExEdge
<1>6. /\ EX_MEM' \in [thread : Thread, pc : PC, live : BOOLEAN, operand : Operands]
      /\ MEM_WB' \in [thread : Thread, pc : PC, live : BOOLEAN]
  BY <1>1 DEF Advance, ExMemEdge
<1>7. btb' \in [0 .. BtbEntries - 1 -> [valid : BOOLEAN, pc : PC, counter : 0 .. 3]]
  <2>1. ID_EX.pc \in PC /\ ID_EX.pc % BtbEntries \in 0 .. BtbEntries - 1
    BY <1>1
  <2>2. ASSUME NEW c \in 0 .. 3
        PROVE  [valid |-> TRUE, pc |-> ID_EX.pc, counter |-> c]
                 \in [valid : BOOLEAN, pc : PC, counter : 0 .. 3]
    BY <2>1
  <2>3. ASSUME NEW c \in 0 .. 3
        PROVE  /\ (IF c = 3 THEN 3 ELSE c + 1) \in 0 .. 3
               /\ (IF c = 0 THEN 0 ELSE c - 1) \in 0 .. 3
    OBVIOUS
  <2>4. btb[ID_EX.pc % BtbEntries].counter \in 0 .. 3
    BY <1>1, <2>1
  <2> QED BY <1>1, <2>1, <2>2, <2>3, <2>4 DEF Advance, BtbEdge
<1> QED BY <1>3, <1>4, <1>5, <1>6, <1>7

LEMMA TypeStep == IInv /\ [Next]_vars => TypeOK'
<1> SUFFICES ASSUME IInv, [Next]_vars PROVE TypeOK'
  OBVIOUS
<1>1. CASE Advance
  BY <1>1, AlwaysTypes, AdvanceTypes DEF TypeOK, Advance
<1>2. CASE Hold
  BY <1>2, AlwaysTypes DEF TypeOK, Hold, pipeVars, IInv
<1>3. CASE UNCHANGED vars
  BY <1>3 DEF TypeOK, vars, pipeVars, IInv
<1> QED BY <1>1, <1>2, <1>3 DEF Next

-----------------------------------------------------------------------------
(* What an advance does to the slots, stated once for the proofs below.    *)
LEMMA NoLoadUse == IInv => ~Stall_IF_ID
<1> SUFFICES ASSUME IInv, Stall_IF_ID PROVE FALSE
  OBVIOUS
<1> QED BY DEF IInv, StagesAlternate, Stall_IF_ID, Is

LEMMA Moves ==
  ASSUME IInv, Advance
  PROVE  /\ virt_pc' = NextPc /\ fetch_thread_id' = 1 - fetch_thread_id
         /\ IF_ID'.thread = fetch_thread_id
         /\ IF_ID'.live =>
              /\ IF_ID'.pc = virt_pc[fetch_thread_id]
              /\ IF_ID'.taken = Predicts(virt_pc[fetch_thread_id])
         /\ IF_ID'.live <=> ~Trap_Flush /\ ~(Flush /\ ID_EX.thread = fetch_thread_id)
         /\ ID_EX'.live =>
              /\ ID_EX'.thread = IF_ID.thread /\ ID_EX'.pc = IF_ID.pc
              /\ ID_EX'.taken = IF_ID.taken /\ ID_EX'.alu = AluOp(IF_ID)
         /\ ID_EX'.live <=>
              IF_ID.live /\ ~Trap_Flush /\ ~(Flush /\ ID_EX.thread = IF_ID.thread)
         /\ EX_MEM'.thread = ID_EX.thread /\ EX_MEM'.pc = ID_EX.pc
         /\ EX_MEM'.live = ID_EX.live
         /\ MEM_WB'.thread = EX_MEM.thread /\ MEM_WB'.pc = EX_MEM.pc
         /\ MEM_WB'.live = EX_MEM.live
         /\ code' = code
<1>1. ~Stall_IF_ID
  BY NoLoadUse
<1>2. virt_pc' = NextPc /\ fetch_thread_id' = 1 - fetch_thread_id
  BY <1>1 DEF Advance, PcEdge, NextTurn
<1> DEFINE fetched == [thread |-> fetch_thread_id, pc |-> virt_pc[fetch_thread_id],
                       live |-> TRUE, taken |-> Predicts(virt_pc[fetch_thread_id])]
<1>3. IF_ID' = IF Trap_Flush \/ (Flush /\ ID_EX.thread = fetch_thread_id)
                 THEN [fetched EXCEPT !.live = FALSE, !.taken = FALSE] ELSE fetched
  BY <1>1 DEF Advance, IfIdEdge
<1>4. /\ [fetched EXCEPT !.live = FALSE, !.taken = FALSE].live = FALSE
      /\ [fetched EXCEPT !.live = FALSE, !.taken = FALSE].thread = fetch_thread_id
      /\ fetched.live /\ fetched.thread = fetch_thread_id
      /\ fetched.pc = virt_pc[fetch_thread_id]
      /\ fetched.taken = Predicts(virt_pc[fetch_thread_id])
  OBVIOUS
<1>5. CASE Trap_Flush \/ (Flush /\ ID_EX.thread = IF_ID.thread)
  <2>1. ID_EX' = [ID_EX EXCEPT !.live = FALSE, !.taken = FALSE, !.thread = 0]
    BY <1>5 DEF Advance, IdExEdge
  <2>2. ID_EX \in [thread : Thread, pc : PC, live : BOOLEAN, taken : BOOLEAN,
                   alu : {"mul", "div", "other"}, operand : Operands]
    BY DEF IInv, TypeOK
  <2>3. ~ID_EX'.live
    BY <2>1, <2>2
  <2> QED BY <1>2, <1>3, <1>4, <1>5, <2>3 DEF Advance, ExMemEdge, Always
<1>6. CASE ~(Trap_Flush \/ (Flush /\ ID_EX.thread = IF_ID.thread))
  <2>1. PICK v : ID_EX' = [thread |-> IF_ID.thread, pc |-> IF_ID.pc, live |-> IF_ID.live,
                           taken |-> IF_ID.taken, alu |-> AluOp(IF_ID), operand |-> v]
    BY <1>1, <1>6 DEF Advance, IdExEdge
  <2>2. /\ ID_EX'.live = IF_ID.live /\ ID_EX'.thread = IF_ID.thread /\ ID_EX'.pc = IF_ID.pc
        /\ ID_EX'.taken = IF_ID.taken /\ ID_EX'.alu = AluOp(IF_ID)
    BY <2>1
  <2> QED BY <1>2, <1>3, <1>4, <1>6, <2>2 DEF Advance, ExMemEdge, Always
<1> QED BY <1>5, <1>6

(* Edges at which the pipeline moves.                                      *)
LEMMA AlternateStep == IInv /\ Advance => StagesAlternate'
<1> SUFFICES ASSUME IInv, Advance PROVE StagesAlternate'
  OBVIOUS
<1>1. fetch_thread_id \in {0, 1} /\ StagesAlternate
  BY DEF IInv, TypeOK, Thread
<1> QED BY <1>1, Moves DEF StagesAlternate

LEMMA TurnStep == IInv /\ Advance => InTurn'
<1> SUFFICES ASSUME IInv, Advance PROVE InTurn'
  OBVIOUS
<1>1. /\ fetch_thread_id \in {0, 1} /\ IF_ID.thread \in {0, 1} /\ InTurn
  BY DEF IInv, TypeOK, Thread
<1> QED BY <1>1, Moves DEF InTurn

LEMMA PredictedBranches ==
  ASSUME IInv, NEW pc \in PC, Predicts(pc)
  PROVE  code[pc].op \in {"branch", "jump"} /\ BtbTarget(pc) = code[pc].arg
<1>1. pc % BtbEntries \in 0 .. BtbEntries - 1
  BY Constants
<1> QED BY <1>1 DEF Predicts, BtbTarget, IInv, BtbHoldsBranches

LEMMA PredictorStep == IInv /\ Advance => BtbHoldsBranches' /\ OnlyBranchesTaken'
<1> SUFFICES ASSUME IInv, Advance PROVE BtbHoldsBranches' /\ OnlyBranchesTaken'
  OBVIOUS
<1>1. code' = code /\ virt_pc[fetch_thread_id] \in PC
  BY Moves DEF IInv, TypeOK
<1>2. BtbHoldsBranches'
  <2>1. CASE btb' = btb
    BY <1>1, <2>1 DEF BtbHoldsBranches, IInv
  <2>2. CASE /\ Is(ID_EX, {"branch", "jump"})
             /\ \E c : btb' = [btb EXCEPT ![ID_EX.pc % BtbEntries] =
                                  [valid |-> TRUE, pc |-> ID_EX.pc, counter |-> c]]
    <3>1. PICK c : btb' = [btb EXCEPT ![ID_EX.pc % BtbEntries] =
                             [valid |-> TRUE, pc |-> ID_EX.pc, counter |-> c]]
      BY <2>2
    <3>2. code[ID_EX.pc].op \in {"branch", "jump"}
      BY <2>2 DEF Is, Instr
    <3>3. DOMAIN btb = 0 .. BtbEntries - 1
      BY DEF IInv, TypeOK
    <3> QED BY <1>1, <3>1, <3>2, <3>3 DEF BtbHoldsBranches, IInv
  <2> QED BY <2>1, <2>2 DEF Advance, BtbEdge
<1>3. OnlyBranchesTaken'
  BY <1>1, Moves, PredictedBranches DEF OnlyBranchesTaken, IInv, Instr
<1> QED BY <1>2, <1>3

(* Where the PC of thread t goes when there is no trap.                    *)
LEMMA PcMoves ==
  ASSUME IInv, Advance, ~Trap_Flush, NEW t \in Thread, ~(Is(ID_EX, {"exret"}) /\ ID_EX.thread = t)
  PROVE  virt_pc'[t] = IF Branch_Taken_EX /\ ID_EX.thread = t THEN Instr(ID_EX).arg
                       ELSE IF fetch_thread_id # t THEN virt_pc[t]
                       ELSE IF Predicts(virt_pc[t]) THEN code[virt_pc[t]].arg
                       ELSE PcPlus4(virt_pc[t])
<1>1. ~wires.ifault /\ ~wires.dfault /\ ~TakeInterrupt(t)
  BY DEF Trap_Flush
<1>2. Predicts(virt_pc[t]) => BtbTarget(virt_pc[t]) = code[virt_pc[t]].arg
  BY PredictedBranches DEF IInv, TypeOK
<1> QED BY <1>1, <1>2, Moves DEF NextPc

LEMMA FetchStep == IInv /\ Advance => FetchFollows'
<1> SUFFICES ASSUME IInv, Advance PROVE FetchFollows'
  OBVIOUS
<1>0. /\ code' = code /\ fetch_thread_id \in Thread /\ IF_ID.thread \in Thread
      /\ (Flush <=> Branch_Taken_EX)
  BY Moves DEF IInv, TypeOK, Flush, Advance
<1>1. ASSUME IF_ID'.live, ~(Is(EX_MEM, {"exret"})' /\ EX_MEM'.thread = IF_ID'.thread)
      PROVE  virt_pc'[IF_ID'.thread] = Expected(IF_ID)'
  <2>1. /\ ~Trap_Flush /\ ~(Branch_Taken_EX /\ ID_EX.thread = fetch_thread_id)
        /\ IF_ID'.thread = fetch_thread_id /\ IF_ID'.pc = virt_pc[fetch_thread_id]
        /\ IF_ID'.taken = Predicts(virt_pc[fetch_thread_id])
    BY <1>0, <1>1, Moves
  <2>2. ~(Is(ID_EX, {"exret"}) /\ ID_EX.thread = fetch_thread_id)
    BY <1>0, <1>1, <2>1, Moves DEF Is, Instr
  <2> QED BY <1>0, <2>1, <2>2, PcMoves DEF Expected, Instr, PcPlus4
<1>2. ASSUME ID_EX'.live, ~(Is(MEM_WB, {"exret"})' /\ MEM_WB'.thread = ID_EX'.thread)
      PROVE  virt_pc'[ID_EX'.thread] = Expected(ID_EX)'
  <2>1. /\ IF_ID.live /\ ~Trap_Flush /\ ID_EX'.thread = IF_ID.thread
        /\ ID_EX'.pc = IF_ID.pc /\ ID_EX'.taken = IF_ID.taken
    BY <1>2, Moves
  <2>2. fetch_thread_id # IF_ID.thread /\ (ID_EX.live => ID_EX.thread # IF_ID.thread)
    BY <2>1 DEF IInv, StagesAlternate
  <2>3. virt_pc[IF_ID.thread] = Expected(IF_ID)
    BY <1>0, <1>2, <2>1, Moves DEF IInv, FetchFollows, Is, Instr
  <2>4. virt_pc'[IF_ID.thread] = virt_pc[IF_ID.thread]
    BY <1>0, <2>1, <2>2, PcMoves DEF Is, Branch_Taken_EX
  <2> QED BY <1>0, <2>1, <2>3, <2>4 DEF Expected, Instr, PcPlus4
<1> QED BY <1>1, <1>2 DEF FetchFollows

LEMMA AluStep == IInv /\ Advance => OpInAlu'
<1> SUFFICES ASSUME IInv, Advance, ID_EX'.live PROVE ID_EX'.alu = AluOp(ID_EX)'
  BY DEF OpInAlu
<1> QED BY Moves DEF AluOp, Is, Instr

-----------------------------------------------------------------------------
(* The multiplier and the divider, at every edge: EX lets go of an         *)
(* operation only with the result, and then nothing is left under way.     *)
LEMMA MulStep ==
  ASSUME IInv, MuldivEdge, MulEdge,
         (Stall_Pipeline /\ UNCHANGED ID_EX) \/ ~MuldivStall
  PROVE  MulInFlight'
<1>1. /\ muldiv \in [state : {"idle", "mul", "div"}, start : BOOLEAN]
      /\ ID_EX.alu \in {"mul", "div", "other"} /\ MulInFlight
      /\ muldiv.state = "div" => ID_EX.alu = "div"
  BY DEF IInv, TypeOK, DivInFlight
<1>2. CASE muldiv.state = "mul" /\ ~mul.ready
  <2>1. UNCHANGED ID_EX
    BY <1>1, <1>2 DEF MuldivStall, MulInFlight
  <2> QED BY <1>1, <1>2, <2>1 DEF MulInFlight, MuldivEdge, MulEdge
<1>3. CASE muldiv.state = "mul" /\ mul.ready
  BY <1>1, <1>3 DEF MulInFlight, MuldivEdge, MulEdge
<1>4. CASE muldiv.state = "div"
  BY <1>1, <1>4 DEF MulInFlight, MuldivEdge, MulEdge
<1>5. CASE muldiv.state = "idle"
  <2>1. ID_EX.alu # "other" => UNCHANGED ID_EX
    BY <1>1, <1>5 DEF MuldivStall
  <2> QED BY <1>1, <1>5, <2>1 DEF MulInFlight, MuldivEdge, MulEdge
<1> QED BY <1>1, <1>2, <1>3, <1>4, <1>5

LEMMA DivStep ==
  ASSUME IInv, MuldivEdge, DivEdge,
         (Stall_Pipeline /\ UNCHANGED ID_EX) \/ ~MuldivStall
  PROVE  DivInFlight'
<1>1. /\ muldiv \in [state : {"idle", "mul", "div"}, start : BOOLEAN]
      /\ div \in [busy : BOOLEAN, count : 0 .. DivCycles - 1, ready : BOOLEAN,
                  b : Operands, quotient : Operands]
      /\ ID_EX.alu \in {"mul", "div", "other"} /\ DivInFlight
      /\ muldiv.state = "mul" => ID_EX.alu = "mul"
  BY DEF IInv, TypeOK, MulInFlight
<1>2. CASE muldiv.state = "div" /\ ~div.ready
  <2>1. UNCHANGED ID_EX
    BY <1>1, <1>2 DEF MuldivStall, DivInFlight
  <2> QED BY <1>1, <1>2, <2>1 DEF DivInFlight, MuldivEdge, DivEdge
<1>3. CASE muldiv.state = "div" /\ div.ready
  BY <1>1, <1>3 DEF DivInFlight, MuldivEdge, DivEdge
<1>4. CASE muldiv.state = "mul"
  BY <1>1, <1>4 DEF DivInFlight, MuldivEdge, DivEdge
<1>5. CASE muldiv.state = "idle"
  <2>1. ID_EX.alu # "other" => UNCHANGED ID_EX
    BY <1>1, <1>5 DEF MuldivStall
  <2> QED BY <1>1, <1>5, <2>1 DEF DivInFlight, MuldivEdge, DivEdge
<1> QED BY <1>1, <1>2, <1>3, <1>4, <1>5

LEMMA NextInv == IInv /\ [Next]_vars => IInv'
<1> SUFFICES ASSUME IInv, [Next]_vars PROVE IInv'
  OBVIOUS
<1>1. TypeOK'
  BY TypeStep
<1>2. CASE Advance
  <2>1. MulInFlight' /\ DivInFlight'
    BY <1>2, MulStep, DivStep DEF Advance, Always, Stall_Pipeline
  <2> QED BY <1>1, <1>2, <2>1, AlternateStep, TurnStep, PredictorStep, FetchStep, AluStep DEF IInv
<1>3. CASE Hold
  <2>1. MulInFlight' /\ DivInFlight'
    BY <1>3, MulStep, DivStep DEF Hold, Always, pipeVars
  <2>2. UNCHANGED <<code, pipeVars>>
    BY <1>3 DEF Hold, Always
  <2>3. StagesAlternate' /\ InTurn' /\ BtbHoldsBranches' /\ OnlyBranchesTaken' /\ OpInAlu'
    BY <2>2 DEF IInv, pipeVars, StagesAlternate, InTurn, BtbHoldsBranches, OnlyBranchesTaken,
                OpInAlu, AluOp, Is, Instr
  <2>4. FetchFollows'
    BY <2>2 DEF IInv, pipeVars, FetchFollows, Expected, PcPlus4, Is, Instr
  <2> QED BY <1>1, <2>1, <2>3, <2>4 DEF IInv
<1>4. CASE UNCHANGED vars
  <2>1. StagesAlternate' /\ InTurn' /\ BtbHoldsBranches' /\ OnlyBranchesTaken' /\ OpInAlu'
    BY <1>4 DEF IInv, vars, pipeVars, StagesAlternate, InTurn, BtbHoldsBranches, OnlyBranchesTaken,
                OpInAlu, AluOp, Is, Instr
  <2>2. FetchFollows' /\ MulInFlight' /\ DivInFlight'
    BY <1>4 DEF IInv, vars, pipeVars, FetchFollows, MulInFlight, DivInFlight, Expected,
                PcPlus4, Is, Instr
  <2> QED BY <1>1, <2>1, <2>2 DEF IInv
<1> QED BY <1>2, <1>3, <1>4 DEF Next

(* The instruction that thread t executes next moves to its successor in   *)
(* program order when it leaves EX, and stays the same otherwise.          *)
LEMMA OrderStep ==
  ASSUME IInv, Next, NEW t \in Thread, ~Trap_Flush, ~WronglyTaken(t), ~Returning(t)
  PROVE  InOrderAt(t)
<1>1. CASE Hold
  BY <1>1 DEF Hold, pipeVars, InOrderAt, NextOf, Oldest, Executes
<1>2. CASE Advance
  <2>0. /\ fetch_thread_id \in Thread /\ (Flush <=> Branch_Taken_EX) /\ ~Stall_Pipeline
        /\ (Branch_Taken_EX => ID_EX.live) /\ (Is(ID_EX, {"exret"}) => ID_EX.live)
        /\ (IF_ID.live /\ ID_EX.live => ID_EX.thread # IF_ID.thread)
        /\ (IF_ID.live => fetch_thread_id # IF_ID.thread)
    BY <1>2 DEF IInv, TypeOK, Flush, Advance, Is, Branch_Taken_EX, StagesAlternate
  <2>1. CASE ID_EX.live /\ ID_EX.thread = t
    <3>1. ~(Is(ID_EX, {"exret"}) /\ ID_EX.thread = t)
      BY <2>1 DEF Returning
    <3>2. ~(ID_EX'.live /\ ID_EX'.thread = t) /\ Executes(t)
      BY <1>2, <2>0, <2>1, Moves DEF Executes
    <3>3. CASE Branch_Taken_EX
      <4>1. ~(IF_ID'.live /\ IF_ID'.thread = t) /\ virt_pc'[t] = Instr(ID_EX).arg
        BY <1>2, <2>0, <2>1, <3>1, <3>3, Moves, PcMoves
      <4> QED BY <3>2, <3>3, <4>1 DEF InOrderAt, NextOf, Oldest, Successor
    <3>4. CASE ~Branch_Taken_EX
      <4>1. virt_pc[t] = Expected(ID_EX)
        BY <2>1 DEF Returning, IInv, FetchFollows
      <4>2. ~ID_EX.taken
        BY <2>1, <3>4 DEF WronglyTaken, Branch_Taken_EX, IInv, OnlyBranchesTaken, Is
      <4>3. virt_pc[t] = PcPlus4(ID_EX.pc)
        BY <4>1, <4>2 DEF Expected
      <4>4. CASE fetch_thread_id = t
        <5>1. IF_ID'.live /\ IF_ID'.thread = t /\ IF_ID'.pc = virt_pc[t]
          BY <1>2, <2>0, <3>4, <4>4, Moves
        <5> QED BY <3>2, <3>4, <4>3, <5>1 DEF InOrderAt, NextOf, Oldest, Successor
      <4>5. CASE fetch_thread_id # t
        <5>1. ~(IF_ID'.live /\ IF_ID'.thread = t) /\ virt_pc'[t] = virt_pc[t]
          BY <1>2, <3>1, <3>4, <4>5, Moves, PcMoves
        <5> QED BY <3>2, <3>4, <4>3, <5>1 DEF InOrderAt, NextOf, Oldest, Successor
      <4> QED BY <4>4, <4>5
    <3> QED BY <3>3, <3>4
  <2>2. CASE ~(ID_EX.live /\ ID_EX.thread = t)
    <3>1. ~Executes(t)
      BY <2>2 DEF Executes
    <3>2. CASE IF_ID.live /\ IF_ID.thread = t
      <4>1. ID_EX'.live /\ ID_EX'.thread = t /\ ID_EX'.pc = IF_ID.pc
        BY <1>2, <2>0, <2>2, <3>2, Moves
      <4> QED BY <2>2, <3>1, <3>2, <4>1 DEF InOrderAt, NextOf, Oldest
    <3>3. CASE ~(IF_ID.live /\ IF_ID.thread = t)
      <4>1. ~(ID_EX'.live /\ ID_EX'.thread = t)
        BY <1>2, <3>3, Moves
      <4>2. CASE fetch_thread_id = t
        <5>1. IF_ID'.live /\ IF_ID'.thread = t /\ IF_ID'.pc = virt_pc[t]
          BY <1>2, <2>0, <2>2, <4>2, Moves
        <5> QED BY <2>2, <3>1, <3>3, <4>1, <5>1 DEF InOrderAt, NextOf, Oldest
      <4>3. CASE fetch_thread_id # t
        <5>1. ~(IF_ID'.live /\ IF_ID'.thread = t) /\ virt_pc'[t] = virt_pc[t]
          BY <1>2, <2>0, <2>2, <4>3, Moves, PcMoves
        <5> QED BY <2>2, <3>1, <3>3, <4>1, <5>1 DEF InOrderAt, NextOf, Oldest
      <4> QED BY <4>2, <4>3
    <3> QED BY <3>2, <3>3
  <2> QED BY <2>1, <2>2
<1> QED BY <1>1, <1>2 DEF Next

(* Fetch stands where the thread that it serves goes on.                   *)
LEMMA FetchedNext ==
  ASSUME IInv, Advance, ~Mispredicted(fetch_thread_id), ~Returning(fetch_thread_id)
  PROVE  virt_pc[fetch_thread_id] = NextOf(fetch_thread_id)
<1> DEFINE t == fetch_thread_id
<1>1. ~Stall_Pipeline /\ ~(IF_ID.live /\ IF_ID.thread = t)
  BY DEF Advance, IInv, StagesAlternate
<1>2. CASE ID_EX.live /\ ID_EX.thread = t
  <2>1. virt_pc[t] = Expected(ID_EX)
    BY <1>2 DEF Returning, IInv, FetchFollows
  <2>2. Branch_Taken_EX => ID_EX.taken
    BY <1>2 DEF Mispredicted, Branch_Taken_EX, Is, IInv, TypeOK
  <2>3. ID_EX.taken => Branch_Taken_EX
    BY <1>2 DEF Mispredicted, OnlyBranchesTaken, Is, IInv, TypeOK
  <2>4. Successor = Expected(ID_EX)
    BY <2>2, <2>3 DEF Successor, Expected
  <2> QED BY <1>1, <1>2, <2>1, <2>4 DEF NextOf, Executes
<1>3. CASE ~(ID_EX.live /\ ID_EX.thread = t)
  BY <1>1, <1>3 DEF NextOf, Executes, Oldest
<1> QED BY <1>2, <1>3

(* A trap in the thread's turn: the stages are emptied, the PC goes to the *)
(* handler, and the write port saves where fetch stood.                    *)
LEMMA TrapStep ==
  ASSUME IInv, Next, NEW t \in Thread,
         Traps(t), ~PortTaken(t), ~Mispredicted(t), ~Returning(t)
  PROVE  /\ Oldest(t)' = csr[t].handler /\ csr'[t].epc = NextOf(t)
         /\ csr'[t].mpp = csr[t].mode /\ csr'[1 - t] = csr[1 - t]
<1>1. Advance /\ fetch_thread_id = t /\ ~Stall_Pipeline /\ Trap_Flush
  BY DEF Next, Hold, Traps, Trap_Flush
<1>2. Oldest(t)' = csr[t].handler
  <2>1. ~IF_ID'.live /\ ~ID_EX'.live /\ virt_pc' = NextPc
    BY <1>1, Moves
  <2>2. NextPc[t] = csr[t].handler
    BY <1>1 DEF NextPc, Traps
  <2> QED BY <2>1, <2>2 DEF Oldest
<1>3. PICK cause : csr' = [csr EXCEPT ![t] = Trapped(@, virt_pc[t], cause)]
  <2>1. ~Is(EX_MEM, {"csrw"}) /\ ~Is(ID_EX, {"ecall"}) /\ CsrEdge
    BY <1>1 DEF PortTaken, Advance, Always
  <2>2. CASE wires.ifault
    BY <1>1, <2>1, <2>2 DEF CsrEdge
  <2>3. CASE ~wires.ifault
    <3>1. TakeInterrupt(t) /\ ~wires.dfault /\ (t = 1 => ~TakeInterrupt(0))
      BY <2>3 DEF Traps, PortTaken, Thread
    <3>2. IrqPc(t) = virt_pc[t]
      BY <1>1 DEF IrqPc, IInv, InTurn
    <3>3. CASE t = 0
      BY <1>1, <2>1, <2>3, <3>1, <3>2, <3>3 DEF CsrEdge
    <3>4. CASE t = 1
      BY <1>1, <2>1, <2>3, <3>1, <3>2, <3>4 DEF CsrEdge
    <3> QED BY <3>3, <3>4 DEF Thread
  <2> QED BY <2>2, <2>3
<1>4. csr'[t] = Trapped(csr[t], virt_pc[t], cause) /\ csr'[1 - t] = csr[1 - t]
  <2>1. 1 - t \in Thread /\ 1 - t # t /\ csr \in [Thread -> CsrState]
    BY DEF Thread, IInv, TypeOK
  <2> QED BY <1>3, <2>1
<1>5. csr'[t].epc = virt_pc[t] /\ csr'[t].mpp = csr[t].mode
  <2>1. csr[t] \in CsrState
    BY DEF IInv, TypeOK
  <2> QED BY <1>4, <2>1 DEF Trapped, CsrState
<1> QED BY <1>1, <1>2, <1>4, <1>5, FetchedNext

(* A return without a trap: the PC is set when EXRET executes, waits while *)
(* the instruction behind EXRET moves up, and is fetched when that one     *)
(* executes.                                                               *)
LEMMA ReturnStep ==
  ASSUME IInv, Next, ~Trap_Flush, NEW t \in Thread
  PROVE  /\ Is(ID_EX, {"exret"}) /\ Executes(t) => virt_pc'[t] = csr[t].epc
         /\ InSlot(t) /\ ~Executes(t) =>
              virt_pc'[t] = virt_pc[t] /\ Oldest(t)' = Oldest(t)
         /\ InSlot(t) /\ Executes(t) /\ ~Branch_Taken_EX => Oldest(t)' = virt_pc[t]
<1>1. ASSUME Is(ID_EX, {"exret"}), Executes(t) PROVE virt_pc'[t] = csr[t].epc
  <2>1. Advance /\ ID_EX.thread = t
    BY <1>1 DEF Next, Hold, Executes
  <2> QED BY <1>1, <2>1, Moves DEF NextPc, Trap_Flush
<1>2. ASSUME InSlot(t), ~Executes(t) PROVE virt_pc'[t] = virt_pc[t] /\ Oldest(t)' = Oldest(t)
  <2>1. CASE Hold
    BY <2>1 DEF Hold, pipeVars, Oldest
  <2>2. CASE Advance
    <3>1. ~(ID_EX.live /\ ID_EX.thread = t)
      BY <1>2, <2>2 DEF Executes, Advance
    <3>2. IF_ID.live /\ IF_ID.thread = t /\ fetch_thread_id # t
      BY <1>2, <3>1 DEF InSlot, IInv, StagesAlternate
    <3>3. virt_pc'[t] = virt_pc[t]
      BY <2>2, <3>1, <3>2, PcMoves DEF Is, Branch_Taken_EX
    <3>4. ~WronglyTaken(t) /\ ~Returning(t)
      BY <3>1 DEF WronglyTaken, Returning, Is
    <3> QED BY <1>2, <3>3, <3>4, OrderStep DEF InOrderAt, NextOf
  <2> QED BY <2>1, <2>2 DEF Next
<1>3. ASSUME InSlot(t), Executes(t), ~Branch_Taken_EX PROVE Oldest(t)' = virt_pc[t]
  <2>1. Advance /\ ID_EX.live /\ ID_EX.thread = t /\ fetch_thread_id = t /\ ~Flush
    BY <1>3 DEF Next, Hold, Executes, IInv, InTurn, Flush
  <2>2. IF_ID'.live /\ IF_ID'.thread = t /\ IF_ID'.pc = virt_pc[t]
    BY <2>1, Moves
  <2>3. ~(ID_EX'.live /\ ID_EX'.thread = t)
    BY <2>1, Moves DEF IInv, StagesAlternate
  <2> QED BY <2>2, <2>3 DEF Oldest
<1> QED BY <1>1, <1>2, <1>3

LEMMA ResultStep ==
  ASSUME IInv, Advance
  PROVE  /\ Is(ID_EX, {"mul"}) => mul.stage3 = ID_EX.operand
         /\ Is(ID_EX, {"div"}) => div.quotient = ID_EX.operand
<1>1. ~MuldivStall /\ OpInAlu /\ MulInFlight /\ DivInFlight
  BY DEF Advance, Stall_Pipeline, IInv
<1>2. ASSUME Is(ID_EX, {"mul"}) PROVE mul.stage3 = ID_EX.operand
  BY <1>1, <1>2 DEF MuldivStall, OpInAlu, MulInFlight, AluOp, Is
<1>3. ASSUME Is(ID_EX, {"div"}) PROVE div.quotient = ID_EX.operand
  BY <1>1, <1>3 DEF MuldivStall, OpInAlu, DivInFlight, AluOp, Is
<1> QED BY <1>2, <1>3

-----------------------------------------------------------------------------
(* IInv holds in every reachable state of the core.                        *)
THEOREM Invariance == Spec => []IInv
BY InitInv, NextInv, PTL DEF Spec

(* Every register keeps its type: a PC wraps inside the instruction space, *)
(* and counters of the predictor, divider and memory stay in range.        *)
THEOREM TypeCorrect == Spec => []TypeOK
BY Invariance, PTL DEF IInv

(* Neighbouring stages hold different threads, so the load-use stall of    *)
(* hazard_unit.v never fires (NoLoadUse).                                  *)
THEOREM Alternation == Spec => []StagesAlternate
BY Invariance, PTL DEF IInv

(* Without traps, returns and wrong predictions each thread executes in    *)
(* program order, whatever the other thread, stalls and predictions do.    *)
THEOREM InOrder == Spec => ThreadsInOrder
<1>1. IInv /\ [Next]_vars =>
        [\A t \in Thread :
           ~Trap_Flush /\ ~WronglyTaken(t) /\ ~Returning(t) => InOrderAt(t)]_vars
  BY OrderStep
<1> QED BY <1>1, Invariance, PTL DEF Spec, ThreadsInOrder

(* The state that a fetch fault or an interrupt in the thread's turn saves *)
(* is the one from which the thread would have gone on, for any program,   *)
(* predictor and latencies, and its handler comes next.                    *)
THEOREM PreciseTraps == Spec => TrapsPrecise
<1>1. IInv /\ [Next]_vars =>
        [\A t \in Thread :
           Traps(t) /\ ~PortTaken(t) /\ ~Mispredicted(t) /\ ~Returning(t) =>
             /\ Oldest(t)' = csr[t].handler /\ csr'[t].epc = NextOf(t)
             /\ csr'[t].mpp = csr[t].mode /\ csr'[1 - t] = csr[1 - t]]_vars
  BY TrapStep
<1> QED BY <1>1, Invariance, PTL DEF Spec, TrapsPrecise

(* One instruction behind an EXRET executes and no second one: while no    *)
(* trap comes, and unless that one is a taken branch, the thread then goes *)
(* on at the EPC that EXRET read, whatever stalls in between.              *)
THEOREM Returns == Spec => ReturnsAfterSlot
<1>1. IInv /\ [Next]_vars =>
        [~Trap_Flush => \A t \in Thread :
           /\ Is(ID_EX, {"exret"}) /\ Executes(t) => virt_pc'[t] = csr[t].epc
           /\ InSlot(t) /\ ~Executes(t) =>
                virt_pc'[t] = virt_pc[t] /\ Oldest(t)' = Oldest(t)
           /\ InSlot(t) /\ Executes(t) /\ ~Branch_Taken_EX => Oldest(t)' = virt_pc[t]]_vars
  BY ReturnStep
<1> QED BY <1>1, Invariance, PTL DEF Spec, ReturnsAfterSlot

(* EX lets a multiplication or division go with the result of its own      *)
(* operands, whatever stalled, and however often it was restarted.         *)
THEOREM Results == Spec => ResultOfOperands
<1>1. IInv /\ [Next]_vars =>
        [Advance => /\ Is(ID_EX, {"mul"}) => mul.stage3 = ID_EX.operand
                    /\ Is(ID_EX, {"div"}) => div.quotient = ID_EX.operand]_vars
  BY ResultStep
<1> QED BY <1>1, Invariance, PTL DEF Spec, ResultOfOperands
=============================================================================
