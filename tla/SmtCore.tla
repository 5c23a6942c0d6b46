-------------------------------- MODULE SmtCore --------------------------------
(***************************************************************************)
(* The pipeline of aurora_x_core.v: two hardware threads that take turns   *)
(* in IF and share ID, EX, MEM and WB, with the hazard unit, the branch    *)
(* predictor, the multiplier and divider, and the CSRs and traps of each   *)
(* thread.  A step is one edge of the core's clock.  Register contents are *)
(* left out: the operand that EX reads is any of Operands.  The core has   *)
(* the bus to itself, so that an access takes the latency of memory.       *)
(***************************************************************************)
EXTENDS Naturals, FiniteSets

CONSTANTS
  PcCount,        \* the words of the instruction space
  Scenarios,      \* programs, with what the other wires may do beside them
  HasBpu,         \* CORE_TYPE 0 or 2: the core has a branch predictor
  BtbEntries,     \* BTB_ENTRIES
  Operands,       \* abstract results of EX, read as a PC, a flag or a datum
  Latency,        \* cycles of memory before its answer
  DivCycles       \* iterations of the divider, 64

Thread == {0, 1}
PC     == 0 .. PcCount - 1
Mode   == {"user", "machine"}
Irq    == {"ext", "timer", "sw"}
Op     == {"alu", "mul", "div", "load", "store", "branch", "jump", "csrw", "ecall", "exret"}
CsrReg == {"mstatus", "mie", "epc", "cause", "handler", "other"}

(* ifault, dfault: tlb_miss or page_fault of the instruction and data MMU. *)
Wires == [irq : SUBSET Irq, ifault : BOOLEAN, dfault : BOOLEAN]

(* arg: the target of a branch or jump, the register of a CSR write.       *)
Instruction ==
  [op : {"branch", "jump"}, arg : PC] \cup [op : {"csrw"}, arg : CsrReg]
    \cup [op : Op \ {"branch", "jump", "csrw"}, arg : {0}]

ASSUME CoreAssumption ==
  /\ PcCount \in Nat \ {0} /\ BtbEntries \in Nat \ {0}
  /\ Latency \in Nat \ {0} /\ DivCycles \in Nat \ {0}
  /\ Scenarios \subseteq [code : [PC -> Instruction], events : SUBSET Wires]
  /\ HasBpu \in BOOLEAN
  /\ Operands \subseteq PC /\ 0 \in Operands

VARIABLES
  code,      \* instruction memory
  events,    \* the values that wires may have
  virt_pc, fetch_thread_id,
  IF_ID, ID_EX, EX_MEM, MEM_WB,   \* pipeline registers; a bubble is not live
  btb,       \* the predictor: the branch and the counter of each entry
  muldiv,    \* the start/ready state machine of EX
  mul, div,  \* ax_multiplier, ax_divider
  wait,      \* cycles until the L1 lets the access in MEM go
  csr,       \* CSRs and privilege mode of each thread
  mip,       \* csr_mip, the interrupt wires one cycle late
  wires      \* interrupt wires and results of the MMUs in this cycle

pipeVars == <<virt_pc, fetch_thread_id, IF_ID, ID_EX, EX_MEM, MEM_WB, btb>>
vars     == <<code, events, pipeVars, muldiv, mul, div, wait, csr, mip, wires>>

Cause    == {"none", "written", "ecall", "ipage", "dpage"} \cup Irq
CsrState == [mie : BOOLEAN, mpie : BOOLEAN, mpp : Mode, mode : Mode, enabled : SUBSET Irq,
             epc : PC, cause : Cause, handler : PC]

TypeOK ==
  /\ [code |-> code, events |-> events] \in Scenarios
  /\ virt_pc \in [Thread -> PC] /\ fetch_thread_id \in Thread
  /\ IF_ID \in [thread : Thread, pc : PC, live : BOOLEAN, taken : BOOLEAN]
  /\ ID_EX \in [thread : Thread, pc : PC, live : BOOLEAN, taken : BOOLEAN,
                alu : {"mul", "div", "other"}, operand : Operands]
  /\ EX_MEM \in [thread : Thread, pc : PC, live : BOOLEAN, operand : Operands]
  /\ MEM_WB \in [thread : Thread, pc : PC, live : BOOLEAN]
  /\ btb \in [0 .. BtbEntries - 1 -> [valid : BOOLEAN, pc : PC, counter : 0 .. 3]]
  /\ muldiv \in [state : {"idle", "mul", "div"}, start : BOOLEAN]
  /\ mul \in [valid0 : BOOLEAN, valid1 : BOOLEAN, ready : BOOLEAN,
              stage1 : Operands, stage2 : Operands, stage3 : Operands]
  /\ div \in [busy : BOOLEAN, count : 0 .. DivCycles - 1, ready : BOOLEAN,
              b : Operands, quotient : Operands]
  /\ wait \in 0 .. Latency + 1
  /\ csr \in [Thread -> CsrState] /\ mip \subseteq Irq /\ wires \in events

-----------------------------------------------------------------------------
(* Wires of the current cycle.                                             *)
Instr(s)   == code[s.pc]
Is(s, ops) == s.live /\ Instr(s).op \in ops

(* mutant: EX waits for the start only *)
StartStall ==
  ID_EX.alu # "other" /\ (muldiv.state # ID_EX.alu \/ muldiv.start)

MuldivStall ==
  \/ ID_EX.alu = "mul" /\ ~(muldiv.state = "mul" /\ mul.ready)
  \/ ID_EX.alu = "div" /\ ~(muldiv.state = "div" /\ div.ready)

CacheStall == Is(EX_MEM, {"load", "store"}) /\ wait > 0

Stall_Pipeline == CacheStall \/ MuldivStall

Branch_Taken_EX == Is(ID_EX, {"jump"}) \/ (Is(ID_EX, {"branch"}) /\ ID_EX.operand # 0)

Flush == Branch_Taken_EX /\ ~Stall_Pipeline

(* The registers of the two instructions are taken to match.               *)
Stall_IF_ID ==
  /\ ~Stall_Pipeline /\ ~Branch_Taken_EX
  /\ IF_ID.live /\ Is(ID_EX, {"load"}) /\ IF_ID.thread = ID_EX.thread

TakeInterrupt(t) ==
  csr[t].mie /\ (wires.irq \cap csr[t].enabled) \ {"sw"} # {}

Trap_Flush ==
  \/ wires.ifault \/ wires.dfault \/ Is(ID_EX, {"ecall"})
  \/ \E t \in Thread : TakeInterrupt(t)

NoWrap(pc) == pc + 1   \* mutant: addresses are one bit wider

PcPlus4(pc) == (pc + 1) % PcCount

(* mutant: the tag is not compared *)
Untagged(pc) ==
  LET e == btb[pc % BtbEntries] IN HasBpu /\ e.valid /\ e.counter >= 2

(* The predictor compares the tag, so that branches may share an entry.    *)
Predicts(pc) ==
  LET e == btb[pc % BtbEntries]
  IN  HasBpu /\ e.valid /\ e.pc = pc /\ e.counter >= 2

BtbTarget(pc) == code[btb[pc % BtbEntries].pc].arg

-----------------------------------------------------------------------------
(* Registers that move unless Stall_Pipeline.                              *)
(* mutant: threads change on a memory access only *)
SwitchOnAccess ==
  IF Is(EX_MEM, {"load", "store"}) THEN 1 - fetch_thread_id ELSE fetch_thread_id

NextTurn == 1 - fetch_thread_id

(* mutant: fetch goes on in the thread's turn, also when it returns *)
LateReturn ==
  [t \in Thread |->
     IF \/ wires.ifault /\ fetch_thread_id = t
        \/ wires.dfault /\ EX_MEM.thread = t
        \/ TakeInterrupt(t) /\ fetch_thread_id = t
       THEN csr[t].handler
     ELSE IF Branch_Taken_EX /\ ID_EX.thread = t THEN Instr(ID_EX).arg
     ELSE IF fetch_thread_id = t
       THEN IF Predicts(virt_pc[t]) THEN BtbTarget(virt_pc[t]) ELSE PcPlus4(virt_pc[t])
     ELSE IF Is(ID_EX, {"exret"}) /\ ID_EX.thread = t THEN csr[t].epc ELSE virt_pc[t]]

NextPc ==
  [t \in Thread |->
     IF \/ wires.ifault /\ fetch_thread_id = t
        \/ wires.dfault /\ EX_MEM.thread = t
        \/ TakeInterrupt(t) /\ fetch_thread_id = t
       THEN csr[t].handler
     ELSE IF Is(ID_EX, {"exret"}) /\ ID_EX.thread = t THEN csr[t].epc
     ELSE IF Branch_Taken_EX /\ ID_EX.thread = t THEN Instr(ID_EX).arg
     ELSE IF fetch_thread_id # t THEN virt_pc[t]
     ELSE IF Predicts(virt_pc[t]) THEN BtbTarget(virt_pc[t])
     ELSE PcPlus4(virt_pc[t])]

PcEdge ==
  IF Stall_IF_ID THEN UNCHANGED <<virt_pc, fetch_thread_id>>
                 ELSE virt_pc' = NextPc /\ fetch_thread_id' = NextTurn

IfIdEdge ==
  LET fetched == [thread |-> fetch_thread_id, pc |-> virt_pc[fetch_thread_id], live |-> TRUE,
                  taken |-> Predicts(virt_pc[fetch_thread_id])]
      held    == IF Stall_IF_ID THEN IF_ID ELSE fetched
      kill    == Trap_Flush \/ (Flush /\ ID_EX.thread = fetch_thread_id)
  IN  IF_ID' = IF kill THEN [held EXCEPT !.live = FALSE, !.taken = FALSE] ELSE held

AluOp(s) == IF Is(s, {"mul", "div"}) THEN Instr(s).op ELSE "other"

(* The instructions whose result a branch, a CSR, a unit or a trap takes.  *)
UsesOperand == {"branch", "csrw", "mul", "div", "load", "store"}

(* A bubble keeps ALU_Op, PC and operands of the instruction before it.    *)
IdExEdge ==
  IF Stall_IF_ID \/ Trap_Flush \/ (Flush /\ ID_EX.thread = IF_ID.thread)
    THEN ID_EX' = [ID_EX EXCEPT !.live = FALSE, !.taken = FALSE, !.thread = 0]
    ELSE \E v \in (IF IF_ID.live /\ Instr(IF_ID).op \in UsesOperand THEN Operands ELSE {0}) :
           ID_EX' = [thread |-> IF_ID.thread, pc |-> IF_ID.pc, live |-> IF_ID.live,
                     taken |-> IF_ID.taken, alu |-> AluOp(IF_ID), operand |-> v]

ExMemEdge ==
  /\ EX_MEM' = [thread |-> ID_EX.thread, pc |-> ID_EX.pc, live |-> ID_EX.live,
                operand |-> ID_EX.operand]
  /\ MEM_WB' = [thread |-> EX_MEM.thread, pc |-> EX_MEM.pc, live |-> EX_MEM.live]

BtbEdge ==
  LET i == ID_EX.pc % BtbEntries
      c == btb[i].counter
      counter == IF Branch_Taken_EX THEN (IF c = 3 THEN 3 ELSE c + 1)
                                    ELSE (IF c = 0 THEN 0 ELSE c - 1)
  IN  btb' = IF HasBpu /\ Is(ID_EX, {"branch", "jump"})
               THEN [btb EXCEPT ![i] = [valid |-> TRUE, pc |-> ID_EX.pc, counter |-> counter]]
               ELSE btb

-----------------------------------------------------------------------------
(* Registers that move in every cycle.                                     *)
(* mutant: the machine stays active when a result is ready *)
StickyEdge ==
  muldiv' = IF muldiv.state = "idle" /\ ID_EX.alu # "other"
              THEN [state |-> ID_EX.alu, start |-> TRUE] ELSE [muldiv EXCEPT !.start = FALSE]

MuldivEdge ==
  muldiv' =
    CASE muldiv.state = "idle" /\ ID_EX.alu # "other" -> [state |-> ID_EX.alu, start |-> TRUE]
      [] muldiv.state = "mul" -> [state |-> IF mul.ready THEN "idle" ELSE "mul", start |-> FALSE]
      [] muldiv.state = "div" -> [state |-> IF div.ready THEN "idle" ELSE "div", start |-> FALSE]
      [] OTHER -> muldiv

MulEdge ==
  LET start == muldiv.state = "mul" /\ muldiv.start
  IN  mul' = [valid0 |-> start, valid1 |-> mul.valid0, ready |-> mul.valid1,
              stage1 |-> IF start THEN ID_EX.operand ELSE mul.stage1,
              stage2 |-> IF mul.valid0 THEN mul.stage1 ELSE mul.stage2,
              stage3 |-> IF mul.valid1 THEN mul.stage2 ELSE mul.stage3]

(* The operand is the divisor; a quotient is named after it.               *)
DivEdge ==
  LET start == muldiv.state = "div" /\ muldiv.start /\ ~div.busy
  IN  div' =
        CASE start /\ ID_EX.operand = 0 -> [div EXCEPT !.quotient = 0, !.ready = TRUE]
          [] start /\ ID_EX.operand # 0 -> [div EXCEPT !.b = ID_EX.operand, !.ready = FALSE,
                                              !.count = DivCycles - 1, !.busy = TRUE]
          [] div.busy /\ div.count = 0  -> [div EXCEPT !.quotient = div.b, !.ready = TRUE,
                                              !.busy = FALSE]
          [] div.busy /\ div.count # 0  -> [div EXCEPT !.count = div.count - 1]
          [] OTHER                      -> [div EXCEPT !.ready = FALSE]

(* A load may hit.  A store that is answered while EX holds the pipeline   *)
(* is issued again, and memory has already counted its first cycle.        *)
WaitEdge ==
  IF Stall_Pipeline
    THEN wait' = IF wait > 0 THEN wait - 1
                 ELSE IF Is(EX_MEM, {"store"}) THEN Latency ELSE 0
    ELSE wait' \in (IF Is(ID_EX, {"load", "store"}) THEN {Latency + 1} ELSE {0})
                     \cup (IF Is(ID_EX, {"load"}) THEN {0} ELSE {})

Trapped(c, pc, cause) ==
  [c EXCEPT !.epc = pc, !.cause = cause, !.mpie = c.mie, !.mie = FALSE,
            !.mpp = c.mode, !.mode = "machine"]

Returned(c) ==
  [c EXCEPT !.mie = c.mpie, !.mpie = TRUE, !.mode = c.mpp, !.mpp = "user"]

Written(c, reg, v) ==
  CASE reg = "mstatus" -> [c EXCEPT !.mie = v # 0, !.mpie = v # 0,
                                    !.mpp = IF v = 0 THEN "user" ELSE "machine"]
    [] reg = "mie"     -> [c EXCEPT !.enabled = IF v = 0 THEN {} ELSE Irq]
    [] reg = "epc"     -> [c EXCEPT !.epc = v]
    [] reg = "cause"   -> [c EXCEPT !.cause = "written"]
    [] reg = "handler" -> [c EXCEPT !.handler = v]
    [] OTHER           -> c

(* The cause comes from csr_mip, the decision from the wires.              *)
IrqCause(t) ==
  LET pending == mip \cap csr[t].enabled
  IN  CASE "ext" \in pending   -> "ext"
        [] "ext" \notin pending /\ "timer" \in pending -> "timer"
        [] pending = {"sw"}    -> "sw"
        [] OTHER               -> csr[t].cause

(* mutant: whoever is in IF/ID *)
AnyIrqPc(t) == IF_ID.pc

IrqPc(t) == IF IF_ID.thread = t THEN IF_ID.pc ELSE virt_pc[t]

(* One write port: the first that applies.                                 *)
CsrEdge ==
  LET f == fetch_thread_id
      irq(t) == TakeInterrupt(t) /\ ~Stall_Pipeline
  IN  csr' =
    IF Is(EX_MEM, {"csrw"})
      THEN [csr EXCEPT ![EX_MEM.thread] = Written(@, Instr(EX_MEM).arg, EX_MEM.operand)]
    ELSE IF Is(ID_EX, {"ecall"})
      THEN [csr EXCEPT ![ID_EX.thread] = Trapped(@, ID_EX.pc, "ecall")]
    ELSE IF wires.ifault /\ ~Stall_Pipeline
      THEN [csr EXCEPT ![f] = Trapped(@, virt_pc[f], "ipage")]
    ELSE IF wires.dfault /\ ~Stall_Pipeline
      THEN [csr EXCEPT ![EX_MEM.thread] = Trapped(@, EX_MEM.operand, "dpage")]
    ELSE IF irq(0) THEN [csr EXCEPT ![0] = Trapped(@, IrqPc(0), IrqCause(0))]
    ELSE IF irq(1) THEN [csr EXCEPT ![1] = Trapped(@, IrqPc(1), IrqCause(1))]
    ELSE IF Is(ID_EX, {"exret"}) THEN [csr EXCEPT ![ID_EX.thread] = Returned(@)]
    ELSE csr

-----------------------------------------------------------------------------
Init ==
  /\ \E s \in Scenarios : code = s.code /\ events = s.events
  /\ virt_pc = [t \in Thread |-> 0] /\ fetch_thread_id = 0
  /\ IF_ID \in [thread : Thread, pc : {0}, live : {FALSE}, taken : {FALSE}]
  /\ ID_EX \in [thread : {0}, pc : {0}, live : {FALSE}, taken : {FALSE},
                alu : {"mul", "div", "other"}, operand : {0}]
  /\ EX_MEM = [thread |-> 0, pc |-> 0, live |-> FALSE, operand |-> 0]
  /\ MEM_WB = [thread |-> 0, pc |-> 0, live |-> FALSE]
  /\ btb = [i \in 0 .. BtbEntries - 1 |-> [valid |-> FALSE, pc |-> 0, counter |-> 1]]
  /\ muldiv = [state |-> "idle", start |-> FALSE]
  /\ mul = [valid0 |-> FALSE, valid1 |-> FALSE, ready |-> FALSE,
            stage1 |-> 0, stage2 |-> 0, stage3 |-> 0]
  /\ div = [busy |-> FALSE, count |-> 0, ready |-> FALSE, b |-> 0, quotient |-> 0]
  /\ wait = 0
  /\ csr = [t \in Thread |-> [mie |-> TRUE, mpie |-> FALSE, mpp |-> "user",
                              mode |-> "machine", enabled |-> {}, epc |-> 0,
                              cause |-> "none", handler |-> 0]]
  /\ mip = {} /\ wires \in events

Always ==
  /\ MuldivEdge /\ MulEdge /\ DivEdge /\ WaitEdge /\ CsrEdge
  /\ mip' = wires.irq /\ wires' \in events /\ UNCHANGED <<code, events>>

Advance ==
  /\ ~Stall_Pipeline
  /\ PcEdge /\ IfIdEdge /\ IdExEdge /\ ExMemEdge /\ BtbEdge /\ Always

Hold == Stall_Pipeline /\ Always /\ UNCHANGED pipeVars

Next == Advance \/ Hold

Spec == Init /\ [][Next]_vars

FairSpec == Spec /\ WF_vars(Next)

-----------------------------------------------------------------------------
(* The oldest instruction of thread t that has not passed EX.              *)
Oldest(t) ==
  IF ID_EX.live /\ ID_EX.thread = t THEN ID_EX.pc
  ELSE IF IF_ID.live /\ IF_ID.thread = t THEN IF_ID.pc ELSE virt_pc[t]

Executes(t) == ID_EX.live /\ ID_EX.thread = t /\ ~Stall_Pipeline

Successor == IF Branch_Taken_EX THEN Instr(ID_EX).arg ELSE PcPlus4(ID_EX.pc)

(* What thread t executes next in program order, after this edge.          *)
NextOf(t) == IF Executes(t) THEN Successor ELSE Oldest(t)

InOrderAt(t) == Oldest(t)' = NextOf(t)

(* A branch that was predicted taken and is not, and one that fetch did    *)
(* not follow in either way.                                               *)
WronglyTaken(t) ==
  Is(ID_EX, {"branch"}) /\ ID_EX.thread = t /\ ID_EX.taken /\ ~Branch_Taken_EX

Mispredicted(t) ==
  Is(ID_EX, {"branch", "jump"}) /\ ID_EX.thread = t /\ ID_EX.taken # Branch_Taken_EX

(* EX holds an EXRET or the instruction that was fetched after one.        *)
Returning(t) ==
  /\ ID_EX.live /\ ID_EX.thread = t
  /\ Is(ID_EX, {"exret"}) \/ (Is(MEM_WB, {"exret"}) /\ MEM_WB.thread = t)

(* The instruction behind an EXRET that has left EX, until it leaves EX.   *)
InSlot(t) ==
  \/ Is(EX_MEM, {"exret"}) /\ EX_MEM.thread = t /\ IF_ID.live /\ IF_ID.thread = t
  \/ Is(MEM_WB, {"exret"}) /\ MEM_WB.thread = t /\ ID_EX.live /\ ID_EX.thread = t

(* Thread t, whose turn it is, traps on its fetch or on an interrupt; and  *)
(* something else is written to the CSRs at this edge.                     *)
Traps(t) == fetch_thread_id = t /\ ~Stall_Pipeline /\ (wires.ifault \/ TakeInterrupt(t))

PortTaken(t) ==
  \/ Is(EX_MEM, {"csrw"}) \/ Is(ID_EX, {"ecall"})
  \/ ~wires.ifault /\ (wires.dfault \/ \E u \in Thread : u < t /\ TakeInterrupt(u))

(* Thread t itself has a reason to trap.                                   *)
TrapOf(t) ==
  \/ wires.ifault /\ fetch_thread_id = t
  \/ wires.dfault /\ EX_MEM.thread = t
  \/ Is(ID_EX, {"ecall"}) /\ ID_EX.thread = t
  \/ TakeInterrupt(t)

(* Traps, returns and wrong predictions apart, each thread passes its      *)
(* instructions through EX one by one in program order, whatever the other *)
(* thread does, across stalls, flushes and right predictions.              *)
ThreadsInOrder ==
  [][\A t \in Thread :
       ~Trap_Flush /\ ~WronglyTaken(t) /\ ~Returning(t) => InOrderAt(t)]_vars

(* Neighbouring stages never hold instructions of one thread, whatever was *)
(* stalled, flushed or trapped: so no load-use stall is ever needed, and a *)
(* taken branch has just one instruction behind it to kill.                *)
StagesAlternate ==
  /\ IF_ID.live => IF_ID.thread # fetch_thread_id
  /\ IF_ID.live /\ ID_EX.live => ID_EX.thread # IF_ID.thread
  /\ ID_EX.live /\ EX_MEM.live => EX_MEM.thread # ID_EX.thread

(* The product or quotient that EX takes is the one of its own operands.   *)
ResultOfOperands ==
  [][Advance => /\ Is(ID_EX, {"mul"}) => mul.stage3 = ID_EX.operand
                /\ Is(ID_EX, {"div"}) => div.quotient = ID_EX.operand]_vars

(* A fault of a fetch, and an interrupt in the thread's turn, is precise:  *)
(* EPC is where the thread would have gone on, whatever was in the stages, *)
(* its next instruction is the handler's first, and the mode it was in is  *)
(* saved.  The other thread's CSRs are left alone.                         *)
TrapsPrecise ==
  [][\A t \in Thread :
       Traps(t) /\ ~PortTaken(t) /\ ~Mispredicted(t) /\ ~Returning(t) =>
         /\ Oldest(t)' = csr[t].handler /\ csr'[t].epc = NextOf(t)
         /\ csr'[t].mpp = csr[t].mode /\ csr'[1 - t] = csr[1 - t]]_vars

(* What remains of ReturnsAtOnce (below), which is violated: one            *)
(* instruction behind an EXRET still executes, but never a second one.     *)
(* Unless a trap comes, or that instruction is a taken branch, the thread  *)
(* then goes on at the EPC that EXRET read, whatever stalls in between.    *)
ReturnsAfterSlot ==
  [][~Trap_Flush => \A t \in Thread :
       /\ Is(ID_EX, {"exret"}) /\ Executes(t) => virt_pc'[t] = csr[t].epc
       /\ InSlot(t) /\ ~Executes(t) =>
            virt_pc'[t] = virt_pc[t] /\ Oldest(t)' = Oldest(t)
       /\ InSlot(t) /\ Executes(t) /\ ~Branch_Taken_EX => Oldest(t)' = virt_pc[t]]_vars

(* Once no more traps come, both threads keep executing, even when a store *)
(* in MEM is repeated while EX multiplies or divides.                      *)
ThreadsRun == \A t \in Thread : <>[]~Trap_Flush => []<>Executes(t)

(* What the documents say, and the code does not do.  A thread that does   *)
(* not itself trap or return goes on in order: a wrong prediction flushes  *)
(* what it fetched (docs/Hardware_Architecture.md:54), and a trap of the   *)
(* other thread does not touch it ("selective thread flushes",             *)
(* README.md:21).  ThreadsInOrder is what remains of it.                   *)
ProgramOrder ==
  [][\A t \in Thread : ~TrapOf(t) /\ ~Returning(t) => InOrderAt(t)]_vars

(* docs/ISA_Specification.md, section 6.  A trap jumps to the handler      *)
(* (line 131), be it a system call ...                                     *)
CallsEnterHandler ==
  \A t \in Thread :
    Executes(t) /\ Is(ID_EX, {"ecall"}) => Oldest(t)' = csr[t].handler

(* ... or an interrupt that the CSRs of a thread record;                   *)
InterruptsEnterHandler ==
  \A t \in Thread :
    TakeInterrupt(t) /\ ~Stall_Pipeline /\ ~PortTaken(t) /\ ~wires.ifault =>
      Oldest(t)' = csr[t].handler

(* what it saves in EPC is a program counter (line 129), that of the       *)
(* faulting instruction (AURORA-X-Demos/04_OS_Kernel.s:61);                *)
FaultsSavePc ==
  wires.dfault /\ Is(EX_MEM, {"load", "store"}) /\ ~Stall_Pipeline
    /\ ~Is(ID_EX, {"ecall"}) /\ ~wires.ifault =>
      csr'[EX_MEM.thread].epc = EX_MEM.pc

(* so is that of a fetch that faults, whoever else writes a CSR then;      *)
FetchFaultsSavePc ==
  wires.ifault /\ ~Stall_Pipeline /\ ~Is(ID_EX, {"ecall"}) =>
    csr'[fetch_thread_id].epc = virt_pc[fetch_thread_id]

(* state is restored by executing EXRET (line 132), not while it waits,    *)
RestoredOnce ==
  Hold /\ Is(ID_EX, {"exret"}) /\ ~Is(EX_MEM, {"csrw"}) => UNCHANGED csr

(* and so is the PC: nothing behind an EXRET executes, the thread goes on  *)
(* at EPC (AURORA-X-Tests/test_exceptions.s:32).                           *)
ReturnsAtOnce ==
  \A t \in Thread :
    ~Trap_Flush /\ Executes(t) /\ Is(ID_EX, {"exret"}) => Oldest(t)' = csr[t].epc

(* Traps and returns keep to these six rules.                              *)
TrapRules ==
  [][/\ CallsEnterHandler /\ InterruptsEnterHandler
     /\ FaultsSavePc /\ FetchFaultsSavePc
     /\ RestoredOnce /\ ReturnsAtOnce]_vars
=============================================================================
