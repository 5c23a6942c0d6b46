------------------------------- MODULE MCSmtCore -------------------------------
(* Small instances of SmtCore for TLC: programs of a few instructions, each *)
(* with the external events that may come while it runs.                    *)
EXTENDS SmtCore, Sequences

I(op, arg) == [op |-> op, arg |-> arg]

Do(op)     == I(op, 0)
Branch(to) == I("branch", to)
Jump(to)   == I("jump", to)
Csrw(reg)  == I("csrw", reg)

(* A program from word 0, and jumps to 0 behind it.                         *)
Load(p) == [pc \in PC |-> IF pc < Len(p) THEN p[pc + 1] ELSE Jump(0)]

(* Without events: memory accesses, products and quotients around branches  *)
(* and jumps; with two BTB entries the branches push each other out.        *)
Loops ==
  {<<a, b, c, d>> : a \in {Do("store"), Do("mul"), Do("div")},
                    b \in {Do("mul"), Do("load"), Branch(0), Branch(3)},
                    c \in {Do("mul"), Branch(1)},
                    d \in {Jump(0), Branch(2)}}

(* A call whose handler is any of the operands, and a return.               *)
Calls == <<Csrw("handler"), Do("ecall"), Do("exret"), Do("alu")>>

(* Interrupts on and off: with a handler that returns while the wire stays  *)
(* high, and with none while it comes and goes.                             *)
Served  == <<Csrw("mie"), Do("exret"), Jump(0), Do("alu")>>
Ignored == <<Csrw("mie"), Jump(2), Jump(1), Do("alu")>>

(* Page faults of fetches, and of a store.                                  *)
Fetches == <<Do("alu"), Do("exret"), Do("alu"), Do("alu")>>
Stores  == <<Do("store"), Do("exret"), Do("alu"), Do("alu")>>

Quiet  == [irq |-> {}, ifault |-> FALSE, dfault |-> FALSE]
Timer  == [Quiet EXCEPT !.irq = {"timer"}]
IFault == [Quiet EXCEPT !.ifault = TRUE]
DFault == [Quiet EXCEPT !.dfault = TRUE]

With(programs, ev) == {[code |-> Load(p), events |-> ev] : p \in programs}

AllScenarios ==
  With(Loops \cup {Calls}, {Quiet}) \cup With({Served}, {Timer})
    \cup With({Ignored}, {Quiet, Timer})
    \cup With({Fetches}, {Quiet, IFault}) \cup With({Stores}, {Quiet, DFault})

(* One disagreement with the documents each: the wrong prediction and the   *)
(* flush of the other thread (ProgramOrder), ...                            *)
JustBranches == With({<<Do("alu"), Branch(0), Jump(0)>>}, {Quiet})
JustSwitches == With({Ignored}, {Quiet, Timer})

(* ... and the rules of traps, which JustSwitches breaks as well.  In       *)
(* JustReturns the slot of EXRET is word 0, and so is EPC; in JustSlots it  *)
(* is a jump, as in test_exceptions.s.                                      *)
JustCalls   == With({<<Csrw("handler"), Do("ecall")>>}, {Quiet})
JustStores  == With({<<Do("store"), Do("alu"), Do("alu"), Do("alu")>>}, {Quiet, DFault})
JustWrites  == With({<<Csrw("other"), Do("alu"), Do("alu"), Do("alu")>>}, {Quiet, IFault})
JustReturns == With({<<Do("alu"), Do("alu"), Do("load"), Do("exret")>>}, {Quiet})
JustSlots   == With({<<Do("alu"), Do("exret"), Jump(3), Do("alu")>>}, {Quiet})

Disordered == JustBranches \cup JustSwitches
Trapping   ==
  JustCalls \cup JustSwitches \cup JustStores \cup JustWrites \cup JustReturns \cup JustSlots
=============================================================================
