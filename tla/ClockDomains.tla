----------------------------- MODULE ClockDomains -----------------------------
(***************************************************************************)
(* SnoopMemory with the clocks the cores really have: ax_pmu.v divides and *)
(* gates the clock of each core (pipeline, L1 and snoop port), while the   *)
(* bus, L2, L3 and memory stay on clk.  A step is one edge of clk; the     *)
(* divided clocks rise on falling edges of clk.                            *)
(***************************************************************************)
EXTENDS SnoopMemory

CONSTANTS
  ResetDiv,       \* FREQ_DIV_*_CORE: the divider of each core after reset
  PmuWords,       \* the words software writes to CSR 0x800
  NoWord,
  PowerUpLines,   \* the L1 arrays that reset may leave behind
  PowerUpStates   \* the L1 state registers that reset may leave behind

Div == 0 .. 3
PmuCtrl == [en : [Cores -> BOOLEAN], div : [Cores -> Div]]

ASSUME ClockAssumption ==
  /\ ResetDiv \in [Cores -> Div]
  /\ PmuWords \subseteq PmuCtrl /\ NoWord \notin PmuWords
  /\ PowerUpLines \subseteq Lines /\ PowerUpStates \subseteq State

VARIABLES
  clk,        \* the level of the system clock
  divCount,   \* div_counter, the same in every core
  pmu,        \* pmu_ctrl: enable bits and divider selections
  divSel,     \* div_sel_sync
  enSync,     \* core_en_sync
  csr         \* csr[c]: the word a CSR.WRITE 0x800 in MEM of core c carries

clockVars == <<clk, divCount, pmu, divSel, enSync>>
allVars   == <<vars, clockVars, csr>>

ClockTypeOK ==
  /\ TypeOK
  /\ clk \in BOOLEAN /\ divCount \in 0 .. 7 /\ pmu \in PmuCtrl
  /\ divSel \in [Cores -> Div] /\ enSync \in [Cores -> BOOLEAN]
  /\ csr \in [Cores -> PmuWords \cup {NoWord}]

(* Reset holds core_en_sync, and with it every core clock, at 0, so the    *)
(* synchronous reset of l1_cache.v:41-43 never sees an edge: the L1s keep  *)
(* their power-up contents.  Either edge of clk may come first.            *)
ClockInit ==
  /\ ResetState
  /\ l1 \in [Cores -> PowerUpLines] /\ l1st \in [Cores -> PowerUpStates]
  /\ clk \in BOOLEAN /\ divCount = 0
  /\ pmu = [en |-> [c \in Cores |-> TRUE], div |-> ResetDiv]
  /\ divSel = [c \in Cores |-> 0] /\ enSync = [c \in Cores |-> FALSE]
  /\ csr = [c \in Cores |-> NoWord]

-----------------------------------------------------------------------------
(* clk_cores[c], from the level of clk, div_counter, div_sel_sync and      *)
(* core_en_sync.                                                           *)
ClockLevel(level, count, sel, en) ==
  en /\ IF sel = 0 THEN level ELSE (count \div 2^(sel - 1)) % 2 = 1

RisesWithClk ==
  {c \in Cores : /\ ~ClockLevel(FALSE, divCount, divSel[c], enSync[c])
                 /\ ClockLevel(TRUE, divCount, divSel[c], enSync[c])}

(* On the falling edge the counter moves and the selections are sampled.   *)
NextCount == (divCount + 1) % 8

RisesWithFall ==
  {c \in Cores : /\ ~ClockLevel(FALSE, divCount, divSel[c], enSync[c])
                 /\ ClockLevel(FALSE, NextCount, pmu.div[c], pmu.en[c])}

(* An instruction that enters MEM accesses memory, writes the PMU's CSR,   *)
(* or does neither.                                                        *)
CsrEdge(g, S) ==
  /\ \E next \in [Moving(g, S) -> PmuWords \cup {NoWord}] :
       csr' = [c \in Cores |-> IF c \in Moving(g, S) THEN next[c] ELSE csr[c]]
  /\ \A c \in Cores : csr'[c] # NoWord => req'[c].op = "none"

(* A write replaces the whole register; of several writers in one cycle    *)
(* the one with the highest index wins.                                    *)
PmuEdge ==
  LET writers == {c \in Cores : csr[c] # NoWord}
  IN  pmu' = IF writers = {} THEN pmu
             ELSE csr[CHOOSE c \in writers : \A d \in writers : d <= c]

ClkRises ==
  /\ ~clk /\ clk' = TRUE
  /\ \E g \in Cores : /\ Granted(g) /\ SysEdge(g)
                      /\ CoreEdge(g, RisesWithClk) /\ CsrEdge(g, RisesWithClk)
  /\ PmuEdge
  /\ UNCHANGED <<divCount, divSel, enSync>>

ClkFalls ==
  /\ clk /\ clk' = FALSE
  /\ \E g \in Cores : /\ Granted(g)
                      /\ CoreEdge(g, RisesWithFall) /\ CsrEdge(g, RisesWithFall)
  /\ divCount' = NextCount /\ divSel' = pmu.div /\ enSync' = pmu.en
  /\ UNCHANGED <<sysVars, pmu>>

ClockNext == ClkRises \/ ClkFalls

ClockSpec == ClockInit /\ [][ClockNext]_allVars

FairClockSpec == ClockSpec /\ WF_allVars(ClockNext)

-----------------------------------------------------------------------------
(* The cores whose clock rises in this step.                               *)
Rising == IF clk THEN RisesWithFall ELSE RisesWithClk

(* A load returns what memory holds when it completes.                     *)
LoadCurrent ==
  [][\A g \in Cores : Granted(g) =>
       \A c \in Moving(g, Rising) :
         req[c].op = "read" =>
           ReadData(l1st[c], l1[c], req[c], L2Data(g)) = mem[req[c].addr]]_allVars

(* Whatever the clocks do, a core is told that its store is done only when *)
(* memory holds the data.                                                  *)
StoreDurable ==
  [][\A g \in Cores : Granted(g) =>
       \A c \in Moving(g, Rising) :
         req[c].op = "write" => mem[req[c].addr] = req[c].data]_allVars

(* Memory changes only to what some core asks to store there.              *)
MemoryFromStores ==
  [][\A a \in Addrs : mem'[a] # mem[a] =>
       \E c \in Cores : /\ req[c].op = "write" /\ req[c].addr = a
                        /\ req[c].data = mem'[a]]_allVars

(* An access of the full-speed core that stalls it is answered, whatever   *)
(* clock the other core has (ax_bus_scalable.v:96-98).                     *)
FullSpeedCompletes == (l1st[0] # "IDLE") ~> (l1st[0] = "IDLE")
=============================================================================
