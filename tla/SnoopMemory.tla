------------------------------ MODULE SnoopMemory ------------------------------
(***************************************************************************)
(* The data side of the AURORA-X SoC with every core at full speed: the    *)
(* private L1 caches, the round-robin snooping bus, the shared L2 and L3   *)
(* caches and main memory, advancing together on the rising edge of clk.   *)
(* The wires between registers are operators of the current state; a step  *)
(* is one clock cycle.                                                     *)
(*                                                                         *)
(* All addresses here decode to slave 0 of the bus (cache and memory).     *)
(***************************************************************************)
EXTENDS CacheController, Naturals

CONSTANTS
  NumCores,                   \* TOTAL_CORES
  L1Index, L2Index, L3Index,  \* the line each address maps to
  EnableL3,                   \* ENABLE_L3_CACHE
  LATENCY                     \* cycles of main memory before it answers

Cores == 0 .. NumCores - 1

ASSUME NumCoresAssumption == NumCores \in Nat \ {0}
ASSUME LatencyAssumption  == LATENCY \in Nat \ {0}
ASSUME EnableL3Assumption == EnableL3 \in BOOLEAN

VARIABLES
  req,       \* req[c]: the access in the MEM stage of core c
  rdata,     \* rdata[c]: the load value in the WB stage of core c
  l1st, l1,  \* state register and lines of the L1 of each core
  serving,   \* bus: a transaction is in progress
  current,   \* bus: current_master
  last,      \* bus: last_granted_master
  l2st, l2, l3st, l3,
  mem,       \* main memory
  memCount,  \* mem_latency_counter
  memReady, memData

coreVars == <<req, rdata, l1st, l1>>
busVars  == <<serving, current, last>>
memVars  == <<mem, memCount, memReady, memData>>
sysVars  == <<busVars, l2st, l2, l3st, l3, memVars>>
vars     == <<coreVars, sysVars>>

TypeOK ==
  /\ req \in [Cores -> Request]
  /\ rdata \in [Cores -> Vals \cup {Invalid}]
  /\ l1st \in [Cores -> State] /\ l1 \in [Cores -> Lines]
  /\ serving \in BOOLEAN /\ current \in Cores /\ last \in Cores
  /\ l2st \in State /\ l2 \in Lines /\ l3st \in State /\ l3 \in Lines
  /\ mem \in [Addrs -> Vals]
  /\ memCount \in 0 .. LATENCY /\ memReady \in BOOLEAN
  /\ memData \in Vals \cup {Invalid}

NoLines == [a \in Addrs |-> Invalid]

(* Reset: no instruction in MEM or WB, nothing in progress.  Memory holds  *)
(* any program and data.                                                   *)
ResetState ==
  /\ req \in [Cores -> {r \in Request : r.op = "none"}]
  /\ rdata = [c \in Cores |-> Invalid]
  /\ serving = FALSE /\ current = 0 /\ last = 0
  /\ l2st = "IDLE" /\ l2 = NoLines /\ l3st = "IDLE" /\ l3 = NoLines
  /\ mem \in [Addrs -> Vals]
  /\ memCount = 0 /\ memReady = FALSE /\ memData = Invalid

Init ==
  /\ ResetState
  /\ l1 = [c \in Cores |-> NoLines] /\ l1st = [c \in Cores |-> "IDLE"]

-----------------------------------------------------------------------------
(* Arbitration                                                             *)

(* The request core c drives onto the bus: data_we, data_re, data_addr.    *)
L1Request(c) == Downstream(l1st[c], l1[c], req[c])

Requesting(c) == L1Request(c).op # "none"

LowestFirst(c) == c   \* mutant: fixed priority

(* How far c is in the round-robin scan, which starts after the master     *)
(* granted last and wraps around.                                          *)
Distance(c) == IF c > last THEN c - last - 1 ELSE c + NumCores - last - 1

(* g is grant_idx: fixed during a transaction, and between transactions    *)
(* the first requester of the scan, or master 0 when there is none.        *)
Granted(g) ==
  IF serving THEN g = current
  ELSE IF \E c \in Cores : Requesting(c)
    THEN /\ Requesting(g)
         /\ \A c \in Cores : Requesting(c) => Distance(g) <= Distance(c)
    ELSE g = 0

-----------------------------------------------------------------------------
(* The path from the granted master down to memory, and the answers back   *)

L3Request(g) == Downstream(l2st, l2, L1Request(g))

MemRequest(g) ==
  IF EnableL3 THEN Downstream(l3st, l3, L3Request(g)) ELSE L3Request(g)

L3Ready(g) ==
  IF EnableL3 THEN Ready(l3st, l3, L3Request(g), memReady) ELSE memReady

L3Data(g) ==
  IF EnableL3 THEN ReadData(l3st, l3, L3Request(g), memData) ELSE memData

L2Ready(g) == Ready(l2st, l2, L1Request(g), L3Ready(g))

L2Data(g) == ReadData(l2st, l2, L1Request(g), L3Data(g))

(* m_ready[c]: only the granted master sees the slave's answer.            *)
BusReady(g, c) == c = g /\ L2Ready(g)

(* ~cache_stall of core c                                                  *)
CoreReady(g, c) == Ready(l1st[c], l1[c], req[c], BusReady(g, c))

SnoopedWhenDone(g, c, a) ==   \* mutant: the broadcast waits for memory
  /\ c # g /\ L1Request(g).op = "write" /\ L1Request(g).addr = a /\ L2Ready(g)

(* snoop_we[c] with snoop_addr = a: everyone but the writer hears of it.   *)
Snooped(g, c, a) ==
  c # g /\ L1Request(g).op = "write" /\ L1Request(g).addr = a

-----------------------------------------------------------------------------
(* Registers                                                               *)

NoSnoop(g, c) ==   \* mutant: the snoop port is not connected
  NextLines(l1st[c], l1[c], L1Index, req[c], BusReady(g, c), L2Data(g))

(* The L1 of c: the controller, and the snoop on top of it.  (A fill needs *)
(* the grant and a snoop needs another's, so they never meet.)             *)
L1NextLines(g, c) ==
  LET controlled == NextLines(l1st[c], l1[c], L1Index, req[c],
                              BusReady(g, c), L2Data(g))
  IN  [a \in Addrs |-> IF Snooped(g, c, a) THEN Invalid ELSE controlled[a]]

(* The cores of S whose access is answered: their pipelines move on.       *)
Moving(g, S) == {c \in S : CoreReady(g, c)}

(* The rising clock edge of the cores in S.  What the next instruction in  *)
(* MEM asks for is free.                                                   *)
CoreEdge(g, S) ==
  LET moving == Moving(g, S)
  IN  /\ \E next \in [moving -> Request] :
           req' = [c \in Cores |-> IF c \in moving THEN next[c] ELSE req[c]]
      /\ rdata' = [c \in Cores |->
                     IF c \notin moving THEN rdata[c]
                     ELSE IF req[c].op = "read"
                       THEN ReadData(l1st[c], l1[c], req[c], L2Data(g))
                       ELSE Invalid]
      /\ l1st' = [c \in Cores |->
                    IF c \in S
                      THEN NextState(l1st[c], l1[c], req[c], BusReady(g, c))
                      ELSE l1st[c]]
      /\ l1' = [c \in Cores |-> IF c \in S THEN L1NextLines(g, c) ELSE l1[c]]

SameStartBus(g) ==   \* mutant: last_granted_master is not updated
  IF serving
    THEN serving' = ~L2Ready(g) /\ UNCHANGED <<current, last>>
    ELSE IF Requesting(g)
      THEN serving' = TRUE /\ current' = g /\ UNCHANGED last
      ELSE UNCHANGED busVars

BusEdge(g) ==
  IF serving
    THEN serving' = ~L2Ready(g) /\ UNCHANGED <<current, last>>
    ELSE IF Requesting(g)
      THEN serving' = TRUE /\ current' = g /\ last' = g
      ELSE UNCHANGED busVars

L2Edge(g) ==
  /\ l2st' = NextState(l2st, l2, L1Request(g), L3Ready(g))
  /\ l2' = NextLines(l2st, l2, L2Index, L1Request(g), L3Ready(g), L3Data(g))

L3Edge(g) ==
  IF EnableL3
    THEN /\ l3st' = NextState(l3st, l3, L3Request(g), memReady)
         /\ l3' = NextLines(l3st, l3, L3Index, L3Request(g), memReady, memData)
    ELSE UNCHANGED <<l3st, l3>>

NoCounterReset(g) ==   \* mutant: the latency counter runs on after an answer
  LET r == MemRequest(g)
      answers == r.op # "none" /\ memCount = LATENCY
  IN  /\ memReady' = answers
      /\ memCount' = IF r.op = "none" THEN 0 ELSE memCount + 1
      /\ mem' = IF answers /\ r.op = "write"
                  THEN [mem EXCEPT ![r.addr] = r.data] ELSE mem
      /\ memData' = IF answers /\ r.op = "read" THEN mem[r.addr] ELSE memData

WriteThenRead(g) ==   \* mutant: mem_we is not looked at
  LET r == MemRequest(g)
      answers == r.op # "none" /\ memCount = LATENCY
  IN  /\ memReady' = answers
      /\ memCount' = IF r.op = "none" \/ answers THEN 0 ELSE memCount + 1
      /\ mem' = IF answers THEN [mem EXCEPT ![r.addr] = r.data] ELSE mem
      /\ memData' = IF answers /\ r.op = "read" THEN mem[r.addr] ELSE memData

(* Main memory answers with a one-cycle pulse, LATENCY + 1 cycles into an  *)
(* access; the counter also runs during the pulse.                         *)
MemEdge(g) ==
  LET r == MemRequest(g)
      answers == r.op # "none" /\ memCount = LATENCY
  IN  /\ memReady' = answers
      /\ memCount' = IF r.op = "none" \/ answers THEN 0 ELSE memCount + 1
      /\ mem' = IF answers /\ r.op = "write"
                  THEN [mem EXCEPT ![r.addr] = r.data] ELSE mem
      /\ memData' = IF answers /\ r.op = "read" THEN mem[r.addr] ELSE memData

SysEdge(g) == BusEdge(g) /\ L2Edge(g) /\ L3Edge(g) /\ MemEdge(g)

Cycle(g) == Granted(g) /\ CoreEdge(g, Cores) /\ SysEdge(g)

Next == \E g \in Cores : Cycle(g)

Spec == Init /\ [][Next]_vars

(* The clock runs forever.                                                 *)
FairSpec == Spec /\ WF_vars(Next)

-----------------------------------------------------------------------------
(* Safety                                                                  *)

(* The store that L2, L3 and memory are carrying out is to address a.      *)
Storing(a) == l2st = "WRITE" /\ req[current].addr = a

(* A valid L1 line holds what memory holds.  The one exception is the line *)
(* of a core whose own store to that address is still on its way: the hit  *)
(* was updated in the first cycle of the access (l1_cache.v:60-65), which  *)
(* may be long before the bus is granted.                                  *)
L1Coherent ==
  \A c \in Cores, a \in Addrs :
    Hit(l1[c], a) =>
      l1[c][a] = IF l1st[c] = "WRITE" /\ req[c].addr = a
                   THEN req[c].data ELSE mem[a]

(* While a store is under way no other core can hit on its address: every  *)
(* copy was invalidated by the snoop broadcast (ax_bus_scalable.v:171-173, *)
(* l1_cache.v:49-50) and none is filled back.                              *)
WriterExclusive ==
  \A a \in Addrs : Storing(a) =>
    \A c \in Cores \ {current} : ~Hit(l1[c], a)

(* The same for the shared caches, which update a hit in the first cycle   *)
(* of the store (l2_cache.v:44-46, l3_cache.v:58-61).                      *)
SharedCoherent ==
  \A a \in Addrs : \A lines \in {l2, l3} :
    Hit(lines, a) => lines[a] = IF Storing(a) THEN req[current].data ELSE mem[a]

(* The three state machines in series never disagree on what is under way: *)
(* a level that waits for the one below has a granted core waiting on it   *)
(* for the same kind of access, and no answer of memory finds its taker    *)
(* gone (it is a pulse of one cycle, and nothing would repeat it).         *)
Handshake ==
  /\ \A c \in Cores : /\ l1st[c] = "FETCH" => req[c].op = "read"
                      /\ l1st[c] = "WRITE" => req[c].op = "write"
  /\ l2st # "IDLE" => serving /\ l1st[current] = l2st
  /\ EnableL3 => /\ l3st = "FETCH" => l2st = "FETCH"
                 /\ l3st = "WRITE" <=> l2st = "WRITE"
  /\ ~EnableL3 => l3st = "IDLE" /\ l3 = NoLines
  /\ memReady =>
       /\ memCount = 0
       /\ l2st # "IDLE" /\ (EnableL3 => l3st = l2st)
       /\ l2st = "FETCH" => memData = mem[req[current].addr]
       /\ l2st = "WRITE" => req[current].data = mem[req[current].addr]

(* The cores cannot tell this system from one memory without caches: a     *)
(* load returns the current contents and a store takes effect once, in the *)
(* cycle in which main memory answers it.                                  *)
SM == INSTANCE SerialMemory WITH
        done <- [c \in Cores |-> memReady /\ l2st = "WRITE" /\ c = current]

OneMemory == SM!Spec

-----------------------------------------------------------------------------
(* Arbitration                                                             *)

(* Whenever the bus is granted to another master, a waiting core comes     *)
(* nearer to the head of the scan (ax_bus_scalable.v:100-115): it is       *)
(* overtaken at most NumCores - 1 times.                                   *)
BoundedBypass ==
  [][\A c \in Cores :
       ~serving /\ serving' /\ Requesting(c) /\ current' # c
         => Distance(c)' < Distance(c)]_vars

(* Every access that stalls its core is answered.                          *)
AccessCompletes ==
  \A c \in Cores : (l1st[c] # "IDLE") ~> (l1st[c] = "IDLE")
=============================================================================
