--------------------------- MODULE ClockDomains_proof ---------------------------
(***************************************************************************)
(* The proofs about ClockDomains, for any number of cores, dividers, PMU   *)
(* words, addresses, values, line mappings and latency.                    *)
(***************************************************************************)
EXTENDS ClockDomains, SnoopMemory_proof, WellFoundedInduction

(* A nonempty set of numbers with a bound has a greatest one.              *)
LEMMA HighestOf ==
  ASSUME NEW n \in Nat, NEW W \in SUBSET (0 .. n), W # {}
  PROVE  (CHOOSE c \in W : \A d \in W : d <= c) \in W
<1> DEFINE T == {n - c : c \in W}
           R == {p \in Nat \X Nat : p[1] < p[2]}
<1>1. T \subseteq Nat
  OBVIOUS
<1>2. T # {}
  OBVIOUS
<1>3. PICK t \in T : \A u \in T : ~(<<u, t>> \in R)
  <2>1. R = OpToRel(<, Nat)
    BY Zenon DEF OpToRel
  <2>2. IsWellFoundedOn(R, Nat)
    BY <2>1, NatLessThanWellFounded, Zenon
  <2> HIDE DEF R, T
  <2>3. QED
    BY <1>1, <1>2, <2>2, WFMin, Zenon
<1>4. \A u \in T : ~(u < t)
  <2>1. \A a, b \in Nat : a < b => <<a, b>> \in R
    OBVIOUS
  <2> HIDE DEF R, T
  <2>2. QED
    BY <1>1, <1>3, <2>1
<1>5. PICK c \in W : t = n - c
  BY <1>3
<1>6. \A d \in W : d <= c
  <2>1. \A d \in W : n - d \in T
    OBVIOUS
  <2> HIDE DEF T
  <2>2. QED
    BY <1>4, <1>5, <2>1
<1>7. QED
  BY <1>6

USE ClockAssumption, NumCoresAssumption, LatencyAssumption, EnableL3Assumption,
    InvalidAssumption

(* The one thing asked of the power-up contents: no L1 comes up in WRITE,  *)
(* where it would store whatever its address and data lines carry.         *)
CleanPowerUp == "WRITE" \notin PowerUpStates

(* A core whose divider is 0 after reset and in every word software writes *)
(* is only ever gated: its clock rises with clk or not at all.             *)
AlwaysFull(c) == ResetDiv[c] = 0 /\ \A w \in PmuWords : w.div[c] = 0

(* The cores whose stores are proved to last.                              *)
Trusted(c) == ~EnableL3 \/ AlwaysFull(c)

(* While memory's pulse is visible and clk is low, a core whose clock does *)
(* not rise with clk may have taken the answer at the fall already.        *)
Kept(c) == ~memReady \/ clk \/ c \in RisesWithClk

-----------------------------------------------------------------------------
(* The inductive invariant                                                 *)

L1Waits ==
  \A c \in Cores : /\ l1st[c] = "WRITE" => req[c].op = "write"
                   /\ l1st[c] = "FETCH" => req[c].op # "write"

FullStaysFull == \A c \in Cores : AlwaysFull(c) => pmu.div[c] = 0 /\ divSel[c] = 0

(* The levels below the bus are in step with each other ...                *)
LevelsAgree ==
  /\ l2st # "IDLE" => serving
  /\ EnableL3 => /\ l3st = "FETCH" => l2st = "FETCH"
                 /\ l3st = "WRITE" <=> l2st = "WRITE"
  /\ memReady => memCount = 0 /\ l2st # "IDLE" /\ (EnableL3 => l3st = l2st)

(* ... and with the granted core, until it may have taken the answer.      *)
WriteWaits ==
  l2st = "WRITE" /\ Kept(current) =>
    /\ req[current].op = "write"
    /\ memReady => mem[req[current].addr] = req[current].data

FetchWaits ==
  l2st = "FETCH" /\ Kept(current) /\ Trusted(current) =>
    L1Request(current).op = "read"

CInv == /\ ClockTypeOK /\ L1Waits /\ FullStaysFull
        /\ LevelsAgree /\ WriteWaits /\ FetchWaits

-----------------------------------------------------------------------------
(* The clocks                                                              *)

(* No core's clock rises on a falling edge of clk and again, or instead,   *)
(* on the rising edge behind it.                                           *)
LEMMA EdgesDisjoint ==
  ASSUME ClkFalls, NEW c \in Cores, (c \in RisesWithClk)'
  PROVE  c \notin RisesWithFall
BY DEF ClkFalls, RisesWithClk, RisesWithFall

(* A divider of 0 passes clk through.                                      *)
LEMMA FullRisesWithClk ==
  ASSUME NEW c \in Cores, pmu.div[c] = 0
  PROVE  c \notin RisesWithFall
<1>1. ~ClockLevel(FALSE, NextCount, 0, pmu.en[c])
  BY DEF ClockLevel
<1>2. QED
  BY <1>1 DEF RisesWithFall

-----------------------------------------------------------------------------
(* The wires                                                               *)

(* A write on the bus is the access of a core in MEM.                      *)
LEMMA ClockPort ==
  ASSUME CInv, NEW c \in Cores
  PROVE  /\ req[c] \in Request /\ req[c].addr \in Addrs
         /\ req[c].op = "write" => req[c].data \in Vals
         /\ L1Request(c).addr = req[c].addr
         /\ L1Request(c).data = req[c].data
         /\ L1Request(c).op \in {"none", "read", "write"}
         /\ L1Request(c).op = "write" <=> req[c].op = "write"
<1>1. req[c] \in Request /\ l1st[c] \in State
  BY DEF CInv, ClockTypeOK, TypeOK
<1>2. /\ l1st[c] = "WRITE" => req[c].op = "write"
      /\ l1st[c] = "FETCH" => req[c].op # "write"
  BY DEF CInv, L1Waits
<1>3. QED
  BY <1>1, <1>2, RequestFields DEF L1Request, Downstream, State

(* What L3 and memory are asked, and that a write is answered by memory.   *)
LEMMA ClockPath ==
  ASSUME CInv, NEW g \in Cores, Granted(g)
  PROVE  /\ l2st # "IDLE" => g = current
         /\ L3Request(g).addr = req[g].addr /\ L3Request(g).data = req[g].data
         /\ MemRequest(g).addr = req[g].addr /\ MemRequest(g).data = req[g].data
         /\ L3Request(g).op = "write" <=>
              l2st = "WRITE" \/ (l2st = "IDLE" /\ req[g].op = "write")
         /\ l2st = "FETCH" => L3Request(g).op = "read"
         /\ MemRequest(g).op = "write" <=> L3Request(g).op = "write"
         /\ MemRequest(g).op = "read" => L3Request(g).op = "read"
         /\ MemRequest(g).op \in {"none", "read", "write"}
         /\ L3Request(g).op = "write" => (L3Ready(g) <=> memReady)
<1>1. /\ l2st \in State /\ l3st \in State /\ EnableL3 \in BOOLEAN
      /\ memReady \in BOOLEAN
  BY DEF CInv, ClockTypeOK, TypeOK
<1>2. l2st # "IDLE" => g = current
  BY DEF CInv, LevelsAgree, Granted
<1>3. /\ L3Request(g).addr = req[g].addr /\ L3Request(g).data = req[g].data
      /\ L3Request(g).op = "write" <=>
           l2st = "WRITE" \/ (l2st = "IDLE" /\ req[g].op = "write")
      /\ l2st = "FETCH" => L3Request(g).op = "read"
      /\ L3Request(g).op \in {"none", "read", "write"}
  BY <1>1, ClockPort DEF L3Request, Downstream, State
<1>4. /\ l3st = "FETCH" /\ EnableL3 => l2st = "FETCH"
      /\ EnableL3 => (l3st = "WRITE" <=> l2st = "WRITE")
  BY DEF CInv, LevelsAgree
<1>5. /\ MemRequest(g).addr = req[g].addr /\ MemRequest(g).data = req[g].data
      /\ MemRequest(g).op = "write" <=> L3Request(g).op = "write"
      /\ MemRequest(g).op = "read" => L3Request(g).op = "read"
      /\ MemRequest(g).op \in {"none", "read", "write"}
  BY <1>1, <1>3, <1>4 DEF MemRequest, Downstream, State
<1>6. L3Request(g).op = "write" => (L3Ready(g) <=> memReady)
  BY <1>1, <1>3, <1>4 DEF L3Ready, Ready, State
<1>7. QED
  BY <1>2, <1>3, <1>5, <1>6

(* Types of the wires between L2, L3 and memory.                           *)
LEMMA ClockWireTypes ==
  ASSUME CInv, NEW g \in Cores, Granted(g)
  PROVE  /\ L2Ready(g) \in BOOLEAN /\ L3Ready(g) \in BOOLEAN
         /\ L2Data(g) \in Vals \cup {Invalid} /\ L3Data(g) \in Vals \cup {Invalid}
<1>1. TypeOK /\ req[g].addr \in Addrs
  BY ClockPort DEF CInv, ClockTypeOK
<1>2. L2Ready(g) \in BOOLEAN /\ L3Ready(g) \in BOOLEAN
  BY <1>1 DEF L2Ready, L3Ready, Ready, TypeOK, Hit
<1>3. L3Data(g) \in Vals \cup {Invalid}
  BY <1>1, ClockPath DEF L3Data, ReadData, TypeOK, Lines
<1>4. L2Data(g) \in Vals \cup {Invalid}
  BY <1>1, <1>3, ClockPort DEF L2Data, ReadData, TypeOK, Lines
<1>5. QED
  BY <1>2, <1>3, <1>4

-----------------------------------------------------------------------------
(* An edge of the core clocks                                              *)

(* Only the cores whose clock rises change, and of these only the ones     *)
(* that are answered ask for something else.                               *)
LEMMA CoreEdgeFacts ==
  ASSUME CInv, NEW g \in Cores, NEW S \in SUBSET Cores, CoreEdge(g, S)
  PROVE  /\ req' \in [Cores -> Request]
         /\ \A c \in Cores : c \notin Moving(g, S) => req'[c] = req[c]
         /\ \A c \in Cores \ S : l1st'[c] = l1st[c] /\ l1'[c] = l1[c]
         /\ \A c \in S :
              /\ l1st'[c] = NextState(l1st[c], l1[c], req[c], BusReady(g, c))
              /\ l1'[c] = L1NextLines(g, c)
<1>1. req \in [Cores -> Request] /\ Moving(g, S) \subseteq Cores
  BY DEF CInv, ClockTypeOK, TypeOK, Moving
<1>2. PICK next \in [Moving(g, S) -> Request] :
        req' = [c \in Cores |-> IF c \in Moving(g, S) THEN next[c] ELSE req[c]]
  BY DEF CoreEdge
<1>3. /\ req' \in [Cores -> Request]
      /\ \A c \in Cores : c \notin Moving(g, S) => req'[c] = req[c]
  BY <1>1, <1>2
<1>4. QED
  BY <1>3 DEF CoreEdge

(* The registers of the cores keep their types.                            *)
LEMMA CoreEdgeTypes ==
  ASSUME CInv, NEW g \in Cores, Granted(g), NEW S \in SUBSET Cores, CoreEdge(g, S)
  PROVE  /\ req' \in [Cores -> Request]
         /\ rdata' \in [Cores -> Vals \cup {Invalid}]
         /\ l1st' \in [Cores -> State] /\ l1' \in [Cores -> Lines]
<1>1. TypeOK
  BY DEF CInv, ClockTypeOK
<1>2. ASSUME NEW c \in S
      PROVE  /\ NextState(l1st[c], l1[c], req[c], BusReady(g, c)) \in State
             /\ L1NextLines(g, c) \in Lines
             /\ ReadData(l1st[c], l1[c], req[c], L2Data(g)) \in Vals \cup {Invalid}
  <2>1. BusReady(g, c) \in BOOLEAN /\ L2Data(g) \in Vals \cup {Invalid}
    BY ClockWireTypes DEF BusReady
  <2>2. /\ NextState(l1st[c], l1[c], req[c], BusReady(g, c)) \in State
        /\ NextLines(l1st[c], l1[c], L1Index, req[c], BusReady(g, c), L2Data(g))
             \in Lines
    BY <1>1, <2>1, ClockPort, ControllerTypes DEF TypeOK
  <2>3. PICK lines \in Lines :
          L1NextLines(g, c) =
            [a \in Addrs |-> IF Snooped(g, c, a) THEN Invalid ELSE lines[a]]
    BY <2>2 DEF L1NextLines
  <2>4. L1NextLines(g, c) \in Lines
    BY <2>3 DEF Lines
  <2>5. ReadData(l1st[c], l1[c], req[c], L2Data(g)) \in Vals \cup {Invalid}
    BY <1>1, <2>1, ClockPort DEF ReadData, TypeOK, Lines
  <2>6. QED
    BY <2>2, <2>4, <2>5
<1>3. l1st' \in [Cores -> State] /\ l1' \in [Cores -> Lines]
  BY <1>1, <1>2 DEF CoreEdge, TypeOK
<1>4. rdata' \in [Cores -> Vals \cup {Invalid}]
  BY <1>1, <1>2 DEF CoreEdge, Moving, TypeOK
<1>5. QED
  BY <1>3, <1>4, CoreEdgeFacts

(* An L1 that waits keeps its access: it moves on only when it is answered *)
(* and then waits no longer.                                               *)
LEMMA CoreEdgeWaits ==
  ASSUME CInv, NEW g \in Cores, NEW S \in SUBSET Cores, CoreEdge(g, S)
  PROVE  L1Waits'
<1> SUFFICES ASSUME NEW c \in Cores
             PROVE  /\ l1st'[c] = "WRITE" => req'[c].op = "write"
                    /\ l1st'[c] = "FETCH" => req'[c].op # "write"
  BY DEF L1Waits
<1>1. l1st[c] \in State
  BY DEF CInv, ClockTypeOK, TypeOK
<1>2. /\ l1st[c] = "WRITE" => req[c].op = "write"
      /\ l1st[c] = "FETCH" => req[c].op # "write"
  BY DEF CInv, L1Waits
<1>3. CASE c \notin S
  BY <1>2, <1>3, CoreEdgeFacts DEF Moving
<1>4. CASE c \in S
  <2>1. l1st'[c] = NextState(l1st[c], l1[c], req[c], BusReady(g, c))
    BY <1>4, CoreEdgeFacts
  <2>2. l1st'[c] # "IDLE" => ~CoreReady(g, c)
    BY <1>1, <2>1 DEF CoreReady, NextState, Ready, State
  <2>3. l1st'[c] # "IDLE" => req'[c] = req[c]
    BY <2>2, CoreEdgeFacts DEF Moving
  <2>4. QED
    BY <1>2, <2>1, <2>3 DEF NextState
<1>5. QED
  BY <1>3, <1>4

(* A core that asks the bus for a word and is not answered asks on.        *)
LEMMA UnansweredAsksOn ==
  ASSUME CInv, NEW g \in Cores, NEW S \in SUBSET Cores, CoreEdge(g, S),
         NEW c \in Cores, ~BusReady(g, c)
  PROVE  /\ L1Request(c).op # "none" => req'[c] = req[c]
         /\ L1Request(c).op = "read" => L1Request(c)'.op = "read"
<1>1. l1st[c] \in State /\ req[c].op \in {"none", "read", "write"}
  BY ClockPort, RequestFields DEF CInv, ClockTypeOK, TypeOK
<1>2. /\ l1st[c] = "WRITE" => req[c].op = "write"
      /\ l1st[c] = "FETCH" => req[c].op # "write"
  BY DEF CInv, L1Waits
<1>3. ASSUME L1Request(c).op # "none"
      PROVE  ~CoreReady(g, c) /\ req'[c] = req[c]
  <2>1. ~CoreReady(g, c)
    BY <1>1, <1>2, <1>3 DEF L1Request, Downstream, CoreReady, Ready, State
  <2>2. QED
    BY <2>1, CoreEdgeFacts DEF Moving
<1>4. ASSUME L1Request(c).op = "read"
      PROVE  L1Request(c)'.op = "read"
  <2>1. req'[c] = req[c]
    BY <1>3, <1>4
  <2>2. CASE c \notin S
    BY <1>4, <2>1, <2>2, CoreEdgeFacts DEF L1Request
  <2>3. CASE c \in S
    <3>1. l1st'[c] = NextState(l1st[c], l1[c], req[c], BusReady(g, c))
      BY <2>3, CoreEdgeFacts
    <3>2. l1st'[c] = "FETCH"
      BY <1>1, <1>2, <1>4, <3>1 DEF NextState, L1Request, Downstream, State
    <3>3. QED
      BY <3>2 DEF L1Request, Downstream
  <2>4. QED
    BY <2>2, <2>3
<1>5. QED
  BY <1>3, <1>4

(* What a core is told of a store: while L2 waits for memory to take one,  *)
(* the granted core is answered by memory's pulse and by nothing else.     *)
LEMMA AnswerOfStore ==
  ASSUME CInv, NEW g \in Cores, Granted(g), NEW c \in Cores,
         Kept(c), Trusted(c), req[c].op = "write", CoreReady(g, c)
  PROVE  mem[req[c].addr] = req[c].data
<1>1. l1st[c] \in State /\ l2st \in State /\ memReady \in BOOLEAN
  BY DEF CInv, ClockTypeOK, TypeOK
<1>2. c = g /\ L2Ready(g)
  BY <1>1 DEF CoreReady, Ready, BusReady
<1>3. L1Request(g).op = "write"
  BY <1>2, ClockPort
<1>4. l2st # "FETCH"
  BY <1>2, <1>3, ClockPath DEF CInv, FetchWaits
<1>5. L3Request(g).op = "write" /\ L3Ready(g)
  BY <1>1, <1>2, <1>3, <1>4, ClockPath, ClockPort DEF L2Ready, Ready, State
<1>6. memReady /\ l2st = "WRITE"
  BY <1>1, <1>4, <1>5, ClockPath DEF CInv, LevelsAgree, State
<1>7. QED
  BY <1>2, <1>6, ClockPath DEF CInv, WriteWaits

-----------------------------------------------------------------------------
(* The rising edge of clk                                                  *)

(* A store of L2 that is still under way after the edge is the one the     *)
(* granted core asks for, and that core has not been answered.             *)
LEMMA RiseStores ==
  ASSUME CInv, NEW g \in Cores, Granted(g), SysEdge(g),
         CoreEdge(g, RisesWithClk), l2st' = "WRITE"
  PROVE  /\ ~memReady /\ l2st \in {"IDLE", "WRITE"} /\ ~L2Ready(g)
         /\ current' = g /\ req[g].op = "write" /\ req'[g] = req[g]
<1>1. l2st \in State /\ memReady \in BOOLEAN /\ serving \in BOOLEAN
  BY DEF CInv, ClockTypeOK, TypeOK
<1>2. l2st' = NextState(l2st, l2, L1Request(g), L3Ready(g))
  BY DEF SysEdge, L2Edge
<1>3. /\ \/ l2st = "WRITE"
         \/ l2st = "IDLE" /\ L1Request(g).op = "write"
      /\ ~L3Ready(g)
  BY <1>1, <1>2, ClockWireTypes DEF NextState, State
<1>4. L3Request(g).op = "write" /\ ~memReady
  BY <1>1, <1>3, ClockPath, ClockPort
<1>5. req[g].op = "write" /\ L1Request(g).op = "write"
  BY <1>3, <1>4, ClockPath, ClockPort DEF CInv, WriteWaits, Kept
<1>6. ~L2Ready(g)
  BY <1>3, <1>5 DEF L2Ready, Ready
<1>7. req'[g] = req[g]
  <2>1. RisesWithClk \in SUBSET Cores /\ ~BusReady(g, g)
    BY <1>6 DEF RisesWithClk, BusReady
  <2>2. QED
    BY <1>5, <2>1, UnansweredAsksOn
<1>8. current' = g
  BY <1>1, <1>5 DEF SysEdge, BusEdge, Requesting, Granted
<1>9. QED
  BY <1>3, <1>4, <1>5, <1>6, <1>7, <1>8

(* Likewise for a fetch, if the core is one whose access L3 cannot answer  *)
(* behind L2's back.                                                       *)
LEMMA RiseFetches ==
  ASSUME CInv, NEW g \in Cores, Granted(g), SysEdge(g),
         CoreEdge(g, RisesWithClk), l2st' = "FETCH"
  PROVE  /\ current' = g
         /\ Trusted(g) => L1Request(g)'.op = "read"
<1>1. l2st \in State /\ memReady \in BOOLEAN /\ serving \in BOOLEAN
  BY DEF CInv, ClockTypeOK, TypeOK
<1>2. l2st' = NextState(l2st, l2, L1Request(g), L3Ready(g))
  BY DEF SysEdge, L2Edge
<1>3. \/ l2st = "FETCH" /\ ~L3Ready(g)
      \/ /\ l2st = "IDLE" /\ L1Request(g).op = "read"
         /\ ~Hit(l2, L1Request(g).addr)
  BY <1>1, <1>2, ClockWireTypes DEF NextState, State
<1>4. ~L2Ready(g)
  BY <1>3 DEF L2Ready, Ready
<1>5. current' = g
  BY <1>1, <1>3, ClockPath DEF SysEdge, BusEdge, Requesting, Granted,
     CInv, LevelsAgree
<1>6. ASSUME Trusted(g)
      PROVE  L1Request(g).op = "read"
  <2>1. CASE l2st = "IDLE"
    BY <1>3, <2>1
  <2>2. CASE l2st = "FETCH"
    <3>1. ~memReady
      <4>1. CASE EnableL3
        BY <1>3, <2>2, <4>1 DEF L3Ready, Ready, CInv, LevelsAgree
      <4>2. CASE ~EnableL3
        BY <1>3, <2>2, <4>2 DEF L3Ready
      <4>3. QED
        BY <4>1, <4>2
    <3>2. QED
      BY <1>6, <2>2, <3>1, ClockPath DEF CInv, FetchWaits, Kept
  <2>3. QED
    BY <1>3, <2>1, <2>2
<1>7. Trusted(g) => L1Request(g)'.op = "read"
  <2>1. RisesWithClk \in SUBSET Cores /\ ~BusReady(g, g)
    BY <1>4 DEF RisesWithClk, BusReady
  <2>2. QED
    BY <1>6, <2>1, UnansweredAsksOn
<1>8. QED
  BY <1>5, <1>7

(* L2, L3 and memory stay in step.                                         *)
LEMMA RiseLevels ==
  ASSUME CInv, NEW g \in Cores, Granted(g), SysEdge(g)
  PROVE  LevelsAgree'
<1>1. /\ l2st \in State /\ l3st \in State /\ memReady \in BOOLEAN
      /\ serving \in BOOLEAN /\ EnableL3 \in BOOLEAN
      /\ L3Ready(g) \in BOOLEAN /\ L2Ready(g) \in BOOLEAN
  BY ClockWireTypes DEF CInv, ClockTypeOK, TypeOK
<1>2. LevelsAgree /\ LATENCY # 0
  BY DEF CInv
<1>3. /\ l2st' = NextState(l2st, l2, L1Request(g), L3Ready(g))
      /\ EnableL3 => l3st' = NextState(l3st, l3, L3Request(g), memReady)
      /\ EnableL3 => L3Ready(g) = Ready(l3st, l3, L3Request(g), memReady)
  BY DEF SysEdge, L2Edge, L3Edge, L3Ready
<1>4. l2st' # "IDLE" => serving'
  <2>1. SUFFICES ASSUME l2st' # "IDLE" PROVE serving'
    OBVIOUS
  <2>2. ~L2Ready(g)
    BY <1>1, <1>3, <2>1 DEF NextState, L2Ready, Ready, State
  <2>3. ~serving => Requesting(g)
    BY <1>1, <1>2, <1>3, <2>1 DEF NextState, LevelsAgree, Requesting
  <2>4. QED
    BY <1>1, <2>2, <2>3 DEF SysEdge, BusEdge
<1>5. EnableL3 => /\ l3st' = "FETCH" => l2st' = "FETCH"
                  /\ l3st' = "WRITE" <=> l2st' = "WRITE"
  <2>1. SUFFICES ASSUME EnableL3
                 PROVE  /\ l3st' = "FETCH" => l2st' = "FETCH"
                        /\ l3st' = "WRITE" <=> l2st' = "WRITE"
    OBVIOUS
  <2>2. CASE l2st = "IDLE"
    <3>1. l3st = "IDLE" /\ ~memReady
      BY <1>1, <1>2, <2>1, <2>2 DEF LevelsAgree, State
    <3>2. L3Request(g).op = L1Request(g).op
            \/ (L3Request(g).op = "none" /\ L1Request(g).op = "read"
                /\ Hit(l2, L1Request(g).addr))
      BY <2>2 DEF L3Request, Downstream
    <3>3. L1Request(g).op = "read" /\ Hit(l2, L1Request(g).addr)
            => L3Request(g).op = "none"
      BY <2>2 DEF L3Request, Downstream
    <3>4. QED
      BY <1>3, <2>1, <2>2, <3>1, <3>2, <3>3 DEF NextState, Ready
  <2>3. CASE l2st = "FETCH"
    <3>1. L3Request(g).op = "read" /\ l3st # "WRITE"
      BY <1>2, <2>1, <2>3, ClockPath DEF LevelsAgree
    <3>2. QED
      BY <1>1, <1>3, <2>1, <2>3, <3>1 DEF NextState, Ready, State
  <2>4. CASE l2st = "WRITE"
    BY <1>1, <1>2, <1>3, <2>1, <2>4 DEF NextState, Ready, LevelsAgree
  <2>5. QED
    BY <1>1, <2>2, <2>3, <2>4 DEF State
<1>6. ASSUME memReady'
      PROVE  memCount' = 0 /\ l2st' # "IDLE" /\ (EnableL3 => l3st' = l2st')
  <2>1. MemRequest(g).op # "none" /\ memCount = LATENCY /\ memCount' = 0
    BY <1>6 DEF SysEdge, MemEdge
  <2>2. ~memReady
    BY <1>2, <2>1 DEF LevelsAgree
  <2>3. L3Request(g).op # "none" /\ ~L3Ready(g)
    <3>1. CASE EnableL3
      BY <1>1, <1>2, <2>1, <2>2, <3>1, ClockPath
         DEF MemRequest, L3Ready, Ready, Downstream, LevelsAgree, State
    <3>2. CASE ~EnableL3
      BY <2>1, <2>2, <3>2 DEF MemRequest, L3Ready
    <3>3. QED
      BY <3>1, <3>2
  <2>4. l2st' # "IDLE"
    BY <1>1, <1>3, <2>3, ClockPort DEF NextState, L3Request, Downstream, State
  <2>5. EnableL3 => l3st' # "IDLE"
    BY <1>1, <1>3, <2>1, <2>2, ClockPath DEF MemRequest, NextState, Downstream, State
  <2>6. EnableL3 => l3st' \in State
    BY <1>1, <1>3 DEF NextState, State
  <2>7. QED
    BY <1>5, <2>1, <2>4, <2>5, <2>6 DEF State
<1>7. QED
  BY <1>4, <1>5, <1>6 DEF LevelsAgree

(* When memory answers a write it takes the data of the granted core.      *)
LEMMA RisePulse ==
  ASSUME CInv, NEW g \in Cores, Granted(g), SysEdge(g)
  PROVE  \/ mem' = mem /\ ~(memReady' /\ l2st' = "WRITE")
         \/ /\ memReady' /\ ~memReady /\ req[g].op = "write"
            /\ mem' = [mem EXCEPT ![req[g].addr] = req[g].data]
<1>1. l2st \in State /\ L3Ready(g) \in BOOLEAN
  BY ClockWireTypes DEF CInv, ClockTypeOK, TypeOK
<1>2. MemEdge(g) /\ l2st' = NextState(l2st, l2, L1Request(g), L3Ready(g))
  BY DEF SysEdge, L2Edge
<1>3. CASE memReady' /\ MemRequest(g).op = "write"
  <2>1. memCount = LATENCY /\ ~memReady
    BY <1>2, <1>3 DEF MemEdge, CInv, LevelsAgree
  <2>2. req[g].op = "write"
    BY <1>3, <2>1, ClockPath DEF CInv, WriteWaits, Kept
  <2>3. mem' = [mem EXCEPT ![req[g].addr] = req[g].data]
    BY <1>2, <1>3, ClockPath DEF MemEdge
  <2>4. QED
    BY <1>3, <2>1, <2>2, <2>3
<1>4. CASE ~(memReady' /\ MemRequest(g).op = "write")
  <2>1. mem' = mem
    BY <1>2, <1>4 DEF MemEdge
  <2>2. ASSUME memReady', l2st' = "WRITE"
        PROVE  FALSE
    <3>1. MemRequest(g).op = "read"
      BY <1>2, <1>4, <2>2, ClockPath DEF MemEdge
    <3>2. L3Request(g).op = "write"
      BY <1>1, <1>2, <2>2, ClockPath, ClockPort DEF NextState, State
    <3>3. QED
      BY <3>1, <3>2, ClockPath
  <2>3. QED
    BY <2>1, <2>2
<1>5. QED
  BY <1>3, <1>4

(* The registers on clk keep their types.                                  *)
LEMMA RiseTypes ==
  ASSUME CInv, NEW g \in Cores, Granted(g), SysEdge(g)
  PROVE  /\ serving' \in BOOLEAN /\ current' \in Cores /\ last' \in Cores
         /\ l2st' \in State /\ l2' \in Lines /\ l3st' \in State /\ l3' \in Lines
         /\ mem' \in [Addrs -> Vals] /\ memCount' \in 0 .. LATENCY
         /\ memReady' \in BOOLEAN /\ memData' \in Vals \cup {Invalid}
<1>1. TypeOK /\ req[g].addr \in Addrs
  BY ClockPort DEF CInv, ClockTypeOK
<1>2. serving' \in BOOLEAN /\ current' \in Cores /\ last' \in Cores
  BY <1>1, ClockWireTypes DEF SysEdge, BusEdge, busVars, TypeOK
<1>3. l2st' \in State /\ l2' \in Lines
  BY <1>1, ClockPort, ClockWireTypes, ControllerTypes DEF SysEdge, L2Edge, TypeOK
<1>4. l3st' \in State /\ l3' \in Lines
  <2>1. CASE EnableL3
    <3>1. l3st = "IDLE" /\ L3Request(g).op = "write" => L3Request(g).data \in Vals
      BY <2>1, ClockPath, ClockPort DEF CInv, LevelsAgree
    <3>2. QED
      BY <1>1, <2>1, <3>1, ControllerTypes DEF SysEdge, L3Edge, TypeOK
  <2>2. CASE ~EnableL3
    BY <1>1, <2>2 DEF SysEdge, L3Edge, TypeOK
  <2>3. QED
    BY <2>1, <2>2
<1>5. mem' \in [Addrs -> Vals]
  BY <1>1, RisePulse, ClockPort DEF TypeOK
<1>6. MemEdge(g) /\ MemRequest(g).addr \in Addrs
  BY <1>1, ClockPath DEF SysEdge
<1>7. memReady' \in BOOLEAN
  BY <1>6 DEF MemEdge
<1>8. memCount' \in 0 .. LATENCY
  BY <1>1, <1>6 DEF MemEdge, TypeOK
<1>9. memData' \in Vals \cup {Invalid}
  BY <1>1, <1>6 DEF MemEdge, TypeOK
<1>10. QED
  BY <1>2, <1>3, <1>4, <1>5, <1>7, <1>8, <1>9

-----------------------------------------------------------------------------
(* The control register of the PMU                                         *)

(* Of several writers one has the highest index.                           *)
LEMMA HighestWriter ==
  ASSUME NEW W \in SUBSET Cores, W # {}
  PROVE  (CHOOSE c \in W : \A d \in W : d <= c) \in W
<1>1. NumCores - 1 \in Nat /\ W \in SUBSET (0 .. NumCores - 1)
  BY DEF Cores
<1>2. QED
  BY <1>1, HighestOf, Zenon

(* The register holds its reset value or a word that software wrote.       *)
LEMMA PmuKept ==
  ASSUME CInv, PmuEdge
  PROVE  pmu' \in PmuCtrl /\ (pmu' = pmu \/ pmu' \in PmuWords)
<1> DEFINE W == {c \in Cores : csr[c] # NoWord}
<1>1. pmu \in PmuCtrl /\ csr \in [Cores -> PmuWords \cup {NoWord}]
  BY DEF CInv, ClockTypeOK
<1>2. CASE W = {}
  BY <1>1, <1>2 DEF PmuEdge
<1>3. CASE W # {}
  <2>1. PICK c \in W : pmu' = csr[c]
    BY <1>3, HighestWriter DEF PmuEdge
  <2>2. QED
    BY <1>1, <2>1
<1>4. QED
  BY <1>2, <1>3

(* An instruction that enters MEM carries a word for the PMU or none.      *)
LEMMA CsrEdgeTypes ==
  ASSUME CInv, NEW g \in Cores, NEW S \in SUBSET Cores, CsrEdge(g, S)
  PROVE  csr' \in [Cores -> PmuWords \cup {NoWord}]
<1>1. csr \in [Cores -> PmuWords \cup {NoWord}] /\ Moving(g, S) \subseteq Cores
  BY DEF CInv, ClockTypeOK, Moving
<1>2. PICK next \in [Moving(g, S) -> PmuWords \cup {NoWord}] :
        csr' = [c \in Cores |-> IF c \in Moving(g, S) THEN next[c] ELSE csr[c]]
  BY DEF CsrEdge
<1>3. QED
  BY <1>1, <1>2

-----------------------------------------------------------------------------
(* The invariant                                                           *)

(* The invariant holds at power-up.                                        *)
LEMMA ClockInitInv == CleanPowerUp /\ ClockInit => CInv
<1> SUFFICES ASSUME CleanPowerUp, ClockInit PROVE CInv
  OBVIOUS
<1>1. TypeOK
  <2>1. 0 \in Cores /\ "IDLE" \in State /\ NoLines \in Lines /\ 0 \in 0 .. LATENCY
    BY DEF Cores, State, NoLines, Lines
  <2>2. req \in [Cores -> Request] /\ rdata \in [Cores -> Vals \cup {Invalid}]
    BY DEF ResetState, ClockInit
  <2>3. QED
    BY <2>1, <2>2 DEF ResetState, ClockInit, TypeOK
<1>2. ClockTypeOK
  <2>1. pmu \in PmuCtrl /\ divSel \in [Cores -> Div] /\ enSync \in [Cores -> BOOLEAN]
    BY DEF ClockInit, PmuCtrl, Div
  <2>2. QED
    BY <1>1, <2>1 DEF ClockInit, ClockTypeOK
<1>3. L1Waits
  BY DEF ClockInit, ResetState, CleanPowerUp, L1Waits
<1>4. FullStaysFull
  BY DEF ClockInit, FullStaysFull, AlwaysFull
<1>5. LevelsAgree /\ WriteWaits /\ FetchWaits
  BY DEF ClockInit, ResetState, LevelsAgree, WriteWaits, FetchWaits
<1>6. QED
  BY <1>2, <1>3, <1>4, <1>5 DEF CInv

(* A rising edge of clk preserves the invariant.                           *)
LEMMA RiseInv ==
  ASSUME CInv, ClkRises
  PROVE  CInv'
<1>1. PICK g \in Cores : /\ Granted(g) /\ SysEdge(g)
                         /\ CoreEdge(g, RisesWithClk) /\ CsrEdge(g, RisesWithClk)
  BY DEF ClkRises
<1>2. RisesWithClk \in SUBSET Cores /\ PmuEdge /\ clk' = TRUE
      /\ UNCHANGED <<divCount, divSel, enSync>>
  BY DEF ClkRises, RisesWithClk
<1>3. ClockTypeOK'
  BY <1>1, <1>2, CoreEdgeTypes, RiseTypes, PmuKept, CsrEdgeTypes
     DEF CInv, ClockTypeOK, TypeOK
<1>4. L1Waits' /\ LevelsAgree'
  BY <1>1, <1>2, CoreEdgeWaits, RiseLevels
<1>5. FullStaysFull'
  BY <1>2, PmuKept DEF CInv, FullStaysFull, AlwaysFull
<1>6. WriteWaits'
  <2>1. SUFFICES ASSUME l2st' = "WRITE"
                 PROVE  /\ req'[current'].op = "write"
                        /\ memReady' => mem'[req'[current'].addr] = req'[current'].data
    BY DEF WriteWaits
  <2>2. current' = g /\ req[g].op = "write" /\ req'[g] = req[g]
    BY <1>1, <2>1, RiseStores
  <2>3. memReady' => mem' = [mem EXCEPT ![req[g].addr] = req[g].data]
    BY <1>1, <2>1, RisePulse
  <2>4. mem \in [Addrs -> Vals] /\ req[g].addr \in Addrs
    BY ClockPort DEF CInv, ClockTypeOK, TypeOK
  <2>5. QED
    BY <2>2, <2>3, <2>4
<1>7. FetchWaits'
  BY <1>1, RiseFetches DEF FetchWaits, Trusted, AlwaysFull, L1Request
<1>8. QED
  BY <1>3, <1>4, <1>5, <1>6, <1>7 DEF CInv

(* At a fall the bus, L2, L3 and memory stand still; a core whose access   *)
(* is no longer certain after it is one whose clock rises in it.           *)
LEMMA FallInv ==
  ASSUME CInv, ClkFalls
  PROVE  CInv'
<1>1. PICK g \in Cores : /\ Granted(g) /\ CoreEdge(g, RisesWithFall)
                         /\ CsrEdge(g, RisesWithFall)
  BY DEF ClkFalls
<1>2. /\ RisesWithFall \in SUBSET Cores /\ clk /\ clk' = FALSE
      /\ divCount' = NextCount /\ divSel' = pmu.div /\ enSync' = pmu.en
      /\ UNCHANGED <<sysVars, pmu>>
  BY DEF ClkFalls, RisesWithFall
<1>3. /\ UNCHANGED <<serving, current, last, l2st, l2, l3st, l3>>
      /\ UNCHANGED <<mem, memCount, memReady, memData>>
  BY <1>2 DEF sysVars, busVars, memVars
<1>4. ClockTypeOK'
  <2>1. divCount' \in 0 .. 7
    BY <1>2 DEF NextCount, CInv, ClockTypeOK
  <2>2. divSel' \in [Cores -> Div] /\ enSync' \in [Cores -> BOOLEAN]
    BY <1>2 DEF CInv, ClockTypeOK, PmuCtrl
  <2>3. TypeOK'
    BY <1>1, <1>2, <1>3, CoreEdgeTypes DEF CInv, ClockTypeOK, TypeOK
  <2>4. QED
    BY <1>1, <1>2, <2>1, <2>2, <2>3, CsrEdgeTypes DEF CInv, ClockTypeOK
<1>5. L1Waits'
  BY <1>1, <1>2, CoreEdgeWaits
<1>6. FullStaysFull'
  BY <1>2 DEF CInv, FullStaysFull, AlwaysFull
<1>7. LevelsAgree'
  BY <1>3 DEF CInv, LevelsAgree
<1>8. Kept(current)' =>
        ~memReady \/ current \notin RisesWithFall
  BY <1>2, <1>3, EdgesDisjoint DEF Kept, CInv, ClockTypeOK, TypeOK
<1>9. ASSUME Kept(current)', l2st = "WRITE"
      PROVE  req[current].op = "write" /\ req'[current] = req[current]
  <2>1. g = current /\ L1Request(g).op = "write" /\ req[g].op = "write"
    BY <1>1, <1>2, <1>9, ClockPath, ClockPort DEF Kept, CInv, WriteWaits
  <2>2. CASE ~memReady
    <3>1. ~BusReady(g, g)
      BY <1>1, <1>9, <2>2, ClockPath DEF BusReady, L2Ready, Ready
    <3>2. QED
      BY <1>1, <1>2, <2>1, <3>1, UnansweredAsksOn
  <2>3. CASE current \notin RisesWithFall
    BY <1>1, <1>2, <2>1, <2>3, CoreEdgeFacts DEF Moving
  <2>4. QED
    BY <1>8, <1>9, <2>2, <2>3
<1>10. WriteWaits'
  BY <1>2, <1>3, <1>9 DEF CInv, WriteWaits, Kept
<1>11. FetchWaits'
  <2>1. SUFFICES ASSUME l2st = "FETCH", Kept(current)', Trusted(current)
                 PROVE  L1Request(current)'.op = "read"
    BY <1>3 DEF FetchWaits, Trusted, AlwaysFull
  <2>2. g = current /\ L1Request(g).op = "read"
    BY <1>1, <1>2, <2>1, ClockPath DEF Kept, CInv, FetchWaits
  <2>3. CASE current \notin RisesWithFall
    <3>1. req'[g] = req[g] /\ l1st'[g] = l1st[g] /\ l1'[g] = l1[g]
      BY <1>1, <1>2, <2>2, <2>3, CoreEdgeFacts DEF Moving
    <3>2. L1Request(g)' = L1Request(g)
      BY <3>1 DEF L1Request
    <3>3. QED
      BY <1>3, <2>2, <3>2
  <2>4. CASE current \in RisesWithFall
    <3>1. ~memReady /\ ~EnableL3
      BY <1>8, <2>1, <2>2, <2>4, FullRisesWithClk
         DEF Trusted, CInv, FullStaysFull
    <3>2. ~BusReady(g, g)
      BY <2>1, <3>1 DEF BusReady, L2Ready, L3Ready, Ready
    <3>3. L1Request(g)'.op = "read"
      BY <1>1, <1>2, <2>2, <3>2, UnansweredAsksOn
    <3>4. QED
      BY <1>3, <2>2, <3>3
  <2>5. QED
    BY <2>3, <2>4
<1>12. QED
  BY <1>4, <1>5, <1>6, <1>7, <1>10, <1>11 DEF CInv

(* So does every step.                                                     *)
LEMMA ClockNextInv == CInv /\ [ClockNext]_allVars => CInv'
<1> SUFFICES ASSUME CInv, [ClockNext]_allVars PROVE CInv'
  OBVIOUS
<1>1. CASE ClkRises
  BY <1>1, RiseInv
<1>2. CASE ClkFalls
  BY <1>2, FallInv
<1>3. CASE UNCHANGED allVars
  <2>1. UNCHANGED <<vars, clockVars, csr>>
    BY <1>3 DEF allVars
  <2>2. /\ UNCHANGED <<req, rdata, l1st, l1, serving, current, last, l2st, l2, l3st, l3>>
        /\ UNCHANGED <<mem, memCount, memReady, memData>>
        /\ UNCHANGED <<clk, divCount, pmu, divSel, enSync, csr>>
    BY <2>1 DEF vars, coreVars, sysVars, busVars, memVars, clockVars
  <2>3. ClockTypeOK' /\ L1Waits' /\ FullStaysFull' /\ LevelsAgree'
    BY <2>2 DEF CInv, ClockTypeOK, TypeOK, L1Waits, FullStaysFull, LevelsAgree, AlwaysFull
  <2>4. (Kept(current)' <=> Kept(current)) /\ L1Request(current)' = L1Request(current)
    BY <2>2 DEF Kept, RisesWithClk, ClockLevel, L1Request
  <2>5. QED
    BY <2>2, <2>3, <2>4 DEF CInv, WriteWaits, FetchWaits, Trusted, AlwaysFull
<1>4. QED
  BY <1>1, <1>2, <1>3 DEF ClockNext

-----------------------------------------------------------------------------
(* The theorems                                                            *)

(* The inductive invariant holds from any power-up contents but WRITE.     *)
THEOREM ClockInvariance == ASSUME CleanPowerUp PROVE ClockSpec => []CInv
BY ClockInitInv, ClockNextInv, PTL DEF ClockSpec

(* Typing for every number of cores, every divider, every sequence of PMU  *)
(* words and every contents the L1 arrays come up with (ax_pmu.v:18-75).   *)
THEOREM ClockTypeCorrect == ASSUME CleanPowerUp PROVE ClockSpec => []ClockTypeOK
<1>1. ClockSpec => []CInv
  BY ClockInvariance
<1>2. CInv => ClockTypeOK
  BY DEF CInv
<1>3. QED
  BY <1>1, <1>2, PTL

(* Memory takes data from stores only, however the clocks of the cores     *)
(* that ask for them are divided and gated.                                *)
THEOREM FromStores == ASSUME CleanPowerUp PROVE ClockSpec => MemoryFromStores
<1> DEFINE Asked == \A a \in Addrs : mem'[a] # mem[a] =>
                      \E c \in Cores : /\ req[c].op = "write" /\ req[c].addr = a
                                       /\ req[c].data = mem'[a]
<1>1. ASSUME CInv, ClockNext PROVE Asked
  <2> SUFFICES ASSUME NEW a \in Addrs, mem'[a] # mem[a]
               PROVE  \E c \in Cores : /\ req[c].op = "write" /\ req[c].addr = a
                                       /\ req[c].data = mem'[a]
    OBVIOUS
  <2>1. mem \in [Addrs -> Vals]
    BY <1>1 DEF CInv, ClockTypeOK, TypeOK
  <2>2. CASE ClkRises
    <3>1. PICK g \in Cores : Granted(g) /\ SysEdge(g)
      BY <2>2 DEF ClkRises
    <3>2. /\ req[g].op = "write"
          /\ mem' = [mem EXCEPT ![req[g].addr] = req[g].data]
      BY <1>1, <3>1, RisePulse
    <3>3. QED
      BY <2>1, <3>2
  <2>3. CASE ClkFalls
    BY <2>3 DEF ClkFalls, sysVars, memVars
  <2>4. QED
    BY <1>1, <2>2, <2>3 DEF ClockNext
<1>2. CInv /\ [ClockNext]_allVars => [Asked]_allVars
  BY <1>1
<1>3. ClockSpec => []CInv
  BY ClockInvariance
<1>4. QED
  BY <1>2, <1>3, PTL DEF ClockSpec, MemoryFromStores

(* Without L3 any core, and with L3 any core that is never slowed down, is *)
(* told that its store is done only when memory holds the data, whatever   *)
(* clocks the others have (l2_cache.v:80-86, ax_bus_scalable.v:182-189).   *)
TrustedDurable ==
  [][\A g \in Cores : Granted(g) =>
       \A c \in Moving(g, Rising) :
         Trusted(c) /\ req[c].op = "write" => mem[req[c].addr] = req[c].data]_allVars

(* Stores of such cores last (TrustedDurable), with L3 and without.        *)
THEOREM TrustedStores == ASSUME CleanPowerUp PROVE ClockSpec => TrustedDurable
<1> DEFINE Lasts == \A g \in Cores : Granted(g) =>
                      \A c \in Moving(g, Rising) :
                        Trusted(c) /\ req[c].op = "write"
                          => mem[req[c].addr] = req[c].data
<1>1. ASSUME CInv PROVE Lasts
  <2> SUFFICES ASSUME NEW g \in Cores, Granted(g), NEW c \in Moving(g, Rising),
                      Trusted(c), req[c].op = "write"
               PROVE  mem[req[c].addr] = req[c].data
    OBVIOUS
  <2>1. c \in Cores /\ Kept(c)
    BY DEF Moving, Rising, RisesWithFall, RisesWithClk, Kept
  <2>2. CoreReady(g, c)
    BY DEF Moving
  <2>3. QED
    BY <1>1, <2>1, <2>2, AnswerOfStore
<1>2. CInv /\ [ClockNext]_allVars => [Lasts]_allVars
  BY <1>1
<1>3. ClockSpec => []CInv
  BY ClockInvariance
<1>4. QED
  BY <1>2, <1>3, PTL DEF ClockSpec, TrustedDurable

(* StoreDurable for every core, without L3 or with no core slowed down.    *)
THEOREM StoresLast ==
  ASSUME CleanPowerUp, \A c \in Cores : Trusted(c)
  PROVE  ClockSpec => StoreDurable
<1> DEFINE Lasts == \A g \in Cores : Granted(g) =>
                      \A c \in Moving(g, Rising) :
                        req[c].op = "write" => mem[req[c].addr] = req[c].data
<1>1. ASSUME CInv PROVE Lasts
  <2> SUFFICES ASSUME NEW g \in Cores, Granted(g), NEW c \in Moving(g, Rising),
                      req[c].op = "write"
               PROVE  mem[req[c].addr] = req[c].data
    OBVIOUS
  <2>1. c \in Cores /\ Kept(c) /\ CoreReady(g, c)
    BY DEF Moving, Rising, RisesWithFall, RisesWithClk, Kept
  <2>2. QED
    BY <1>1, <2>1, AnswerOfStore
<1>2. CInv /\ [ClockNext]_allVars => [Lasts]_allVars
  BY <1>1
<1>3. ClockSpec => []CInv
  BY ClockInvariance
<1>4. QED
  BY <1>2, <1>3, PTL DEF ClockSpec, StoreDurable
=============================================================================
