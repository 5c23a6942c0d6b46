--------------------------- MODULE SnoopMemory_proof ---------------------------
(***************************************************************************)
(* The proofs about SnoopMemory, for any number of cores, any addresses,   *)
(* values and line mappings, any memory latency and with or without L3.    *)
(***************************************************************************)
EXTENDS SnoopMemory, TLAPS

USE NumCoresAssumption, LatencyAssumption, EnableL3Assumption, InvalidAssumption

(* The inductive invariant.  None of its parts is inductive alone: typing  *)
(* needs Handshake (only a write carries data), Handshake needs coherence  *)
(* (memData), and coherence needs the other two.                           *)
IInv == TypeOK /\ L1Coherent /\ WriterExclusive /\ SharedCoherent /\ Handshake

-----------------------------------------------------------------------------
(* The wires                                                               *)

(* What a port can carry, field by field.                                  *)
LEMMA RequestFields ==
  ASSUME NEW r \in Request
  PROVE  /\ r.op \in {"none", "read", "write"}
         /\ r.addr \in Addrs
         /\ r.data \in Vals \cup {Invalid}
         /\ r.op = "write" => r.data \in Vals
BY DEF Request

(* What core c drives onto the bus: its own access, or nothing on a hit.   *)
LEMMA PortFacts ==
  ASSUME IInv, NEW c \in Cores
  PROVE  /\ req[c] \in Request
         /\ req[c].addr \in Addrs
         /\ req[c].op = "write" => req[c].data \in Vals
         /\ L1Request(c).addr = req[c].addr
         /\ L1Request(c).data = req[c].data
         /\ L1Request(c).op \in {"none", "read", "write"}
         /\ L1Request(c).op = "write" <=> req[c].op = "write"
         /\ L1Request(c).op = "read" => req[c].op = "read"
         /\ l1st[c] # "IDLE" => L1Request(c).op = req[c].op
<1>1. req[c] \in Request /\ l1st[c] \in State
  BY DEF IInv, TypeOK
<1>2. /\ l1st[c] = "FETCH" => req[c].op = "read"
      /\ l1st[c] = "WRITE" => req[c].op = "write"
  BY DEF IInv, Handshake
<1>3. req[c].op \in {"none", "read", "write"} /\ req[c].addr \in Addrs
  BY <1>1, RequestFields
<1>4. QED
  BY <1>1, <1>2, <1>3, RequestFields DEF L1Request, Downstream, State

(* Below the bus there is the access of the granted core and no other; a   *)
(* write reaches memory in every cycle it is requested.                    *)
LEMMA PathFacts ==
  ASSUME IInv, NEW g \in Cores, Granted(g)
  PROVE  /\ l2st # "IDLE" => g = current /\ l1st[g] = l2st
         /\ l2st = "FETCH" => L1Request(g).op = "read"
         /\ l2st = "WRITE" => L1Request(g).op = "write"
         /\ L3Request(g).addr = req[g].addr
         /\ L3Request(g).data = req[g].data
         /\ L3Request(g).op \in {"none", "read", "write"}
         /\ L3Request(g).op = "write" <=> req[g].op = "write"
         /\ L3Request(g).op = "read" => L1Request(g).op = "read"
         /\ l2st = "FETCH" => L3Request(g).op = "read"
         /\ MemRequest(g).addr = req[g].addr
         /\ MemRequest(g).data = req[g].data
         /\ MemRequest(g).op \in {"none", "read", "write"}
         /\ MemRequest(g).op = "write" <=> req[g].op = "write"
         /\ MemRequest(g).op = "read" => L3Request(g).op = "read"
<1>1. l2st # "IDLE" => g = current /\ l1st[g] = l2st
  BY DEF IInv, Handshake, Granted
<1>2. /\ l2st = "FETCH" => L1Request(g).op = "read"
      /\ l2st = "WRITE" => L1Request(g).op = "write"
  BY <1>1, PortFacts DEF IInv, Handshake
<1>3. l2st \in State /\ l3st \in State /\ EnableL3 \in BOOLEAN
  BY DEF IInv, TypeOK
<1>4. /\ L3Request(g).addr = req[g].addr
      /\ L3Request(g).data = req[g].data
      /\ L3Request(g).op \in {"none", "read", "write"}
      /\ L3Request(g).op = "write" <=> req[g].op = "write"
      /\ L3Request(g).op = "read" => L1Request(g).op = "read"
      /\ l2st = "FETCH" => L3Request(g).op = "read"
  BY <1>2, <1>3, PortFacts DEF L3Request, Downstream, State
<1>5. /\ l3st = "FETCH" /\ EnableL3 => L3Request(g).op = "read"
      /\ l3st = "WRITE" /\ EnableL3 => L3Request(g).op = "write"
  BY <1>2, <1>4, PortFacts DEF IInv, Handshake
<1>6. /\ MemRequest(g).addr = req[g].addr
      /\ MemRequest(g).data = req[g].data
      /\ MemRequest(g).op \in {"none", "read", "write"}
      /\ MemRequest(g).op = "write" <=> req[g].op = "write"
      /\ MemRequest(g).op = "read" => L3Request(g).op = "read"
  BY <1>3, <1>4, <1>5 DEF MemRequest, Downstream, State
<1>7. QED
  BY <1>1, <1>2, <1>4, <1>6

(* An answer is right: a write is answered only when memory holds its      *)
(* data, and a read with what memory holds.                                *)
LEMMA AnswerFacts ==
  ASSUME IInv, NEW g \in Cores, Granted(g)
  PROVE  /\ L3Ready(g) /\ L3Request(g).op = "write" =>
              memReady /\ l2st = "WRITE" /\ mem[req[g].addr] = req[g].data
         /\ L2Ready(g) /\ L1Request(g).op = "write" => L3Ready(g)
         /\ memReady /\ l2st = "FETCH" => memData = mem[req[g].addr]
         /\ L3Ready(g) /\ l2st = "FETCH" => L3Data(g) = mem[req[g].addr]
         /\ L2Ready(g) /\ L1Request(g).op = "read" =>
              L2Data(g) = mem[req[g].addr]
<1>1. l2st \in State /\ l3st \in State /\ EnableL3 \in BOOLEAN
  BY DEF IInv, TypeOK
<1>2. /\ l2st = "FETCH" /\ memReady => memData = mem[req[g].addr]
      /\ l2st = "WRITE" /\ memReady => mem[req[g].addr] = req[g].data
      /\ memReady => l2st # "IDLE" /\ (EnableL3 => l3st = l2st)
      /\ EnableL3 => (l3st = "WRITE" <=> l2st = "WRITE")
      /\ EnableL3 => (l3st = "FETCH" => l2st = "FETCH")
  BY PathFacts DEF IInv, Handshake
<1>3. L3Ready(g) /\ L3Request(g).op = "write" => memReady
  BY <1>1 DEF L3Ready, Ready
<1>4. L3Request(g).op = "write" => l2st # "FETCH"
  BY PathFacts
<1>5. L2Ready(g) /\ L1Request(g).op = "write" => L3Ready(g)
  BY <1>1 DEF L2Ready, Ready
<1>6. ASSUME L3Ready(g), l2st = "FETCH"
      PROVE  L3Data(g) = mem[req[g].addr]
  <2>1. L3Request(g).op = "read" /\ L3Request(g).addr = req[g].addr
    BY <1>6, PathFacts
  <2>2. CASE EnableL3 /\ l3st = "IDLE"
    <3>1. Hit(l3, req[g].addr)
      BY <1>6, <2>1, <2>2 DEF L3Ready, Ready
    <3>2. l3[req[g].addr] = mem[req[g].addr]
      BY <1>6, <3>1, PortFacts DEF IInv, SharedCoherent, Storing
    <3>3. QED
      BY <2>1, <2>2, <3>2 DEF L3Data, ReadData
  <2>3. CASE EnableL3 /\ l3st # "IDLE"
    BY <1>1, <1>2, <1>6, <2>3 DEF L3Data, L3Ready, Ready, ReadData, State
  <2>4. CASE ~EnableL3
    BY <1>2, <1>6, <2>4 DEF L3Data, L3Ready
  <2>5. QED
    BY <2>2, <2>3, <2>4
<1>7. ASSUME L2Ready(g), L1Request(g).op = "read"
      PROVE  L2Data(g) = mem[req[g].addr]
  <2>1. l2st # "WRITE" /\ L1Request(g).addr = req[g].addr
    BY <1>7, PathFacts, PortFacts
  <2>2. CASE l2st = "IDLE"
    <3>1. Hit(l2, req[g].addr)
      BY <1>7, <2>1, <2>2 DEF L2Ready, Ready
    <3>2. l2[req[g].addr] = mem[req[g].addr]
      BY <2>2, <3>1, PortFacts DEF IInv, SharedCoherent, Storing
    <3>3. QED
      BY <2>1, <2>2, <3>2 DEF L2Data, ReadData
  <2>3. CASE l2st = "FETCH"
    BY <1>6, <1>7, <2>3 DEF L2Data, L2Ready, Ready, ReadData
  <2>4. QED
    BY <1>1, <2>1, <2>2, <2>3 DEF State
<1>8. QED
  BY <1>1, <1>2, <1>3, <1>4, <1>5, <1>6, <1>7 DEF State

-----------------------------------------------------------------------------
(* The registers of one cache                                              *)

(* The state machine and the line array keep their types.                  *)
LEMMA ControllerTypes ==
  ASSUME NEW st \in State, NEW lines \in Lines, NEW r,
         NEW index, NEW ready \in BOOLEAN, NEW data \in Vals \cup {Invalid},
         st = "IDLE" /\ r.op = "write" => r.data \in Vals
  PROVE  /\ NextState(st, lines, r, ready) \in State
         /\ NextLines(st, lines, index, r, ready, data) \in Lines
BY DEF State, Lines, NextState, NextLines, Fill

(* A line that is valid after a cycle was filled, updated by a write hit,  *)
(* or held the same data before.                                           *)
LEMMA LineOrigin ==
  ASSUME NEW st \in State, NEW lines \in Lines, NEW r, NEW index,
         NEW ready \in BOOLEAN, NEW data, NEW a \in Addrs,
         Hit(NextLines(st, lines, index, r, ready, data), a)
  PROVE  LET next == NextLines(st, lines, index, r, ready, data)
         IN  \/ st = "FETCH" /\ ready /\ r.addr = a /\ next[a] = data
             \/ /\ st = "IDLE" /\ r.op = "write" /\ r.addr = a
                /\ next[a] = r.data
             \/ /\ ~(st = "IDLE" /\ r.op = "write" /\ r.addr = a)
                /\ Hit(lines, a) /\ next[a] = lines[a]
BY DEF Hit, NextLines, Fill, Lines, State

-----------------------------------------------------------------------------
(* One clock cycle                                                         *)

(* What the rest of the system does to the cores and to memory.            *)
LEMMA CycleFacts ==
  ASSUME IInv, NEW g \in Cores, Cycle(g)
  PROVE  /\ Granted(g)
         /\ req' \in [Cores -> Request]
         /\ \A c \in Cores : ~CoreReady(g, c) => req'[c] = req[c]
         /\ \A c \in Cores :
              /\ l1st'[c] = NextState(l1st[c], l1[c], req[c], BusReady(g, c))
              /\ l1'[c] = L1NextLines(g, c)
         /\ \/ mem' = mem
            \/ /\ memCount = LATENCY /\ memReady' /\ req[g].op = "write"
               /\ mem' = [mem EXCEPT ![req[g].addr] = req[g].data]
<1>1. Granted(g) /\ CoreEdge(g, Cores) /\ MemEdge(g)
  BY DEF Cycle, SysEdge
<1>2. req \in [Cores -> Request]
  BY DEF IInv, TypeOK
<1>3. PICK next \in [{c \in Cores : CoreReady(g, c)} -> Request] :
        req' = [c \in Cores |-> IF c \in {d \in Cores : CoreReady(g, d)}
                                  THEN next[c] ELSE req[c]]
  BY <1>1 DEF Moving, CoreEdge
<1>4. /\ req' \in [Cores -> Request]
      /\ \A c \in Cores : ~CoreReady(g, c) => req'[c] = req[c]
  BY <1>2, <1>3
<1>5. \A c \in Cores :
        /\ l1st'[c] = NextState(l1st[c], l1[c], req[c], BusReady(g, c))
        /\ l1'[c] = L1NextLines(g, c)
  BY <1>1 DEF Moving, CoreEdge
<1>6. \/ mem' = mem
      \/ /\ memCount = LATENCY /\ memReady' /\ req[g].op = "write"
         /\ mem' = [mem EXCEPT ![req[g].addr] = req[g].data]
  BY <1>1, PathFacts DEF MemEdge
<1>7. QED
  BY <1>1, <1>4, <1>5, <1>6

(* Typing is preserved.                                                    *)
LEMMA CycleTypeOK ==
  ASSUME IInv, NEW g \in Cores, Cycle(g)
  PROVE  TypeOK'
<1>1. TypeOK /\ Granted(g) /\ CoreEdge(g, Cores) /\ SysEdge(g)
  BY DEF Cycle, IInv
<1>2. BusReady(g, g) \in BOOLEAN /\ L3Ready(g) \in BOOLEAN /\ memReady \in BOOLEAN
      /\ L2Ready(g) \in BOOLEAN
  BY <1>1 DEF BusReady, L2Ready, L3Ready, Ready, TypeOK, Hit
<1>3. /\ memData \in Vals \cup {Invalid}
      /\ L3Data(g) \in Vals \cup {Invalid}
      /\ L2Data(g) \in Vals \cup {Invalid}
  <2>1. L3Data(g) \in Vals \cup {Invalid} /\ memData \in Vals \cup {Invalid}
    BY <1>1, PathFacts, PortFacts DEF L3Data, ReadData, TypeOK, Lines
  <2>2. QED
    BY <1>1, <2>1, PortFacts DEF L2Data, ReadData, TypeOK, Lines
<1>4. req' \in [Cores -> Request]
  BY CycleFacts
<1>5. ASSUME NEW c \in Cores
      PROVE  l1st'[c] \in State /\ l1'[c] \in Lines
  <2>1. BusReady(g, c) \in BOOLEAN
    BY <1>2 DEF BusReady
  <2>2. /\ NextState(l1st[c], l1[c], req[c], BusReady(g, c)) \in State
        /\ NextLines(l1st[c], l1[c], L1Index, req[c], BusReady(g, c), L2Data(g))
             \in Lines
    BY <1>1, <1>3, <2>1, PortFacts, ControllerTypes DEF TypeOK
  <2>3. PICK lines \in Lines :
          l1'[c] = [a \in Addrs |-> IF Snooped(g, c, a) THEN Invalid ELSE lines[a]]
    BY <2>2, CycleFacts DEF L1NextLines
  <2>4. l1'[c] \in Lines
    BY <2>3 DEF Lines
  <2>5. QED
    BY <2>2, <2>4, CycleFacts
<1>6. l1st' \in [Cores -> State] /\ l1' \in [Cores -> Lines]
  <2>1. /\ l1st' = [c \in Cores |-> l1st'[c]]
        /\ l1' = [c \in Cores |-> l1'[c]]
    BY <1>1 DEF Moving, CoreEdge
  <2>2. QED
    BY <1>5, <2>1
<1>7. rdata' \in [Cores -> Vals \cup {Invalid}]
  BY <1>1, <1>3, PortFacts DEF Moving, CoreEdge, ReadData, TypeOK, Lines
<1>8. serving' \in BOOLEAN /\ current' \in Cores /\ last' \in Cores
  BY <1>1, <1>2 DEF SysEdge, BusEdge, busVars, TypeOK
<1>9. l2st' \in State /\ l2' \in Lines
  BY <1>1, <1>2, <1>3, PortFacts, ControllerTypes DEF SysEdge, L2Edge, TypeOK
<1>10. l3st' \in State /\ l3' \in Lines
  BY <1>1, <1>2, <1>3, PathFacts, PortFacts, ControllerTypes
     DEF SysEdge, L3Edge, TypeOK
<1>11. mem' \in [Addrs -> Vals]
  BY <1>1, CycleFacts, PortFacts DEF TypeOK
<1>12. /\ memCount' \in 0 .. LATENCY /\ memReady' \in BOOLEAN
       /\ memData' \in Vals \cup {Invalid}
  <2>1. MemEdge(g) /\ MemRequest(g).addr \in Addrs
    BY <1>1, PathFacts, PortFacts DEF SysEdge
  <2>2. memReady' \in BOOLEAN
    BY <2>1 DEF MemEdge
  <2>3. memCount' \in 0 .. LATENCY
    BY <1>1, <2>1 DEF MemEdge, TypeOK
  <2>4. memData' \in Vals \cup {Invalid}
    BY <1>1, <2>1 DEF MemEdge, TypeOK
  <2>5. QED
    BY <2>2, <2>3, <2>4
<1>13. QED
  BY <1>4, <1>6, <1>7, <1>8, <1>9, <1>10, <1>11, <1>12 DEF TypeOK

(* The level above the one that answers is the one that waits for it.      *)
LEMMA CycleHandshake ==
  ASSUME IInv, NEW g \in Cores, Cycle(g)
  PROVE  Handshake'
<1>1. TypeOK /\ Handshake /\ Granted(g) /\ BusEdge(g) /\ L2Edge(g) /\ L3Edge(g)
      /\ MemEdge(g)
  BY DEF Cycle, SysEdge, IInv
<1>2. L3Ready(g) \in BOOLEAN /\ L2Ready(g) \in BOOLEAN /\ memReady \in BOOLEAN
  BY <1>1 DEF L2Ready, L3Ready, Ready, TypeOK, Hit
<1>3. ASSUME NEW c \in Cores
      PROVE  /\ l1st'[c] = "FETCH" => req'[c].op = "read"
             /\ l1st'[c] = "WRITE" => req'[c].op = "write"
  <2>1. l1st'[c] # "IDLE" => ~CoreReady(g, c)
    BY <1>1, CycleFacts DEF CoreReady, NextState, Ready, TypeOK, State
  <2>2. /\ l1st'[c] = "FETCH" => req[c].op = "read"
        /\ l1st'[c] = "WRITE" => req[c].op = "write"
    BY <1>1, CycleFacts DEF NextState, Handshake
  <2>3. QED
    BY <2>1, <2>2, CycleFacts
<1>4. l2st' # "IDLE" =>
        /\ ~L2Ready(g)
        /\ serving' /\ current' = g
        /\ l1st'[g] = l2st' /\ req'[g] = req[g]
  <2>1. SUFFICES ASSUME l2st' # "IDLE"
                 PROVE  /\ ~L2Ready(g)
                        /\ serving' /\ current' = g
                        /\ l1st'[g] = l2st' /\ req'[g] = req[g]
    OBVIOUS
  <2>2. /\ ~L2Ready(g)
        /\ l2st' = "FETCH" => L1Request(g).op = "read"
        /\ l2st' = "WRITE" => L1Request(g).op = "write"
        /\ l2st' \in {"FETCH", "WRITE"}
    BY <1>1, <1>2, <2>1, PathFacts DEF L2Edge, NextState, L2Ready, Ready, TypeOK, State
  <2>3. Requesting(g) /\ serving' /\ current' = g
    BY <1>1, <2>2 DEF BusEdge, Requesting, Granted
  <2>4. ~BusReady(g, g)
    BY <2>2 DEF BusReady
  <2>5. l1st'[g] = l2st' /\ ~CoreReady(g, g)
    BY <1>1, <2>2, <2>4, CycleFacts, PortFacts
       DEF NextState, CoreReady, Ready, L1Request, Downstream, TypeOK, State
  <2>6. QED
    BY <2>2, <2>3, <2>5, CycleFacts
<1>5. EnableL3 => /\ l3st' = "FETCH" => l2st' = "FETCH"
                  /\ l3st' = "WRITE" <=> l2st' = "WRITE"
  <2>1. SUFFICES ASSUME EnableL3
                 PROVE  /\ l3st' = "FETCH" => l2st' = "FETCH"
                        /\ l3st' = "WRITE" <=> l2st' = "WRITE"
    OBVIOUS
  <2>2. /\ l2st' = NextState(l2st, l2, L1Request(g), L3Ready(g))
        /\ l3st' = NextState(l3st, l3, L3Request(g), memReady)
        /\ L3Ready(g) = Ready(l3st, l3, L3Request(g), memReady)
        /\ l3st = "FETCH" => l2st = "FETCH"
        /\ l3st = "WRITE" <=> l2st = "WRITE"
        /\ memReady => l2st = l3st /\ l2st # "IDLE"
        /\ l2st \in State /\ l3st \in State
    BY <1>1, <2>1 DEF L2Edge, L3Edge, L3Ready, Handshake, TypeOK
  <2>3. L3Request(g) = Downstream(l2st, l2, L1Request(g))
    BY DEF L3Request
  <2>4. CASE l2st = "IDLE"
    <3>1. l3st = "IDLE" /\ ~memReady
      BY <2>2, <2>4 DEF State
    <3>2. CASE L1Request(g).op = "read" /\ ~Hit(l2, L1Request(g).addr)
      BY <1>1, <2>2, <2>4, <3>1, <3>2, PathFacts, PortFacts DEF NextState
    <3>3. CASE L1Request(g).op = "write"
      <4>1. L3Request(g).op = "write"
        BY <1>1, <3>3, PathFacts, PortFacts
      <4>2. QED
        BY <2>2, <2>4, <3>1, <3>3, <4>1 DEF NextState, Ready
    <3>4. CASE L1Request(g).op # "write" /\ ~(L1Request(g).op = "read" /\ ~Hit(l2, L1Request(g).addr))
      <4>1. L3Request(g).op = "none"
        BY <2>3, <2>4, <3>4, PortFacts DEF Downstream
      <4>2. QED
        BY <2>2, <2>4, <3>1, <3>4, <4>1 DEF NextState
    <3>5. QED
      BY <3>2, <3>3, <3>4
  <2>5. CASE l2st = "FETCH"
    BY <1>2, <2>2, <2>5, <1>1, PathFacts DEF NextState, Ready, State
  <2>6. CASE l2st = "WRITE"
    BY <1>2, <2>2, <2>6 DEF NextState, Ready
  <2>7. QED
    BY <2>2, <2>4, <2>5, <2>6 DEF State
<1>6. ~EnableL3 => l3st' = "IDLE" /\ l3' = NoLines
  BY <1>1 DEF L3Edge, Handshake
<1>7. ASSUME memReady'
      PROVE  /\ memCount' = 0
             /\ l2st' # "IDLE" /\ (EnableL3 => l3st' = l2st')
             /\ l2st' = "FETCH" => memData' = mem'[req'[current'].addr]
             /\ l2st' = "WRITE" => req'[current'].data = mem'[req'[current'].addr]
  <2>1. /\ MemRequest(g).op # "none" /\ memCount = LATENCY /\ memCount' = 0
        /\ MemRequest(g).op = "read" => memData' = mem[req[g].addr] /\ mem' = mem
        /\ MemRequest(g).op = "write" =>
             mem' = [mem EXCEPT ![req[g].addr] = req[g].data]
    BY <1>1, <1>7, PathFacts DEF MemEdge
  <2>2. ~memReady
    BY <1>1, <2>1 DEF Handshake
  <2>3. L3Request(g).op # "none" /\ ~L3Ready(g)
    <3>1. CASE EnableL3
      BY <1>1, <2>1, <2>2, <3>1, PathFacts
         DEF MemRequest, L3Ready, Ready, Downstream, TypeOK, State
    <3>2. CASE ~EnableL3
      BY <2>1, <2>2, <3>2 DEF MemRequest, L3Ready
    <3>3. QED
      BY <3>1, <3>2
  <2>4. l2st' # "IDLE"
    BY <1>1, <2>3, PathFacts DEF L2Edge, NextState, L3Request, Downstream, TypeOK, State
  <2>5. EnableL3 => l3st' # "IDLE"
    BY <1>1, <2>1, <2>2, PathFacts
       DEF L3Edge, MemRequest, NextState, Downstream, TypeOK, State
  <2>6. l2st' \in State /\ l3st' \in State /\ mem' \in [Addrs -> Vals]
    BY CycleTypeOK DEF TypeOK
  <2>7. EnableL3 => l3st' = l2st'
    BY <1>5, <2>5, <2>6 DEF State
  <2>8. /\ l2st' = "FETCH" => MemRequest(g).op = "read"
        /\ l2st' = "WRITE" => MemRequest(g).op = "write"
    BY <1>1, <2>1, PathFacts, PortFacts DEF L2Edge, NextState, TypeOK, State
  <2>9. current' = g /\ req'[g] = req[g]
    BY <1>4, <2>4
  <2>10. QED
    BY <1>1, <2>1, <2>4, <2>7, <2>8, <2>9, PortFacts DEF TypeOK
<1>8. QED
  <2>1. l2st' # "IDLE" => serving' /\ l1st'[current'] = l2st'
    BY <1>4
  <2>2. QED
    BY <1>3, <1>5, <1>6, <1>7, <2>1 DEF Handshake

(* The snoop broadcast of every cycle in which a write is on the bus.      *)
LEMMA CycleSnoop ==
  ASSUME IInv, NEW g \in Cores, Cycle(g),
         NEW c \in Cores, c # g, req[g].op = "write"
  PROVE  ~Hit(l1'[c], req[g].addr)
<1>1. l1'[c] = L1NextLines(g, c)
  BY CycleFacts
<1>2. Snooped(g, c, req[g].addr)
  BY PortFacts DEF Snooped
<1>3. QED
  BY <1>1, <1>2, PortFacts DEF L1NextLines, Hit

(* The store under way after a cycle is the one the granted core requested *)
(* in it, and that core still waits.                                       *)
LEMMA CycleStoring ==
  ASSUME IInv, NEW g \in Cores, Cycle(g), l2st' = "WRITE"
  PROVE  current' = g /\ req[g].op = "write" /\ req'[g] = req[g]
<1>1. Handshake' /\ BusEdge(g) /\ L2Edge(g) /\ Granted(g) /\ TypeOK
  BY CycleHandshake DEF Cycle, SysEdge, IInv
<1>2. L1Request(g).op = "write" /\ ~L2Ready(g)
  BY <1>1, PathFacts DEF L2Edge, NextState, L2Ready, Ready, TypeOK, State
<1>3. current' = g
  BY <1>1, <1>2 DEF BusEdge, Requesting, Granted
<1>4. ~CoreReady(g, g)
  BY <1>2, PortFacts DEF CoreReady, Ready, BusReady
<1>5. QED
  BY <1>2, <1>3, <1>4, CycleFacts, PortFacts

LEMMA CycleWriterExclusive ==
  ASSUME IInv, NEW g \in Cores, Cycle(g)
  PROVE  WriterExclusive'
BY CycleStoring, CycleSnoop DEF WriterExclusive, Storing

(* Coherence of the L1 lines.                                              *)
LEMMA CycleL1Coherent ==
  ASSUME IInv, NEW g \in Cores, Cycle(g)
  PROVE  L1Coherent'
<1> SUFFICES ASSUME NEW c \in Cores, NEW a \in Addrs, Hit(l1'[c], a)
             PROVE  l1'[c][a] = IF l1st'[c] = "WRITE" /\ req'[c].addr = a
                                  THEN req'[c].data ELSE mem'[a]
  BY DEF L1Coherent
<1> DEFINE next == NextLines(l1st[c], l1[c], L1Index, req[c],
                             BusReady(g, c), L2Data(g))
<1>1. TypeOK /\ Granted(g)
  BY DEF Cycle, IInv
<1>2. ~Snooped(g, c, a) /\ Hit(next, a) /\ l1'[c][a] = next[a]
  <2>1. l1'[c] = L1NextLines(g, c)
    BY CycleFacts
  <2>2. l1'[c][a] = IF Snooped(g, c, a) THEN Invalid ELSE next[a]
    BY <2>1, Zenon DEF L1NextLines
  <2>3. QED
    BY <2>2 DEF Hit
<1>3. ASSUME mem'[a] # mem[a]
      PROVE  /\ c = g /\ req[g].addr = a /\ req[g].op = "write"
             /\ mem'[a] = req[g].data /\ ~memReady
  <2>1. /\ req[g].op = "write" /\ memCount = LATENCY
        /\ mem' = [mem EXCEPT ![req[g].addr] = req[g].data]
    BY <1>3, CycleFacts
  <2>2. req[g].addr = a /\ mem'[a] = req[g].data
    BY <1>1, <1>3, <2>1 DEF TypeOK
  <2>3. c = g
    BY <2>1, <2>2, CycleSnoop
  <2>4. ~memReady
    BY <2>1 DEF IInv, Handshake
  <2>5. QED
    BY <2>1, <2>2, <2>3, <2>4
<1>4. /\ l1st[c] \in State /\ l1[c] \in Lines
      /\ BusReady(g, c) \in BOOLEAN
  BY <1>1 DEF TypeOK, BusReady, L2Ready, L3Ready, Ready, Hit
<1>5. /\ l1st'[c] = NextState(l1st[c], l1[c], req[c], BusReady(g, c))
      /\ ~CoreReady(g, c) => req'[c] = req[c]
  BY CycleFacts
<1>6. CASE l1st[c] = "FETCH" /\ BusReady(g, c) /\ req[c].addr = a
           /\ next[a] = L2Data(g)
  <2>1. c = g /\ L2Ready(g) /\ L1Request(g).op = "read"
    BY <1>6, PortFacts DEF BusReady, IInv, Handshake
  <2>2. next[a] = mem[a]
    BY <1>1, <1>6, <2>1, AnswerFacts
  <2>3. l1st'[c] = "IDLE" /\ mem'[a] = mem[a]
    BY <1>3, <1>5, <1>6, <2>1, PortFacts DEF NextState
  <2>4. QED
    BY <1>2, <2>2, <2>3
<1>7. CASE l1st[c] = "IDLE" /\ req[c].op = "write" /\ req[c].addr = a
           /\ next[a] = req[c].data
  <2>1. ~BusReady(g, c)
    BY <1>1, <1>7, AnswerFacts, PathFacts, PortFacts DEF BusReady
  <2>2. l1st'[c] = "WRITE" /\ req'[c] = req[c]
    BY <1>5, <1>7, <2>1 DEF NextState, CoreReady, Ready
  <2>3. QED
    BY <1>2, <1>7, <2>2
<1>8. CASE /\ ~(l1st[c] = "IDLE" /\ req[c].op = "write" /\ req[c].addr = a)
           /\ Hit(l1[c], a) /\ next[a] = l1[c][a]
  <2>1. l1[c][a] = IF l1st[c] = "WRITE" /\ req[c].addr = a
                     THEN req[c].data ELSE mem[a]
    BY <1>8 DEF IInv, L1Coherent
  <2>2. CASE l1st[c] = "WRITE" /\ req[c].addr = a
    <3>1. CASE BusReady(g, c)
      <4>1. c = g /\ L2Ready(g) /\ L1Request(g).op = "write"
        BY <2>2, <3>1, PortFacts DEF BusReady, IInv, Handshake
      <4>2. mem[a] = req[c].data /\ memReady
        BY <1>1, <2>2, <4>1, AnswerFacts, PathFacts, PortFacts
      <4>3. l1st'[c] = "IDLE" /\ mem'[a] = mem[a]
        BY <1>3, <1>5, <2>2, <3>1, <4>2 DEF NextState
      <4>4. QED
        BY <1>2, <1>8, <2>1, <2>2, <4>2, <4>3
    <3>2. CASE ~BusReady(g, c)
      <4>1. l1st'[c] = "WRITE" /\ req'[c] = req[c]
        BY <1>5, <2>2, <3>2 DEF NextState, CoreReady, Ready
      <4>2. QED
        BY <1>2, <1>8, <2>1, <2>2, <4>1
    <3>3. QED
      BY <3>1, <3>2
  <2>3. CASE ~(l1st[c] = "WRITE" /\ req[c].addr = a)
    <3>1. l1[c][a] = mem[a]
      BY <2>1, <2>3
    <3>2. mem'[a] = mem[a]
      <4>1. SUFFICES ASSUME mem'[a] # mem[a] PROVE FALSE
        OBVIOUS
      <4>2. c = g /\ req[c].addr = a /\ req[c].op = "write"
        BY <1>3, <4>1
      <4>3. l1st[c] # "FETCH"
        BY <4>2 DEF IInv, Handshake
      <4>4. QED
        BY <1>4, <1>8, <2>3, <4>2, <4>3 DEF State
    <3>3. ~(l1st'[c] = "WRITE" /\ req'[c].addr = a)
      <4>1. SUFFICES ASSUME l1st'[c] = "WRITE" PROVE req'[c].addr # a
        OBVIOUS
      <4>2. /\ l1st[c] = "WRITE" \/ (l1st[c] = "IDLE" /\ req[c].op = "write")
            /\ ~BusReady(g, c)
        BY <1>4, <1>5, <4>1 DEF NextState, State
      <4>3. req'[c] = req[c]
        BY <1>5, <4>2 DEF CoreReady, Ready
      <4>4. QED
        BY <1>8, <2>3, <4>2, <4>3
    <3>4. QED
      BY <1>2, <1>8, <3>1, <3>2, <3>3
  <2>4. QED
    BY <2>2, <2>3
<1>9. QED
  <2>1. BusReady(g, c) \in BOOLEAN /\ l1st[c] \in State /\ l1[c] \in Lines
    BY <1>4
  <2>2. \/ /\ l1st[c] = "FETCH" /\ BusReady(g, c) /\ req[c].addr = a
           /\ next[a] = L2Data(g)
        \/ /\ l1st[c] = "IDLE" /\ req[c].op = "write" /\ req[c].addr = a
           /\ next[a] = req[c].data
        \/ /\ ~(l1st[c] = "IDLE" /\ req[c].op = "write" /\ req[c].addr = a)
           /\ Hit(l1[c], a) /\ next[a] = l1[c][a]
    BY <1>2, <2>1, LineOrigin
  <2>3. QED
    BY <1>6, <1>7, <1>8, <2>2

(* Coherence of a shared cache that the granted core's access goes through *)
(* and that is storing exactly when L2 is.                                 *)
LEMMA SharedLine ==
  ASSUME IInv, NEW g \in Cores, Cycle(g),
         NEW st \in State, NEW lines \in Lines, NEW index,
         NEW r, NEW ready \in BOOLEAN, NEW data, NEW a \in Addrs,
         r.addr = req[g].addr, r.data = req[g].data,
         r.op = "write" <=> req[g].op = "write",
         st = "WRITE" <=> l2st = "WRITE",
         st = "FETCH" => l2st = "FETCH",
         st = "FETCH" /\ ready => data = mem[req[g].addr] /\ L3Ready(g),
         Hit(lines, a) => lines[a] = IF Storing(a) THEN req[current].data ELSE mem[a],
         Hit(NextLines(st, lines, index, r, ready, data), a)
  PROVE  NextLines(st, lines, index, r, ready, data)[a]
           = IF Storing(a)' THEN req'[current'].data ELSE mem'[a]
<1> DEFINE next == NextLines(st, lines, index, r, ready, data)
<1>1. TypeOK /\ Handshake /\ Granted(g) /\ L2Edge(g)
  BY DEF Cycle, SysEdge, IInv
<1>2. L3Ready(g) \in BOOLEAN /\ memReady \in BOOLEAN
  BY <1>1 DEF L3Ready, Ready, TypeOK, Hit
<1>3. Storing(a)' => current' = g /\ req'[g] = req[g] /\ req[g].addr = a
                     /\ req[g].op = "write"
  BY CycleStoring DEF Storing
<1>4. mem'[a] # mem[a] =>
        req[g].op = "write" /\ req[g].addr = a /\ ~memReady
  BY <1>1, CycleFacts DEF TypeOK, Handshake
<1>5. \/ st = "FETCH" /\ ready /\ r.addr = a /\ next[a] = data
      \/ st = "IDLE" /\ r.op = "write" /\ r.addr = a /\ next[a] = r.data
      \/ /\ ~(st = "IDLE" /\ r.op = "write" /\ r.addr = a)
         /\ Hit(lines, a) /\ next[a] = lines[a]
  BY LineOrigin
<1>6. CASE st = "FETCH" /\ ready /\ r.addr = a /\ next[a] = data
  <2>1. req[g].op # "write" /\ L3Ready(g) /\ next[a] = mem[a]
    BY <1>1, <1>6, PathFacts, PortFacts
  <2>2. QED
    BY <1>3, <1>4, <2>1
<1>7. CASE st = "IDLE" /\ r.op = "write" /\ r.addr = a /\ next[a] = r.data
  <2>1. l2st = "IDLE" /\ L1Request(g).op = "write" /\ L3Request(g).op = "write"
    BY <1>1, <1>7, PathFacts, PortFacts DEF TypeOK, State
  <2>2. ~L3Ready(g)
    BY <1>1, <2>1, AnswerFacts
  <2>3. l2st' = "WRITE"
    BY <1>1, <2>1, <2>2 DEF L2Edge, NextState
  <2>4. current' = g /\ req'[g] = req[g]
    BY <2>3, CycleStoring
  <2>5. QED
    BY <1>7, <2>3, <2>4 DEF Storing
<1>8. CASE /\ ~(st = "IDLE" /\ r.op = "write" /\ r.addr = a)
           /\ Hit(lines, a) /\ next[a] = lines[a]
  <2>1. CASE Storing(a)
    <3>1. g = current /\ l2st = "WRITE" /\ req[g].addr = a /\ next[a] = req[g].data
          /\ L1Request(g).op = "write" /\ L3Request(g).op = "write"
      BY <1>1, <1>8, <2>1, PathFacts, PortFacts DEF Storing
    <3>2. CASE L3Ready(g)
      <4>1. mem[a] = req[g].data /\ memReady /\ l2st' = "IDLE"
        BY <1>1, <3>1, <3>2, AnswerFacts DEF L2Edge, NextState
      <4>2. QED
        BY <1>4, <3>1, <4>1 DEF Storing
    <3>3. CASE ~L3Ready(g)
      <4>1. l2st' = "WRITE"
        BY <1>1, <3>1, <3>3 DEF L2Edge, NextState
      <4>2. current' = g /\ req'[g] = req[g]
        BY <4>1, CycleStoring
      <4>3. QED
        BY <3>1, <4>1, <4>2 DEF Storing
    <3>4. QED
      BY <3>2, <3>3
  <2>2. CASE ~Storing(a)
    <3>1. next[a] = mem[a]
      BY <1>8, <2>2
    <3>2. ~(req[g].op = "write" /\ req[g].addr = a)
      <4>1. SUFFICES ASSUME req[g].op = "write", req[g].addr = a PROVE FALSE
        OBVIOUS
      <4>2. st # "IDLE" /\ l2st # "FETCH"
        BY <1>1, <1>8, <4>1, PathFacts, PortFacts
      <4>3. l2st = "WRITE"
        BY <4>2 DEF State
      <4>4. QED
        BY <1>1, <2>2, <4>1, <4>3, PathFacts DEF Storing
    <3>3. QED
      BY <1>3, <1>4, <3>1, <3>2
  <2>3. QED
    BY <2>1, <2>2
<1>9. QED
  BY <1>5, <1>6, <1>7, <1>8

LEMMA CycleSharedCoherent ==
  ASSUME IInv, NEW g \in Cores, Cycle(g)
  PROVE  SharedCoherent'
<1>1. TypeOK /\ Handshake /\ SharedCoherent /\ Granted(g) /\ L2Edge(g) /\ L3Edge(g)
  BY DEF Cycle, SysEdge, IInv
<1>2. L3Ready(g) \in BOOLEAN /\ memReady \in BOOLEAN
  BY <1>1 DEF L3Ready, Ready, TypeOK, Hit
<1>3. ASSUME NEW a \in Addrs, Hit(l2', a)
      PROVE  l2'[a] = IF Storing(a)' THEN req'[current'].data ELSE mem'[a]
  <2>1. l2' = NextLines(l2st, l2, L2Index, L1Request(g), L3Ready(g), L3Data(g))
    BY <1>1 DEF L2Edge
  <2>2. Hit(l2, a) => l2[a] = IF Storing(a) THEN req[current].data ELSE mem[a]
    BY <1>1 DEF SharedCoherent
  <2>3. l2st = "FETCH" /\ L3Ready(g) => L3Data(g) = mem[req[g].addr]
    BY <1>1, AnswerFacts
  <2>4. l2st \in State /\ l2 \in Lines
    BY <1>1 DEF TypeOK
  <2>5. QED
    BY <1>2, <1>3, <2>1, <2>2, <2>3, <2>4, PortFacts, SharedLine
<1>4. ASSUME NEW a \in Addrs, Hit(l3', a)
      PROVE  l3'[a] = IF Storing(a)' THEN req'[current'].data ELSE mem'[a]
  <2>1. EnableL3
    BY <1>1, <1>4 DEF L3Edge, Handshake, NoLines, Hit
  <2>2. l3' = NextLines(l3st, l3, L3Index, L3Request(g), memReady, memData)
    BY <1>1, <2>1 DEF L3Edge
  <2>3. Hit(l3, a) => l3[a] = IF Storing(a) THEN req[current].data ELSE mem[a]
    BY <1>1 DEF SharedCoherent
  <2>4. /\ l3st = "WRITE" <=> l2st = "WRITE"
        /\ l3st = "FETCH" => l2st = "FETCH"
    BY <1>1, <2>1 DEF Handshake
  <2>5. l3st = "FETCH" /\ memReady => memData = mem[req[g].addr] /\ L3Ready(g)
    BY <1>1, <2>1, <2>4, AnswerFacts DEF L3Ready, Ready
  <2>6. l3st \in State /\ l3 \in Lines
    BY <1>1 DEF TypeOK
  <2>7. QED
    BY <1>1, <1>2, <1>4, <2>2, <2>3, <2>4, <2>5, <2>6, PathFacts, SharedLine
<1>5. QED
  BY <1>3, <1>4 DEF SharedCoherent

-----------------------------------------------------------------------------
(* The invariant                                                           *)

LEMMA InitIInv == Init => IInv
<1> SUFFICES ASSUME Init PROVE IInv
  OBVIOUS
<1>1. TypeOK
  <2>1. 0 \in Cores /\ "IDLE" \in State /\ NoLines \in Lines /\ 0 \in 0 .. LATENCY
    BY DEF Cores, State, NoLines, Lines
  <2>2. req \in [Cores -> Request] /\ rdata \in [Cores -> Vals \cup {Invalid}]
    BY DEF ResetState, Init
  <2>3. QED
    BY <2>1, <2>2 DEF ResetState, Init, TypeOK
<1>2. L1Coherent /\ WriterExclusive /\ SharedCoherent
  BY DEF ResetState, Init, L1Coherent, WriterExclusive, SharedCoherent, Storing, NoLines, Hit
<1>3. Handshake
  BY DEF ResetState, Init, Handshake
<1>4. QED
  BY <1>1, <1>2, <1>3 DEF IInv

LEMMA NextIInv == IInv /\ [Next]_vars => IInv'
<1> SUFFICES ASSUME IInv, [Next]_vars PROVE IInv'
  OBVIOUS
<1>1. CASE Next
  <2>1. PICK g \in Cores : Cycle(g)
    BY <1>1 DEF Next
  <2>2. QED
    BY <2>1, CycleTypeOK, CycleL1Coherent, CycleWriterExclusive,
       CycleSharedCoherent, CycleHandshake DEF IInv
<1>2. CASE UNCHANGED vars
  BY <1>2 DEF vars, coreVars, sysVars, busVars, memVars, IInv, TypeOK, L1Coherent,
     WriterExclusive, SharedCoherent, Handshake, Storing, Hit, NoLines
<1>3. QED
  BY <1>1, <1>2

THEOREM Invariance == Spec => []IInv
BY InitIInv, NextIInv, PTL DEF Spec

(* Typing, for every number of cores and every choice of lines.            *)
THEOREM TypeCorrect == Spec => []TypeOK
BY Invariance, PTL DEF IInv

(* What an L1 holds is what memory holds, up to the store its core is      *)
(* waiting for (l1_cache.v:47-67).                                         *)
THEOREM Coherence == Spec => []L1Coherent
BY Invariance, PTL DEF IInv

(* While a store is under way no other core has a copy of its word: the    *)
(* broadcast of the bus reaches all of them (ax_bus_scalable.v:171-173).   *)
THEOREM Exclusion == Spec => []WriterExclusive
BY Invariance, PTL DEF IInv

(* L2 and L3 hold what memory holds, up to the store under way             *)
(* (l2_cache.v:34-48, l3_cache.v:46-63).                                   *)
THEOREM SharedCopies == Spec => []SharedCoherent
BY Invariance, PTL DEF IInv

(* The chain of state machines is always in step.                          *)
THEOREM InStep == Spec => []Handshake
BY Invariance, PTL DEF IInv

-----------------------------------------------------------------------------
(* One memory                                                              *)

(* An access is answered as SerialMemory would: a store when it has taken  *)
(* effect, a load with the contents of memory.                             *)
LEMMA CompletionFacts ==
  ASSUME IInv, NEW g \in Cores, Granted(g), NEW c \in Cores, CoreReady(g, c)
  PROVE  /\ req[c].op = "write" =>
              memReady /\ l2st = "WRITE" /\ c = g /\ c = current
         /\ req[c].op = "read" =>
              ReadData(l1st[c], l1[c], req[c], L2Data(g)) = mem[req[c].addr]
<1>1. l1st[c] \in State /\ req[c].addr \in Addrs
  BY PortFacts DEF IInv, TypeOK
<1>2. ASSUME req[c].op = "write"
      PROVE  memReady /\ l2st = "WRITE" /\ c = g /\ c = current
  <2>1. c = g /\ L2Ready(g)
    BY <1>1, <1>2 DEF CoreReady, Ready, BusReady
  <2>2. QED
    BY <1>2, <2>1, AnswerFacts, PathFacts, PortFacts
<1>3. ASSUME req[c].op = "read"
      PROVE  ReadData(l1st[c], l1[c], req[c], L2Data(g)) = mem[req[c].addr]
  <2>1. CASE l1st[c] = "IDLE"
    <3>1. Hit(l1[c], req[c].addr)
      BY <1>3, <2>1 DEF CoreReady, Ready
    <3>2. l1[c][req[c].addr] = mem[req[c].addr]
      BY <1>1, <2>1, <3>1 DEF IInv, L1Coherent
    <3>3. QED
      BY <2>1, <3>2 DEF ReadData
  <2>2. CASE l1st[c] = "FETCH"
    <3>1. c = g /\ L2Ready(g) /\ L1Request(g).op = "read"
      BY <1>3, <2>2, PortFacts DEF CoreReady, Ready, BusReady
    <3>2. QED
      BY <2>2, <3>1, AnswerFacts DEF ReadData
  <2>3. l1st[c] # "WRITE"
    BY <1>3 DEF IInv, Handshake
  <2>4. QED
    BY <1>1, <2>1, <2>2, <2>3 DEF State
<1>4. QED
  BY <1>2, <1>3

LEMMA InitOneMemory == Init => SM!Init
<1> SUFFICES ASSUME Init PROVE SM!Init
  OBVIOUS
<1>1. [c \in Cores |-> memReady /\ l2st = "WRITE" /\ c = current]
        = [c \in Cores |-> FALSE]
  BY DEF ResetState, Init
<1>2. QED
  BY <1>1 DEF ResetState, Init, SM!Init

(* A cycle is a step of SerialMemory in which the cores whose stall is     *)
(* released complete, and the store main memory answers takes effect.      *)
LEMMA CycleOneMemory ==
  ASSUME IInv, NEW g \in Cores, Cycle(g)
  PROVE  SM!Next
<1> DEFINE R == {c \in Cores : CoreReady(g, c)}
           done == [c \in Cores |-> memReady /\ l2st = "WRITE" /\ c = current]
<1>1. TypeOK /\ Handshake /\ Granted(g) /\ CoreEdge(g, Cores) /\ MemEdge(g)
      /\ L2Edge(g)
  BY DEF Cycle, SysEdge, IInv
<1>2. \A c \in R : req[c].op = "write" => done[c]
  BY <1>1, CompletionFacts
<1>3. rdata' = [c \in Cores |->
                  IF c \notin R THEN rdata[c]
                  ELSE IF req[c].op = "read" THEN mem[req[c].addr] ELSE Invalid]
  <2>1. rdata' = [c \in Cores |->
                    IF c \notin R THEN rdata[c]
                    ELSE IF req[c].op = "read"
                      THEN ReadData(l1st[c], l1[c], req[c], L2Data(g))
                      ELSE Invalid]
    BY <1>1 DEF Moving, CoreEdge
  <2>2. QED
    BY <1>1, <2>1, CompletionFacts
<1>4. SM!Complete(R)
  BY <1>2, <1>3, CycleFacts DEF SM!Complete
<1>5. memReady' => memCount = LATENCY /\ ~memReady
  BY <1>1 DEF MemEdge, Handshake
<1>6. memReady' /\ l2st' = "WRITE" => current' = g /\ req[g].op = "write"
  BY CycleStoring
<1>7. CASE memReady' /\ req[g].op = "write"
  <2>1. mem' = [mem EXCEPT ![req[g].addr] = req[g].data]
    BY <1>1, <1>7, PathFacts DEF MemEdge
  <2>2. g \in Cores \ R
    BY <1>1, <1>5, <1>7, CompletionFacts
  <2>3. l2st' = "WRITE" /\ current' = g
    <3>1. L1Request(g).op = "write" /\ l2st \in {"IDLE", "WRITE"} /\ ~L3Ready(g)
      BY <1>1, <1>5, <1>7, AnswerFacts, PathFacts, PortFacts DEF TypeOK, State
    <3>2. l2st' = "WRITE"
      BY <1>1, <3>1 DEF L2Edge, NextState
    <3>3. QED
      BY <3>2, CycleStoring
  <2>4. SM!Perform(g)
    BY <1>5, <1>7, <2>1 DEF SM!Perform
  <2>5. done' = [c \in Cores |-> c \notin R /\ (done[c] \/ c = g)]
    BY <1>5, <1>7, <2>2, <2>3
  <2>6. QED
    BY <1>4, <2>2, <2>4, <2>5 DEF SM!Next
<1>8. CASE ~(memReady' /\ req[g].op = "write")
  <2>1. mem' = mem
    BY <1>1, <1>8, PathFacts DEF MemEdge
  <2>2. \A c \in Cores : ~done'[c]
    BY <1>6, <1>8
  <2>3. ASSUME NEW c \in Cores, done[c]
        PROVE  c \in R
    <3>1. c = g /\ memReady /\ l2st = "WRITE" /\ l1st[g] = "WRITE"
      BY <1>1, <2>3, PathFacts
    <3>2. L3Ready(g)
      BY <1>1, <3>1 DEF L3Ready, Ready, Handshake
    <3>3. QED
      BY <3>1, <3>2 DEF CoreReady, BusReady, L2Ready, Ready
  <2>4. done' = [c \in Cores |-> c \notin R /\ done[c]]
    BY <2>2, <2>3
  <2>5. QED
    BY <1>4, <2>1, <2>4 DEF SM!Next
<1>9. QED
  BY <1>7, <1>8

(* The cores cannot tell the caches, the bus and the latencies from one    *)
(* memory that they access one at a time.                                  *)
THEOREM Refinement == Spec => OneMemory
<1>1. IInv /\ [Next]_vars => [SM!Next]_SM!vars
  <2>1. ASSUME IInv, Next PROVE SM!Next
    BY <2>1, CycleOneMemory DEF Next
  <2>2. UNCHANGED vars => UNCHANGED SM!vars
    BY DEF vars, coreVars, sysVars, memVars, busVars, SM!vars
  <2>3. QED
    BY <2>1, <2>2
<1>2. QED
  BY <1>1, InitOneMemory, Invariance, PTL DEF Spec, OneMemory, SM!Spec

-----------------------------------------------------------------------------
(* Arbitration                                                             *)

(* No waiting core is overtaken without coming nearer to the grant.        *)
THEOREM Bypass == Spec => BoundedBypass
<1> DEFINE Nearer == \A c \in Cores :
                       ~serving /\ serving' /\ Requesting(c) /\ current' # c
                         => Distance(c)' < Distance(c)
<1>1. ASSUME IInv, Next PROVE Nearer
  <2> SUFFICES ASSUME NEW c \in Cores, ~serving, serving', Requesting(c), current' # c
               PROVE  Distance(c)' < Distance(c)
    OBVIOUS
  <2>1. PICK g \in Cores : Cycle(g)
    BY <1>1 DEF Next
  <2>2. Requesting(g) /\ Distance(g) <= Distance(c)
    BY <2>1 DEF Cycle, Granted
  <2>3. current' = g /\ last' = g
    BY <2>1, <2>2 DEF Cycle, SysEdge, BusEdge
  <2>4. /\ c \in 0 .. NumCores - 1 /\ g \in 0 .. NumCores - 1 /\ c # g
        /\ last \in 0 .. NumCores - 1 /\ NumCores \in Nat
    BY <1>1, <2>3 DEF IInv, TypeOK, Cores
  <2>5. QED
    BY <2>2, <2>3, <2>4 DEF Distance
<1>2. IInv /\ [Next]_vars => [Nearer]_vars
  BY <1>1
<1>3. QED
  BY <1>2, Invariance, PTL DEF Spec, BoundedBypass
=============================================================================
