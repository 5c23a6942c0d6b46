-------------------------- MODULE Peripherals_proof --------------------------
(***************************************************************************)
(* The proofs about Peripherals, for any number of cores, any programs and *)
(* any timing of the other ends.                                           *)
(***************************************************************************)
EXTENDS Peripherals, TLAPS

-----------------------------------------------------------------------------
(* Addresses                                                               *)

(* The windows of the four slaves do not overlap.                          *)
LEMMA WindowsApart ==
  ASSUME NEW a \in Nat, NEW d \in Devices, InWindow(d, a), NEW e \in Devices, InWindow(e, a)
  PROVE  d = e
BY DEF Devices, InWindow, Base, WindowSize

(* What a load of address a reads, by the slave that has a.                *)
LEMMA RegisterOf ==
  ASSUME NEW a \in Nat
  PROVE  /\ InWindow("uart", a)  => RegisterValue(a) = UartRead(a - Base.uart)
         /\ InWindow("spi", a)   => RegisterValue(a) = SpiRead(a - Base.spi)
         /\ InWindow("clint", a) => RegisterValue(a) = ClintRead(a - Base.clint)
         /\ InWindow("gpio", a)  => RegisterValue(a) = GpioRead(a - Base.gpio, level)
<1>1. {"uart", "spi", "clint", "gpio"} = Devices
  BY DEF Devices, Base
<1>2. QED
  BY <1>1, WindowsApart DEF RegisterValue

-----------------------------------------------------------------------------
(* The inductive invariant                                                 *)

(* Every core runs its program, and its L1 is busy with what it asks for.  *)
CoresInv ==
  /\ program \in DOMAIN Programs
  /\ \A c \in Cores : req[c] \in Code(c) \cup {Other(0)}
  /\ l1st \in [Cores -> State]
  /\ \A c \in Cores : /\ l1st[c] = "FETCH" => req[c].op = "read"
                      /\ l1st[c] = "WRITE" => req[c].op = "write"

(* What the slave shows to the core that asked in the last cycle: the data *)
(* it read then, or that the store of this core was done.                  *)
AnswersInv ==
  /\ asked \subseteq Cores
  /\ \A g \in asked, d \in Devices :
       InWindow(d, req[g].byte) =>
         /\ req[g].op = "read" => Port[d].ready /\ Port[d].data \in seen[g]
         /\ req[g].op = "write" /\ Port[d].ready => landed[g]

PInv == CoresInv /\ AnswersInv

(* An instruction in MEM.                                                  *)
LEMMA Instruction ==
  ASSUME CoresInv, NEW c \in Cores
  PROVE  /\ req[c].op \in {"none", "read", "write"} /\ req[c].byte \in Nat
         /\ req[c].op # "none" => \E d \in Devices : InWindow(d, req[c].byte)
         /\ \A d \in Devices : req[c].op # "none" /\ InWindow(d, req[c].byte) => Used(d)
         /\ req[c].op = "write" /\ InWindow("clint", req[c].byte) => req[c].data \in Time
         /\ req[c].op = "write" /\ InWindow("spi", req[c].byte)   => req[c].data \in CtrlWord
         /\ req[c].op = "write" /\ InWindow("uart", req[c].byte)  => req[c].data \in Nat
         /\ req[c].op = "write" /\ InWindow("gpio", req[c].byte)  => req[c].data \in {0, 1}
         /\ req[c].op = "write" => req[c].data \in Vals
         /\ req[c].op # "none" => req[c] \in Code(c)
         /\ req[c].op = "read" => req[c] = Load(req[c].byte)
<1>1. CASE req[c] \in Code(c)
  <2>1. req[c] \in Programs[program][c] /\ program \in DOMAIN Programs
    BY <1>1 DEF CoresInv, Code
  <2>2. /\ req[c] \in {Load(req[c].byte), Store(req[c].byte, req[c].data), Other(req[c].byte)}
        /\ req[c].byte \in Nat
    BY <2>1, ProgramsAssumption
  <2>3. /\ req[c].op \in {"none", "read", "write"}
        /\ req[c].op = "read" => req[c] = Load(req[c].byte)
    BY <2>2 DEF Load, Store, Other
  <2>4. QED
    BY <1>1, <2>1, <2>2, <2>3, ProgramsAssumption DEF Code, Used, Accesses
<1>2. CASE req[c] = Other(0)
  BY <1>2, SMT DEF Other
<1>3. QED
  BY <1>1, <1>2 DEF CoresInv

(* The request that the L1 of a core drives is the one of its core.        *)
LEMMA RequestOf ==
  ASSUME CoresInv, NEW c \in Cores, Bus!Requesting(c)
  PROVE  Bus!L1Request(c).op = req[c].op /\ req[c].op # "none"
BY DEF CoresInv, Bus!Requesting, Bus!L1Request, Bus!Downstream, State

(* The invariant holds at reset.                                           *)
LEMMA InitInv == Init => PInv
BY DEF Init, PInv, CoresInv, AnswersInv, State, Other

(* One cycle of the cores and of the bus.                                  *)
LEMMA CoresStep ==
  ASSUME CoresInv, NEW g \in Cores, Cycle(g)
  PROVE  CoresInv'
<1>1. program' = program /\ CoreEdge(g)
  BY DEF Cycle
<1>2. \A c \in Cores :
        req'[c] = req[c] \/ (CoreReady(g, c) /\ req'[c] \in Code(c))
  BY <1>1 DEF CoreEdge
<1>3. \A c \in Cores : req'[c] \in Code(c)' \cup {Other(0)}
  BY <1>1, <1>2 DEF CoresInv, Code
<1>4. \A c \in Cores : ~CoreReady(g, c) => req'[c] = req[c]
  BY <1>2
<1>5. \A c \in Cores :
        l1st'[c] = NextState(l1st[c], l1[c], req[c], BusReady(g, c))
  BY <1>1 DEF CoreEdge
<1>6. l1st' \in [Cores -> State]
  BY <1>1 DEF CoresInv, CoreEdge, NextState, State
<1>7. ASSUME NEW c \in Cores
      PROVE  /\ l1st'[c] = "FETCH" => req'[c].op = "read"
             /\ l1st'[c] = "WRITE" => req'[c].op = "write"
  <2>1. CASE CoreReady(g, c)
    <3>1. l1st'[c] = "IDLE"
      BY <1>5, <2>1 DEF CoresInv, CoreReady, Ready, NextState, State
    <3>2. QED
      BY <3>1
  <2>2. CASE ~CoreReady(g, c)
    BY <1>4, <1>5, <2>2 DEF CoresInv, NextState, State
  <2>3. QED
    BY <2>1, <2>2
<1>8. QED
  BY <1>1, <1>3, <1>6, <1>7 DEF CoresInv

(* What the slave d does in a cycle in which core g addresses it.          *)
LEMMA PortStep ==
  ASSUME CoresInv, NEW g \in Cores, Cycle(g), Bus!Requesting(g), ~CoreReady(g, g),
         NEW d \in Devices, InWindow(d, req[g].byte)
  PROVE  /\ req[g].op = "read" =>
              Port[d].ready' /\ Port[d].data' = RegisterValue(req[g].byte)
         /\ req[g].op = "write" /\ Port[d].ready' => Lands(g)
<1>1. /\ req[g].op \in {"read", "write"} /\ Bus!L1Request(g).op = req[g].op
      /\ req[g].byte \in Nat /\ Used(d)
  BY Instruction, RequestOf
<1>2. Selected(g, d)
  BY DEF Selected, AddrValid
<1>3. /\ Reads(g, d) <=> req[g].op = "read"
      /\ Writes(g, d) <=> req[g].op = "write"
  BY <1>1, <1>2 DEF Reads, Writes
<1>4. CASE d = "uart"
  <2>1. /\ uartPort'.ready <=> Reads(g, d) \/ (Writes(g, d) /\ UartTakesWrite(Offset(g, d)))
        /\ Reads(g, d) => uartPort'.data = UartRead(Offset(g, d))
    <3>1. UartEdge(Writes(g, d), Reads(g, d), Offset(g, d), req[g].data, RxLine)
      BY <1>1, <1>4 DEF Cycle, UartCycle
    <3>2. QED
      BY <3>1 DEF UartEdge
  <2>2. RegisterValue(req[g].byte) = UartRead(Offset(g, d))
    BY <1>1, <1>4, RegisterOf DEF Offset
  <2>3. QED
    BY <1>1, <1>3, <1>4, <2>1, <2>2 DEF Port, Lands
<1>5. CASE d = "spi"
  <2>1. /\ spiPort'.ready <=> Reads(g, d) \/ (Writes(g, d) /\ SpiTakesWrite(Offset(g, d)))
        /\ Reads(g, d) /\ ~Writes(g, d) => spiPort'.data = SpiRead(Offset(g, d))
    <3>1. SpiEdge(Writes(g, d), Reads(g, d), Offset(g, d), req[g].data, Miso)
      BY <1>1, <1>5 DEF Cycle, SpiCycle
    <3>2. QED
      BY <3>1 DEF SpiEdge
  <2>2. RegisterValue(req[g].byte) = SpiRead(Offset(g, d))
    BY <1>1, <1>5, RegisterOf DEF Offset
  <2>3. QED
    BY <1>1, <1>3, <1>5, <2>1, <2>2 DEF Port, Lands
<1>6. CASE d = "clint"
  <2>1. /\ clintPort'.ready <=> Writes(g, d) \/ Reads(g, d)
        /\ Reads(g, d) /\ ~Writes(g, d) => clintPort'.data = ClintRead(Offset(g, d))
    <3>1. ClintEdge(Writes(g, d), Reads(g, d), Offset(g, d), req[g].data)
      BY <1>1, <1>6 DEF Cycle, ClintCycle
    <3>2. QED
      BY <3>1 DEF ClintEdge
  <2>2. RegisterValue(req[g].byte) = ClintRead(Offset(g, d))
    BY <1>1, <1>6, RegisterOf DEF Offset
  <2>3. QED
    BY <1>1, <1>3, <1>6, <2>1, <2>2 DEF Port, Lands
<1>7. CASE d = "gpio"
  <2>1. /\ gpioPort'.ready <=> Writes(g, d) \/ Reads(g, d)
        /\ Reads(g, d) /\ ~Writes(g, d) => gpioPort'.data = GpioRead(Offset(g, d), level)
    <3>1. GpioEdge(Writes(g, d), Reads(g, d), Offset(g, d), req[g].data, level)
      BY <1>1, <1>7 DEF Cycle, GpioCycle
    <3>2. QED
      BY <3>1 DEF GpioEdge
  <2>2. RegisterValue(req[g].byte) = GpioRead(Offset(g, d), level)
    BY <1>1, <1>7, RegisterOf DEF Offset
  <2>3. QED
    BY <1>1, <1>3, <1>7, <2>1, <2>2 DEF Port, Lands
<1>8. QED
  BY <1>4, <1>5, <1>6, <1>7 DEF Devices, Base

(* A slave's answer in the next cycle belongs to the core that asks now.   *)
LEMMA AnswersStep ==
  ASSUME CoresInv, NEW g \in Cores, Cycle(g)
  PROVE  AnswersInv'
<1>1. asked' = IF Bus!Requesting(g) /\ ~CoreReady(g, g) THEN {g} ELSE {}
  BY DEF Cycle, GhostEdge
<1>2. CASE ~(Bus!Requesting(g) /\ ~CoreReady(g, g))
  BY <1>1, <1>2 DEF AnswersInv
<1>3. CASE Bus!Requesting(g) /\ ~CoreReady(g, g)
  <2>1. req'[g] = req[g]
    BY <1>3 DEF Cycle, CoreEdge
  <2>2. req[g].op = "read" => RegisterValue(req[g].byte) \in seen'[g]
    BY <1>3 DEF Cycle, GhostEdge
  <2>3. landed'[g] <=> landed[g] \/ Lands(g)
    BY <1>3 DEF Cycle, GhostEdge
  <2>4. ASSUME NEW d \in Devices, InWindow(d, req[g].byte)
        PROVE  /\ req[g].op = "read" => Port[d].ready' /\ Port[d].data' \in seen'[g]
               /\ req[g].op = "write" /\ Port[d].ready' => landed'[g]
    BY <1>3, <2>2, <2>3, <2>4, PortStep
  <2>5. asked' = {g} /\ {g} \subseteq Cores
    BY <1>1, <1>3
  <2>6. QED
    BY <2>1, <2>4, <2>5 DEF AnswersInv
<1>4. QED
  BY <1>2, <1>3

(* The invariant of every program.                                         *)
THEOREM PortInvariance == Spec => []PInv
<1>1. ASSUME PInv, [Next]_vars
      PROVE  PInv'
  <2>1. CASE Next
    BY <1>1, <2>1, CoresStep, AnswersStep DEF Next, PInv
  <2>2. CASE UNCHANGED vars
    BY <1>1, <2>2 DEF vars, coreVars, busVars, deviceVars, outside, ghosts, PInv, CoresInv,
       AnswersInv, Code, Port
  <2>3. QED
    BY <1>1, <2>1, <2>2
<1>2. QED
  BY InitInv, <1>1, PTL DEF Spec

(* The answer to an access is the one of the slave that the access is to.  *)
LEMMA AnswerOf ==
  ASSUME PInv, NEW g \in Cores, req[g].op # "none", Answered(g, g)
  PROVE  /\ g \in asked
         /\ \E d \in Devices :
              Selected(g, d) /\ InWindow(d, req[g].byte) /\ Port[d].ready /\ SlaveData(g) = Port[d].data
         /\ l1st[g] # "IDLE" \/ req[g].op = "write"
<1>1. PICK d \in Devices : InWindow(d, req[g].byte)
  BY Instruction DEF PInv
<1>2. Bus!Requesting(g) /\ CoreReady(g, g) /\ ~LeftOver(g)
  BY DEF Answered
<1>3. Selected(g, d)
  BY <1>1, <1>2 DEF Selected, AddrValid
<1>4. PICK e \in Devices : Selected(g, e) /\ SlaveData(g) = Port[e].data
  BY <1>3 DEF SlaveData
<1>5. ~(l1st[g] = "IDLE" /\ req[g].op = "read")
  BY <1>2 DEF Bus!Requesting, Bus!L1Request, Bus!Downstream, CoreReady, Ready, Bus!Hit, Hit
<1>6. SlaveReady(g)
  BY <1>2, <1>5, Instruction DEF PInv, CoresInv, CoreReady, Ready, BusReady, State
<1>7. Port[e].ready
  BY <1>4, <1>6 DEF SlaveReady
<1>8. g \in asked
  BY <1>2, <1>4, <1>7 DEF LeftOver
<1>9. QED
  BY <1>4, <1>5, <1>7, <1>8, Instruction DEF Selected, PInv

(* A load returns what the register held during the load, whatever the     *)
(* other cores do.                                                         *)
THEOREM CurrentLoads == Spec => LoadsCurrent
<1>1. ASSUME PInv
      PROVE  \A g \in Cores : Bus!Granted(g) =>
               (req[g].op = "read" /\ Answered(g, g) =>
                  Loaded(g, g) \in seen[g] \cup {RegisterValue(req[g].byte)})
  <2> SUFFICES ASSUME NEW g \in Cores, req[g].op = "read", Answered(g, g)
               PROVE  Loaded(g, g) \in seen[g]
    OBVIOUS
  <2>1. g \in asked /\ l1st[g] # "IDLE"
    BY <1>1, AnswerOf
  <2>2. PICK d \in Devices : InWindow(d, req[g].byte) /\ SlaveData(g) = Port[d].data
    BY <1>1, AnswerOf
  <2>3. l1st[g] = "FETCH"
    BY <1>1, <2>1 DEF PInv, CoresInv, State
  <2>4. Loaded(g, g) = Port[d].data
    BY <2>2, <2>3 DEF Loaded, ReadData
  <2>5. QED
    BY <1>1, <2>1, <2>2, <2>4 DEF PInv, AnswersInv
<1>2. QED
  BY PortInvariance, <1>1, PTL DEF LoadsCurrent

(* A store is acknowledged only when its slave has carried it out.         *)
THEOREM LandedStores == Spec => StoresLand
<1>1. ASSUME PInv
      PROVE  \A g \in Cores : Bus!Granted(g) =>
               (req[g].op = "write" /\ Answered(g, g) => landed[g] \/ Lands(g))
  <2> SUFFICES ASSUME NEW g \in Cores, req[g].op = "write", Answered(g, g)
               PROVE  landed[g]
    OBVIOUS
  <2>1. g \in asked
    BY <1>1, AnswerOf
  <2>2. PICK d \in Devices : InWindow(d, req[g].byte) /\ Port[d].ready
    BY <1>1, AnswerOf
  <2>3. QED
    BY <1>1, <2>1, <2>2 DEF PInv, AnswersInv
<1>2. QED
  BY PortInvariance, <1>1, PTL DEF StoresLand

-----------------------------------------------------------------------------
(* Interrupts                                                              *)

(* The registers of the CLINT, and whom the bus served last.               *)
ClintInv ==
  /\ current \in Cores /\ last \in Cores
  /\ clint \in [mtime : Time, mtimecmp : [Hart -> Time], msip : [Hart -> Time]]

(* A counter of any width goes on by one or wraps around to zero.          *)
LEMMA Wrapping ==
  ASSUME NEW m \in Nat \ {0}, NEW x \in 0 .. m - 1
  PROVE  (x + 1) % m \in 0 .. m - 1 /\ ((x + 1) % m = 0 \/ (x + 1) % m = x + 1)
<1>1. CASE x + 1 < m
  <2>1. (x + 1) % m = x + 1
    BY <1>1, SMT
  <2>2. QED
    BY <1>1, <2>1
<1>2. CASE x + 1 = m
  <2>1. m % m = 0
    BY SMT
  <2>2. QED
    BY <1>2, <2>1
<1>3. QED
  BY <1>1, <1>2

(* The bus grants one core at a time.                                      *)
LEMMA OneGrant ==
  ASSUME ClintInv, NEW g \in Cores, Bus!Granted(g), NEW h \in Cores, Bus!Granted(h)
  PROVE  g = h
<1>1. TOTAL_CORES \in Nat /\ g \in 0 .. TOTAL_CORES - 1 /\ h \in 0 .. TOTAL_CORES - 1
      /\ last \in 0 .. TOTAL_CORES - 1
  BY ClintAssumption DEF ClintInv, Cores
<1>2. CASE serving \/ ~(\E c \in Cores : Bus!Requesting(c))
  BY <1>2 DEF Bus!Granted, Bus!Cores, Cores
<1>3. CASE ~serving /\ \E c \in Cores : Bus!Requesting(c)
  <2>1. Bus!Distance(g) <= Bus!Distance(h) /\ Bus!Distance(h) <= Bus!Distance(g)
    BY <1>3 DEF Bus!Granted, Bus!Cores, Cores
  <2>2. QED
    BY <1>1, <2>1 DEF Bus!Distance
<1>4. QED
  BY <1>2, <1>3

(* Which core a register of the CLINT belongs to.                          *)
LEMMA RegisterOwner ==
  ASSUME NEW a \in Nat
  PROVE  /\ InMtimecmp(a) => LET h == HartOf(a, MTIMECMP, 8)
                             IN  h \in Hart /\ \E n \in 0 .. 7 : a = MTIMECMP + 8 * h + n
         /\ InMsip(a) => LET h == HartOf(a, MSIP, 4)
                         IN  h \in Hart /\ \E n \in 0 .. 3 : a = MSIP + 4 * h + n
<1>1. TOTAL_CORES \in Nat
  BY ClintAssumption
<1>2. ASSUME InMtimecmp(a)
      PROVE  LET h == HartOf(a, MTIMECMP, 8)
             IN  h \in Hart /\ \E n \in 0 .. 7 : a = MTIMECMP + 8 * h + n
  <2> DEFINE h == (a - 16384) \div 8
             n == (a - 16384) % 8
  <2>1. h \in 0 .. TOTAL_CORES - 1 /\ n \in 0 .. 7 /\ a = 16384 + 8 * h + n
    BY <1>1, <1>2, SMT DEF InMtimecmp, MTIMECMP
  <2> HIDE DEF n
  <2>2. QED
    BY <2>1 DEF HartOf, MTIMECMP, Hart
<1>3. ASSUME InMsip(a)
      PROVE  LET h == HartOf(a, MSIP, 4)
             IN  h \in Hart /\ \E n \in 0 .. 3 : a = MSIP + 4 * h + n
  <2> DEFINE h == (a - 0) \div 4
             n == (a - 0) % 4
  <2>1. h \in 0 .. TOTAL_CORES - 1 /\ n \in 0 .. 3 /\ a = 0 + 4 * h + n
    BY <1>1, <1>3, SMT DEF InMsip, MSIP
  <2> HIDE DEF n
  <2>2. QED
    BY <2>1 DEF HartOf, MSIP, Hart
<1>4. QED
  BY <1>2, <1>3

(* What a cycle makes of the CLINT's registers.                            *)
LEMMA ClintStep ==
  ASSUME CoresInv, ClintInv, NEW g \in Cores, Cycle(g)
  PROVE  /\ clint' \in [mtime : Time, mtimecmp : [Hart -> Time], msip : [Hart -> Time]]
         /\ \A h \in Hart :
              /\ clint'.msip[h] # clint.msip[h] =>
                   \E n \in 0 .. 3 : Stores(g, Base.clint + MSIP + 4 * h + n)
              /\ clint'.mtimecmp[h] # clint.mtimecmp[h] =>
                   \E n \in 0 .. 7 : Stores(g, Base.clint + MTIMECMP + 8 * h + n)
         /\ \/ Stores(g, Base.clint + MTIME)
            \/ clint'.mtime \in {0, clint.mtime, clint.mtime + 1}
<1> DEFINE a == Offset(g, "clint")
           ticked == [clint EXCEPT !.mtime = (@ + 1) % 2^TimeBits]
<1>1. /\ clint \in [mtime : Time, mtimecmp : [Hart -> Time], msip : [Hart -> Time]]
      /\ (clint.mtime + 1) % 2^TimeBits \in Time
      /\ (clint.mtime + 1) % 2^TimeBits \in {0, clint.mtime + 1}
  <2>1. clint.mtime \in 0 .. 2^TimeBits - 1 /\ 2^TimeBits \in Nat \ {0}
    BY ClintAssumption DEF ClintInv, Time
  <2>2. QED
    BY <2>1, Wrapping DEF ClintInv, Time
<1>2. /\ ticked \in [mtime : Time, mtimecmp : [Hart -> Time], msip : [Hart -> Time]]
      /\ ticked.mtime \in {0, clint.mtime + 1}
      /\ ticked.msip = clint.msip /\ ticked.mtimecmp = clint.mtimecmp
  BY <1>1
<1>3. CASE clint' \in {clint, ticked}
  BY <1>1, <1>2, <1>3
<1>4. CASE Writes(g, "clint") /\ clint' = ClintWritten(a, req[g].data)
  <2>1. /\ req[g].op = "write" /\ InWindow("clint", req[g].byte) /\ req[g].byte \in Nat
        /\ req[g].data \in Time
    <3>1. Bus!Requesting(g) /\ InWindow("clint", req[g].byte)
      BY <1>4 DEF Writes, Selected, Bus!Requesting
    <3>2. QED
      BY <1>4, <3>1, RequestOf, Instruction DEF Writes
  <2>2. a \in Nat /\ req[g].byte = Base.clint + a
    BY <2>1, SMT DEF Offset, InWindow, Base, WindowSize
  <2> HIDE DEF a, ticked
  <2>3. CASE InMtimecmp(a)
    <3> DEFINE k == HartOf(a, MTIMECMP, 8)
    <3>1. clint' = [ticked EXCEPT !.mtimecmp[k] = req[g].data]
      BY <1>4, <2>3 DEF ClintWritten, ticked
    <3>2. k \in Hart /\ \E n \in 0 .. 7 : a = MTIMECMP + 8 * k + n
      BY <2>2, <2>3, RegisterOwner
    <3>3. \E n \in 0 .. 7 : Stores(g, Base.clint + MTIMECMP + 8 * k + n)
      BY <2>1, <2>2, <3>2 DEF Stores, Base, MTIMECMP, Hart
    <3> HIDE DEF k
    <3>4. QED
      BY <1>2, <2>1, <3>1, <3>2, <3>3
  <2>4. CASE InMsip(a) /\ ~InMtimecmp(a)
    <3> DEFINE k == HartOf(a, MSIP, 4)
    <3>1. clint' = [ticked EXCEPT !.msip[k] = req[g].data]
      BY <1>4, <2>4 DEF ClintWritten, ticked
    <3>2. k \in Hart /\ \E n \in 0 .. 3 : a = MSIP + 4 * k + n
      BY <2>2, <2>4, RegisterOwner
    <3>3. \E n \in 0 .. 3 : Stores(g, Base.clint + MSIP + 4 * k + n)
      BY <2>1, <2>2, <3>2 DEF Stores, Base, MSIP, Hart
    <3> HIDE DEF k
    <3>4. QED
      BY <1>2, <2>1, <3>1, <3>2, <3>3
  <2>5. CASE ~InMsip(a) /\ ~InMtimecmp(a) /\ a = MTIME
    <3>1. clint' = [ticked EXCEPT !.mtime = req[g].data]
      BY <1>4, <2>5 DEF ClintWritten, ticked
    <3>2. Stores(g, Base.clint + MTIME)
      BY <2>1, <2>2, <2>5 DEF Stores
    <3>3. QED
      BY <1>2, <2>1, <3>1, <3>2
  <2>6. CASE ~InMsip(a) /\ ~InMtimecmp(a) /\ a # MTIME
    BY <1>2, <1>4, <2>6 DEF ClintWritten, ticked
  <2>7. QED
    BY <2>3, <2>4, <2>5, <2>6
<1>5. QED
  BY <1>3, <1>4 DEF Cycle, ClintCycle, ClintEdge

(* Every step preserves the types of the bus and of the CLINT.             *)
LEMMA ClintInvStep ==
  ASSUME CoresInv, ClintInv, [Next]_vars
  PROVE  ClintInv'
<1>1. CASE Next
  <2>1. PICK g \in Cores : Cycle(g)
    BY <1>1 DEF Next
  <2>2. current' \in Cores /\ last' \in Cores
    BY <2>1 DEF Cycle, BusEdge, ClintInv, busVars
  <2>3. QED
    BY <2>1, <2>2, ClintStep DEF ClintInv
<1>2. CASE UNCHANGED vars
  BY <1>2 DEF vars, busVars, deviceVars, ClintInv
<1>3. QED
  BY <1>1, <1>2

(* They hold at reset.                                                     *)
LEMMA ClintInitInv == Init => ClintInv
<1> SUFFICES ASSUME Init PROVE ClintInv
  OBVIOUS
<1>1. 0 \in Cores
  BY ClintAssumption, SMT DEF Cores
<1>2. 0 \in Time /\ 2^TimeBits - 1 \in Time
  BY ClintAssumption, SMT DEF Time
<1>3. QED
  BY <1>1, <1>2 DEF Init, ClintInit, ClintInv

(* The interrupt lines of a core change only by stores into its own        *)
(* registers and by the time.                                              *)
THEOREM InterruptsOwned == Spec => OwnInterrupts
<1>1. ASSUME PInv, ClintInv, [Next]_vars
      PROVE  [\A h \in Cores, g \in Cores : Bus!Granted(g) =>
             /\ SwIntr(h)' # SwIntr(h) =>
                  \E n \in 0 .. 3 : Stores(g, Base.clint + MSIP + 4 * h + n)
             /\ TimerIntr(h) /\ ~TimerIntr(h)' =>
                  \/ \E n \in 0 .. 7 : Stores(g, Base.clint + MTIMECMP + 8 * h + n)
                  \/ Stores(g, Base.clint + MTIME) \/ clint'.mtime = 0]_vars
  <2> SUFFICES ASSUME NEW k \in Cores, Cycle(k), NEW h \in Cores, NEW g \in Cores, Bus!Granted(g)
      PROVE
       /\ SwIntr(h)' # SwIntr(h) =>
            \E n \in 0 .. 3 : Stores(g, Base.clint + MSIP + 4 * h + n)
       /\ TimerIntr(h) /\ ~TimerIntr(h)' =>
            \/ \E n \in 0 .. 7 : Stores(g, Base.clint + MTIMECMP + 8 * h + n)
            \/ Stores(g, Base.clint + MTIME) \/ clint'.mtime = 0
    BY <1>1 DEF Next
  <2>1. Cycle(g)
    <3>1. Bus!Granted(k)
      BY DEF Cycle
    <3>2. g = k
      BY <1>1, <3>1, OneGrant
    <3>3. QED
      BY <3>2
  <2>2. h \in Hart
    BY DEF Hart, Cores
  <2>3. /\ clint'.msip[h] # clint.msip[h] =>
             \E n \in 0 .. 3 : Stores(g, Base.clint + MSIP + 4 * h + n)
        /\ clint'.mtimecmp[h] # clint.mtimecmp[h] =>
             \E n \in 0 .. 7 : Stores(g, Base.clint + MTIMECMP + 8 * h + n)
        /\ \/ Stores(g, Base.clint + MTIME)
           \/ clint'.mtime \in {0, clint.mtime, clint.mtime + 1}
    BY <1>1, <2>1, <2>2, ClintStep DEF PInv
  <2>4. SwIntr(h)' # SwIntr(h) => clint'.msip[h] # clint.msip[h]
    BY DEF SwIntr
  <2>5. /\ TimerIntr(h) /\ ~TimerIntr(h)' /\ clint'.mtimecmp[h] = clint.mtimecmp[h]
             => clint'.mtime \notin {clint.mtime, clint.mtime + 1}
    <3>1. clint.mtime \in Nat /\ clint.mtimecmp[h] \in Nat
      BY <1>1, <2>2, ClintAssumption DEF ClintInv, Time
    <3>2. QED
      BY <3>1 DEF TimerIntr
  <2>6. QED
    BY <2>3, <2>4, <2>5
<1>2. QED
  BY PortInvariance, ClintInitInv, ClintInvStep, <1>1, PTL DEF PInv, Spec, OwnInterrupts
=============================================================================
