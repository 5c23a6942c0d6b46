------------------------------ MODULE Peripherals ------------------------------
(***************************************************************************)
(* The cores' way to the four peripherals: the L1 of each core, the bus    *)
(* with its decoding of addresses into slaves, the slaves CLINT, UART,     *)
(* GPIO and SPI, and what is connected to their pins.  A step is one cycle *)
(* of clk, with every core at full speed.  The cores do not access memory  *)
(* here: slave 0 is an idle L2.                                            *)
(*                                                                         *)
(* The peripherals do not know each other.  A behaviour runs one program,  *)
(* and leaves out the peripherals that this program does not access.       *)
(***************************************************************************)
EXTENDS CacheController, Uart, Spi, Clint, Gpio, Naturals, Sequences

CONSTANTS
  Programs,   \* Programs[p][c]: the instructions core c runs in program p
  Sent,       \* the bytes that the other ends of the UART and the SPI send
  Paces       \* clocks per bit of the UART at the other end of the line

Cores == 0 .. TOTAL_CORES - 1

(* An instruction in MEM: an access, or another instruction whose result   *)
(* is on the address lines all the same.                                   *)
Load(a)     == [op |-> "read",  addr |-> a \div 8, byte |-> a, data |-> Invalid]
Store(a, v) == [op |-> "write", addr |-> a \div 8, byte |-> a, data |-> v]
Other(a)    == [op |-> "none",  addr |-> a \div 8, byte |-> a, data |-> Invalid]

VARIABLES
  program,                  \* the one of Programs that runs
  req, l1st, l1,            \* the cores and their L1s, as in SnoopMemory
  serving, current, last,   \* the bus
  peer,       \* the sender at the other end of uart_rx
  ear,        \* the listener at the other end of uart_tx
  pace,       \* the clocks per bit of these two
  chip,       \* the SPI slave on chip select 0
  level,      \* what the board drives onto the GPIO pin
  due,        \* bytes that a core was told the UART has, not heard yet
  polled,     \* the last load of STATUS showed rx_valid, and the byte is not read yet
  seen,       \* seen[c]: what the register c is loading from has held since
  landed,     \* landed[c]: the peripheral has carried out the store of c
  asked,      \* the core that asked in the last cycle for what it asks for now
  odd         \* whether the number of cycles so far is odd

coreVars   == <<req, l1st, l1>>
busVars    == <<serving, current, last>>
deviceVars == <<tx, rx, uartPort, spi, spiPort, clint, clintPort, gpio, gpioPort>>
outside    == <<peer, ear, pace, chip, level>>
ghosts     == <<due, polled, seen, landed, asked, odd>>
vars       == <<program, coreVars, busVars, deviceVars, outside, ghosts>>

-----------------------------------------------------------------------------
(* The bus                                                                 *)

Base == [clint |-> 33554432, uart |-> 268435456,
         gpio |-> 536870912, spi |-> 805306368]

WindowSize == [clint |-> 65536, uart |-> 4096, gpio |-> 4096, spi |-> 4096]

Devices == DOMAIN Base

InWindow(d, a) == a >= Base[d] /\ a < Base[d] + WindowSize[d]

(* Only peripherals are accessed, and with words of their width.           *)
ASSUME ProgramsAssumption ==
  \A p \in DOMAIN Programs : \A c \in Cores : \A i \in Programs[p][c] :
    /\ i \in {Load(i.byte), Store(i.byte, i.data), Other(i.byte)} /\ i.byte \in Nat
    /\ i.op # "none" => \E d \in Devices : InWindow(d, i.byte)
    /\ i.op = "write" => i.data \in Vals
    /\ i.op = "write" /\ InWindow("clint", i.byte) => i.data \in Time
    /\ i.op = "write" /\ InWindow("spi", i.byte)   => i.data \in CtrlWord
    /\ i.op = "write" /\ InWindow("uart", i.byte)  => i.data \in Nat
    /\ i.op = "write" /\ InWindow("gpio", i.byte)  => i.data \in {0, 1}

ASSUME ValsAssumption == (Byte \cup (0 .. 3) \cup SpiWord \cup CtrlWord \cup Time) \subseteq Vals

ASSUME SentAssumption == Sent \subseteq Byte \cap SpiWord

(* In the middle of a bit of one end, the other end is in the same bit; a  *)
(* faster sender may be over with its stop bit.                            *)
Middle(clocks, k) == k * clocks + (clocks \div 2)

ASSUME PacesAssumption ==
  \A p \in Paces :
    /\ p \in Nat /\ p >= 2
    /\ \A k \in 0 .. DataBits + 1 : Middle(p, k) \div CLKS_PER_BIT = k
    /\ \A k \in 0 .. DataBits : Middle(CLKS_PER_BIT, k) \div p = k
    /\ Middle(CLKS_PER_BIT, DataBits + 1) \div p >= DataBits + 1

Code(c) == Programs[program][c]

Instructions == [p \in DOMAIN Programs |-> UNION {Programs[p][c] : c \in Cores}]

(* The programs that do access i, and those that access peripheral d.      *)
Running(i) == {p \in DOMAIN Programs : \E c \in Cores : i \in Programs[p][c]}

Accesses == [p \in DOMAIN Programs |->
  {d \in Devices : \E c \in Cores : \E i \in Programs[p][c] :
                      i.op # "none" /\ InWindow(d, i.byte)}]

Used(d) == d \in Accesses[program]

(* Arbitration and the requests of the L1s are those of SnoopMemory.       *)
LineIndex == [w \in Addrs |-> w % 16]

Bus == INSTANCE SnoopMemory WITH
  NumCores <- TOTAL_CORES, L1Index <- LineIndex, L2Index <- LineIndex,
  L3Index <- LineIndex, EnableL3 <- FALSE, LATENCY <- 1,
  rdata <- Invalid, l2st <- "IDLE", l2 <- Invalid, l3st <- "IDLE", l3 <- Invalid,
  mem <- Invalid, memCount <- 0, memReady <- FALSE, memData <- Invalid

AddrValid == serving \/ \E c \in Cores : Bus!Requesting(c)

Selected(g, d) == InWindow(d, req[g].byte) /\ AddrValid

Port == [clint |-> clintPort, uart |-> uartPort, gpio |-> gpioPort, spi |-> spiPort]

AnySlaveReady(g) ==   \* mutant: ready is not that of the slave addressed
  \E d \in Devices : Port[d].ready

(* active_slave_ready: an idle L2 is ready.                                *)
SlaveReady(g) == \A d \in Devices : Selected(g, d) => Port[d].ready

SlaveData(g) ==
  IF \E d \in Devices : Selected(g, d)
    THEN Port[CHOOSE d \in Devices : Selected(g, d)].data
    ELSE Invalid

(* sN_we, sN_re, sN_addr                                                   *)
Writes(g, d) == Selected(g, d) /\ Bus!L1Request(g).op = "write"
Reads(g, d)  == Selected(g, d) /\ Bus!L1Request(g).op = "read"
Offset(g, d) == req[g].byte - Base[d]

BusReady(g, c) == c = g /\ SlaveReady(g)

CoreReady(g, c) == Ready(l1st[c], l1[c], req[c], BusReady(g, c))

Loaded(g, c) == ReadData(l1st[c], l1[c], req[c], SlaveData(g))

NeverFreed(g) ==   \* mutant: the answer does not end the transaction
  IF serving
    THEN UNCHANGED busVars
    ELSE IF Bus!Requesting(g)
      THEN serving' = TRUE /\ current' = g /\ last' = g
      ELSE UNCHANGED busVars

BusEdge(g) ==
  IF serving
    THEN serving' = ~SlaveReady(g) /\ UNCHANGED <<current, last>>
    ELSE IF Bus!Requesting(g)
      THEN serving' = TRUE /\ current' = g /\ last' = g
      ELSE UNCHANGED busVars

-----------------------------------------------------------------------------
(* Outside the chip                                                        *)

FrameBits == DataBits + 2

(* The line while a sender is in cycle n of a frame; 0 is between frames.  *)
LineLevel(n, byte) ==
  LET k == (n - 1) \div pace
  IN  IF n = 0 \/ k > DataBits THEN 1 ELSE IF k = 0 THEN 0 ELSE Bit(byte, k - 1)

RxLine == IF peer.glitch THEN 0 ELSE LineLevel(peer.n, peer.byte)

Listeners == Running(Load(Base.uart + RX_DATA))

Listening == program \in Listeners

(* The driver that receives runs on one core, which has the UART for       *)
(* itself.                                                                 *)
ASSUME DriverAssumption ==
  LET Driver(p, c) ==
        \E i \in Programs[p][c] : i.op # "none" /\ InWindow("uart", i.byte)
  IN  \A p \in Listeners : \A c, d \in Cores : Driver(p, c) /\ Driver(p, d) => c = d

(* The sender waits until its last byte has been read (taken).  Between    *)
(* frames, noise may pull the line low for one cycle; a sender that is     *)
(* slow or fast starts when the receiver is over it.                       *)
PeerEdge(taken) ==
  LET waiting == peer.unread /\ ~taken
  IN  \/ /\ peer.n = 0
         /\ \E noise \in BOOLEAN :
              /\ noise => rx.state = "IDLE" /\ ~peer.glitch /\ Listening
              /\ peer' = [peer EXCEPT !.glitch = noise, !.unread = waiting]
      \/ /\ peer.n = 0 /\ ~waiting /\ Listening
         /\ (~peer.glitch /\ rx.state = "IDLE") \/ pace = CLKS_PER_BIT
         /\ \E b \in Sent :
              peer' = [n |-> 1, byte |-> b, unread |-> TRUE, glitch |-> FALSE]
      \/ /\ peer.n > 0
         /\ peer' = [peer EXCEPT !.n = (@ + 1) % (FrameBits * pace + 1),
                                 !.unread = waiting]

(* The listener samples the middle of every bit and is done with the stop  *)
(* bit.                                                                    *)
InMiddle == ear.n > 0 /\ (ear.n - 1) % pace = pace \div 2

HeardBit == (ear.n - 1) \div pace

Heard == InMiddle /\ HeardBit = FrameBits - 1

EarEdge ==
  ear' = IF ear.n = 0 THEN [n |-> IF tx.line = 0 THEN 2 ELSE 0, byte |-> 0]
         ELSE IF Heard THEN [n |-> 0, byte |-> 0]
         ELSE [n |-> ear.n + 1,
               byte |-> IF InMiddle /\ HeardBit \in 1 .. DataBits
                          THEN WithBit(ear.byte, HeardBit - 1, tx.line) ELSE ear.byte]

(* A chip in mode 0: its next bit is on MISO from the falling edge of SCK, *)
(* or from its selection; it samples MOSI on the rising edge.              *)
ChipSelected == spi.cs = ChipSelect(0)

Miso == IF ChipSelected THEN SpiBit(chip.out, chip.pos) ELSE 0

ChipEdge ==
  IF ~ChipSelected
    THEN IF spi'.cs = ChipSelect(0)
      THEN \E w \in Sent : chip' = [out |-> w, in |-> 0, pos |-> SpiBits - 1]
      ELSE UNCHANGED chip
    ELSE chip' = [chip EXCEPT
           !.in  = IF spi.sck = 0 /\ spi'.sck = 1 THEN (2 * @ + spi.mosi) % 2^SpiBits ELSE @,
           !.pos = IF spi.sck = 1 /\ spi'.sck = 0 /\ @ > 0 THEN @ - 1 ELSE @]

Samplers == Running(Load(Base.gpio + 8))

Sampled == program \in Samplers

-----------------------------------------------------------------------------
(* What a register holds, as a load reads it.                              *)
RegisterValue(a) ==
  CASE InWindow("uart", a)  -> UartRead(a - Base.uart)
    [] InWindow("spi", a)   -> SpiRead(a - Base.spi)
    [] InWindow("clint", a) -> ClintRead(a - Base.clint)
    [] InWindow("gpio", a)  -> GpioRead(a - Base.gpio, level)

(* The peripheral carries out the store of g on this edge.                 *)
Lands(g) ==
  \/ Writes(g, "uart") /\ UartTakesWrite(Offset(g, "uart"))
  \/ Writes(g, "spi") /\ SpiTakesWrite(Offset(g, "spi"))
  \/ Writes(g, "clint") \/ Writes(g, "gpio")

(* The ready of the peripheral that g addresses is left over from another  *)
(* access: g did not ask for this one in the cycle before.                 *)
LeftOver(g) == g \notin asked /\ \E d \in Devices : Selected(g, d) /\ Port[d].ready

(* An access of core c ends in this cycle with an answer to this access.   *)
Answered(g, c) == c = g /\ Bus!Requesting(g) /\ CoreReady(g, g) /\ ~LeftOver(g)

Loads(c, a) == req[c].op = "read" /\ req[c].byte = a
Stores(c, a) == req[c].op = "write" /\ req[c].byte = a

RxTaken(g)  == Loads(g, Base.uart + RX_DATA) /\ Answered(g, g)
Polls(g)    == Loads(g, Base.uart + STATUS) /\ Answered(g, g)
TxHanded(g) == /\ Stores(g, Base.uart + TX_DATA) /\ CoreReady(g, g)
               /\ landed[g] \/ Lands(g)

(* A load of another register with the same index takes the word of        *)
(* register a out of the L1.                                               *)
Evictor(a) == a + 128

(* The driver of the UART waits for STATUS to show a byte and then loads   *)
(* it, both past the L1.                                                   *)
Wanted == Base.uart + IF polled' THEN RX_DATA ELSE STATUS

Follows(c, i) ==
  Listening /\ i.op = "read" /\ InWindow("uart", i.byte) =>
    i.byte = IF Hit(l1'[c], Wanted \div 8) THEN Evictor(Wanted) ELSE Wanted

HeardDue ==
  Heard /\ tx.line = 1 /\ due # <<>> /\ ear.byte = Head(due)

GhostEdge(g) ==
  /\ due' = LET left == IF HeardDue THEN Tail(due) ELSE due
            IN  IF TxHanded(g) THEN Append(left, req[g].data % 2^DataBits) ELSE left
  /\ polled' = IF RxTaken(g) THEN FALSE
               ELSE IF Polls(g) THEN Loaded(g, g) >= 2 ELSE polled
  /\ seen' = [c \in Cores |->
                IF CoreReady(g, c) \/ req[c].op # "read" THEN {}
                ELSE seen[c] \cup {RegisterValue(req[c].byte)}]
  /\ landed' = [c \in Cores |->
                  ~CoreReady(g, c) /\ (landed[c] \/ (c = g /\ Lands(g)))]
  /\ odd' = ~odd
  /\ asked' = IF Bus!Requesting(g) /\ ~CoreReady(g, g) THEN {g} ELSE {}

CoreEdge(g) ==
  LET moving == {c \in Cores : CoreReady(g, c)}
  IN  /\ l1st' = [c \in Cores |-> NextState(l1st[c], l1[c], req[c], BusReady(g, c))]
      /\ l1' = [c \in Cores |-> NextLines(l1st[c], l1[c], LineIndex, req[c],
                                          BusReady(g, c), SlaveData(g))]
      /\ \E next \in [moving -> Instructions[program]] :
           /\ \A c \in moving : next[c] \in Code(c) /\ Follows(c, next[c])
           /\ req' = [c \in Cores |-> IF c \in moving THEN next[c] ELSE req[c]]

UartCycle(g) ==
  IF Used("uart")
    THEN /\ UartEdge(Writes(g, "uart"), Reads(g, "uart"), Offset(g, "uart"),
                     req[g].data, RxLine)
         /\ EarEdge
    ELSE UNCHANGED <<tx, rx, uartPort, ear>>

SpiCycle(g) ==
  IF Used("spi")
    THEN /\ SpiEdge(Writes(g, "spi"), Reads(g, "spi"), Offset(g, "spi"), req[g].data, Miso)
         /\ ChipEdge
    ELSE UNCHANGED <<spi, spiPort, chip>>

ClintCycle(g) ==
  IF Used("clint")
    THEN ClintEdge(Writes(g, "clint"), Reads(g, "clint"), Offset(g, "clint"), req[g].data)
    ELSE UNCHANGED <<clint, clintPort>>

GpioCycle(g) ==
  IF Used("gpio")
    THEN /\ GpioEdge(Writes(g, "gpio"), Reads(g, "gpio"), Offset(g, "gpio"),
                     req[g].data, level)
         /\ level' \in IF Sampled THEN {0, 1} ELSE {level}
    ELSE UNCHANGED <<gpio, gpioPort, level>>

Cycle(g) ==
  /\ Bus!Granted(g)
  /\ UartCycle(g) /\ SpiCycle(g) /\ ClintCycle(g) /\ GpioCycle(g)
  /\ PeerEdge(RxTaken(g))
  /\ BusEdge(g) /\ GhostEdge(g) /\ CoreEdge(g)
  /\ UNCHANGED <<program, pace>>

Next == \E g \in Cores : Cycle(g)

Init ==
  /\ program \in DOMAIN Programs
  /\ pace \in IF Used("uart") THEN Paces ELSE {CLKS_PER_BIT}
  /\ req = [c \in Cores |-> Other(0)]
  /\ l1st = [c \in Cores |-> "IDLE"] /\ l1 = [c \in Cores |-> [w \in Addrs |-> Invalid]]
  /\ serving = FALSE /\ current = 0 /\ last = 0
  /\ UartInit /\ SpiInit /\ ClintInit /\ GpioInit
  /\ peer = [n |-> 0, byte |-> 0, unread |-> FALSE, glitch |-> FALSE]
  /\ ear = [n |-> 0, byte |-> 0] /\ chip = [out |-> 0, in |-> 0, pos |-> 0]
  /\ level = 0
  /\ due = <<>> /\ polled = FALSE
  /\ seen = [c \in Cores |-> {}] /\ landed = [c \in Cores |-> FALSE] /\ asked = {} /\ odd = FALSE

Spec == Init /\ [][Next]_vars
(* The clock runs on, and no core is for ever in instructions that ask the *)
(* bus for nothing but leave a peripheral's address on the address lines:  *)
(* a loop has a branch.                                                    *)
FairSpec ==
  /\ Spec /\ []<>odd /\ []<>~odd
  /\ \A c \in Cores :
       []<>(Bus!Requesting(c) \/ \A d \in Devices : ~InWindow(d, req[c].byte))

-----------------------------------------------------------------------------
TypeOK ==
  /\ program \in DOMAIN Programs /\ pace \in Paces \cup {CLKS_PER_BIT}
  /\ \A c \in Cores : req[c] \in Code(c) \cup {Other(0)}
  /\ l1st \in [Cores -> State] /\ l1 \in [Cores -> Lines]
  /\ serving \in BOOLEAN /\ current \in Cores /\ last \in Cores
  /\ UartTypeOK /\ SpiTypeOK /\ ClintTypeOK /\ GpioTypeOK
  /\ peer \in [n : 0 .. FrameBits * pace, byte : Byte,
               unread : BOOLEAN, glitch : BOOLEAN]
  /\ ear \in [n : 0 .. FrameBits * pace, byte : Byte]
  /\ chip \in [out : SpiWord, in : SpiWord, pos : 0 .. SpiBits - 1]
  /\ level \in {0, 1} /\ polled \in BOOLEAN
  /\ Len(due) <= 2 /\ \A k \in 1 .. Len(due) : due[k] \in Byte
  /\ seen \in [Cores -> SUBSET Vals] /\ landed \in [Cores -> BOOLEAN]
  /\ asked \subseteq Cores /\ odd \in BOOLEAN

(* A load that a peripheral answers returns what its register held at some *)
(* moment of the access, although read_data is a register too and the bus  *)
(* serves another core in between (ax_clint.v:59-70, ax_bus_scalable.v:    *)
(* 168-169, l1_cache.v:111-113).                                           *)
LoadsCurrent ==
  [][\A g \in Cores : Bus!Granted(g) =>
       (req[g].op = "read" /\ Answered(g, g) =>
          Loaded(g, g) \in seen[g] \cup {RegisterValue(req[g].byte)})]_vars

(* A core is told that its store is done only after the peripheral has     *)
(* carried it out: one that is busy with the last byte lets it wait        *)
(* (ax_uart.v:183-187, ax_spi.v:44).                                       *)
StoresLand ==
  [][\A g \in Cores : Bus!Granted(g) =>
       (req[g].op = "write" /\ Answered(g, g) => landed[g] \/ Lands(g))]_vars

(* Every byte handed to the UART is on the line once, in order and whole:  *)
(* the listener hears the oldest one that is due, with a stop bit, though  *)
(* each store is on the bus for two cycles or more (ax_uart.v:65-108).     *)
HeardInOrder ==
  [][Heard => HeardDue]_vars

(* and it is there in the end.                                             *)
BytesAreSent == (due # <<>>) ~> (due = <<>>)

(* A byte that the sender has sent is not lost before it is read: rx_valid *)
(* stays set and rx_data_reg keeps the byte, whatever noise came before    *)
(* it and whatever else is read meanwhile (ax_uart.v:122-168).             *)
ByteWaits ==
  (/\ peer.unread /\ peer.n = 0 /\ rx.state = "IDLE"
   /\ \A c \in Cores : ~Loads(c, Base.uart + RX_DATA))
    => rx.valid = 1 /\ rx.data = peer.byte

(* A driver that polls STATUS gets every byte once: when a load of RX_DATA *)
(* is answered there is a byte that was not read, and it is the one sent.  *)
ByteReadOnce ==
  [][\A g \in Cores : Bus!Granted(g) /\ RxTaken(g) =>
       peer.unread /\ Loaded(g, g) = peer.byte]_vars

(* When a transfer ends, the SPI and the chip it selected have exchanged   *)
(* their bytes, whatever was stored meanwhile (ax_spi.v:44-94).            *)
WholeExchange ==
  [][spi.busy = 1 /\ spi'.busy = 0 /\ ChipSelected =>
       chip.in = spi.tx /\ spi.rx = chip.out]_vars

(* The interrupt lines of a core follow its own registers: a software      *)
(* interrupt changes only by a store into the core's msip, and a timer     *)
(* interrupt that is pending goes away only by a store into its mtimecmp,  *)
(* by one to mtime or when mtime wraps around (ax_clint.v:47-58, 80-81).   *)
OwnInterrupts ==
  [][\A h \in Cores, g \in Cores : Bus!Granted(g) =>
       /\ SwIntr(h)' # SwIntr(h) =>
            \E n \in 0 .. 3 : Stores(g, Base.clint + MSIP + 4 * h + n)
       /\ TimerIntr(h) /\ ~TimerIntr(h)' =>
            \/ \E n \in 0 .. 7 : Stores(g, Base.clint + MTIMECMP + 8 * h + n)
            \/ Stores(g, Base.clint + MTIME) \/ clint'.mtime = 0]_vars

(* The bus comes free again whatever the peripherals are busy with, and    *)
(* every access is answered.                                               *)
AccessCompletes ==
  \A c \in Cores : (l1st[c] # "IDLE") ~> (l1st[c] = "IDLE")
=============================================================================
