--------------------------------- MODULE Uart ---------------------------------
(***************************************************************************)
(* ax_uart.v: a transmitter and a receiver of frames with one start bit,   *)
(* DataBits data bits (least significant first) and one stop bit, and the  *)
(* registers through which the bus reaches them.  The operators are the    *)
(* assignments of one rising edge of clk.                                  *)
(***************************************************************************)
LOCAL INSTANCE Naturals

CONSTANTS
  CLKS_PER_BIT,   \* CLK_FREQ / BAUD_RATE
  DataBits        \* 8 in the source

(* What is said of powers holds of all: the provers know none.             *)
ASSUME UartAssumption ==
  /\ CLKS_PER_BIT \in Nat /\ CLKS_PER_BIT >= 2 /\ DataBits \in Nat \ {0}
  /\ 2^0 = 1 /\ 2^DataBits \in Nat \ {0}
  /\ \A i \in 0 .. DataBits - 1 :
       2^i \in Nat \ {0} /\ 2^(i + 1) = 2 * 2^i /\ 2^DataBits % 2^(i + 1) = 0

VARIABLES
  tx,        \* tx_state, tx_clk_count, tx_bit_index, tx_shift_reg, tx_reg
  rx,        \* rx_state, rx_clk_count, rx_bit_index, rx_shift_reg, rx_data_reg, rx_valid
  uartPort   \* ready, read_data

Byte == 0 .. 2^DataBits - 1
Bit(b, i) == (b \div 2^i) % 2
WithBit(b, i, v) == b - Bit(b, i) * 2^i + v * 2^i

TX_DATA == 0
RX_DATA == 4
STATUS  == 8

FrameState == {"IDLE", "START", "DATA_BITS", "STOP"}

UartTypeOK ==
  /\ tx \in [state : FrameState, count : 0 .. CLKS_PER_BIT - 1,
             bit : 0 .. DataBits - 1, shift : Byte, line : {0, 1}]
  /\ rx \in [state : FrameState, count : 0 .. CLKS_PER_BIT - 1,
             bit : 0 .. DataBits - 1, shift : Byte, data : Byte, valid : {0, 1}]
  /\ uartPort \in [ready : BOOLEAN, data : Byte \cup 0 .. 3]

UartInit ==
  /\ tx = [state |-> "IDLE", count |-> 0, bit |-> 0, shift |-> 0, line |-> 1]
  /\ rx = [state |-> "IDLE", count |-> 0, bit |-> 0, shift |-> 0,
           data |-> 0, valid |-> 0]
  /\ uartPort = [ready |-> FALSE, data |-> 0]

TxReady == IF tx.state = "IDLE" THEN 1 ELSE 0

NoStopBit(f) ==   \* mutant: a frame ends with its last data bit
  CASE f.state = "START" -> [f EXCEPT !.count = 0, !.state = "DATA_BITS"]
    [] f.state = "DATA_BITS" /\ f.bit < DataBits - 1 ->
         [f EXCEPT !.count = 0, !.bit = @ + 1]
    [] f.state = "DATA_BITS" /\ f.bit = DataBits - 1 ->
         [f EXCEPT !.count = 0, !.state = "IDLE"]
    [] f.state = "STOP" -> [f EXCEPT !.count = 0, !.state = "IDLE"]

NoNextState(f) ==   \* mutant: the start bit is not followed by another state
  CASE f.state = "START" -> [f EXCEPT !.count = 0]
    [] f.state = "DATA_BITS" /\ f.bit < DataBits - 1 ->
         [f EXCEPT !.count = 0, !.bit = @ + 1]
    [] f.state = "DATA_BITS" /\ f.bit = DataBits - 1 ->
         [f EXCEPT !.count = 0, !.state = "STOP"]
    [] f.state = "STOP" -> [f EXCEPT !.count = 0, !.state = "IDLE"]

(* Where a frame stands once the bit it is in has lasted long enough.      *)
NextBit(f) ==
  CASE f.state = "START" -> [f EXCEPT !.count = 0, !.state = "DATA_BITS"]
    [] f.state = "DATA_BITS" /\ f.bit < DataBits - 1 ->
         [f EXCEPT !.count = 0, !.bit = @ + 1]
    [] f.state = "DATA_BITS" /\ f.bit = DataBits - 1 ->
         [f EXCEPT !.count = 0, !.state = "STOP"]
    [] f.state = "STOP" -> [f EXCEPT !.count = 0, !.state = "IDLE"]

OneTooLong(f) ==   \* mutant: the bit ends one clock late
  IF f.count < CLKS_PER_BIT THEN [f EXCEPT !.count = @ + 1] ELSE NextBit(f)

Tick(f) ==
  IF f.count < CLKS_PER_BIT - 1 THEN [f EXCEPT !.count = @ + 1] ELSE NextBit(f)

(* A write to TX_DATA is taken when the transmitter is idle.               *)
TransmitterEdge(write, byte) ==
  IF tx.state = "IDLE"
    THEN tx' = [tx EXCEPT !.line = 1, !.count = 0, !.bit = 0,
                          !.state = IF write THEN "START" ELSE @,
                          !.shift = IF write THEN byte ELSE @]
    ELSE tx' = [Tick(tx) EXCEPT !.line =
                  CASE tx.state = "START"     -> 0
                    [] tx.state = "DATA_BITS" -> Bit(tx.shift, tx.bit)
                    [] tx.state = "STOP"      -> 1]

WholeStartBit(line) ==   \* mutant: the bits are not sampled in their middle
  CASE rx.state = "IDLE" ->
         [rx EXCEPT !.count = 0, !.bit = 0,
                    !.state = IF line = 0 THEN "START" ELSE @]
    [] rx.state = "START" ->
         IF rx.count < CLKS_PER_BIT - 1 THEN [rx EXCEPT !.count = @ + 1]
         ELSE IF line = 0 THEN NextBit(rx) ELSE [rx EXCEPT !.state = "IDLE"]
    [] rx.state = "DATA_BITS" ->
         IF rx.count < CLKS_PER_BIT - 1 THEN Tick(rx)
         ELSE [Tick(rx) EXCEPT !.shift = WithBit(@, rx.bit, line)]
    [] rx.state = "STOP" ->
         IF rx.count < CLKS_PER_BIT - 1 THEN Tick(rx)
         ELSE [Tick(rx) EXCEPT !.data = rx.shift, !.valid = 1]

(* The start bit is checked again in its middle, and every later bit is    *)
(* sampled a whole bit time after the one before it.  rx_clk_count is left *)
(* alone on a false start: IDLE clears it.                                 *)
ReceiverNext(line) ==
  CASE rx.state = "IDLE" ->
         [rx EXCEPT !.count = 0, !.bit = 0,
                    !.state = IF line = 0 THEN "START" ELSE @]
    [] rx.state = "START" ->
         IF rx.count < CLKS_PER_BIT \div 2 - 1 THEN [rx EXCEPT !.count = @ + 1]
         ELSE IF line = 0 THEN NextBit(rx) ELSE [rx EXCEPT !.state = "IDLE"]
    [] rx.state = "DATA_BITS" ->
         IF rx.count < CLKS_PER_BIT - 1 THEN Tick(rx)
         ELSE [Tick(rx) EXCEPT !.shift = WithBit(@, rx.bit, line)]
    [] rx.state = "STOP" ->
         IF rx.count < CLKS_PER_BIT - 1 THEN Tick(rx)
         ELSE [Tick(rx) EXCEPT !.data = rx.shift, !.valid = 1]

KeepsValid(line, read) ==   \* mutant: a read leaves rx_valid set
  rx' = ReceiverNext(line)

(* A read of RX_DATA clears rx_valid, unless a frame ends on this edge.    *)
ReceiverEdge(line, read) ==
  LET next == ReceiverNext(line)
      ends == rx.state = "STOP" /\ next.state = "IDLE"
  IN  rx' = IF read /\ ~ends THEN [next EXCEPT !.valid = 0] ELSE next

UartRead(addr) ==
  CASE addr = RX_DATA -> rx.data
    [] addr = STATUS  -> 2 * rx.valid + TxReady
    [] OTHER          -> 0

UartTakesWrite(addr) == addr = TX_DATA => TxReady = 1

(* ready is a register: it answers the access of the cycle before.         *)
UartEdge(we, re, addr, data, line) ==
  /\ TransmitterEdge(we /\ addr = TX_DATA, data % 2^DataBits)
  /\ ReceiverEdge(line, re /\ addr = RX_DATA)
  /\ uartPort' = [ready |-> re \/ (we /\ UartTakesWrite(addr)),
                  data  |-> IF re THEN UartRead(addr) ELSE uartPort.data]
=============================================================================
