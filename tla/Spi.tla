---------------------------------- MODULE Spi ----------------------------------
(***************************************************************************)
(* ax_spi.v: a master for SPI mode 0, most significant bit first, and its  *)
(* registers.  The operators are the assignments of one rising edge.       *)
(***************************************************************************)
LOCAL INSTANCE Naturals

CONSTANT SpiBits    \* 8 in the source

(* What is said of powers holds of all: the provers know none.             *)
ASSUME SpiAssumption ==
  /\ SpiBits \in Nat \ {0}
  /\ 2^0 = 1 /\ 2^SpiBits \in Nat \ {0}
  /\ \A i \in 0 .. SpiBits - 1 :
       2^i \in Nat \ {0} /\ 2^(i + 1) = 2 * 2^i /\ 2^SpiBits % 2^(i + 1) = 0

VARIABLES
  spi,       \* ctrl_reg, tx_data, rx_data, status_reg[0], spi_state, bit_cnt,
             \* clk_div_cnt, and the pins spi_sck, spi_mosi, spi_cs
  spiPort    \* ready, read_data

SpiWord == 0 .. 2^SpiBits - 1
SpiBit(b, i) == (b \div 2^i) % 2
CtrlWord == 0 .. 2^16 - 1

(* The fields of ctrl_reg; its bit 1 is not looked at.                     *)
Enabled(ctrl) == ctrl % 2 = 1
Select(ctrl)  == (ctrl \div 4) % 16
Divider(ctrl) == (ctrl \div 256) % 256

NoChip == 15
ChipSelect(n) == IF n < 4 THEN NoChip - 2^n ELSE NoChip

SpiTypeOK ==
  /\ DOMAIN spi = {"ctrl", "tx", "rx", "busy", "state", "bit", "count",
                   "sck", "mosi", "cs"}
  /\ spi.ctrl \in CtrlWord /\ spi.tx \in SpiWord /\ spi.rx \in SpiWord
  /\ spi.busy \in {0, 1} /\ spi.state \in 0 .. 3
  /\ spi.bit \in 0 .. SpiBits - 1 /\ spi.count \in 0 .. 255
  /\ spi.sck \in {0, 1} /\ spi.mosi \in {0, 1} /\ spi.cs \in 0 .. NoChip
  /\ spiPort \in [ready : BOOLEAN, data : CtrlWord \cup SpiWord]

SpiInit ==
  /\ spi = [ctrl |-> 0, tx |-> 0, rx |-> 0, busy |-> 0, state |-> 0, bit |-> 0,
            count |-> 0, sck |-> 0, mosi |-> 0, cs |-> NoChip]
  /\ spiPort = [ready |-> FALSE, data |-> 0]

SpiTakesWrite(addr) == spi.busy = 0

(* A write to tx_data (04) starts a transfer when the SPI is enabled.      *)
Written(addr, data) ==
  CASE addr % 256 = 0 -> [spi EXCEPT !.ctrl = data]
    [] addr % 256 = 4 /\ ~Enabled(spi.ctrl) ->
         [spi EXCEPT !.tx = data % 2^SpiBits]
    [] addr % 256 = 4 /\ Enabled(spi.ctrl) ->
         [spi EXCEPT !.tx = data % 2^SpiBits, !.busy = 1, !.state = 1,
                     !.bit = SpiBits - 1, !.count = Divider(spi.ctrl),
                     !.cs = ChipSelect(Select(spi.ctrl))]
    [] OTHER -> spi

SkipsLastBit(miso) ==   \* mutant: the transfer ends one bit early
  CASE spi.state = 1 ->
         [spi EXCEPT !.sck = 0, !.mosi = SpiBit(spi.tx, spi.bit), !.state = 2]
    [] spi.state = 2 ->
         [spi EXCEPT !.sck = 1, !.rx = @ - SpiBit(@, spi.bit) * 2^spi.bit + miso * 2^spi.bit,
                     !.state = IF spi.bit <= 1 THEN 3 ELSE 1,
                     !.bit = IF spi.bit = 0 THEN 0 ELSE @ - 1]
    [] spi.state = 3 ->
         [spi EXCEPT !.sck = 0, !.cs = NoChip, !.busy = 0, !.state = 0]

(* Half a bit: drive MOSI with SCK low; sample MISO and raise SCK; or, at  *)
(* the end, release the chip.                                              *)
HalfBit(miso) ==
  CASE spi.state = 1 ->
         [spi EXCEPT !.sck = 0, !.mosi = SpiBit(spi.tx, spi.bit), !.state = 2]
    [] spi.state = 2 ->
         [spi EXCEPT !.sck = 1, !.rx = @ - SpiBit(@, spi.bit) * 2^spi.bit + miso * 2^spi.bit,
                     !.state = IF spi.bit = 0 THEN 3 ELSE 1,
                     !.bit = IF spi.bit = 0 THEN 0 ELSE @ - 1]
    [] spi.state = 3 ->
         [spi EXCEPT !.sck = 0, !.cs = NoChip, !.busy = 0, !.state = 0]

Transferred(s, miso) ==
  IF spi.busy = 0 THEN s
  ELSE IF spi.count = 0
    THEN [HalfBit(miso) EXCEPT !.count = Divider(spi.ctrl)]
    ELSE [s EXCEPT !.count = @ - 1]

SpiRead(addr) ==
  CASE addr % 256 = 0 -> spi.ctrl
    [] addr % 256 = 4 -> spi.rx
    [] addr % 256 = 8 -> spi.busy
    [] OTHER          -> spiPort.data

SpiEdge(we, re, addr, data, miso) ==
  LET takes == we /\ SpiTakesWrite(addr)
  IN  /\ spi' = Transferred(IF takes THEN Written(addr, data) ELSE spi, miso)
      /\ spiPort' = [ready |-> takes \/ re,
                     data  |-> IF re /\ ~takes THEN SpiRead(addr) ELSE spiPort.data]
=============================================================================
