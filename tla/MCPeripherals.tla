---------------------------- MODULE MCPeripherals ----------------------------
(* Small instances of Peripherals for TLC: two cores, bytes of two bits.    *)
EXTENDS Peripherals, TLC

Both(p0, p1) == (0 :> p0) @@ (1 :> p1)

Nothing == {Other(0)}

Transmit ==
  {Store(Base.uart + TX_DATA, v) : v \in {1, 2}}
    \cup {Load(Base.uart + STATUS), Other(0)}

Receive ==
  {Load(Base.uart + a) : a \in {RX_DATA, STATUS, Evictor(RX_DATA), Evictor(STATUS)}}
    \cup {Other(0)}

(* 257 enables the SPI with chip 0 at half speed.                           *)
Exchange ==
  {Store(Base.spi, 257)}
    \cup {Store(Base.spi + 4, v) : v \in {1, 2}}
    \cup {Load(Base.spi + 8), Other(0)}

Deadlines ==
  {Store(Base.clint + MTIMECMP + 8, 2), Store(Base.clint + MSIP + 4, 1),
   Load(Base.clint + MTIME), Store(Base.clint + MTIME, 1), Other(0)}

Pins ==
  {Store(Base.gpio + 4, 1), Load(Base.gpio + 8), Other(Base.gpio), Other(0)}

Turn == {Store(Base.gpio, 1), Load(Base.gpio + 8), Load(Base.gpio)}

(* What the other core does meanwhile.                                      *)
Blink == {Store(Base.gpio + 4, 1), Other(0)}

MCPrograms ==
  [transmit |-> Both(Transmit, Blink), receive |-> Both(Receive, Nothing),
   exchange |-> Both(Exchange, Blink), timer |-> Both(Deadlines, Blink),
   shared |-> Both(Pins, Turn)]

MCAddrs == UNION {UNION {{i.addr : i \in MCPrograms[p][c]} : c \in Cores} : p \in DOMAIN MCPrograms}
MCVals == CtrlWord
=============================================================================
