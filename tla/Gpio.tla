--------------------------------- MODULE Gpio ---------------------------------
(***************************************************************************)
(* ax_gpio.v.  The 32 pins do not depend on each other: one stands for     *)
(* all, and the registers are its bit of each.                             *)
(***************************************************************************)
LOCAL INSTANCE Naturals

VARIABLES
  gpio,       \* dir_reg, out_reg
  gpioPort    \* ready, read_data

GpioTypeOK ==
  /\ gpio \in [dir : {0, 1}, out : {0, 1}]
  /\ gpioPort \in [ready : BOOLEAN, data : {0, 1}]

GpioInit ==
  /\ gpio = [dir |-> 0, out |-> 0]
  /\ gpioPort = [ready |-> FALSE, data |-> 0]

(* What the pin shows, and in_reg reads, when the board drives it to level *)
(* whenever it is an input.                                                *)
Pin(level) == IF gpio.dir = 1 THEN gpio.out ELSE level

GpioWritten(addr, data) ==
  CASE addr % 256 = 0 -> [gpio EXCEPT !.dir = data]
    [] addr % 256 = 4 -> [gpio EXCEPT !.out = data]
    [] OTHER          -> gpio

GpioRead(addr, level) ==
  CASE addr % 256 = 0 -> gpio.dir
    [] addr % 256 = 4 -> gpio.out
    [] addr % 256 = 8 -> Pin(level)
    [] OTHER          -> 0

GpioEdge(we, re, addr, data, level) ==
  /\ gpio' = IF we THEN GpioWritten(addr, data) ELSE gpio
  /\ gpioPort' = [ready |-> we \/ re,
                  data  |-> IF re /\ ~we THEN GpioRead(addr, level)
                            ELSE gpioPort.data]
=============================================================================
