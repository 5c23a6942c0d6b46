--------------------------------- MODULE Clint ---------------------------------
(***************************************************************************)
(* ax_clint.v: the real-time counter, one compare register and one         *)
(* software-interrupt register per core, and the interrupt lines.          *)
(***************************************************************************)
LOCAL INSTANCE Naturals

CONSTANTS
  TOTAL_CORES,
  TimeBits       \* the width of mtime and mtimecmp: 64 in the source

(* The last conjunct follows from the one before it; the provers know no   *)
(* powers.                                                                 *)
ASSUME ClintAssumption ==
  TOTAL_CORES \in Nat \ {0} /\ TimeBits \in Nat \ {0} /\ 2^TimeBits \in Nat \ {0}

VARIABLES
  clint,         \* mtime, mtimecmp, msip
  clintPort      \* ready, read_data

Time == 0 .. 2^TimeBits - 1
Hart == 0 .. TOTAL_CORES - 1

ClintTypeOK ==
  /\ clint \in [mtime : Time, mtimecmp : [Hart -> Time], msip : [Hart -> Time]]
  /\ clintPort \in [ready : BOOLEAN, data : Time]

ClintInit ==
  /\ clint = [mtime |-> 0, mtimecmp |-> [h \in Hart |-> 2^TimeBits - 1],
              msip |-> [h \in Hart |-> 0]]
  /\ clintPort = [ready |-> FALSE, data |-> 0]

MTIMECMP == 16384
MSIP     == 0
MTIME    == 49144

InMtimecmp(addr) == addr >= MTIMECMP /\ addr < MTIMECMP + TOTAL_CORES * 8
InMsip(addr)     == addr >= MSIP /\ addr < MSIP + TOTAL_CORES * 4

FirstOf(addr, first, size) == 0   \* mutant: the address does not select the core

(* (addr - base) >> 3 and >> 2                                             *)
HartOf(addr, first, size) == (addr - first) \div size

ClintWritten(addr, data) ==
  LET ticked == [clint EXCEPT !.mtime = (@ + 1) % 2^TimeBits]
  IN  IF InMtimecmp(addr)  THEN [ticked EXCEPT !.mtimecmp[HartOf(addr, MTIMECMP, 8)] = data]
      ELSE IF InMsip(addr) THEN [ticked EXCEPT !.msip[HartOf(addr, MSIP, 4)] = data]
      ELSE IF addr = MTIME THEN [ticked EXCEPT !.mtime = data]
      ELSE ticked

ClintRead(addr) ==
  IF InMtimecmp(addr)  THEN clint.mtimecmp[HartOf(addr, MTIMECMP, 8)]
  ELSE IF InMsip(addr) THEN clint.msip[HartOf(addr, MSIP, 4)]
  ELSE IF addr = MTIME THEN clint.mtime
  ELSE 0

(* mtime counts every cycle; a write to it comes instead of the increment. *)
ClintEdge(we, re, addr, data) ==
  /\ clint' = IF we THEN ClintWritten(addr, data)
              ELSE [clint EXCEPT !.mtime = (@ + 1) % 2^TimeBits]
  /\ clintPort' = [ready |-> we \/ re,
                   data  |-> IF re /\ ~we THEN ClintRead(addr) ELSE clintPort.data]

TimerIntr(h) == clint.mtime >= clint.mtimecmp[h]
SwIntr(h)    == clint.msip[h] % 2 = 1
=============================================================================
