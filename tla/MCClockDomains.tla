---------------------------- MODULE MCClockDomains ----------------------------
(* Small instances of ClockDomains for TLC: two cores. *)
EXTENDS ClockDomains, TLC

CONSTANTS a1, a2, v1, v2

MCAddrs == {a1, a2}

Conflicting == (a1 :> 0) @@ (a2 :> 0)
Separate    == (a1 :> 0) @@ (a2 :> 1)

(* aurora_config.vh: a P-core at full speed, an E-core at half speed.       *)
FullSpeed == [c \in Cores |-> 0]
PAndECore == [c \in Cores |-> IF c = 0 THEN 0 ELSE 1]

(* The words of a power manager that gates core 1 and slows it down, and   *)
(* leaves core 0 alone.                                                    *)
Word(on, div) == [en  |-> [c \in Cores |-> c = 0 \/ on],
                  div |-> [c \in Cores |-> IF c = 0 THEN 0 ELSE div]]

Silent  == {}
Scaling == {Word(TRUE, 2), Word(FALSE, 1)}

(* Core 1 is switched off and on again, at the speed it has.                *)
Gating == {[en |-> [c \in Cores |-> c = 0 \/ on], div |-> ResetDiv] : on \in BOOLEAN}

(* The arrays after a reset that worked, and any a line can hold otherwise. *)
Cleared == {[a \in Addrs |-> Invalid]}
Garbage == Lines
=============================================================================
