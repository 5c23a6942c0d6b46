------------------------------ MODULE TrapMachine ------------------------------
(***************************************************************************)
(* What privilege levels and traps promise to software: below level 3 the  *)
(* only way up is a trap, which goes to the handler and saves where it     *)
(* came from; only level 3 chooses the handler, edits what was saved, and  *)
(* returns.                                                                *)
(***************************************************************************)
EXTENDS Naturals

CONSTANTS
  PC,         \* program counters
  NextPc(_)   \* the one after a PC

VARIABLES pc, mode, handler,
          enabled,   \* interrupts are
          saved      \* what the three were before the last trap

vars == <<pc, mode, handler, enabled, saved>>

Level == 0 .. 3
Saved == [pc : PC, mode : Level, enabled : BOOLEAN]

Init == pc \in PC /\ mode = 3 /\ handler \in PC /\ enabled \in BOOLEAN /\ saved \in Saved

Run == pc' \in PC /\ UNCHANGED <<mode, handler, enabled, saved>>

(* A trap saves the PC of the instruction, or the one behind a call.       *)
Trap ==
  /\ handler # 0
  /\ \E p \in {pc, NextPc(pc)} : saved' = [pc |-> p, mode |-> mode, enabled |-> enabled]
  /\ pc' = handler /\ mode' = 3 /\ enabled' = FALSE /\ UNCHANGED handler

Manage ==
  /\ mode = 3
  /\ pc' \in PC /\ handler' \in PC /\ enabled' \in BOOLEAN /\ saved' \in Saved
  /\ UNCHANGED mode

(* The saved mode is gone after a return, the saved PC is not.             *)
Return ==
  /\ mode = 3
  /\ pc' = saved.pc /\ mode' = saved.mode /\ enabled' = saved.enabled
  /\ saved' = [pc |-> saved.pc, mode |-> 0, enabled |-> TRUE] /\ UNCHANGED handler

Next == Run \/ Trap \/ Manage \/ Return

Spec == Init /\ [][Next]_vars
=============================================================================
