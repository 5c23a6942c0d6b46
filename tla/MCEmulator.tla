------------------------------ MODULE MCEmulator ------------------------------
(* A small instance of Emulator for TLC.                                    *)
EXTENDS Emulator

Entry(v, w, f) == [valid |-> v, writeable |-> w, ppn |-> f]

(* A writeable page and a read-only one.                                    *)
TwoEntries == {Entry(TRUE, TRUE, 1), Entry(TRUE, FALSE, 0)}

W(r, v)     == [reg |-> r, val |-> v]
MS(ie, mpp) == [mie |-> ie, mpie |-> ie, mpp |-> mpp]

SomeWrites ==
  {W("handler", 1), W("mstatus", MS(TRUE, 1)), W("mmu", TRUE),
   W("ptbase", [page |-> 1, off |-> 1]), W("vl", 2), W("status", 1)}
=============================================================================
