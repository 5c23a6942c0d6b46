--------------------------------- MODULE MCTlb ---------------------------------
(***************************************************************************)
(* Values of the constants of Tlb for TLC.                                 *)
(***************************************************************************)
EXTENDS Tlb

SomeRights == {{}, {"fetch"}, {"load", "store"}}
=============================================================================
