---------------------------- MODULE MCSnoopMemory ----------------------------
(* Small instances of SnoopMemory for TLC. *)
EXTENDS SnoopMemory, TLC

CONSTANTS a1, a2, v1, v2

MCAddrs == {a1, a2}

(* Two addresses that evict each other, or that live in lines of their own. *)
Conflicting == (a1 :> 0) @@ (a2 :> 0)
Separate    == (a1 :> 0) @@ (a2 :> 1)

ValSymmetry == Permutations({v1, v2})
=============================================================================
