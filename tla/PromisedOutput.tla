---------------------------- MODULE PromisedOutput ----------------------------
(***************************************************************************)
(* What the tools promise about a program: it shows the results that the   *)
(* source says, in that order, each of them once, and all of them.         *)
(***************************************************************************)
EXTENDS Naturals, Sequences

VARIABLES promised, out

Show ==
  /\ Len(out) < Len(promised)
  /\ out' = Append(out, promised[Len(out) + 1])
  /\ UNCHANGED promised

Spec ==
  /\ out = <<>>
  /\ [][Show]_<<promised, out>>
  /\ WF_<<promised, out>>(Show)
=============================================================================
