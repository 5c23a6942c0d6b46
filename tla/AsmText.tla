------------------------------- MODULE AsmText -------------------------------
(***************************************************************************)
(* Lines of assembly, as ax-cc and ax-disasm write them and ax-asm reads   *)
(* them: a mnemonic and its operands.  An operand is one word, but for a   *)
(* bracketed one with blanks inside.                                       *)
(***************************************************************************)
EXTENDS Integers, Sequences

CONSTANT LabelNames

R(n)       == [t |-> "reg", n |-> n]      \* R5 or V5: the assembler takes both
I(n)       == [t |-> "int", n |-> n]
L(name)    == [t |-> "name", name |-> name]
M(r, n)    == [t |-> "mem", base |-> r, disp |-> n, form |-> "plain"]    \* [R5+8]
MHex(r, n) == [M(r, n) EXCEPT !.form = "hex"]                            \* [R5+0x8]
MWide(r, n) == [M(r, n) EXCEPT !.form = "wide"]                          \* [R5 + 8]

Operand ==
  [t : {"reg"}, n : 0 .. 31] \cup [t : {"int"}, n : Int] \cup [t : {"name"}, name : LabelNames]
    \cup [t : {"mem"}, base : 0 .. 31, disp : Int, form : {"plain", "hex", "wide"}]

Code(mn, args) == [kind |-> "code", mn |-> mn, args |-> args]
Label(name)    == [kind |-> "label", name |-> name]
Blank          == [kind |-> "blank"]     \* empty, or a comment

Line ==
  [kind : {"code"}, mn : STRING, args : Seq(Operand)]
    \cup [kind : {"label"}, name : LabelNames] \cup {Blank}
=============================================================================
