----------------------------- MODULE MCToolchain -----------------------------
(***************************************************************************)
(* Programs and files for the toolchain.                                   *)
(***************************************************************************)
EXTENDS Toolchain

a == Var("a")
b == Var("b")
c == Var("c")
i == Var("i")
k == Var("n")
x == Var("x")
y == Var("y")

Shows(e)   == CallS("print", <<e>>)
Main(body) == Function("main", <<>>, body)

-----------------------------------------------------------------------------
(* Every pair of operators, nested on the left and on the right, and every *)
(* operator below and above a unary one.                                   *)
Ops == <<"||", "&&", "==", "!=", "<", ">", "<=", ">=", "+", "-", "*", "/">>

Pairs(o, side) ==
  [j \in DOMAIN Ops |-> IF side = "left" THEN Bin(Ops[j], Bin(o, a, b), c) ELSE Bin(o, a, Bin(Ops[j], b, c))]
    \o <<Un("-", Bin(o, a, b)), Un("!", Bin(o, a, b)), Bin(o, a, Un("!", c)), Bin(o, a, Un("-", Un("-", b)))>>

abc == [v \in {"a", "b", "c"} |-> CASE v = "a" -> 1 [] v = "b" -> 2 [] v = "c" -> 3]

Operators(o, side, va, vb, vc) ==
  <<Main(<<Declare("a", va), Declare("b", vb), Declare("c", vc)>>
           \o LET es == SelectSeq(Pairs(o, side), LAMBDA e : Handled(e, 0, abc))
              IN  [j \in DOMAIN es |-> Shows(es[j])])>>

(* Constants at the boundaries of one, two and three instructions, and     *)
(* operands nested to the last temporary.                                  *)
Constants ==
  <<Main(<<Shows(Num(8191)), Shows(Num(8192)), Shows(Num(33554431)), Shows(Num(33554432)),
           Declare("a", Num(100000)), Declare("b", Un("-", Num(200000))), Shows(Bin("+", a, b)),
           Shows(Bin("-", Num(1), Bin("-", Num(2), Bin("-", Num(3), Bin("-", Num(4), Num(5))))))>>)>>

-----------------------------------------------------------------------------
Recursion ==
  <<Function("fact", <<"n">>,
      <<If(Bin("<", k, Num(2)), <<Return(Num(1))>>),
        Declare("x", CallE("fact", <<Bin("-", k, Num(1))>>)),
        Return(Bin("*", k, x))>>),
    Main(<<Shows(CallE("fact", <<Num(4)>>)), Return(Num(1))>>)>>

TwoSites ==
  <<Main(<<Declare("n", Num(4)), Declare("a", CallE("fib", <<k>>)), Shows(Bin("+", a, k))>>),
    Function("fib", <<"n">>,
      <<If(Bin("<", k, Num(2)), <<Return(k)>>),
        Declare("x", CallE("fib", <<Bin("-", k, Num(1))>>)),
        Declare("y", CallE("fib", <<Bin("-", k, Num(2))>>)),
        Return(Bin("+", x, y))>>)>>

(* Each calls the other; calls in a condition, in an argument, in a return *)
(* and as left operand; printing on both ways.                             *)
Mutual ==
  <<Function("even", <<"n">>,
      <<IfElse(Bin("==", k, Num(0)), <<Shows(k), Return(Num(1))>>,
               <<Return(CallE("odd", <<Bin("-", k, Num(1))>>))>>),
        Return(Num(9))>>),
    Function("odd", <<"n">>,
      <<If(Un("!", k), <<Return(Num(0))>>),
        Shows(CallE("even", <<Bin("-", k, Num(1))>>)), Return(Un("!", k))>>),
    Function("pick", <<"a", "b", "c">>, <<Return(Bin("-", b, Bin("*", c, a)))>>),
    Main(<<Declare("a", Num(3)), Declare("b", Num(5)),
           While(Bin(">", CallE("even", <<a>>), Num(5)), <<Shows(a)>>),
           CallS("pick", <<a, b, Num(7)>>),
           Shows(Bin("+", CallE("pick", <<a, a, CallE("even", <<Num(2)>>)>>), b)),
           Return(Bin("&&", a, b))>>)>>

(* Calls with arguments of every kind in every place: variables, constants,*)
(* sums, results of other calls.                                           *)
Operands ==
  <<a, b, Num(4), Bin("+", a, b), Un("-", b), CallE("neg", <<b>>), CallE("sub", <<a, Num(1)>>),
    CallE("print", <<b>>)>>

ab == [v \in {"a", "b"} |-> IF v = "a" THEN 1 ELSE 2]

Arguments(e, form) ==
  <<Main(<<Declare("a", Num(5)), Declare("b", Num(3))>>
           \o LET uses == [j \in DOMAIN Operands |->
                             CASE form = "first"  -> CallE("sub", <<e, Operands[j]>>)
                               [] form = "second" -> CallE("sub", <<Operands[j], e>>)
                               [] form = "left"   -> Bin("*", e, Operands[j])]
                  fit  == SelectSeq(uses, LAMBDA f : Handled(f, 0, ab))
              IN  [j \in DOMAIN fit |-> Shows(fit[j])]),
    Function("sub", <<"x", "y">>, <<Declare("a", CallE("neg", <<y>>)), Return(Bin("+", x, a))>>),
    Function("neg", <<"x">>, <<Return(Un("-", x))>>)>>

Loops ==
  <<Main(<<Declare("c", Num(0)),
           For(Declare("i", Num(0)), Bin("<", i, Num(3)), Assign("i", Bin("+", i, Num(1))),
               <<Declare("a", i),
                 While(Bin(">=", a, Num(1)),
                       <<Assign("a", Bin("-", a, Num(1))),
                         IfElse(Bin("&&", Bin("==", a, Num(1)), Bin("!=", i, Num(0))),
                                <<Shows(i)>>, <<Assign("c", Bin("+", c, Bin("+", i, a)))>>)>>)>>),
           While(Bin("||", c, Bin("<", i, Num(3))), <<Assign("c", Bin("/", c, Num(2))), Shows(c)>>),
           Return(c)>>)>>

(* There is no such function, and there is nothing at all.                 *)
Undefined == <<Main(<<Shows(Num(1)), CallS("f", <<Num(1)>>)>>)>>
Empty     == <<Function("f", <<>>, <<Return(Num(1))>>)>>

MCPrograms ==
  {Operators(Ops[j], side, Num(7), Num(3), Num(2)) : j \in DOMAIN Ops, side \in {"left", "right"}}
    \cup {Operators(Ops[j], side, Num(0), Num(5), Num(5)) : j \in DOMAIN Ops, side \in {"left", "right"}}
    \cup {Arguments(Operands[j], form) : j \in DOMAIN Operands, form \in {"first", "second", "left"}}
    \cup {Constants, Recursion, TwoSites, Mutual, Loops, Undefined, Empty}

-----------------------------------------------------------------------------
(* Every arrangement of a few lines: labels before and behind their uses,  *)
(* defined twice or not at all, next to each other and at the end.         *)
Pieces ==
  {Label("p"), Label("q"), Blank, Code("ADDI", <<R(1), R(1), I(-1)>>),
   Code("JUMP.X", <<R(31), L("p")>>), Code("BNE", <<R(1), R(0), L("q")>>)}

Arranged == UNION {[1 .. len -> Pieces] : len \in 1 .. 4}

(* Every mnemonic, with registers that differ and are not palindromes in   *)
(* their fields; immediates at and beyond their limits; all ways to write  *)
(* an address.                                                             *)
Regs3 == <<R(21), R(10), R(31)>>

RegisterLines ==
  {Code(mn, Regs3) : mn \in ScalarMnemonics \cup SlowMnemonics \cup OtherMnemonics \cup VectorMnemonics
                               \cup {"VCMP.GT"}}

Limits == {-262145, -262144, -40000, -8193, -8192, -1, 0, 5, 8191, 8192, 65541, 262143, 262144}

ImmediateLines ==
  {Code(mn, <<R(21), R(10), I(m)>>) : mn \in {"ADDI", "LOAD.X", "STORE.X"} \cup BranchMnemonics, m \in Limits}
    \cup {Code("JUMP.X", <<R(30), I(m)>>) : m \in Limits}
    \cup {Code(mn, <<R(9), I(m)>>) : mn \in {"CSR.READ", "CSR.WRITE"}, m \in {0, 1793, 4095, 4096}}
    \cup {Code(mn, <<R(21), op>>) : mn \in {"LOAD.X", "STORE.X", "VLOAD", "VSTORE"},
                                    op \in {R(10), M(10, 8), M(10, -8), M(10, 9000), MHex(10, 16), MWide(10, 8)}}

OtherLines ==
  {Code("ECALL", <<>>), Code("EXRET", <<>>), Code(".word", <<I(305419896)>>), Code(".word", <<L("p")>>),
   Code(".WORD", <<I(7)>>), Code("CSR.SET", <<R(1), I(1)>>), Code("CSR.READ", <<R(1), L("p")>>),
   Code("ADDI", <<R(1), I(2), I(3)>>), Code("ADD.X", <<R(1), R(2)>>), Code("ADDI", <<R(1), R(2), L("p")>>),
   Code("BEQ", <<R(1), R(2)>>), Code("JUMP.X", <<L("p")>>), Code("LOAD.X", <<R(1)>>), Code(".word", <<>>)}

MCFiles == Arranged \cup {<<l>> : l \in RegisterLines \cup ImmediateLines \cup OtherLines}

-----------------------------------------------------------------------------
(* A program of which the compiler makes something else.                   *)
Twice(n) == CallE("twice", <<Num(n)>>)

OrAndCalls ==
  <<Function("twice", <<"n">>, <<Return(Bin("*", k, Num(2)))>>),
    Main(<<Declare("a", Num(5)), Declare("b", Num(10)),
           If(Bin("||", Bin("==", a, Num(5)), Bin("==", b, Num(99))), <<Shows(Num(7))>>),
           Shows(Bin("+", Twice(3), Twice(1)))>>)>>

Miscompiled == {OrAndCalls}

AnyProgram(p) == TRUE
=============================================================================
