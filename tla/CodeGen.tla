------------------------------- MODULE CodeGen -------------------------------
(***************************************************************************)
(* The code generator of ax-cc.  A generator g is the record of what the   *)
(* Rust one holds, and two more fields: reg, the register that gen_expr or *)
(* get_reg returned last, and ok, FALSE after a panic.  An instruction is  *)
(* a tuple, a label the pair <<kind, identity>>: the text of a generated   *)
(* label is its number, of which the generator never gives one twice.      *)
(***************************************************************************)
EXTENDS AsmText, SequencesExt, TLC

SP      == 24   \* stack pointer
TEMP    == 25   \* first of the temporaries, R25 to R30
LINK    == 30   \* return site of the current call
SCRATCH == 31

CSR_EXIT  == 1792   \* 0x700, the exit status
CSR_PRINT == 1793   \* 0x701, a number on the console

Emit(g, code) == [g EXCEPT !.asm = @ \o code]

TwoLabels(g) == [g EXCEPT !.labels = @ + 2]

(* get_reg: a variable lives in one register for its whole function.       *)
GetReg(g, name) ==
  IF name \in DOMAIN g.vars THEN [g EXCEPT !.reg = g.vars[name]]
  ELSE [g EXCEPT !.reg = g.next, !.next = @ + 1, !.ok = @ /\ g.next < 23,
                 !.vars = (name :> g.next) @@ @]

(* The temporary of index t; there is a panic if it would be R31.          *)
Result(g, t) == [g EXCEPT !.reg = TEMP + t, !.ok = @ /\ TEMP + t <= LINK]

-----------------------------------------------------------------------------
(* Pass 0: the callees of all calls, in the order in which sites are given *)
(* labels: a call comes before those in its arguments.                     *)
RECURSIVE CallsIn(_), CallsInAll(_)

CallsInAll(xs) == FlattenSeq([i \in DOMAIN xs |-> CallsIn(xs[i])])

CallsIn(x) ==
  CASE x.k \in {"num", "var"} -> <<>>
    [] x.k = "bin" -> CallsIn(x.l) \o CallsIn(x.r)
    [] x.k \in {"un", "declare", "assign", "return"} -> CallsIn(x.e)
    [] x.k \in {"call", "callstmt"} ->
         (IF x.f = "print" THEN <<>> ELSE <<x.f>>) \o CallsInAll(x.args)
    [] x.k = "while" -> CallsIn(x.e) \o CallsInAll(x.body)
    [] x.k = "if" -> CallsIn(x.e) \o CallsInAll(x.body) \o CallsInAll(FlattenSeq(x.alt))
    [] x.k = "for" -> CallsIn(x.init) \o CallsIn(x.e) \o CallsIn(x.step) \o CallsInAll(x.body)

(* The labels of the sites of f, among the calls of the whole program.     *)
Sites(calls, f) == SelectSeq([i \in DOMAIN calls |-> i], LAMBDA i : calls[i] = f)

-----------------------------------------------------------------------------
(* emit_load_u32: 13 bits, or the upper bits shifted and 12 lower ones.    *)
RECURSIVE LoadU32(_, _, _, _)
LoadU32(g, r, val, t) ==
  IF val < 8192 THEN Emit(g, <<<<"Addi", r, 0, val>>>>)
  ELSE LET shift == TEMP + t + 1
           low   == val % 4096
           high  == LoadU32(g, r, val \div 4096, t + 1)
       IN  Emit([high EXCEPT !.ok = @ /\ shift <= LINK],
                <<<<"Addi", shift, 0, 12>>, <<"Shl", r, r, shift>>>>
                  \o IF low = 0 THEN <<>>
                     ELSE <<<<"Addi", shift, 0, low>>, <<"Add", r, r, shift>>>>)

(* A literal is never negative: the lexer has no sign.                     *)
GenNumber(g, val, t) == LoadU32(Result(g, t), TEMP + t, val, t)

(* The code of an operator, of operands in l and r, with a result in d.    *)
(* a and b are the labels it may use.                                      *)
BinaryCode(op, d, l, r, a, b) ==
  LET Choice(no, yes) ==   \* a branch to a has been taken, or not
        <<<<"Addi", d, 0, no>>, <<"Jump", b>>, <<"Label", a>>,
          <<"Addi", d, 0, yes>>, <<"Label", b>>>>
      Negated(x, y) ==
        <<<<"Slt", SCRATCH, x, y>>, <<"Addi", d, 0, 1>>, <<"Xor", d, SCRATCH, d>>>>
  IN CASE op = "+"  -> <<<<"Add", d, l, r>>>>
       [] op = "-"  -> <<<<"Sub", d, l, r>>>>
       [] op = "*"  -> <<<<"Mul", d, l, r>>>>
       [] op = "/"  -> <<<<"Div", d, l, r>>>>
       [] op = "<"  -> <<<<"Slt", d, l, r>>>>
       [] op = ">"  -> <<<<"Slt", d, r, l>>>>
       [] op = "<=" -> Negated(r, l)
       [] op = ">=" -> Negated(l, r)
       [] op = "==" -> <<<<"Branch", l, r, a>>>> \o Choice(0, 1)
       [] op = "!=" -> <<<<"Branch", l, r, a>>>> \o Choice(1, 0)
       [] op = "&&" -> <<<<"Branch", l, 0, a>>, <<"Branch", r, 0, a>>>> \o Choice(1, 0)
       [] op = "||" ->
            <<<<"Addi", d, 0, 0>>, <<"Branch", l, 0, a>>, <<"Addi", d, 0, 1>>,
              <<"Jump", b>>, <<"Label", a>>, <<"Branch", r, 0, b>>,
              <<"Addi", d, 0, 1>>, <<"Label", b>>>>

Labelled == {"==", "!=", "&&", "||"}

UnaryCode(op, d, r) ==
  IF op = "-" THEN <<<<"Sub", d, 0, r>>>>
  ELSE <<<<"Sltu", SCRATCH, 0, r>>, <<"Addi", d, 0, 1>>, <<"Xor", d, SCRATCH, d>>>>

-----------------------------------------------------------------------------
(* mutant: the stack pointer is not moved *)
PushInPlace(r) == <<<<"Store", r, SP, 0>>>>

Push(r) == <<<<"Addi", SP, SP, -8>>, <<"Store", r, SP, 0>>>>

Pop(r)  == <<<<"Load", r, SP, 0>>, <<"Addi", SP, SP, 8>>>>

Spill(saved) == FlattenSeq([i \in DOMAIN saved |-> Push(saved[i])])

(* mutant: registers come back in the order in which they were saved *)
Unreversed(saved) == FlattenSeq([i \in DOMAIN saved |-> Pop(saved[i])])

Restore(saved) == FlattenSeq(Reverse([i \in DOMAIN saved |-> Pop(saved[i])]))

(* gen_call behind the arguments, which are in regs: save the locals and   *)
(* the link, pass the arguments and the number of the site, take the       *)
(* result from R1.  A callee without sites (print, unknown) is a panic.    *)
Call(g, f, regs, t) ==
  IF f \notin DOMAIN g.sites THEN [g EXCEPT !.ok = FALSE]
  ELSE LET n     == g.counts[f] + 1
           saved == [i \in 1 .. g.next |-> IF i < g.next THEN i ELSE LINK]
       IN  Emit([Result(g, t) EXCEPT !.counts[f] = n],
                Spill(saved)
                  \o [i \in DOMAIN regs |-> <<"Addi", i, regs[i], 0>>]
                  \o <<<<"Addi", LINK, 0, n>>, <<"Jump", <<"func", f>>>>,
                       <<"Label", <<"L", g.sites[f][n]>>>>, <<"Addi", TEMP + t, 1, 0>>>>
                  \o Restore(saved))

(* gen_expr: a variable is its own register, anything else is computed in  *)
(* the temporary of index t with the help of those above it.               *)
RECURSIVE GenExpr(_, _, _), GenArgs(_, _, _, _)

GenArgs(args, t, g, regs) ==
  IF args = <<>> THEN <<g, regs>>
  ELSE LET h == GenExpr(Head(args), t, g)
       IN  GenArgs(Tail(args), t + 1, h, Append(regs, h.reg))

GenExpr(e, t, g) ==
  CASE e.k = "num" -> GenNumber(g, e.n, t)
    [] e.k = "var" -> GetReg(g, e.v)
    [] e.k = "un" ->
         LET h == GenExpr(e.e, t, g)
         IN  Emit(Result(h, t), UnaryCode(e.op, TEMP + t, h.reg))
    [] e.k = "bin" ->
         LET l == GenExpr(e.l, t, g)
             r == GenExpr(e.r, t + 1, l)
         IN  Emit(Result(IF e.op \in Labelled THEN TwoLabels(r) ELSE r, t),
                  BinaryCode(e.op, TEMP + t, l.reg, r.reg,
                             <<"L", r.labels + 1>>, <<"L", r.labels + 2>>))
    [] e.k = "call" /\ e.f = "print" /\ Len(e.args) = 1 ->
         LET h == GenExpr(e.args[1], t, g)
         IN  Emit(h, <<<<"CsrWrite", h.reg, CSR_PRINT>>>>)
    [] OTHER -> LET h == GenArgs(e.args, t, g, <<>>) IN Call(h[1], e.f, h[2], t)

-----------------------------------------------------------------------------
Move(g, r) == IF g.reg = r THEN g ELSE Emit(g, <<<<"Addi", r, g.reg, 0>>>>)

RECURSIVE GenStmt(_, _), GenBlock(_, _)

GenBlock(body, g) == IF body = <<>> \/ ~g.ok THEN g ELSE GenBlock(Tail(body), GenStmt(Head(body), g))

(* A loop between the labels a and b.                                      *)
GenLoop(a, b, cond, body, g) ==
  LET test == GenExpr(cond, 0, Emit(g, <<<<"Label", a>>>>))
  IN  Emit(GenBlock(body, Emit(test, <<<<"Branch", test.reg, 0, b>>>>)),
           <<<<"Jump", a>>, <<"Label", b>>>>)

GenStmt(s, g) ==
  LET a == <<"L", g.labels + 1>>
      b == <<"L", g.labels + 2>>
  IN
  CASE s.k \in {"declare", "assign"} ->
         LET v == GetReg(g, s.v) IN Move(GenExpr(s.e, 0, v), v.reg)
    [] s.k = "if" ->
         LET test == GenExpr(s.e, 0, g)
             m    == <<"L", test.labels + 1>>
             n    == <<"L", test.labels + 2>>
             Then(h) == GenBlock(s.body, Emit(h, <<<<"Branch", test.reg, 0, m>>>>))
         IN  IF s.alt = <<>>
               THEN Emit(Then([test EXCEPT !.labels = @ + 1]), <<<<"Label", m>>>>)
               ELSE Emit(GenBlock(s.alt[1], Emit(Then(TwoLabels(test)),
                                                 <<<<"Jump", n>>, <<"Label", m>>>>)),
                         <<<<"Label", n>>>>)
    [] s.k = "while" -> GenLoop(a, b, s.e, s.body, TwoLabels(g))
    [] s.k = "for" ->
         GenLoop(a, b, s.e, Append(s.body, s.step), GenStmt(s.init, TwoLabels(g)))
    [] s.k = "return" ->
         LET h == GenExpr(s.e, 0, g)
         IN  IF g.func = "main" THEN Emit(h, <<<<"CsrWrite", h.reg, CSR_EXIT>>>>)
             ELSE Emit(Move(h, 1), <<<<"Jump", <<"disp", g.func>>>>>>)
    [] s.k = "callstmt" -> GenExpr([k |-> "call", f |-> s.f, args |-> s.args], 0, g)

-----------------------------------------------------------------------------
(* emit_dispatch: the way back is found by comparing the link with the     *)
(* number of every site; when there is no such site, for ever.             *)
Dispatch(g, f) ==
  LET sites == IF f \in DOMAIN g.sites THEN g.sites[f] ELSE <<>>
  IN  Emit(g, FlattenSeq([i \in DOMAIN sites |->
                 <<<<"Addi", TEMP, 0, i>>, <<"Branch", LINK, TEMP, <<"L", sites[i]>>>>>>])
              \o <<<<"Jump", <<"disp", f>>>>>>)

RECURSIVE GetRegs(_, _)
GetRegs(names, g) == IF names = <<>> THEN g ELSE GetRegs(Tail(names), GetReg(g, Head(names)))

(* gen_func: main ends in a loop, any other function at its dispatcher.    *)
GenFunc(g, fn) ==
  LET start == Emit([g EXCEPT !.vars = <<>>, !.next = 1, !.func = fn.name],
                    <<<<"Label", <<"func", fn.name>>>>>>)
      body  == GenBlock(fn.body, GetRegs(fn.args, start))
      end   == <<"L", body.labels + 1>>
  IN  IF fn.name = "main"
        THEN Emit([body EXCEPT !.labels = @ + 1], <<<<"Label", end>>, <<"Jump", end>>>>)
        ELSE Dispatch(Emit(body, <<<<"Label", <<"disp", fn.name>>>>>>), fn.name)

RECURSIVE GenFuncs(_, _)
GenFuncs(g, fns) == IF fns = <<>> \/ ~g.ok THEN g ELSE GenFuncs(GenFunc(g, Head(fns)), Tail(fns))

(* generate: main comes first, at address 0, and sets the stack pointer.   *)
Generate(prog) ==
  LET calls == FlattenSeq([i \in DOMAIN prog |-> CallsInAll(prog[i].body)])
      new   == [asm |-> <<>>, vars |-> <<>>, next |-> 1, labels |-> Len(calls), func |-> "",
                sites |-> [f \in ToSet(calls) |-> Sites(calls, f)],
                counts |-> [f \in ToSet(calls) |-> 0], reg |-> 0, ok |-> TRUE]
      mains  == SelectSeq(prog, LAMBDA f : f.name = "main")
      others == SelectSeq(prog, LAMBDA f : f.name # "main")
  IN  IF mains = <<>> THEN GenFuncs(new, others)
      ELSE GenFuncs(GenFunc(LoadU32(new, SP, 1048576, 0), mains[1]), others)

-----------------------------------------------------------------------------
Mnemonic(op) ==
  CASE op = "Add" -> "ADD.X" [] op = "Sub" -> "SUB.X" [] op = "Mul" -> "MUL.X"
    [] op = "Div" -> "DIV.X" [] op = "Xor" -> "XOR"   [] op = "Shl" -> "SHL"
    [] op = "Slt" -> "SLT"   [] op = "Sltu" -> "SLTU"

(* The instructions before i: the address of i, in words.                  *)
PcOf(asm, i) == Len(SelectSeq(SubSeq(asm, 1, i - 1), LAMBDA x : x[1] # "Label"))

(* Of labels with one name the last one counts.                            *)
LabelMap(asm) ==
  LET at(l) == {i \in DOMAIN asm : asm[i] = <<"Label", l>>}
  IN  [l \in {asm[i][2] : i \in {j \in DOMAIN asm : asm[j][1] = "Label"}} |->
         PcOf(asm, CHOOSE i \in at(l) : \A j \in at(l) : j <= i)]

GoesTo(x) == x[Len(x)]

(* A function that is called but not defined has no address: a panic.      *)
Resolvable(asm) ==
  LET map == LabelMap(asm)
  IN  \A i \in DOMAIN asm : asm[i][1] \in {"Branch", "Jump"} => GoesTo(asm[i]) \in DOMAIN map

(* resolve_labels: labels become comments, uses of them distances in words *)
ResolveLabels(asm) ==
  LET map == LabelMap(asm)
      text(x, pc) ==
        CASE x[1] = "Label"  -> Blank
          [] x[1] = "Addi"   -> Code("ADDI", <<R(x[2]), R(x[3]), I(x[4])>>)
          [] x[1] = "Branch" -> Code("BRANCH.X", <<R(x[2]), R(x[3]), I(map[x[4]] - pc)>>)
          [] x[1] = "Jump"   -> Code("JUMP.X", <<R(0), I(map[x[2]] - pc)>>)
          [] x[1] = "CsrWrite" -> Code("CSR.WRITE", <<R(x[2]), I(x[3])>>)
          [] x[1] = "Load"   -> Code("LOAD.X", <<R(x[2]), M(x[3], x[4])>>)
          [] x[1] = "Store"  -> Code("STORE.X", <<R(x[2]), M(x[3], x[4])>>)
          [] OTHER -> Code(Mnemonic(x[1]), <<R(x[2]), R(x[3]), R(x[4])>>)
  IN  [i \in DOMAIN asm |-> text(asm[i], PcOf(asm, i))]
=============================================================================
