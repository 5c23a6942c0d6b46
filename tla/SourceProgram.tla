---------------------------- MODULE SourceProgram ----------------------------
(***************************************************************************)
(* What a program in the language of ax-cc means: the CSR writes by which  *)
(* it shows results, in order and all of them.  A program is a sequence of *)
(* functions, its parts are records tagged by k.  Variables belong to      *)
(* their function; && and || evaluate their right side only when needed.   *)
(***************************************************************************)
EXTENDS Integers, SequencesExt, TLC

CONSTANT WordSize   \* numbers of a machine word

Num(n)          == [k |-> "num", n |-> n]
Var(v)          == [k |-> "var", v |-> v]
Un(op, e)       == [k |-> "un", op |-> op, e |-> e]
Bin(op, l, r)   == [k |-> "bin", op |-> op, l |-> l, r |-> r]
CallE(f, args)  == [k |-> "call", f |-> f, args |-> args]
Declare(v, e)   == [k |-> "declare", v |-> v, e |-> e]
Assign(v, e)    == [k |-> "assign", v |-> v, e |-> e]
If(e, body)     == [k |-> "if", e |-> e, body |-> body, alt |-> <<>>]
IfElse(e, body, alt)    == [k |-> "if", e |-> e, body |-> body, alt |-> <<alt>>]
While(e, body)          == [k |-> "while", e |-> e, body |-> body]
For(init, e, step, body) == [k |-> "for", init |-> init, e |-> e, step |-> step, body |-> body]
Return(e)               == [k |-> "return", e |-> e]
CallS(f, args)          == [k |-> "callstmt", f |-> f, args |-> args]
Function(f, args, body) == [name |-> f, args |-> args, body |-> body]

-----------------------------------------------------------------------------
(* The text of a program, as tokens, with no more parentheses than the     *)
(* grammar of C needs: operators bind as below and associate to the left.  *)
Tok(t)   == [t |-> t]
Id(name) == [t |-> "id", v |-> name]
Lit(n)   == [t |-> "num", v |-> n]

Precedence(op) ==
  CASE op = "||" -> 1 [] op = "&&" -> 2 [] op \in {"==", "!="} -> 3
    [] op \in {"<", ">", "<=", ">="} -> 4 [] op \in {"+", "-"} -> 5 [] op \in {"*", "/"} -> 6

InParens(toks)   == <<Tok("(")>> \o toks \o <<Tok(")")>>
Separated(parts) == IF parts = <<>> THEN <<>> ELSE FoldLeft(LAMBDA a, b : a \o <<Tok(",")>> \o b,
                                                           Head(parts), Tail(parts))

(* An expression where operators must bind at least as tightly as level n. *)
RECURSIVE ExprText(_, _), StmtText(_)

ArgsText(args) == InParens(Separated([i \in DOMAIN args |-> ExprText(args[i], 1)]))

ExprText(e, n) ==
  CASE e.k = "num"  -> <<Lit(e.n)>>
    [] e.k = "var"  -> <<Id(e.v)>>
    [] e.k = "un"   -> <<Tok(e.op)>> \o ExprText(e.e, 7)
    [] e.k = "call" -> <<Id(e.f)>> \o ArgsText(e.args)
    [] e.k = "bin"  ->
         LET m    == Precedence(e.op)
             text == ExprText(e.l, m) \o <<Tok(e.op)>> \o ExprText(e.r, m + 1)
         IN  IF m < n THEN InParens(text) ELSE text

BlockText(body) == <<Tok("{")>> \o FlattenSeq([i \in DOMAIN body |-> StmtText(body[i])]) \o <<Tok("}")>>

(* The condition of a while has no parentheses if it starts with none.     *)
BareText(e) == LET text == ExprText(e, 1) IN IF text[1] = Tok("(") THEN InParens(text) ELSE text

StepText(s) ==
  IF s.k = "callstmt" THEN <<Id(s.f)>> \o ArgsText(s.args)
  ELSE <<Id(s.v), Tok("=")>> \o ExprText(s.e, 1)

StmtText(s) ==
  CASE s.k = "declare" -> <<Tok("int")>> \o StepText(s) \o <<Tok(";")>>
    [] s.k = "return"  -> <<Tok("return")>> \o ExprText(s.e, 1) \o <<Tok(";")>>
    [] s.k = "while"   -> <<Tok("while")>> \o BareText(s.e) \o BlockText(s.body)
    [] s.k = "if"      ->
         <<Tok("if")>> \o InParens(ExprText(s.e, 1)) \o BlockText(s.body)
           \o IF s.alt = <<>> THEN <<>> ELSE <<Tok("else")>> \o BlockText(s.alt[1])
    [] s.k = "for"     ->
         <<Tok("for"), Tok("(")>> \o StmtText(s.init) \o ExprText(s.e, 1) \o <<Tok(";")>>
           \o StepText(s.step) \o <<Tok(")")>> \o BlockText(s.body)
    [] OTHER -> StepText(s) \o <<Tok(";")>>

FunctionText(f) ==
  <<Tok("int"), Id(f.name)>>
    \o InParens(Separated([i \in DOMAIN f.args |-> <<Tok("int"), Id(f.args[i])>>]))
    \o BlockText(f.body)

ProgramText(prog) == FlattenSeq([i \in DOMAIN prog |-> FunctionText(prog[i])])

-----------------------------------------------------------------------------
Truth(b) == IF b THEN 1 ELSE 0

Apply(op, a, b) ==
  CASE op = "+"  -> a + b
    [] op = "-"  -> a - b
    [] op = "*"  -> a * b
    [] op = "/"  -> a \div b
    [] op = "==" -> Truth(a = b)
    [] op = "!=" -> Truth(a # b)
    [] op = "<"  -> Truth(a < b)
    [] op = ">"  -> Truth(a > b)
    [] op = "<=" -> Truth(a <= b)
    [] op = ">=" -> Truth(a >= b)
    [] op \in {"&&", "||"} -> Truth(b # 0)

(* A run s of one function: its variables, the value that was computed     *)
(* last, the writes so far, and whether it has returned.                   *)
Bind(s, v, x)  == [s EXCEPT !.env = (v :> x) @@ @]
Write(s, reg)  == [s EXCEPT !.out = Append(@, <<reg, s.val % WordSize>>)]

RECURSIVE Eval(_, _, _), EvalAll(_, _, _, _), Exec(_, _, _), ExecAll(_, _, _)

Invoke(f, vals, s, prog) ==
  LET fn  == prog[CHOOSE i \in DOMAIN prog : prog[i].name = f]
      end == ExecAll(fn.body, [env |-> [v \in {fn.args[i] : i \in DOMAIN fn.args} |->
                                  vals[CHOOSE i \in DOMAIN fn.args : fn.args[i] = v]],
                               val |-> 0, out |-> s.out, done |-> FALSE, fn |-> f], prog)
  IN  [s EXCEPT !.val = end.val, !.out = end.out]

EvalAll(es, s, vals, prog) ==
  IF es = <<>> THEN <<s, vals>>
  ELSE LET t == Eval(Head(es), s, prog) IN EvalAll(Tail(es), t, Append(vals, t.val), prog)

Eval(e, s, prog) ==
  CASE e.k = "num" -> [s EXCEPT !.val = e.n]
    [] e.k = "var" -> [s EXCEPT !.val = s.env[e.v]]
    [] e.k = "un"  ->
         LET t == Eval(e.e, s, prog)
         IN  [t EXCEPT !.val = IF e.op = "-" THEN -t.val ELSE Truth(t.val = 0)]
    [] e.k = "bin" ->
         LET l == Eval(e.l, s, prog)
             r == Eval(e.r, l, prog)
         IN  IF (e.op = "&&" /\ l.val = 0) \/ (e.op = "||" /\ l.val # 0)
               THEN [l EXCEPT !.val = Truth(l.val # 0)]
               ELSE [r EXCEPT !.val = Apply(e.op, l.val, r.val)]
    [] e.k = "call" ->
         LET t == EvalAll(e.args, s, <<>>, prog)
         IN  IF e.f = "print" THEN Write(t[1], "print") ELSE Invoke(e.f, t[2], t[1], prog)

ExecAll(body, s, prog) ==
  IF body = <<>> \/ s.done THEN s ELSE ExecAll(Tail(body), Exec(Head(body), s, prog), prog)

Exec(st, s, prog) ==
  CASE st.k \in {"declare", "assign"} ->
         LET t == Eval(st.e, s, prog) IN Bind(t, st.v, t.val)
    [] st.k = "if" ->
         LET t == Eval(st.e, s, prog)
         IN  IF t.val # 0 THEN ExecAll(st.body, t, prog)
             ELSE IF st.alt = <<>> THEN t ELSE ExecAll(st.alt[1], t, prog)
    [] st.k = "while" ->
         LET t == Eval(st.e, s, prog)
             u == ExecAll(st.body, t, prog)
         IN  IF t.val = 0 THEN t ELSE IF u.done THEN u ELSE Exec(st, u, prog)
    [] st.k = "for" ->
         Exec(While(st.e, Append(st.body, st.step)), Exec(st.init, s, prog), prog)
    [] st.k = "return" ->
         LET t == [Eval(st.e, s, prog) EXCEPT !.done = TRUE]
         IN  IF s.fn = "main" THEN Write(t, "exit") ELSE t
    [] st.k = "callstmt" -> Eval(CallE(st.f, st.args), s, prog)

(* All that a program writes.                                              *)
Meaning(prog) ==
  Invoke("main", <<>>, [val |-> 0, out |-> <<>>], prog).out
=============================================================================
