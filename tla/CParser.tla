------------------------------- MODULE CParser -------------------------------
(***************************************************************************)
(* The parser of ax-cc: recursive descent over the tokens of a file.  A    *)
(* parser p is its position in the tokens, the values that its functions   *)
(* have returned and no caller has used yet, and ok, FALSE after a panic.  *)
(***************************************************************************)
EXTENDS SourceProgram

Peek(p)    == IF p.pos <= Len(p.toks) THEN p.toks[p.pos].t ELSE "eof"
Text(p)    == p.toks[p.pos].v
Advance(p) == [p EXCEPT !.pos = @ + 1]
Panic(p)   == [p EXCEPT !.ok = FALSE]

Match(p, t)  == IF Peek(p) = t THEN Advance(p) ELSE p
Expect(p, t) == IF Peek(p) = t THEN Advance(p) ELSE Panic(p)

Yield(p, x) == [p EXCEPT !.vals = Append(@, x)]

(* Make one value of the last n.                                           *)
Build(p, n, Make(_)) ==
  LET k == Len(p.vals) - n
  IN  IF p.ok THEN [p EXCEPT !.vals = Append(SubSeq(@, 1, k), Make(SubSeq(@, k + 1, k + n)))]
      ELSE p

Collect(p) == Build(p, 2, LAMBDA xs : Append(xs[1], xs[2]))

-----------------------------------------------------------------------------
(* mutant: equality and comparison have one precedence *)
FlatLevels == <<{"||"}, {"&&"}, {"==", "!=", "<", ">", "<=", ">="}, {"+", "-"}, {"*", "/"}>>

(* Operators from loosely to tightly binding.                              *)
Levels == <<{"||"}, {"&&"}, {"==", "!="}, {"<", ">", "<=", ">="}, {"+", "-"}, {"*", "/"}>>

RECURSIVE ParseLevel(_, _), ParseRest(_, _), ParseUnary(_), ParseArgs(_)

ParseExpression(p) == ParseLevel(1, p)

(* The arguments behind a left parenthesis; commas may be missing.         *)
ParseArgs(p) ==
  IF ~p.ok \/ Peek(p) = ")" THEN Expect(p, ")")
  ELSE ParseArgs(Match(Collect(ParseExpression(p)), ","))

(* A name at p and arguments behind it.                                    *)
NameAndArgs(p) == ParseArgs(Yield(Yield(Advance(Advance(p)), Text(p)), <<>>))

ParsePrimary(p) ==
  CASE Peek(p) = "num" -> Yield(Advance(p), Num(Text(p)))
    [] Peek(p) = "id" /\ Peek(Advance(p)) = "(" ->
         Build(NameAndArgs(p), 2, LAMBDA xs : CallE(xs[1], xs[2]))
    [] Peek(p) = "id" /\ Peek(Advance(p)) # "(" -> Yield(Advance(p), Var(Text(p)))
    [] Peek(p) = "("  -> Expect(ParseExpression(Advance(p)), ")")
    [] OTHER -> Panic(p)

ParseUnary(p) ==
  IF Peek(p) \in {"-", "!"}
    THEN Build(ParseUnary(Advance(p)), 1, LAMBDA xs : Un(Peek(p), xs[1]))
    ELSE ParsePrimary(p)

(* A chain of operators of level n, which associates to the left, of       *)
(* operands of the levels above; level 7 are the unary operators.          *)
ParseLevel(n, p) ==
  IF n > Len(Levels) THEN ParseUnary(p) ELSE ParseRest(n, ParseLevel(n + 1, p))

ParseRest(n, p) ==
  IF p.ok /\ Peek(p) \in Levels[n]
    THEN ParseRest(n, Build(ParseLevel(n + 1, Advance(p)), 2,
                            LAMBDA xs : Bin(Peek(p), xs[1], xs[2])))
    ELSE p

-----------------------------------------------------------------------------
RECURSIVE ParseStatement(_), ParseBody(_)

(* Statements up to the brace that closes a block; a file that ends before *)
(* is a panic, as is any token that begins no statement.                   *)
ParseBody(p) ==
  IF ~p.ok \/ Peek(p) = "}" THEN Expect(p, "}") ELSE ParseBody(Collect(ParseStatement(p)))

ParseBlock(p) == ParseBody(Yield(Expect(p, "{"), <<>>))

(* A condition, with or without parentheses around it.                     *)
OpenParen(p)     == Match(p, "(")
CloseParen(p, q) == IF Peek(p) = "(" THEN Expect(q, ")") ELSE q

ParseCondition(p) == CloseParen(p, ParseExpression(OpenParen(p)))

(* An assignment or a call, without the semicolon.                         *)
ParseStep(p) ==
  LET follows(t) == Peek(p) = "id" /\ Peek(Advance(p)) = t IN
  CASE follows("=") -> Build(ParseExpression(Yield(Advance(Advance(p)), Text(p))), 2,
                             LAMBDA xs : Assign(xs[1], xs[2]))
    [] follows("(") -> Build(NameAndArgs(p), 2, LAMBDA xs : CallS(xs[1], xs[2]))
    [] OTHER -> Panic(p)

(* An if whose first block ends at p.                                      *)
ParseElse(p) ==
  IF Peek(p) = "else"
    THEN Build(ParseBlock(Advance(p)), 3, LAMBDA xs : IfElse(xs[1], xs[2], xs[3]))
    ELSE Build(p, 2, LAMBDA xs : If(xs[1], xs[2]))

ParseDeclaration(p) ==
  IF Peek(p) # "id" THEN Panic(p)
  ELSE Build(Expect(ParseExpression(Expect(Yield(Advance(p), Text(p)), "=")), ";"), 2,
             LAMBDA xs : Declare(xs[1], xs[2]))

ParseStatement(p) ==
  LET q == Advance(p) IN
  CASE Peek(p) = "int"   -> ParseDeclaration(q)
    [] Peek(p) = "if"    -> ParseElse(ParseBlock(ParseCondition(q)))
    [] Peek(p) = "while" ->
         Build(ParseBlock(ParseCondition(q)), 2, LAMBDA xs : While(xs[1], xs[2]))
    [] Peek(p) = "for"   ->
         Build(ParseBlock(CloseParen(q,
                 ParseStep(Expect(ParseExpression(ParseStatement(OpenParen(q))), ";")))), 4,
               LAMBDA xs : For(xs[1], xs[2], xs[3], xs[4]))
    [] Peek(p) = "return" -> Build(Expect(ParseExpression(q), ";"), 1, LAMBDA xs : Return(xs[1]))
    [] OTHER -> Expect(ParseStep(p), ";")

-----------------------------------------------------------------------------
RECURSIVE ParseParams(_), ParseFunctions(_)

(* Anything but a name behind int is skipped.                              *)
ParseParam(p) == IF Peek(p) = "id" THEN Collect(Yield(Advance(p), Text(p))) ELSE Advance(p)

ParseParams(p) ==
  IF ~p.ok \/ Peek(p) = ")" THEN Expect(p, ")")
  ELSE ParseParams(Match(ParseParam(Expect(p, "int")), ","))

NamedFunction(p) ==
  IF Peek(p) # "id" THEN Panic(p)
  ELSE Build(ParseBlock(ParseParams(Yield(Expect(Yield(Advance(p), Text(p)), "("), <<>>))), 3,
             LAMBDA xs : Function(xs[1], xs[2], xs[3]))

ParseFunction(p) == NamedFunction(Expect(p, "int"))

ParseFunctions(p) ==
  IF ~p.ok \/ Peek(p) = "eof" THEN p ELSE ParseFunctions(Collect(ParseFunction(p)))

ParseProgram(tokens) ==
  ParseFunctions([toks |-> tokens, pos |-> 1, vals |-> <<<<>>>>, ok |-> TRUE])
=============================================================================
