------------------------------ MODULE Toolchain ------------------------------
(***************************************************************************)
(* The tools in a row: a C program is parsed, compiled and assembled, and  *)
(* the words run on the emulator.  A file of assembly that somebody wrote  *)
(* is assembled only (Emulator says what any instruction may do).  From    *)
(* the emulator this module takes the instructions of which a compiled     *)
(* program consists, and what is left out there: the values of registers.  *)
(***************************************************************************)
EXTENDS CParser, CodeGen, Disassembler, Bitwise

CONSTANTS
  Programs,     \* the C programs: sequences of functions
  Covered(_)    \* those that are promised to show what they mean

ASSUME WordAssumption == WordSize \in Nat /\ WordSize % 2097152 = 0   \* the stack fits in a half

VARIABLES
  prog,      \* what the programmer meant, <<>> for a file of assembly
  tool,      \* the tool that works: parse, generate, assemble, run; or done, failed
  ast,       \* what the parser made of the program
  regs, mem, pc,
  out,       \* the results shown
  promised,  \* those that the C program promises
  frames     \* the calls under way: return address and stack pointer of each

source_vars  == <<prog, promised>>
machine_vars == <<regs, mem, pc, out, frames>>
vars == <<source_vars, tool, ast, asm_vars, machine_vars>>

-----------------------------------------------------------------------------
(* The programs that the code generator is made for.  Each clause names an *)
(* assumption that it makes and does not check.                            *)
HasCall(e) == CallsIn(e) # <<>>

RECURSIVE HasPrint(_)
HasPrint(e) ==
  CASE e.k = "call" -> e.f = "print" \/ \E i \in DOMAIN e.args : HasPrint(e.args[i])
    [] e.k = "bin"  -> HasPrint(e.l) \/ HasPrint(e.r)
    [] e.k = "un"   -> HasPrint(e.e)
    [] OTHER -> FALSE

(* Temporaries of the constants: a large one takes up to two more.         *)
Extra(n) == IF n < 8192 THEN 0 ELSE IF n < 33554432 THEN 1 ELSE 2

(* The first operand outlives the second only if it is no temporary or the *)
(* second makes no call.                                                   *)
Survives(first, second) == first.k = "var" \/ ~HasCall(second)

(* Arguments are moved one after the other: the register of parameter i    *)
(* must not be the source of a later argument.                             *)
MovesApart(args, home) ==
  \A i, j \in DOMAIN args :
    i < j /\ args[j].k = "var" /\ home[args[j].v] = i => args[i] = args[j]

(* An expression in the temporary of index t; R30 is not used for one.     *)
RECURSIVE Handled(_, _, _)
Handled(e, t, home) ==
  CASE e.k = "num" -> t + Extra(e.n) < LINK - TEMP
    [] e.k = "var" -> e.v \in DOMAIN home
    [] e.k = "un"  -> t < LINK - TEMP /\ Handled(e.e, t, home)
    [] e.k = "bin" ->
         /\ t < LINK - TEMP
         /\ Handled(e.l, t, home) /\ Handled(e.r, t + 1, home)
         /\ Survives(e.l, e.r)
         /\ e.op = "||" => e.l.k = "var"      \* the result is set before l is tested
         /\ e.op \in {"&&", "||"} => ~HasCall(e.r) /\ ~HasPrint(e.r)   \* both are evaluated
         /\ e.op = "/" => e.l.k \in {"num", "var"} /\ e.r.k \in {"num", "var"}   \* unsigned
    [] e.k = "call" ->
         /\ t < LINK - TEMP
         /\ \A i \in DOMAIN e.args : Handled(e.args[i], t + i - 1, home)
         /\ \A i, j \in DOMAIN e.args : i < j => Survives(e.args[i], e.args[j])
         /\ MovesApart(e.args, home)

RECURSIVE StmtHandled(_, _)
StmtHandled(s, home) ==
  CASE s.k \in {"declare", "assign", "return"} -> Handled(s.e, 0, home)
    [] s.k = "callstmt" -> Handled(CallE(s.f, s.args), 0, home)
    [] s.k = "if"    -> /\ Handled(s.e, 0, home)
                        /\ \A i \in DOMAIN s.body : StmtHandled(s.body[i], home)
                        /\ \A b \in ToSet(s.alt) : \A i \in DOMAIN b : StmtHandled(b[i], home)
    [] s.k = "while" -> /\ Handled(s.e, 0, home)
                        /\ \A i \in DOMAIN s.body : StmtHandled(s.body[i], home)
    [] s.k = "for"   -> /\ StmtHandled(s.init, home) /\ StmtHandled(s.step, home)
                        /\ Handled(s.e, 0, home)
                        /\ \A i \in DOMAIN s.body : StmtHandled(s.body[i], home)

RECURSIVE Declared(_), Returns(_)
Declared(body) ==   \* the variables, in the order of the text
  FlattenSeq([i \in DOMAIN body |->
    LET s == body[i] IN
    CASE s.k = "declare" -> <<s.v>>
      [] s.k = "while"   -> Declared(s.body)
      [] s.k = "if"      -> Declared(s.body) \o Declared(FlattenSeq(s.alt))
      [] s.k = "for"     -> Declared(<<s.init>> \o s.body)
      [] OTHER -> <<>>])

Returns(body) ==    \* a return is in some statement
  \E i \in DOMAIN body :
    LET s == body[i] IN
    CASE s.k = "return" -> TRUE
      [] s.k \in {"while", "for"} -> Returns(s.body)
      [] s.k = "if" -> Returns(s.body) \/ Returns(FlattenSeq(s.alt))
      [] OTHER -> FALSE

FunctionHandled(f) ==
  LET names == f.args \o Declared(f.body)
      home  == [v \in ToSet(names) |-> CHOOSE i \in DOMAIN names :
                                         names[i] = v /\ \A j \in 1 .. i - 1 : names[j] # v]
  IN  /\ Cardinality(ToSet(names)) = Len(names) /\ Len(names) < 23
      /\ \A i \in DOMAIN f.body : StmtHandled(f.body[i], home)
      /\ IF f.name = "main" THEN ~Returns(Front(f.body))   \* a return of main does not stop it
         ELSE f.body[Len(f.body)].k = "return"

Supported(p) ==
  /\ {"main"} \cup ToSet(FlattenSeq([i \in DOMAIN p |-> CallsInAll(p[i].body)]))
       \subseteq {p[i].name : i \in DOMAIN p}
  /\ \A i \in DOMAIN p : FunctionHandled(p[i])

-----------------------------------------------------------------------------
Init ==
  /\ \/ prog \in Programs /\ tool = "parse" /\ text = <<>>
     \/ prog = <<>> /\ tool = "assemble" /\ text \in Files
  /\ promised = IF tool = "parse" /\ Covered(prog) THEN Meaning(prog) ELSE <<>>
  /\ ast = <<>> /\ Opened
  /\ regs = [r \in Reg |-> 0] /\ mem = <<>> /\ pc = 0 /\ out = <<>> /\ frames = <<>>

Parse ==
  /\ tool = "parse"
  /\ LET p == ParseProgram(ProgramText(prog)) IN p.ok /\ ast' = p.vals[1]
  /\ tool' = "generate"
  /\ UNCHANGED <<source_vars, asm_vars, machine_vars>>

Compiles(g) == g.ok /\ Resolvable(g.asm)

Compile ==
  /\ tool = "generate"
  /\ LET g == Generate(ast) IN Compiles(g) /\ text' = ResolveLabels(g.asm)
  /\ tool' = "assemble"
  /\ UNCHANGED <<source_vars, ast, pass, line_num, labels, current_pc, words, machine_vars>>

CompilerPanics ==
  /\ tool \in {"parse", "generate"}
  /\ IF tool = "parse" THEN ~ParseProgram(ProgramText(prog)).ok ELSE ~Compiles(Generate(ast))
  /\ tool' = "failed"
  /\ UNCHANGED <<source_vars, ast, asm_vars, machine_vars>>

Assemble == tool = "assemble" /\ AsmNext /\ UNCHANGED <<source_vars, tool, ast, machine_vars>>

(* ax-emu starts on the words of a compiled program.                       *)
Start ==
  /\ tool = "assemble" /\ pass = "written" /\ prog # <<>>
  /\ tool' = "run"
  /\ UNCHANGED <<source_vars, ast, asm_vars, machine_vars>>

-----------------------------------------------------------------------------
(* The main loop of ax-emu, in which pc counts words.  A step that leaves  *)
(* the PC where it is ends the run.                                        *)
Fetched == Decode(words[pc + 1])

Run(ops) == tool = "run" /\ pc < Len(words) /\ Fetched.op \in ops

GoTo(target) ==
  /\ pc' = target
  /\ tool' = IF target = pc THEN "done" ELSE "run"
  /\ UNCHANGED <<source_vars, ast, asm_vars>>

Signed(x) == IF x < WordSize \div 2 THEN x ELSE x - WordSize

SetReg(r, x) == regs' = [regs EXCEPT ![r] = IF r = 0 THEN 0 ELSE x % WordSize]

Computed(d, a, b) ==
  CASE d.op = 1 /\ d.funct = 0 -> a + b
    [] d.op = 1 /\ d.funct = 1 -> a - b
    [] d.op = 4  -> a ^^ b
    [] d.op = 5  -> a * 2 ^ (b % 64)
    [] d.op = 7  -> Signed(a) * Signed(b)
    [] d.op = 8  -> IF b = 0 THEN 0 ELSE a \div b
    [] d.op = 9  -> a + d.imm14
    [] d.op = 10 -> Truth(Signed(a) < Signed(b))
    [] d.op = 11 -> Truth(a < b)

Compute ==
  /\ Run({1, 4, 5, 7, 8, 9, 10, 11})
  /\ SetReg(Fetched.rd, Computed(Fetched, regs[Fetched.rs1], regs[Fetched.rs2]))
  /\ GoTo(pc + 1)
  /\ UNCHANGED <<mem, out, frames>>

Load ==
  /\ Run({33})
  /\ LET at == (regs[Fetched.rs1] + Fetched.imm14) % WordSize
     IN  at % 8 = 0 /\ SetReg(Fetched.rd, IF at \in DOMAIN mem THEN mem[at] ELSE 0)
  /\ GoTo(pc + 1)
  /\ UNCHANGED <<mem, out, frames>>

Store ==
  /\ Run({34})
  /\ LET at == (regs[Fetched.rd] + Fetched.imm14) % WordSize
     IN  at % 8 = 0 /\ mem' = (at :> regs[Fetched.rs1]) @@ mem
  /\ GoTo(pc + 1)
  /\ UNCHANGED <<regs, out, frames>>

(* A taken branch on the link is the return of the innermost call.         *)
Returning == Fetched.op = 64 /\ Fetched.rd = LINK /\ regs[LINK] = regs[Fetched.rs1]

Branch ==
  /\ Run({64})
  /\ GoTo(IF regs[Fetched.rd] = regs[Fetched.rs1] THEN pc + Fetched.imm14 ELSE pc + 1)
  /\ frames' = IF Returning /\ frames # <<>> THEN Front(frames) ELSE frames
  /\ UNCHANGED <<regs, mem, out>>

(* A jump right behind the number of its site is a call.                   *)
Calling ==
  LET before == Decode(words[pc]) IN pc > 0 /\ before.op = 9 /\ before.rd = LINK /\ before.rs1 = 0

Jump ==
  /\ Run({65})
  /\ SetReg(Fetched.rd, 4 * (pc + 1))
  /\ GoTo(pc + Fetched.imm19)
  /\ frames' = IF Calling THEN Append(frames, [site |-> pc + 1, sp |-> regs[SP]]) ELSE frames
  /\ UNCHANGED <<mem, out>>

CsrWrite ==
  /\ Run({67})
  /\ out' = Append(out, <<IF Fetched.csr = CSR_EXIT THEN "exit" ELSE "print", regs[Fetched.rd]>>)
  /\ GoTo(pc + 1)
  /\ UNCHANGED <<regs, mem, frames>>

Execute == Compute \/ Load \/ Store \/ Branch \/ Jump \/ CsrWrite

Next == Parse \/ Compile \/ CompilerPanics \/ Assemble \/ Start \/ Execute

(* A tool that has started runs to its end, and the next one is started.   *)
(* (The compiler's parts are functions: they always have a next step.)     *)
Spec ==
  /\ Init
  /\ [][Next]_vars
  /\ []<>(tool \notin {"parse", "generate"})
  /\ WF_vars(Assemble \/ Start \/ Execute)

-----------------------------------------------------------------------------
(* The parser reads a program as its author meant it: precedence, the side *)
(* to which operators associate, optional parentheses and commas.          *)
ParsesBack == tool = "generate" => ast = prog

(* There is no return instruction and no address on the stack: the way     *)
(* back is found by comparing R30 with the number of every site.  It leads *)
(* to the innermost of the calls under way, with the stack as that call    *)
(* left it, whatever calls and restores have happened in between.          *)
CallsReturn ==
  [][tool = "run" /\ Returning /\ promised # <<>> =>
       frames # <<>> /\ pc' = frames[Len(frames)].site /\ regs[SP] = frames[Len(frames)].sp]_vars

(* The abstract specification: a program shows exactly the results that    *)
(* its source promises, and in the end all of them.                        *)
Promise == INSTANCE PromisedOutput

ProgramMeaning == Promise!Spec
=============================================================================
