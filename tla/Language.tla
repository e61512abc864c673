------------------------------- MODULE Language ------------------------------
(***************************************************************************)
(* What becomes of a program: internal/lang/parser.go compileSlow and      *)
(* eval.go runWithInterp.  Its text is read, the program checked and then  *)
(* interpreted, and what goes wrong in one step keeps the next from being  *)
(* taken.  The other way, that of compiler/main.go, is from the text to    *)
(* the outcome of the compiled program.  The components are parameters,    *)
(* which the operators Read, Accepts, Run and Outcome stand in for; here   *)
(* they meet, on every program of a set and every way of writing it.       *)
(***************************************************************************)
EXTENDS Evaluator, Parser, Writer

CONSTANTS
    Reading(_),     \* from a text to a program or Wrong
    Accepting(_),   \* the checker's verdict on a program
    Running(_, _),  \* the outcome of a program, given the order of its impls
    Compiling(_),   \* the outcome of a text that is compiled and run
    Families,   \* a sequence of sets of programs to try; main ends in a return statement
    Styled,     \* the sets whose programs are also written with comments and with macros
    Native      \* the sets whose programs are written for the compiler, and also compiled

VARIABLES
    prog,       \* the program the author has in mind
    style,      \* how it is written down
    phase,      \* what has been done with it
    read,       \* what the parser has made of the text
    ran,        \* the outcome of the run
    compiled    \* that of the compiled program
vars == <<prog, style, phase, read, ran, compiled>>

(* The orders in which the impls may come out of the Go map. *)
Orders(p) == {o \in [DOMAIN p.impls -> DOMAIN p.impls] : IsInjective(o)}

Init == /\ \E i \in DOMAIN Families : /\ prog \in Families[i]
                                       /\ style \in IF i \in Styled THEN Styles(prog) ELSE IF i \in Native THEN NativeStyles(prog) ELSE {"plain"}
        /\ phase = "text"
        /\ read = Wrong
        /\ ran = None
        /\ compiled = None

ReadText == /\ phase = "text"
            /\ read' = Reading(Written(prog, style))
            /\ phase' = IF read'.ok THEN "parsed" ELSE "rejected"
            /\ UNCHANGED <<prog, style, ran, compiled>>
Check == /\ phase = "parsed"
         /\ phase' = IF Accepting(read.v) THEN "checked" ELSE "rejected"
         /\ UNCHANGED <<prog, style, read, ran, compiled>>
Interpret == /\ phase = "checked"
             /\ \E o \in Orders(prog) : ran' = Running(read.v, o)
             /\ phase' = "ran"
             /\ UNCHANGED <<prog, style, read, compiled>>
Build == /\ phase = "ran"
         /\ style \in {"native", "native forward"}
         /\ compiled' = Compiling(Written(prog, style))
         /\ phase' = "compiled"
         /\ UNCHANGED <<prog, style, read, ran>>
Next == ReadText \/ Check \/ Interpret \/ Build
Spec == Init /\ [][Next]_vars

----------------------------------------------------------------------------
(* The text of a program, however it is laid out and whether or not it uses
   macros, is read as the program that was meant: a blank, a comment or a macro
   changes nothing, the tokens are cut where the author cut them, and every
   operator, shifts included, takes the operands that it was written between.
   The forms are those that the parser knows (Writer), some of which SYNTAX.md
   writes otherwise. *)
ReadsAsMeant == [][phase = "text" => read'.ok /\ read'.v = prog]_vars

(* An accepted program does not fail for a reason the checker looks for: an
   operand or an argument of the wrong type, a wrong number of arguments, a
   name or a method that does not exist. *)
StaticErrors == {"CompileError", "TypeError", "NoMethod"}
AcceptedRuns == [][phase = "checked" => ran'.err \notin StaticErrors]_vars

(* The type the checker has found for the expression main returns is the type
   of the value the interpreter computes for it. *)
MainReturn == Last(Last(prog.funcs).body).e
CheckedMain ==
  LET cx == Checker(prog)
      main == cx.fns["main"]
  IN  [cx |-> cx, sc |-> CheckBlock(Front(main.body), cx, <<main.ps[1].x :> Var(T("IOStream"), TRUE, FALSE)>>)]
RECURSIVE HasType(_, _, _)
HasType(v, t, s) ==
  CASE t.k \in {"interface{}", "typevar"} -> TRUE
    [] t.k \in {"nil", "null"} -> v.k = "nil"
    [] t.k = "float" -> IsNumber(v)
    [] t.k = "ptr" -> v.k = "nil" \/ HasType(v, t.e, s)
    [] t.k = "Copyd" -> HasType(IF v.k = "Copyd" THEN v.v ELSE v, t.e, s)
    [] t.k = "List" -> v.k = "List" /\ \A x \in Range(s.heap[v.r].items) : HasType(x, t.e, s)
    [] t.k = "HashTable" -> v.k = "HashTable" /\ \A key \in DOMAIN s.heap[v.r].m : HasType(s.heap[v.r].m[key], t.val, s)
    [] t.k = "struct" -> v.k = "struct" /\ STypeOf(v, s) = t.f
    [] t.k = "interface" -> v.k = "struct"
    [] t.k = "Task" -> v.k = "thread"
    [] OTHER -> v.k = t.k
ResultHasType ==
  [][phase = "checked" /\ ran'.err = "" =>
       LET m == CheckedMain IN HasType(ran'.v, Infer(MainReturn, m.cx, m.sc), ran'.s)]_vars

(* Of the definitions of a name, the checker and the interpreter choose the
   same, whenever there is one whose parameters are of the very types of the
   arguments, all int, float, String or bool. *)
Primitive == {"int", "float", "String", "bool"}
SameChoice(s) ==
    LET m == CheckedMain
        args == InferAll(MainReturn.args, m.cx, m.sc)
        defs == AllDefs(m.cx, MainReturn.f.x)
        exact(f) == /\ Len(f.ps) = Len(args)
                    /\ \A i \in DOMAIN args : args[i].k \in Primitive /\ f.ps[i].t = Nm(args[i].k)
        values == EvalArgs(MainReturn.args, Interp(prog, [i \in DOMAIN prog.impls |-> i]), s)
    IN  Len(defs) > 1 /\ (\E i \in DOMAIN defs : exact(defs[i])) =>
          BestMatchT(defs, args, m.cx) = BestMatchV(defs, values.v)
OverloadsAgree == [][phase = "checked" /\ MainReturn.k = "call" => SameChoice(ran'.s)]_vars

(* Calls that go through a memorize buffer give what the calls alone give, when
   a buffer serves one function and its arguments are ints. *)
RECURSIVE Unsigned(_)
Unsigned(e) ==
  CASE e.k = "call" -> [e EXCEPT !.sign = "", !.args = [i \in DOMAIN @ |-> Unsigned(@[i])]]
    [] e.k = "bin" -> [e EXCEPT !.l = Unsigned(@), !.r = Unsigned(@)]
    [] OTHER -> e
RECURSIVE Bare(_)
Bare(b) ==
  [i \in DOMAIN b |-> CASE b[i].k \in {"return", "expr", "decl", "assign"} -> [b[i] EXCEPT !.e = Unsigned(@)]
                       [] b[i].k = "try" -> [b[i] EXCEPT !.b = Bare(@), !.c = Bare(@)]
                       [] OTHER -> b[i]]
Without(p) == [p EXCEPT !.funcs = [i \in DOMAIN @ |-> [@[i] EXCEPT !.body = Bare(@)]]]
MemorizeTransparent ==
  [][phase = "checked" /\ Without(prog) # prog =>
       LET plain == Running(Without(prog), [i \in DOMAIN prog.impls |-> i])
       IN  plain.err = ran'.err /\ plain.v = ran'.v /\ plain.s.out = ran'.s.out]_vars

(* sum of a linear function a * i + c, or of remainders i % m, is what adding the
   terms one by one gives, although sum has looked at some of them only: the closed
   form has the right number of terms, a chance progression is not taken for one,
   and a period is one.  Of other functions this does not hold. *)
IsLinear(e) == /\ e.k = "bin" /\ e.op = "+" /\ e.r.k = "int"
               /\ e.l.k = "bin" /\ e.l.op = "*" /\ e.l.l.k = "int" /\ e.l.r = Id("i")
IsRemainder(e) == e.k = "bin" /\ e.op = "%" /\ e.l = Id("i") /\ e.r.k = "int"
Summed == {f \in Range(prog.funcs) : /\ MainReturn.args # <<>> /\ MainReturn.args[1] = Id(f.name)
                                     /\ \E b \in Range(f.body) : b.k = "return" /\ (IsLinear(b.e) \/ IsRemainder(b.e))}
OneByOne(f, s) ==
    LET p == Interp(prog, <<>>)
        at(i) == MainReturn.args[i].n
        step == IF Len(MainReturn.args) = 4 THEN at(4) ELSE 1
        terms == {i \in at(2) .. at(3) - 1 : (i - at(2)) % step = 0}
    IN  IntV(Wrap(FoldSet(LAMBDA i, sum : sum + CallFunc(f, <<IntV(i)>>, p, s).v.n, 0, terms)))
SumsAddUp ==
  [][phase = "checked" /\ MainReturn.k = "call" /\ MainReturn.f = Id("sum") =>
       \A f \in Summed : ran'.err = "" /\ ran'.v = OneByOne(f, ran'.s)]_vars

(* A program that the interpreter runs to its end is compiled, prints the same and
   returns the same number: the code generator, whose parser, types and constants
   are its own, means by a program what the interpreter means, as README.md:29
   promises of both.  *)
BackEndsAgree ==
  [][phase = "ran" /\ ran.err = "" => compiled'.k = "ran" /\ compiled'.out = ran.s.out /\ compiled'.v = ran.v]_vars
=============================================================================
