-------------------------------- MODULE Writer -------------------------------
(***************************************************************************)
(* How an author who knows the language writes a program down: the text of *)
(* a syntax tree, as the programs and tests of the repository write it.    *)
(* This is the environment of the interpreter, not a part of it.           *)
(* Parentheses are put only where the operators need them: shifts bind     *)
(* tighter than sums and looser than products.                             *)
(***************************************************************************)
EXTENDS Lexer, Syntax

Sign(x) == <<Glyph(x)>>                                    \* one mark
Spaced(x) == <<Blank>> \o x \o <<Blank>>
Mark(x) == IF x \in Pairs THEN <<Piece("glyph", SubSeq(x, 1, 1), 0), Piece("glyph", SubSeq(x, 2, 2), 0)>> ELSE Sign(x)
Word_(x) == <<Name(x), Blank>>
Between(left, parts, right) ==
  Sign(left) \o Concat([i \in DOMAIN parts |-> IF i = 1 THEN parts[i] ELSE Sign(",") \o parts[i]]) \o Sign(right)
All(parts, F(_)) == Concat([i \in DOMAIN parts |-> F(parts[i])])

RECURSIVE TypeText(_)
TypeText(t) ==
  CASE t.k = "name" -> <<Name(t.b)>>
    [] t.k = "ref" -> TypeText(t.t) \o Sign("&")
    [] t.k = "suffix" -> <<Name(t.b)>> \o Sign("[") \o (IF t.s = "" THEN <<>> ELSE <<Name(t.s)>>) \o Sign("]")
    [] t.k = "app" -> <<Name(t.b)>> \o Between("<", [i \in DOMAIN t.args |-> TypeText(t.args[i])], ">")

Binds == [or |-> 1, and |-> 2, cmp |-> 3, add |-> 4, shift |-> 5, mul |-> 6, un |-> 7, post |-> 8]
OpClass(op) == CASE op = "||" -> "or" [] op = "&&" -> "and" [] op \in {"+", "-"} -> "add"
                 [] op \in {"<<", ">>"} -> "shift" [] op \in {"*", "/", "%"} -> "mul" [] OTHER -> "cmp"
Class(e) == IF e.k = "bin" THEN OpClass(e.op) ELSE IF e.k = "un" THEN "un" ELSE "post"

RECURSIVE ExprText(_, _)
ArgsText(args) == Between("(", [i \in DOMAIN args |-> ExprText(args[i], 1)], ")")
BareText(e) ==
  CASE e.k = "int" -> <<Number(e.n)>>
    [] e.k = "float" -> <<Real(e.n)>>
    [] e.k = "str" -> <<Quoted(e.s)>>
    [] e.k = "bool" -> <<Name(IF e.b THEN "true" ELSE "false")>>
    [] e.k = "null" -> <<Name("null")>>
    [] e.k = "id" -> <<Name(e.x)>>
    [] e.k = "list" -> Between("[", [i \in DOMAIN e.items |-> ExprText(e.items[i], 1)], "]")
    [] e.k = "lit" -> Sign(".") \o Between("{", [i \in DOMAIN e.fields |->
                        (IF e.fields[i][1] = "" THEN <<>> ELSE <<Name(e.fields[i][1])>> \o Sign(":"))
                        \o ExprText(e.fields[i][2], 1)], "}")
    [] e.k = "new" -> Word_("new") \o TypeText(e.t)
                      \o (IF e.size = None THEN <<>> ELSE Sign("[") \o ExprText(e.size, 1) \o Sign("]"))
    [] e.k = "un" -> Sign(e.op) \o ExprText(e.e, Binds.un)
    [] e.k = "bin" ->
         LET l == Binds[OpClass(e.op)] IN ExprText(e.l, l) \o Spaced(Mark(e.op)) \o ExprText(e.r, l + 1)
    [] e.k = "call" -> ExprText(e.f, Binds.post) \o ArgsText(e.args)
                       \o (IF e.sign = "" THEN <<>> ELSE Spaced(Sign("@")) \o <<Name(e.sign)>> \o ArgsText(<<>>))
    [] e.k = "mem" -> ExprText(e.e, Binds.post) \o Sign(".") \o <<Name(e.x)>>
    [] e.k = "scope" -> <<Name(e.s)>> \o Mark("::") \o <<Name(e.x)>> \o ArgsText(e.args)
    [] e.k = "idx" -> ExprText(e.e, Binds.post) \o Sign("[") \o ExprText(e.i, 1) \o Sign("]")
ExprText(e, l) ==
  IF Binds[Class(e)] < l THEN Sign("(") \o BareText(e) \o Sign(")") ELSE BareText(e)

TypeFirst == {Nm("float"), Nm("bool"), App("HashTable", <<Nm("String"), Nm("int")>>)}      \* the others are written behind the name
RECURSIVE BlockText(_), StmtText(_)
StmtText(s) ==
  CASE s.k = "expr" -> ExprText(s.e, 1) \o Sign(";")
    [] s.k = "log" -> Word_("log") \o ExprText(s.e, 1) \o Sign(";")
    [] s.k = "delete" -> Word_("delete") \o ExprText(s.e, 1) \o Sign(";")
    [] s.k = "break" -> <<Name("break")>> \o Sign(";")
    [] s.k = "try" -> Word_("try") \o BlockText(s.b) \o Word_("catch") \o Sign("(") \o Word_(s.x) \o TypeText(s.t)
                      \o Sign(")") \o BlockText(s.c)
    [] s.k = "return" -> Word_("return") \o (IF s.e = None THEN <<>> ELSE ExprText(s.e, 1)) \o Sign(";")
    [] s.k = "if" -> Word_("if") \o Sign("(") \o ExprText(s.c, 1) \o Sign(")") \o BlockText(s.a)
                     \o (IF s.b = <<>> THEN <<>>
                         ELSE IF Len(s.b) = 1 /\ s.b[1].k = "if" THEN Word_("else") \o StmtText(s.b[1])
                         ELSE Word_("else") \o BlockText(s.b))
    [] s.k = "while" -> Word_("while") \o Sign("(") \o ExprText(s.c, 1) \o Sign(")") \o BlockText(s.b)
    [] s.k = "for" -> Word_("for") \o Sign("(") \o <<Name(s.x)>> \o Spaced(Sign(":")) \o ExprText(s.e, 1)
                      \o Sign(")") \o BlockText(s.b)
    [] s.k = "decl" -> (IF s.decor # "" THEN Word_(s.decor) \o TypeText(s.t) \o <<Blank, Name(s.x)>>
                        ELSE IF s.t \in TypeFirst THEN TypeText(s.t) \o <<Blank, Name(s.x)>>
                        ELSE Word_(s.x) \o (IF s.t.k = "ref" THEN Word_("pointer") \o TypeText(s.t.t) ELSE TypeText(s.t)))
                       \o (IF s.e = None THEN <<>> ELSE Spaced(Sign("=")) \o ExprText(s.e, 1)) \o Sign(";")
    [] s.k = "assign" -> ExprText(s.to, 1) \o Spaced(Sign("=")) \o ExprText(s.e, 1) \o Sign(";")
StmtsText(b) == All(b, StmtText)
BlockText(b) == Sign("{") \o StmtsText(b) \o Sign("}")

TypeParamsText(tps) == IF tps = <<>> THEN <<>> ELSE Between("<", [i \in DOMAIN tps |-> <<Name(tps[i])>>], ">")
ParamsText(ps) ==
  Between("(", [i \in DOMAIN ps |-> IF ps[i].t = None THEN <<Name(ps[i].x)>> ELSE Word_(ps[i].x) \o TypeText(ps[i].t)], ")")
HeadText(f) == Word_("fn") \o TypeParamsText(f.tps) \o <<Blank, Name(f.name)>> \o ParamsText(f.ps)
               \o (IF f.ret = None THEN <<>> ELSE <<Blank>> \o TypeText(f.ret))
FuncText(f) == HeadText(f) \o BlockText(f.body)
SigText(m) ==
  LET ps == [i \in 1 .. m.n |-> Param(IF i = 1 /\ m.self THEN "self" ELSE "p", IF i = 1 /\ m.self THEN None ELSE Nm("any"))]
  IN  HeadText([name |-> m.name, tps |-> <<>>, ps |-> ps, ret |-> m.ret]) \o Sign(";")
StructText(d) ==
  <<Name("struct")>> \o TypeParamsText(d.tps) \o Sign("{")
  \o All(d.fields, LAMBDA p : Word_(p.x) \o TypeText(p.t) \o Sign(";")) \o Sign("}") \o Sign("(")
  \o <<Name(d.name)>> \o Sign(")") \o Sign(";")
IfaceText(d) ==
  <<Name("interface")>> \o Sign("{") \o All(d.ms, SigText)
  \o All(d.expands, LAMBDA x : Word_("expand") \o Word_("interface") \o <<Name(x)>> \o Sign(";"))
  \o Sign("}") \o <<Name(d.name)>> \o Sign(";")
ImplText(d) ==
  LET methods == Sign("{") \o All(d.ms, FuncText) \o Sign("}") IN
  IF d.iface # "" THEN Word_("impl") \o TypeParamsText(d.tps) \o <<Name(d.type), Blank, Name(d.iface)>> \o methods
  ELSE IF d.tps # <<>>
    THEN <<Name("space")>> \o methods \o Sign("(") \o <<Name(d.type)>> \o TypeParamsText(d.tps) \o Sign(")") \o Sign(";")
  ELSE <<Name("impl")>> \o methods \o <<Name(d.type)>> \o Sign(";")
LibText(d) ==
  Word_("library") \o <<Name(d.name)>> \o Sign("{") \o All(d.ms, LAMBDA f : HeadText(f) \o Sign(";")) \o Sign("}")
AliasesText(p) ==
  All(SetToSeq(DOMAIN p.aliases),
      LAMBDA x : Word_("type") \o TypeText(p.aliases[x]) \o <<Blank, Name(x)>> \o Sign(";"))

(* The forms of declarations that the compiler knows too. *)
NativeText(p) ==
  All(p.structs, LAMBDA d : Word_("type") \o <<Name("struct")>> \o Sign("{")
                            \o All(d.fields, LAMBDA f : Word_(f.x) \o TypeText(f.t) \o Sign(";")) \o Sign("}")
                            \o <<Name(d.name)>> \o Sign(";"))
  \o All(p.impls, LAMBDA d : Word_("impl") \o <<Name(d.type)>> \o Sign("{") \o All(d.ms, FuncText) \o Sign("}"))
  \o All(p.funcs, FuncText)

(* The text of a program whose functions are written by F. *)
TextWith(p, F(_)) ==
  LET Public(d, text) == IF d.name \in p.pub THEN Word_("pub") \o text ELSE text IN
  (IF p.kind = "" THEN <<>> ELSE Word_("program") \o <<Name(p.kind)>> \o Sign(";"))
  \o All(p.imports, LAMBDA x : Word_("import") \o <<Quoted(x)>> \o Sign(";"))
  \o AliasesText(p) \o All(p.structs, LAMBDA d : Public(d, StructText(d))) \o All(p.ifaces, IfaceText) \o All(p.impls, ImplText)
  \o All(p.libs, LibText) \o All(p.funcs, LAMBDA f : Public(f, F(f)))

(* Ways of writing one program, some for the compiler too, with comments and with macros.  The last statement
   of main is a return. *)
Command(x) == Sign("#") \o <<Name(x)>>
Define(name, params, body) ==
  Command("macro") \o <<Blank, Name(name)>> \o params \o Sign("{") \o body \o Sign("}")
When(mode, body) == Command("when") \o Sign("(") \o <<Name(mode)>> \o Sign(")") \o Sign("{") \o body \o Sign("}")
Refuse == Command("error") \o Sign("(") \o <<Quoted("never")>> \o Sign(")")
Insert == Command("insert") \o Sign("(") \o Command("ast") \o Sign("(") \o Sign(".") \o Sign(".") \o Sign(".")
          \o Sign(")") \o Sign(")")

(* A comment for every blank, and one behind every semicolon. *)
Commented(text) ==
  LET Star == Sign("*")
      Slash == Sign("/")
  IN  Concat([i \in DOMAIN text |->
        CASE text[i] = Blank -> <<Blank>> \o Slash \o Star \o <<Name("return"), LineEnd>> \o Slash \o Star \o Star \o Slash
          [] text[i] = Glyph(";") -> <<text[i]>> \o Slash \o Slash \o Slash \o Star \o Sign("|") \o <<LineEnd>>
          [] OTHER -> <<text[i]>>])

Styles(p) ==
  {"plain", "commented", "block", "last"} \cup IF Last(Last(p.funcs).body).e.k = "call" THEN {"forward"} ELSE {}
NativeStyles(p) ==
  LET e == Last(Last(p.funcs).body).e IN
  {"native"} \cup IF e.k = "call" /\ e.f.k = "id" /\ p.structs = <<>> /\ p.impls = <<>> THEN {"native forward"} ELSE {}
Written(p, style) ==
  LET body == Last(p.funcs).body
      e == Last(body).e
      With(def, text) ==
        def \o TextWith(p, LAMBDA f : IF f.name = "main" THEN HeadText(f) \o Sign("{") \o text \o Sign("}") ELSE FuncText(f))
  IN CASE style = "plain" -> TextWith(p, FuncText)
       [] style = "commented" -> Commented(TextWith(p, FuncText))
       [] style = "block" ->
            With(Define("body", Between("(", <<>>, ")"),
                        When("compile", StmtText(Ret(Null))) \o When("run", StmtsText(body))),
                 <<Name("body")>> \o ArgsText(<<>>))
       [] style = "last" ->
            With(Define("give", Between("[", <<<<Name("x")>>>>, "]"),
                        When("run", Command("return") \o <<Blank>> \o StmtText(Ret(Id("x")))) \o Refuse),
                 StmtsText(Front(body)) \o <<Name("give")>> \o Between("{", <<ExprText(e, 1)>>, "}"))
       [] style = "native" -> NativeText(p)
       [] style \in {"forward", "native forward"} ->
            With(Define("pass", Between("{", [i \in DOMAIN e.args |-> <<Name("x" \o ToString(i))>>], "}"),
                        ExprText(e.f, Binds.post) \o Sign("(") \o Insert \o Sign(")")),
                 StmtsText(Front(body)) \o StmtText(Ret(Call(Id("pass"), e.args))))
=============================================================================
