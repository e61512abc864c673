---------------------------- MODULE CompilerParser ----------------------------
(***************************************************************************)
(* The compiler has a parser of its own (compiler/internal/cgen/cgen.go),  *)
(* which reads the text without a lexer and knows a part of the language.  *)
(* Its trees are those of Syntax, except that a call, an index and a       *)
(* method have a name where Syntax has an expression, a type is a name,    *)
(* io.println is a statement, and -x is 0 - x.  The declaration macro      *)
(* without # is left out.                                                  *)
(***************************************************************************)
EXTENDS Macros, Syntax

Method(x, m, args) == [k |-> "method", x |-> x, m |-> m, args |-> args]      \* x.m(args), x.m
Println(args) == [k |-> "println", args |-> args]
(* A function; a method of a struct has the struct's name in self, and me is
   what it calls its receiver. *)
Function(name, self, me, ps, body) == [name |-> name, self |-> self, me |-> me, ps |-> ps, body |-> body]

Here(text, i) == IF i <= Len(text) THEN text[i] ELSE Piece("end", "", 0)
IsWord(text, i) == Here(text, i).c = "word"
Sees(text, i, x) == Here(text, i) = Glyph(x)
Reads(text, i, x) == Here(text, i) = Name(x)

(* Behind blanks, line ends and comments with two slashes; other comments are
   not known here. *)
RECURSIVE Space(_, _)
Space(text, i) ==
  IF Here(text, i).c \in {"blank", "line"} THEN Space(text, i + 1)
  ELSE IF Joined(text, i) = "//" THEN Space(text, LineEndFrom(text, i))
  ELSE i

(* r followed by the mark x. *)
Closed(text, r, x) ==
  IF ~r.ok THEN Wrong
  ELSE LET i == Space(text, r.i) IN IF Sees(text, i, x) THEN Got(r.v, i + 1) ELSE Wrong
NextMark(text, from, x) ==
  LET at == {i \in from .. Len(text) : Sees(text, i, x)} IN IF at = {} THEN Len(text) + 1 ELSE Min(at)

----------------------------------------------------------------------------
(* Expressions.                                                             *)

(* From the operators that bind least; shifts bind like * and /. *)
OperatorLevels == <<{"||"}, {"&&"}, {"==", "!=", "<", "<=", ">", ">="}, {"+", "-"}, {"<<", ">>", "*", "/", "%"}>>
Operator(text, i) ==
  IF Joined(text, i) \in Pairs THEN Joined(text, i) ELSE IF Here(text, i).c = "glyph" THEN text[i].x ELSE ""

RECURSIVE OnLevel(_, _, _), Further(_, _, _), Simplest(_, _), Items(_, _, _), Named(_, _, _)
Expression(text, i) == OnLevel(text, i, 1)
OnLevel(text, i, l) ==
  IF l > Len(OperatorLevels) THEN Simplest(text, Space(text, i)) ELSE Further(text, OnLevel(text, i, l + 1), l)
Further(text, left, l) ==
  IF ~left.ok THEN Wrong
  ELSE LET i == Space(text, left.i)
           op == Operator(text, i)
       IN  IF op \notin OperatorLevels[l] THEN Got(left.v, i)
           ELSE Then(OnLevel(text, i + Len(op), l + 1), LAMBDA right, j : Further(text, Got(Bin(op, left.v, right), j), l))

(* Expressions up to a bracket, with commas between them or without. *)
Items(text, from, end) ==
  LET i == Space(text, from) IN
  IF Sees(text, i, end) THEN Got(<<>>, i + 1)
  ELSE Then(Expression(text, i), LAMBDA e, j :
         Then(Items(text, IF Sees(text, j, ",") THEN j + 1 ELSE j, end), LAMBDA more, n : Got(<<e>> \o more, n)))

(* What starts with the name x, which ends before i: a call, also with types
   f<T>(..), an item of a list, a method or field, or the variable.  To find the
   types of a call, < after a name is paired with the next >, wherever it is. *)
Named(text, x, i) ==
  LET at == Space(text, i)
      behind == Space(text, NextMark(text, at, ">") + 1)
      m == Here(text, at + 1).x
      open == Space(text, at + 2)
  IN CASE Sees(text, at, "(") ->
            Then(Items(text, at + 1, ")"), LAMBDA args, j :
              IF Sees(text, Space(text, j), "@") THEN Wrong ELSE Got(Call(x, args), j))
       [] Sees(text, at, "<") /\ Sees(text, behind, "(") ->
            Then(Items(text, behind + 1, ")"), LAMBDA args, j : Got(Call(x, args), j))
       [] Sees(text, at, "[") ->
            Then(Closed(text, Expression(text, at + 1), "]"), LAMBDA e, j : Got(Idx(x, e), j))
       [] Sees(text, at, ".") ->
            IF ~IsWord(text, at + 1) THEN Wrong
            ELSE IF Sees(text, open, "(") THEN Then(Items(text, open + 1, ")"), LAMBDA args, j : Got(Method(x, m, args), j))
            ELSE Got(Method(x, m, <<>>), open)
       [] OTHER -> Got(Id(x), i)

Simplest(text, i) ==
  LET p == Here(text, i) IN
  CASE p.c = "int" -> Got(Num(p.n), i + 1)
    [] p.c = "str" -> Got(Text(p.x), i + 1)
    [] p.c = "word" -> IF p.x \in {"true", "false"} THEN Got(Flag(p.x = "true"), i + 1) ELSE Named(text, p.x, i + 1)
    [] p = Glyph(".") -> IF Sees(text, i + 1, "{") THEN Then(Items(text, i + 2, "}"), LAMBDA vs, j : Got(Lit(vs), j)) ELSE Wrong
    [] p = Glyph("-") -> Then(Simplest(text, Space(text, i + 1)), LAMBDA e, j : Got(Bin("-", Num(0), e), j))
    [] p = Glyph("!") -> Then(Simplest(text, Space(text, i + 1)), LAMBDA e, j : Got(Un("!", e), j))
    [] p = Glyph("(") -> Closed(text, Expression(text, i + 1), ")")
    [] p = Glyph("[") -> Then(Items(text, i + 1, "]"), LAMBDA items, j : Got(Lst(items), j))
    [] OTHER -> Wrong

----------------------------------------------------------------------------
(* Statements.  A statement that is read and forgotten is an empty sequence. *)

(* A word, or List<..>, whose items are taken to be ints. *)
TypeName(text, i) ==
  IF ~IsWord(text, i) THEN Got("", i)
  ELSE IF Reads(text, i, "List") /\ Sees(text, i + 1, "<") THEN Got("List<int>", NextMark(text, i, ">") + 1)
  ELSE Got(text[i].x, i + 1)

One(r, F(_)) == Then(r, LAMBDA v, i : Got(<<F(v)>>, i))
Condition(text, i) == IF Sees(text, i, "(") THEN Closed(text, Expression(text, i + 1), ")") ELSE Wrong
RECURSIVE Printed(_, _)
Printed(text, i) ==
  Then(Expression(text, i), LAMBDA e, j :
    IF Sees(text, j, ",") THEN Then(Printed(text, j + 1), LAMBDA more, n : Got(<<e>> \o more, n))
    ELSE IF Sees(text, j, ")") THEN Got(<<e>>, j + 1) ELSE Wrong)
(* io.println(..); io.print(..) is read and forgotten. *)
Output(text, i) ==
  LET m == Here(text, i + 1)
      open == Space(text, i + 2)
      first == Space(text, open + 1)
  IN  IF ~Sees(text, i, ".") \/ m \notin {Name("println"), Name("print")} \/ ~Sees(text, open, "(") THEN Wrong
      ELSE Then(Closed(text, IF Sees(text, first, ")") THEN Got(<<>>, first + 1) ELSE Printed(text, first), ";"),
                LAMBDA args, j : Got(IF m.x = "println" THEN <<Println(args)>> ELSE <<>>, j))

(* name = e; name Type = e; name[i] = e; e; *)
Plain(text, start) ==
  LET x == text[start].x
      i == Space(text, start + 1)
      value(j) == Closed(text, Expression(text, j), ";")
  IN  IF Sees(text, i, "=") THEN One(value(i + 1), LAMBDA e : Assign(Id(x), e))
      ELSE IF IsWord(text, i)
        THEN Then(TypeName(text, i), LAMBDA t, j :
               IF Sees(text, Space(text, j), "=") THEN One(value(Space(text, j) + 1), LAMBDA e : Decl(x, t, e, ""))
               ELSE Wrong)
      ELSE Then(Expression(text, start), LAMBDA e, j :
             IF Sees(text, j, "=") /\ e.k = "idx" THEN One(value(j + 1), LAMBDA v : Assign(e, v))
             ELSE IF Sees(text, j, ";") THEN Got(<<Do(e)>>, j + 1) ELSE Wrong)

RECURSIVE Statement(_, _), Statements(_, _)
Braced(text, i) ==
  LET open == Space(text, i) IN IF Sees(text, open, "{") THEN Statements(text, open + 1) ELSE Wrong
Statements(text, from) ==
  LET i == Space(text, from) IN
  IF Sees(text, i, "}") THEN Got(<<>>, i + 1)
  ELSE Then(Statement(text, i), LAMBDA st, j : Then(Statements(text, j), LAMBDA more, n : Got(st \o more, n)))

(* (e Type) behind catch, if it is there: its name is forgotten. *)
CatchName(text, i) ==
  LET t == Space(text, i + 2)
      end == Space(text, t + 1)
  IN  IF ~Sees(text, i, "(") THEN Got("", i)
      ELSE IF IsWord(text, i + 1) /\ IsWord(text, t) /\ Sees(text, end, ")") THEN Got("", end + 1) ELSE Wrong
TryStatement(text, i) ==
  Then(Braced(text, i), LAMBDA b, j :
    IF ~Reads(text, Space(text, j), "catch") THEN Got(<<Try(b, "", "", <<>>)>>, Space(text, j))
    ELSE Then(CatchName(text, Space(text, Space(text, j) + 1)), LAMBDA x, n :
           One(Braced(text, n), LAMBDA c : Try(b, "", "", c))))
IfStatement(text, i) ==
  Then(Condition(text, i), LAMBDA c, j : Then(Braced(text, j), LAMBDA a, n :
    IF Reads(text, Space(text, n), "else") THEN One(Braced(text, Space(text, n) + 1), LAMBDA b : If(c, a, b))
    ELSE Got(<<If(c, a, <<>>)>>, Space(text, n))))

Statement(text, start) ==
  LET first == Here(text, start)
      i == Space(text, start + 1)
  IN CASE first.c # "word" -> Wrong
       [] first = Name("try") -> TryStatement(text, i)
       [] first \in {Name("delete"), Name("clear"), Name("compact")} ->
            IF IsWord(text, i) THEN One(Closed(text, Got(text[i].x, i + 1), ";"), Delete) ELSE Wrong
       [] first = Name("return") -> One(Closed(text, Expression(text, i), ";"), Ret)
       [] first = Name("io") -> Output(text, i)
       [] first = Name("if") -> IfStatement(text, i)
       [] first = Name("while") ->
            Then(Condition(text, i), LAMBDA c, j : One(Braced(text, j), LAMBDA b : While(c, b)))
       [] OTHER -> Plain(text, start)

----------------------------------------------------------------------------
(* Declarations.                                                            *)

RECURSIVE FieldNames(_, _), ParamNames(_, _), MethodParams(_, _), MethodsIn(_, _, _), DeclarationsFrom(_, _, _)
FieldNames(text, from) ==
  LET i == Space(text, from) IN
  IF Sees(text, i, "}") THEN Got(<<>>, i + 1)
  ELSE IF ~IsWord(text, i) THEN Wrong
  ELSE Then(Closed(text, TypeName(text, Space(text, i + 1)), ";"), LAMBDA t, j :
         Then(FieldNames(text, j), LAMBDA more, n : Got(<<text[i].x>> \o more, n)))
(* Parameters of a function; the type is one word, and is forgotten. *)
ParamNames(text, from) ==
  LET i == Space(text, from)
      t == Space(text, i + 1)
      behind == IF IsWord(text, t) THEN Space(text, t + 1) ELSE t
  IN  IF Sees(text, i, ")") THEN Got(<<>>, i + 1)
      ELSE IF ~IsWord(text, i) THEN Wrong
      ELSE Then(ParamNames(text, IF Sees(text, behind, ",") THEN behind + 1 ELSE behind), LAMBDA more, n :
             Got(<<text[i].x>> \o more, n))
(* Those of a method, behind the receiver. *)
MethodParams(text, from) ==
  LET i == Space(text, from)
      x == IF Sees(text, i, ",") THEN Space(text, i + 1) ELSE i
  IN  IF Sees(text, i, ")") THEN Got(<<>>, i + 1)
      ELSE IF ~IsWord(text, x) THEN Wrong
      ELSE Then(TypeName(text, Space(text, x + 1)), LAMBDA t, j :
             Then(MethodParams(text, j), LAMBDA more, n : Got(<<text[x].x>> \o more, n)))

(* The body behind a result type, which is forgotten. *)
BodyOf(text, from) ==
  LET i == Space(text, from) IN Braced(text, IF IsWord(text, i) THEN i + 1 ELSE i)
MethodDecl(text, from, type) ==
  LET i == Space(text, from)
      open == Space(text, i + 1)
      me == Space(text, open + 1)
  IN  IF ~IsWord(text, i) \/ ~Sees(text, open, "(") \/ ~IsWord(text, me) THEN Wrong
      ELSE Then(TypeName(text, Space(text, me + 1)), LAMBDA t, j : Then(MethodParams(text, j), LAMBDA ps, n :
             Then(BodyOf(text, n), LAMBDA body, m :
               Got(Function(type \o "_" \o text[i].x, type, text[me].x, ps, body), m))))
(* What is not a method is skipped, character by character. *)
MethodsIn(text, from, type) ==
  LET i == Space(text, from) IN
  IF i > Len(text) \/ Sees(text, i, "}") THEN Got(<<>>, i + 1)
  ELSE IF Reads(text, i, "fn")
    THEN Then(MethodDecl(text, i + 1, type), LAMBDA f, j :
           Then(MethodsIn(text, j, type), LAMBDA more, n : Got(<<f>> \o more, n)))
  ELSE MethodsIn(text, i + 1, type)
FunctionDecl(text, from) ==
  LET i == Space(text, from)
      generic == Space(text, i + 1)
      open == IF Sees(text, generic, "<") THEN Space(text, NextMark(text, generic, ">") + 1) ELSE generic
  IN  IF ~IsWord(text, i) THEN Wrong
      ELSE Then(IF Sees(text, open, "(") THEN ParamNames(text, open + 1) ELSE Got(<<>>, open), LAMBDA ps, j :
             Then(BodyOf(text, j), LAMBDA body, n : Got(Function(text[i].x, "", "", ps, body), n)))

(* The declarations from i on, added to p. *)
DeclarationsFrom(text, from, p) ==
  LET start == Space(text, from)
      i == Space(text, start + 1)
      open == Space(text, i + 1)
      add(r, part, F(_)) == Then(r, LAMBDA v, j : DeclarationsFrom(text, j, [p EXCEPT ![part] = @ \o F(v)]))
  IN CASE start > Len(text) -> Got(p, start)
       [] Reads(text, start, "type") ->
            IF ~IsWord(text, i) \/ ~Sees(text, open, "{") THEN Wrong
            ELSE Then(FieldNames(text, open + 1), LAMBDA fields, j :
                   LET x == Space(text, j) IN
                   add(IF IsWord(text, x) THEN Closed(text, Got(text[x].x, x + 1), ";") ELSE Wrong,
                       "structs", LAMBDA name : <<[name |-> name, fields |-> fields]>>))
       [] Here(text, start) \in {Name("program"), Name("library"), Name("lib")} ->
            add(Closed(text, Got("", IF IsWord(text, i) THEN i + 1 ELSE i), ";"), "structs", LAMBDA v : <<>>)
       [] Reads(text, start, "impl") ->
            IF ~IsWord(text, i) \/ ~Sees(text, open, "{") THEN Wrong
            ELSE add(MethodsIn(text, open + 1, text[i].x), "funcs", LAMBDA fs : fs)
       [] Reads(text, start, "fn") -> add(FunctionDecl(text, start + 1), "funcs", LAMBDA f : <<f>>)
       [] OTHER -> Wrong

(* The driver has macros expanded first (compiler/macros.go): a text that has
   some is lexed, and the tokens are written out again.  If a step fails, the text
   stays as it is. *)
Source(text) ==
  LET some == \E i \in 1 .. Len(text) - 1 : text[i] = Glyph("#") /\ text[i + 1] = Name("macro")
      toks == Lex(text)
      defs == SplitMacroDefs(toks)
      q == ExpandMacros(defs.rest, defs.macros, "compile")
  IN  IF ~some \/ toks = NoTokens THEN text
      ELSE IF ~defs.ok THEN text
      ELSE IF defs.macros = <<>> \/ ~q.ok THEN text ELSE JoinTokens(q.out)
ParseSource(text) == DeclarationsFrom(Source(text), 1, [funcs |-> <<>>, structs |-> <<>>])
=============================================================================
