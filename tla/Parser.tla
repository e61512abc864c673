-------------------------------- MODULE Parser -------------------------------
(***************************************************************************)
(* The recursive-descent parser of internal/lang/parser.go.  q is the      *)
(* sequence of tokens and i a position in it; a parsing operator yields    *)
(* the tree it has read and the position behind it, or Wrong.              *)
(***************************************************************************)
EXTENDS Macros, Syntax

Expect(q, i, k) == IF q[i].k = k THEN Got(q[i].x, i + 1) ELSE Wrong
ExpectIdent(q, i) == Expect(q, i, "ident")
Ended(q, r, k) == IF r.ok /\ q[r.i].k = k THEN Got(r.v, r.i + 1) ELSE Wrong
Says(q, i, x) == q[i].k = "ident" /\ q[i].x = x

(* A member may be called like some of the keywords: those from fn to false in
   the list of token kinds; log, null, try, catch and macro stand behind them. *)
MemberName(q, i) ==
  IF q[i].k \in {"ident"} \cup (Keywords \ {"log", "null", "try", "catch", "macro"}) THEN Got(q[i].x, i + 1) ELSE Wrong

(* Names between commas, up to the bracket that ends them. *)
RECURSIVE Names(_, _, _)
Names(q, i, end) ==
  Then(ExpectIdent(q, i), LAMBDA x, j :
    IF q[j].k = "," THEN Then(Names(q, j + 1, end), LAMBDA more, n : Got(<<x>> \o more, n))
    ELSE Then(Expect(q, j, end), LAMBDA mark, n : Got(<<x>>, n)))
TypeParams(q, i) == IF q[i].k = "<" THEN Names(q, i + 1, ">") ELSE Got(<<>>, i)

----------------------------------------------------------------------------
(* Types.  The parser keeps the text of a type; Term is what the text says.   *)

BuiltinTypeNames ==
  {"int", "float", "bool", "String", "void", "List", "HashTable", "Channel", "thread", "Task",
   "memorize", "memory", "IOStream", "Copyd", "istream", "ostream", "ifstream", "ofstream",
   "iofstream", "InputStream", "OutputStream"}

\* Mutant: >> closes one.
AngleOnce(k, twice) == CASE k = "<" -> 1 [] k \in {">", ">>"} -> -1 [] OTHER -> 0
Angle(k, twice) == CASE k = "<" -> 1 [] k = ">" -> -1 [] k = ">>" -> -twice [] OTHER -> 0

(* The end of <...>, and 0 if there is none.  >> closes two, except in the
   arguments of a function type (twice = 0). *)
RECURSIVE ArgsEnd(_, _, _, _)
ArgsEnd(q, i, depth, twice) ==
  IF depth <= 0 /\ q[i].k # "<" THEN i
  ELSE IF q[i].k = "eof" THEN 0
  ELSE LET open == IF depth < 0 THEN 0 ELSE depth
       IN  ArgsEnd(q, i + 1, open + Angle(q[i].k, twice), twice)

(* The text, as its words and marks: words with nothing between them are one. *)
Marks == {"<", ">", ",", "[", "]", "&", "{", "}"}
RECURSIVE TextOf(_)
TextOf(toks) ==
  LET n == Len(toks)
      rest == TextOf(SubSeq(toks, 2, n))
      x == toks[1].x
  IN  IF n = 0 THEN <<>>
      ELSE IF x = ">>" THEN <<">", ">">> \o rest
      ELSE IF n > 1 /\ x \notin Marks /\ rest[1] \notin Marks THEN <<x \o rest[1]>> \o Tail(rest)
      ELSE <<x>> \o rest
RECURSIVE Parts(_, _, _)                       \* between the commas outside <>
Parts(text, i, depth) ==
  IF i > Len(text) THEN <<text>>
  ELSE IF text[i] = "," /\ depth = 0
    THEN <<SubSeq(text, 1, i - 1)>> \o Parts(SubSeq(text, i + 1, Len(text)), 1, 0)
  ELSE Parts(text, i + 1, depth + CASE text[i] = "<" -> 1 [] text[i] = ">" -> -1 [] OTHER -> 0)
RECURSIVE Term(_)
Term(text) ==
  LET inner == SubSeq(text, 3, Len(text) - 1)
      parts == Parts(inner, 1, 0)
  IN  IF text = <<"interface", "{", "}">> THEN Nm("any")
      ELSE IF Last(text) = "&" THEN Ref(Term(Front(text)))
      ELSE IF Len(text) = 1 THEN Nm(text[1])
      ELSE IF text[2] = "<"
        THEN App(text[1], IF inner = <<>> THEN <<>> ELSE [n \in DOMAIN parts |-> Term(parts[n])])
      ELSE Suffixed(text[1], IF Len(text) = 3 THEN "" ELSE text[3])

RECURSIVE ParseType(_, _)
ParseType(q, i) ==
  LET x == q[i].x
      end == ArgsEnd(q, i + 1, 0, IF x = "function" THEN 0 ELSE 2)
      base == TextOf(SubSeq(q, i, end - 1))
      \* [Copyd] and []; a number after [ is the size of a new
      suffix == q[end].k = "[" /\ q[end + 1].k \notin {"int", "-"}
      bare == end = i + 1
      n == IF ~suffix THEN end ELSE IF q[end + 1].k = "]" THEN end + 2 ELSE end + 3
      typed == IF suffix /\ bare THEN Suffixed(x, IF n = end + 2 THEN "" ELSE q[end + 1].x) ELSE Term(base)
  IN  IF q[i].k = "interface"
        THEN IF q[i + 1].k = "{" /\ q[i + 2].k = "}" THEN Got(Nm("any"), i + 3) ELSE Wrong
      ELSE IF q[i].k # "ident" THEN Wrong
      ELSE IF x = "pointer" THEN Then(ParseType(q, i + 1), LAMBDA t, j : Got(Ref(t), j))
      ELSE IF end = 0 THEN Wrong
      ELSE IF x = "function" /\ ~bare THEN Got(Term(base), end)
      ELSE IF suffix /\ n = end + 3 /\ (q[end + 1].k # "ident" \/ q[end + 2].k # "]") THEN Wrong
      ELSE IF q[n].k = "&" THEN Got(Ref(typed), n + 1) ELSE Got(typed, n)

(* A result type, where one may be missing. *)
ResultType(q, i) == IF q[i].k \in {"ident", "interface"} THEN ParseType(q, i) ELSE Got(None, i)

RECURSIVE Params(_, _)
Params(q, i) ==
  IF q[i].k = ")" THEN Got(<<>>, i + 1)
  ELSE Then(ExpectIdent(q, i), LAMBDA x, j :
         Then(IF q[j].k \in {",", ")"} THEN Got(None, j) ELSE ParseType(q, j), LAMBDA t, n :
           IF q[n].k = "," /\ q[n + 1].k # ")"
             THEN Then(Params(q, n + 1), LAMBDA more, m : Got(<<Param(x, t)>> \o more, m))
           ELSE Then(Expect(q, n, ")"), LAMBDA mark, m : Got(<<Param(x, t)>>, m))))

----------------------------------------------------------------------------
(* Expressions.                                                             *)

\* Mutant: shifts bind like products.
LevelsJoined == <<{"||"}, {"&&"}, {"==", "!=", "<", "<=", ">", ">="}, {"+", "-"}, {"<<", ">>", "*", "/", "%"}>>

(* The binary operators, from those that bind least.  Shifts bind tighter
   than + and -. *)
Levels == <<{"||"}, {"&&"}, {"==", "!=", "<", "<=", ">", ">="}, {"+", "-"}, {"<<", ">>"}, {"*", "/", "%"}>>

RECURSIVE Level(_, _, _), Chain(_, _, _), Unary(_, _), Postfix(_, _), Primary(_, _), Exprs(_, _, _), Fields(_, _)
ParseExpr(q, i) == Level(q, i, 1)
Level(q, i, l) == IF l > Len(Levels) THEN Unary(q, i) ELSE Chain(q, Level(q, i, l + 1), l)
Chain(q, left, l) ==
  IF ~left.ok \/ q[left.i].k \notin Levels[l] THEN left
  ELSE LET right == Level(q, left.i + 1, l + 1)
       IN  IF right.ok THEN Chain(q, Got(Bin(q[left.i].x, left.v, right.v), right.i), l) ELSE Wrong

Unary(q, i) ==
  IF q[i].k \in {"!", "-", "*"} THEN Then(Unary(q, i + 1), LAMBDA e, j : Got(Un(q[i].x, e), j))
  ELSE Postfix(q, Primary(q, i))

(* Expressions between commas, up to the bracket that ends them. *)
Exprs(q, i, end) ==
  Then(ParseExpr(q, i), LAMBDA e, j :
    IF q[j].k = "," THEN Then(Exprs(q, j + 1, end), LAMBDA more, n : Got(<<e>> \o more, n))
    ELSE Then(Expect(q, j, end), LAMBDA mark, n : Got(<<e>>, n)))
ListUpTo(q, i, end) == IF q[i].k = end THEN Got(<<>>, i + 1) ELSE Exprs(q, i, end)
Args(q, i) == IF q[i].k = "(" THEN ListUpTo(q, i + 1, ")") ELSE Wrong

Postfix(q, r) ==
  IF ~r.ok THEN Wrong
  ELSE CASE q[r.i].k = "." ->
              Then(MemberName(q, r.i + 1), LAMBDA x, j :
                IF q[j].k = "(" THEN Postfix(q, Then(Args(q, j), LAMBDA args, n : Got(Call(Mem(r.v, x), args), n)))
                ELSE Postfix(q, Got(Mem(r.v, x), j)))
         [] q[r.i].k = "(" -> Postfix(q, Then(Args(q, r.i), LAMBDA args, n : Got(Call(r.v, args), n)))
         [] q[r.i].k = "[" -> Postfix(q, Then(Ended(q, ParseExpr(q, r.i + 1), "]"), LAMBDA e, n : Got(Idx(r.v, e), n)))
         [] q[r.i].k = "::" ->
              Then(MemberName(q, r.i + 1), LAMBDA x, j :
                IF r.v.k # "id" THEN Wrong
                ELSE Postfix(q, Then(Args(q, j), LAMBDA args, n : Got(Scoped(r.v.x, x, args), n))))
         [] q[r.i].k = "@" ->              \* the arguments of the signature are left out of the tree
              Then(ExpectIdent(q, r.i + 1), LAMBDA x, j :
                IF r.v.k # "call" THEN Wrong
                ELSE IF r.v.sign # "" THEN Wrong
                ELSE Postfix(q, Then(Args(q, j), LAMBDA args, n : Got(Signed(r.v.f, r.v.args, x), n))))
         [] OTHER -> r

(* The fields of .{a: 1, 2}: with a name if a colon follows. *)
Fields(q, i) ==
  LET named == q[i].k # "eof" /\ q[i + 1].k = ":"
  IN  Then(ParseExpr(q, IF named THEN i + 2 ELSE i), LAMBDA e, j :
        LET field == <<IF named THEN q[i].x ELSE "", e>>
        IN  IF q[j].k = "," THEN Then(Fields(q, j + 1), LAMBDA more, n : Got(<<field>> \o more, n))
            ELSE Then(Expect(q, j, "}"), LAMBDA mark, n : Got(<<field>>, n)))

Primary(q, i) ==
  LET t == q[i] IN
  CASE t.k = "int" -> IF t.n > 2 ^ (Word - 1) - 1 THEN Wrong ELSE Got(Num(t.n), i + 1)
    [] t.k = "float" -> Got(Flt(t.n), i + 1)
    [] t.k = "str" -> Got(Text(t.x), i + 1)
    [] t.k \in {"true", "false"} -> Got(Flag(t.k = "true"), i + 1)
    [] t.k = "null" -> Got(Null, i + 1)
    [] t.k = "." -> IF q[i + 1].k # "{" THEN Wrong
                    ELSE IF q[i + 2].k = "}" THEN Got(Lit(<<>>), i + 3)
                    ELSE Then(Fields(q, i + 2), LAMBDA fields, j : Got(Lit(fields), j))
    [] Says(q, i, "new") ->
         Then(ParseType(q, i + 1), LAMBDA type, j :
           IF q[j].k = "[" THEN Then(Ended(q, ParseExpr(q, j + 1), "]"), LAMBDA e, n : Got(New(type, e), n))
           ELSE Got(New(type, None), j))
    [] t.k = "ident" -> Got(Id(t.x), i + 1)
    [] t.k = "[" -> Then(ListUpTo(q, i + 1, "]"), LAMBDA items, j : Got(Lst(items), j))
    [] t.k = "(" -> Ended(q, ParseExpr(q, i + 1), ")")
    [] OTHER -> Wrong

----------------------------------------------------------------------------
(* Statements.                                                              *)

(* name [= init] ; *)
DeclRest(q, i, x, t, decor) ==
  Then(IF q[i].k = "=" THEN ParseExpr(q, i + 1) ELSE Got(None, i), LAMBDA e, j :
    Then(Expect(q, j, ";"), LAMBDA mark, n : Got(Decl(x, t, e, decor), n)))
TypeThenName(q, i, decor) ==
  Then(ParseType(q, i), LAMBDA t, j : Then(ExpectIdent(q, j), LAMBDA x, n : DeclRest(q, n, x, t, decor)))
NameThenType(q, i) ==
  Then(ExpectIdent(q, i), LAMBDA x, j : Then(ParseType(q, j), LAMBDA t, n : DeclRest(q, n, x, t, "")))
InParens(q, i) == IF q[i].k = "(" THEN Ended(q, ParseExpr(q, i + 1), ")") ELSE Wrong
Ending(q, r, F(_)) == Then(Ended(q, r, ";"), LAMBDA e, j : Got(F(e), j))

RECURSIVE Stmt(_, _), Stmts(_, _)
Block(q, i) == IF q[i].k = "{" THEN Stmts(q, i + 1) ELSE Wrong
Stmts(q, i) ==
  IF q[i].k = "}" THEN Got(<<>>, i + 1)
  ELSE IF q[i].k = "eof" THEN Wrong
  ELSE Then(Stmt(q, i), LAMBDA st, j : Then(Stmts(q, j), LAMBDA more, n : Got(<<st>> \o more, n)))

IfStmt(q, i) ==
  Then(InParens(q, i + 1), LAMBDA c, j : Then(Block(q, j), LAMBDA a, n :
    IF q[n].k # "else" THEN Got(If(c, a, <<>>), n)
    ELSE IF q[n + 1].k = "if" THEN Then(Stmt(q, n + 1), LAMBDA st, m : Got(If(c, a, <<st>>), m))
    ELSE Then(Block(q, n + 1), LAMBDA b, m : Got(If(c, a, b), m))))
TryStmt(q, i) ==
  Then(Block(q, i + 1), LAMBDA b, j :
    IF q[j].k # "catch" \/ q[j + 1].k # "(" THEN Wrong
    ELSE Then(ExpectIdent(q, j + 2), LAMBDA x, n : Then(Ended(q, ParseType(q, n), ")"), LAMBDA t, m :
           Then(Block(q, m), LAMBDA c, k : Got(Try(b, x, t, c), k)))))
ForStmt(q, i) ==
  IF q[i + 1].k # "(" THEN Wrong
  ELSE Then(ExpectIdent(q, i + 2), LAMBDA x, j :
         IF q[j].k # ":" THEN Wrong
         ELSE Then(Ended(q, ParseExpr(q, j + 1), ")"), LAMBDA e, n :
                Then(Block(q, n), LAMBDA b, m : Got(For(x, e, b), m))))
(* An assignment or an expression. *)
Simple(q, i) ==
  Then(ParseExpr(q, i), LAMBDA e, j :
    IF q[j].k = "=" THEN Ending(q, ParseExpr(q, j + 1), LAMBDA v : Assign(e, v))
    ELSE IF q[j].k = ";" THEN Got(Do(e), j + 1) ELSE Wrong)

Stmt(q, i) ==
  CASE Says(q, i, "break") -> Got(Break, IF q[i + 1].k = ";" THEN i + 2 ELSE i + 1)
    [] Says(q, i, "delete") -> Ending(q, ParseExpr(q, i + 1), Delete)
    [] q[i].k = "try" -> TryStmt(q, i)
    [] q[i].k = "log" -> Ending(q, ParseExpr(q, i + 1), Log)
    [] q[i].k = "return" -> IF q[i + 1].k = ";" THEN Got(Ret(None), i + 2) ELSE Ending(q, ParseExpr(q, i + 1), Ret)
    [] q[i].k = "if" -> IfStmt(q, i)
    [] q[i].k = "while" ->
         Then(InParens(q, i + 1), LAMBDA c, j : Then(Block(q, j), LAMBDA b, n : Got(While(c, b), n)))
    [] q[i].k = "for" -> ForStmt(q, i)
    [] Says(q, i, "const") \/ Says(q, i, "copyd") -> TypeThenName(q, i + 1, q[i].x)
    [] q[i].k = "ident" /\ q[i].x \in BuiltinTypeNames -> TypeThenName(q, i, "")
    [] q[i].k = "ident" /\ q[i].x \notin BuiltinTypeNames \cup {"break", "delete", "const", "copyd"} ->
         IF q[i + 1].k \in {"ident", "interface"} THEN NameThenType(q, i) ELSE Simple(q, i)
    [] OTHER -> Simple(q, i)

----------------------------------------------------------------------------
(* Declarations.                                                            *)

FuncDecl(q, i) ==
  IF q[i].k # "fn" THEN Wrong
  ELSE Then(TypeParams(q, i + 1), LAMBDA tps, a : Then(ExpectIdent(q, a), LAMBDA name, b :
    IF q[b].k # "(" THEN Wrong
    ELSE Then(Params(q, b + 1), LAMBDA ps, c : Then(ResultType(q, c), LAMBDA ret, d :
           IF ret = None /\ name # "main" THEN Wrong          \* only main may leave it out
           ELSE Then(Block(q, d), LAMBDA body, n :
                  Got(Func(name, tps, ps, IF ret = None THEN Nm("void") ELSE ret, body), n))))))

RECURSIVE Funcs(_, _), Members(_, _), Sigs(_, _, _), Symbols(_, _)
Funcs(q, i) ==
  IF q[i].k = "}" THEN Got(<<>>, i + 1)
  ELSE Then(FuncDecl(q, i), LAMBDA f, j : Then(Funcs(q, j), LAMBDA more, n : Got(<<f>> \o more, n)))

(* (Name); or Name; behind a struct or an interface. *)
NameBehind(q, i) ==
  Then(IF q[i].k = "(" THEN Ended(q, ExpectIdent(q, i + 1), ")")
       ELSE IF q[i].k = "ident" THEN ExpectIdent(q, i) ELSE Got("", i),
       LAMBDA x, j : Then(Expect(q, j, ";"), LAMBDA mark, n : Got(x, n)))

Members(q, i) ==
  IF q[i].k = "}" THEN Got(<<>>, i + 1)
  ELSE Then(ExpectIdent(q, i), LAMBDA x, j : Then(Ended(q, ParseType(q, j), ";"), LAMBDA t, n :
         Then(Members(q, n), LAMBDA more, m : Got(<<Param(x, t)>> \o more, m))))
StructDecl(q, i) ==
  Then(TypeParams(q, i + 1), LAMBDA tps, j :
    IF q[j].k # "{" THEN Wrong
    ELSE Then(Members(q, j + 1), LAMBDA fields, n :
           Then(NameBehind(q, n), LAMBDA name, m : Got(Struct(name, tps, fields), m))))

(* The lines of an interface: methods and expanded interfaces. *)
Sigs(q, i, iface) ==
  LET dyn == IF Says(q, i, "dynamic") THEN i + 1 ELSE i IN
  IF q[i].k = "}" THEN Got(iface, i + 1)
  ELSE IF Says(q, dyn, "expand")
    THEN IF q[dyn + 1].k # "interface" THEN Wrong
         ELSE Then(Ended(q, ExpectIdent(q, dyn + 2), ";"), LAMBDA x, n :
                Sigs(q, n, [iface EXCEPT !.expands = Append(@, x)]))
  ELSE IF q[dyn].k # "fn" THEN Wrong
  ELSE Then(Ended(q, ExpectIdent(q, dyn + 1), "("), LAMBDA x, j : Then(Params(q, j), LAMBDA ps, n :
         Then(Ended(q, ResultType(q, n), ";"), LAMBDA ret, m :
           Sigs(q, m, [iface EXCEPT !.ms = Append(@, MSig(x, Len(ps), ps # <<>> /\ ps[1].x = "self", ret))]))))
InterfaceDecl(q, i) ==
  IF q[i + 1].k # "{" THEN Wrong
  ELSE Then(Sigs(q, i + 2, Iface("", <<>>, FALSE, <<>>)), LAMBDA iface, j :
         LET generic == q[j].k = "ident" /\ q[j + 1].k = "<"          \* skipped
             end == IF generic THEN ArgsEnd(q, j + 1, 0, 0) ELSE 0
         IN  IF generic THEN IF end = 0 THEN Wrong
                             ELSE Then(Expect(q, end, ";"), LAMBDA mark, n : Got([iface EXCEPT !.name = q[j].x], n))
             ELSE Then(NameBehind(q, j), LAMBDA x, n : Got([iface EXCEPT !.name = x], n)))

(* impl<T> Type Iface { .. } or impl { .. } Type; *)
ImplDecl(q, i) ==
  Then(TypeParams(q, i + 1), LAMBDA tps, j :
    LET type == IF q[j].k = "ident" THEN q[j].x ELSE ""
        iface == IF type # "" /\ q[j + 1].k = "ident" THEN q[j + 1].x ELSE ""
        open == j + (IF type = "" THEN 0 ELSE IF iface = "" THEN 1 ELSE 2)
    IN  IF q[open].k # "{" THEN Wrong
        ELSE Then(Funcs(q, open + 1), LAMBDA ms, n :
               LET behind == IF q[n].k = "ident" THEN q[n].x ELSE type
                   m == IF q[n].k = "ident" THEN n + 1 ELSE n
               IN  Got(Impl(behind, iface, tps, ms), IF q[m].k = ";" THEN m + 1 ELSE m)))

(* space { .. } (Type<T>); an impl without an interface. *)
SpaceDecl(q, i) ==
  IF q[i + 1].k # "{" THEN Wrong
  ELSE Then(Funcs(q, i + 2), LAMBDA ms, j :
         IF q[j].k # "(" THEN Wrong
         ELSE Then(Ended(q, Ended(q, ParseType(q, j + 1), ")"), ";"), LAMBDA t, n :
                Got(Impl(t.b, "", IF t.k = "app" THEN [a \in DOMAIN t.args |-> t.args[a].b] ELSE <<>>, ms), n)))

Symbols(q, i) ==
  IF q[i].k = "}" THEN Got(<<>>, IF q[i + 1].k = ";" THEN i + 2 ELSE i + 1)
  ELSE IF q[i].k # "fn" THEN Wrong
  ELSE Then(Ended(q, ExpectIdent(q, i + 1), "("), LAMBDA x, j : Then(Params(q, j), LAMBDA ps, n :
         Then(Ended(q, ResultType(q, n), ";"), LAMBDA ret, m : Then(Symbols(q, m), LAMBDA more, k :
           Got(<<Func(x, <<>>, ps, IF ret = None THEN Nm("void") ELSE ret, <<>>)>> \o more, k)))))
LibraryDecl(q, i) ==
  IF q[i + 1].k \notin {"str", "ident"} THEN Wrong
  ELSE IF q[i + 2].k = "{" THEN Then(Symbols(q, i + 3), LAMBDA ms, j : Got(Library(q[i + 1].x, ms), j))
  ELSE Then(Expect(q, i + 2, ";"), LAMBDA mark, j : Got(Library(q[i + 1].x, <<>>), j))

(* The declarations from i on, added to p.  imports, pub and kind are the
   preset macros import, pub and program; kind is "" until one is read. *)
RECURSIVE Declarations(_, _, _)
Declarations(q, i, p) ==
  LET add(r, part) == Then(r, LAMBDA d, j : Declarations(q, j, [p EXCEPT ![part] = Append(@, d)]))
      public(r, part) ==
        Then(r, LAMBDA d, j : Declarations(q, j, [p EXCEPT ![part] = Append(@, d), !.pub = @ \cup {d.name}]))
      kind == IF q[i + 1].x = "lib" THEN "library" ELSE q[i + 1].x
  IN CASE q[i].k = "eof" -> Got(p, i)
       [] q[i].k = "fn" -> add(FuncDecl(q, i), "funcs")
       [] q[i].k = "struct" -> add(StructDecl(q, i), "structs")
       [] q[i].k = "interface" -> add(InterfaceDecl(q, i), "ifaces")
       [] q[i].k = "impl" -> add(ImplDecl(q, i), "impls")
       [] Says(q, i, "type") ->
            CASE q[i + 1].k = "interface" -> add(InterfaceDecl(q, i + 1), "ifaces")
              [] q[i + 1].k = "struct" -> add(StructDecl(q, i + 1), "structs")
              [] OTHER -> Then(ParseType(q, i + 1), LAMBDA t, j : Then(Ended(q, ExpectIdent(q, j), ";"), LAMBDA x, n :
                            Declarations(q, n, [p EXCEPT !.aliases = (x :> t) @@ @])))
       [] Says(q, i, "space") -> add(SpaceDecl(q, i), "impls")
       [] Says(q, i, "library") -> add(LibraryDecl(q, i), "libs")
       [] Says(q, i, "program") ->
            IF q[i + 1].k # "ident" \/ kind \notin {"main", "library"} \/ q[i + 2].k # ";" \/ p.kind # "" THEN Wrong
            ELSE Declarations(q, i + 3, [p EXCEPT !.kind = kind])
       [] Says(q, i, "import") ->
            IF q[i + 1].k \notin {"str", "ident"} \/ q[i + 2].k # ";" THEN Wrong
            ELSE Declarations(q, i + 3, [p EXCEPT !.imports = Append(@, q[i + 1].x)])
       [] Says(q, i, "pub") ->
            CASE q[i + 1].k = "fn" -> public(FuncDecl(q, i + 1), "funcs")
              [] q[i + 1].k = "struct" -> public(StructDecl(q, i + 1), "structs")
              [] OTHER -> Wrong
       [] OTHER -> Wrong

ParseProgram(q) == Declarations(q, 1, Program(<<>>, <<>>, <<>>, <<>>, <<>>, <<>>))

(* compileSlow up to the type checker: a text to a program, or Wrong. *)
Read(text) ==
  LET toks == Lex(text)
      q == AfterMacros(toks, "explain")
  IN  IF toks = NoTokens \/ ~q.ok THEN Wrong ELSE ParseProgram(q.out)
=============================================================================
