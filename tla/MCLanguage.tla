----------------------------- MODULE MCLanguage -----------------------------
EXTENDS Language

(* Programs: main(io) with the body given, beside the declarations given. *)
Main(body) == Func("main", <<>>, <<Param("io", Nm("IOStream"))>>, Nm("void"), body)
Prog(fs, structs, ifaces, impls, body) == Program(fs \o <<Main(body)>>, structs, ifaces, impls, <<>>, <<>>)
ListOf(t) == App("List", <<t>>)

(* One expression of each type, to be bound to a variable. *)
Samples ==
  [int |-> <<Nm("int"), Num(3)>>, float |-> <<Nm("float"), Flt(3)>>, str |-> <<Nm("String"), Text("a")>>,
   bool |-> <<Nm("bool"), Flag(TRUE)>>, list |-> <<ListOf(Nm("int")), Lst(<<Num(1), Num(2)>>)>>,
   table |-> <<App("HashTable", <<Nm("String"), Nm("int")>>), Scoped("HashTable", "new", <<>>)>>,
   P |-> <<Nm("P"), Lit(<<<<"", Num(1)>>>>)>>, Q |-> <<Nm("Q"), Lit(<<<<"", Num(2)>>>>)>>,
   ptr |-> <<Ref(Nm("P")), Null>>,
   copyd |-> <<App("Copyd", <<ListOf(Nm("int"))>>), Lst(<<Num(1)>>)>>,
   io |-> <<Nm("IOStream"), Id("io")>>, inp |-> <<Nm("InputStream"), Call(Id("ConsoleInputStream"), <<>>)>>,
   outp |-> <<Nm("OutputStream"), Call(Id("ConsoleOutputStream"), <<>>)>>,
   file |-> <<Nm("file"), Scoped("file", "new", <<Text("a")>>)>>,
   chan |-> <<Nm("Channel"), Call(Mem(Id("taskm"), "channel"), <<>>)>>,
   thread |-> <<Nm("thread"), Call(Mem(Id("taskm"), "spawn"), <<>>)>>,
   fn |-> <<App("function", <<Nm("int")>>), Id("g")>>]

G == Func("g", <<>>, <<Param("i", Nm("int"))>>, Nm("int"), <<Ret(Id("i"))>>)
StructP == Struct("P", <<>>, <<Param("v", Nm("int"))>>)
StructQ == Struct("Q", <<>>, <<Param("v", Nm("int"))>>)
OnQ == Impl("Q", "", <<>>, <<
  Func("add", <<>>, <<Param("self", None), Param("o", Nm("Q"))>>, Nm("Q"), <<Ret(Id("o"))>>),
  Func("eq", <<>>, <<Param("self", None), Param("o", Nm("Q"))>>, Nm("bool"), <<Ret(Flag(TRUE))>>),
  Func("neg", <<>>, <<Param("self", None)>>, Nm("Q"), <<Ret(Id("self"))>>)>>)
Around(body) == Prog(<<G>>, <<StructP, StructQ>>, <<>>, <<OnQ>>, body)
Let(x, kind) == Decl(x, Samples[kind][1], Samples[kind][2], "")

Ops == DOMAIN OpMethods \cup {"<<", ">>", "&&", "||"}
Operands == {"int", "float", "str", "bool", "list", "P", "Q", "ptr", "copyd"}
Operators == {Around(<<Let("a", c[1]), Let("b", c[2]), Ret(Bin(c[3], Id("a"), Id("b")))>>) :
                c \in {d \in Operands \X Operands \X Ops : ~(d[3] = "%" /\ "float" \in {d[1], d[2]})}}
             \cup {Around(<<Let("a", l), Ret(Un(op, Id("a")))>>) : l \in Operands, op \in {"-", "!", "*"}}


(* Calls of everything the runtime provides, with up to three arguments. *)
Expr(kind) == Samples[kind][2]
Tuples == {<<>>} \cup {<<x>> : x \in DOMAIN Samples \ {"P", "Q", "ptr", "copyd"}}
          \cup {<<x, y>> : x, y \in {"int", "str", "list", "fn"}}
          \cup {<<x, y, z>> : x, y \in {"fn", "str", "int"}, z \in {"int", "str"}}
ArgsOf(kinds) == [i \in DOMAIN kinds |-> Expr(kinds[i])]
Receivers == [int |-> {"toString"}, str |-> DOMAIN StringMethods, list |-> DOMAIN ListRows,
              table |-> DOMAIN TableRows, file |-> DOMAIN FileMethods, chan |-> {"send", "recv"},
              thread |-> {"merge", "pid", "talk", "done"}, io |-> DOMAIN StreamMethods.IOStream,
              inp |-> DOMAIN StreamMethods.InputStream, outp |-> DOMAIN StreamMethods.OutputStream,
              copyd |-> {"ptr", "size", "append", "next"}, ptr |-> {"add"}, Q |-> {"add", "none"}]
(* Left out: calls the checker lets through although the interpreter refuses
   the argument, or yields something of another type. *)
Texts(kinds) == \A i \in DOMAIN kinds : kinds[i] = "str"
Unchecked(r, m, kinds) ==
  \/ <<r, m>> \in {<<"copyd", "ptr">>, <<"str", "toFloat">>, <<"table", "get">>, <<"list", "__sort__">>}
  \/ <<r, m>> = <<"file", "write">> /\ ~Texts(kinds)
  \/ m = "block" /\ kinds = <<"thread">>
  \/ m \in {"qkfile_read", "qkfile_write", "new"} /\ ~Texts(kinds)
  \/ m = "qksignal_emit"
MethodCalls ==
  {Around(<<Let("a", c[1]), Ret(Call(Mem(Id("a"), c[2]), ArgsOf(c[3])))>>) :
     c \in {d \in (DOMAIN Receivers) \X (UNION Range(Receivers)) \X Tuples :
              d[2] \in Receivers[d[1]] /\ ~Unchecked(d[1], d[2], d[3])}}
  \cup {Around(<<Ret(Call(Mem(Id(c[1]), c[2]), ArgsOf(c[3])))>>) :
     c \in {d \in {"taskm", "memory"} \X (DOMAIN TaskMethods.taskm \cup DOMAIN TaskMethods.memory) \X Tuples :
              d[2] \in DOMAIN TaskMethods[d[1]] /\ ~Unchecked(d[1], d[2], d[3])}}
FunctionCalls == {Around(<<Ret(Call(Id(c[1]), ArgsOf(c[2])))>>) :
                    c \in {d \in (DOMAIN Builtins \cup {"g"}) \X Tuples : ~Unchecked("", d[1], d[2])}}
StaticCalls == {Around(<<Ret(Scoped(c[1], c[2], ArgsOf(c[3])))>>) :
                  c \in {d \in (DOMAIN Statics) \X {"new", "setIn", "setOut"} \X Tuples : ~Unchecked(d[1], d[2], d[3])}}

(* Two definitions of f, by the kinds of their parameters, and a call. *)
Kinds == {"int", "float", "str"}
Lists(n) == UNION {[1 .. m -> Kinds] : m \in 1 .. n}
F(kinds, text) ==
  Func("f", <<>>, [i \in DOMAIN kinds |-> Param("p" \o ToString(i), Samples[kinds[i]][1])], Nm("String"), <<Ret(Text(text))>>)
Overloaded ==
  {Prog(<<F(d[1], "1"), F(d[2], "2")>>, <<>>, <<>>, <<>>, <<Ret(Call(Id("f"), [i \in DOMAIN c |-> Expr(c[i])]))>>) :
     d \in {e \in Lists(2) \X Lists(2) : e[1] # e[2]}, c \in Lists(2)}

(* Structs, their impls, an interface and one that expands it. *)
Self == Param("self", None)
Area == Func("area", <<>>, <<Self>>, Nm("int"), <<Ret(Mem(Id("self"), "v"))>>)
Grow == Func("grow", <<>>, <<Self, Param("k", Nm("int"))>>, Nm("P"),
             <<Assign(Mem(Id("self"), "v"), Bin("+", Mem(Id("self"), "v"), Id("k"))), Ret(Id("self"))>>)
Make == Func("make", <<>>, <<>>, Nm("P"), <<Decl("p", Nm("P"), Lit(<<<<"v", Num(1)>>>>), ""), Ret(Id("p"))>>)
Gone == Func("__delete__", <<>>, <<Self>>, Nm("int"), <<Assign(Mem(Id("self"), "v"), Num(7)), Ret(Num(0))>>)
Shape == Iface("Shape", <<>>, FALSE, <<MSig("area", 1, TRUE, Nm("int"))>>)
Body == Iface("Body", <<"Shape">>, FALSE, <<MSig("grow", 2, TRUE, Nm("P"))>>)
Use(iface, e) == Func("use", <<>>, <<Param("s", Nm(iface))>>, Nm("int"), <<Ret(e)>>)
On(x, m, args) == Call(Mem(Id(x), m), args)
Objects ==
  {Prog(<<Use(iface, On("s", m, IF m = "grow" THEN <<Num(2)>> ELSE <<>>))>>, <<StructP, StructQ>>, <<Shape, Body>>, impls,
        <<Let("p", "P"), Let("q", "Q")>> \o tail) :
     iface \in {"Shape", "Body"}, m \in {"area", "grow"},
     impls \in {<<Impl("P", "Shape", <<>>, <<Area>>), Impl("P", "", <<>>, <<Grow, Make, Gone>>)>>,
               <<Impl("P", "Body", <<>>, <<Area, Grow>>), Impl("Q", "Shape", <<>>, <<Area>>)>>,
               <<Impl("P", "Shape", <<>>, <<Grow>>)>>, <<Impl("P", "", <<>>, <<Grow, Make>>)>>},
     tail \in {<<Ret(Call(Id("use"), <<Id(x)>>))>> : x \in {"p", "q"}}
            \cup {<<Delete(Id("p")), Ret(On("p", "area", <<>>))>>, <<Ret(Scoped("P", "make", <<>>))>>,
                  <<Ret(Call(Mem(On("p", "grow", <<Num(3)>>), "area"), <<>>))>>,
                  <<Assign(Mem(Id("p"), "v"), Mem(Id("q"), "v")), Ret(Mem(Id("p"), "v"))>>,
                  <<Assign(Id("p"), Id("q")), Ret(Id("p"))>>}}

(* Statements in statements. *)
Bump == Assign(Id("a"), Bin("+", Id("a"), Num(1)))
Simples == {Bump, Break, Ret(Id("a")), Do(On("io", "println", <<Id("a")>>)),
            Assign(Id("a"), Bin("/", Num(1), Id("a"))), Do(On("l", "next", <<>>))}
Small == Bin("<", Id("a"), Num(2))
Nest(b, c) == {<<If(Small, b, c)>>, <<While(Small, b \o <<Bump>>)>>, <<For("i", Id("l"), <<Assign(Id("a"), Id("i"))>> \o b)>>,
               <<Try(b, "e", Nm("String"), c)>>}
Once == UNION {Nest(<<x>>, <<y>>) : x, y \in Simples}
Flow == {Prog(<<>>, <<>>, <<>>, <<>>, <<Let("l", "list"), Decl("a", Nm("int"), Num(0), "")>> \o b \o <<Ret(Id("a"))>>) :
           b \in Once \cup UNION {Nest(x, <<Bump>>) : x \in Once}}

(* One buffer for the calls of one function: pure, recursive, or failing. *)
Fibonacci ==
  LET again(n) == LET args == <<Bin("-", Id("i"), Num(n))>> IN Call(Id("g"), args)
  IN  Func("g", <<>>, <<Param("i", Nm("int"))>>, Nm("int"),
           <<If(Bin("<", Id("i"), Num(2)), <<Ret(Id("i"))>>, <<Ret(Bin("+", again(1), again(2)))>>)>>)
Halving == Func("g", <<>>, <<Param("i", Nm("int"))>>, Nm("int"), <<Ret(Bin("/", Num(6), Id("i")))>>)
Buffered(x) == Signed(Id("g"), <<x>>, "m")
Remembered ==
  {Prog(<<g>>, <<>>, <<>>, <<>>,
        <<Decl("m", Nm("memorize"), Scoped("memorize", "new", <<>>), ""), Decl("a", Nm("int"), Num(0), "")>>
        \o (IF failing THEN <<Try(<<Assign(Id("a"), Buffered(Num(0)))>>, "e", Nm("String"), <<Bump>>)>> ELSE <<>>)
        \o <<Assign(Id("a"), Bin("+", Id("a"), Buffered(Num(x)))), Do(On("io", "println", <<Id("a")>>)),
             Ret(Bin("-", Buffered(y), Buffered(Num(x))))>>) :
     g \in {G, Fibonacci, Halving}, x \in 0 .. 3, y \in {Num(0), Num(2), Id("a")}, failing \in BOOLEAN}

(* sum over linear functions, remainders, and the generators i / 3, i i, 6 / i and i i / i. *)
Generators ==
  {Bin("+", Bin("*", Num(a), Id("i")), Num(c)) : a \in 0 .. 5, c \in {0, 1, 6}} \cup {Bin("%", Id("i"), Num(m)) : m \in 1 .. 5}
  \cup {Bin("/", Id("i"), Num(3)), Bin("*", Id("i"), Id("i")), Bin("/", Num(6), Id("i")), Bin("/", Bin("*", Id("i"), Id("i")), Id("i"))}
Sums == {Prog(<<Func("g", <<>>, <<Param("i", Nm("int"))>>, Nm("int"), <<Ret(e)>>)>>, <<>>, <<>>, <<>>,
              <<Ret(Call(Id("sum"), <<Id("g"), Num(a), Num(b)>> \o step))>>) :
           e \in Generators, a \in 0 .. 2, b \in 0 .. 7, step \in {<<>>, <<Num(2)>>, <<Num(3)>>}}

T1 == Nm("T")
(* One program for each of the other parts of the language. *)
Node == Struct("Node", <<"T">>, <<Param("v", T1)>>)
Get == Func("get", <<>>, <<Self>>, T1, <<Ret(Mem(Id("self"), "v"))>>)
IntFn(ps, e) == Func("h", <<>>, ps, Nm("int"), <<Ret(e)>>)
Taking(x, t) == <<Param(x, t)>>
IntTo == App("function", <<Nm("int"), Nm("int")>>)
Features ==
  {Prog(<<G>>, <<StructP, Node>>, <<>>, <<Impl("P", "", <<>>, <<Area, Grow>>), Impl("Node", "", <<"T">>, <<Get>>)>>, b) : b \in {
     <<Decl("n", App("Node", <<Nm("int")>>), Lit(<<<<"", Num(3)>>>>), ""), Ret(On("n", "get", <<>>))>>,
     <<Decl("n", ListOf(ListOf(Nm("int"))), Lst(<<Lst(<<Num(1)>>), Lst(<<>>)>>), ""), Ret(Idx(Idx(Id("n"), Num(0)), Num(0)))>>,
     <<Let("t", "table"), Assign(Idx(Id("t"), Text("k")), Num(5)), Ret(On("t", "size", <<>>))>>,
     <<Let("l", "list"), Assign(Idx(Id("l"), Num(1)), Num(5)), Ret(Bin("+", Idx(Id("l"), Num(1)), Un("*", Id("l"))))>>,
     <<Let("l", "list"), Assign(Idx(Id("l"), Num(2)), Num(5)), Ret(Id("l"))>>,
     <<Decl("c", Nm("int"), Num(3), "const"), Ret(Bin("<<", Bin("+", Id("c"), Num(1)), Num(1)))>>,
     <<Ret(Bin("+", Num(1), Bin("<<", Num(1), Bin("*", Num(1), Num(2)))))>>,
     <<Ret(Bin("<", Bin(">>", Bin("*", Num(3), Num(2)), Num(1)), Bin("*", Bin("<<", Num(1), Num(1)), Num(2))))>>,
     <<Decl("c", Nm("int"), Lst(<<Num(3)>>), "copyd"), Ret(Id("c"))>>,
     <<Let("p", "ptr"), Ret(Mem(Id("p"), "v"))>>,
     <<Let("p", "P"), Do(Call(Id("qksignal_emit"), <<Id("p"), Text("grow"), Num(1)>>)), Ret(Mem(Id("p"), "v"))>>,
     <<Decl("l", Ref(ListOf(Nm("int"))), New(Nm("int"), Num(2)), ""), Ret(On("l", "size", <<>>))>>,
     <<Decl("p", Nm("P"), None, ""), Ret(Bin("==", Mem(Id("p"), "v"), Un("-", Num(1))))>>,
     <<Let("b", "bool"), Ret(Bin("||", Un("!", Id("b")), Bin("&&", Id("b"), Flag(FALSE))))>>,
     <<Ret(Bin("-", Num(1), Bin("-", Bin("-", Num(3), Num(2)), Bin("*", Num(2), Bin("+", Num(1), Num(1))))))>>}}
  \cup {Prog(<<G, c[1]>>, <<>>, <<>>, <<>>, <<Let("l", "list"), Decl("a", Nm("int"), Call(Id("h"), <<c[2]>>), ""),
                                       Ret(Bin("+", Id("a"), On("l", "size", <<>>)))>>) :
     c \in {<<IntFn(Taking("f", IntTo), Call(Id("f"), <<Num(2)>>)), Id("g")>>,
           <<IntFn(Taking("c", App("Copyd", <<ListOf(Nm("int"))>>)), On("c", "size", <<>>)), Id("l")>>,
           <<Func("h", <<>>, Taking("c", App("Copyd", <<ListOf(Nm("int"))>>)), Nm("int"),
                  <<Do(On("c", "append", <<Num(4)>>)), Ret(On("c", "next", <<>>))>>), Id("l")>>,
           <<Func("h", <<"T">>, Taking("x", T1), T1, <<Ret(Id("x"))>>), Num(4)>>}}
  \cup {[Prog(<<G>>, <<StructP>>, <<>>, <<>>, <<Decl("a", Nm("Ints"), Lst(<<Num(1)>>), ""), Ret(Call(Id("g"), <<On("a", "next", <<>>)>>))>>)
         EXCEPT !.aliases = "Ints" :> ListOf(Nm("int")), !.kind = kind, !.pub = {"g", "P"}, !.imports = <<"x", "y">>,
                !.libs = <<Library("m", <<Func("cos", <<>>, <<Param("x", Nm("float"))>>, Nm("float"), <<>>)>>)>>] :
     kind \in {"main", "library"}}

(* Programs of the language that the compiler knows: statements in statements. *)
C == INSTANCE Machine
MCCompile(text) == LET end == C!Outcome(text) IN end
Say(args) == Do(On("io", "println", args))
NativeSimples == {Bump, Ret(Id("a")), Say(<<Id("a")>>), Assign(Id("a"), Bin("/", Num(6), Id("a"))),
                  Do(On("l", "append", <<Id("a")>>)), Assign(Idx(Id("l"), Num(1)), Id("a")),
                  Assign(Id("s"), Bin("+", Id("s"), Text("x"))), Decl("b", Nm("int"), Bin("+", Id("a"), Num(3)), "")}
NativeNest(b, c) == {<<If(Small, b, c)>>, <<While(Small, b \o <<Bump>>)>>} \cup
                    IF \E i \in DOMAIN (b \o c) : (b \o c)[i].k = "return" THEN {} ELSE {<<Try(b, "e", Nm("String"), c)>>}
NativeOnce == UNION {NativeNest(<<x>>, <<y>>) : x, y \in NativeSimples}
NativeFlow ==
  {Prog(<<>>, <<>>, <<>>, <<>>,
        <<Let("l", "list"), Let("s", "str"), Decl("a", Nm("int"), Num(0), ""), Assign(Id("s"), Text("y"))>> \o b \o
        <<Bump, Say(<<Id("s"), On("l", "size", <<>>), Idx(Id("l"), Num(0)), Idx(Id("l"), Num(1))>>), Ret(Id("a"))>>) :
     b \in NativeOnce \cup UNION {NativeNest(x, <<Bump>>) : x \in NativeOnce}}

(* Expressions of a, which is assigned to, b, which is not, and numbers; and
   conditions.  An amount of a shift is less than Word. *)
Leaves == {Id("a"), Id("b"), Num(2)}
Arith == {"+", "-", "*", "/", "%"}
Flat == {Bin(op, x, y) : op \in Arith, x, y \in Leaves} \cup {Bin(op, x, Num(1)) : op \in {"<<", ">>"}, x \in Leaves}
        \cup {Un("-", x) : x \in Leaves}
Deep == Flat \cup {Bin(op, x, y) : op \in Arith, x \in Flat, y \in Leaves} \cup {Bin(op, y, x) : op \in Arith, x \in Flat, y \in Leaves}
        \cup {Bin(op, x, Num(1)) : op \in {"<<", ">>"}, x \in Flat}
Tests == {Bin(op, x, y) : op \in {"==", "!=", "<", "<=", ">", ">="}, x \in {Id("a"), Bin("-", Id("b"), Num(1))}, y \in {Id("b"), Num(3)}}
Tested == {Bin("<", Id("a"), Id("b")), Bin("==", Bin("%", Id("a"), Num(2)), Num(1))}
Conditions == LET not == {Un("!", x) : x \in Tests}
                  two == {Bin(op, x, y) : op \in {"&&", "||"}, x \in Tests \cup not, y \in Tested}
              IN  Tests \cup not \cup two \cup {Bin(op, x, y) : op \in {"&&", "||"}, x \in Tested, y \in two}
Values == <<Decl("a", Nm("int"), Num(0), ""), Decl("b", Nm("int"), Num(2), ""), Assign(Id("a"), Num(3))>>
NativeExpressions ==
  {Prog(<<>>, <<>>, <<>>, <<>>, Values \o <<Ret(e)>>) : e \in Deep}
  \cup {Prog(<<>>, <<>>, <<>>, <<>>, Values \o <<If(e, <<Bump>>, <<Say(<<e>>)>>), Say(<<Id("a"), e>>), Ret(Id("a"))>>) :
          e \in Conditions}

(* Functions, and what main does with them. *)
FnG(body) == Func("g", <<>>, <<Param("i", Nm("int"))>>, Nm("int"), body)
FnH(e) == Func("h", <<>>, <<Param("x", Nm("int")), Param("y", Nm("int"))>>, Nm("int"), <<Ret(e)>>)
CallG(x) == Call(Id("g"), <<x>>)
CallH(x, y) == Call(Id("h"), <<x, y>>)
Local(x, n) == Decl(x, Nm("int"), Num(n), "")
Bodies ==
  {<<Ret(Id("i"))>>, Fibonacci.body,
   <<Local("n", 0), Local("b", 1), While(Bin("<", Id("n"), Id("i")), <<Assign(Id("b"), Bin("+", Id("b"), Id("n"))),
       Assign(Id("n"), Bin("+", Id("n"), Num(1)))>>), Ret(Id("b"))>>,
   <<While(Flag(TRUE), <<If(Bin("<", Id("i"), Num(2)), <<Ret(Num(5))>>, <<Ret(CallH(Id("i"), Num(1)))>>)>>), Ret(Num(6))>>,
   <<If(Bin("<", Id("i"), Num(1)), <<Ret(Num(0))>>, <<>>), Ret(CallH(Bin("-", Id("i"), Num(1)), Num(1)))>>,
   <<Decl("l", ListOf(Nm("int")), Lst(<<Id("i"), CallH(Id("i"), Num(1))>>), ""), Do(On("l", "append", <<Id("i")>>)),
     Ret(Bin("-", Idx(Id("l"), Num(2)), Idx(Id("l"), Num(1))))>>,
   <<Local("b", 0), Assign(Id("b"), Num(1)), Try(<<Assign(Id("b"), Bin("/", Num(6), Id("i")))>>, "e", Nm("String"), <<Assign(Id("b"), Num(7))>>),
     Ret(Id("b"))>>}
Calling(e, body, n, tail) == Prog(<<FnH(e), FnG(body)>>, <<>>, <<>>, <<>>, <<Local("a", 0), Assign(Id("a"), CallG(Num(n)))>> \o tail)
Minus == Bin("-", Id("x"), Id("y"))
NativeFunctions ==
  {Calling(e, b, n, tail) : e \in {Minus, Bin("+", CallG(Id("x")), Id("y"))}, b \in Bodies, n \in 0 .. 2, tail \in
     {<<Ret(CallG(Id("a")))>>, <<Say(<<CallG(Num(2)), Id("a")>>), Ret(CallH(CallG(Num(1)), Id("a")))>>,
      <<If(Bin("<", CallG(Id("a")), Num(2)), <<Assign(Id("a"), CallG(Num(3)))>>, <<Bump>>), Ret(Bin("-", Id("a"), CallG(Num(1))))>>}}
  \cup {Calling(Minus, b, 1, <<Ret(Call(Id("sum"), <<Id("g"), Num(0), Num(3)>> \o step))>>) : b \in Bodies, step \in {<<>>, <<Num(2)>>}}

(* Lists, and structs of two fields with methods. *)
StructR == Struct("R", <<>>, <<Param("v", Nm("int")), Param("w", Nm("int"))>>)
Field(x) == Mem(Id("self"), x)
OnR == Impl("R", "", <<>>, <<
  Func("area", <<>>, <<Self>>, Nm("int"), <<Ret(Bin("*", Field("v"), Field("w")))>>),
  Func("more", <<>>, <<Self, Param("k", Nm("int"))>>, Nm("int"),
       <<If(Bin("<", Field("v"), Id("k")), <<Ret(CallG(Field("w")))>>, <<>>), Ret(Bin("+", Field("v"), Id("k")))>>)>>)
NativeData ==
  {Prog(<<G>>, <<StructR>>, <<>>, <<OnR>>,
        <<Decl("l", ListOf(Nm("int")), Lst([i \in 1 .. n |-> IF i = 2 THEN CallG(Num(3)) ELSE Num(i)]), ""),
          Decl("p", Nm("R"), Lit(<<<<"", Num(1)>>, <<"", CallG(Num(2))>>>>), ""), Decl("q", Nm("R"), Lit(<<<<"", Num(n)>>, <<"", Num(3)>>>>), "")>>
        \o m \o <<Say(<<Mem(Id("p"), "w"), On("q", "area", <<>>)>>), Ret(e)>>) :
     n \in 0 .. 3,
     m \in {<<>>, <<Do(On("l", "append", <<On("l", "size", <<>>)>>))>>,
           <<Do(On("l", "append", <<On("p", "more", <<Num(2)>>)>>)), Assign(Idx(Id("l"), Num(0)), Idx(Id("l"), On("l", "size", <<>>) ))>>,
           <<Assign(Idx(Id("l"), Mem(Id("p"), "v")), Mem(Id("q"), "v")), Do(On("l", "append", <<Idx(Id("l"), Num(1))>>))>>},
     e \in {On("q", "more", <<On("p", "area", <<>>)>>), Bin("+", On("l", "size", <<>>), On("p", "more", <<Mem(Id("q"), "w")>>)),
           Idx(Id("l"), Mem(Id("p"), "w")), Idx(Id("l"), Bin("-", On("l", "size", <<>>), Num(1)))}}

MCFamilies == <<Operators, MethodCalls, FunctionCalls, StaticCalls, Overloaded, Objects, Flow, Remembered, Sums, Features,
                NativeFlow, NativeExpressions, NativeFunctions, NativeData>>
MCStyled == {8, 10}
MCNative == 11 .. 14
=============================================================================
