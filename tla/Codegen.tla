------------------------------- MODULE Codegen -------------------------------
(***************************************************************************)
(* The code generator of compiler/internal/cgen/cgen.go: from the tree of  *)
(* the compiler's parser to LLVM IR, in one pass.                          *)
(*                                                                         *)
(* The emitter e: code, the instructions of the function being emitted;    *)
(* reg and blk, the last register and block numbered; vars, what is known  *)
(* of a variable; ret, a ret has been emitted; try, the block of the catch *)
(* around, 0 for none; slots and types, the registers and the structs of   *)
(* struct variables, of whatever function; runners, what is merged; fails, *)
(* the compiler has crashed.  The instructions of one idea, such as the    *)
(* address of an item, count as one, and each yields a register.  The      *)
(* function clock, and names for texts, are left out.                      *)
(***************************************************************************)
EXTENDS CompilerParser, Arithmetic, Relation

(* Operands. *)
Register(n) == [k |-> "reg", n |-> n]
Literal(n) == [k |-> "num", n |-> n]
Truth(b) == [k |-> "bit", b |-> b]
Argument(n) == [k |-> "arg", n |-> n]               \* %p0, %p1, ...
Receiver == [k |-> "self"]                          \* %self
Unknown(x) == [k |-> "raw", x |-> x]                \* a name that is not a register

(* Emitting an instruction, and one that yields a value of type t. *)
Emit(e, op, as, x) == [e EXCEPT !.code = Append(@, [op |-> op, d |-> 0, as |-> as, x |-> x])]
As(e, v, t) == [e |-> e, v |-> v, t |-> t]
Yields(e, op, as, x, t) ==
  As([e EXCEPT !.reg = @ + 1, !.code = Append(@, [op |-> op, d |-> e.reg + 1, as |-> as, x |-> x])],
     Register(e.reg + 1), t)
With(r, F(_, _)) == F(r.v, r.e)                     \* a value, and the emitter behind it
(* Several instructions; what they yield is in the registers Next(e, 1), Next(e, 2),
   and so on. *)
Next(e, n) == Register(e.reg + n)
Line(op, as, x) == [op |-> op, as |-> as, x |-> x]
Without == {"store", "br", "cond", "label", "free"}  \* these yield nothing
Lines(e, qs) ==
  FoldLeft(LAMBDA from, q : IF q.op \in Without THEN Emit(from, q.op, q.as, q.x) ELSE Yields(from, q.op, q.as, q.x, "").e, e, qs)
Jump(e, block) == Emit(e, "br", <<>>, block)
Label(e, block) == Emit(e, "label", <<>>, block)

(* What is known of variables: kind is int for a slot of 32 bits, text, list,
   thread, self, or value for a parameter or a variable kept in a register. *)
Variable(kind, v) == [kind |-> kind, v |-> v]
Nothing == Variable("", Unknown(""))
Of(e, x) == IF x \in DOMAIN e.vars THEN e.vars[x] ELSE Nothing

(* Folding of constants, in 64 bits, which no product here leaves; shifts are
   those of 32 bits. *)
Folded(n) == [ok |-> TRUE, n |-> n]
NotFolded == [ok |-> FALSE, n |-> 0]
RECURSIVE ConstEval(_)
ConstEval(x) ==
  IF x.k = "int" THEN Folded(x.n)
  ELSE IF x.k # "bin" THEN NotFolded
  ELSE LET l == ConstEval(x.l)
           r == ConstEval(x.r)
       IN  IF ~l.ok \/ ~r.ok THEN NotFolded
           ELSE CASE x.op = "+" -> Folded(l.n + r.n)
                  [] x.op = "-" -> Folded(l.n - r.n)
                  [] x.op = "*" -> Folded(l.n * r.n)
                  [] x.op = "/" /\ r.n # 0 -> Folded(Quo(l.n, r.n))
                  [] x.op = "%" /\ r.n # 0 -> Folded(Rem(l.n, r.n))
                  [] x.op = "<<" -> Folded(Shl(Wrap(l.n), r.n))
                  [] x.op = ">>" -> Folded(Shr(Wrap(l.n), r.n))
                  [] OTHER -> NotFolded

----------------------------------------------------------------------------
(* Expressions: an operand and its type, i for 32 bits, s for a text, b for one
   bit.                                                                      *)

Comparing == {"==", "!=", "<", "<=", ">", ">="}
Logical(x) == x.k = "un" \/ (x.k = "bin" /\ x.op \in Comparing \cup {"&&", "||"})
Zero(e) == As(e, Literal(0), "i")

RECURSIVE Compile(_, _), CompileCond(_, _)
Adding(done, r) == [e |-> r.e, vs |-> Append(done.vs, r.v), ts |-> Append(done.ts, r.t)]
CompileAll(xs, e) ==
  FoldLeft(LAMBDA done, x : Adding(done, Compile(x, done.e)), [e |-> e, vs |-> <<>>, ts |-> <<>>], xs)

(* A condition, of one bit; both operands of && and || are computed. *)
CompileCond(x, e) ==
  LET l == Compile(x.l, e)
      r == Compile(x.r, l.e)
      cl == CompileCond(x.l, e)
      cr == CompileCond(x.r, cl.e)
      not == CompileCond(x.e, e)
      any == Compile(x, e)
  IN CASE x.k = "bool" -> As(e, Truth(x.b), "b")
       [] x.k = "un" -> Yields(not.e, "bool", <<not.v, Truth(TRUE)>>, "xor", "b")
       [] x.k = "bin" /\ x.op \in Comparing -> Yields(r.e, "icmp", <<l.v, r.v>>, x.op, "b")
       [] x.k = "bin" /\ x.op \in {"&&", "||"} -> Yields(cr.e, "bool", <<cl.v, cr.v>>, x.op, "b")
       [] OTHER -> Yields(any.e, "icmp", <<any.v, Literal(0)>>, "!=", "b")

CompileId(x, e) ==
  LET var == Of(e, x) IN
  CASE var = Nothing -> As(e, Unknown(x), "i")
    [] var.kind = "value" -> As(e, var.v, "i")
    [] var.kind = "self" -> As(e, Unknown("self"), "i")
    [] var.kind = "text" -> Yields(e, "load", <<var.v>>, "ptr", "s")
    [] OTHER -> Yields(e, "load", <<var.v>>, "int", "i")

(* A text added to a text; else folding, else an instruction.  Within a try, a
   divisor of zero leads to the catch. *)
IsText(x, e) == x.k = "str" \/ (x.k = "id" /\ Of(e, x.x).kind = "text")
CompileBin(x, e) ==
  LET Checked(r, divisor) ==
        LET zero == Yields(r.e, "icmp", <<divisor, Literal(0)>>, "==", "b")
            ok == zero.e.blk + 1
        IN  IF x.op \in {"/", "%"} /\ r.e.try # 0
              THEN Label(Emit([zero.e EXCEPT !.blk = ok], "cond", <<zero.v>>, <<e.try, ok>>), ok) ELSE r.e
      Computed(from) ==
        LET l == Compile(x.l, from)
            r == Compile(x.r, l.e)
        IN  Yields(Checked(r, r.v), "arith", <<l.v, r.v>>, x.op, "i")
      joined == CompileAll(<<x.l, x.r>>, e)
      texts == x.op = "+" /\ (IsText(x.l, e) \/ IsText(x.r, e))
      folded == ConstEval(x)
  IN CASE texts /\ joined.ts = <<"s", "s">> -> Yields(joined.e, "strcat", joined.vs, "", "s")
       [] texts /\ joined.ts # <<"s", "s">> -> Computed(joined.e)
       [] OTHER -> IF folded.ok THEN As(e, Literal(Wrap(folded.n)), "i") ELSE Computed(e)

(* Of the list at slot, the items are at part 0 and their number at part 1: the
   address of item x, that item, and the number of items. *)
ItemAddress(slot, x, e) ==
  LET i == Compile(x, Lines(e, <<Line("part", <<slot>>, 0), Line("load", <<Next(e, 1)>>, "ptr")>>))
  IN  Yields(i.e, "elem", <<Next(e, 2), i.v>>, "", "p")
Item(slot, x, e) == With(ItemAddress(slot, x, e), LAMBDA at, e1 : Yields(e1, "load", <<at>>, "int", "i"))
Length(slot, e) == With(Yields(e, "part", <<slot>>, 1, "p"), LAMBDA part, e1 : Yields(e1, "load", <<part>>, "int", "i"))
(* Each append takes memory for twice as many items as there are, and at least
   for one. *)
AppendTo(slot, x, e) ==
  LET items == Next(e, 2)
      n == Next(e, 4)
      moved == Next(e, 8)
      v == Compile(x, Lines(e, <<
             Line("part", <<slot>>, 0), Line("load", <<Next(e, 1)>>, "ptr"),
             Line("part", <<slot>>, 1), Line("load", <<Next(e, 3)>>, "int"),
             Line("arith", <<n, Literal(1)>>, "<<"), Line("icmp", <<Next(e, 5), Literal(1)>>, "<"),
             Line("select", <<Next(e, 6), Literal(1), Next(e, 5)>>, ""), Line("realloc", <<items, Next(e, 7)>>, ""),
             Line("store", <<moved, Next(e, 1)>>, "ptr"), Line("elem", <<moved, n>>, "")>>))
  IN  Zero(Lines(v.e, <<Line("store", <<v.v, Next(e, 9)>>, "int"), Line("arith", <<n, Literal(1)>>, "+"),
                        Line("store", <<Next(v.e, 1), Next(e, 3)>>, "int")>>))

(* taskm.block(t.pid()) and taskm.done(t.pid()) for a thread variable t; other
   uses of taskm are 0. *)
CompileTask(x, e) ==
  LET pid == x.args # <<>> /\ x.args[1].k = "method" /\ x.args[1].m = "pid" /\ Of(e, x.args[1].x).kind = "thread"
      t == Yields(e, "load", <<Of(e, x.args[1].x).v>>, "ptr", "p")
      done == Yields(t.e, "done", <<t.v>>, "", "i")
  IN  IF x.m \notin {"block", "done"} \/ ~pid THEN Zero(e)
      ELSE IF x.m = "block" THEN Zero(Emit(t.e, "block", <<t.v>>, ""))
      ELSE Yields(done.e, "icmp", <<done.v, Literal(0)>>, "!=", "b")
(* t.merge(f) and t.merge(f, x), t.pid(). *)
CompileThread(x, slot, e) ==
  LET f == IF x.args # <<>> /\ x.args[1].k = "id" THEN x.args[1].x ELSE ""
      runner == [f |-> f, given |-> Len(x.args) > 1]
      t == Yields([e EXCEPT !.runners = IF x.m = "merge" THEN Append(@, runner) ELSE @], "load", <<slot>>, "ptr", "p")
      v == IF runner.given THEN Compile(x.args[2], t.e) ELSE Zero(t.e)
  IN CASE x.m = "merge" -> Zero(Emit(v.e, "merge", <<t.v, v.v>>, runner))
       [] x.m = "pid" -> Yields(t.e, "pid", <<t.v>>, "", "i")
       [] OTHER -> Zero(e)

(* x.m and x.m(args): a field of a struct variable or of the receiver, a method of
   a struct, of a channel, of a thread, of a list.  A method of none of them is 0;
   any variable is loaded like a channel first. *)
CompileMethod(x, e) ==
  LET var == Of(e, x.x)
      type == IF x.x \in DOMAIN e.types THEN e.types[x.x] ELSE ""
      fields == IF type \in DOMAIN e.structs THEN e.structs[type] ELSE <<>>
      slotted == x.x \in DOMAIN e.slots
      i == Min({n \in DOMAIN fields : fields[n] = x.m}) - 1
      field == Yields(e, "field", <<e.slots[x.x]>>, <<i, 2>>, "p")
      struct == Yields(e, "whole", <<e.slots[x.x]>>, Len(fields), "t")
      args == CompileAll(x.args, struct.e)
      handle == Yields(e, "load", <<IF var.kind = "self" THEN Unknown("self") ELSE var.v>>, "ptr", "p")
      sent == Compile(x.args[1], handle.e)
  IN CASE x.x = "taskm" -> CompileTask(x, e)
       [] x.x # "taskm" /\ slotted /\ x.m \in Range(fields) -> Yields(field.e, "load", <<field.v>>, "int", "i")
       [] x.x # "taskm" /\ ~slotted /\ var.kind = "self" /\ x.m \in Range(fields) ->
            Yields(e, "extract", <<Receiver>>, i, "i")
       [] x.x # "taskm" /\ slotted /\ x.m \notin Range(fields) /\ type \o "_" \o x.m \in e.methods ->
            Yields(args.e, "call", <<struct.v>> \o args.vs, [f |-> type \o "_" \o x.m, self |-> Len(fields)], "i")
       [] OTHER ->
            CASE var = Nothing -> Zero(e)
              [] var # Nothing /\ x.m = "send" -> Zero(Yields(sent.e, "send", <<handle.v, sent.v>>, "", "i").e)
              [] var # Nothing /\ x.m = "recv" -> Yields(handle.e, "recv", <<handle.v>>, "", "i")
              [] var.kind = "thread" /\ x.m \notin {"send", "recv"} -> CompileThread(x, var.v, handle.e)
              [] var.kind # "thread" /\ x.m = "size" -> Length(var.v, handle.e)
              [] var.kind # "thread" /\ x.m = "get" -> Item(var.v, x.args[1], handle.e)
              [] var.kind # "thread" /\ x.m = "append" -> AppendTo(var.v, x.args[1], handle.e)
              [] OTHER -> Zero(handle.e)

(* sum(g, begin, stop, step) is a loop. *)
SumLoop(g, begin, stop, step, e) ==
  LET cond == e.blk + 1
      total == Next(e, 1)
      var == Next(e, 2)
  IN  As(Lines([e EXCEPT !.blk = @ + 3], <<
           Line("alloca", <<>>, 1), Line("store", <<Literal(0), total>>, "int"),
           Line("alloca", <<>>, 1), Line("store", <<begin, var>>, "int"), Line("br", <<>>, cond),
           Line("label", <<>>, cond), Line("load", <<var>>, "int"), Line("icmp", <<Next(e, 3), stop>>, "<"),
           Line("cond", <<Next(e, 4)>>, <<cond + 1, cond + 2>>),
           Line("label", <<>>, cond + 1), Line("load", <<var>>, "int"), Line("call", <<Next(e, 5)>>, [f |-> g, self |-> 0]),
           Line("load", <<total>>, "int"), Line("arith", <<Next(e, 7), Next(e, 6)>>, "+"),
           Line("store", <<Next(e, 8), total>>, "int"),
           Line("load", <<var>>, "int"), Line("arith", <<Next(e, 9), step>>, "+"), Line("store", <<Next(e, 10), var>>, "int"),
           Line("br", <<>>, cond), Line("label", <<>>, cond + 2), Line("load", <<total>>, "int")>>), Next(e, 11), "i")
CompileSum(x, e) ==
  LET limits == CompileAll(Tail(x.args), e)
  IN  SumLoop(x.args[1].x, limits.vs[1], limits.vs[2], IF Len(x.args) = 4 THEN limits.vs[3] ELSE Literal(1), limits.e)

IsSum(x) == x.f = "sum" /\ Len(x.args) >= 3 /\ x.args[1].k = "id"
CompileCall(x, e) ==
  LET args == CompileAll(x.args, e) IN Yields(args.e, "call", args.vs, [f |-> x.f, self |-> 0], "i")

Compile(x, e) ==
  CASE x.k = "int" -> As(e, Literal(x.n), "i")
    [] x.k = "str" -> Yields(e, "text", <<>>, x.s, "s")
    [] x.k = "bool" -> As(e, Truth(x.b), "b")
    [] x.k = "id" -> CompileId(x.x, e)
    [] Logical(x) -> CompileCond(x, e)
    [] x.k = "bin" /\ ~Logical(x) -> CompileBin(x, e)
    [] x.k = "method" -> CompileMethod(x, e)
    [] x.k = "idx" -> IF Of(e, x.e) = Nothing THEN Zero(e) ELSE Item(Of(e, x.e).v, x.i, e)
    [] x.k = "call" -> IF IsSum(x) THEN CompileSum(x, e) ELSE CompileCall(x, e)
    [] OTHER -> Zero(e)                              \* a list or a struct where none can be

----------------------------------------------------------------------------
(* Statements.                                                              *)

Known(e, x, kind, v) == [e EXCEPT !.vars = (x :> Variable(kind, v)) @@ @]

EmitPrintln(args, e) ==
  LET vs == CompileAll(args, e)
      InWords(done, v, i) ==
        LET word == Yields(done.e, "word", <<v>>, "", "s") IN
        IF vs.ts[i] = "b" THEN [e |-> word.e, vs |-> Append(done.vs, word.v)] ELSE [done EXCEPT !.vs = Append(@, v)]
      words == FoldLeftDomain(LAMBDA done, i : InWords(done, vs.vs[i], i), [e |-> vs.e, vs |-> <<>>], args)
  IN  Yields(words.e, "print", words.vs, [i \in DOMAIN args |-> IF vs.ts[i] = "i" THEN "i" ELSE "p"], "i").e

(* A list has a slot for its items and one for their number; only what is written
   in brackets can be its first value. *)
EmitList(s, e) ==
  LET n == Len(s.e.items)
      slot == Next(e, 1)
      memory == Next(e, 2)
      StoreItem(i, v, from) ==
        IF i = 1 THEN Emit(from, "store", <<v, memory>>, "int")
        ELSE Lines(from, <<Line("elem", <<memory, Literal(i - 1)>>, ""), Line("store", <<v, Next(from, 1)>>, "int")>>)
      StoreParts(from) ==
        Lines(from, <<Line("part", <<slot>>, 0), Line("store", <<memory, Next(from, 1)>>, "ptr"),
                      Line("part", <<slot>>, 1), Line("store", <<Literal(n), Next(from, 2)>>, "int")>>)
      items == FoldLeftDomain(LAMBDA from, i : With(Compile(s.e.items[i], from), LAMBDA v, e1 : StoreItem(i, v, e1)),
                              Lines(e, <<Line("alloca", <<>>, 2), Line("malloc", <<>>, n)>>), s.e.items)
  IN  IF s.e.k = "list" THEN Known(StoreParts(items), s.x, "list", slot) ELSE [e EXCEPT !.fails = TRUE]
EmitStruct(s, e) ==
  LET n == Len(e.structs[s.t])
      slot == Next(e, 1)
      StoreField(i, v, from) ==
        Lines(from, <<Line("field", <<slot>>, <<i - 1, n>>), Line("store", <<v, Next(from, 1)>>, "int")>>)
      fields == FoldLeftDomain(LAMBDA from, i : With(Compile(s.e.fields[i], from), LAMBDA v, e1 : StoreField(i, v, e1)),
                               Lines(e, <<Line("alloca", <<>>, n)>>), IF s.e.k = "lit" THEN s.e.fields ELSE <<>>)
  IN  Known([fields EXCEPT !.slots = (s.x :> slot) @@ @, !.types = (s.x :> s.t) @@ @], s.x, "int", slot)
(* A thread or a channel, whatever its first value. *)
EmitHandle(s, e, op, kind) ==
  Known(Lines(e, <<Line("alloca", <<>>, 1), Line(op, <<>>, ""), Line("store", <<Next(e, 2), Next(e, 1)>>, "ptr")>>),
        s.x, kind, Next(e, 1))
(* A variable that no assignment is known of is its first value. *)
EmitSlot(s, e) ==
  LET text == s.t = "String"
      v == Compile(s.e, Lines(e, <<Line("alloca", <<>>, 1)>>))
  IN  Known(Emit(v.e, "store", <<v.v, Next(e, 1)>>, IF text THEN "ptr" ELSE "int"), s.x, IF text THEN "text" ELSE "int", Next(e, 1))
EmitDecl(s, e) ==
  CASE s.t = "List<int>" -> EmitList(s, e)
    [] s.t = "thread" -> EmitHandle(s, e, "spawn", "thread")
    [] s.t \in DOMAIN e.structs \ {"List<int>", "thread"} -> EmitStruct(s, e)
    [] OTHER ->
         IF s.t = "channel" THEN EmitHandle(s, e, "chan", "int")
         ELSE IF s.t = "int" /\ s.x \notin e.assigned /\ ~e.ret
           THEN With(Compile(s.e, e), LAMBDA v, e1 : Known(e1, s.x, "value", v))
         ELSE EmitSlot(s, e)

(* x = v and x[i] = v, where the address comes before v; nothing for an unknown x. *)
EmitAssign(s, e) ==
  LET indexed == s.to.k = "idx"
      var == Of(e, IF indexed THEN s.to.e ELSE s.to.x)
  IN CASE var = Nothing -> e
       [] var # Nothing /\ indexed ->
            With(ItemAddress(var.v, s.to.i, e), LAMBDA at, e1 : With(Compile(s.e, e1), LAMBDA v, e2 : Emit(e2, "store", <<v, at>>, "int")))
       [] var # Nothing /\ ~indexed ->
            With(Compile(s.e, e), LAMBDA v, e1 : Emit(e1, "store", <<v, var.v>>, IF var.kind = "text" THEN "ptr" ELSE "int"))
EmitDelete(x, e) ==
  LET var == Of(e, x)
  IN CASE var = Nothing -> e
       [] var.kind = "list" ->
            Lines(e, <<Line("part", <<var.v>>, 0), Line("load", <<Next(e, 1)>>, "ptr"), Line("free", <<Next(e, 2)>>, "")>>)
       [] OTHER -> Emit(e, "free", <<var.v>>, "")

RECURSIVE EmitStmt(_, _)
(* What follows a return is skipped, but not in try and catch. *)
EmitBlock(b, e) == FoldLeft(LAMBDA from, s : IF from.ret THEN from ELSE EmitStmt(s, from), e, b)
EmitAll(b, e) == FoldLeft(LAMBDA from, s : EmitStmt(s, from), e, b)
(* Going to block next unless what is emitted returned; the block b. *)
Leave(e, next) == IF e.ret THEN e ELSE Jump(e, next)
\* Mutant: what is emitted behind an if that may return is skipped.
ArmReturned(e, block, b, next) == Leave(EmitBlock(b, Label(e, block)), next)
Arm(e, block, b, next) == [Leave(EmitBlock(b, Label(e, block)), next) EXCEPT !.ret = e.ret]
EmitTry(s, e) ==
  LET catch == e.blk + 1
      after == e.blk + 2
      body == Leave(EmitAll(s.b, [e EXCEPT !.blk = after, !.try = catch]), after)
  IN  Label(Leave(EmitAll(s.c, Label([body EXCEPT !.try = e.try], catch)), after), after)
EmitIf(s, e) ==
  LET then == e.blk + 1
      end == e.blk + 2
      else == IF s.b = <<>> THEN end ELSE e.blk + 3
      c == CompileCond(s.c, [e EXCEPT !.blk = else])
      taken == Arm(Emit(c.e, "cond", <<c.v>>, <<then, else>>), then, s.a, end)
  IN  Label(IF s.b = <<>> THEN taken ELSE Arm(taken, else, s.b, end), end)
EmitWhile(s, e) ==
  LET cond == e.blk + 1
      c == CompileCond(s.c, Label(Jump([e EXCEPT !.blk = cond + 2], cond), cond))
  IN  Label(Arm(Emit(c.e, "cond", <<c.v>>, <<cond + 1, cond + 2>>), cond + 1, s.b, cond), cond + 2)
EmitStmt(s, e) ==
  CASE s.k = "expr" -> Compile(s.e, e).e
    [] s.k = "return" -> With(Compile(s.e, e), LAMBDA v, e1 : [Emit(e1, "ret", <<v>>, "") EXCEPT !.ret = TRUE])
    [] s.k = "println" -> EmitPrintln(s.args, e)
    [] s.k = "decl" -> EmitDecl(s, e)
    [] s.k = "assign" -> EmitAssign(s, e)
    [] s.k = "delete" -> EmitDelete(s.e, e)
    [] s.k = "try" -> EmitTry(s, e)
    [] s.k = "if" -> EmitIf(s, e)
    [] s.k = "while" -> EmitWhile(s, e)

----------------------------------------------------------------------------
(* Functions and programs.                                                  *)

(* The variables assigned to; what a try holds is not looked at. *)
RECURSIVE ScanAssigned(_)
ScanAssigned(b) ==
  UNION {CASE s.k = "assign" /\ s.to.k = "id" -> {s.to.x}
           [] s.k = "if" -> ScanAssigned(s.a) \cup ScanAssigned(s.b)
           [] s.k = "while" -> ScanAssigned(s.b)
           [] OTHER -> {} : s \in Range(b)}

(* The expressions the analysis of a function looks at: not those in calls, in
   comparisons, or behind !, && and ||. *)
RECURSIVE AnalyzeExpr(_), AnalyzeBlock(_)
AnalyzeExpr(x) ==
  {x} \cup UNION {AnalyzeExpr(y) :
    y \in CASE x.k = "method" -> Range(x.args)
            [] x.k = "bin" /\ ~Logical(x) -> {x.l, x.r}
            [] x.k = "idx" -> {x.i}
            [] x.k = "list" -> Range(x.items)
            [] x.k = "lit" -> Range(x.fields)
            [] OTHER -> {}}
AnalyzeBlock(b) ==
  UNION {CASE s.k = "println" -> UNION {AnalyzeExpr(x) : x \in Range(s.args)}
           [] s.k \in {"decl", "return", "expr"} -> AnalyzeExpr(s.e)
           [] s.k = "assign" -> AnalyzeExpr(s.e) \cup IF s.to.k = "idx" THEN AnalyzeExpr(s.to.i) ELSE {}
           [] s.k = "if" -> AnalyzeExpr(s.c) \cup AnalyzeBlock(s.a) \cup AnalyzeBlock(s.b)
           [] s.k = "while" -> AnalyzeExpr(s.c) \cup AnalyzeBlock(s.b)
           [] s.k = "try" -> AnalyzeBlock(s.b) \cup AnalyzeBlock(s.c)
           [] OTHER -> {} : s \in Range(b)}
Callees(b) == {x.f : x \in {y \in AnalyzeBlock(b) : y.k = "call"}}
(* What LLVM may assume of f: it is never called while it runs; calling it has no
   effect and reads no memory. *)
NoRecurse(f, bodies) ==
  LET calls == [x, y \in DOMAIN bodies |-> y \in Callees(bodies[x])]
  IN  /\ \A x \in AnalyzeBlock(bodies[f]) : x.k # "method"
      /\ ~TransitiveClosure(calls, DOMAIN bodies)[f, f]
MemoryNone(f, bodies) == \A x \in AnalyzeBlock(bodies[f]) : x.k \notin {"call", "idx", "list", "lit"}

(* A function: the fields of its receiver, the number of its parameters with it. *)
Compiled(name, self, n, code, bodies) ==
  [name |-> name, self |-> self, n |-> n, code |-> code,
   once |-> NoRecurse(name, bodies), pure |-> MemoryNone(name, bodies)]
EmitFunc(f, e) ==
  LET off == IF f.self = "" THEN 0 ELSE 1
      ps == [x \in Range(f.ps) |-> Variable("value", Argument(Max({i \in DOMAIN f.ps : f.ps[i] = x}) - 1 + off))]
      me == IF f.self = "" THEN <<>> ELSE f.me :> Variable("self", Receiver)
      types == IF f.self = "" THEN e.types ELSE (f.me :> f.self) @@ e.types
      end == EmitBlock(f.body, [e EXCEPT !.code = <<>>, !.blk = 0, !.vars = ps @@ me, !.types = types, !.ret = FALSE])
  IN  IF end.ret THEN end ELSE Emit(end, "ret", <<Literal(0)>>, "")

(* main is what the last function of that name does, behind the others; it starts
   with the variables of the last of them. *)
LastOf(xs, name) == xs[Max({i \in DOMAIN xs : xs[i].name = name})]
Start(p, bodies) ==
  [code |-> <<>>, reg |-> 0, blk |-> 0, vars |-> <<>>, ret |-> FALSE, try |-> 0, slots |-> <<>>, types |-> <<>>,
   structs |-> [x \in {d.name : d \in Range(p.structs)} |-> LastOf(p.structs, x).fields],
   methods |-> {f.name : f \in {g \in Range(p.funcs) : g.self # ""}},
   assigned |-> ScanAssigned(bodies["main"]) \cup UNION {ScanAssigned(f.body) : f \in Range(p.funcs)},
   runners |-> <<>>, fails |-> FALSE]
EmitProgram(p) ==
  LET names == {f.name : f \in Range(p.funcs)} \cup {"main"}
      bodies == [x \in names |-> IF \E f \in Range(p.funcs) : f.name = x THEN LastOf(p.funcs, x).body ELSE <<>>]
      Added(done, f) ==
        LET e == EmitFunc(f, done.e)
            self == IF f.self = "" THEN 0 ELSE Len(e.structs[f.self])
            n == Len(f.ps) + IF f.self = "" THEN 0 ELSE 1
        IN  [e |-> e, fs |-> Append(done.fs, Compiled(f.name, self, n, e.code, bodies))]
      others == FoldLeft(Added, [e |-> Start(p, bodies), fs |-> <<>>], SelectSeq(p.funcs, LAMBDA f : f.name # "main"))
      main == Emit(EmitBlock(bodies["main"], [others.e EXCEPT !.code = <<>>, !.ret = FALSE]), "ret", <<Literal(0)>>, "")
  IN  [fs |-> Append(others.fs, Compiled("main", 0, 0, main.code, bodies)), runners |-> main.runners, fails |-> main.fails]
=============================================================================
