----------------------------- MODULE Typecheck ------------------------------
(***************************************************************************)
(* The type checker: internal/lang/typecheck.go.  A program is accepted    *)
(* when Accepts(prog); only an accepted program is run.                    *)
(*                                                                         *)
(* cx is the checker: the declarations by name, the return type (curRet),  *)
(* the loop depth, the type arguments (curSubst) and the type variables.   *)
(* sc is a chain of scopes, innermost last: name -> [t, init, const].  A   *)
(* block opens no scope of its own; only functions, for and catch do.      *)
(***************************************************************************)
EXTENDS Signatures, SequencesExt

Declared(sc, x) == \E i \in DOMAIN sc : x \in DOMAIN sc[i]
At(sc, x) == CHOOSE i \in DOMAIN sc : x \in DOMAIN sc[i] /\ \A j \in i + 1 .. Len(sc) : x \notin DOMAIN sc[j]
Find(sc, x) == sc[At(sc, x)][x]
Var(t, init, const) == [t |-> t, init |-> init, const |-> const]

Rejected == <<>>                 \* no scope: the checker stopped with an error
Inner(sc, x, t) == Append(sc, x :> Var(t, TRUE, FALSE))
Leave(sc, depth) == IF sc = Rejected THEN Rejected ELSE SubSeq(sc, 1, depth)
Declare(sc, x, v) ==
  IF x \in DOMAIN Last(sc) THEN Rejected
  ELSE [sc EXCEPT ![Len(sc)] = (x :> v) @@ @]

(* All impls of a type: its own and those for an interface. *)
ImplsOf(cx, type) == SelectSeq(cx.impls, LAMBDA im : im.type = type)
Methods(cx, type, name, self) ==
  {f \in UNION {Range(im.ms) : im \in Range(ImplsOf(cx, type))} : f.name = name /\ HasSelf(f) = self}
FirstMethod(cx, type, name, self) ==
  Head(SelectSeq(FlattenSeq([i \in DOMAIN cx.impls |-> IF cx.impls[i].type = type THEN cx.impls[i].ms ELSE <<>>]),
                 LAMBDA f : f.name = name /\ HasSelf(f) = self))
SelfMethod(cx, type, name) == FirstMethod(cx, type, name, TRUE)
StaticMethod(cx, type, name) == FirstMethod(cx, type, name, FALSE)

OpMethods == ("+" :> "add") @@ ("-" :> "sub") @@ ("*" :> "mul") @@ ("/" :> "div") @@ ("%" :> "mod")
             @@ ("==" :> "eq") @@ ("!=" :> "ne") @@ ("<" :> "lt") @@ ("<=" :> "le")
             @@ (">" :> "gt") @@ (">=" :> "ge")

Listed(S) == FoldSet(LAMBDA x, q : Append(q, x), <<>>, S)      \* a set in some order

OpIfaces == ("AddOperation" :> "add") @@ ("SubOperation" :> "sub") @@ ("MulOperation" :> "mul")
            @@ ("DivOperation" :> "div") @@ ("ModOperation" :> "mod") @@ ("NegOperation" :> "neg")
            @@ ("EqOperation" :> "eq") @@ ("NeOperation" :> "ne") @@ ("LtOperation" :> "lt")
            @@ ("LeOperation" :> "le") @@ ("GtOperation" :> "gt") @@ ("GeOperation" :> "ge")
BuiltinIfaces ==
  [i \in DOMAIN OpIfaces |->
     LET m == OpIfaces[i]
     IN  Iface(i, <<>>, FALSE, <<MSig(m, IF m = "neg" THEN 1 ELSE 2, TRUE,
            IF m \in {"eq", "ne", "lt", "le", "gt", "ge"} THEN Nm("bool") ELSE Nm("Self"))>>)]
  @@ [Operation |-> Iface("Operation", Listed(DOMAIN OpIfaces), FALSE, <<>>),
      ClegClickable |-> Iface("ClegClickable", <<>>, TRUE,
         <<MSig("onClicked", 1, TRUE, Nm("void")), MSig("onPressed", 1, TRUE, Nm("void"))>>)]

(* The methods of an interface and of those it expands: one level (calls and
   arguments) or, for an impl declaration, all levels. *)
OneLevel(cx, iface) ==
  iface.ms \o FlattenSeq([i \in DOMAIN iface.expands |->
     IF iface.expands[i] \in DOMAIN cx.ifaces THEN cx.ifaces[iface.expands[i]].ms ELSE <<>>])
RECURSIVE Expanded(_, _)
Expanded(cx, iface) ==
  iface.ms \o FlattenSeq([i \in DOMAIN iface.expands |->
     IF \A j \in 1 .. i : iface.expands[j] \in DOMAIN cx.ifaces     \* an unknown name ends the list
       THEN Expanded(cx, cx.ifaces[iface.expands[i]]) ELSE <<>>])

CheckImplements(cx, type, iname) ==
  LET iface == cx.ifaces[iname]
  IN  iface.partial \/ \A sig \in Range(OneLevel(cx, iface)) : Methods(cx, type, sig.name, TRUE) # {}

(* The type arguments of an instance; those of the method being checked win. *)
InstanceSubst(cx, def, recv) ==
  cx.subst @@ [p \in Range(def.tps) |->
     LET i == CHOOSE j \in DOMAIN def.tps : def.tps[j] = p
     IN  IF i \in DOMAIN recv.args THEN recv.args[i] ELSE AnyT]

RECURSIVE MemberType(_, _, _)
MemberType(recv, name, cx) ==
  CASE recv.k \in {"ptr", "Copyd"} -> MemberType(recv.e, name, cx)
    [] recv.k \in {"FuncBuffer", "Task"} ->
         IF name \in {"head", "tail"} THEN ListT(AnyT) ELSE IF name = "log" THEN ListT(StrT) ELSE Bad
    [] recv.k = "struct" ->
         IF "fields" \in DOMAIN recv
           THEN IF name \in DOMAIN recv.fields THEN recv.fields[name] ELSE Bad
         ELSE IF recv.f \notin DOMAIN cx.structs THEN Bad
         ELSE LET def == cx.structs[recv.f]
                  field == {p \in Range(def.fields) : p.x = name}
              IN  IF field = {} THEN Bad
                  ELSE SubstType((CHOOSE p \in field : TRUE).t, cx, InstanceSubst(cx, def, recv))
    [] OTHER -> Bad

(* Arguments against declared parameters, each resolved under subst. *)
ArgsFit(args, params, cx, subst) ==
  /\ Len(args) = Len(params)
  /\ \A i \in DOMAIN args :
       LET p == SubstType(params[i].t, cx, subst) IN p # Bad /\ Assignable(args[i], p)

(* A function without a result type has the type of an execution record. *)
ResultOf(f, cx, subst, otherwise) == IF f.ret = None THEN otherwise ELSE SubstType(f.ret, cx, subst)

RECURSIVE MethodType(_, _, _, _)
MethodType(recv, name, args, cx) ==
  CASE recv.k = "ptr" -> MethodType(recv.e, name, args, cx)
    [] recv.k = "Copyd" ->
         IF name = "ptr" THEN IF args = <<>> THEN recv.e ELSE Bad
         ELSE MethodType(recv.e, name, args, cx)
    [] recv.k = "interface" ->
         LET sigs == {s \in Range(OneLevel(cx, cx.ifaces[recv.f])) : s.name = name}
             sig == CHOOSE s \in sigs : TRUE
         IN  IF sigs = {} \/ Len(args) # sig.n - (IF sig.self THEN 1 ELSE 0) THEN Bad
             ELSE IF sig.ret \in {None, Nm("void")} THEN NilT
             ELSE IF sig.ret = Nm("Self") THEN AnyT ELSE SubstType(sig.ret, cx, <<>>)
    [] recv.k = "library" ->
         LET fs == {f \in Range(cx.libs[recv.f].ms) : f.name = name}
             f == CHOOSE g \in fs : TRUE
             Wide(t) == IF t = Nm("f32") THEN Nm("float") ELSE t
         IN  IF fs = {} \/ ~ArgsFit(args, [i \in DOMAIN f.ps |-> Param(f.ps[i].x, Wide(f.ps[i].t))], cx, <<>>)
               THEN Bad
             ELSE IF f.ret \in {None, Nm("void")} THEN NilT ELSE SubstType(Wide(f.ret), cx, <<>>)
    [] recv.k = "struct" ->
         LET subst == IF recv.f \in DOMAIN cx.structs
                        THEN InstanceSubst(cx, cx.structs[recv.f], recv) ELSE cx.subst
             f == SelfMethod(cx, recv.f, name)
         IN  IF Methods(cx, recv.f, name, TRUE) = {} \/ ~ArgsFit(args, Tail(f.ps), cx, subst)
               THEN Bad ELSE ResultOf(f, cx, subst, T("FuncBuffer"))
    [] OTHER ->
         LET ms == MethodsOf(recv)
         IN  IF name \notin DOMAIN ms THEN Bad
             ELSE IF Apply(ms[name], args) = Bad \/ ~Merges(recv, name, args, cx) THEN Bad
             ELSE ms[name].ret

(* Overloads: the definition with the highest score, the first among equals. *)
AllDefs(cx, name) ==
  (IF name \in DOMAIN cx.fns THEN <<cx.fns[name]>> ELSE <<>>)
  \o (IF name \in DOMAIN cx.overs THEN cx.overs[name] ELSE <<>>)
ScoreT(f, args, cx) ==
  LET One(i) == LET s == SubstType(f.ps[i].t, cx, cx.subst)
                    p == IF s = Bad THEN AnyT ELSE s
                IN  IF args[i].k = p.k THEN 10 ELSE IF Assignable(args[i], p) THEN 5 ELSE -1
  IN  IF Len(f.ps) # Len(args) \/ \E i \in DOMAIN args : One(i) = -1 THEN -1
      ELSE FoldFunction(+, 0, [i \in DOMAIN args |-> One(i)])
BestMatchT(defs, args, cx) ==         \* 0: no definition fits
  LET score == [i \in DOMAIN defs |-> ScoreT(defs[i], args, cx)]
      fit == {i \in DOMAIN defs : score[i] >= 0 /\ \A j \in DOMAIN defs :
                score[j] < score[i] \/ (score[j] = score[i] /\ i <= j)}
  IN  IF fit = {} THEN 0 ELSE CHOOSE i \in fit : TRUE

(* The type parameters of a generic function, from the types of its arguments. *)
RECURSIVE Mentions(_, _)
Mentions(t, p) == CASE t.k = "app" -> \E i \in DOMAIN t.args : Mentions(t.args[i], p)
                    [] t.k = "ref" -> Mentions(t.t, p)
                    [] OTHER -> t.b = p
GenSubst(f, args) ==
  LET users(p) == {i \in DOMAIN f.ps : Mentions(f.ps[i].t, p)}
  IN  [p \in {q \in Range(f.tps) : users(q) # {}} |-> args[Min(users(p))]]

(* checkCallArgs: a struct given for an interface must implement all of it. *)
CallArgs(f, args, cx) ==
  LET subst == GenSubst(f, args)
  IN  /\ Len(args) = Len(f.ps)
      /\ \A i \in DOMAIN args :
           LET p == SubstType(f.ps[i].t, cx, subst)
           IN  /\ p # Bad
               /\ IF p.k = "interface" /\ args[i].k = "struct"
                    THEN CheckImplements(cx, args[i].f, p.f) ELSE Assignable(args[i], p)

RECURSIVE Infer(_, _, _)
InferAll(es, cx, sc) == [i \in DOMAIN es |-> Infer(es[i], cx, sc)]
SomeBad(ts) == \E i \in DOMAIN ts : ts[i] = Bad

InferCall(e, cx, sc) ==
  LET args == InferAll(e.args, cx, sc)
      recv == Infer(e.f.e, cx, sc)
      x == e.f.x
      defs == AllDefs(cx, x)
      best == BestMatchT(defs, args, cx)
      f == defs[best]
      Result == LET ts == GenSubst(f, args)
                IN  ResultOf(f, cx, IF f.tps = <<>> THEN <<>> ELSE ts, T("FuncBuffer"))
  IN IF SomeBad(args) THEN Bad
     ELSE IF e.f.k = "mem"
       THEN IF recv = Bad \/ e.sign \notin {"", "styleConfigure"} THEN Bad
            ELSE MethodType(recv, x, args, cx)
     ELSE IF e.f.k # "id" THEN Bad
     ELSE IF e.sign # ""
       THEN IF /\ x \in DOMAIN cx.fns /\ CallArgs(cx.fns[x], args, cx)
               /\ e.sign = "styleConfigure" \/ Declared(sc, e.sign)
            THEN ResultOf(cx.fns[x], cx, cx.subst, NilT) ELSE Bad
     ELSE IF Declared(sc, x) /\ Find(sc, x).t.k = "fn"
       THEN IF Find(sc, x).t.ret = None THEN AnyT ELSE SubstType(Find(sc, x).t.ret, cx, cx.subst)
     ELSE IF defs # <<>>
       THEN IF best = 0 \/ ~CallArgs(f, args, cx) THEN Bad ELSE Result
     ELSE IF x \in DOMAIN Builtins THEN Apply(Builtins[x], args)
     ELSE Bad

InferScope(e, cx, sc) ==
  LET args == InferAll(e.args, cx, sc)
      generic == [p \in UNION {Range(im.tps) : im \in Range(ImplsOf(cx, e.s))} |-> AnyT]
      f == StaticMethod(cx, e.s, e.x)
  IN IF SomeBad(args) THEN Bad
     ELSE IF e.s \in DOMAIN Statics
       THEN IF e.x \in DOMAIN Statics[e.s] THEN Apply(Statics[e.s][e.x], args) ELSE Bad
     ELSE IF Methods(cx, e.s, e.x, FALSE) = {} \/ ~ArgsFit(args, f.ps, cx, generic) THEN Bad
     ELSE ResultOf(f, cx, generic, T("FuncBuffer"))

(* Which operands an operator takes and what it yields. *)
Comparable(l, r) ==
  \/ IsNumeric(l) /\ IsNumeric(r)
  \/ l.k = r.k /\ l.k \in {"String", "bool", "struct"}
  \/ {l.k, r.k} \cap {"interface{}", "null", "ptr", "Copyd"} # {}
\* Mutant: the type of the left operand.
WiderLeft(l, r) == l
Wider(l, r) == IF "float" \in {l.k, r.k} THEN FloatT ELSE IntT
BinType(op, l, r, cx) ==
  LET own == Methods(cx, l.f, OpMethods[op], TRUE)
  IN CASE op \in {"&&", "||"} -> IF l = BoolT /\ r = BoolT THEN BoolT ELSE Bad
       [] op \in DOMAIN OpMethods /\ l.k = "struct" /\ r.k = "struct" /\ l.f = r.f
          /\ \E f \in own : Len(f.ps) = 2 ->
            SubstType((CHOOSE f \in own : Len(f.ps) = 2).ret, cx, <<>>)
       [] op = "+" /\ "String" \in {l.k, r.k} -> StrT
       [] op \in {"<<", ">>"} -> IF l = IntT /\ r = IntT THEN IntT ELSE Bad
       [] op \in {"==", "!="} -> IF Comparable(l, r) THEN BoolT ELSE Bad
       [] op \in {"<", "<=", ">", ">="} ->
            IF (IsNumeric(l) /\ IsNumeric(r)) \/ (l = StrT /\ r = StrT) THEN BoolT ELSE Bad
       [] OTHER -> IF IsNumeric(l) /\ IsNumeric(r) THEN Wider(l, r) ELSE Bad

UnType(op, t, cx) ==
  LET neg == IF t.k = "struct" THEN Methods(cx, t.f, "neg", TRUE) ELSE {}
  IN CASE op = "*" -> IF t.k = "List" THEN t.e ELSE Bad
       [] op = "!" -> IF t = BoolT THEN BoolT ELSE Bad
       [] OTHER -> IF neg # {} THEN SubstType((CHOOSE f \in neg : TRUE).ret, cx, <<>>)
                   ELSE IF IsNumeric(t) THEN t ELSE Bad

(* Libraries, the language's own names, variables in scope that have a value,
   functions: in this order. *)
InferId(x, cx, sc) ==
  CASE x \in DOMAIN cx.libs -> LibT(x)
    [] x \in {"true", "false"} -> BoolT
    [] x \in {"memory", "GlobalMemory"} -> T("memory")
    [] x = "taskm" -> T("taskm")
    [] x = "DynamicStackAndHeap" -> StrT
    [] OTHER -> IF Declared(sc, x) THEN IF Find(sc, x).init THEN Find(sc, x).t ELSE Bad
                ELSE IF x \in DOMAIN cx.fns \cup FunctionValues THEN FuncT(x) ELSE Bad

Literals == [int |-> IntT, float |-> FloatT, str |-> StrT, bool |-> BoolT, null |-> NullT]

Infer(e, cx, sc) ==
  CASE e.k \in DOMAIN Literals -> Literals[e.k]
    [] e.k = "id" -> InferId(e.x, cx, sc)
    [] e.k = "list" ->
         LET ts == InferAll(e.items, cx, sc)
             elem == FoldLeft(Join, None, ts)
         IN  IF SomeBad(ts) THEN Bad ELSE ListT(IF elem = None THEN AnyT ELSE elem)
    [] e.k = "lit" ->
         LET ts == [i \in DOMAIN e.fields |-> Infer(e.fields[i][2], cx, sc)]
             last(f) == Max({i \in DOMAIN e.fields : e.fields[i][1] = f})
         IN  IF SomeBad(ts) THEN Bad
             ELSE AnonT([f \in {p[1] : p \in Range(e.fields)} |-> ts[last(f)]])
    [] e.k = "new" ->
         LET t == SubstType(e.t, cx, cx.subst)
         IN  IF t = Bad \/ (e.size # None /\ Infer(e.size, cx, sc) = Bad) THEN Bad
             ELSE PtrT(IF e.size = None THEN t ELSE ListT(t))
    [] e.k = "un" -> LET t == Infer(e.e, cx, sc) IN IF t = Bad THEN Bad ELSE UnType(e.op, t, cx)
    [] e.k = "bin" -> LET l == Infer(e.l, cx, sc)
                          r == Infer(e.r, cx, sc)
                      IN  IF l = Bad \/ r = Bad THEN Bad ELSE BinType(e.op, l, r, cx)
    [] e.k = "mem" -> LET t == Infer(e.e, cx, sc) IN IF t = Bad THEN Bad ELSE MemberType(t, e.x, cx)
    [] e.k = "call" -> InferCall(e, cx, sc)
    [] e.k = "scope" -> InferScope(e, cx, sc)
    [] e.k = "idx" -> LET t == Infer(e.e, cx, sc)
                      IN  IF t.k = "List" /\ Infer(e.i, cx, sc) = IntT THEN t.e ELSE Bad

RECURSIVE CheckBlock(_, _, _)

(* A literal .{...} that initialises a variable of a named struct. *)
LitFits(e, t, cx, sc) ==
  LET def == cx.structs[t.f]
      Name(i) == IF e.fields[i][1] = "" /\ i <= Len(def.fields) THEN def.fields[i].x ELSE e.fields[i][1]
      Want(i) == {p.t : p \in {q \in Range(def.fields) : q.x = Name(i)}}
  IN  /\ Len(e.fields) = Len(def.fields)
      /\ \A i \in DOMAIN e.fields :
           \E w \in Want(i) : LET v == Infer(e.fields[i][2], cx, sc)
                                  p == SubstType(w, cx, InstanceSubst(cx, def, t))
                              IN  v # Bad /\ p # Bad /\ Assignable(v, p)

CheckDecl(s, cx, sc) ==
  LET copyd == IF s.t.k = "name" THEN Suffixed(s.t.b, "Copyd") ELSE IF s.t.k = "ref" THEN Nm("&") ELSE s.t
      t == SubstType(IF s.decor = "copyd" THEN copyd ELSE s.t, cx, cx.subst)
      v == Infer(s.e, cx, sc)
      ok == IF s.e.k = "lit" /\ t.k = "struct" THEN LitFits(s.e, t, cx, sc)
            ELSE v # Bad /\ Assignable(v, t)
  IN  IF t = Bad \/ (s.e # None /\ ~ok) THEN Rejected
      ELSE Declare(sc, s.x, Var(t, s.e # None \/ t.k \in {"struct", "ptr"}, s.decor = "const"))

CheckAssign(s, cx, sc) ==
  LET v == Infer(s.e, cx, sc)
      x == s.to.x
      on == Infer(s.to.e, cx, sc)
      at == Infer(s.to.i, cx, sc)
      field == MemberType(on, x, cx)
  IN IF v = Bad THEN Rejected
     ELSE CASE s.to.k = "id" ->
            IF Declared(sc, x) /\ ~Find(sc, x).const /\ Assignable(v, Find(sc, x).t)
              THEN [sc EXCEPT ![At(sc, x)][x].init = TRUE] ELSE Rejected
       [] s.to.k = "idx" ->
            IF /\ on # Bad /\ at # Bad
               /\ \/ on.k = "HashTable" /\ Assignable(at, on.key)
                  \/ on.k = "List" /\ at = IntT /\ Assignable(v, on.e)
              THEN sc ELSE Rejected
       [] s.to.k = "mem" ->
            IF /\ on.k = "struct" /\ on.f \in DOMAIN cx.structs
               /\ field # Bad /\ Assignable(v, field)
              THEN sc ELSE Rejected
       [] OTHER -> Rejected

CheckStmt(s, cx, sc) ==
  LET t == Infer(s.e, cx, sc)
      iscond == Infer(s.c, cx, sc) = BoolT
      loop == [cx EXCEPT !.loop = @ + 1]
  IN CASE s.k \in {"expr", "delete", "log"} -> IF t = Bad THEN Rejected ELSE sc
       [] s.k = "return" ->
            IF s.e = None THEN sc
            ELSE IF t = Bad \/ (cx.ret # None /\ ~Assignable(t, cx.ret)) THEN Rejected ELSE sc
       [] s.k = "break" -> IF cx.loop = 0 THEN Rejected ELSE sc
       [] s.k = "if" ->
            IF ~iscond THEN Rejected
            ELSE LET then == CheckBlock(s.a, cx, sc)
                 IN  IF then = Rejected THEN Rejected ELSE CheckBlock(s.b, cx, then)
       [] s.k = "while" -> IF iscond THEN CheckBlock(s.b, loop, sc) ELSE Rejected
       [] s.k = "for" ->
            IF t.k # "List" THEN Rejected
            ELSE Leave(CheckBlock(s.b, loop, Inner(sc, s.x, t.e)), Len(sc))
       [] s.k = "try" ->
            LET body == CheckBlock(s.b, cx, sc)
                ct == SubstType(s.t, cx, <<>>)
            IN  IF body = Rejected \/ ct = Bad THEN Rejected
                ELSE Leave(CheckBlock(s.c, cx, Inner(body, s.x, ct)), Len(sc))
       [] s.k = "decl" -> CheckDecl(s, cx, sc)
       [] s.k = "assign" -> CheckAssign(s, cx, sc)

CheckBlock(b, cx, sc) ==
  IF b = <<>> THEN sc
  ELSE LET next == CheckStmt(Head(b), cx, sc)
       IN  IF next = Rejected THEN Rejected ELSE CheckBlock(Tail(b), cx, next)

CheckFunc(f, cx0) ==
  LET cx1 == [cx0 EXCEPT !.tvars = IF f.tps = <<>> THEN @ ELSE Range(f.tps)]
      ret == IF f.ret = None THEN None ELSE SubstType(f.ret, cx1, cx1.subst)
      cx == [cx1 EXCEPT !.ret = ret]
      types == [i \in DOMAIN f.ps |-> IF f.ps[i].t = None THEN Bad ELSE SubstType(f.ps[i].t, cx, cx.subst)]
      names == [i \in DOMAIN f.ps |-> f.ps[i].x]
      params == [x \in Range(names) |-> Var(types[CHOOSE i \in DOMAIN names : names[i] = x], TRUE, FALSE)]
  IN  /\ ret # Bad /\ ~SomeBad(types) /\ IsInjective(names)
      /\ CheckBlock(f.body, cx, <<params>>) # Rejected

(* Declarations by name; of functions that share a name, the first is the
   function and the others its overloads. *)
ByName(ds) == [x \in {ds[i].name : i \in DOMAIN ds} |-> ds[CHOOSE i \in DOMAIN ds : ds[i].name = x /\
                                             \A j \in 1 .. i - 1 : ds[j].name # x]]
Overloads(ds) == [x \in {ds[i].name : i \in DOMAIN ds} |-> LET all == SelectSeq(ds, LAMBDA d : d.name = x) IN Tail(all)]
Distinct(ds) == IsInjective([i \in DOMAIN ds |-> ds[i].name])
SameSig(f, g) == [i \in DOMAIN f.ps |-> f.ps[i].t] = [i \in DOMAIN g.ps |-> g.ps[i].t]
SelfTyped(im) ==
  [im EXCEPT !.ms = [i \in DOMAIN @ |->
     IF HasSelf(@[i]) /\ @[i].ps[1].t = None THEN [@[i] EXCEPT !.ps[1].t = Nm(im.type)] ELSE @[i]]]
Checker(prog) ==
  [fns |-> ByName(prog.funcs), overs |-> Overloads(prog.funcs), structs |-> ByName(prog.structs),
   ifaces |-> ByName(prog.ifaces) @@ BuiltinIfaces, libs |-> ByName(prog.libs),
   impls |-> [i \in DOMAIN prog.impls |-> SelfTyped(prog.impls[i])],
   aliases |-> prog.aliases, ret |-> None, loop |-> 0, subst |-> <<>>, tvars |-> {}]

(* No declaration is repeated; an overload differs from the other overloads. *)
NoDuplicates(prog) ==
  /\ Distinct(prog.structs) /\ Distinct(prog.ifaces) /\ Distinct(prog.libs)
  /\ \A i \in DOMAIN prog.ifaces : prog.ifaces[i].name \notin DOMAIN BuiltinIfaces
  /\ \A x \in DOMAIN Overloads(prog.funcs) :
       LET os == Overloads(prog.funcs)[x]
       IN  \A i, j \in DOMAIN os : i # j => ~SameSig(os[i], os[j])
  /\ IsInjective([i \in DOMAIN prog.impls |-> <<prog.impls[i].type, prog.impls[i].iface>>])
  /\ \A im \in Range(prog.impls) : \A i, j \in DOMAIN im.ms :
       i # j /\ im.ms[i].name = im.ms[j].name => HasSelf(im.ms[i]) # HasSelf(im.ms[j])

(* An impl has the type parameters of its struct and every method of its
   interface, with as many parameters; of a partial one, any of them. *)
ImplConforms(im, cx) ==
  /\ im.type \in DOMAIN cx.structs =>
       LET n == Len(cx.structs[im.type].tps) IN IF n > 0 THEN Len(im.tps) = n ELSE im.tps = <<>>
  /\ im.iface # "" =>
       /\ im.iface \in DOMAIN cx.ifaces
       /\ \/ cx.ifaces[im.iface].partial
          \/ \A sig \in Range(Expanded(cx, cx.ifaces[im.iface])) :
               LET ms == Methods(cx, im.type, sig.name, TRUE)
                   fs == IF ms = {} THEN Methods(cx, im.type, sig.name, FALSE) ELSE ms
               IN  fs # {} /\ Len((CHOOSE f \in fs : TRUE).ps) = sig.n

(* The bodies checked are those of the first function of each name and of the
   methods; the type parameters of an impl count as interface{}. *)
Accepts(prog) ==
  LET cx == Checker(prog)
      Within(im) == [cx EXCEPT !.subst = [p \in Range(im.tps) |-> AnyT]]
  IN  /\ NoDuplicates(prog)
      /\ \A im \in Range(cx.impls) : ImplConforms(im, cx)
      /\ \A f \in Range(prog.funcs) : f.name = "main" => Len(f.ps) \in 1 .. 3
      /\ \A x \in DOMAIN cx.fns : CheckFunc(cx.fns[x], cx)
      /\ \A im \in Range(cx.impls) : \A m \in Range(im.ms) : CheckFunc(m, Within(im))
=============================================================================
