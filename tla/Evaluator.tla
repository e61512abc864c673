------------------------------ MODULE Evaluator ------------------------------
(***************************************************************************)
(* The interpreter of internal/lang/eval.go, as a function from a program  *)
(* and a state to an outcome.                                              *)
(*                                                                         *)
(* The state s: heap, the lists, tables, structs and memorize buffers by   *)
(* reference; vars, the chain of scopes of the function being executed,    *)
(* global scope first; params, the names its declare must not overwrite;   *)
(* ret, the result set by return; depth, the calls open; out, the lines    *)
(* printed.  An outcome has a value v, a state s and an error err: "" for  *)
(* none, "return" and "break" for the two the code uses as signals.        *)
(* Floats count halves.  Integers have Word bits (32 in the code).         *)
(***************************************************************************)
EXTENDS Typecheck, Runtime, Sums

CONSTANT MaxDepth                 \* 8192 in the code
ASSUME EvaluatorAssumption == MaxDepth \in Nat \ {0}

NilV == [k |-> "nil"]
IntV(n) == [k |-> "int", n |-> n]
FloatV(n) == [k |-> "float", n |-> n]
StrV(x) == [k |-> "String", s |-> x]
BoolV(b) == [k |-> "bool", b |-> b]
FnV(f) == [k |-> "fn", f |-> f]
CopydV(v) == [k |-> "Copyd", v |-> v]
RefV(kind, r) == [k |-> kind, r |-> r]
PlainV(kind) == [k |-> kind]                 \* streams, files, threads, taskm, memory

Yield(v, s) == [v |-> v, s |-> s, err |-> ""]
Raise(err, s) == [v |-> NilV, s |-> s, err |-> err]
Bind(r, F(_, _)) == IF r.err # "" THEN r ELSE F(r.v, r.s)

Alloc(kind, obj, s) == Yield(RefV(kind, Len(s.heap) + 1), [s EXCEPT !.heap = Append(@, obj)])
NewList(items, s) == Alloc("List", [items |-> items, head |-> 0], s)
NewTable(s) == Alloc("HashTable", [m |-> <<>>], s)
NewStruct(name, fields, s) == Alloc("struct", [t |-> name, fields |-> fields], s)
STypeOf(v, s) == s.heap[v.r].t
Visible(l) == SubSeq(l.items, l.head + 1, Len(l.items))     \* the tail is always Len(items)

RECURSIVE Show(_, _)
Show(v, s) ==
  CASE v.k = "int" -> ToString(v.n)
    [] v.k = "float" -> ToString(v.n) \o "/2"
    [] v.k = "bool" -> IF v.b THEN "true" ELSE "false"
    [] v.k = "String" -> v.s
    [] v.k = "Copyd" -> Show(v.v, s)
    [] v.k = "List" -> LET l == Visible(s.heap[v.r])
                       IN "[" \o FoldLeft(LAMBDA text, x : text \o (IF text = "" THEN "" ELSE ", ") \o Show(x, s),
                                          "", l) \o "]"
    [] OTHER -> v.k

\* Mutant: the key forgets what is in a list.
HashKind(v, s) == [t |-> IF v.k = "struct" THEN STypeOf(v, s) ELSE v.k, text |-> v.k,
                   n |-> IF v.k = "int" THEN v.n ELSE 0]

(* The key of a table: the kind of the value and its text. *)
HashKey(v, s) == [t |-> IF v.k = "struct" THEN STypeOf(v, s) ELSE v.k, text |-> Show(v, s),
                  n |-> IF v.k = "int" THEN v.n ELSE 0]
KeyValue(key) == CASE key.t = "int" -> IntV(key.n)
                   [] key.t = "String" -> StrV(key.text)
                   [] OTHER -> StrV(key.t \o ":" \o key.text)

(* A copy of a list or a table and of all they hold; structs are shared. *)
RECURSIVE DeepCopy(_, _)
RECURSIVE CopyAll(_, _)
CopyAll(vs, s) ==
  IF vs = <<>> THEN Yield(<<>>, s)
  ELSE Bind(DeepCopy(Head(vs), s), LAMBDA v, s1 :
         Bind(CopyAll(Tail(vs), s1), LAMBDA rest, s2 : Yield(<<v>> \o rest, s2)))
DeepCopy(v, s) ==
  LET obj == s.heap[v.r]
      keys == Listed(DOMAIN obj.m)
  IN CASE v.k = "List" -> Bind(CopyAll(obj.items, s), LAMBDA items, s1 :
                                 Alloc("List", [items |-> items, head |-> obj.head], s1))
       [] v.k = "HashTable" ->
            Bind(CopyAll([i \in DOMAIN keys |-> obj.m[keys[i]]], s), LAMBDA vals, s1 :
              Alloc("HashTable", [m |-> [key \in DOMAIN obj.m |->
                                    vals[CHOOSE i \in DOMAIN keys : keys[i] = key]]], s1))
       [] OTHER -> Yield(v, s)
Put(r, key, v, s) ==
  Bind(DeepCopy(v, s), LAMBDA c, s1 :
    Yield(NilV, [s1 EXCEPT !.heap[r].m = (HashKey(key, s1) :> c) @@ @]))

(* Arithmetic on ints (binOp, arith). *)
Pow2(n) == {e \in 0 .. Word - 1 : 2 ^ e = n}        \* a product by 2^e is a shift by e

(* An operator on two ints, on two numbers, on any two values (binOp). *)
IntOp(op, a, b, s) ==
  CASE op = "+" -> Yield(IntV(Wrap(a + b)), s)
    [] op = "-" -> Yield(IntV(Wrap(a - b)), s)
    [] op = "*" -> Yield(IntV(IF Pow2(b) # {} THEN Shl(a, CHOOSE e \in Pow2(b) : TRUE) ELSE Wrap(a * b)), s)
    [] op \in {"/", "%"} -> IF b = 0 THEN Raise("DivisionByZeroError", s)
                            ELSE Yield(IntV(Wrap(IF op = "/" THEN Quo(a, b) ELSE Rem(a, b))), s)
    [] op = "<<" -> Yield(IntV(Shl(a, b)), s)
    [] op = ">>" -> Yield(IntV(Shr(a, b)), s)
IsNumber(v) == v.k \in {"int", "float"}
Halves(v) == IF v.k = "int" THEN 2 * v.n ELSE v.n
FloatOp(op, a, b, s) ==
  CASE op = "+" -> Yield(FloatV(a + b), s)
    [] op = "-" -> Yield(FloatV(a - b), s)
    [] op = "*" -> Yield(FloatV(Quo(a * b, 2)), s)
    [] op = "/" -> IF b = 0 THEN Raise("DivisionByZeroError", s) ELSE Yield(FloatV(Quo(2 * a, b)), s)
    [] op = "%" -> Raise("TypeError", s)
Equal(l, r) == IF IsNumber(l) /\ IsNumber(r) THEN Halves(l) = Halves(r) ELSE l = r
Ordered(op, a, b) == CASE op = "<" -> a < b [] op = "<=" -> a <= b [] op = ">" -> a > b [] OTHER -> a >= b
Comparisons == {"<", "<=", ">", ">="}
BinOp(op, l, r, s) ==
  CASE op = "+" /\ "String" \in {l.k, r.k} -> Yield(StrV(Show(l, s) \o Show(r, s)), s)
    [] op \in {"==", "!="} -> Yield(BoolV(Equal(l, r) = (op = "==")), s)
    [] op \in Comparisons /\ IsNumber(l) /\ IsNumber(r) ->
         Yield(BoolV(Ordered(op, Halves(l), Halves(r))), s)
    [] op \in Comparisons /\ l.k = "String" /\ r.k = "String" ->     \* texts have no order here
         Yield(BoolV(l = r /\ op \in {"<=", ">="}), s)
    [] op \in {"+", "-", "*", "/", "%", "<<", ">>"} /\ l.k = "int" /\ r.k = "int" -> IntOp(op, l.n, r.n, s)
    [] op \in {"+", "-", "*", "/", "%"} /\ {l.k, r.k} \in {{"float"}, {"int", "float"}} ->
         FloatOp(op, Halves(l), Halves(r), s)
    [] OTHER -> Raise("TypeError", s)

(* Overloads: an exact kind counts most, the first of the best is taken. *)
Exact(b, v) == \/ b \in {"int", "long", "char"} /\ v.k = "int"
               \/ b \in {"float", "double", "f32"} /\ v.k = "float"
               \/ b \in {"String", "bool"} /\ v.k = b
Points(t, v) == IF t.k = "name" /\ Exact(t.b, v) THEN 10 ELSE IF t = Nm("any") THEN 2 ELSE 3
\* Mutant: only the first argument counts.
ScoreFirst(f, args) == IF args = <<>> THEN 0 ELSE Points(f.ps[1].t, args[1])
ScoreV(f, args) == FoldFunction(+, 0, [i \in DOMAIN args |-> Points(f.ps[i].t, args[i])])
BestMatchV(defs, args) ==
  LET fit == {i \in DOMAIN defs : Len(defs[i].ps) = Len(args)}
      best == {i \in fit : \A j \in fit : ScoreV(defs[j], args) <= ScoreV(defs[i], args)}
  IN  IF best = {} THEN 0 ELSE Min(best)

(* The value a type starts from, when a struct is declared without one.  The
   code looks for the word List before the word HashTable. *)
RECURSIVE Has(_, _)
Has(t, words) == CASE t.k = "ref" -> Has(t.t, words)
                   [] t.k = "app" -> t.b \in words \/ \E i \in DOMAIN t.args : Has(t.args[i], words)
                   [] OTHER -> t.b \in words
RECURSIVE ZeroValue(_, _, _)
RECURSIVE ZeroFields(_, _, _)
ZeroFields(fields, p, s) ==
  IF fields = <<>> THEN Yield(<<>>, s)
  ELSE Bind(ZeroValue(Head(fields).t, p, s), LAMBDA v, s1 :
         Bind(ZeroFields(Tail(fields), p, s1), LAMBDA rest, s2 : Yield((Head(fields).x :> v) @@ rest, s2)))
ZeroInstance(def, p, s) == Bind(ZeroFields(def.fields, p, s), LAMBDA fs, s1 : NewStruct(def.name, fs, s1))
ZeroValue(t, p, s) ==
  CASE t.k = "ref" -> Yield(NilV, s)
    [] t.k \in {"name", "app"} /\ t.b \in DOMAIN p.structs -> ZeroInstance(p.structs[t.b], p, s)
    [] t.k = "name" /\ t.b \in {"int", "long", "char"} -> Yield(IntV(0), s)
    [] t.k = "name" /\ t.b \in {"float", "double"} -> Yield(FloatV(0), s)
    [] t = Nm("String") -> Yield(StrV(""), s)
    [] t = Nm("bool") -> Yield(BoolV(FALSE), s)
    [] OTHER -> IF Has(t, {"List", "Array"}) THEN NewList(<<>>, s)
                ELSE IF Has(t, {"HashTable"}) THEN NewTable(s) ELSE Yield(NilV, s)

(* Variables: the innermost scope that has the name. *)
SetVar(x, v, s) ==
  IF Declared(s.vars, x) THEN Yield(NilV, [s EXCEPT !.vars[At(s.vars, x)][x] = v])
  ELSE Raise("CompileError", s)
DeclareVar(x, v, s) ==
  IF Len(s.vars) = 2 /\ x \in s.params THEN Yield(NilV, s)          \* a parameter keeps its value
  ELSE Yield(NilV, [s EXCEPT !.vars[Len(s.vars)] = (x :> v) @@ @])
Global == [DynamicStackAndHeap |-> StrV("DynamicStackAndHeap")]

(* A value of the kind a runtime call yields; what it holds is left out. *)
Sample(kind, s) ==
  CASE kind = "int" -> Yield(IntV(0), s)
    [] kind = "float" -> Yield(FloatV(0), s)
    [] kind = "String" -> Yield(StrV(""), s)
    [] kind = "bool" -> Yield(BoolV(FALSE), s)
    [] kind = "List" -> NewList(<<>>, s)
    [] kind = "HashTable" -> NewTable(s)
    [] kind = "memorize" -> Alloc("memorize", [m |-> <<>>], s)
    [] kind \in {"nil", "any"} -> Yield(NilV, s)
    [] OTHER -> Yield(PlainV(kind), s)
Provided(rows, name, args, s) ==
  IF name \notin DOMAIN rows THEN Raise("NoMethod", s)
  ELSE IF Refusal(rows[name], args) # "" THEN Raise(Refusal(rows[name], args), s)
  ELSE Sample(rows[name].ret, s)

(* The methods of a list; tables have the same shape. *)
Row1(kinds, ret) == Row(<<kinds>>, ret)
ListRows == [m \in {"head", "tail", "size", "next", "reset", "toString", "__sort__"} |-> Row(<<>>, "nil")]
            @@ [append |-> Row1(AnyKind, "nil"), appendAll |-> Row1({"List"}, "nil")]
ListCall(o, name, args, s) ==
  LET l == s.heap[o.r]
      seen == Visible(l)
      Key(v) == IF IsNumber(v) THEN Halves(v) ELSE 0
      sortable == \A i, j \in DOMAIN seen : \/ IsNumber(seen[i]) /\ IsNumber(seen[j])
                                            \/ {seen[i].k, seen[j].k} = {"String"}
  IN IF name \notin DOMAIN ListRows THEN Raise("NoMethod", s)
     ELSE IF Refusal(ListRows[name], args) # "" THEN Raise(Refusal(ListRows[name], args), s)
     ELSE CASE name = "head" -> Yield(IntV(l.head), s)
       [] name = "tail" -> Yield(IntV(Len(l.items)), s)
       [] name = "size" -> Yield(IntV(Len(seen)), s)
       [] name = "next" -> IF seen = <<>> THEN Raise("ListExhaustedError", s)
                           ELSE Yield(seen[1], [s EXCEPT !.heap[o.r].head = @ + 1])
       [] name = "reset" -> Yield(o, [s EXCEPT !.heap[o.r].head = 0])
       [] name = "append" -> Yield(NilV, [s EXCEPT !.heap[o.r].items = Append(@, args[1])])
       [] name = "appendAll" ->        \* a list appended to itself grows for ever
            IF args[1].r = o.r /\ seen # <<>> THEN Raise("Diverges", s)
            ELSE Yield(NilV, [s EXCEPT !.heap[o.r].items = @ \o Visible(s.heap[args[1].r])])
       [] name = "toString" -> Yield(StrV(Show(o, s)), s)
       [] name = "__sort__" ->
            IF ~sortable /\ Len(seen) > 1 THEN Raise("TypeError", s)
            ELSE Yield(o, [s EXCEPT !.heap[o.r].items =
                   SubSeq(@, 1, l.head) \o SortSeq(seen, LAMBDA a, b : Key(a) < Key(b))])

TableRows == [m \in {"get", "contains", "remove"} |-> Row1(AnyKind, "nil")]
             @@ [m \in {"keys", "size"} |-> Row(<<>>, "nil")] @@ [put |-> Row(<<AnyKind, AnyKind>>, "nil")]
TableCall(o, name, args, s) ==
  LET m == s.heap[o.r].m
      key == HashKey(args[1], s)
      keys == Listed(DOMAIN m)
  IN IF name \notin DOMAIN TableRows THEN Raise("NoMethod", s)
     ELSE IF Refusal(TableRows[name], args) # "" THEN Raise(Refusal(TableRows[name], args), s)
     ELSE CASE name = "put" -> Put(o.r, args[1], args[2], s)
       [] name = "get" -> Yield(IF key \in DOMAIN m THEN m[key] ELSE NilV, s)
       [] name = "contains" -> Yield(BoolV(key \in DOMAIN m), s)
       [] name = "keys" -> NewList([i \in DOMAIN keys |-> KeyValue(keys[i])], s)
       [] name = "remove" -> Yield(NilV, [s EXCEPT !.heap[o.r].m = [x \in DOMAIN m \ {key} |-> m[x]]])
       [] name = "size" -> Yield(IntV(Cardinality(DOMAIN m)), s)

RECURSIVE Eval(_, _, _)
RECURSIVE Exec(_, _, _)
RECURSIVE ExecBlock(_, _, _)
RECURSIVE EvalArgs(_, _, _)
EvalArgs(es, p, s) ==
  IF es = <<>> THEN Yield(<<>>, s)
  ELSE Bind(Eval(Head(es), p, s), LAMBDA v, s1 :
         Bind(EvalArgs(Tail(es), p, s1), LAMBDA vs, s2 : Yield(<<v>> \o vs, s2)))

NoBody == <<None>>           \* of a builtin function used as a value

(* A call of a function of the program. *)
IsCopyd(t) == Has(t, {"Copyd"}) \/ (t.k = "suffix" /\ t.s = "Copyd")
RECURSIVE BindParams(_, _, _)
BindParams(ps, args, s) ==
  IF ps = <<>> THEN Yield(<<>>, s)
  ELSE Bind(IF IsCopyd(Head(ps).t) THEN DeepCopy(Head(args), s) ELSE Yield(Head(args), s), LAMBDA v, s1 :
         Bind(BindParams(Tail(ps), Tail(args), s1), LAMBDA rest, s2 :
           Yield((Head(ps).x :> IF IsCopyd(Head(ps).t) THEN CopydV(v) ELSE v) @@ rest, s2)))
Execute(f, p, s, scope, depth) ==
  LET r == ExecBlock(f.body, p, [s EXCEPT !.vars = <<Global, scope>>, !.params = DOMAIN scope,
                                          !.ret = NilV, !.depth = depth])
      back == [r.s EXCEPT !.vars = s.vars, !.params = s.params, !.ret = s.ret, !.depth = s.depth]
  IN  IF r.err \in {"", "return"} THEN Yield(r.s.ret, back) ELSE Raise(r.err, back)
CallFunc(f, args, p, s) ==
  IF f.body = NoBody THEN Provided(BuiltinRows, f.name, args, s)      \* a builtin passed as a value
  ELSE IF Len(args) # Len(f.ps) THEN Raise("CompileError", s)
  ELSE IF s.depth >= MaxDepth THEN Raise("StackOverflowError", s)
  ELSE Bind(BindParams(f.ps, args, s), LAMBDA scope, s1 : Execute(f, p, s1, scope, s.depth + 1))

Builtin(name, args, p, s) ==
  LET At1(i) == args[i].n
      ints == \A i \in DOMAIN args \ {1} : args[i].k = "int"
      calls == [i \in Int |-> CallFunc(args[1].f, <<IntV(i)>>, p, s)]
      errs == [i \in Int |-> IF calls[i].err # "" THEN calls[i].err
                             ELSE IF calls[i].v.k # "int" THEN "TypeError" ELSE ""]
      gen == [i \in Int |-> IF errs[i] = "" THEN calls[i].v.n ELSE 0]
      sum == SumOf(gen, errs, At1(2), At1(3), IF Len(args) = 4 THEN At1(4) ELSE 1)
      OnName == [clicked |-> "onClicked", pressed |-> "onPressed"]
      node == STypeOf(args[1], s)
      handlers == <<args[2].s>> \o IF args[2].s \in DOMAIN OnName THEN <<OnName[args[2].s]>> ELSE <<>>
      found == SelectSeq(handlers, LAMBDA h : Methods(p, node, h, TRUE) # {})
  IN CASE name = "sum" ->
            IF Len(args) \notin {3, 4} THEN Raise("CompileError", s)
            ELSE IF args[1].k # "fn" THEN Raise("TypeError", s)
            ELSE IF args[1].f.name = "rand" /\ args[2].k = "int" /\ args[3].k = "int"      \* whatever the step
              THEN Yield(IntV(Wrap((IF At1(3) > At1(2) THEN At1(3) - At1(2) ELSE 0) * 2 ^ (Word - 2))), s)
            ELSE IF ~ints \/ (Len(args) = 4 /\ At1(4) = 0) THEN Raise("TypeError", s)
            ELSE IF sum.err # "" THEN Raise(sum.err, s) ELSE Yield(IntV(sum.n), s)
       [] name = "qksignal_emit" ->
            IF Len(args) < 2 \/ args[1].k # "struct" \/ args[2].k # "String" THEN Raise("TypeError", s)
            ELSE IF found = <<>> THEN Yield(NilV, s)
            ELSE CallFunc(SelfMethod(p, node, found[1]), <<args[1]>> \o SubSeq(args, 3, Len(args)), p, s)
       [] OTHER -> Provided(BuiltinRows, name, args, s)

(* memorize.call(prefix, rec): the key is the text of the arguments alone. *)
MemorizeCall(o, prefix, rec, p, s) ==
  LET fields == s.heap[rec.r].fields
      key == HashKey(fields["in"], s)
      m == s.heap[o.r].m
      fn == s.heap[prefix.r].fields["fn"]
  IN IF fn.k # "fn" \/ fields["in"].k # "List" THEN Raise("TypeError", s)
     ELSE IF key \in DOMAIN m THEN Yield(m[key], [s EXCEPT !.heap[rec.r].fields["out"] = m[key]])
     ELSE Bind(CallFunc(fn.f, Visible(s.heap[fields["in"].r]), p, s), LAMBDA v, s1 :
            Bind(Put(o.r, fields["in"], v, [s1 EXCEPT !.heap[rec.r].fields["out"] = v]), LAMBDA nil, s2 :
              Yield(v, s2)))

RECURSIVE CallMethod(_, _, _, _, _)
CallMethod(obj, name, args, p, s) ==
  LET at == IF obj.k = "taskm" THEN 2 ELSE 1         \* where merge finds its function
      merged == IF args[at].k = "fn" THEN args[at].f ELSE p.fns[args[at].s]
  IN CASE obj.k = "List" -> ListCall(obj, name, args, s)
       [] obj.k = "HashTable" -> TableCall(obj, name, args, s)
       [] obj.k = "Copyd" ->
            IF name = "ptr" THEN IF args = <<>> THEN Yield(obj.v, s) ELSE Raise("CompileError", s)
            ELSE CallMethod(obj.v, name, args, p, s)
       [] obj.k = "memorize" ->
            IF name # "call" THEN Raise("NoMethod", s)
            ELSE IF Len(args) # 2 THEN Raise("CompileError", s)
            ELSE IF args[1].k # "struct" \/ args[2].k # "struct" THEN Raise("TypeError", s)
            ELSE MemorizeCall(obj, args[1], args[2], p, s)
       [] obj.k = "struct" ->
            IF Methods(p, STypeOf(obj, s), name, TRUE) = {} THEN Raise("NoMethod", s)
            ELSE CallFunc(SelfMethod(p, STypeOf(obj, s), name), <<obj>> \o args, p, s)
       [] obj.k = "lib" -> Sample("nil", s)                   \* foreign code
       [] obj.k = "IOStream" /\ name \in {"println", "print"} ->
            Yield(NilV, [s EXCEPT !.out = Append(@, [i \in DOMAIN args |-> Show(args[i], s)])])
       [] obj.k \in {"taskm", "thread"} /\ name = "merge" ->
            IF Refusal(MethodRows[obj.k].merge, args) # "" THEN Raise("TypeError", s)
            ELSE IF args[at].k = "String" /\ args[at].s \notin DOMAIN p.fns THEN Raise("CompileError", s)
            ELSE IF Len(args) - at # Len(merged.ps) THEN Raise("CompileError", s) ELSE Yield(NilV, s)
       [] OTHER -> IF obj.k \in DOMAIN MethodRows THEN Provided(MethodRows[obj.k], name, args, s)
                   ELSE Raise("NoMethod", s)

(* f(args) @x() is x.call(.{fn: f}, .{in: args, out: nil}), its value the out. *)
SignedCall(e, p, s) ==
  Bind(EvalArgs(e.args, p, s), LAMBDA args, s1 :
    LET defs == AllDefs(p, e.f.x)
        best == BestMatchV(defs, args)
    IN IF best = 0 THEN Raise("CompileError", s1)
       ELSE Bind(Eval(Id(e.sign), p, s1), LAMBDA sign, s2 :
              Bind(NewStruct(".", [fn |-> FnV(defs[best])], s2), LAMBDA prefix, s3 :
                Bind(NewList(args, s3), LAMBDA given, s4 :
                  Bind(NewStruct(".", ("in" :> given) @@ ("out" :> NilV), s4), LAMBDA rec, s5 :
                    Bind(CallMethod(sign, "call", <<prefix, rec>>, p, s5), LAMBDA v, s6 :
                      Yield(s6.heap[rec.r].fields["out"], s6)))))))

EvalCall(e, p, s) ==
  IF e.sign # "" THEN SignedCall(e, p, s)
  ELSE IF e.f.k = "mem"
    THEN Bind(Eval(e.f.e, p, s), LAMBDA obj, s1 :
           Bind(EvalArgs(e.args, p, s1), LAMBDA args, s2 : CallMethod(obj, e.f.x, args, p, s2)))
  ELSE Bind(EvalArgs(e.args, p, s), LAMBDA args, s1 :
         LET x == e.f.x
             defs == AllDefs(p, x)
             best == BestMatchV(defs, args)
         IN IF defs # <<>>
              THEN IF best = 0 THEN Raise("CompileError", s1) ELSE CallFunc(defs[best], args, p, s1)
            ELSE IF Declared(s1.vars, x) /\ Find(s1.vars, x).k = "fn"
              THEN CallFunc(Find(s1.vars, x).f, args, p, s1)
            ELSE Builtin(x, args, p, s1))

EvalScope(e, p, s) ==
  Bind(EvalArgs(e.args, p, s), LAMBDA args, s1 :
    IF e.s \in DOMAIN StaticRows THEN Provided(StaticRows[e.s], e.x, args, s1)
    ELSE IF Methods(p, e.s, e.x, FALSE) = {} THEN Raise("CompileError", s1)
    ELSE CallFunc(StaticMethod(p, e.s, e.x), args, p, s1))

(* && and || stop at the left operand when it decides. *)
Truth(r) == Bind(r, LAMBDA v, s : IF v.k = "bool" THEN Yield(v, s) ELSE Raise("TypeError", s))
Logic(op, l, right, p, s) ==
  Bind(Truth(Yield(l, s)), LAMBDA v, s1 : IF v.b = (op = "||") THEN Yield(v, s1) ELSE Truth(Eval(right, p, s1)))

(* A struct or an int on the left has the right operand evaluated at once; when
   that decides nothing, the right operand is evaluated a second time. *)
EvalBin(e, p, s0) ==
  Bind(Eval(e.l, p, s0), LAMBDA l, s :
    LET first == Eval(e.r, p, s)
        own == IF e.op \in DOMAIN OpMethods THEN Methods(p, STypeOf(l, s), OpMethods[e.op], TRUE) ELSE {}
        overloaded == /\ l.k = "struct" /\ first.err = "" /\ first.v.k = "struct"
                      /\ STypeOf(l, s) = STypeOf(first.v, first.s) /\ own # {}
    IN IF e.op \in {"&&", "||"} THEN Logic(e.op, l, e.r, p, s)
       ELSE IF overloaded
         THEN CallFunc(SelfMethod(p, STypeOf(l, s), OpMethods[e.op]), <<l, first.v>>, p, first.s)
       ELSE IF l.k = "int" /\ first.err = "" THEN BinOp(e.op, l, first.v, first.s)
       ELSE Bind(Eval(e.r, p, IF l.k \in {"struct", "int"} THEN first.s ELSE s), LAMBDA r, s1 :
              BinOp(e.op, l, r, s1)))

EvalUn(op, v, p, s) ==
  LET l == s.heap[v.r]
  IN CASE op = "*" -> IF v.k # "List" THEN Raise("TypeError", s)
                      ELSE IF Visible(l) = <<>> THEN Raise("ListExhaustedError", s) ELSE Yield(Visible(l)[1], s)
       [] op = "!" -> Truth(Yield(IF v.k = "bool" THEN BoolV(~v.b) ELSE v, s))
       [] op = "-" ->
            IF v.k = "int" THEN Yield(IntV(Wrap(-v.n)), s)
            ELSE IF v.k = "float" THEN Yield(FloatV(-v.n), s)
            ELSE IF v.k = "struct" THEN
              IF Methods(p, l.t, "neg", TRUE) # {} THEN CallFunc(SelfMethod(p, l.t, "neg"), <<v>>, p, s)
              ELSE Raise("TypeError", s)
            ELSE Raise("TypeError", s)

(* A member of a struct, also through a Copyd value. *)
RECURSIVE Member(_, _, _)
Member(v, x, s) ==
  CASE v.k = "nil" -> Raise("NullPointerError", s)
    [] v.k = "Copyd" -> Member(v.v, x, s)
    [] v.k = "struct" -> IF x \in DOMAIN s.heap[v.r].fields THEN Yield(s.heap[v.r].fields[x], s)
                         ELSE Raise("TypeError", s)
    [] OTHER -> Raise("TypeError", s)
ItemAt(v, i, s) ==
  IF v.k # "List" \/ i.k # "int" THEN Raise("TypeError", s)
  ELSE LET seen == Visible(s.heap[v.r])
       IN  IF i.n + 1 \in DOMAIN seen THEN Yield(seen[i.n + 1], s) ELSE Raise("IndexOutOfBoundsError", s)

EvalId(x, p, s) ==
  CASE x \in {"true", "false"} -> Yield(BoolV(x = "true"), s)
    [] x \in DOMAIN p.libs -> Yield(PlainV("lib"), s)
    [] x \in {"memory", "GlobalMemory"} -> Yield(PlainV("memory"), s)
    [] x = "taskm" -> Yield(PlainV("taskm"), s)
    [] OTHER -> IF Declared(s.vars, x) THEN Yield(Find(s.vars, x), s)
                ELSE IF x \in DOMAIN p.fns THEN Yield(FnV(p.fns[x]), s)
                ELSE IF x \in FunctionValues \cup {"rand"} THEN Yield(FnV([name |-> x, ps |-> <<>>, body |-> NoBody]), s)
                ELSE Raise("CompileError", s)

(* A literal .{...}: the checker has given it the name of the struct declared. *)
EvalLit(e, p, s) ==
  Bind(EvalArgs([i \in DOMAIN e.fields |-> e.fields[i][2]], p, s), LAMBDA vs, s1 :
    LET name == IF e.name = "" THEN "." ELSE e.name
        order == IF name \in DOMAIN p.structs THEN p.structs[name].fields ELSE <<>>
        Field(i) == IF e.fields[i][1] = "" /\ i <= Len(order) THEN order[i].x ELSE e.fields[i][1]
        names == [i \in DOMAIN vs |-> Field(i)]
    IN NewStruct(name, [x \in Range(names) |-> vs[Max({i \in DOMAIN vs : names[i] = x})]], s1))

Eval(e, p, s) ==
  CASE e.k = "int" -> Yield(IntV(e.n), s)
    [] e.k = "float" -> Yield(FloatV(e.n), s)
    [] e.k = "str" -> Yield(StrV(e.s), s)
    [] e.k = "bool" -> Yield(BoolV(e.b), s)
    [] e.k = "null" -> Yield(NilV, s)
    [] e.k = "id" -> EvalId(e.x, p, s)
    [] e.k = "list" -> Bind(EvalArgs(e.items, p, s), LAMBDA vs, s1 : NewList(vs, s1))
    [] e.k = "lit" -> EvalLit(e, p, s)
    [] e.k = "new" ->
         Bind(IF e.size = None THEN Yield(IntV(1), s) ELSE Eval(e.size, p, s), LAMBDA n, s1 :
           IF n.k # "int" \/ n.n < 0 THEN Raise("badAlloc", s1) ELSE NewList(<<>>, s1))
    [] e.k = "un" -> Bind(Eval(e.e, p, s), LAMBDA v, s1 : EvalUn(e.op, v, p, s1))
    [] e.k = "bin" -> EvalBin(e, p, s)
    [] e.k = "call" -> EvalCall(e, p, s)
    [] e.k = "scope" -> EvalScope(e, p, s)
    [] e.k = "mem" -> Bind(Eval(e.e, p, s), LAMBDA v, s1 : Member(v, e.x, s1))
    [] e.k = "idx" -> Bind(Eval(e.e, p, s), LAMBDA v, s1 :
                        Bind(Eval(e.i, p, s1), LAMBDA i, s2 : ItemAt(v, i, s2)))

(* Assignment: the value, then the object, then the index. *)
ExecAssign(st, p, s) ==
  LET to == st.to IN
  Bind(Eval(st.e, p, s), LAMBDA v, s1 :
    CASE to.k = "id" -> SetVar(to.x, v, s1)
      [] to.k = "idx" ->
           Bind(Eval(to.e, p, s1), LAMBDA obj, s2 : Bind(Eval(to.i, p, s2), LAMBDA i, s3 :
             CASE obj.k = "HashTable" -> Put(obj.r, i, v, s3)
               [] obj.k = "List" ->
                    LET at == s3.heap[obj.r].head + i.n + 1
                    IN  IF i.k # "int" THEN Raise("TypeError", s3)
                        ELSE IF i.n < 0 \/ at \notin DOMAIN s3.heap[obj.r].items THEN Raise("IndexOutOfBoundsError", s3)
                        ELSE Yield(NilV, [s3 EXCEPT !.heap[obj.r].items[at] = v])
               [] OTHER -> Raise("TypeError", s3)))
      [] to.k = "mem" ->
           Bind(Eval(to.e, p, s1), LAMBDA o, s2 :
             LET obj == IF o.k = "Copyd" THEN o.v ELSE o
             IN CASE obj.k = "nil" -> Raise("NullPointerError", s2)
                  [] obj.k = "struct" ->
                       IF to.x \in DOMAIN s2.heap[obj.r].fields
                         THEN Yield(NilV, [s2 EXCEPT !.heap[obj.r].fields[to.x] = v]) ELSE Raise("TypeError", s2)
                  [] OTHER -> Raise("TypeError", s2))
      [] OTHER -> Raise("TypeError", s1))

(* for takes the items off the list until none is left. *)
RECURSIVE ForLoop(_, _, _, _)
ForLoop(st, r, p, s) ==
  LET l == s.heap[r]
      s1 == [s EXCEPT !.heap[r].head = @ + 1, !.vars[Len(s.vars)] = (st.x :> l.items[l.head + 1]) @@ @]
      body == ExecBlock(st.b, p, s1)
  IN IF l.head = Len(l.items) THEN Yield(NilV, s)
     ELSE IF body.err = "break" THEN Yield(NilV, body.s)
     ELSE Bind(body, LAMBDA v, s2 : ForLoop(st, r, p, s2))

(* r without the scopes opened since s; the outer ones keep what r did. *)
OpenScope(s, vars) == [s EXCEPT !.vars = Append(@, vars)]
CloseScope(r, s) == [r EXCEPT !.s.vars = SubSeq(@, 1, Len(s.vars))]

Exec(st, p, s) ==
  CASE st.k = "expr" -> Eval(st.e, p, s)
    [] st.k = "log" -> Bind(Eval(st.e, p, s), LAMBDA v, s1 : Raise("return", [s1 EXCEPT !.ret = NilV]))
    [] st.k = "delete" ->
         Bind(Eval(st.e, p, s), LAMBDA v, s1 :
           IF v.k = "struct" /\ Methods(p, STypeOf(v, s1), "__delete__", TRUE) # {}
             THEN CallFunc(SelfMethod(p, STypeOf(v, s1), "__delete__"), <<v>>, p, s1) ELSE Yield(NilV, s1))
    [] st.k = "try" ->
         LET body == ExecBlock(st.b, p, s)
         IN  IF body.err \in {"", "return"} THEN body
             ELSE CloseScope(ExecBlock(st.c, p, OpenScope(CloseScope(body, s).s, st.x :> StrV(body.err))), s)
    [] st.k = "break" -> Raise("break", s)
    [] st.k = "return" ->
         IF st.e = None THEN Raise("return", s)
         ELSE Bind(Eval(st.e, p, s), LAMBDA v, s1 : Raise("return", [s1 EXCEPT !.ret = v]))
    [] st.k = "if" -> Bind(Truth(Eval(st.c, p, s)), LAMBDA v, s1 : ExecBlock(IF v.b THEN st.a ELSE st.b, p, s1))
    [] st.k = "while" ->
         Bind(Truth(Eval(st.c, p, s)), LAMBDA v, s1 :
           LET body == ExecBlock(st.b, p, s1)
           IN  IF ~v.b THEN Yield(NilV, s1)
               ELSE IF body.err = "break" THEN Yield(NilV, body.s)
               ELSE Bind(body, LAMBDA w, s2 : Exec(st, p, s2)))
    [] st.k = "for" ->
         Bind(Eval(st.e, p, s), LAMBDA v, s1 :
           IF v.k # "List" THEN Raise("TypeError", s1)
           ELSE CloseScope(ForLoop(st, v.r, p, OpenScope(s1, <<>>)), s1))
    [] st.k = "decl" ->
         LET t == SubstType(st.t, p, <<>>)
             lit == IF st.e.k = "lit" /\ t.k = "struct" THEN [st.e EXCEPT !.name = t.f] ELSE st.e
             struct == st.t.k \in {"name", "app"} /\ st.t.b \in DOMAIN p.structs
         IN  Bind(IF st.e # None THEN Eval(lit, p, s)
                  ELSE IF struct THEN ZeroInstance(p.structs[st.t.b], p, s) ELSE Yield(NilV, s),
                  LAMBDA v, s1 : DeclareVar(st.x, v, s1))
    [] st.k = "assign" -> ExecAssign(st, p, s)

ExecBlock(b, p, s) ==
  IF b = <<>> THEN Yield(NilV, s)
  ELSE Bind(Exec(Head(b), p, s), LAMBDA v, s1 : ExecBlock(Tail(b), p, s1))

(* Loading: an overload must differ from the first definition of its name. *)
Loads(prog) ==
  /\ \A x \in DOMAIN Overloads(prog.funcs) :
       \A i \in DOMAIN Overloads(prog.funcs)[x] : ~SameSig(ByName(prog.funcs)[x], Overloads(prog.funcs)[x][i])
  /\ "main" \in DOMAIN ByName(prog.funcs)
(* The impls are in a Go map: a method that two of them have may be found in either. *)
Interp(prog, order) == LET cx == Checker(prog)
                       IN  [cx EXCEPT !.impls = [i \in DOMAIN @ |-> cx.impls[order[i]]]]

(* main is given the stream, the environment and the arguments, in this order. *)
Run(prog, order) ==
  LET p == Interp(prog, order)
      s0 == [heap |-> <<[m |-> <<>>], [items |-> <<>>, head |-> 0]>>, vars |-> <<Global>>, params |-> {},
             ret |-> NilV, depth |-> 0, out |-> <<>>]
      given == <<PlainV("IOStream"), RefV("HashTable", 1), RefV("List", 2)>>
      main == p.fns["main"]
      scope == [x \in {main.ps[i].x : i \in DOMAIN main.ps} |-> given[CHOOSE i \in DOMAIN main.ps : main.ps[i].x = x]]
  IN  IF ~Loads(prog) THEN Raise("CompileError", s0)
      ELSE IF prog.kind = "library" THEN Raise("RunError", s0)         \* a library is not run
      ELSE Execute(main, p, s0, scope, 0)
=============================================================================
