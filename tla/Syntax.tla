------------------------------- MODULE Syntax -------------------------------
(***************************************************************************)
(* The syntax trees that internal/lang/ast.go declares and that the        *)
(* parser builds, the type checker reads and the interpreter and the code  *)
(* generator walk.  A node is a record whose field k is its kind; types    *)
(* are terms, names are strings, positions are left out.                   *)
(***************************************************************************)
EXTENDS Integers, Sequences

CONSTANT Word                                \* the width of an int: 32 in the code
ASSUME WordAssumption == Word \in Nat \ {0}

None == [k |-> "none"]                       \* an absent part (nil in the code)

(* Type annotations: the code keeps them as text; a term has the same parts. *)
Nm(b) == [k |-> "name", b |-> b]             \* int, String, node, T
App(b, args) == [k |-> "app", b |-> b, args |-> args]      \* List<int>
Ref(t) == [k |-> "ref", t |-> t]             \* T&, pointer T
Suffixed(b, s) == [k |-> "suffix", b |-> b, s |-> s]       \* int[Copyd], int[]

(* Expressions. *)
Num(n) == [k |-> "int", n |-> n]
Flt(n) == [k |-> "float", n |-> n]
Text(s) == [k |-> "str", s |-> s]
Flag(b) == [k |-> "bool", b |-> b]
Null == [k |-> "null"]
Id(x) == [k |-> "id", x |-> x]
Lst(items) == [k |-> "list", items |-> items]
Lit(fields) == [k |-> "lit", name |-> "", fields |-> fields]    \* .{a: 1, 2}
New(t, size) == [k |-> "new", t |-> t, size |-> size]
Un(op, e) == [k |-> "un", op |-> op, e |-> e]
Bin(op, l, r) == [k |-> "bin", op |-> op, l |-> l, r |-> r]
Call(f, args) == [k |-> "call", f |-> f, args |-> args, sign |-> ""]
Signed(f, args, x) == [k |-> "call", f |-> f, args |-> args, sign |-> x]   \* f(..) @x(..)
Mem(e, x) == [k |-> "mem", e |-> e, x |-> x]
Scoped(s, x, args) == [k |-> "scope", s |-> s, x |-> x, args |-> args]     \* S::x(..)
Idx(e, i) == [k |-> "idx", e |-> e, i |-> i]

(* Statements; a block is a sequence of statements and opens no scope. *)
Do(e) == [k |-> "expr", e |-> e]
Log(e) == [k |-> "log", e |-> e]
Delete(e) == [k |-> "delete", e |-> e]
Break == [k |-> "break"]
Try(b, x, t, c) == [k |-> "try", b |-> b, x |-> x, t |-> t, c |-> c]
Ret(e) == [k |-> "return", e |-> e]
If(c, a, b) == [k |-> "if", c |-> c, a |-> a, b |-> b]
While(c, b) == [k |-> "while", c |-> c, b |-> b]
For(x, e, b) == [k |-> "for", x |-> x, e |-> e, b |-> b]
Decl(x, t, e, decor) == [k |-> "decl", x |-> x, t |-> t, e |-> e, decor |-> decor]
Assign(to, e) == [k |-> "assign", to |-> to, e |-> e]

(* Declarations. *)
Param(x, t) == [x |-> x, t |-> t]
Func(name, tparams, params, ret, body) ==
  [name |-> name, tps |-> tparams, ps |-> params, ret |-> ret, body |-> body]
Struct(name, tparams, fields) == [name |-> name, tps |-> tparams, fields |-> fields]
Iface(name, expands, partial, methods) ==
  [name |-> name, expands |-> expands, partial |-> partial, ms |-> methods]
MSig(name, n, self, ret) ==                  \* a method of an interface: n parameters, with self
  [name |-> name, n |-> n, self |-> self, ret |-> ret]
Impl(type, iface, tparams, methods) ==
  [type |-> type, iface |-> iface, tps |-> tparams, ms |-> methods]
Library(name, methods) == [name |-> name, ms |-> methods]
Program(funcs, structs, ifaces, impls, aliases, libs) ==
  [funcs |-> funcs, structs |-> structs, ifaces |-> ifaces, impls |-> impls,
   aliases |-> aliases, libs |-> libs, kind |-> "", imports |-> <<>>, pub |-> {}]

HasSelf(f) == Len(f.ps) > 0 /\ f.ps[1].x = "self"
=============================================================================
