------------------------------- MODULE Machine -------------------------------
(***************************************************************************)
(* What becomes of the code that Codegen emits: LLVM refuses it, or it is  *)
(* linked and runs.  LLVM, the C library and the processor are external;   *)
(* what they do is taken from how the emitted code relies on them.  Where  *)
(* that is undefined, so is the outcome.  Tasks and channels of compiled   *)
(* programs are the subject of QThreads: here they are not run.            *)
(***************************************************************************)
EXTENDS Codegen

Doublings == 10                              \* at most 2^10 steps of a program are looked at

Ends == {"br", "cond", "ret"}                \* instructions that end a block
(* Types: i is 32 bits, b one, p an address, the others structures of words. *)
Structure(n) == "struct" \o ToString(n)
TypeOf(c) ==
  CASE c.op \in {"arith", "select", "call", "recv", "send", "pid", "done", "print", "extract"} -> "i"
    [] c.op \in {"icmp", "bool"} -> "b"
    [] c.op = "load" -> IF c.x = "int" THEN "i" ELSE "p"
    [] c.op = "whole" -> Structure(c.x)
    [] OTHER -> "p"
Takes(c) ==
  CASE c.op = "cond" -> <<"b">>
    [] c.op = "ret" -> <<"i">>
    [] c.op = "store" -> IF c.x = "int" THEN <<"i", "p">> ELSE <<"p", "p">>
    [] c.op \in {"icmp", "arith"} -> <<"i", "i">>
    [] c.op = "bool" -> <<"b", "b">>
    [] c.op = "select" -> <<"b", "i", "i">>
    [] c.op = "strcat" -> <<"p", "p">>
    [] c.op \in {"elem", "realloc", "send", "merge"} -> <<"p", "i">>
    [] c.op = "extract" -> <<Structure(2)>>
    [] c.op = "word" -> <<"b">>
    [] c.op = "print" -> c.x
    [] c.op = "call" -> [i \in DOMAIN c.as |-> IF i = 1 /\ c.x.self > 0 THEN Structure(c.x.self) ELSE "i"]
    [] c.op \in {"load", "whole", "part", "field", "recv", "block", "done", "pid", "free"} -> <<"p">>
    [] OTHER -> <<>>

(* Blocks begin at a label, or without one behind the end of another. *)
Starts(code) ==
  {1} \cup {i \in DOMAIN code : code[i].op = "label"}
      \cup {i \in DOMAIN code : i > 1 /\ code[i - 1].op \in Ends}
BlockAt(code, i) == Max({b \in Starts(code) : b <= i})
Target(code, block) == CHOOSE i \in DOMAIN code : code[i].op = "label" /\ code[i].x = block
Targets(code, b) ==
  LET last == code[Min({i \in DOMAIN code : i >= b /\ code[i].op \in Ends})] IN
  CASE last.op = "br" -> {Target(code, last.x)}
    [] last.op = "cond" -> {Target(code, x) : x \in Range(last.x)}
    [] last.op = "ret" -> {}
RECURSIVE Reached(_, _, _)
(* The blocks control reaches from those given without passing block avoided. *)
Reached(code, from, avoided) ==
  LET more == (from \cup UNION {Targets(code, b) : b \in from}) \ {avoided} IN
  IF more = from THEN from ELSE Reached(code, more, avoided)

(* What the assembler and the verifier look at in function f: blocks end where
   they must; a block without a name takes the number of the register behind;
   operands have the types that are expected, and are computed on every way to
   their use; the functions called exist. *)
WellFormed(f, names) ==
  LET code == f.code
      made == [n \in {code[i].d : i \in DOMAIN code} \ {0} |-> CHOOSE i \in DOMAIN code : code[i].d = n]
      OperandOk(v, t, i) ==
        CASE v.k = "num" -> t = "i"
          [] v.k = "bit" -> t = "b"
          [] v.k = "arg" -> t = "i"
          [] v.k = "self" -> t = Structure(f.self)
          [] v.k = "raw" -> FALSE
          [] v.k = "reg" -> v.n \in DOMAIN made /\ TypeOf(code[made[v.n]]) = t
      Computed(n, i) ==
        LET at == BlockAt(code, made[n])
            use == BlockAt(code, i)
        IN  IF at = use THEN made[n] < i ELSE use \notin Reached(code, {1} \ {at}, at)
  IN  /\ code[Len(code)].op \in Ends
      /\ \A i \in DOMAIN code :
           LET c == code[i] IN
           /\ c.op = "label" => i > 1 /\ code[i - 1].op \in Ends
           /\ i > 1 /\ code[i - 1].op \in Ends /\ c.op # "label" =>
                \A j \in i .. Len(code) : BlockAt(code, j) = i => code[j].d = 0
           /\ c.op \in {"field", "extract"} => LET x == IF c.op = "field" THEN c.x ELSE <<c.x, 2>> IN x[1] < x[2]
           /\ Len(c.as) = Len(Takes(c)) /\ \A n \in DOMAIN c.as : OperandOk(c.as[n], Takes(c)[n], i)
           /\ c.op = "call" => c.x.f \in names
      /\ \A i \in DOMAIN code : \A v \in Range(code[i].as) : v.k = "reg" => Computed(v.n, i)
Valid(p) ==
  LET names == [i \in DOMAIN p.fs |-> p.fs[i].name] IN
  /\ IsInjective(names)
  /\ \A i \in DOMAIN p.fs : WellFormed(p.fs[i], Range(names))
  /\ \A r \in Range(p.runners) : r.f \in Range(names)

----------------------------------------------------------------------------
(* Running.  A state st: the frames, the innermost first; memory, objects of   *)
(* cells, some on the heap, alive until they are freed; out, the lines printed; *)
(* k is running or how it ended, and v what main returned.                     *)

I32(n) == [k |-> "int", n |-> n]
I1(b) == [k |-> "bit", b |-> b]
Chars(s) == [k |-> "chars", s |-> s]
Address(o, i) == [k |-> "address", o |-> o, i |-> i]        \* of cell i, from 0, of object o
Words(vs) == [k |-> "words", vs |-> vs]                      \* a struct
Junk == [k |-> "junk"]                                       \* what nobody has stored

Frame(f, args) == [f |-> f, pc |-> 1, regs |-> <<>>, args |-> args]
Halted(st, k) == [st EXCEPT !.k = k]
Value(fr, v) ==
  CASE v.k = "reg" -> fr.regs[v.n]
    [] v.k = "num" -> I32(Wrap(v.n))
    [] v.k = "bit" -> I1(v.b)
    [] v.k = "arg" -> fr.args[v.n + 1]
    [] v.k = "self" -> fr.args[1]

(* Going on behind instruction c, with v in its register; going to a block. *)
Behind(st) == [st EXCEPT !.frames[1].pc = @ + 1]
Sets(st, c, v) == [Behind(st) EXCEPT !.frames[1].regs = (c.d :> v) @@ @]
Goes(st, block) == [st EXCEPT !.frames[1].pc = Target(st.frames[1].f.code, block)]

(* Memory. *)
Alive(st, a, n) == a.k = "address" /\ st.mem[a.o].alive /\ 0 <= a.i /\ a.i + n <= Len(st.mem[a.o].cells)
OnHeap(st, a) == Alive(st, a, 0) /\ a.i = 0 /\ st.mem[a.o].heap
Cell(st, a) == st.mem[a.o].cells[a.i + 1]
Allocates(st, c, cells, heap) ==
  Sets([st EXCEPT !.mem = Append(@, [alive |-> TRUE, heap |-> heap, cells |-> cells])], c, Address(Len(st.mem) + 1, 0))
Fresh(n) == [i \in 1 .. n |-> Junk]
Moved(a, n) == [a EXCEPT !.i = @ + n]
Loaded(v, x) == IF (x = "int") = (v.k = "int") THEN v ELSE Junk

(* Arithmetic; what the processor leaves open is undefined. *)
Compares(op, l, r) ==
  CASE op = "==" -> l = r [] op = "!=" -> l # r [] op = "<" -> l < r
    [] op = "<=" -> l <= r [] op = ">" -> l > r [] op = ">=" -> l >= r
Defined(op, l, r) ==
  CASE op \in {"/", "%"} -> r # 0 /\ Quo(l, r) = Wrap(Quo(l, r))
    [] op \in {"<<", ">>"} -> r \in 0 .. Word - 1
    [] OTHER -> TRUE
Computes(op, l, r) ==
  Wrap(CASE op = "+" -> l + r [] op = "-" -> l - r [] op = "*" -> l * r [] op = "/" -> Quo(l, r)
         [] op = "%" -> Rem(l, r) [] op = "<<" -> Shl(l, r) [] op = ">>" -> Shr(l, r))

(* A call, which must be of the kind the function is, and not one LLVM takes to be
   impossible.  Printing, which may be lost where LLVM takes a call to have no
   effect. *)
Callable(st, c, f) ==
  /\ Len(c.as) = f.n /\ c.x.self = f.self
  /\ f.once => \A i \in DOMAIN st.frames : st.frames[i].f.name # f.name
Printable(st, vs) ==
  /\ \A i \in 1 .. Len(st.frames) - 1 : ~st.frames[i].f.pure
  /\ \A v \in Range(vs) : v.k \in {"int", "chars"}
Returns(st, v) ==
  LET below == [st EXCEPT !.frames = Tail(@)]
      caller == below.frames[1]
  IN  IF Len(st.frames) = 1 THEN [Halted(st, "ran") EXCEPT !.v = v] ELSE Sets(below, caller.f.code[caller.pc], v)

Called(c, fs) == fs[CHOOSE i \in DOMAIN fs : fs[i].name = c.x.f]
(* Instruction c with operands vs: is it defined what it does, and what it does. *)
Sound(st, c, vs, fs) ==
  /\ \A i \in DOMAIN vs : vs[i] = Junk => c.op = "store" /\ i = 1
  /\ CASE c.op = "load" -> Alive(st, vs[1], 1)
       [] c.op = "whole" -> Alive(st, vs[1], c.x)
       [] c.op = "store" -> Alive(st, vs[2], 1)
       [] c.op \in {"realloc", "free"} -> OnHeap(st, vs[1])
       [] c.op \in {"part", "field", "elem"} -> vs[1].k = "address"
       [] c.op = "arith" -> Defined(c.x, vs[1].n, vs[2].n)
       [] c.op = "strcat" -> vs[1].k = "chars" /\ vs[2].k = "chars"
       [] c.op = "call" -> Callable(st, c, Called(c, fs))
       [] c.op = "print" -> Printable(st, vs)
       [] c.op \in {"send", "recv", "merge", "block", "done", "pid", "spawn", "chan"} -> FALSE
       [] OTHER -> TRUE
Effect(st, c, vs, fs) ==
  CASE c.op = "label" -> Behind(st)
    [] c.op = "br" -> Goes(st, c.x)
    [] c.op = "cond" -> Goes(st, IF vs[1].b THEN c.x[1] ELSE c.x[2])
    [] c.op = "ret" -> Returns(st, vs[1])
    [] c.op = "call" -> [st EXCEPT !.frames = <<Frame(Called(c, fs), vs)>> \o @]
    [] c.op = "print" -> Sets([st EXCEPT !.out = Append(@, vs)], c, I32(0))
    [] c.op = "text" -> Sets(st, c, Chars(c.x))
    [] c.op = "word" -> Sets(st, c, Chars(IF vs[1].b THEN "true" ELSE "false"))
    [] c.op = "strcat" -> Sets(st, c, Chars(vs[1].s \o vs[2].s))
    [] c.op = "icmp" -> Sets(st, c, I1(Compares(c.x, vs[1].n, vs[2].n)))
    [] c.op = "bool" ->
         Sets(st, c, I1(CASE c.x = "&&" -> vs[1].b /\ vs[2].b [] c.x = "||" -> vs[1].b \/ vs[2].b [] c.x = "xor" -> vs[1].b # vs[2].b))
    [] c.op = "arith" -> Sets(st, c, I32(Computes(c.x, vs[1].n, vs[2].n)))
    [] c.op = "select" -> Sets(st, c, IF vs[1].b THEN vs[2] ELSE vs[3])
    [] c.op = "alloca" -> Allocates(st, c, Fresh(c.x), FALSE)
    [] c.op = "malloc" -> Allocates(st, c, Fresh(c.x), TRUE)
    [] c.op = "realloc" ->
         LET old == st.mem[vs[1].o].cells IN
         Allocates([st EXCEPT !.mem[vs[1].o].alive = FALSE], c,
                   [i \in 1 .. vs[2].n |-> IF i <= Len(old) THEN old[i] ELSE Junk], TRUE)
    [] c.op = "free" -> Behind([st EXCEPT !.mem[vs[1].o].alive = FALSE])
    [] c.op = "part" -> Sets(st, c, Moved(vs[1], c.x))
    [] c.op = "field" -> Sets(st, c, Moved(vs[1], c.x[1]))
    [] c.op = "elem" -> Sets(st, c, Moved(vs[1], vs[2].n))
    [] c.op = "load" -> Sets(st, c, Loaded(Cell(st, vs[1]), c.x))
    [] c.op = "whole" -> Sets(st, c, Words([i \in 1 .. c.x |-> Cell(st, Moved(vs[1], i - 1))]))
    [] c.op = "extract" -> Sets(st, c, vs[1].vs[c.x + 1])
    [] c.op = "store" -> Behind([st EXCEPT !.mem[vs[2].o].cells[vs[2].i + 1] = vs[1]])

Step(st, fs) ==
  LET fr == st.frames[1]
      c == fr.f.code[fr.pc]
      vs == [i \in DOMAIN c.as |-> Value(fr, c.as[i])]
  IN  IF Sound(st, c, vs, fs) THEN Effect(st, c, vs, fs) ELSE Halted(st, "undefined")
RECURSIVE Steps(_, _, _)
Steps(st, n, fs) ==
  IF st.k # "running" THEN st
  ELSE IF n = 0 THEN Step(st, fs)
  ELSE Steps(Steps(st, n - 1, fs), n - 1, fs)

(* The outcome of a text: refused by the compiler, crashed in it, invalid for
   LLVM, and then undefined, running for longer than is looked at, or run. *)
Shown(v) == IF v.k = "int" THEN ToString(v.n) ELSE v.s
Ended(k) == [k |-> k, v |-> Junk, out |-> <<>>]
Execute(fs) ==
  LET end == Steps([frames |-> <<Frame(Last(fs), <<>>)>>, mem |-> <<>>, out |-> <<>>, k |-> "running", v |-> Junk], Doublings, fs)
  IN  [k |-> end.k, v |-> end.v, out |-> [i \in DOMAIN end.out |-> [n \in DOMAIN end.out[i] |-> Shown(end.out[i][n])]]]
Outcome(text) ==
  LET parsed == ParseSource(text)
      p == EmitProgram(parsed.v)
  IN  IF ~parsed.ok THEN Ended("refused")
      ELSE IF p.fails THEN Ended("crashed")
      ELSE IF ~Valid(p) THEN Ended("invalid")
      ELSE Execute(p.fs)
=============================================================================
