----------------------------- MODULE Signatures -----------------------------
(***************************************************************************)
(* What the type checker knows of the methods, functions and static        *)
(* functions that the runtime provides: how many arguments each takes, of  *)
(* which types, and the type of its result (methodType, the builtins of    *)
(* inferCall, and inferScope of internal/lang/typecheck.go).               *)
(***************************************************************************)
EXTENDS Types

(* A signature: parameters, how many of them must be given, the result.  A
   parameter is a type the argument must be assignable to, or the set of
   kinds it must be one of; arguments past the last parameter are free. *)
OneOf(kinds) == [k |-> "oneof", kinds |-> kinds]
Sig(params, ret) == [ps |-> params, least |-> Len(params), most |-> Len(params), ret |-> ret]
Optional(params, least, ret) == [ps |-> params, least |-> least, most |-> Len(params), ret |-> ret]
Open(params, ret) == [ps |-> params, least |-> Len(params), most |-> 1000, ret |-> ret]

\* Mutant: any number where an int is needed.
FitsNumber(arg, p) ==
  IF p.k = "oneof" THEN arg.k \in p.kinds \/ ("int" \in p.kinds /\ IsNumeric(arg)) ELSE Assignable(arg, p)
Fits(arg, p) == IF p.k = "oneof" THEN arg.k \in p.kinds ELSE Assignable(arg, p)

(* The type of a call of the signature, Bad when the arguments do not fit. *)
Apply(sig, args) ==
  IF /\ Len(args) \in sig.least .. sig.most
     /\ \A i \in 1 .. Len(sig.ps) : i <= Len(args) => Fits(args[i], sig.ps[i])
  THEN sig.ret ELSE Bad

Aint == OneOf({"int"})
Astr == OneOf({"String"})
Free == AnyT

NumberMethods == [toString |-> Sig(<<>>, StrT)]

FileMethods == [read |-> Sig(<<>>, StrT), name |-> Sig(<<>>, StrT), write |-> Sig(<<Free>>, NilT)]

StringMethods ==
  [m \in {"size", "toInt"} |-> Sig(<<>>, IntT)]
  @@ [m \in {"contains", "startsWith", "endsWith"} |-> Sig(<<Astr>>, BoolT)]
  @@ [m \in {"trim", "trimLeft", "trimRight", "toLower", "toUpper", "toFloat"} |-> Sig(<<>>, StrT)]
  @@ [indexOf |-> Sig(<<Astr>>, IntT), substring |-> Optional(<<Aint, Aint>>, 1, StrT),
      split |-> Sig(<<Astr>>, ListT(StrT)), charAt |-> Sig(<<Aint>>, StrT),
      replace |-> Sig(<<Astr, Astr>>, StrT)]

ListMethods(list) ==
  [m \in {"head", "tail", "size"} |-> Sig(<<>>, IntT)]
  @@ [next |-> Sig(<<>>, list.e), reset |-> Sig(<<>>, list), append |-> Sig(<<list.e>>, NilT),
      appendAll |-> Sig(<<OneOf({"List"})>>, NilT), toString |-> Sig(<<>>, StrT),
      __sort__ |-> Sig(<<>>, NilT)]

TableMethods(table) ==
  [put |-> Sig(<<table.key, table.val>>, NilT), get |-> Sig(<<Free>>, table.val),
   contains |-> Sig(<<Free>>, BoolT), keys |-> Sig(<<>>, ListT(StrT)),
   remove |-> Sig(<<Free>>, NilT), size |-> Sig(<<>>, IntT)]

StreamMethods ==
  [InputStream |-> [readln |-> Sig(<<>>, StrT), close |-> Sig(<<>>, NilT)],
   OutputStream |-> [println |-> Open(<<>>, NilT), print |-> Open(<<>>, NilT),
                     write |-> Sig(<<Free>>, NilT), close |-> Sig(<<>>, NilT)],
   IOStream |-> [println |-> Open(<<>>, NilT), print |-> Open(<<>>, NilT),
                 setIn |-> Sig(<<OneOf({"String", "InputStream"})>>, NilT),
                 setOut |-> Sig(<<OneOf({"String", "OutputStream"})>>, NilT),
                 readln |-> Sig(<<>>, StrT)]]

(* thread.merge and taskm.merge also count the arguments of a named function;
   Merges below does that. *)
TaskMethods ==
  [FuncBuffer |-> [execute |-> Sig(<<>>, T("FuncBuffer"))],
   Channel |-> [send |-> Sig(<<Free>>, NilT), recv |-> Sig(<<>>, AnyT)],
   Task |-> [merge |-> Open(<<OneOf({"fn"})>>, NilT), pid |-> Sig(<<>>, IntT),
             talk |-> Sig(<<OneOf({"Channel"})>>, NilT)],
   memory |-> [clear |-> Sig(<<>>, NilT), mode |-> Sig(<<Free>>, NilT),
               compact |-> Sig(<<>>, NilT), setBlock |-> Sig(<<Aint>>, NilT)],
   taskm |-> [spawn |-> Sig(<<>>, T("Task")), merge |-> Open(<<Aint, OneOf({"fn"})>>, NilT),
              block |-> Sig(<<OneOf({"Task", "int"})>>, NilT), done |-> Sig(<<Aint>>, BoolT),
              channel |-> Optional(<<Aint>>, 0, T("Channel"))]]

(* The arguments of a merge after the function, when the function is known. *)
Merges(recv, name, args, cx) ==
  LET at == IF recv.k = "taskm" THEN 2 ELSE 1
      f == cx.fns[args[at].f]
      rest == SubSeq(args, at + 1, Len(args))
  IN  (name = "merge" /\ recv.k \in {"Task", "taskm"} /\ args[at].f \in DOMAIN cx.fns) =>
        /\ Len(rest) = Len(f.ps)
        /\ recv.k = "taskm" =>
             \A i \in DOMAIN rest : LET p == SubstType(f.ps[i].t, cx, cx.subst)
                                    IN  p # Bad /\ Assignable(rest[i], p)

(* The methods of a receiver that is not a struct, an interface or a library. *)
MethodsOf(recv) ==
  CASE recv.k \in {"int", "float", "bool"} -> NumberMethods
    [] recv.k = "file" -> FileMethods
    [] recv.k = "String" -> StringMethods
    [] recv.k = "List" -> ListMethods(recv)
    [] recv.k = "HashTable" -> TableMethods(recv)
    [] recv.k \in DOMAIN StreamMethods -> StreamMethods[recv.k]
    [] recv.k \in DOMAIN TaskMethods -> TaskMethods[recv.k]
    [] OTHER -> <<>>

(* The functions every program can call. *)
Builtins ==
  [qkexec |-> Optional(<<Astr, Free>>, 1, IntT),
   qkexecv |-> Optional(<<Astr, OneOf({"List"}), Free>>, 2, IntT),
   qkpopen |-> Sig(<<Astr>>, T("InputStream")),
   qkhttp_get |-> Optional(<<Astr, Free>>, 1, StrT),
   qkhttp_post |-> Optional(<<Astr, Astr, Astr, Astr>>, 3, StrT),
   qkfile_read |-> Sig(<<Free>>, StrT), qkfile_write |-> Sig(<<Free, Free>>, NilT),
   qksignal_emit |-> Open(<<Free, Free>>, NilT),
   qkjson_dumps |-> Sig(<<Free>>, StrT), qkjson_loads |-> Sig(<<Astr>>, AnyT),
   rand |-> Sig(<<>>, IntT), clock |-> Sig(<<>>, IntT),
   sum |-> Optional(<<OneOf({"fn"}), Aint, Aint, Aint>>, 3, IntT),
   ConsoleInputStream |-> Sig(<<>>, T("InputStream")),
   ConsoleOutputStream |-> Sig(<<>>, T("OutputStream"))]
  @@ [f \in {"FileInputStream", "ifstream", "iofstream"} |-> Sig(<<Astr>>, T("InputStream"))]
  @@ [f \in {"FileOutputStream", "ofstream"} |-> Sig(<<Astr>>, T("OutputStream"))]

(* Builtin functions that may also be passed as values. *)
FunctionValues == {"qkexec", "qkexecv", "qkpopen", "qkhttp_get", "qkhttp_post", "qkjson_dumps",
                   "qkjson_loads", "qkfile_read", "qkfile_write", "qksignal_emit"}

(* The static functions of the names the language itself defines. *)
Statics ==
  [memorize |-> [new |-> Sig(<<>>, T("memorize"))],
   HashTable |-> [new |-> Sig(<<>>, TableT(AnyT, AnyT))],
   List |-> [new |-> Sig(<<>>, ListT(AnyT))],
   IO |-> [setIn |-> Sig(<<OneOf({"IOStream"}), OneOf({"String", "InputStream"})>>, NilT),
           setOut |-> Sig(<<OneOf({"IOStream"}), OneOf({"String", "OutputStream"})>>, NilT)],
   taskm |-> <<>>,
   file |-> [new |-> Sig(<<Free>>, T("file"))]]
=============================================================================
