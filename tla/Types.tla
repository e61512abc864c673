-------------------------------- MODULE Types -------------------------------
(***************************************************************************)
(* The static types of internal/lang/typecheck.go: their kinds, which type *)
(* may be assigned to which, the common type of list elements, and how an  *)
(* annotation becomes a type.                                              *)
(***************************************************************************)
EXTENDS Syntax, FiniteSets, FiniteSetsExt, TLC

T(kind) == [k |-> kind]
IntT == T("int")
FloatT == T("float")
StrT == T("String")
BoolT == T("bool")
NilT == T("nil")
AnyT == T("interface{}")
NullT == T("null")
ListT(e) == [k |-> "List", e |-> e]
TableT(key, val) == [k |-> "HashTable", key |-> key, val |-> val]
FuncT(f) == [k |-> "fn", f |-> f, ret |-> None]            \* a named function
SigT(ret) == [k |-> "fn", f |-> "function<", ret |-> ret]  \* function<ret, ...>
StructT(f, args) == [k |-> "struct", f |-> f, args |-> args]
AnonT(fields) == [k |-> "struct", f |-> ".", args |-> <<>>, fields |-> fields]
PtrT(e) == [k |-> "ptr", e |-> e]
CopydT(e) == [k |-> "Copyd", e |-> e]
VarT(f) == [k |-> "typevar", f |-> f]
LibT(f) == [k |-> "library", f |-> f]
IfaceT(f) == [k |-> "interface", f |-> f]

Bad == T("error")              \* an expression or annotation the checker rejects

IsNumeric(t) == t.k \in {"int", "float"}

RECURSIVE Assignable(_, _)
Assignable(from, to) ==
  IF "interface{}" \in {from.k, to.k} THEN TRUE
  ELSE IF from.k = "nil" THEN FALSE
  ELSE IF from.k = "int" /\ to.k = "float" THEN TRUE
  ELSE IF to.k = "ptr"
       THEN from.k = "null" \/ Assignable(IF from.k = "ptr" THEN from.e ELSE from, to.e)
  ELSE IF "typevar" \in {from.k, to.k} THEN TRUE
  ELSE IF to.k = "interface" THEN from.k = "struct" \/ from = to
  ELSE IF from.k = "Copyd" THEN Assignable(from.e, to)
  ELSE IF to.k = "Copyd" THEN Assignable(from, to.e)
  ELSE /\ from.k = to.k
       /\ from.k = "List" => Assignable(from.e, to.e)
       /\ from.k = "HashTable" => Assignable(from.key, to.key) /\ Assignable(from.val, to.val)
       /\ from.k = "fn" => "function<" \in {from.f, to.f} \/ from.f = to.f
       /\ from.k = "struct" => /\ from.f = to.f
                               /\ Len(from.args) = Len(to.args)
                               /\ \A i \in DOMAIN from.args : Assignable(from.args[i], to.args[i])

(* The common type of the elements of a list literal. *)
RECURSIVE Join(_, _)
Join(a, b) ==
  CASE a = None -> b
    [] a # None /\ "interface{}" \in {a.k, b.k} -> AnyT
    [] a # None /\ "interface{}" \notin {a.k, b.k} /\ a.k = b.k ->
         IF a.k = "List" /\ a.e.k = b.e.k THEN ListT(Join(a.e, b.e)) ELSE a
    [] OTHER -> IF IsNumeric(a) /\ IsNumeric(b) THEN FloatT ELSE AnyT

(* The names that stand for one type whatever the program declares. *)
Named ==
  [int |-> IntT, long |-> IntT, char |-> IntT, float |-> FloatT, double |-> FloatT,
   String |-> StrT, bool |-> BoolT, void |-> AnyT, any |-> AnyT, null |-> NullT,
   Self |-> VarT("Self"), FuncBuffer |-> T("FuncBuffer"), file |-> T("file"),
   IOStream |-> T("IOStream"),
   InputStream |-> T("InputStream"), istream |-> T("InputStream"),
   ifstream |-> T("InputStream"), iofstream |-> T("InputStream"),
   OutputStream |-> T("OutputStream"), ostream |-> T("OutputStream"),
   ofstream |-> T("OutputStream"), Channel |-> T("Channel"),
   Task |-> T("Task"), thread |-> T("Task"), memorize |-> T("memorize"),
   memory |-> T("memory"), taskm |-> T("taskm")]

(* cx holds the declarations: structs, ifaces and aliases by name, and tvars,
   the type variables in scope.  A suffix counts on a number only, and only
   [Copyd]: the text between the brackets of [] is empty, so int[] is int. *)
RECURSIVE SubstType(_, _, _)
SubstType(t, cx, subst) ==
  LET args == IF t.k = "app" THEN [i \in DOMAIN t.args |-> SubstType(t.args[i], cx, subst)] ELSE <<>>
      elem == IF args = <<>> THEN AnyT ELSE args[1]
      named == IF t.b \in DOMAIN Named THEN Named[t.b] ELSE Bad
  IN IF t.k = "ref"
       THEN LET e == SubstType(t.t, cx, subst) IN IF e = Bad THEN Bad ELSE PtrT(e)
     ELSE IF \E i \in DOMAIN args : args[i] = Bad THEN Bad
     ELSE IF t.k = "name" /\ t.b \in DOMAIN subst \ {"null", "any", "Self"} THEN subst[t.b]
     ELSE IF t.b \in DOMAIN Named
       THEN IF t.k = "suffix" /\ t.s = "Copyd" /\ IsNumeric(named)
              THEN CopydT(ListT(named)) ELSE named
     ELSE IF t.b \in {"List", "Array"} THEN ListT(elem)
     ELSE IF t.b = "Copyd" THEN CopydT(elem)
     ELSE IF t.b = "HashTable" THEN IF Len(args) = 2 THEN TableT(args[1], args[2]) ELSE Bad
     ELSE IF t.b \in DOMAIN cx.structs
       THEN IF args # <<>> /\ cx.structs[t.b].tps # <<>> /\ Len(args) # Len(cx.structs[t.b].tps)
              THEN Bad ELSE StructT(t.b, args)
     ELSE IF t.b \in DOMAIN cx.ifaces THEN IfaceT(t.b)
     ELSE IF t.b = "function" THEN SigT(t.args[1])
     ELSE IF t.b \in DOMAIN cx.aliases THEN SubstType(cx.aliases[t.b], cx, subst)
     ELSE IF t.b \in cx.tvars THEN VarT(t.b)
     ELSE Bad
=============================================================================
