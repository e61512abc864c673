------------------------------- MODULE Runtime ------------------------------
(***************************************************************************)
(* What the interpreter accepts when a program calls a method, a function  *)
(* or a static function that the runtime provides: the kinds of the values *)
(* given, their number, the kind of the result (callMethod, the builtins   *)
(* and evalScopeCall of internal/lang/eval.go).  The checker's account of  *)
(* the same calls is in Signatures.  Lists, tables, Copyd values, structs  *)
(* and memorize buffers change state: they are in Evaluator.               *)
(***************************************************************************)
EXTENDS Integers, Sequences, TLC

(* kinds[i] is the set of kinds the i-th argument may have, {} for any; least
   and most bound the number of arguments; the result is of kind ret. *)
Row(kinds, ret) == [kinds |-> kinds, least |-> Len(kinds), most |-> Len(kinds), ret |-> ret]
Upto(kinds, least, ret) == [Row(kinds, ret) EXCEPT !.least = least]
AtLeast(kinds, ret) == [Row(kinds, ret) EXCEPT !.most = 1000]
AnyKind == {}

(* "" when the call goes through. *)
Refusal(row, args) ==
  IF Len(args) \notin row.least .. row.most THEN "CompileError"
  ELSE IF \E i \in DOMAIN row.kinds : /\ i <= Len(args) /\ row.kinds[i] # AnyKind
                                      /\ args[i].k \notin row.kinds[i] THEN "TypeError"
  ELSE ""

Str1 == <<{"String"}>>
PrintRows == [m \in {"println", "print"} |-> AtLeast(<<>>, "nil")]
SetRows == [setIn |-> Row(<<{"String", "InputStream"}>>, "nil"),
            setOut |-> Row(<<{"String", "OutputStream"}>>, "nil")]

(* The methods of a value, by the kind of the value. *)
MethodRows ==
  [k \in {"int", "float", "bool"} |-> [toString |-> Row(<<>>, "String")]]
  @@ [String |->
        [m \in {"contains", "startsWith", "endsWith"} |-> Row(Str1, "bool")]
        @@ [m \in {"trim", "trimLeft", "trimRight", "toLower", "toUpper"} |-> Row(<<>>, "String")]
        @@ [m \in {"size", "toInt"} |-> Row(<<>>, "int")]
        @@ [toFloat |-> Row(<<>>, "float"), indexOf |-> Row(Str1, "int"),
            substring |-> Upto(<<{"int"}, {"int"}>>, 1, "String"), split |-> Row(Str1, "List"),
            replace |-> Row(<<{"String"}, {"String"}>>, "String"), charAt |-> Row(<<{"int"}>>, "String")],
      file |-> [read |-> Row(<<>>, "String"), write |-> Row(Str1, "nil"), name |-> Row(<<>>, "String")],
      taskm |-> [spawn |-> Row(<<>>, "thread"), merge |-> AtLeast(<<{"int"}, {"fn", "String"}>>, "nil"),
                 block |-> Row(<<{"Task", "int"}>>, "nil"), done |-> Row(<<{"int"}>>, "bool"),
                 channel |-> Upto(<<{"int"}>>, 0, "Channel")],
      thread |-> [merge |-> AtLeast(<<{"fn", "String"}>>, "nil"), pid |-> Row(<<>>, "int"),
                  talk |-> Row(<<{"Channel"}>>, "nil")],
      memory |-> [clear |-> Row(<<>>, "nil"), mode |-> Row(<<AnyKind>>, "nil"),
                  compact |-> Row(<<>>, "nil"), setBlock |-> Row(<<{"int"}>>, "nil")],
      Task |-> [done |-> Row(<<>>, "bool")],
      Channel |-> [send |-> Row(<<AnyKind>>, "nil"), recv |-> Row(<<>>, "any")],
      IOStream |-> PrintRows @@ SetRows @@ [readln |-> Row(<<>>, "String")],
      InputStream |-> [readln |-> Row(<<>>, "String"), close |-> Row(<<>>, "nil")],
      OutputStream |-> PrintRows @@ [write |-> Row(<<AnyKind>>, "nil"), close |-> Row(<<>>, "nil")]]

(* The functions of every program. *)
BuiltinRows ==
  [f \in {"FileInputStream", "ifstream", "iofstream", "qkpopen"} |-> Row(Str1, "InputStream")]
  @@ [f \in {"FileOutputStream", "ofstream"} |-> Row(Str1, "OutputStream")]
  @@ [f \in {"rand", "clock"} |-> Row(<<>>, "int")]
  @@ [ConsoleInputStream |-> Row(<<>>, "InputStream"), ConsoleOutputStream |-> Row(<<>>, "OutputStream"),
      qkexec |-> Upto(<<{"String"}, AnyKind>>, 1, "int"),
      qkexecv |-> Upto(<<{"String"}, {"List"}, AnyKind>>, 2, "int"),
      qkhttp_get |-> Upto(<<{"String"}, AnyKind>>, 1, "String"),
      qkhttp_post |-> Upto(<<{"String"}, {"String"}, {"String"}, AnyKind>>, 3, "String"),
      qkjson_dumps |-> Row(<<AnyKind>>, "String"), qkjson_loads |-> Row(Str1, "any"),
      qkfile_read |-> Row(Str1, "String"), qkfile_write |-> Row(<<{"String"}, {"String"}>>, "nil")]

(* The static functions of the names the language defines. *)
StaticRows ==
  [memorize |-> [new |-> Row(<<>>, "memorize")], HashTable |-> [new |-> Row(<<>>, "HashTable")],
   List |-> [new |-> Row(<<>>, "List")], taskm |-> <<>>,
   IO |-> [m \in DOMAIN SetRows |-> Row(<<{"IOStream"}>> \o SetRows[m].kinds, "nil")],
   file |-> [new |-> Row(Str1, "file")]]
=============================================================================
