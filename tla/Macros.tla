-------------------------------- MODULE Macros -------------------------------
(***************************************************************************)
(* The token-level macros of internal/lang/macro.go:                       *)
(*    #macro name (a, b) { body }     and     name(x, y)                   *)
(* A step that finds an error yields Wrong.                                *)
(***************************************************************************)
EXTENDS Lexer

Closer == "(" :> ")" @@ "[" :> "]" @@ "{" :> "}"
Opens(t) == t.k \in DOMAIN Closer
Closes(t) == t.k \in {")", "]", "}"}
Is(q, i, k) == i \in DOMAIN q /\ q[i].k = k
After(q, i) == SubSeq(q, i, Len(q))

Nesting(t) == IF Opens(t) THEN 1 ELSE IF Closes(t) THEN -1 ELSE 0

(* The bracket that closes q[i]: from i to there, as many close as open. *)
CloseOf(q, i) ==
  LET opens == {k \in i .. Len(q) : Opens(q[k])}
      closes == {k \in i .. Len(q) : Closes(q[k])}
      Upto(S, j) == Cardinality({k \in S : k <= j})
      even == {j \in closes : Upto(opens, j) = Upto(closes, j)}
  IN  IF even = {} THEN 0 ELSE Min(even)

(* What stands between the bracket q[i] and its closing one.  All brackets
   count alike; only the last one is compared. *)
Taken(q, i) ==
  LET j == CloseOf(q, i)
  IN  IF i \notin DOMAIN q THEN Wrong
      ELSE IF ~Opens(q[i]) THEN Wrong
      ELSE IF j = 0 THEN Wrong
      ELSE IF q[j].k # Closer[q[i].k] THEN Wrong
      ELSE [ok |-> TRUE, in |-> SubSeq(q, i + 1, j - 1), next |-> j + 1]

(* The parts between the commas outside brackets; the current one starts at
   start. *)
RECURSIVE SplitFrom(_, _, _, _)
SplitFrom(q, start, i, depth) ==
  IF i > Len(q) THEN <<After(q, start)>>
  ELSE IF q[i].k = "," /\ depth = 0 THEN <<SubSeq(q, start, i - 1)>> \o SplitFrom(q, i + 1, i + 1, 0)
  ELSE SplitFrom(q, start, i + 1, depth + Nesting(q[i]))
SplitTop(q) == SplitFrom(q, 1, 1, 0)

Macro(name, params, body) == [name |-> name, params |-> params, body |-> body]

(* #macro at q[i], without the empty parts of its parameter list. *)
MacroAt(q, i) ==
  LET ps == Taken(q, i + 3)
      body == IF ps.ok THEN Taken(q, ps.next) ELSE Wrong
      parts == SelectSeq(SplitTop(ps.in), LAMBDA part : part # <<>>)
  IN  IF ~Is(q, i + 2, "ident") \/ ~body.ok \/ \E n \in DOMAIN parts : Len(parts[n]) # 1 \/ parts[n][1].k # "ident"
        THEN Wrong
      ELSE [ok |-> TRUE, next |-> body.next,
            def |-> Macro(q[i + 2].x, [n \in DOMAIN parts |-> parts[n][1].x], body.in)]

RECURSIVE SplitMacroDefs(_)
SplitMacroDefs(q) ==
  LET starts == {i \in DOMAIN q : q[i].k = "#" /\ Is(q, i + 1, "macro")}
      i == CHOOSE n \in starts : \A m \in starts : n <= m
      m == MacroAt(q, i)
      more == SplitMacroDefs(After(q, m.next))
  IN  IF starts = {} THEN [ok |-> TRUE, macros |-> <<>>, rest |-> q]
      ELSE IF ~m.ok \/ ~more.ok THEN Wrong
      ELSE [ok |-> TRUE, macros |-> <<m.def>> \o more.macros, rest |-> SubSeq(q, 1, i - 1) \o more.rest]

Chosen(when, mode) == when = mode \/ (mode = "explain" /\ when = "run")
Comma == Token(",", ",", 0)

(* A macro's body with the arguments put in: out, and stop when a #return has
   ended the expansion. *)
Out(toks, stop) == [ok |-> TRUE, out |-> toks, stop |-> stop]
Stopped(r) == IF r.ok THEN Out(r.out, TRUE) ELSE Wrong
Before(toks, r) == IF r.ok THEN [r EXCEPT !.out = toks \o @] ELSE Wrong
FirstOf(S, otherwise) == IF S = {} THEN otherwise ELSE Min(S)
RECURSIVE ExpandBody(_, _, _, _)
ExpandBody(q, subst, mode, params) ==
  LET rest(i) == ExpandBody(After(q, i), subst, mode, params)
      then(toks, i) == Before(toks, rest(i))
      hash == FirstOf({i \in DOMAIN q : q[i].k = "#"}, Len(q) + 1)
      cmd == q[2].x
      args == Taken(q, 3)
  IN  IF q = <<>> THEN Out(<<>>, FALSE)
      ELSE IF hash > 1 THEN then(Concat([i \in 1 .. hash - 1 |->
                                   IF q[i].k = "ident" /\ q[i].x \in DOMAIN subst THEN subst[q[i].x] ELSE <<q[i]>>]), hash)
      ELSE IF Len(q) = 1 \/ q[2].k \notin {"ident", "return"} THEN Wrong
      ELSE IF cmd = "return" THEN Stopped(rest(3))
      ELSE IF ~args.ok THEN Wrong
      ELSE CASE cmd = "when" ->
                  LET block == Taken(q, args.next)
                      inner == ExpandBody(block.in, subst, mode, params)
                  IN  IF ~Is(args.in, 1, "ident") \/ ~Is(q, args.next, "{") \/ ~block.ok THEN Wrong
                      ELSE IF ~Chosen(args.in[1].x, mode) THEN then(<<>>, block.next)
                      ELSE IF ~inner.ok THEN Wrong
                      ELSE IF inner.stop THEN inner ELSE then(inner.out, block.next)
             [] cmd = "insert" ->                     \* #insert(#ast(x)), #insert(#ast(...))
                  LET a == args.in
                      all == \A i \in 4 .. 6 : Is(a, i, ".")
                      x == a[4].x
                  IN  IF Len(a) < 4 \/ a[1].k # "#" \/ a[2].x # "ast" \/ a[3].k # "(" \/ Last(a).k # ")" THEN Wrong
                      ELSE IF all
                        THEN then(Concat([n \in DOMAIN params |-> (IF n > 1 THEN <<Comma>> ELSE <<>>) \o subst[params[n]]]),
                                  args.next)
                      ELSE IF a[4].k # "ident" \/ x \notin DOMAIN subst THEN Wrong
                      ELSE then(subst[x], args.next)
             [] cmd = "execute" -> IF Is(args.in, 1, "ident") THEN then(<<args.in[1]>>, args.next) ELSE Wrong
             [] OTHER -> Wrong                        \* #error, and commands it does not know

(* A name is not a call behind one of these. *)
Excluded(q, i) == i > 1 /\ q[i - 1].k \in {"fn", "struct", "impl", "interface", "macro", ".", "::", "#"}

(* Every call of a macro is replaced by the macro's body; the result is not
   looked at again.  Of two macros of one name the later counts. *)
RECURSIVE ExpandFrom(_, _, _)
ExpandFrom(q, macros, mode) ==
  LET named == {m.name : m \in Range(macros)}
      i == FirstOf({j \in 1 .. Len(q) - 1 : q[j].k = "ident" /\ q[j].x \in named /\ Opens(q[j + 1]) /\ ~Excluded(q, j)}, 0)
      m == Last(SelectSeq(macros, LAMBDA d : d.name = q[i].x))
      call == Taken(q, i + 1)
      args == IF call.in = <<>> THEN <<>> ELSE SplitTop(call.in)
      body == ExpandBody(m.body, [x \in Range(m.params) |->
                 args[Max({n \in DOMAIN m.params : m.params[n] = x})]], mode, m.params)
  IN  IF i = 0 THEN Out(q, FALSE)
      ELSE IF ~call.ok THEN Wrong
      ELSE IF Len(args) # Len(m.params) \/ ~body.ok THEN Wrong
      ELSE Before(SubSeq(q, 1, i - 1) \o body.out, ExpandFrom(After(q, call.next), macros, mode))
ExpandMacros(q, macros, mode) ==
  IF macros = <<>> THEN Out(q, FALSE) ELSE ExpandFrom(q, macros, mode)

(* The tokens the parser gets. *)
AfterMacros(q, mode) ==
  LET s == SplitMacroDefs(q) IN IF s.ok THEN ExpandMacros(s.rest, s.macros, mode) ELSE Wrong
=============================================================================
