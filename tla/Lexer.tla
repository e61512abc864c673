-------------------------------- MODULE Lexer --------------------------------
(***************************************************************************)
(* From source text to tokens (internal/lang/token.go), and back to text   *)
(* for the compiler (compiler/macros.go).                                  *)
(*                                                                         *)
(* Text is a sequence of pieces: words, numbers, quoted strings, single    *)
(* punctuation characters, blanks and line ends.  What a word or a number  *)
(* is made of is left out; which punctuation characters join into one      *)
(* token, and what starts a comment, is not.                               *)
(***************************************************************************)
EXTENDS Integers, SequencesExt

(* What reading a part of a text or of a sequence of tokens gives: v and the
   position i behind it, or Wrong. *)
Wrong == [ok |-> FALSE]
Got(v, i) == [ok |-> TRUE, v |-> v, i |-> i]
Then(r, F(_, _)) == IF r.ok THEN F(r.v, r.i) ELSE Wrong

Piece(c, x, n) == [c |-> c, x |-> x, n |-> n]
Name(x) == Piece("word", x, 0)
Number(n) == Piece("int", "", n)
Real(n) == Piece("float", "", n)          \* counted in halves
Quoted(x) == Piece("str", x, 0)
Glyph(x) == Piece("glyph", x, 0)
Blank == Piece("blank", " ", 0)
LineEnd == Piece("line", "", 0)

(* A token: its kind, and its text or value.  The kind of a keyword or a
   punctuation mark is its text. *)
Token(k, x, n) == [k |-> k, x |-> x, n |-> n]
EndOfFile == Token("eof", "", 0)

Keywords == {"fn", "struct", "impl", "interface", "return", "if", "else", "while", "for",
             "true", "false", "log", "null", "try", "catch", "macro"}
Pairs == {"==", "!=", "<=", "<<", ">=", ">>", "::", "&&", "||"}

(* The token a piece makes on its own. *)
Alone(p) == CASE p.c = "word" -> Token(IF p.x \in Keywords THEN p.x ELSE "ident", p.x, 0)
              [] p.c = "glyph" -> Token(p.x, p.x, 0)
              [] OTHER -> Token(p.c, p.x, p.n)

(* The character at i and the one behind it, if both are punctuation. *)
Joined(text, i) ==
  IF i < Len(text) /\ text[i].c = "glyph" /\ text[i + 1].c = "glyph" THEN text[i].x \o text[i + 1].x ELSE ""

(* Where the next token starts: behind blanks, line ends and comments.  A
   comment that does not end leads to 0. *)
RECURSIVE SkipSpace(_, _), LineEndFrom(_, _), CommentEndFrom(_, _)
LineEndFrom(text, i) == IF i > Len(text) THEN i ELSE IF text[i].c = "line" THEN i ELSE LineEndFrom(text, i + 1)
CommentEndFrom(text, i) ==
  IF i > Len(text) THEN 0 ELSE IF Joined(text, i) = "*/" THEN i + 2 ELSE CommentEndFrom(text, i + 1)
SkipSpace(text, i) ==
  IF i > Len(text) \/ i = 0 THEN i
  ELSE IF text[i].c \in {"blank", "line"} THEN SkipSpace(text, i + 1)
  ELSE IF Joined(text, i) = "//" THEN SkipSpace(text, LineEndFrom(text, i))
  ELSE IF Joined(text, i) = "/*" THEN SkipSpace(text, CommentEndFrom(text, i + 2))
  ELSE i

(* The next token, if there is one, and the next n. *)
NextToken(text, from) ==
  LET i == SkipSpace(text, from)
      pair == Joined(text, i)
  IN  IF i = 0 THEN [toks |-> <<Token("error", "", 0)>>, next |-> Len(text) + 1]
      ELSE IF i > Len(text) THEN [toks |-> <<>>, next |-> i]
      ELSE IF pair \in Pairs THEN [toks |-> <<Token(pair, pair, 0)>>, next |-> i + 2]
      ELSE [toks |-> <<Alone(text[i])>>, next |-> i + 1]
RECURSIVE Tokens(_, _, _)
Tokens(text, i, n) ==
  LET first == Tokens(text, i, n \div 2)
      then == Tokens(text, first.next, n - n \div 2)
  IN  IF n = 1 THEN NextToken(text, i) ELSE [toks |-> first.toks \o then.toks, next |-> then.next]

NoTokens == <<>>                 \* a text the lexer refuses; others end with EndOfFile
Lex(text) ==
  LET toks == Tokens(text, 1, Len(text) + 1).toks
  IN  IF \E i \in DOMAIN toks : toks[i].k \in {"|", "error"} THEN NoTokens ELSE Append(toks, EndOfFile)

RECURSIVE Concat(_)
Concat(qs) ==
  LET half == Len(qs) \div 2
  IN  IF qs = <<>> THEN <<>> ELSE IF Len(qs) = 1 THEN qs[1]
      ELSE Concat(SubSeq(qs, 1, half)) \o Concat(SubSeq(qs, half + 1, Len(qs)))

(* joinTokens: words and numbers are kept apart, punctuation is not, and a
   string comes out without its quotes. *)
WordLike(t) == t.k \in Keywords \cup {"ident", "int", "float", "str"}
Rewritten(t) == CASE t.k \in {"int", "float"} -> <<Piece(t.k, "", t.n)>>
                [] WordLike(t) -> <<Name(t.x)>>
                [] Len(t.x) = 2 -> <<Glyph(SubSeq(t.x, 1, 1)), Glyph(SubSeq(t.x, 2, 2))>>
                [] OTHER -> <<Glyph(t.x)>>
JoinTokens(toks) ==
  LET kept == SelectSeq(toks, LAMBDA t : t.k # "eof" /\ ~(t.k = "str" /\ t.x = ""))
  IN  Concat([i \in DOMAIN kept |-> (IF i > 1 /\ WordLike(kept[i]) /\ WordLike(kept[i - 1]) THEN <<Blank>> ELSE <<>>)
                                   \o Rewritten(kept[i])])
=============================================================================
