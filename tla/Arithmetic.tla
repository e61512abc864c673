------------------------------ MODULE Arithmetic -----------------------------
(***************************************************************************)
(* Ints of Word bits, as the interpreter and the compiled program compute  *)
(* with them: results wrap around, division truncates towards zero, the    *)
(* amount of a shift counts modulo Word.                                   *)
(***************************************************************************)
EXTENDS Syntax

Abs(x) == IF x < 0 THEN -x ELSE x
Wrap(x) == ((x + 2 ^ (Word - 1)) % (2 ^ Word)) - 2 ^ (Word - 1)
Quo(a, b) == LET q == Abs(a) \div Abs(b) IN IF (a < 0) = (b < 0) THEN q ELSE -q
Rem(a, b) == a - b * Quo(a, b)
Shl(a, n) == Wrap(a * 2 ^ (n % Word))
Shr(a, n) == a \div 2 ^ (n % Word)
=============================================================================
