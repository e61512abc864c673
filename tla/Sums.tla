-------------------------------- MODULE Sums ---------------------------------
(***************************************************************************)
(* The builtin sum(generate, begin, stop, step), which adds a function's   *)
(* results without calling it for each of them if the first ones look like *)
(* an arithmetic progression or like a period.  A call yields a number and *)
(* an error: g[i] is the number, 0 with an error, and e[i] the error, or   *)
(* NoError.  Sums are wrapped once, at the end; the effects of the calls   *)
(* are left out.                                                           *)
(***************************************************************************)
EXTENDS Arithmetic, FiniteSetsExt

NoError == ""

\* The first count terms, added one by one.
Added(t, count) ==
    LET sum[j \in 0 .. count] == IF j = 0 THEN 0 ELSE sum[j - 1] + t[j - 1]
    IN  sum[count]

\* Mutant: the last partial step is not counted.
TermsFloor(begin, stop, step) == Quo(stop - begin, step)
Terms(begin, stop, step) == Quo(stop - begin + step - 1, step)

Visited(f, begin, step) == [j \in Int |-> f[begin + j * step]]
Total(n) == [n |-> Wrap(n), err |-> NoError]
Failed(err) == [n |-> 0, err |-> err]

(* The loop from begin to stop, which ends at the first call that fails.  With
   a step below 0 it ends at once, or only by such a call, which is left out. *)
Rounds(begin, stop, step) ==
    Cardinality({j \in 0 .. stop - begin : begin + j * step < stop})
Looped(g, e, begin, stop, step) ==
    LET n == Rounds(begin, stop, step)
        errs == Visited(e, begin, step)
        bad == {j \in 0 .. n - 1 : errs[j] # NoError}
    IN  CASE step < 0 /\ begin < stop -> Failed("Diverges")
          [] step > 0 /\ bad # {} -> Failed(errs[Min(bad)])
          [] OTHER -> Total(IF step < 0 THEN 0 ELSE Added(Visited(g, begin, step), n))

\* The last of n terms, if the first two are those of an arithmetic progression.
LastOf(t, n) == t[0] + (t[1] - t[0]) * (n - 1)

\* Mutant: the last term is not compared.
ProgressionOfThree(t, errs, n) == t[2] - t[1] = t[1] - t[0]

(* The first three terms and the last one are taken for a progression.  Errors
   of the first calls are not looked at.                                      *)
Progression(t, errs, n) ==
    /\ t[2] - t[1] = t[1] - t[0]
    /\ n > 0 => errs[n - 1] = NoError /\ t[n - 1] = LastOf(t, n)

(* detectPeriod: the first term that repeats the first one and is followed by
   the second one, before any call fails. *)
MaxPeriod == 256
Periods(t, errs, n) ==
    {p \in 1 .. Min({n, MaxPeriod}) - 1 : /\ t[p] = t[0] /\ t[p + 1] = t[1]
                                          /\ \A j \in 0 .. p + 1 : errs[j] = NoError}

(* A progression has a closed form.  In a period the bits of the numbers are
   counted, as if they had no sign.                                           *)
SumOf(g, e, begin, stop, step) ==
    LET n == Terms(begin, stop, step)
        t == Visited(g, begin, step)
        errs == Visited(e, begin, step)
        p == Min(Periods(t, errs, n))
        bits == [j \in Int |-> t[j] % 2 ^ Word]
    IN  CASE Progression(t, errs, n) ->
               Total(IF n <= 0 THEN 0 ELSE Quo(n * (t[0] + LastOf(t, n)), 2))
          [] ~Progression(t, errs, n) /\ Periods(t, errs, n) # {} ->
               Total(Quo(n, p) * Added(bits, p) + Added(t, Rem(n, p)))
          [] OTHER -> Looped(g, e, begin, stop, step)
=============================================================================
