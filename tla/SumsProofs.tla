----------------------------- MODULE SumsProofs ------------------------------
(***************************************************************************)
(* The shortcuts of sum are exact for the generators they were made for:   *)
(* for linear functions, also where their values or the sum overflow, and  *)
(* for remainders, for ints of any width, any range and any step above 0.  *)
(*                                                                         *)
(* The three ways to add (SumOf) are compared with the loop (Looped).      *)
(* Results count modulo 2^Word, so the lemmas are about congruent numbers. *)
(***************************************************************************)
EXTENDS Sums, FiniteSetTheorems, WellFoundedInduction, TLAPS

(* The generators f(i) { return a * i + c; } and f(i) { return i % m; }, which *)
(* do not fail.                                                            *)
Linear(a, c) == [i \in Int |-> Wrap(a * i + c)]
Remainder(m) == [i \in Int |-> Rem(i, m)]
NoErrors     == [i \in Int |-> NoError]

(* Ints.                                                                   *)

\* There are as many numbers of n bits as sets of n bits.
LEMMA PowerOfTwo == ASSUME NEW n \in Nat PROVE 2 ^ n \in Nat \ {0}
<1>1. IsFiniteSet(1 .. n) /\ Cardinality(1 .. n) = n
  BY FS_Interval
<1>2. IsFiniteSet(SUBSET (1 .. n)) /\ Cardinality(SUBSET (1 .. n)) = 2 ^ n
  BY <1>1, FS_SUBSET
<1>3. SUBSET (1 .. n) # {}
  OBVIOUS
<1> QED  BY <1>2, <1>3, FS_CardinalityType, FS_EmptySet

M == 2 ^ Word
LEMMA Width == M \in Nat \ {0} /\ 2 ^ (Word - 1) \in Nat
BY WordAssumption, PowerOfTwo DEF M

\* Numbers that are the same int.
Same(x, y) == \E k \in Int : x = y + k * M

\* Remainders determine a number up to a multiple.
LEMMA Division ==
    ASSUME NEW m \in Nat \ {0}, NEW x \in Int
    PROVE  /\ x % m \in 0 .. m - 1 /\ x \div m \in Int
           /\ x = m * (x \div m) + (x % m)
<1>1. x % m = x - m * (x \div m)
  BY Z3
<1>2. m * (x \div m) \in Int
  OBVIOUS
<1> QED  BY <1>1, <1>2

LEMMA NoMultiple ==
    ASSUME NEW m \in Nat \ {0}, NEW k \in Int, m * k < m, -m < m * k
    PROVE  k = 0
<1>1. k >= 1 => m * k >= m
  OBVIOUS
<1>2. k <= -1 => m * k <= -m
  OBVIOUS
<1> QED  BY <1>1, <1>2

LEMMA OneRemainder ==
    ASSUME NEW m \in Nat \ {0}, NEW x \in Int, NEW q \in Int, NEW r \in 0 .. m - 1,
           x = m * q + r
    PROVE  x % m = r
<1> DEFINE s == x % m
           p == x \div m
<1>1. s \in 0 .. m - 1 /\ p \in Int /\ x = m * p + s
  BY Division
<1> HIDE DEF s, p
<1>2. m * (p - q) = r - s
  BY <1>1
<1>3. p - q = 0
  <2>1. r - s < m /\ -m < r - s /\ p - q \in Int
    BY <1>1
  <2> QED  BY <1>2, <2>1, NoMultiple
<1> QED  BY <1>1, <1>3 DEF s

LEMMA SameRemainder ==
    ASSUME NEW m \in Nat \ {0}, NEW x \in Int, NEW k \in Int
    PROVE  (x + k * m) % m = x % m
<1> DEFINE r == x % m
           q == x \div m
<1>1. r \in 0 .. m - 1 /\ q \in Int /\ x = m * q + r
  BY Division
<1> HIDE DEF r, q
<1>2. x + k * m = m * (q + k) + r /\ x + k * m \in Int /\ q + k \in Int
  BY <1>1
<1>3. (x + k * m) % m = r
  BY <1>1, <1>2, OneRemainder
<1> QED  BY <1>3 DEF r

\* What is the same before wrapping is equal after it, and the other way.
LEMMA WrapIsSame ==
    ASSUME NEW x \in Int
    PROVE  Wrap(x) \in Int /\ Same(Wrap(x), x)
<1> DEFINE h == 2 ^ (Word - 1)
           y == x + h
           r == y % M
           q == y \div M
<1>1. h \in Int /\ M \in Nat \ {0} /\ y \in Int
  BY Width
<1>2. r \in Int /\ q \in Int /\ y = M * q + r
  <2> HIDE DEF y
  <2> QED  BY <1>1, Division
<1>3. Wrap(x) = r - h
  BY DEF Wrap, M
<1> HIDE DEF h, r, q
<1>4. M * q \in Int /\ (-q) * M = -(M * q) /\ -q \in Int
  BY <1>1, <1>2
<1>5. Wrap(x) = x + (-q) * M /\ Wrap(x) \in Int
  BY <1>1, <1>2, <1>3, <1>4
<1> QED  BY <1>4, <1>5 DEF Same

LEMMA SameWrap ==
    ASSUME NEW x \in Int, NEW y \in Int, Same(x, y)
    PROVE  Wrap(x) = Wrap(y)
<1>1. PICK k \in Int : x = y + k * M
  BY DEF Same
<1> DEFINE h == 2 ^ (Word - 1)
<1>2. h \in Int /\ M \in Nat \ {0}
  BY Width
<1> HIDE DEF h
<1>3. x + h = (y + h) + k * M /\ y + h \in Int
  BY <1>1, <1>2
<1>4. (x + h) % M = (y + h) % M
  BY <1>2, <1>3, SameRemainder
<1> QED  BY <1>4 DEF Wrap, M, h

\* It is an equivalence, and addition keeps it.
LEMMA SameAlgebra ==
    /\ \A x \in Int : Same(x, x)
    /\ \A x, y \in Int : Same(x, y) => Same(y, x)
    /\ \A x, y, z \in Int : Same(x, y) /\ Same(y, z) => Same(x, z)
    /\ \A x, y, u, v \in Int : Same(x, y) /\ Same(u, v) => Same(x + u, y + v)
    /\ \A x, y, k \in Int : Same(x, y) => Same(k * x, k * y)
<1>0. M \in Int
  BY Width
<1>1. ASSUME NEW x \in Int PROVE Same(x, x)
  <2>1. x = x + 0 * M
    BY <1>0
  <2> QED  BY <2>1 DEF Same
<1>2. ASSUME NEW x \in Int, NEW y \in Int, Same(x, y) PROVE Same(y, x)
  <2>1. PICK k \in Int : x = y + k * M
    BY <1>2 DEF Same
  <2>2. y = x + (-k) * M /\ -k \in Int
    BY <1>0, <2>1
  <2> QED  BY <2>2 DEF Same
<1>3. ASSUME NEW x \in Int, NEW y \in Int, NEW z \in Int, Same(x, y), Same(y, z)
      PROVE  Same(x, z)
  <2>1. PICK k \in Int : x = y + k * M
    BY <1>3 DEF Same
  <2>2. PICK l \in Int : y = z + l * M
    BY <1>3 DEF Same
  <2>3. x = z + (k + l) * M /\ k + l \in Int
    BY <1>0, <2>1, <2>2
  <2> QED  BY <2>3 DEF Same
<1>4. ASSUME NEW x \in Int, NEW y \in Int, NEW u \in Int, NEW v \in Int,
             Same(x, y), Same(u, v)
      PROVE  Same(x + u, y + v)
  <2>1. PICK k \in Int : x = y + k * M
    BY <1>4 DEF Same
  <2>2. PICK l \in Int : u = v + l * M
    BY <1>4 DEF Same
  <2>3. x + u = (y + v) + (k + l) * M /\ k + l \in Int
    BY <1>0, <2>1, <2>2
  <2> QED  BY <2>3 DEF Same
<1>5. ASSUME NEW x \in Int, NEW y \in Int, NEW k \in Int, Same(x, y)
      PROVE  Same(k * x, k * y)
  <2>1. PICK l \in Int : x = y + l * M
    BY <1>5 DEF Same
  <2>2. k * (l * M) = (k * l) * M /\ l * M \in Int /\ k * l \in Int
    BY <1>0
  <2>3. k * (y + l * M) = k * y + k * (l * M)
    BY <2>2
  <2> QED  BY <2>1, <2>2, <2>3 DEF Same
<1> QED  BY <1>1, <1>2, <1>3, <1>4, <1>5

----------------------------------------------------------------------------
(* Adding terms one by one.                                                *)

\* Induction, for a set.
LEMMA SetInduction ==
    ASSUME NEW T, 0 \in T, \A n \in Nat : n \in T => n + 1 \in T
    PROVE  Nat \subseteq T
<1> SUFFICES ASSUME Nat \ T # {} PROVE FALSE
  OBVIOUS
<1>1. PICK m \in Nat \ T : \A k \in Nat \ T : <<k, m>> \notin OpToRel(<, Nat)
  <2>1. Nat \ T \subseteq Nat
    OBVIOUS
  <2>2. IsWellFoundedOn(OpToRel(<, Nat), Nat)
    BY NatLessThanWellFounded
  <2> HIDE DEF OpToRel, IsWellFoundedOn
  <2> QED  BY <2>1, <2>2, WFMin
<1>2. m # 0 /\ m - 1 \in Nat /\ m - 1 < m
  OBVIOUS
<1>3. <<m - 1, m>> \in OpToRel(<, Nat)
  BY <1>2 DEF OpToRel
<1>4. m - 1 \in T
  BY <1>1, <1>2, <1>3
<1> QED  BY <1>2, <1>4

\* f[j] is the sum of the first j terms, for j up to n.
Partial(f, t, n) ==
    f = [j \in 0 .. n |-> IF j = 0 THEN 0 ELSE f[j - 1] + t[j - 1]]

LEMMA PartialExtends ==
    ASSUME NEW t, NEW n \in Nat, NEW f, Partial(f, t, n)
    PROVE  \E h : Partial(h, t, n + 1) /\ h[n] = f[n]
<1> DEFINE h == [j \in 0 .. n + 1 |-> IF j = n + 1 THEN f[n] + t[n] ELSE f[j]]
<1>1. \A j \in 0 .. n + 1 : h[j] = IF j = 0 THEN 0 ELSE h[j - 1] + t[j - 1]
  <2> SUFFICES ASSUME NEW j \in 0 .. n + 1
               PROVE  h[j] = IF j = 0 THEN 0 ELSE h[j - 1] + t[j - 1]
    OBVIOUS
  <2>1. CASE j = n + 1
    <3>1. j # 0 /\ j - 1 = n /\ h[j - 1] = f[n]
      BY <2>1
    <3> QED  BY <2>1, <3>1
  <2>2. CASE j # n + 1
    <3>1. j \in 0 .. n /\ h[j] = f[j] /\ (j # 0 => h[j - 1] = f[j - 1])
      BY <2>2
    <3>2. f[j] = IF j = 0 THEN 0 ELSE f[j - 1] + t[j - 1]
      BY <3>1 DEF Partial
    <3> QED  BY <3>1, <3>2
  <2> QED  BY <2>1, <2>2
<1>2. Partial(h, t, n + 1)
  BY <1>1 DEF Partial
<1>3. h[n] = f[n]
  OBVIOUS
<1> HIDE DEF h
<1> QED  BY <1>2, <1>3

LEMMA PartialExists ==
    ASSUME NEW t, NEW n \in Nat
    PROVE  \E f : Partial(f, t, n)
<1> DEFINE T == {m \in Nat : \E f : Partial(f, t, m)}
<1>1. 0 \in T
  <2> DEFINE f == [j \in 0 .. 0 |-> 0]
  <2>1. Partial(f, t, 0)
    BY DEF Partial
  <2> HIDE DEF f
  <2> QED  BY <2>1
<1>2. ASSUME NEW m \in Nat, m \in T PROVE m + 1 \in T
  BY <1>2, PartialExtends
<1>3. n \in T
  <2> HIDE DEF T
  <2> QED  BY <1>1, <1>2, SetInduction
<1> QED  BY <1>3

LEMMA PartialsAgree ==
    ASSUME NEW t, NEW n \in Nat, NEW f, NEW h, Partial(f, t, n), Partial(h, t, n)
    PROVE  f[n] = h[n]
<1> DEFINE T == {m \in Nat : m <= n => f[m] = h[m]}
<1>1. 0 \in T
  BY DEF Partial
<1>2. ASSUME NEW m \in Nat, m \in T PROVE m + 1 \in T
  <2> SUFFICES ASSUME m + 1 <= n PROVE f[m + 1] = h[m + 1]
    OBVIOUS
  <2>1. m + 1 \in 0 .. n /\ m + 1 # 0 /\ (m + 1) - 1 = m /\ f[m] = h[m]
    BY <1>2
  <2> QED  BY <2>1 DEF Partial
<1>3. n \in T
  <2> HIDE DEF T
  <2> QED  BY <1>1, <1>2, SetInduction
<1> QED  BY <1>3

LEMMA AddedIs ==
    ASSUME NEW t, NEW n \in Nat, NEW f, Partial(f, t, n)
    PROVE  Added(t, n) = f[n]
<1> DEFINE s == CHOOSE x : Partial(x, t, n)
<1>1. Partial(s, t, n)
  BY PartialExists
<1>2. Added(t, n) = s[n]
  BY DEF Added, Partial
<1> HIDE DEF s
<1> QED  BY <1>1, <1>2, PartialsAgree

LEMMA AddedNone == ASSUME NEW t PROVE Added(t, 0) = 0
<1>1. PICK f : Partial(f, t, 0)
  BY PartialExists
<1>2. f[0] = 0
  BY <1>1 DEF Partial
<1> QED  BY <1>1, <1>2, AddedIs

LEMMA AddedNext ==
    ASSUME NEW t, NEW n \in Nat
    PROVE  Added(t, n + 1) = Added(t, n) + t[n]
<1>1. PICK f : Partial(f, t, n)
  BY PartialExists
<1>2. PICK h : Partial(h, t, n + 1) /\ h[n] = f[n]
  BY <1>1, PartialExtends
<1>3. h[n + 1] = h[n] + t[n]
  BY <1>2 DEF Partial
<1>4. h[n] = f[n] /\ n + 1 \in Nat
  BY <1>2
<1> QED  BY <1>1, <1>2, <1>3, <1>4, AddedIs

LEMMA AddedIsInt ==
    ASSUME NEW t \in [Int -> Int], NEW n \in Nat
    PROVE  Added(t, n) \in Int
<1> DEFINE T == {m \in Nat : Added(t, m) \in Int}
<1>1. 0 \in T
  BY AddedNone
<1>2. ASSUME NEW m \in Nat, m \in T PROVE m + 1 \in T
  BY <1>2, AddedNext
<1>3. n \in T
  <2> HIDE DEF T
  <2> QED  BY <1>1, <1>2, SetInduction
<1> QED  BY <1>3

\* Numbers that are the same ints have sums that are.
LEMMA SameSums ==
    ASSUME NEW t \in [Int -> Int], NEW u \in [Int -> Int], NEW n \in Nat,
           \A j \in 0 .. n - 1 : Same(t[j], u[j])
    PROVE  Same(Added(t, n), Added(u, n))
<1> DEFINE T == {m \in Nat : m <= n => Same(Added(t, m), Added(u, m))}
<1>1. 0 \in T
  BY AddedNone, SameAlgebra
<1>2. ASSUME NEW m \in Nat, m \in T PROVE m + 1 \in T
  <2> SUFFICES ASSUME m + 1 <= n PROVE Same(Added(t, m + 1), Added(u, m + 1))
    OBVIOUS
  <2>1. Same(Added(t, m), Added(u, m)) /\ Same(t[m], u[m])
    BY <1>2
  <2>2. Added(t, m) \in Int /\ Added(u, m) \in Int /\ t[m] \in Int /\ u[m] \in Int
    BY AddedIsInt
  <2>3. Same(Added(t, m) + t[m], Added(u, m) + u[m])
    BY <2>1, <2>2, SameAlgebra
  <2> QED  BY <2>3, AddedNext
<1>3. n \in T
  <2> HIDE DEF T
  <2> QED  BY <1>1, <1>2, SetInduction
<1> QED  BY <1>3

\* The sum of an arithmetic progression, doubled.
LEMMA ProgressionSum ==
    ASSUME NEW a \in Int, NEW d \in Int, NEW n \in Nat
    PROVE  2 * Added([j \in Int |-> a + d * j], n) = n * (a + (a + d * (n - 1)))
<1> DEFINE t == [j \in Int |-> a + d * j]
           T == {m \in Nat : 2 * Added(t, m) = m * (a + (a + d * (m - 1)))}
<1>1. 0 \in T
  BY AddedNone
<1>2. ASSUME NEW m \in Nat, m \in T PROVE m + 1 \in T
  <2>1. Added(t, m + 1) = Added(t, m) + (a + d * m)
    BY AddedNext
  <2>2. Added(t, m) \in Int
    <3>1. t \in [Int -> Int]
      OBVIOUS
    <3> HIDE DEF t
    <3> QED  BY <3>1, AddedIsInt
  <2>3. 2 * Added(t, m) = m * (a + (a + d * (m - 1)))
    BY <1>2
  <2> HIDE DEF t
  <2>4. m * (a + (a + d * (m - 1))) + 2 * (a + d * m) = (m + 1) * (a + (a + d * m))
    <3>1. d * (m - 1) = d * m - d /\ d * m \in Int
      OBVIOUS
    <3>2. m * (d * m - d) = m * (d * m) - m * d /\ m * d = d * m /\ m * (d * m) \in Int
      OBVIOUS
    <3> QED  BY <3>1, <3>2
  <2>5. 2 * Added(t, m + 1) = (m + 1) * (a + (a + d * m))
    BY <2>1, <2>2, <2>3, <2>4
  <2>6. (m + 1) - 1 = m
    OBVIOUS
  <2> QED  BY <2>5, <2>6
<1>3. n \in T
  <2> HIDE DEF T
  <2> QED  BY <1>1, <1>2, SetInduction
<1> QED  BY <1>3

\* A period's sum counts as often as the period fits.
LEMMA ShiftedSum ==
    ASSUME NEW t \in [Int -> Int], NEW p \in Nat, \A j \in Nat : t[j + p] = t[j],
           NEW n \in Nat
    PROVE  Added(t, n + p) = Added(t, p) + Added(t, n)
<1> DEFINE T == {m \in Nat : Added(t, m + p) = Added(t, p) + Added(t, m)}
<1>1. 0 \in T
  BY AddedNone, AddedIsInt
<1>2. ASSUME NEW m \in Nat, m \in T PROVE m + 1 \in T
  <2>1. Added(t, (m + p) + 1) = Added(t, m + p) + t[m + p]
    BY AddedNext
  <2>2. Added(t, m + 1) = Added(t, m) + t[m]
    BY AddedNext
  <2>3. /\ Added(t, m) \in Int /\ Added(t, p) \in Int /\ t[m] \in Int /\ t[m + p] = t[m]
        /\ (m + p) + 1 = (m + 1) + p
    BY AddedIsInt
  <2> QED  BY <1>2, <2>1, <2>2, <2>3
<1>3. n \in T
  <2> HIDE DEF T
  <2> QED  BY <1>1, <1>2, SetInduction
<1> QED  BY <1>3

LEMMA PeriodicSum ==
    ASSUME NEW t \in [Int -> Int], NEW p \in Nat, \A j \in Nat : t[j + p] = t[j],
           NEW k \in Nat, NEW r \in Nat
    PROVE  Added(t, p * k + r) = k * Added(t, p) + Added(t, r)
<1> DEFINE T == {m \in Nat : Added(t, p * m + r) = m * Added(t, p) + Added(t, r)}
<1>0. Added(t, p) \in Int /\ Added(t, r) \in Int
  BY AddedIsInt
<1>1. 0 \in T
  BY <1>0
<1>2. ASSUME NEW m \in Nat, m \in T PROVE m + 1 \in T
  <2>1. p * m + r \in Nat /\ p * (m + 1) + r = (p * m + r) + p
    OBVIOUS
  <2>2. Added(t, (p * m + r) + p) = Added(t, p) + Added(t, p * m + r)
    BY <2>1, ShiftedSum
  <2>3. (m + 1) * Added(t, p) = Added(t, p) + m * Added(t, p) /\ m * Added(t, p) \in Int
    BY <1>0
  <2>4. Added(t, p * m + r) = m * Added(t, p) + Added(t, r)
    BY <1>2
  <2>5. Added(t, p * (m + 1) + r) = (m + 1) * Added(t, p) + Added(t, r)
    BY <1>0, <2>1, <2>2, <2>3, <2>4
  <2> QED  BY <2>5
<1>3. k \in T
  <2> HIDE DEF T
  <2> QED  BY <1>1, <1>2, SetInduction
<1> QED  BY <1>3

----------------------------------------------------------------------------
(* How many terms there are.                                               *)

\* Quotients are whole, and truncated towards zero.
LEMMA QuoOfNat ==
    ASSUME NEW a \in Nat, NEW b \in Nat \ {0}
    PROVE  /\ Quo(a, b) \in Nat /\ Rem(a, b) \in 0 .. b - 1
           /\ a = b * Quo(a, b) + Rem(a, b) /\ Rem(a, b) = a % b
<1> DEFINE q == a \div b
           r == a % b
<1>1. Quo(a, b) = q
  BY DEF Quo, Abs
<1>2. r \in 0 .. b - 1 /\ q \in Int /\ a = b * q + r
  BY Division
<1> HIDE DEF q, r
<1>3. q >= 0
  <2> SUFFICES ASSUME q <= -1 PROVE FALSE
    BY <1>2
  <2>1. b * q <= -b
    BY <1>2
  <2> QED  BY <1>2, <2>1
<1>4. b * q \in Int
  BY <1>2
<1>5. Rem(a, b) = r
  BY <1>1, <1>2, <1>4 DEF Rem
<1> QED  BY <1>1, <1>2, <1>3, <1>5 DEF r

LEMMA QuoOfNegative ==
    ASSUME NEW a \in Int, a < 0, NEW b \in Nat \ {0}
    PROVE  Quo(a, b) \in Int /\ Quo(a, b) <= 0 /\ Rem(a, b) \in Int
<1> DEFINE q == (-a) \div b
<1>1. Quo(a, b) = -q
  BY DEF Quo, Abs
<1>2. -a \in Nat /\ ~(-a < 0) /\ ~(b < 0)
  OBVIOUS
<1>3. q = Quo(-a, b)
  BY <1>2 DEF Quo, Abs
<1>4. q \in Nat
  BY <1>2, <1>3, QuoOfNat
<1> HIDE DEF q
<1>5. b * (-q) \in Int
  BY <1>4
<1> QED  BY <1>1, <1>4, <1>5 DEF Rem

LEMMA HalfOfDouble == ASSUME NEW x \in Int PROVE Quo(2 * x, 2) = x
BY DEF Quo, Abs

\* The quotient rounded up counts what the loop visits: begin + j step is
\* below stop for the first so many j, and for no other.
LEMMA TermsCount ==
    ASSUME NEW begin \in Int, NEW stop \in Int, NEW step \in Nat \ {0}
    PROVE  /\ Terms(begin, stop, step) \in Int
           /\ \A j \in Nat : begin + j * step < stop <=> j < Terms(begin, stop, step)
<1> DEFINE d == stop - begin
           a == stop - begin + step - 1
           n == Terms(begin, stop, step)
<1>1. n = Quo(a, step) /\ a \in Int /\ d \in Int /\ a = d + step - 1
  BY DEF Terms
<1> HIDE DEF a, n
<1>2. CASE a < 0
  <2>1. n \in Int /\ n <= 0
    BY <1>1, <1>2, QuoOfNegative
  <2>2. d <= 0
    BY <1>1, <1>2
  <2>3. ASSUME NEW j \in Nat PROVE ~(begin + j * step < stop) /\ ~(j < n)
    <3>1. j * step \in Nat
      OBVIOUS
    <3> QED  BY <2>1, <2>2, <3>1
  <2> QED  BY <2>1, <2>3 DEF n
<1>3. CASE a >= 0
  <2> DEFINE r == Rem(a, step)
  <2>1. n \in Nat /\ r \in 0 .. step - 1 /\ a = step * n + r
    BY <1>1, <1>3, QuoOfNat
  <2> HIDE DEF r
  <2>2. ASSUME NEW j \in Nat PROVE begin + j * step < stop <=> j < n
    <3>1. j * step \in Int /\ step * n \in Int
      BY <2>1
    <3>2. CASE j < n
      <4>1. (j + 1) * step <= n * step
        BY <2>1, <3>2
      <4>2. (j + 1) * step = j * step + step /\ n * step = step * n
        BY <2>1
      <4> QED  BY <1>1, <2>1, <3>1, <3>2, <4>1, <4>2
    <3>3. CASE n <= j
      <4>1. n * step <= j * step /\ n * step = step * n
        BY <2>1, <3>3
      <4> QED  BY <1>1, <2>1, <3>1, <3>3, <4>1
    <3> QED  BY <2>1, <3>2, <3>3
  <2> QED  BY <2>1, <2>2 DEF n
<1> QED  BY <1>1, <1>2, <1>3

----------------------------------------------------------------------------
(* The three ways to add.                                                  *)

LEMMA MinOfTwo ==
    ASSUME NEW a \in Int, NEW b \in Int
    PROVE  Min({a, b}) = IF a <= b THEN a ELSE b
BY DEF Min

\* A set of naturals that is not empty has a least element.
LEMMA LeastIsIn ==
    ASSUME NEW S \in SUBSET Nat, S # {}
    PROVE  Min(S) \in S
<1>1. PICK m \in S : \A k \in S : <<k, m>> \notin OpToRel(<, Nat)
  <2>1. IsWellFoundedOn(OpToRel(<, Nat), Nat)
    BY NatLessThanWellFounded
  <2> HIDE DEF OpToRel, IsWellFoundedOn
  <2> QED  BY <2>1, WFMin
<1>2. ASSUME NEW k \in S PROVE m <= k
  <2>1. k \in Nat /\ m \in Nat
    OBVIOUS
  <2>2. k < m => <<k, m>> \in OpToRel(<, Nat)
    BY <2>1 DEF OpToRel
  <2>3. ~(k < m)
    <3> HIDE DEF OpToRel
    <3> QED  BY <1>1, <2>2
  <2> QED  BY <2>1, <2>3
<1> QED  BY <1>2 DEF Min

LEMMA VisitedIs ==
    ASSUME NEW g \in [Int -> Int], NEW begin \in Int, NEW step \in Int
    PROVE  /\ Visited(g, begin, step) \in [Int -> Int]
           /\ \A j \in Int : Visited(g, begin, step)[j] = g[begin + j * step]
<1>1. \A j \in Int : begin + j * step \in Int
  OBVIOUS
<1> QED  BY <1>1 DEF Visited

LEMMA NoErrorVisited ==
    ASSUME NEW begin \in Int, NEW step \in Int
    PROVE  \A j \in Int : Visited(NoErrors, begin, step)[j] = NoError
<1>1. \A j \in Int : begin + j * step \in Int
  OBVIOUS
<1> QED  BY <1>1 DEF Visited, NoErrors

\* The loop makes as many rounds as there are terms.
LEMMA RoundsAreTerms ==
    ASSUME NEW begin \in Int, NEW stop \in Int, NEW step \in Nat \ {0}
    PROVE  LET n == Terms(begin, stop, step)
           IN  Rounds(begin, stop, step) = IF n > 0 THEN n ELSE 0
<1> DEFINE n == Terms(begin, stop, step)
           all == {j \in 0 .. stop - begin : begin + j * step < stop}
<1>1. n \in Int /\ \A j \in Nat : begin + j * step < stop <=> j < n
  BY TermsCount
<1>2. all = 0 .. n - 1
  <2> HIDE DEF n
  <2>1. ASSUME NEW j \in 0 .. n - 1 PROVE j \in all
    <3>1. j \in Nat /\ begin + j * step < stop
      BY <1>1
    <3>2. j <= j * step
      BY <3>1
    <3>3. j * step \in Int
      BY <3>1
    <3>4. j \in 0 .. stop - begin
      BY <3>1, <3>2, <3>3
    <3> QED  BY <3>1, <3>4
  <2>2. ASSUME NEW j \in all PROVE j \in 0 .. n - 1
    <3>1. j \in Nat /\ j < n
      BY <1>1
    <3> QED  BY <1>1, <3>1
  <2> HIDE DEF all
  <2> QED  BY <2>1, <2>2
<1> HIDE DEF n, all
<1>3. Cardinality(0 .. n - 1) = IF n > 0 THEN n ELSE 0
  <2>1. Cardinality(0 .. n - 1) = IF 0 > n - 1 THEN 0 ELSE (n - 1) - 0 + 1
    BY <1>1, FS_Interval
  <2> QED  BY <1>1, <2>1
<1> QED  BY <1>2, <1>3 DEF Rounds, n, all

\* When the calls yield no errors, the loop adds the terms.
LEMMA LoopAdds ==
    ASSUME NEW g \in [Int -> Int], NEW begin \in Int, NEW stop \in Int,
           NEW step \in Nat \ {0}
    PROVE  LET n == Terms(begin, stop, step)
           IN  Looped(g, NoErrors, begin, stop, step) =
                   Total(IF n > 0 THEN Added(Visited(g, begin, step), n) ELSE 0)
<1> DEFINE n == Terms(begin, stop, step)
           m == Rounds(begin, stop, step)
           errs == Visited(NoErrors, begin, step)
           bad == {j \in 0 .. m - 1 : errs[j] # NoError}
<1>1. n \in Int /\ m = IF n > 0 THEN n ELSE 0
  BY TermsCount, RoundsAreTerms
<1>2. bad = {}
  <2>1. \A j \in Int : errs[j] = NoError
    BY NoErrorVisited
  <2>2. m \in Int
    BY <1>1
  <2>3. \A j \in 0 .. m - 1 : j \in Int
    BY <2>2
  <2> HIDE DEF errs, m
  <2> QED  BY <2>1, <2>3
<1>3. ~(step < 0) /\ step > 0
  OBVIOUS
<1>4. Looped(g, NoErrors, begin, stop, step) = Total(Added(Visited(g, begin, step), m))
  BY <1>2, <1>3 DEF Looped
<1> HIDE DEF n, m
<1> QED  BY <1>1, <1>4, AddedNone DEF n

\* The closed form, for terms that are those of a progression.
LEMMA ClosedForm ==
    ASSUME NEW t \in [Int -> Int], NEW a \in Int, NEW d \in Int, NEW n \in Nat,
           \A j \in 0 .. n - 1 : Same(t[j], a + d * j)
    PROVE  Wrap(Quo(n * (a + (a + d * (n - 1))), 2)) = Wrap(Added(t, n))
<1> DEFINE u == [j \in Int |-> a + d * j]
<1>1. u \in [Int -> Int] /\ \A j \in Int : u[j] = a + d * j
  OBVIOUS
<1>2. 2 * Added(u, n) = n * (a + (a + d * (n - 1)))
  BY ProgressionSum
<1> HIDE DEF u
<1>3. Added(u, n) \in Int /\ Added(t, n) \in Int
  BY <1>1, AddedIsInt
<1>4. Quo(n * (a + (a + d * (n - 1))), 2) = Added(u, n)
  BY <1>2, <1>3, HalfOfDouble
<1>5. Same(Added(t, n), Added(u, n))
  <2>1. \A j \in 0 .. n - 1 : Same(t[j], u[j])
    BY <1>1
  <2> QED  BY <1>1, <2>1, SameSums
<1> QED  BY <1>3, <1>4, <1>5, SameWrap

\* The count of bits, for terms with a period.
LEMMA PeriodicForm ==
    ASSUME NEW t \in [Int -> Int], NEW p \in Nat \ {0}, \A j \in Nat : t[j + p] = t[j],
           NEW n \in Nat
    PROVE  Wrap(Quo(n, p) * Added([j \in Int |-> t[j] % 2 ^ Word], p) + Added(t, Rem(n, p)))
             = Wrap(Added(t, n))
<1> DEFINE bits == [j \in Int |-> t[j] % 2 ^ Word]
           k == Quo(n, p)
           r == Rem(n, p)
<1>1. k \in Nat /\ r \in Nat /\ n = p * k + r
  BY QuoOfNat
<1>2. bits \in [Int -> Int] /\ \A j \in Int : Same(bits[j], t[j])
  <2>1. ASSUME NEW x \in Int PROVE x % M \in Int /\ Same(x % M, x)
    <3> DEFINE b == x % M
               q == x \div M
    <3>1. M \in Nat \ {0}
      BY Width
    <3>2. b \in Int /\ q \in Int /\ x = M * q + b
      BY <3>1, Division
    <3> HIDE DEF b, q
    <3>3. M * q \in Int /\ (-q) * M = -(M * q) /\ -q \in Int
      BY <3>1, <3>2
    <3>4. b = x + (-q) * M
      BY <3>2, <3>3
    <3>5. b \in Int /\ Same(b, x)
      BY <3>2, <3>3, <3>4 DEF Same
    <3> QED  BY <3>5 DEF b
  <2>2. \A j \in Int : t[j] \in Int /\ bits[j] = t[j] % M
    BY DEF M
  <2> QED  BY <2>1, <2>2 DEF M
<1> HIDE DEF bits, k, r
<1>3. Added(t, n) = k * Added(t, p) + Added(t, r)
  <2>1. \A i, j \in Nat : Added(t, p * i + j) = i * Added(t, p) + Added(t, j)
    BY PeriodicSum
  <2>2. Added(t, p * k + r) = k * Added(t, p) + Added(t, r)
    <3> HIDE DEF Added
    <3> QED  BY <1>1, <2>1, Zenon
  <2> QED  BY <1>1, <2>2
<1>4. /\ Added(t, p) \in Int /\ Added(t, r) \in Int /\ Added(bits, p) \in Int
      /\ Same(Added(bits, p), Added(t, p))
  <2>1. p \in Nat /\ \A j \in 0 .. p - 1 : j \in Int
    OBVIOUS
  <2>2. Same(Added(bits, p), Added(t, p))
    BY <1>2, <2>1, SameSums
  <2> QED  BY <1>1, <1>2, <2>1, <2>2, AddedIsInt
<1>5. /\ k * Added(t, p) \in Int /\ k * Added(bits, p) \in Int
      /\ Same(k * Added(bits, p), k * Added(t, p))
  <2>1. k \in Int
    BY <1>1
  <2>2. \A x, y \in Int : Same(x, y) => Same(k * x, k * y)
    BY <2>1, SameAlgebra
  <2>3. \A x \in Int : k * x \in Int
    BY <2>1
  <2> QED  BY <1>4, <2>2, <2>3
<1>6. Same(k * Added(bits, p) + Added(t, r), k * Added(t, p) + Added(t, r))
  BY <1>4, <1>5, SameAlgebra
<1>7. Wrap(k * Added(bits, p) + Added(t, r)) = Wrap(Added(t, n))
  BY <1>3, <1>4, <1>5, <1>6, SameWrap
<1> QED  BY <1>7 DEF bits, k, r

\* What the first terms suggest about the others.  A progression has the right
\* ints at least, and two terms that come again are followed by all the others.
Keeps(t, n) ==
    /\ n > 0 /\ t[2] - t[1] = t[1] - t[0] /\ t[n - 1] = t[0] + (t[1] - t[0]) * (n - 1)
         => \A j \in 0 .. n - 1 : Same(t[j], t[0] + (t[1] - t[0]) * j)
    /\ \A p \in Nat \ {0} : t[p] = t[0] /\ t[p + 1] = t[1] => \A j \in Nat : t[j + p] = t[j]

\* A generator that keeps it is added correctly.
LEMMA SumOfTerms ==
    ASSUME NEW g \in [Int -> Int], NEW begin \in Int, NEW stop \in Int,
           NEW step \in Nat \ {0},
           Keeps(Visited(g, begin, step), Terms(begin, stop, step))
    PROVE  SumOf(g, NoErrors, begin, stop, step) = Looped(g, NoErrors, begin, stop, step)
<1> DEFINE t == Visited(g, begin, step)
           n == Terms(begin, stop, step)
           errs == Visited(NoErrors, begin, step)
           d == t[1] - t[0]
           last == t[0] + d * (n - 1)
           closed == Progression(t, errs, n)
           found == Periods(t, errs, n)
           p == Min(found)
           bits == [j \in Int |-> t[j] % 2 ^ Word]
           loop == Looped(g, NoErrors, begin, stop, step)
<1>1. t \in [Int -> Int] /\ n \in Int
  <2>1. step \in Int
    OBVIOUS
  <2> QED  BY <2>1, VisitedIs, TermsCount
<1>2. loop = Total(IF n > 0 THEN Added(t, n) ELSE 0)
  BY LoopAdds
<1>3. SumOf(g, NoErrors, begin, stop, step) =
        CASE closed -> Total(IF n <= 0 THEN 0 ELSE Quo(n * (t[0] + last), 2))
          [] ~closed /\ found # {} ->
               Total(Quo(n, p) * Added(bits, p) + Added(t, Rem(n, p)))
          [] OTHER -> loop
  BY DEF SumOf, LastOf
<1>4. Keeps(t, n)
  OBVIOUS
<1> HIDE DEF n, t, errs, loop
<1>5. ASSUME closed PROVE SumOf(g, NoErrors, begin, stop, step) = loop
  <2>1. CASE n <= 0
    BY <1>1, <1>2, <1>3, <1>5, <2>1
  <2>2. CASE n > 0
    <3>0. t[2] - t[1] = d /\ t[n - 1] = last
      BY <1>5, <2>2 DEF closed, Progression, LastOf
    <3>1. \A j \in 0 .. n - 1 : Same(t[j], t[0] + d * j)
      BY <1>1, <1>4, <2>2, <3>0 DEF Keeps
    <3>2. Wrap(Quo(n * (t[0] + (t[0] + d * (n - 1))), 2)) = Wrap(Added(t, n))
      <4> HIDE DEF d
      <4>1. t[0] \in Int /\ d \in Int /\ n \in Nat
        BY <1>1, <2>2 DEF d
      <4> QED  BY <1>1, <3>1, <4>1, ClosedForm
    <3> QED  BY <1>1, <1>2, <1>3, <1>5, <2>2, <3>2 DEF Total
  <2> QED  BY <1>1, <2>1, <2>2
<1>6. ASSUME ~closed, found # {} PROVE SumOf(g, NoErrors, begin, stop, step) = loop
  <2>1. found \in SUBSET (Nat \ {0}) /\ n > 0
    <3> DEFINE limit == Min({n, MaxPeriod}) - 1
    <3>1. limit \in Int /\ limit < n
      <4> DEFINE m == Min({n, MaxPeriod})
      <4>1. MaxPeriod \in Int
        BY DEF MaxPeriod
      <4>2. m = IF n <= MaxPeriod THEN n ELSE MaxPeriod
        BY <1>1, <4>1, MinOfTwo
      <4> HIDE DEF m
      <4>3. m \in Int /\ m <= n
        BY <1>1, <4>1, <4>2
      <4>4. m - 1 \in Int /\ m - 1 < n
        BY <1>1, <4>3
      <4> QED  BY <4>4 DEF m
    <3>2. found \subseteq 1 .. limit
      BY Zenon DEF Periods
    <3> HIDE DEF limit, found
    <3>3. PICK q \in found : TRUE
      BY <1>6
    <3>4. q \in 1 .. limit
      BY <3>2, <3>3
    <3> QED  BY <1>1, <3>1, <3>2, <3>4
  <2>2. p \in found /\ p \in Nat \ {0}
    BY <1>6, <2>1, LeastIsIn
  <2>3. t[p] = t[0] /\ t[p + 1] = t[1]
    BY <2>2 DEF Periods
  <2> HIDE DEF p
  <2>4. \A j \in Nat : t[j + p] = t[j]
    BY <1>4, <2>2, <2>3 DEF Keeps
  <2>5. Wrap(Quo(n, p) * Added(bits, p) + Added(t, Rem(n, p))) = Wrap(Added(t, n))
    <3>1. n \in Nat
      BY <1>1, <2>1
    <3> QED  BY <1>1, <2>2, <2>4, <3>1, PeriodicForm
  <2> QED  BY <1>2, <1>3, <1>6, <2>1, <2>5 DEF Total
<1>7. ASSUME ~closed, found = {} PROVE SumOf(g, NoErrors, begin, stop, step) = loop
  BY <1>3, <1>7
<1> HIDE DEF closed, found
<1> QED  BY <1>5, <1>6, <1>7 DEF loop

----------------------------------------------------------------------------
(* Generators.                                                             *)

LEMMA LinearKeeps ==
    ASSUME NEW t \in [Int -> Int], NEW a \in Int, NEW d \in Int, NEW n \in Int,
           \A j \in Int : t[j] = Wrap(a + d * j)
    PROVE  Keeps(t, n)
<1>1. ASSUME NEW j \in Int PROVE /\ a + d * j \in Int /\ t[j] \in Int /\ Same(t[j], a + d * j)
  BY WrapIsSame
<1>2. ASSUME NEW j \in Nat PROVE Same(t[0] + (t[1] - t[0]) * j, a + d * j)
  <2>1. Same(t[0], a)
    <3>1. a + d * 0 = a
      OBVIOUS
    <3> QED  BY <1>1, <3>1
  <2>2. Same(t[1], a + d)
    <3>1. a + d * 1 = a + d
      OBVIOUS
    <3> QED  BY <1>1, <3>1
  <2>3. t[0] \in Int /\ t[1] \in Int
    OBVIOUS
  <2>4. PICK k \in Int : t[0] = a + k * M
    BY <2>1 DEF Same
  <2>5. PICK l \in Int : t[1] = (a + d) + l * M
    BY <2>2 DEF Same
  <2>6. M \in Int
    BY Width
  <2>7. t[1] - t[0] = d + (l - k) * M
    BY <2>4, <2>5, <2>6
  <2>8. (t[1] - t[0]) * j = d * j + ((l - k) * j) * M
    BY <2>6, <2>7
  <2>9. t[0] + (t[1] - t[0]) * j = (a + d * j) + (k + (l - k) * j) * M
    <3>1. (k + (l - k) * j) * M = k * M + ((l - k) * j) * M
      BY <2>6
    <3>2. /\ d * j \in Int /\ ((l - k) * j) * M \in Int /\ k * M \in Int
      BY <2>6
    <3> QED  BY <2>4, <2>8, <3>1, <3>2
  <2>10. k + (l - k) * j \in Int
    OBVIOUS
  <2> QED  BY <2>9, <2>10 DEF Same
<1>3. ASSUME NEW j \in Nat PROVE Same(t[j], t[0] + (t[1] - t[0]) * j)
  <2> DEFINE x == t[0] + (t[1] - t[0]) * j
             y == a + d * j
  <2>1. x \in Int /\ y \in Int /\ t[j] \in Int
    <3>1. t[0] \in Int /\ t[1] - t[0] \in Int
      OBVIOUS
    <3> QED  BY <1>1, <3>1
  <2>2. Same(t[j], y) /\ Same(x, y)
    BY <1>1, <1>2
  <2> HIDE DEF x, y
  <2>3. Same(t[j], x)
    BY <2>1, <2>2, SameAlgebra
  <2> QED  BY <2>3 DEF x
<1>4. ASSUME NEW p \in Nat \ {0}, t[p] = t[0], NEW j \in Nat
      PROVE  t[j + p] = t[j]
  <2>1. Same(a + d * p, a)
    <3>1. a + d * 0 = a /\ p \in Int
      OBVIOUS
    <3>2. Same(t[0], a + d * p) /\ Same(t[0], a)
      BY <1>1, <1>4, <3>1
    <3> QED  BY <1>1, <3>1, <3>2, SameAlgebra
  <2>2. PICK k \in Int : a + d * p = a + k * M
    BY <2>1 DEF Same
  <2>3. /\ d * p \in Int /\ d * j \in Int /\ d * (j + p) \in Int
        /\ d * (j + p) = d * j + d * p /\ k * M \in Int
    BY Width
  <2>4. a + d * (j + p) = (a + d * j) + k * M
    <3>1. \A x, y \in Int : a + x = a + y => x = y
      OBVIOUS
    <3>2. d * p = k * M
      BY <2>2, <2>3, <3>1
    <3> QED  BY <2>3, <3>2
  <2>5. Same(a + d * (j + p), a + d * j)
    BY <2>4 DEF Same
  <2>6. a + d * (j + p) \in Int /\ a + d * j \in Int
    BY <2>3
  <2>7. Wrap(a + d * (j + p)) = Wrap(a + d * j)
    BY <2>5, <2>6, SameWrap
  <2> QED  BY <2>7
<1>5. \A j \in 0 .. n - 1 : j \in Nat
  OBVIOUS
<1> QED  BY <1>3, <1>4, <1>5 DEF Keeps

LEMMA LinearGenerator ==
    ASSUME NEW a \in Int, NEW c \in Int, NEW begin \in Int, NEW step \in Int,
           NEW n \in Int
    PROVE  /\ Linear(a, c) \in [Int -> Int]
           /\ Keeps(Visited(Linear(a, c), begin, step), n)
<1> DEFINE g == Linear(a, c)
           t == Visited(g, begin, step)
           b == a * begin + c
           d == a * step
<1>1. \A i \in Int : a * i + c \in Int
  OBVIOUS
<1>2. g \in [Int -> Int] /\ \A i \in Int : g[i] = Wrap(a * i + c)
  BY <1>1, WrapIsSame DEF Linear
<1> HIDE DEF g
<1>3. ASSUME NEW j \in Int
      PROVE  /\ begin + j * step \in Int
             /\ a * (begin + j * step) + c = (a * begin + c) + (a * step) * j
  <2>1. a * (begin + j * step) = a * begin + a * (j * step)
    OBVIOUS
  <2>2. a * (j * step) = (a * step) * j
    OBVIOUS
  <2>3. a * begin \in Int /\ (a * step) * j \in Int /\ j * step \in Int
    OBVIOUS
  <2> QED  BY <2>1, <2>2, <2>3
<1>4. b \in Int /\ d \in Int
  OBVIOUS
<1>5. t \in [Int -> Int] /\ \A j \in Int : t[j] = g[begin + j * step]
  BY <1>2, VisitedIs
<1>6. \A j \in Int : t[j] = Wrap(b + d * j)
  BY <1>2, <1>3, <1>5
<1> HIDE DEF t, b, d
<1>7. Keeps(t, n)
  BY <1>4, <1>5, <1>6, LinearKeeps
<1> QED  BY <1>2, <1>7 DEF g, t

\* sum of a linear function is what the loop would add, however it is computed,
\* also when the function or the sum leaves the range of an int: for ints of any
\* width, any range and any step above 0 (sumBuiltin).
THEOREM LinearSumsExact ==
    ASSUME NEW a \in Int, NEW c \in Int, NEW begin \in Int, NEW stop \in Int,
           NEW step \in Nat \ {0}
    PROVE  SumOf(Linear(a, c), NoErrors, begin, stop, step)
             = Looped(Linear(a, c), NoErrors, begin, stop, step)
<1>1. step \in Int /\ Terms(begin, stop, step) \in Int
  BY TermsCount
<1>2. /\ Linear(a, c) \in [Int -> Int]
      /\ Keeps(Visited(Linear(a, c), begin, step), Terms(begin, stop, step))
  BY <1>1, LinearGenerator
<1> QED  BY <1>2, SumOfTerms

LEMMA RemainderKeeps ==
    ASSUME NEW m \in Nat \ {0}, NEW t \in [Int -> Int], NEW b \in Nat, NEW step \in Nat,
           \A j \in Nat : t[j] = (b + j * step) % m, NEW n \in Int
    PROVE  Keeps(t, n)
\* Terms are remainders of a progression.
<1>1. ASSUME NEW j \in Nat
      PROVE  /\ t[j] \in 0 .. m - 1
             /\ \E k \in Int : t[j] = (b + j * step) + m * k
  <2> DEFINE x == b + j * step
             q == x \div m
  <2>1. x \in Int
    OBVIOUS
  <2>2. t[j] = x % m
    OBVIOUS
  <2> HIDE DEF x
  <2>3. t[j] \in 0 .. m - 1 /\ q \in Int /\ x = m * q + t[j]
    BY <2>1, <2>2, Division
  <2> HIDE DEF q
  <2>4. m * (-q) = -(m * q) /\ m * q \in Int /\ -q \in Int
    BY <2>3
  <2>5. t[j] = x + m * (-q)
    BY <2>1, <2>3, <2>4
  <2> QED  BY <2>3, <2>4, <2>5 DEF x
<1>2. ASSUME NEW p \in Nat \ {0}, t[p] = t[0], NEW j \in Nat
      PROVE  t[j + p] = t[j]
  <2>1. PICK k \in Int : t[p] = (b + p * step) + m * k
    BY <1>1
  <2>2. PICK l \in Int : t[0] = (b + 0 * step) + m * l
    BY <1>1
  <2> DEFINE x == b + j * step
             s == p * step
             r == (j + p) * step
  <2>3. x \in Int /\ s \in Int /\ r \in Int /\ b + r = x + s
    <3>1. r = j * step + s /\ j * step \in Int /\ s \in Int
      OBVIOUS
    <3> QED  BY <3>1
  <2>4. s = (l - k) * m
    <3>1. (l - k) * m = m * l - m * k /\ m * l \in Int /\ m * k \in Int /\ 0 * step = 0
      OBVIOUS
    <3>2. b + s + m * k = b + m * l
      <4>1. t[0] = b + m * l
        BY <2>2, <3>1
      <4>2. t[p] = b + s + m * k
        BY <2>1
      <4> QED  BY <1>2, <4>1, <4>2, Zenon
    <3> HIDE DEF s
    <3> QED  BY <2>3, <3>1, <3>2
  <2>5. t[j + p] = (b + r) % m /\ t[j] = x % m
    <3>1. j + p \in Nat
      OBVIOUS
    <3> QED  BY <3>1
  <2> HIDE DEF x, s, r
  <2>6. (x + (l - k) * m) % m = x % m
    <3>1. l - k \in Int
      OBVIOUS
    <3> QED  BY <2>3, <3>1, SameRemainder
  <2> QED  BY <2>3, <2>4, <2>5, <2>6
\* Between remainders the progression of the first two stays within them.
<1>3. ASSUME n > 0, t[n - 1] = t[0] + (t[1] - t[0]) * (n - 1), NEW j \in 0 .. n - 1
      PROVE  t[j] = t[0] + (t[1] - t[0]) * j
  <2>0. j \in Nat /\ n - 1 \in Nat
    BY <1>3
  <2>1. PICK k0 \in Int : t[0] = (b + 0 * step) + m * k0
    BY <1>1
  <2>2. PICK k1 \in Int : t[1] = (b + 1 * step) + m * k1
    BY <1>1
  <2>3. PICK k \in Int : t[j] = (b + j * step) + m * k
    BY <1>1, <2>0
  <2> DEFINE d == t[1] - t[0]
             y == t[0] + d * j
             z == k - k0 - (k1 - k0) * j
  <2>4. d \in Int /\ t[0] \in Int /\ t[1] \in Int /\ t[j] \in Int /\ y \in Int /\ z \in Int
    <3>1. t[0] \in Int /\ t[1] \in Int /\ t[j] \in Int
      BY <2>0
    <3>2. d * j \in Int /\ (k1 - k0) * j \in Int
      BY <2>0, <3>1
    <3> QED  BY <3>1, <3>2
  <2>5. t[j] - y = m * z
    <3>1. d = step + m * (k1 - k0)
      <4>1. m * (k1 - k0) = m * k1 - m * k0 /\ m * k1 \in Int /\ m * k0 \in Int
        OBVIOUS
      <4>2. 0 * step = 0 /\ 1 * step = step
        OBVIOUS
      <4> QED  BY <2>1, <2>2, <4>1, <4>2
    <3> DEFINE e == k1 - k0
    <3>2. e \in Int /\ d = step + m * e
      BY <3>1
    <3> HIDE DEF e
    <3>3. d * j = step * j + (m * e) * j /\ (m * e) * j = m * (e * j) /\ e * j \in Int
      BY <2>0, <3>2
    <3>4. m * (k - k0 - e * j) = m * k - m * k0 - m * (e * j)
      BY <2>0, <3>3
    <3>5. /\ m * k \in Int /\ m * k0 \in Int /\ m * (e * j) \in Int
          /\ step * j = j * step /\ j * step \in Int /\ 0 * step = 0
      BY <2>0, <3>3
    <3>6. y = b + m * k0 + j * step + m * (e * j)
      BY <2>1, <3>3, <3>5
    <3>7. t[j] = b + j * step + m * k
      BY <2>3, <3>5
    <3>8. t[j] - y = m * k - m * k0 - m * (e * j)
      BY <3>5, <3>6, <3>7
    <3> QED  BY <3>4, <3>8 DEF e
  <2>6. y \in 0 .. m - 1
    <3>1. t[0] \in 0 .. m - 1 /\ t[n - 1] \in 0 .. m - 1
      BY <1>1, <2>0
    <3>2. t[n - 1] = t[0] + d * (n - 1)
      BY <1>3
    <3> HIDE DEF d
    <3>3. d * j \in Int /\ d * (n - 1) \in Int
      BY <2>0, <2>4
    <3>4. CASE d >= 0
      <4>1. 0 <= d * j /\ d * j <= d * (n - 1)
        BY <2>0, <2>4, <3>4
      <4> QED  BY <2>4, <3>1, <3>2, <3>3, <4>1
    <3>5. CASE d < 0
      <4>1. d * j <= 0 /\ d * (n - 1) <= d * j
        BY <2>0, <2>4, <3>5
      <4> DEFINE e == d * j
                 f == d * (n - 1)
      <4>2. e \in Int /\ f \in Int /\ e <= 0 /\ f <= e
        BY <3>3, <4>1
      <4>3. y = t[0] + e /\ t[n - 1] = t[0] + f
        BY <3>2
      <4> HIDE DEF e, f, y
      <4> QED  BY <2>4, <3>1, <4>2, <4>3
    <3> QED  BY <2>4, <3>4, <3>5
  <2>7. t[j] \in 0 .. m - 1
    BY <1>1, <2>0
  <2> HIDE DEF y, z
  <2>8. z = 0
    <3>1. m * z < m /\ -m < m * z
      <4>1. t[j] - y < m /\ -m < t[j] - y
        BY <2>4, <2>6, <2>7
      <4> QED  BY <2>5, <4>1
    <3> QED  BY <2>4, <3>1, NoMultiple
  <2>9. t[j] = y
    BY <2>4, <2>5, <2>8
  <2> QED  BY <2>9 DEF y
<1>4. ASSUME NEW j \in Int PROVE Same(t[j], t[j])
  <2>1. t[j] \in Int
    OBVIOUS
  <2> QED  BY <2>1, SameAlgebra
<1>5. \A j \in 0 .. n - 1 : j \in Int
  OBVIOUS
<1> QED  BY <1>2, <1>3, <1>4, <1>5 DEF Keeps

\* sum of the remainders of a divisor, from 0 or later on, is what the loop
\* would add: a chance progression of three terms is told by the last one, and
\* a repeated pair is a period (sumBuiltin, detectPeriod).
THEOREM RemainderSumsExact ==
    ASSUME NEW m \in Nat \ {0}, NEW begin \in Nat, NEW stop \in Int,
           NEW step \in Nat \ {0}
    PROVE  SumOf(Remainder(m), NoErrors, begin, stop, step)
             = Looped(Remainder(m), NoErrors, begin, stop, step)
<1> DEFINE g == Remainder(m)
           t == Visited(g, begin, step)
           n == Terms(begin, stop, step)
<1>1. n \in Int /\ step \in Int /\ step \in Nat /\ begin \in Int
  BY TermsCount
<1>2. g \in [Int -> Int] /\ \A i \in Nat : g[i] = i % m
  <2>1. ASSUME NEW i \in Int PROVE Rem(i, m) \in Int /\ (i >= 0 => Rem(i, m) = i % m)
    <3>1. CASE i >= 0
      <4>1. i \in Nat
        BY <3>1
      <4>2. Rem(i, m) \in 0 .. m - 1 /\ Rem(i, m) = i % m
        BY <4>1, QuoOfNat
      <4>3. Rem(i, m) \in Int
        BY <4>2
      <4> QED  BY <4>2, <4>3
    <3>2. CASE i < 0
      BY <3>2, QuoOfNegative
    <3> QED  BY <3>1, <3>2
  <2> QED  BY <2>1 DEF Remainder
<1> HIDE DEF g, n
<1>3. t \in [Int -> Int] /\ \A j \in Int : t[j] = g[begin + j * step]
  BY <1>1, <1>2, VisitedIs
<1>4. \A j \in Nat : t[j] = (begin + j * step) % m
  <2> HIDE DEF t
  <2> SUFFICES ASSUME NEW j \in Nat PROVE t[j] = (begin + j * step) % m
    OBVIOUS
  <2> DEFINE x == begin + j * step
  <2>1. x \in Nat
    <3>1. j * step \in Nat
      BY <1>1
    <3> QED  BY <3>1
  <2>2. t[j] = g[x]
    BY <1>3
  <2> HIDE DEF x
  <2>3. t[j] = x % m
    BY <1>2, <2>1, <2>2
  <2> QED  BY <2>3 DEF x
<1> HIDE DEF t
<1>5. Keeps(t, n)
  BY <1>1, <1>3, <1>4, RemainderKeeps
<1> QED  BY <1>2, <1>5, SumOfTerms DEF t, n, g
=============================================================================
