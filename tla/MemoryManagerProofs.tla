------------------------ MODULE MemoryManagerProofs ------------------------
(***************************************************************************)
(* MemoryManager implements BlockPool, for any numbers of blocks, tasks    *)
(* and sizes; so what BlockPoolProofs shows of the pool holds for the      *)
(* manager.                                                                *)
(*                                                                         *)
(* The loops (up, down, Alloc's, ReclaimTask's, Clear's) are functions     *)
(* applied one after the other (Through), so a loop's invariant gives for  *)
(* each round the set of states it may leave (ThroughInvariant, by         *)
(* induction).  No lemma needs the heap to be ordered, which it is not:    *)
(* up and down may meet any keys, and what counts is that they move        *)
(* entries without losing or inventing any (Heaps).                        *)
(***************************************************************************)
EXTENDS MemoryManager, WellFoundedInduction, FiniteSetTheorems, TLAPS

(* Loops.                                                                  *)

\* Induction, for a set.
LEMMA SetInduction ==
    ASSUME NEW T, 0 \in T, \A n \in Nat : n \in T => n + 1 \in T
    PROVE  Nat \subseteq T
<1> SUFFICES ASSUME Nat \ T # {} PROVE FALSE
  OBVIOUS
<1>1. PICK m \in Nat \ T : \A k \in Nat \ T : <<k, m>> \notin OpToRel(<, Nat)
  <2>1. Nat \ T \subseteq Nat
    OBVIOUS
  <2>2. IsWellFoundedOn(OpToRel(<, Nat), Nat)
    BY NatLessThanWellFounded
  <2> HIDE DEF OpToRel, IsWellFoundedOn
  <2> QED  BY <2>1, <2>2, WFMin
<1>2. m # 0 /\ m - 1 \in Nat /\ m - 1 < m
  OBVIOUS
<1>3. <<m - 1, m>> \in OpToRel(<, Nat)
  BY <1>2 DEF OpToRel
<1>4. m - 1 \in T
  BY <1>1, <1>2, <1>3
<1> QED  BY <1>2, <1>4

\* A loop's local state after each round.
LEMMA ThroughRounds ==
    ASSUME NEW steps, Len(steps) \in Nat, NEW s
    PROVE  \E f : /\ f = [i \in 0..Len(steps) |->
                            IF i = 0 THEN s ELSE steps[i][f[i - 1]]]
                  /\ Through(steps, s) = f[Len(steps)]
<1> DEFINE IsRun(f, m) ==
             f = [i \in 0..m |-> IF i = 0 THEN s ELSE steps[i][f[i - 1]]]
           T == {m \in Nat : \E f : IsRun(f, m)}
<1>1. 0 \in T
  <2> DEFINE f == [i \in 0..0 |-> s]
  <2>1. IsRun(f, 0)
    OBVIOUS
  <2> QED  BY <2>1
<1>2. ASSUME NEW m \in Nat, m \in T PROVE m + 1 \in T
  <2>1. PICK f : IsRun(f, m)
    BY <1>2
  <2> DEFINE g == [i \in 0..(m + 1) |-> IF i = m + 1 THEN steps[i][f[m]] ELSE f[i]]
  <2>2. \A i \in 0..(m + 1) : g[i] = IF i = 0 THEN s ELSE steps[i][g[i - 1]]
    <3> SUFFICES ASSUME NEW i \in 0..(m + 1)
                 PROVE  g[i] = IF i = 0 THEN s ELSE steps[i][g[i - 1]]
      OBVIOUS
    <3>1. CASE i = m + 1
      BY <3>1
    <3>2. CASE i # m + 1
      <4>1. i \in 0..m /\ g[i] = f[i] /\ (i # 0 => i - 1 \in 0..m /\ g[i - 1] = f[i - 1])
        BY <3>2
      <4> QED  BY <2>1, <4>1
    <3> QED  BY <3>1, <3>2
  <2>3. IsRun(g, m + 1)
    BY <2>2
  <2> HIDE DEF g, IsRun
  <2> QED  BY <2>3
<1>3. Len(steps) \in T
  <2> HIDE DEF T
  <2> QED  BY <1>1, <1>2, SetInduction
<1>4. PICK f : IsRun(f, Len(steps))
  BY <1>3
<1> DEFINE after == CHOOSE e : IsRun(e, Len(steps))
<1>5. IsRun(after, Len(steps))
  BY <1>4
<1>6. Through(steps, s) = after[Len(steps)]
  BY DEF Through
<1> QED  BY <1>5, <1>6

\* What holds at the start, and after a round when it holds before it, holds at
\* the end.  G[i] is the set of states that are right after i rounds.
LEMMA ThroughInvariant ==
    ASSUME NEW steps, Len(steps) \in Nat, NEW s, NEW G,
           s \in G[0],
           \A i \in 1..Len(steps) : \A x \in G[i - 1] : steps[i][x] \in G[i]
    PROVE  Through(steps, s) \in G[Len(steps)]
<1>1. PICK f : /\ f = [i \in 0..Len(steps) |->
                         IF i = 0 THEN s ELSE steps[i][f[i - 1]]]
               /\ Through(steps, s) = f[Len(steps)]
  BY ThroughRounds
<1> DEFINE T == {i \in Nat : i <= Len(steps) => f[i] \in G[i]}
<1>2. 0 \in T
  BY <1>1
<1>3. ASSUME NEW i \in Nat, i \in T PROVE i + 1 \in T
  <2> SUFFICES ASSUME i + 1 <= Len(steps) PROVE f[i + 1] \in G[i + 1]
    OBVIOUS
  <2>1. f[i] \in G[i] /\ i + 1 \in 1..Len(steps) /\ (i + 1) - 1 = i
    BY <1>3
  <2>2. f[i + 1] = steps[i + 1][f[i]]
    BY <1>1, <2>1
  <2> QED  BY <2>1, <2>2
<1>4. Len(steps) \in T
  <2> HIDE DEF T
  <2> QED  BY <1>2, <1>3, SetInduction
<1> QED  BY <1>1, <1>4

----------------------------------------------------------------------------
(* The heap: its operations move entries, and lose or gain none but the    *)
(* one popped or pushed.                                                   *)

\* Heaps of n entries that are those of R.
Heaps(n, R) == {h \in Seq(Ids) : Len(h) = n /\ Range(h) = R}

LEMMA ExchangeKeepsEntries ==
    ASSUME NEW n \in Nat, NEW R, NEW h \in Heaps(n, R), NEW i \in 1..n, NEW j \in 1..n
    PROVE  Exchange(h, i, j) \in Heaps(n, R)
<1> DEFINE e == Exchange(h, i, j)
<1>1. h \in Seq(Ids) /\ Len(h) = n /\ DOMAIN h = 1..n /\ R = Range(h)
  BY DEF Heaps
<1>2. e \in [1..n -> Ids]
  BY <1>1 DEF Exchange
<1>3. e \in Seq(Ids) /\ Len(e) = n /\ DOMAIN e = 1..n
  BY <1>2
<1>4. e[i] = h[j] /\ e[j] = h[i] /\ \A k \in 1..n : k # i /\ k # j => e[k] = h[k]
  BY <1>1 DEF Exchange
<1>5. \A k \in 1..n : e[k] \in Range(h)
  BY <1>1, <1>4 DEF Range
<1>6. \A k \in 1..n : h[k] \in Range(e)
  <2> HIDE DEF e
  <2> QED  BY <1>1, <1>3, <1>4 DEF Range
<1>7. Range(e) = Range(h)
  <2> HIDE DEF e
  <2> QED  BY <1>1, <1>3, <1>5, <1>6 DEF Range
<1> QED  BY <1>1, <1>3, <1>7 DEF Heaps

\* The states of the loops of up and down.
MovingIn(n, R) == {m \in Moving : m.heap \in Heaps(n, R) /\ m.at \in 1..n}

LEMMA RepeatKeeps ==
    ASSUME NEW step, NEW n \in Nat, NEW s, NEW S, s \in S,
           \A x \in S : step[x] \in S
    PROVE  Through(Repeat(step, n), s) \in S
<1> DEFINE G == [i \in 0..n |-> S]
           steps == Repeat(step, n)
<1>1. Len(steps) = n /\ \A i \in 1..n : steps[i] = step
  BY DEF Repeat
<1>2. s \in G[0]
  OBVIOUS
<1>3. \A i \in 1..n : \A x \in G[i - 1] : steps[i][x] \in G[i]
  BY <1>1
<1>4. Through(steps, s) \in G[n]
  <2> HIDE DEF G, steps
  <2> QED  BY <1>1, <1>2, <1>3, ThroughInvariant
<1> QED  BY <1>4

LEMMA UpKeepsEntries ==
    ASSUME NEW u, NEW n \in Nat, NEW R, NEW h \in Heaps(n, R), NEW j \in 1..n
    PROVE  Up(u, h, j) \in Heaps(n, R)
<1> DEFINE rise == [m \in Moving |->
                     LET i == m.at \div 2 IN
                     IF m.at = 1 \/ u[m.heap[m.at]] >= u[m.heap[i]]
                       THEN m
                       ELSE [heap |-> Exchange(m.heap, i, m.at), at |-> i]]
           S == MovingIn(n, R)
           s == [heap |-> h, at |-> j]
<1>1. s \in S
  BY DEF MovingIn, Moving, Heaps
<1>2. ASSUME NEW m \in S PROVE rise[m] \in S
  <2>1. m \in Moving /\ m.heap \in Heaps(n, R) /\ m.at \in 1..n
    BY DEF MovingIn
  <2> DEFINE i == m.at \div 2
             moved == [heap |-> Exchange(m.heap, i, m.at), at |-> i]
  <2>2. CASE m.at = 1
    BY <2>1, <2>2
  <2>3. CASE m.at # 1
    <3>1. i \in 1..n
      BY <2>1, <2>3
    <3>2. Exchange(m.heap, i, m.at) \in Heaps(n, R)
      <4> HIDE DEF i
      <4> QED  BY <2>1, <3>1, ExchangeKeepsEntries
    <3>3. moved \in S
      <4> HIDE DEF i
      <4> QED  BY <3>1, <3>2 DEF MovingIn, Moving, Heaps
    <3>4. rise[m] = m \/ rise[m] = moved
      BY <2>1
    <3> QED  BY <3>3, <3>4
  <2> QED  BY <2>2, <2>3
<1>3. Through(Repeat(rise, n), s) \in S
  <2> HIDE DEF rise, s, S
  <2> QED  BY <1>1, <1>2, RepeatKeeps
<1>4. Up(u, h, j) = Through(Repeat(rise, n), s).heap
  BY DEF Up, Heaps
<1> QED  BY <1>3, <1>4 DEF MovingIn

\* down moves entries among the first k only.
LEMMA DownKeepsEntries ==
    ASSUME NEW u, NEW n \in Nat, NEW R, NEW h \in Heaps(n, R), NEW j \in 1..n,
           NEW k \in 0..n
    PROVE  /\ Down(u, h, j, k) \in Heaps(n, R)
           /\ \A x \in (k + 1)..n : Down(u, h, j, k)[x] = h[x]
<1> DEFINE child(m) ==
             LET left == 2 * m.at
             IN  IF left < k /\ u[m.heap[left + 1]] < u[m.heap[left]]
                   THEN left + 1 ELSE left
           sink == [m \in Moving |->
                    LET left    == 2 * m.at
                        smaller == IF left < k /\ u[m.heap[left + 1]] < u[m.heap[left]]
                                     THEN left + 1 ELSE left
                    IN IF left > k \/ u[m.heap[smaller]] >= u[m.heap[m.at]]
                         THEN m
                         ELSE [heap |-> Exchange(m.heap, m.at, smaller), at |-> smaller]]
           S == {m \in MovingIn(n, R) : \A x \in (k + 1)..n : m.heap[x] = h[x]}
           s == [heap |-> h, at |-> j]
<1>1. s \in S
  BY DEF MovingIn, Moving, Heaps
<1>2. ASSUME NEW m \in S PROVE sink[m] \in S
  <2>1. /\ m \in Moving /\ m.heap \in Heaps(n, R) /\ m.at \in 1..n
        /\ \A x \in (k + 1)..n : m.heap[x] = h[x]
    BY DEF MovingIn
  <2> DEFINE i == child(m)
             moved == [heap |-> Exchange(m.heap, m.at, i), at |-> i]
  <2>2. CASE 2 * m.at > k
    BY <2>1, <2>2
  <2>3. CASE ~(2 * m.at > k)
    <3>1. i \in 1..n /\ i <= k /\ m.at <= k
      BY <2>1, <2>3
    <3>2. Exchange(m.heap, m.at, i) \in Heaps(n, R)
      <4> HIDE DEF i
      <4> QED  BY <2>1, <3>1, ExchangeKeepsEntries
    <3>3. moved \in S
      <4> HIDE DEF i
      <4>1. \A x \in (k + 1)..n : Exchange(m.heap, m.at, i)[x] = m.heap[x]
        BY <2>1, <3>1 DEF Exchange, Heaps
      <4> QED  BY <2>1, <3>1, <3>2, <4>1 DEF MovingIn, Moving, Heaps
    <3>4. sink[m] = m \/ sink[m] = moved
      BY <2>1
    <3> QED  BY <3>3, <3>4
  <2> QED  BY <2>2, <2>3
<1>3. Through(Repeat(sink, k), s) \in S
  <2> HIDE DEF sink, s, S
  <2> QED  BY <1>1, <1>2, RepeatKeeps
<1>4. Down(u, h, j, k) = Through(Repeat(sink, k), s).heap
  BY DEF Down
<1> QED  BY <1>3, <1>4 DEF MovingIn

LEMMA PushAddsEntry ==
    ASSUME NEW u, NEW n \in Nat, NEW R, NEW h \in Heaps(n, R), NEW b \in Ids
    PROVE  Push(u, h, b) \in Heaps(n + 1, R \cup {b})
<1> DEFINE a == Append(h, b)
<1>1. h \in Seq(Ids) /\ Len(h) = n /\ DOMAIN h = 1..n /\ R = Range(h)
  BY DEF Heaps
<1>2. /\ a \in Seq(Ids) /\ Len(a) = n + 1 /\ DOMAIN a = 1..(n + 1)
      /\ a[n + 1] = b /\ \A i \in 1..n : a[i] = h[i]
  BY <1>1
<1>3. Range(a) = Range(h) \cup {b}
  <2> HIDE DEF a
  <2>1. \A i \in 1..(n + 1) : i = n + 1 \/ i \in 1..n
    OBVIOUS
  <2> QED  BY <1>1, <1>2, <2>1 DEF Range
<1>4. a \in Heaps(n + 1, R \cup {b})
  BY <1>1, <1>2, <1>3 DEF Heaps
<1>5. Up(u, a, n + 1) \in Heaps(n + 1, R \cup {b})
  <2> HIDE DEF a
  <2> QED  BY <1>4, UpKeepsEntries
<1> QED  BY <1>1, <1>5 DEF Push

\* Pop removes one entry of the block in front, which may have others.
LEMMA PopDropsFront ==
    ASSUME NEW u, NEW n \in Nat, NEW h \in Seq(Ids), Len(h) = n + 1
    PROVE  /\ Pop(u, h) \in Seq(Ids)
           /\ Len(Pop(u, h)) = n
           /\ Range(Pop(u, h)) \subseteq Range(h)
           /\ Range(h) \ {h[1]} \subseteq Range(Pop(u, h))
<1> DEFINE e == Exchange(h, 1, n + 1)
           d == Down(u, e, 1, n)
<1>1. h \in Heaps(n + 1, Range(h)) /\ 1 \in 1..(n + 1) /\ n + 1 \in 1..(n + 1)
  BY DEF Heaps
<1>2. e \in Heaps(n + 1, Range(h)) /\ e[n + 1] = h[1]
  <2>1. e \in Heaps(n + 1, Range(h))
    BY <1>1, ExchangeKeepsEntries
  <2>2. DOMAIN h = 1..(n + 1)
    OBVIOUS
  <2> QED  BY <1>1, <2>1, <2>2 DEF Exchange
<1>3. d \in Heaps(n + 1, Range(h)) /\ d[n + 1] = h[1]
  <2> HIDE DEF e
  <2>1. n + 1 \in Nat /\ n \in 0..(n + 1) /\ n + 1 \in (n + 1)..(n + 1)
    OBVIOUS
  <2>2. ASSUME NEW m \in Nat, NEW R, NEW g \in Heaps(m, R), 1 \in 1..m, n \in 0..m
        PROVE  /\ Down(u, g, 1, n) \in Heaps(m, R)
               /\ \A x \in (n + 1)..m : Down(u, g, 1, n)[x] = g[x]
    BY ONLY <2>2, DownKeepsEntries
  <2> QED  BY <1>1, <1>2, <2>1, <2>2
<1> DEFINE p == SubSeq(d, 1, n)
<1>4. Pop(u, h) = p
  BY DEF Pop
<1> HIDE DEF d
<1>5. d \in Seq(Ids) /\ Len(d) = n + 1 /\ Range(d) = Range(h) /\ DOMAIN d = 1..(n + 1)
  BY <1>3 DEF Heaps
<1>6. p \in Seq(Ids) /\ Len(p) = n /\ DOMAIN p = 1..n /\ \A i \in 1..n : p[i] = d[i]
  BY <1>5
<1>7. Range(p) \subseteq Range(d) /\ Range(d) \ {d[n + 1]} \subseteq Range(p)
  <2> HIDE DEF p
  <2>1. \A i \in 1..(n + 1) : i = n + 1 \/ i \in 1..n
    OBVIOUS
  <2> QED  BY <1>5, <1>6, <2>1 DEF Range
<1> QED  BY <1>3, <1>4, <1>5, <1>6, <1>7

LEMMA FixFrontKeepsEntries ==
    ASSUME NEW u, NEW n \in Nat, n > 0, NEW R, NEW h \in Heaps(n, R)
    PROVE  FixFront(u, h) \in Heaps(n, R)
<1>1. Len(h) = n /\ 1 \in 1..n /\ n \in 0..n
  BY DEF Heaps
<1> QED  BY <1>1, DownKeepsEntries DEF FixFront

\* What Alloc's loop leaves: a heap with a block with room in front, or none.
\* What it drops has no room.
LEMMA RoomyDropsFull ==
    ASSUME NEW h \in Seq(Ids), NEW n
    PROVE  LET r == Roomy(h, n)
           IN  /\ r \in Seq(Ids) /\ Len(r) <= Len(h)
               /\ Range(r) \subseteq Range(h)
               /\ \A c \in Range(h) \ Range(r) : ~Fits(c, n)
               /\ r # <<>> => Fits(r[1], n)
<1> DEFINE Done(g) == g = <<>> \/ Fits(g[1], n)
           drop == [g \in Seq(Ids) |->
                     IF g = <<>> \/ Fits(g[1], n) THEN g ELSE Pop(used, g)]
           Left(i) == {g \in Seq(Ids) :
                        /\ Len(g) <= Len(h) /\ Range(g) \subseteq Range(h)
                        /\ \A c \in Range(h) \ Range(g) : ~Fits(c, n)
                        /\ Done(g) \/ Len(g) = Len(h) - i}
           G == [i \in 0..Len(h) |-> Left(i)]
           steps == Repeat(drop, Len(h))
<1>1. Len(steps) = Len(h) /\ \A i \in 1..Len(h) : steps[i] = drop
  BY DEF Repeat
<1>2. h \in G[0]
  OBVIOUS
<1>3. ASSUME NEW i \in 1..Len(h), NEW g \in Left(i - 1) PROVE drop[g] \in Left(i)
  <2>1. CASE Done(g)
    BY <2>1
  <2>2. CASE ~Done(g)
    <3>1. drop[g] = Pop(used, g)
      BY <2>2
    <3>2. Len(g) = Len(h) - (i - 1) /\ Len(g) - 1 \in Nat /\ Len(g) = (Len(g) - 1) + 1
      BY <2>2
    <3> DEFINE p == Pop(used, g)
    <3>3. /\ p \in Seq(Ids) /\ Len(p) = Len(g) - 1
          /\ Range(p) \subseteq Range(g) /\ Range(g) \ {g[1]} \subseteq Range(p)
      BY <3>2, PopDropsFront
    <3>4. ~Fits(g[1], n)
      BY <2>2
    <3>5. p \in Left(i)
      <4> HIDE DEF p
      <4>1. \A c \in Range(h) \ Range(p) : ~Fits(c, n)
        BY <3>3, <3>4
      <4> QED  BY <3>2, <3>3, <4>1
    <3> QED  BY <3>1, <3>5
  <2> QED  BY <2>1, <2>2
<1>4. \A i \in 1..Len(h) : \A g \in G[i - 1] : steps[i][g] \in G[i]
  <2> HIDE DEF drop, Left, steps
  <2> QED  BY <1>1, <1>3
<1>5. Through(steps, h) \in G[Len(h)]
  <2> HIDE DEF G, steps
  <2> QED  BY <1>1, <1>2, <1>4, ThroughInvariant
<1>6. Roomy(h, n) = Through(steps, h)
  BY DEF Roomy
<1>7. Roomy(h, n) \in Left(Len(h))
  <2>1. Len(h) \in 0..Len(h)
    OBVIOUS
  <2> HIDE DEF Left, steps
  <2> QED  BY <1>5, <1>6, <2>1
<1> QED  BY <1>7

\* Emptying the blocks of seq sets their keys and pushes each once.
LEMMA PushEmptiedAddsAll ==
    ASSUME NEW u \in [Ids -> Nat], NEW h \in Seq(Ids), NEW seq \in Seq(Ids)
    PROVE  LET done == PushEmptied(u, h, seq)
           IN  /\ done.u = [b \in Ids |-> IF b \in Range(seq) THEN 0 ELSE u[b]]
               /\ done.h \in Heaps(Len(h) + Len(seq), Range(h) \cup Range(seq))
<1> DEFINE emptied(b) == [k \in Keyed |->
                           LET v == [k.u EXCEPT ![b] = 0]
                           IN  [u |-> v, h |-> Push(v, k.h, b)]]
           First(i) == {seq[x] : x \in 1..i}
           Done(i) == {k \in Keyed :
                        /\ k.u = [b \in Ids |-> IF b \in First(i) THEN 0 ELSE u[b]]
                        /\ k.h \in Heaps(Len(h) + i, Range(h) \cup First(i))}
           G == [i \in 0..Len(seq) |-> Done(i)]
           steps == [i \in 1..Len(seq) |-> emptied(seq[i])]
           s == [u |-> u, h |-> h]
<1>1. Len(steps) = Len(seq)
  OBVIOUS
<1>2. s \in G[0]
  <2>1. First(0) = {}
    OBVIOUS
  <2>2. u = [b \in Ids |-> IF b \in First(0) THEN 0 ELSE u[b]]
    BY <2>1
  <2>3. h \in Heaps(Len(h) + 0, Range(h) \cup First(0))
    BY <2>1 DEF Heaps
  <2> HIDE DEF First
  <2> QED  BY <2>2, <2>3 DEF Keyed
<1>3. ASSUME NEW i \in 1..Len(seq), NEW k \in Done(i - 1)
      PROVE  emptied(seq[i])[k] \in Done(i)
  <2> DEFINE b == seq[i]
             v == [k.u EXCEPT ![b] = 0]
             m == Len(h) + (i - 1)
             R == Range(h) \cup First(i - 1)
  <2>1. b \in Ids /\ m \in Nat /\ m + 1 = Len(h) + i
    OBVIOUS
  <2>2. k \in Keyed /\ k.u \in [Ids -> Nat] /\ k.h \in Heaps(m, R)
    BY DEF Keyed
  <2>3. First(i) = First(i - 1) \cup {b}
    <3>1. \A x \in Int : x \in 1..i <=> x = i \/ x \in 1..(i - 1)
      OBVIOUS
    <3> QED  BY <3>1
  <2>4. v = [c \in Ids |-> IF c \in First(i) THEN 0 ELSE u[c]]
    <3> HIDE DEF First
    <3> QED  BY <2>1, <2>2, <2>3
  <2>5. Push(v, k.h, b) \in Heaps(m + 1, R \cup {b})
    <3> HIDE DEF v, b, m, R
    <3> QED  BY <2>1, <2>2, PushAddsEntry
  <2>6. R \cup {b} = Range(h) \cup First(i)
    <3> HIDE DEF First
    <3> QED  BY <2>3
  <2>7. v \in [Ids -> Nat]
    BY <2>1, <2>2
  <2>8. emptied(b)[k] = [u |-> v, h |-> Push(v, k.h, b)]
    BY <2>2
  <2>9. [u |-> v, h |-> Push(v, k.h, b)] \in Done(i)
    <3> HIDE DEF v, b, First
    <3> QED  BY <2>1, <2>4, <2>5, <2>6, <2>7 DEF Keyed, Heaps
  <2> QED  BY <2>8, <2>9
<1>4. \A i \in 1..Len(seq) : \A k \in G[i - 1] : steps[i][k] \in G[i]
  <2> HIDE DEF emptied, Done
  <2> QED  BY <1>3
<1>5. Through(steps, s) \in G[Len(seq)]
  <2> HIDE DEF G, steps, s
  <2> QED  BY <1>1, <1>2, <1>4, ThroughInvariant
<1>6. PushEmptied(u, h, seq) = Through(steps, s)
  BY DEF PushEmptied
<1>7. PushEmptied(u, h, seq) \in Done(Len(seq))
  <2>1. Len(seq) \in 0..Len(seq)
    OBVIOUS
  <2> HIDE DEF Done, steps, s
  <2> QED  BY <1>5, <1>6, <2>1
<1>8. First(Len(seq)) = Range(seq)
  BY DEF Range
<1> QED  BY <1>7, <1>8

LEMMA RebuiltHoldsAll ==
    ASSUME NEW u, NEW seq \in Seq(Ids)
    PROVE  Rebuilt(u, seq) \in Heaps(Len(seq), Range(seq))
<1> DEFINE pushed(b) == [h \in Seq(Ids) |-> Push(u, h, b)]
           First(i) == {seq[x] : x \in 1..i}
           G == [i \in 0..Len(seq) |-> Heaps(i, First(i))]
           steps == [i \in 1..Len(seq) |-> pushed(seq[i])]
<1>1. Len(steps) = Len(seq)
  OBVIOUS
<1>2. <<>> \in G[0]
  BY DEF Heaps, Range
<1>3. ASSUME NEW i \in 1..Len(seq), NEW h \in Heaps(i - 1, First(i - 1))
      PROVE  pushed(seq[i])[h] \in Heaps(i, First(i))
  <2>1. First(i) = First(i - 1) \cup {seq[i]}
    <3>1. \A x \in Int : x \in 1..i <=> x = i \/ x \in 1..(i - 1)
      OBVIOUS
    <3> QED  BY <3>1
  <2>2. i - 1 \in Nat /\ (i - 1) + 1 = i /\ seq[i] \in Ids /\ h \in Seq(Ids)
    BY DEF Heaps
  <2> HIDE DEF First
  <2>3. Push(u, h, seq[i]) \in Heaps(i, First(i - 1) \cup {seq[i]})
    BY <2>2, PushAddsEntry
  <2> QED  BY <2>1, <2>2, <2>3
<1>4. \A i \in 1..Len(seq) : \A h \in G[i - 1] : steps[i][h] \in G[i]
  <2> HIDE DEF pushed, First
  <2> QED  BY <1>3
<1>5. Through(steps, <<>>) \in G[Len(seq)]
  <2> HIDE DEF G, steps
  <2> QED  BY <1>1, <1>2, <1>4, ThroughInvariant
<1>6. Rebuilt(u, seq) = Through(steps, <<>>)
  BY DEF Rebuilt
<1>7. First(Len(seq)) = Range(seq)
  BY DEF Range
<1> QED  BY <1>5, <1>6, <1>7

\* The orders in which Go may range over the blocks of S.
LEMMA OrdersHoldAll ==
    ASSUME NEW S \in SUBSET Ids, NEW seq \in SetToSeqs(S)
    PROVE  /\ seq \in Seq(Ids) /\ Range(seq) = S
           /\ Len(seq) <= MaxBlocks
<1>1. /\ IsFiniteSet(S) /\ Cardinality(S) \in Nat /\ Cardinality(S) <= MaxBlocks
  <2>1. IsFiniteSet(Ids) /\ Cardinality(Ids) = MaxBlocks
    BY MaxBlocksAssumption, FS_Interval DEF Ids
  <2> QED  BY <2>1, FS_Subset, FS_CardinalityType
<1> DEFINE D == 1..Cardinality(S)
<1>2. seq \in [D -> S] /\ \A i, j \in D : i # j => seq[i] # seq[j]
  BY DEF SetToSeqs
<1>3. IsFiniteSet(D) /\ Cardinality(D) = Cardinality(S)
  BY <1>1, FS_Interval
<1>4. seq \in Injection(D, S)
  BY <1>2 DEF Injection, IsInjective
<1>5. seq \in Surjection(D, S)
  <2> HIDE DEF D
  <2> QED  BY <1>1, <1>3, <1>4, FS_Injection
<1>6. seq \in Seq(Ids) /\ Len(seq) = Cardinality(S)
  BY <1>1, <1>2
<1>7. Range(seq) = S
  BY <1>2, <1>5 DEF Surjection, Range
<1> QED  BY <1>1, <1>6, <1>7

----------------------------------------------------------------------------
(* Types.                                                                  *)

USE RequestsAssumption, PidsAssumption, BlockSizesAssumption, MaxBlocksAssumption,
    MaxHeapAssumption
    DEF Owners, Global

LEMMA InitTyped == Init => TypeOK
<1> SUFFICES ASSUME Init PROVE TypeOK
  OBVIOUS
<1>1. minHeap \in Seq(Ids) /\ Len(minHeap) = 0
  BY DEF Init
<1> QED  BY <1>1 DEF Init, TypeOK

\* The two ways in which Alloc goes.
LEMMA AllocTyped ==
    ASSUME TypeOK, NEW n \in Nat, NEW pid \in Owners, Alloc(n, pid)
    PROVE  TypeOK'
<1> DEFINE h == Roomy(minHeap, n)
<1>1. h \in Seq(Ids) /\ Len(h) <= MaxHeap
  BY RoomyDropsFull DEF TypeOK
<1> HIDE DEF h
<1>2. CASE /\ h # <<>>
           /\ used'    = [used EXCEPT ![h[1]] = @ + n]
           /\ owner'   = [owner EXCEPT ![h[1]] = pid]
           /\ minHeap' = FixFront(used', h)
           /\ UNCHANGED <<blockSize, nextID, live, size>>
  <2>1. Len(h) > 0 /\ Len(h) \in Nat /\ h[1] \in Ids /\ h \in Heaps(Len(h), Range(h))
    BY <1>1, <1>2 DEF Heaps
  <2>2. minHeap' \in Heaps(Len(h), Range(h))
    BY <1>2, <2>1, FixFrontKeepsEntries
  <2>3. minHeap' \in Seq(Ids) /\ Len(minHeap') <= MaxHeap
    BY <1>1, <2>2 DEF Heaps
  <2>4. used' \in [Ids -> Nat] /\ owner' \in [Ids -> Owners]
    BY <1>2, <2>1 DEF TypeOK
  <2> QED  BY <1>2, <2>3, <2>4 DEF TypeOK
<1>3. CASE /\ nextID < MaxBlocks
           /\ nextID'  = nextID + 1
           /\ live'    = live \cup {nextID'}
           /\ size'    = [size EXCEPT ![nextID'] = blockSize]
           /\ used'    = [used EXCEPT ![nextID'] = n]
           /\ owner'   = [owner EXCEPT ![nextID'] = pid]
           /\ minHeap' = <<nextID'>>
           /\ UNCHANGED blockSize
  <2>1. nextID' \in Ids /\ nextID' \in 0..MaxBlocks /\ 1 <= MaxHeap
    BY <1>3 DEF TypeOK, Ids
  <2>2. live' \subseteq 1..nextID'
    BY <1>3, <2>1 DEF TypeOK
  <2>3. size' \in [Ids -> Nat] /\ used' \in [Ids -> Nat] /\ owner' \in [Ids -> Owners]
    BY <1>3, <2>1 DEF TypeOK
  <2>4. minHeap' \in Seq(Ids) /\ Len(minHeap') <= MaxHeap
    BY <1>3, <2>1
  <2> QED  BY <1>3, <2>1, <2>2, <2>3, <2>4 DEF TypeOK
<1> QED  BY <1>2, <1>3 DEF Alloc, h

\* The heap after Empty, and the keys.
LEMMA EmptyPushesAll ==
    ASSUME TypeOK, NEW S \in SUBSET live, Empty(S)
    PROVE  /\ used' = [b \in Ids |-> IF b \in S THEN 0 ELSE used[b]]
           /\ minHeap' \in Seq(Ids) /\ Len(minHeap') <= MaxHeap
           /\ Range(minHeap') = Range(minHeap) \cup S
<1>1. S \in SUBSET Ids
  BY DEF TypeOK, Ids
<1>2. PICK seq \in SetToSeqs(S) :
        LET done == PushEmptied(used, minHeap, seq)
        IN  Len(done.h) <= MaxHeap /\ used' = done.u /\ minHeap' = done.h
  BY DEF Empty
<1>3. seq \in Seq(Ids) /\ Range(seq) = S
  BY <1>1, OrdersHoldAll
<1>4. /\ used' = [b \in Ids |-> IF b \in Range(seq) THEN 0 ELSE used[b]]
      /\ minHeap' \in Heaps(Len(minHeap) + Len(seq), Range(minHeap) \cup Range(seq))
  <2>1. used \in [Ids -> Nat] /\ minHeap \in Seq(Ids)
    BY DEF TypeOK
  <2> QED  BY <1>2, <1>3, <2>1, PushEmptiedAddsAll
<1>5. minHeap' \in Seq(Ids) /\ Range(minHeap') = Range(minHeap) \cup S
  BY <1>3, <1>4 DEF Heaps
<1>6. Len(minHeap') <= MaxHeap
  BY <1>2
<1> QED  BY <1>3, <1>4, <1>5, <1>6

LEMMA ClearRebuilds ==
    ASSUME TypeOK, Clear
    PROVE  /\ live' \subseteq live
           /\ minHeap' \in Seq(Ids) /\ Len(minHeap') <= MaxHeap
           /\ Range(minHeap') = live'
<1>1. live' \in SUBSET Ids /\ live' \subseteq live
  <2>1. live' \subseteq live
    BY DEF Clear
  <2> QED  BY <2>1 DEF TypeOK, Ids
<1>2. PICK seq \in SetToSeqs(live') : minHeap' = Rebuilt(used, seq)
  BY DEF Clear
<1>3. seq \in Seq(Ids) /\ Range(seq) = live' /\ Len(seq) <= MaxBlocks
  BY <1>1, OrdersHoldAll
<1>4. minHeap' \in Heaps(Len(seq), live')
  BY <1>2, <1>3, RebuiltHoldsAll
<1> QED  BY <1>1, <1>3, <1>4 DEF Heaps

LEMMA StepTyped == TypeOK /\ [Next]_vars => TypeOK'
<1> SUFFICES ASSUME TypeOK, [Next]_vars PROVE TypeOK'
  OBVIOUS
<1>1. ASSUME NEW n \in Requests, NEW pid \in Owners, Alloc(n, pid) PROVE TypeOK'
  BY <1>1, AllocTyped
<1>2. ASSUME NEW S \in SUBSET live, Empty(S) PROVE TypeOK'
  <2>1. /\ used' = [b \in Ids |-> IF b \in S THEN 0 ELSE used[b]]
        /\ minHeap' \in Seq(Ids) /\ Len(minHeap') <= MaxHeap
    BY <1>2, EmptyPushesAll
  <2>2. used' \in [Ids -> Nat] /\ owner' \in [Ids -> Owners]
    BY <1>2, <2>1 DEF Empty, TypeOK
  <2> QED  BY <1>2, <2>1, <2>2 DEF Empty, TypeOK
<1>3. CASE \/ \E pid \in Owners : ReclaimTask(pid)
           \/ \E b \in Ids : Delete(b)
  BY <1>2, <1>3 DEF ReclaimTask, Delete
<1>4. CASE Compact
  <2>1. minHeap' \in Seq(Ids) /\ Len(minHeap') <= MaxHeap
    BY <1>4 DEF Compact
  <2>2. live' \subseteq live /\ UNCHANGED <<blockSize, nextID, size, used, owner>>
    BY <1>4 DEF Compact
  <2> QED  BY <2>1, <2>2 DEF TypeOK
<1>5. CASE Clear
  BY <1>5, ClearRebuilds DEF Clear, TypeOK
<1>6. CASE \E n \in BlockSizes : SetBlock(n)
  BY <1>6 DEF SetBlock, TypeOK
<1>7. CASE UNCHANGED vars
  BY <1>7 DEF vars, TypeOK
<1> QED  BY <1>1, <1>3, <1>4, <1>5, <1>6, <1>7 DEF Next

\* The variables keep their types: in particular the heap holds ids of blocks,
\* whatever moves and pops its loops make.
THEOREM TypeCorrect == Spec => []TypeOK
BY InitTyped, StepTyped, PTL DEF Spec

----------------------------------------------------------------------------
(* MemoryManager implements BlockPool.                                     *)

LEMMA InitImplements == Init => Pool!Init
<1>1. Range(<<>>) = {}
  BY DEF Range
<1> QED  BY <1>1 DEF Init, Pool!Init, Pool!Ids, Ids, Pool!Global

LEMMA AllocImplements ==
    ASSUME TypeOK, NEW n \in Requests, NEW pid \in Owners, Alloc(n, pid)
    PROVE  \E b \in Ids : Pool!Alloc(n, pid, b)
<1> DEFINE h == Roomy(minHeap, n)
<1>1. /\ h \in Seq(Ids) /\ Range(h) \subseteq Range(minHeap)
      /\ \A c \in Range(minHeap) \ Range(h) : ~Fits(c, n)
      /\ h # <<>> => Fits(h[1], n)
  BY RoomyDropsFull DEF TypeOK
<1>2. \A c : Fits(c, n) <=> Pool!Fits(c, n)
  BY DEF Fits, Pool!Fits
<1> HIDE DEF h
<1>3. CASE /\ h # <<>>
           /\ used'    = [used EXCEPT ![h[1]] = @ + n]
           /\ owner'   = [owner EXCEPT ![h[1]] = pid]
           /\ minHeap' = FixFront(used', h)
           /\ UNCHANGED <<blockSize, nextID, live, size>>
  <2>1. Len(h) > 0 /\ Len(h) \in Nat /\ h[1] \in Ids /\ h \in Heaps(Len(h), Range(h))
    BY <1>1, <1>3 DEF Heaps
  <2>2. Range(minHeap') = Range(h)
    BY <1>3, <2>1, FixFrontKeepsEntries DEF Heaps
  <2>3. h[1] \in Range(minHeap)
    BY <1>1, <2>1 DEF Range
  <2> DEFINE popped == Range(minHeap) \ Range(h)
  <2>4. /\ popped \in SUBSET {c \in Range(minHeap) : ~Pool!Fits(c, n)}
        /\ Range(minHeap') = Range(minHeap) \ popped
    BY <1>1, <1>2, <2>2
  <2>5. Pool!Reuse(n, pid, h[1])
    BY <1>1, <1>2, <1>3, <2>3, <2>4 DEF Pool!Reuse
  <2> QED  BY <2>1, <2>5 DEF Pool!Alloc
<1>4. CASE /\ h = <<>>
           /\ nextID < MaxBlocks
           /\ nextID'  = nextID + 1
           /\ live'    = live \cup {nextID'}
           /\ size'    = [size EXCEPT ![nextID'] = blockSize]
           /\ used'    = [used EXCEPT ![nextID'] = n]
           /\ owner'   = [owner EXCEPT ![nextID'] = pid]
           /\ minHeap' = <<nextID'>>
           /\ UNCHANGED blockSize
  <2>1. Range(h) = {} /\ Range(minHeap') = {nextID'}
    BY <1>4 DEF Range
  <2>2. \A c \in Range(minHeap) : ~Pool!Fits(c, n)
    BY <1>1, <1>2, <2>1
  <2>3. Pool!Fresh(n, pid, nextID')
    BY <1>4, <2>1, <2>2 DEF Pool!Fresh
  <2>4. nextID' \in Ids
    BY <1>4 DEF TypeOK, Ids
  <2> QED  BY <2>3, <2>4 DEF Pool!Alloc
<1> QED  BY <1>3, <1>4 DEF Alloc, h

LEMMA EmptyImplements ==
    ASSUME TypeOK, NEW S \in SUBSET live, Empty(S)
    PROVE  Pool!Empty(S)
<1>1. /\ used' = [b \in Ids |-> IF b \in S THEN 0 ELSE used[b]]
      /\ Range(minHeap') = Range(minHeap) \cup S
  BY EmptyPushesAll
<1> QED  BY <1>1 DEF Empty, Pool!Empty, Pool!Ids, Ids, Pool!Global

LEMMA StepImplements == TypeOK /\ [Next]_vars => [Pool!Next]_(Pool!vars)
<1> SUFFICES ASSUME TypeOK, [Next]_vars PROVE [Pool!Next]_(Pool!vars)
  OBVIOUS
<1>0. Pool!Ids = Ids /\ Pool!Owners = Owners
  BY DEF Pool!Ids, Ids, Pool!Owners, Pool!Global
<1>1. ASSUME NEW n \in Requests, NEW pid \in Owners, Alloc(n, pid) PROVE Pool!Next
  BY <1>0, <1>1, AllocImplements DEF Pool!Next
<1>2. ASSUME NEW pid \in Owners, ReclaimTask(pid) PROVE Pool!Next
  <2>1. Pool!ReclaimTask(pid)
    BY <1>2, EmptyImplements DEF ReclaimTask, Pool!ReclaimTask, Pool!OwnedBy
  <2> QED  BY <1>0, <2>1 DEF Pool!Next
<1>3. ASSUME NEW b \in Ids, Delete(b) PROVE Pool!Next
  <2>1. Pool!Delete(b)
    BY <1>3, EmptyImplements DEF Delete, Pool!Delete
  <2> QED  BY <1>0, <2>1 DEF Pool!Next
<1>4. CASE Compact
  <2>1. Range(minHeap') = {}
    BY <1>4 DEF Compact, Range
  <2>2. Pool!Compact
    BY <1>4, <2>1 DEF Compact, Idle, Pool!Compact, Pool!Idle
  <2> QED  BY <2>2 DEF Pool!Next
<1>5. CASE Clear
  <2>1. Pool!Clear
    BY <1>5, ClearRebuilds DEF Clear, Idle, Pool!Clear, Pool!Idle
  <2> QED  BY <2>1 DEF Pool!Next
<1>6. ASSUME NEW n \in BlockSizes, SetBlock(n) PROVE Pool!Next
  BY <1>6 DEF SetBlock, Pool!Next, Pool!SetBlock
<1>7. CASE UNCHANGED vars
  BY <1>7 DEF vars, Pool!vars
<1> QED  BY <1>1, <1>2, <1>3, <1>4, <1>5, <1>6, <1>7 DEF Next

\* Every run of the manager is a run of the pool: the order of the heap decides
\* only which block with room Alloc takes and which full entries it drops.
THEOREM HeapImplementsPool == Spec => ImplementsPool
BY InitImplements, StepImplements, TypeCorrect, PTL
   DEF Spec, ImplementsPool, Pool!Spec

----------------------------------------------------------------------------
(* What is proved of the pool holds for the manager.                       *)

PoolProofs == INSTANCE BlockPoolProofs WITH queued <- Range(minHeap)

LEMMA PoolIsPool == ImplementsPool => PoolProofs!Spec
<1> USE DEF Pool!Ids, PoolProofs!Ids, Pool!Global, PoolProofs!Global, Pool!Owners,
            PoolProofs!Owners, Pool!Idle, PoolProofs!Idle, Pool!Fits, PoolProofs!Fits
<1>1. Pool!Init => PoolProofs!Init
  BY DEF Pool!Init, PoolProofs!Init
<1>2. [Pool!Next]_(Pool!vars) => [PoolProofs!Next]_(PoolProofs!vars)
  <2>1. \A n, pid, b : Pool!Alloc(n, pid, b) => PoolProofs!Alloc(n, pid, b)
    BY DEF Pool!Alloc, PoolProofs!Alloc, Pool!Reuse, PoolProofs!Reuse,
           Pool!Fresh, PoolProofs!Fresh
  <2>2. \A S : Pool!Empty(S) => PoolProofs!Empty(S)
    BY DEF Pool!Empty, PoolProofs!Empty
  <2>3. \A pid : Pool!ReclaimTask(pid) => PoolProofs!ReclaimTask(pid)
    BY <2>2 DEF Pool!ReclaimTask, PoolProofs!ReclaimTask, Pool!OwnedBy, PoolProofs!OwnedBy
  <2>4. \A b : Pool!Delete(b) => PoolProofs!Delete(b)
    BY <2>2 DEF Pool!Delete, PoolProofs!Delete
  <2>5. /\ Pool!Compact => PoolProofs!Compact
        /\ Pool!Clear => PoolProofs!Clear
        /\ \A n : Pool!SetBlock(n) => PoolProofs!SetBlock(n)
    BY DEF Pool!Compact, PoolProofs!Compact, Pool!Clear, PoolProofs!Clear,
           Pool!SetBlock, PoolProofs!SetBlock
  <2>6. Pool!Next => PoolProofs!Next
    BY <2>1, <2>3, <2>4, <2>5 DEF Pool!Next, PoolProofs!Next
  <2>7. UNCHANGED Pool!vars => UNCHANGED PoolProofs!vars
    BY DEF Pool!vars, PoolProofs!vars
  <2> QED  BY <2>6, <2>7
<1> QED  BY <1>1, <1>2, PTL DEF ImplementsPool, Pool!Spec, PoolProofs!Spec

\* No entry of the heap refers to a block that Compact or Clear has dropped.
THEOREM HeapHoldsLiveBlocks == Spec => []Pool!NoDangling
<1>1. PoolProofs!Spec => []PoolProofs!NoDangling
  BY PoolProofs!HeapRefersToLiveBlocks
<1>2. PoolProofs!NoDangling => Pool!NoDangling
  BY DEF PoolProofs!NoDangling, Pool!NoDangling
<1> QED  BY <1>1, <1>2, HeapImplementsPool, PoolIsPool, PTL

\* As long as no request is larger than a block, a deleted or reclaimed block
\* has an entry in the heap until it is dropped, so Alloc can find it.
THEOREM DeletedBlocksAreFound ==
    ASSUME \A n \in Requests, s \in BlockSizes : n <= s
    PROVE  Spec => []Pool!IdleQueued
<1>1. PoolProofs!Spec => []PoolProofs!IdleQueued
  BY PoolProofs!DeletedBlocksReusable DEF PoolProofs!SmallRequests
<1>2. PoolProofs!IdleQueued => Pool!IdleQueued
  BY DEF PoolProofs!IdleQueued, Pool!IdleQueued, PoolProofs!Idle, Pool!Idle
<1> QED  BY <1>1, <1>2, HeapImplementsPool, PoolIsPool, PTL
=============================================================================
