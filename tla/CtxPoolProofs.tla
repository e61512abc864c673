---------------------------- MODULE CtxPoolProofs ----------------------------
(***************************************************************************)
(* CtxPool: the free list, the calls and the goroutines refer to contexts  *)
(* that have been allocated, for any number of goroutines and contexts;    *)
(* and, as long as one function at most is merged, no two calls share a    *)
(* context, free contexts are idle, and depth counts the calls.  With two  *)
(* merged functions the compare-and-swap of ctxHead can succeed although   *)
(* the link it installs is out of date.                                    *)
(***************************************************************************)
EXTENDS CtxPool, FiniteSetTheorems, SequenceTheorems, TLAPS

\* Only contexts that exist are linked.
Linked == ctxHead \in made \cup {nil} /\ link \in [Ctx -> made \cup {nil}]
\* A goroutine about to use h as a context has one.
HasContext == \A g \in Goroutines : pc[g] \in {"peek", "cas", "reset"} => h[g] \in made
\* putCtx belongs to a call inside another one.
PutsCallee == \A g \in Goroutines :
                 pc[g] \in {"putload", "putlink", "putcas"} => Len(frames[g]) > 1
\* A goroutine being merged is born later, by one merge.
Unborn == \A g \in Goroutines : callee[g] # g =>
             /\ pc[g] \in {"load", "peek", "cas", "fresh", "reset"}
             /\ pc[callee[g]] = "unborn"
             /\ \A k \in Goroutines : callee[k] = callee[g] => k = g \/ k = callee[g]

IInv == TypeOK /\ Linked /\ HasContext /\ PutsCallee /\ Unborn

----------------------------------------------------------------------------

\* A sequence over a set is one over a larger set.
LEMMA SeqGrows ==
    ASSUME NEW S, NEW T, S \subseteq T, NEW s \in Seq(S)
    PROVE  s \in Seq(T)
<1>1. Len(s) \in Nat /\ s \in [1..Len(s) -> S]
  BY LenProperties
<1>2. s \in [1..Len(s) -> T]
  BY <1>1
<1> QED BY <1>1, <1>2, SeqDef

\* What is left of a sequence of several elements without the last one.
LEMMA AllButLast ==
    ASSUME NEW S, NEW s \in Seq(S), Len(s) > 1
    PROVE  SubSeq(s, 1, Len(s) - 1) \in Seq(S) /\ SubSeq(s, 1, Len(s) - 1) # <<>>
<1> DEFINE n == Len(s) - 1
           rest == SubSeq(s, 1, n)
<1>1. n \in Int /\ 1 <= n /\ n - 1 + 1 = n
  BY LenProperties
<1>2. \A i \in 1..n : s[i] \in S
  BY <1>1, ElementOfSeq
<1> HIDE DEF n
<1>3. rest \in Seq(S) /\ Len(rest) = IF 1 <= n THEN n - 1 + 1 ELSE 0
  BY <1>1, <1>2, SubSeqProperties
<1> HIDE DEF rest
<1>4. Len(rest) = n
  BY <1>1, <1>3
<1>5. rest # <<>>
  BY <1>1, <1>4
<1> QED BY <1>3, <1>5 DEF rest, n

\* The context of the innermost call.
LEMMA TopIsMade ==
    ASSUME TypeOK, NEW g \in Goroutines, pc[g] \notin {"unborn", "exited"}
    PROVE  Top(g) \in made /\ Len(frames[g]) >= 1
<1>1. frames[g] \in Seq(made) /\ frames[g] # <<>>
  BY DEF TypeOK
<1>2. Len(frames[g]) \in Nat /\ Len(frames[g]) # 0
  BY <1>1, LenProperties, EmptySeq
<1>3. Len(frames[g]) \in 1..Len(frames[g])
  BY <1>2
<1> QED BY <1>1, <1>2, <1>3, ElementOfSeq DEF Top

\* What Init gives.
LEMMA InitIInv == ASSUME Init PROVE IInv
<1> USE BoundsAssumption DEF Init, Main, nil
<1>1. TypeOK
  <2>1. <<1>> \in Seq({1}) /\ <<>> \in Seq({1}) /\ <<1>> # <<>>
    OBVIOUS
  <2>0. made = {1} /\ 1 \in Ctx
    BY DEF Ctx
  <2>2. frames \in [Goroutines -> Seq(made)] /\ made \subseteq Ctx
    BY <2>0, <2>1
  <2>3. \A g \in Goroutines : frames[g] = <<>> <=> pc[g] \in {"unborn", "exited"}
    BY <2>1
  <2> QED BY <2>0, <2>2, <2>3 DEF TypeOK, Labels, Goroutines
<1>2. Linked /\ HasContext /\ PutsCallee /\ Unborn
  BY DEF Linked, HasContext, PutsCallee, Unborn
<1> QED BY <1>1, <1>2 DEF IInv

\* Every step keeps the invariant.
LEMMA StepIInv == ASSUME IInv, [Next]_vars PROVE IInv'
<1> USE DEF Goto, Labels, nil
<1>0. /\ TypeOK /\ Linked /\ HasContext /\ PutsCallee /\ Unborn
      /\ nil \notin Ctx /\ made \subseteq Ctx
  BY DEF IInv, TypeOK, Ctx
<1>1. ASSUME NEW g \in Goroutines, Call(g) PROVE IInv'
  <2>1. TypeOK'
    BY <1>0, <1>1 DEF Call, TypeOK, Linked, Unborn
  <2>2. Linked'
    BY <1>0, <1>1 DEF Call, Linked, TypeOK, HasContext, Unborn
  <2>3. HasContext'
    BY <1>0, <1>1 DEF Call, HasContext, TypeOK, Linked, Unborn
  <2>4. PutsCallee'
    BY <1>0, <1>1 DEF Call, PutsCallee, TypeOK, Unborn
  <2>5. Unborn'
    BY <1>0, <1>1 DEF Call, Unborn, TypeOK, Linked, HasContext
  <2> QED BY <2>1, <2>2, <2>3, <2>4, <2>5 DEF IInv
<1>2. ASSUME NEW g \in Goroutines, NEW m \in Merged, Merge(g, m) PROVE IInv'
  <2>1. m \in Goroutines /\ m # g
    BY <1>2 DEF Goroutines, Merge
  <2>2. TypeOK'
    BY <1>0, <1>2, <2>1 DEF Merge, TypeOK, Linked, Unborn
  <2>3. Linked'
    BY <1>0, <1>2, <2>1 DEF Merge, Linked, TypeOK, HasContext, Unborn
  <2>4. HasContext'
    BY <1>0, <1>2, <2>1 DEF Merge, HasContext, TypeOK, Linked, Unborn
  <2>5. PutsCallee'
    BY <1>0, <1>2, <2>1 DEF Merge, PutsCallee, TypeOK, Unborn
  <2>6. Unborn'
    BY <1>0, <1>2, <2>1 DEF Merge, Unborn, TypeOK, Linked, HasContext
  <2> QED BY <2>2, <2>3, <2>4, <2>5, <2>6 DEF IInv
<1>3. ASSUME NEW g \in Goroutines, Load(g) PROVE IInv'
  <2>1. TypeOK'
    BY <1>0, <1>3 DEF Load, TypeOK, Linked
  <2>2. Linked'
    BY <1>0, <1>3 DEF Load, Linked, TypeOK, HasContext
  <2>3. HasContext'
    BY <1>0, <1>3 DEF Load, HasContext, TypeOK, Linked
  <2>4. PutsCallee'
    BY <1>0, <1>3 DEF Load, PutsCallee, TypeOK
  <2>5. Unborn'
    BY <1>0, <1>3 DEF Load, Unborn, TypeOK, Linked, HasContext
  <2> QED BY <2>1, <2>2, <2>3, <2>4, <2>5 DEF IInv
<1>4. ASSUME NEW g \in Goroutines, Peek(g) PROVE IInv'
  <2>1. TypeOK'
    <3>1. link[h[g]] \in made \cup {nil}
      BY <1>0, <1>4 DEF Peek, HasContext, Linked
    <3> QED BY <1>0, <1>4, <3>1 DEF Peek, TypeOK, Linked
  <2>2. Linked'
    BY <1>0, <1>4 DEF Peek, Linked, TypeOK, HasContext
  <2>3. HasContext'
    BY <1>0, <1>4 DEF Peek, HasContext, TypeOK, Linked
  <2>4. PutsCallee'
    BY <1>0, <1>4 DEF Peek, PutsCallee, TypeOK
  <2>5. Unborn'
    BY <1>0, <1>4 DEF Peek, Unborn, TypeOK, Linked, HasContext
  <2> QED BY <2>1, <2>2, <2>3, <2>4, <2>5 DEF IInv
<1>5. ASSUME NEW g \in Goroutines, Pop(g) PROVE IInv'
  <2>1. TypeOK'
    BY <1>0, <1>5 DEF Pop, TypeOK, Linked
  <2>2. Linked'
    BY <1>0, <1>5 DEF Pop, Linked, TypeOK, HasContext
  <2>3. HasContext'
    BY <1>0, <1>5 DEF Pop, HasContext, TypeOK, Linked
  <2>4. PutsCallee'
    BY <1>0, <1>5 DEF Pop, PutsCallee, TypeOK
  <2>5. Unborn'
    <3>1. /\ pc[g] = "cas" /\ pc'[g] \in {"reset", "load"} /\ UNCHANGED callee
          /\ \A k \in Goroutines \ {g} : pc'[k] = pc[k]
      BY <1>0, <1>5 DEF Pop, TypeOK
    <3>2. callee \in [Goroutines -> Goroutines]
      BY <1>0 DEF TypeOK
    <3> QED BY <1>0, <3>1, <3>2 DEF Unborn
  <2> QED BY <2>1, <2>2, <2>3, <2>4, <2>5 DEF IInv
<1>6. ASSUME NEW g \in Goroutines, Fresh(g) PROVE IInv'
  <2>1. Cardinality(made) + 1 \in Ctx
    <3>1. IsFiniteSet(made)
      <4>1. IsFiniteSet(Ctx)
        BY FS_Interval, BoundsAssumption DEF Ctx
      <4> QED BY <1>0, <4>1, FS_Subset
    <3>2. Cardinality(made) \in Nat
      BY <3>1, FS_CardinalityType
    <3> QED BY <1>6, <3>2, BoundsAssumption DEF Fresh, Ctx
  <2>2. frames' \in [Goroutines -> Seq(made')]
    <3>1. made \subseteq made' /\ frames' = frames
      BY <1>6 DEF Fresh
    <3>2. \A k \in Goroutines : frames[k] \in Seq(made')
      BY <1>0, <3>1, SeqGrows DEF TypeOK
    <3> QED BY <1>0, <3>1, <3>2 DEF TypeOK
  <2>3. TypeOK'
    BY <1>0, <1>6, <2>1, <2>2 DEF Fresh, TypeOK, Linked
  <2>4. Linked'
    BY <1>0, <1>6, <2>1, <2>2 DEF Fresh, Linked, TypeOK, HasContext
  <2>5. HasContext'
    BY <1>0, <1>6, <2>1, <2>2 DEF Fresh, HasContext, TypeOK, Linked
  <2>6. PutsCallee'
    BY <1>0, <1>6, <2>1, <2>2 DEF Fresh, PutsCallee, TypeOK
  <2>7. Unborn'
    BY <1>0, <1>6, <2>1, <2>2 DEF Fresh, Unborn, TypeOK, Linked, HasContext
  <2> QED BY <2>3, <2>4, <2>5, <2>6, <2>7 DEF IInv
<1>7. ASSUME NEW g \in Goroutines, Reset(g) PROVE IInv'
  <2>1. h[g] \in made /\ Top(g) \in made /\ frames[g] \in Seq(made)
    BY <1>0, <1>7, TopIsMade DEF Reset, HasContext, TypeOK
  <2>2. /\ Append(frames[g], h[g]) \in Seq(made) /\ Append(frames[g], h[g]) # <<>>
        /\ <<h[g]>> \in Seq(made) /\ <<h[g]>> # <<>>
    BY <2>1
  <2>3. TypeOK'
    <3>1. CASE callee[g] = g
      <4>1. /\ frames' = [frames EXCEPT ![g] = Append(frames[g], h[g])]
            /\ depth' = [depth EXCEPT ![h[g]] = depth[Top(g)] + 1]
            /\ pc' = [pc EXCEPT ![g] = "code"] /\ pc[g] = "reset"
            /\ UNCHANGED <<made, callee>>
        BY <1>7, <3>1 DEF Reset, CallDepth
      <4>2. frames' \in [Goroutines -> Seq(made)]
        BY <1>0, <2>2, <4>1 DEF TypeOK
      <4>3. \A k \in Goroutines : frames'[k] = <<>> <=> pc'[k] \in {"unborn", "exited"}
        BY <1>0, <2>2, <4>1 DEF TypeOK
      <4>4. depth' \in [Ctx -> Nat]
        BY <1>0, <2>1, <4>1 DEF TypeOK
      <4> QED BY <1>0, <1>7, <4>1, <4>2, <4>3, <4>4 DEF Reset, TypeOK
    <3>2. CASE callee[g] # g
      <4>1. /\ frames' = [frames EXCEPT ![callee[g]] = <<h[g]>>]
            /\ pc' = [pc EXCEPT ![g] = "code", ![callee[g]] = "code"] /\ pc[g] = "reset"
            /\ callee' = [callee EXCEPT ![g] = g] /\ UNCHANGED <<made, depth>>
        BY <1>7, <3>2 DEF Reset
      <4>2. frames' \in [Goroutines -> Seq(made)]
        BY <1>0, <2>2, <4>1 DEF TypeOK
      <4>3. \A k \in Goroutines : frames'[k] = <<>> <=> pc'[k] \in {"unborn", "exited"}
        BY <1>0, <2>2, <4>1 DEF TypeOK
      <4> QED BY <1>0, <1>7, <4>1, <4>2, <4>3 DEF Reset, TypeOK
    <3> QED BY <3>1, <3>2
  <2>4. Linked'
    BY <1>0, <1>7, <2>1, <2>2 DEF Reset, Linked, TypeOK, HasContext, CallDepth, Unborn
  <2>5. HasContext'
    BY <1>0, <1>7, <2>1, <2>2 DEF Reset, HasContext, TypeOK, Linked, CallDepth, Unborn
  <2>6. PutsCallee'
    BY <1>0, <1>7, <2>1, <2>2 DEF Reset, PutsCallee, TypeOK, CallDepth, Unborn
  <2>7. Unborn'
    <3>1. CASE callee[g] = g
      BY <1>0, <1>7, <3>1 DEF Reset, Unborn, TypeOK
    <3>2. CASE callee[g] # g
      <4>1. /\ pc' = [pc EXCEPT ![g] = "code", ![callee[g]] = "code"]
            /\ callee' = [callee EXCEPT ![g] = g]
        BY <1>7, <3>2 DEF Reset
      <4>2. /\ callee \in [Goroutines -> Goroutines] /\ pc \in [Goroutines -> Labels]
            /\ pc[callee[g]] = "unborn" /\ callee[callee[g]] = callee[g]
        BY <1>0, <3>2 DEF TypeOK, Unborn
      <4>3. \A k \in Goroutines : callee'[k] # k =>
               k # g /\ k # callee[g] /\ callee[k] # callee[g] /\ callee'[k] = callee[k]
        BY <1>0, <3>2, <4>1, <4>2 DEF Unborn
      <4>4. \A k \in Goroutines : callee'[k] # k => callee[k] # g
        BY <1>0, <1>7, <4>3 DEF Unborn, Reset
      <4> QED BY <1>0, <4>1, <4>2, <4>3, <4>4 DEF Unborn
    <3> QED BY <3>1, <3>2
  <2> QED BY <2>3, <2>4, <2>5, <2>6, <2>7 DEF IInv
<1>8. ASSUME NEW g \in Goroutines, Return(g) PROVE IInv'
  <2>1. TypeOK'
    BY <1>0, <1>8 DEF Return, TypeOK, Linked
  <2>2. Linked'
    BY <1>0, <1>8 DEF Return, Linked, TypeOK, HasContext
  <2>3. HasContext'
    BY <1>0, <1>8 DEF Return, HasContext, TypeOK, Linked
  <2>4. PutsCallee'
    BY <1>0, <1>8 DEF Return, PutsCallee, TypeOK
  <2>5. Unborn'
    BY <1>0, <1>8 DEF Return, Unborn, TypeOK, Linked, HasContext
  <2> QED BY <2>1, <2>2, <2>3, <2>4, <2>5 DEF IInv
<1>9. ASSUME NEW g \in Goroutines, PutLoad(g) PROVE IInv'
  <2>1. TypeOK'
    BY <1>0, <1>9 DEF PutLoad, TypeOK, Linked
  <2>2. Linked'
    BY <1>0, <1>9 DEF PutLoad, Linked, TypeOK, HasContext
  <2>3. HasContext'
    BY <1>0, <1>9 DEF PutLoad, HasContext, TypeOK, Linked
  <2>4. PutsCallee'
    BY <1>0, <1>9 DEF PutLoad, PutsCallee, TypeOK
  <2>5. Unborn'
    BY <1>0, <1>9 DEF PutLoad, Unborn, TypeOK, Linked, HasContext
  <2> QED BY <2>1, <2>2, <2>3, <2>4, <2>5 DEF IInv
<1>10. ASSUME NEW g \in Goroutines, PutLink(g) PROVE IInv'
  <2>1. Top(g) \in made /\ Len(frames[g]) >= 1
    BY <1>0, <1>10, TopIsMade DEF PutLink
  <2>2. TypeOK'
    BY <1>0, <1>10, <2>1 DEF PutLink, TypeOK, Linked
  <2>3. Linked'
    BY <1>0, <1>10, <2>1 DEF PutLink, Linked, TypeOK, HasContext
  <2>4. HasContext'
    BY <1>0, <1>10, <2>1 DEF PutLink, HasContext, TypeOK, Linked
  <2>5. PutsCallee'
    BY <1>0, <1>10, <2>1 DEF PutLink, PutsCallee, TypeOK
  <2>6. Unborn'
    BY <1>0, <1>10, <2>1 DEF PutLink, Unborn, TypeOK, Linked, HasContext
  <2> QED BY <2>2, <2>3, <2>4, <2>5, <2>6 DEF IInv
<1>11. ASSUME NEW g \in Goroutines, Push(g) PROVE IInv'
  <2>1. Top(g) \in made /\ Len(frames[g]) >= 1
    BY <1>0, <1>11, TopIsMade DEF Push
  <2>2. /\ SubSeq(frames[g], 1, Len(frames[g]) - 1) \in Seq(made)
        /\ SubSeq(frames[g], 1, Len(frames[g]) - 1) # <<>>
    <3>1. frames[g] \in Seq(made) /\ Len(frames[g]) > 1
      BY <1>0, <1>11 DEF Push, PutsCallee, TypeOK
    <3> QED BY <3>1, AllButLast
  <2>3. TypeOK'
    <3>1. CASE ctxHead = h[g]
      <4>1. /\ frames' = [frames EXCEPT ![g] = SubSeq(frames[g], 1, Len(frames[g]) - 1)]
            /\ pc' = [pc EXCEPT ![g] = "code"] /\ pc[g] = "putcas" /\ made' = made
        BY <1>11, <3>1 DEF Push
      <4>2. frames' \in [Goroutines -> Seq(made)]
        BY <1>0, <2>2, <4>1 DEF TypeOK
      <4>3. \A k \in Goroutines : frames'[k] = <<>> <=> pc'[k] \in {"unborn", "exited"}
        BY <1>0, <2>2, <4>1 DEF TypeOK
      <4> QED BY <1>0, <1>11, <2>1, <3>1, <4>2, <4>3 DEF Push, TypeOK
    <3>2. CASE ctxHead # h[g]
      BY <1>0, <1>11, <3>2 DEF Push, TypeOK
    <3> QED BY <3>1, <3>2
  <2>4. Linked'
    BY <1>0, <1>11, <2>1, <2>2 DEF Push, Linked, TypeOK, HasContext
  <2>5. HasContext'
    BY <1>0, <1>11, <2>1, <2>2 DEF Push, HasContext, TypeOK, Linked
  <2>6. PutsCallee'
    BY <1>0, <1>11, <2>1, <2>2 DEF Push, PutsCallee, TypeOK
  <2>7. Unborn'
    <3>1. /\ pc[g] = "putcas" /\ pc'[g] \in {"code", "putload"} /\ UNCHANGED callee
          /\ \A k \in Goroutines \ {g} : pc'[k] = pc[k]
      BY <1>0, <1>11 DEF Push, TypeOK
    <3>2. callee \in [Goroutines -> Goroutines]
      BY <1>0 DEF TypeOK
    <3> QED BY <1>0, <3>1, <3>2 DEF Unborn
  <2> QED BY <2>3, <2>4, <2>5, <2>6, <2>7 DEF IInv
<1>12. ASSUME NEW g \in Goroutines, Exit(g) PROVE IInv'
  <2>1. TypeOK'
    BY <1>0, <1>12 DEF Exit, TypeOK, Linked
  <2>2. Linked'
    BY <1>0, <1>12 DEF Exit, Linked, TypeOK, HasContext
  <2>3. HasContext'
    BY <1>0, <1>12 DEF Exit, HasContext, TypeOK, Linked
  <2>4. PutsCallee'
    BY <1>0, <1>12 DEF Exit, PutsCallee, TypeOK
  <2>5. Unborn'
    BY <1>0, <1>12 DEF Exit, Unborn, TypeOK, Linked, HasContext
  <2> QED BY <2>1, <2>2, <2>3, <2>4, <2>5 DEF IInv
<1>13. CASE UNCHANGED vars
  BY <1>0, <1>13 DEF vars, IInv, TypeOK, Linked, HasContext, PutsCallee, Unborn
<1> QED
  BY <1>1, <1>2, <1>3, <1>4, <1>5, <1>6, <1>7, <1>8, <1>9, <1>10, <1>11, <1>12, <1>13
     DEF Next, NewCtx, PutCtx

\* Every goroutine executes in contexts that were allocated, and in none before
\* it starts and after it has ended (newCtx, putCtx, runOnThread).
THEOREM TypeCorrect == Spec => []TypeOK
<1>1. Init => IInv
  BY InitIInv
<1>2. IInv /\ [Next]_vars => IInv'
  BY StepIInv
<1>3. IInv => TypeOK
  BY DEF IInv
<1> QED BY <1>1, <1>2, <1>3, PTL DEF Spec

----------------------------------------------------------------------------
(* With at most one merged function no two calls share a context.          *)
(* A stale pop, whose head has been taken and given back in between, would *)
(* be harmful if it put a context on the list that a call executes in.     *)
(* But contexts are given back in the reverse order of taking: whoever has *)
(* the old head holds its old successor above it, or has given that back.  *)

\* At most one function is merged.
Alone == \A m, k \in Merged : m = k

\* The contexts of g's calls and the one it has just taken, outermost first.
Stack(g) == IF pc[g] = "reset" THEN Append(frames[g], h[g]) ELSE frames[g]
\* The contexts nobody executes in.  They are on the free list, or unreachable.
Spare == {c \in made : \A g \in Goroutines : \A i \in DOMAIN Stack(g) : Stack(g)[i] # c}
\* No spare context is linked to c.
Foremost(c) == \A d \in Spare : link[d] # c

\* What g, about to pop h[g], will make the head.
Follows(g) == IF pc[g] = "peek" THEN link[h[g]] ELSE next[g]
\* c is spare and unreachable, and only g may put it back on the list.
Lost(c, g) == /\ c \in Spare /\ c # ctxHead /\ Foremost(c)
              /\ \A k \in Goroutines \ {g} :
                    pc[k] = "cas" /\ h[k] = ctxHead => next[k] # c
\* What g wants to pop is spare, with the successor that g has seen, or with
\* one that nobody misses.
OnList(g) == /\ h[g] \in Spare
             /\ \/ Follows(g) = nil
                \/ Follows(g) = link[h[g]]
                \/ Lost(Follows(g), g)
\* It is in use by the i-th call of k, and the successor that g has seen is
\* still the head, or is in use by the next call of k.
Taken(g, k, i) == /\ Stack(k)[i] = h[g]
                  /\ pc[k] \in {"putlink", "putcas"} => h[k] = ctxHead
                  /\ pc[k] = "fresh" => ctxHead = nil
                  /\ \/ Follows(g) = nil
                     \/ Lost(Follows(g), g)
                     \/ Follows(g) = ctxHead /\ i = Len(Stack(k))
                     \/ i + 1 \in DOMAIN Stack(k) /\ Stack(k)[i + 1] = Follows(g)

\* Contexts are numbered as they are allocated.
Count == \E n \in 1..MaxCtx : made = 1..n
\* No two calls, of one goroutine or of two, have the same context.
Distinct == \A g \in Goroutines : \A i, j \in DOMAIN Stack(g) :
               Stack(g)[i] = Stack(g)[j] => i = j
Disjoint == \A g, k \in Goroutines : g # k =>
               \A i \in DOMAIN Stack(g), j \in DOMAIN Stack(k) : Stack(g)[i] # Stack(k)[j]
\* The list starts at a spare context and consists of spare ones, none of
\* which has two predecessors.
HeadSpare  == ctxHead # nil => ctxHead \in Spare /\ Foremost(ctxHead)
ChainSpare == \A c \in Spare : link[c] \in Spare \cup {nil}
OneBefore  == \A c, d \in Spare : link[c] = link[d] => c = d \/ link[c] = nil
\* The context of a merged function, dropped at its end, is linked to nothing.
Bottom  == \A g \in Goroutines : 1 \in DOMAIN frames[g] => link[frames[g][1]] = nil
\* A context about to be pushed is linked to the head that putCtx expects.
Linking == \A g \in Goroutines : pc[g] = "putcas" => link[Top(g)] = h[g]
\* A goroutine inside newCtx can do no harm.
Tied == \A g \in Goroutines : pc[g] \in {"peek", "cas"} =>
           \/ OnList(g)
           \/ \E k \in Goroutines \ {g} : \E i \in DOMAIN Stack(k) : i # 1 /\ Taken(g, k, i)

Owned  == Distinct /\ Disjoint
Listed == HeadSpare /\ ChainSpare /\ OneBefore
SInv == IInv /\ Count /\ Owned /\ Listed /\ Bottom /\ Linking /\ Tied

\* At the start main executes in the only context, and none is free.
LEMMA InitSInv == ASSUME Init PROVE SInv
<1> USE BoundsAssumption DEF Init, nil
<1>1. /\ \A g \in Goroutines : Stack(g) = IF g = Main THEN <<1>> ELSE <<>>
      /\ made = 1..1 /\ Main \in Goroutines
  BY DEF Stack, Goroutines
<1>2. Spare = {}
  BY <1>1 DEF Spare
<1>3. Count /\ Distinct /\ Disjoint
  BY <1>1 DEF Count, Distinct, Disjoint
<1>4. Listed /\ Bottom /\ Linking /\ Tied
  BY <1>1, <1>2 DEF Listed, HeadSpare, ChainSpare, OneBefore, Bottom, Linking, Tied, Ctx
<1> QED BY <1>3, <1>4, InitIInv DEF SInv, Owned

\* What the lemmas about single steps need of the types.
LEMMA StackTypes ==
    ASSUME IInv
    PROVE  /\ \A g \in Goroutines : /\ Stack(g) \in Seq(made) /\ frames[g] \in Seq(made)
                                    /\ DOMAIN Stack(g) = 1..Len(Stack(g))
                                    /\ DOMAIN frames[g] = 1..Len(frames[g])
                                    /\ Len(Stack(g)) \in Nat /\ Len(frames[g]) \in Nat
                                    /\ pc[g] \notin {"unborn", "exited"} => Len(frames[g]) >= 1
           /\ made \subseteq Ctx /\ nil \notin Ctx /\ nil \notin made
<1>1. /\ frames \in [Goroutines -> Seq(made)] /\ made \subseteq Ctx
      /\ \A g \in Goroutines : frames[g] = <<>> <=> pc[g] \in {"unborn", "exited"}
      /\ \A g \in Goroutines : pc[g] = "reset" => h[g] \in made
  BY DEF IInv, TypeOK, HasContext
<1>2. nil \notin Ctx
  BY DEF Ctx, nil
<1>3. \A g \in Goroutines : Stack(g) \in Seq(made)
  BY <1>1 DEF Stack
<1>4. ASSUME NEW s \in Seq(made)
      PROVE  DOMAIN s = 1..Len(s) /\ Len(s) \in Nat /\ (s # <<>> => Len(s) >= 1)
  BY <1>4, LenProperties, EmptySeq
<1> QED BY <1>1, <1>2, <1>3, <1>4

\* Adding an element at the end.
LEMMA AppendIs ==
    ASSUME NEW S, NEW s \in Seq(S), NEW e
    PROVE  /\ Len(Append(s, e)) = Len(s) + 1 /\ DOMAIN Append(s, e) = 1..Len(s) + 1
           /\ \A i \in 1..Len(s) : Append(s, e)[i] = s[i]
           /\ Append(s, e)[Len(s) + 1] = e
<1>1. s \in Seq(S \cup {e}) /\ e \in S \cup {e}
  BY SeqGrows
<1> QED BY <1>1, AppendProperties, LenProperties

\* Taking the last one off.
LEMMA FrontIs ==
    ASSUME NEW S, NEW s \in Seq(S), Len(s) > 1
    PROVE  LET f == SubSeq(s, 1, Len(s) - 1) IN
           /\ Len(f) = Len(s) - 1 /\ DOMAIN f = 1..Len(s) - 1
           /\ \A i \in 1..Len(s) - 1 : f[i] = s[i]
<1> DEFINE n == Len(s) - 1
           f == SubSeq(s, 1, n)
<1>1. n \in Int /\ 1 <= n /\ n - 1 + 1 = n /\ Len(s) \in Nat
  BY LenProperties
<1>2. \A i \in 1..n : s[i] \in S
  BY <1>1, ElementOfSeq
<1> HIDE DEF n
<1>3. /\ f \in Seq(S) /\ Len(f) = IF 1 <= n THEN n - 1 + 1 ELSE 0
      /\ \A i \in 1..n - 1 + 1 : f[i] = s[1 + i - 1]
  BY <1>1, <1>2, SubSeqProperties
<1>4. \A i \in 1..n : 1 + i - 1 = i
  BY <1>1
<1> HIDE DEF f
<1>5. Len(f) = n /\ DOMAIN f = 1..n
  BY <1>1, <1>3, LenProperties
<1>6. \A i \in 1..n : f[i] = s[i]
  BY <1>1, <1>3, <1>4
<1> QED BY <1>5, <1>6 DEF n, f

----------------------------------------------------------------------------
(* Steps that neither take a context nor give one back.                    *)

Quiet == /\ \A g \in Goroutines : Stack(g)' = Stack(g)
         /\ made' = made /\ ctxHead' = ctxHead
         /\ \A c \in Spare : link'[c] = link[c]

\* They leave the list as it is.
LEMMA QuietList ==
    ASSUME SInv, Quiet
    PROVE  /\ Spare' = Spare /\ (Count /\ Owned /\ Listed)'
           /\ \A c : Foremost(c)' <=> Foremost(c)
<1>1. Spare' = Spare
  BY DEF Quiet, Spare
<1>2. Count' /\ Distinct' /\ Disjoint'
  BY DEF Quiet, SInv, Owned, Count, Distinct, Disjoint
<1>3. \A c : Foremost(c)' <=> Foremost(c)
  BY <1>1 DEF Quiet, Foremost
<1>4. HeadSpare' /\ ChainSpare' /\ OneBefore'
  BY <1>1, <1>3 DEF Quiet, SInv, Listed, HeadSpare, ChainSpare, OneBefore
<1> QED BY <1>1, <1>2, <1>3, <1>4 DEF Owned, Listed

\* A goroutine that stays inside newCtx is still harmless if nobody reads the
\* head late, and nobody is about to make the head what g has lost.
LEMMA QuietTied ==
    ASSUME SInv, Quiet, NEW g \in Goroutines,
           pc[g] \in {"peek", "cas"}, pc'[g] \in {"peek", "cas"}, h'[g] = h[g],
           h[g] \in Spare \/ link'[h[g]] = link[h[g]] => Follows(g)' = Follows(g),
           h[g] \notin Spare /\ link'[h[g]] # link[h[g]] =>
              \/ Follows(g)' \in {Follows(g), nil}
              \/ /\ Follows(g)' = ctxHead
                 /\ \A k \in Goroutines \ {g} : \A i \in DOMAIN Stack(k) :
                       Taken(g, k, i) => i = Len(Stack(k)),
           \A k \in Goroutines \ {g} :
              /\ pc'[k] \in {"putlink", "putcas"} =>
                    \/ pc[k] \in {"putlink", "putcas"} /\ h'[k] = h[k]
                    \/ h'[k] = ctxHead
              /\ pc'[k] = "fresh" => pc[k] = "fresh" \/ ctxHead = nil
              /\ pc'[k] = "cas" /\ h'[k] = ctxHead =>
                    \/ pc[k] = "cas" /\ h'[k] = h[k] /\ next'[k] = next[k]
                    \/ ctxHead \in Spare /\ next'[k] = link[ctxHead]
    PROVE  \/ OnList(g)'
           \/ \E k \in Goroutines \ {g} : \E i \in DOMAIN Stack(k)' : i # 1 /\ Taken(g, k, i)'
<1> DEFINE b == Follows(g)
<1>1. /\ Spare' = Spare /\ ctxHead' = ctxHead
      /\ \A c : Foremost(c)' <=> Foremost(c)
      /\ \A k \in Goroutines : Stack(k)' = Stack(k)
      /\ \A c \in Spare : link'[c] = link[c]
  BY QuietList DEF Quiet
<1>2. ASSUME NEW c, Lost(c, g) PROVE Lost(c, g)'
  <2>1. \A k \in Goroutines \ {g} : pc'[k] = "cas" /\ h'[k] = ctxHead' => next'[k] # c
    BY <1>1, <1>2 DEF Lost, Foremost
  <2> QED BY <1>1, <1>2, <2>1 DEF Lost
<1>3. CASE OnList(g)
  <2>1. Follows(g)' = b /\ h'[g] \in Spare' /\ link'[h'[g]] = link[h[g]]
    BY <1>1, <1>3 DEF OnList
  <2> QED BY <1>2, <1>3, <2>1 DEF OnList, nil
<1>4. CASE ~ OnList(g)
  <2>1. PICK k \in Goroutines \ {g} : \E i \in DOMAIN Stack(k) : i # 1 /\ Taken(g, k, i)
    BY <1>4 DEF SInv, Tied
  <2>2. PICK i \in DOMAIN Stack(k) : i # 1 /\ Taken(g, k, i)
    BY <2>1
  <2>3. /\ Stack(k)[i] = h[g]
        /\ pc[k] \in {"putlink", "putcas"} => h[k] = ctxHead
        /\ pc[k] = "fresh" => ctxHead = nil
        /\ \/ b = nil
           \/ Lost(b, g)
           \/ b = ctxHead /\ i = Len(Stack(k))
           \/ i + 1 \in DOMAIN Stack(k) /\ Stack(k)[i + 1] = b
    BY <2>2 DEF Taken
  <2>4. /\ Stack(k)'[i] = h'[g] /\ i \in DOMAIN Stack(k)'
        /\ pc'[k] \in {"putlink", "putcas"} => h'[k] = ctxHead'
        /\ pc'[k] = "fresh" => ctxHead' = nil
    BY <1>1, <2>3
  <2>5. \/ Follows(g)' = nil
        \/ Lost(Follows(g), g)'
        \/ Follows(g)' = ctxHead' /\ i = Len(Stack(k)')
        \/ i + 1 \in DOMAIN Stack(k)' /\ Stack(k)'[i + 1] = Follows(g)'
    <3>1. CASE Follows(g)' = b
      BY <1>1, <1>2, <2>3, <3>1
    <3>2. CASE Follows(g)' # b
      BY <1>1, <2>2, <3>2
    <3> QED BY <3>1, <3>2
  <2>6. Taken(g, k, i)'
    BY <2>4, <2>5 DEF Taken, nil
  <2> QED BY <2>2, <2>4, <2>6
<1> QED BY <1>3, <1>4

\* The context of the last call of g is in nobody else's hands, and in g's once.
LEMMA TopOwned ==
    ASSUME SInv, NEW g \in Goroutines, pc[g] \notin {"unborn", "exited", "reset"}
    PROVE  /\ Top(g) \in made /\ Top(g) \notin Spare
           /\ Len(Stack(g)) \in DOMAIN Stack(g) /\ Stack(g)[Len(Stack(g))] = Top(g)
           /\ \A i \in DOMAIN Stack(g) : Stack(g)[i] = Top(g) => i = Len(Stack(g))
           /\ \A k \in Goroutines \ {g} : \A i \in DOMAIN Stack(k) : Stack(k)[i] # Top(g)
<1>1. Stack(g) = frames[g] /\ Len(Stack(g)) \in 1..Len(Stack(g))
  BY StackTypes DEF Stack, SInv
<1>2. Len(Stack(g)) \in DOMAIN Stack(g) /\ Stack(g)[Len(Stack(g))] = Top(g)
  BY <1>1, StackTypes DEF SInv, Top
<1>3. Top(g) \in made
  BY TopIsMade DEF SInv, IInv
<1> QED BY <1>1, <1>2, <1>3 DEF SInv, Owned, Distinct, Disjoint, Spare

\* What g holds when it is about to use the context it has taken.
LEMMA NewOwned ==
    ASSUME SInv, NEW g \in Goroutines, pc[g] = "reset"
    PROVE  /\ h[g] \in made /\ h[g] \notin Spare
           /\ Stack(g) = Append(frames[g], h[g]) /\ Len(Stack(g)) = Len(frames[g]) + 1
           /\ Len(frames[g]) >= 1
           /\ \A i \in 1..Len(frames[g]) : Stack(g)[i] = frames[g][i]
           /\ Stack(g)[Len(Stack(g))] = h[g]
           /\ \A i \in 1..Len(frames[g]) : frames[g][i] # h[g]
           /\ \A k \in Goroutines \ {g} : \A i \in DOMAIN Stack(k) : Stack(k)[i] # h[g]
<1>1. h[g] \in made /\ frames[g] \in Seq(made) /\ Len(frames[g]) \in Nat
      /\ Len(frames[g]) >= 1
  BY StackTypes DEF SInv, IInv, HasContext
<1>2. Stack(g) = Append(frames[g], h[g])
  BY DEF Stack
<1>3. /\ Len(Stack(g)) = Len(frames[g]) + 1 /\ DOMAIN Stack(g) = 1..Len(frames[g]) + 1
      /\ \A i \in 1..Len(frames[g]) : Stack(g)[i] = frames[g][i]
      /\ Stack(g)[Len(frames[g]) + 1] = h[g]
  BY <1>1, <1>2, AppendIs
<1>4. Len(frames[g]) + 1 \in DOMAIN Stack(g)
  BY <1>1, <1>3
<1>5. \A i \in 1..Len(frames[g]) : frames[g][i] # h[g]
  <2> SUFFICES ASSUME NEW i \in 1..Len(frames[g]), frames[g][i] = h[g] PROVE FALSE
    OBVIOUS
  <2>1. i \in DOMAIN Stack(g) /\ i # Len(frames[g]) + 1
    BY <1>1, <1>3
  <2> QED BY <1>3, <1>4, <2>1 DEF SInv, Owned, Distinct
<1> QED BY <1>1, <1>2, <1>3, <1>4, <1>5 DEF SInv, Owned, Disjoint, Spare

\* Entering newCtx or putCtx, reading the head, and a swap that fails.
LEMMA ReadingSteps ==
    ASSUME SInv, NEW g \in Goroutines,
           \/ Call(g) \/ \E m \in Merged : Merge(g, m)
           \/ Load(g) \/ Return(g) \/ PutLoad(g)
           \/ Pop(g) /\ ctxHead # h[g]
           \/ Push(g) /\ ctxHead # h[g]
    PROVE  (Count /\ Owned /\ Listed /\ Bottom /\ Linking /\ Tied)'
<1>1. /\ UNCHANGED <<ctxHead, link, made, frames, next>>
      /\ pc' = [pc EXCEPT ![g] = pc'[g]] /\ pc[g] # "reset" /\ pc'[g] # "reset"
      /\ \A k \in Goroutines \ {g} : h'[k] = h[k] /\ pc'[k] = pc[k]
      /\ pc'[g] \in {"load", "peek", "fresh", "putload", "putlink"}
      /\ pc'[g] \in {"peek", "putlink"} => h'[g] = ctxHead
      /\ pc'[g] = "fresh" => ctxHead = nil
      /\ pc'[g] = "peek" => ctxHead # nil
  BY DEF Call, Merge, Load, Return, PutLoad, Pop, Push, Goto, SInv, IInv, TypeOK
<1>2. Quiet
  BY <1>1 DEF Quiet, Stack
<1>3. (Count /\ Owned /\ Listed)' /\ Spare' = Spare
  BY <1>2, QuietList
<1>4. Bottom' /\ Linking'
  BY <1>1 DEF SInv, Bottom, Linking, Top
<1>5. ASSUME NEW k \in Goroutines \ {g}, pc'[k] \in {"peek", "cas"}
      PROVE  \/ OnList(k)'
             \/ \E j \in Goroutines \ {k} : \E i \in DOMAIN Stack(j)' : i # 1 /\ Taken(k, j, i)'
  <2>1. pc[k] \in {"peek", "cas"} /\ h'[k] = h[k] /\ link' = link /\ Follows(k)' = Follows(k)
    BY <1>1, <1>5 DEF Follows
  <2> QED BY <1>1, <1>2, <1>5, <2>1, QuietTied
<1>6. pc'[g] \in {"peek", "cas"} => OnList(g)'
  BY <1>1, <1>3 DEF OnList, Follows, SInv, Listed, HeadSpare
<1>7. Tied'
  BY <1>5, <1>6 DEF Tied
<1> QED BY <1>3, <1>4, <1>7

\* Reading the successor of the head, before it is popped.
LEMMA PeekStep ==
    ASSUME SInv, NEW g \in Goroutines, Peek(g)
    PROVE  (Count /\ Owned /\ Listed /\ Bottom /\ Linking /\ Tied)'
<1>1. /\ UNCHANGED <<ctxHead, link, made, frames, h>>
      /\ pc[g] = "peek" /\ pc'[g] = "cas" /\ next'[g] = link[h[g]] /\ h[g] \in made
      /\ \A k \in Goroutines \ {g} : next'[k] = next[k] /\ pc'[k] = pc[k]
  BY DEF Peek, Goto, SInv, IInv, TypeOK, HasContext
<1>2. Quiet
  BY <1>1 DEF Quiet, Stack
<1>3. (Count /\ Owned /\ Listed)'
  BY <1>2, QuietList
<1>4. Bottom' /\ Linking'
  BY <1>1 DEF SInv, Bottom, Linking, Top
<1>5. ASSUME NEW k \in Goroutines, pc'[k] \in {"peek", "cas"}
      PROVE  \/ OnList(k)'
             \/ \E j \in Goroutines \ {k} : \E i \in DOMAIN Stack(j)' : i # 1 /\ Taken(k, j, i)'
  <2>1. pc[k] \in {"peek", "cas"} /\ Follows(k)' = Follows(k)
    BY <1>1, <1>5 DEF Follows
  <2>2. h[g] = ctxHead => ctxHead \in Spare
    BY <1>1, StackTypes DEF SInv, Listed, HeadSpare
  <2> QED BY <1>1, <1>2, <1>5, <2>1, <2>2, QuietTied
<1>6. Tied'
  BY <1>5 DEF Tied
<1> QED BY <1>3, <1>4, <1>6

\* Linking a context that is about to be pushed.
LEMMA PutLinkStep ==
    ASSUME SInv, NEW g \in Goroutines, PutLink(g)
    PROVE  (Count /\ Owned /\ Listed /\ Bottom /\ Linking /\ Tied)'
<1> DEFINE c == Top(g)
<1>0. Len(frames[g]) # 1
  <2>1. Len(frames[g]) \in Nat /\ Len(frames[g]) > 1
    BY StackTypes DEF SInv, IInv, PutsCallee, PutLink
  <2>2. \A n \in Nat : n > 1 => n # 1
    OBVIOUS
  <2> QED BY <2>1, <2>2
<1>1. /\ UNCHANGED <<ctxHead, made, frames, h, next>>
      /\ pc[g] = "putlink" /\ pc'[g] = "putcas"
      /\ \A k \in Goroutines \ {g} : pc'[k] = pc[k]
      /\ link' = [link EXCEPT ![c] = h[g]] /\ link \in [Ctx -> made \cup {nil}]
  BY DEF PutLink, Goto, SInv, IInv, TypeOK, Linked
<1>2. /\ c \in made /\ c \in Ctx /\ c \notin Spare
      /\ \A i \in DOMAIN Stack(g) : Stack(g)[i] = c => i = Len(Stack(g))
      /\ \A k \in Goroutines \ {g} : \A i \in DOMAIN Stack(k) : Stack(k)[i] # c
  BY <1>1, TopOwned, StackTypes DEF SInv
<1>3. Quiet
  BY <1>1, <1>2 DEF Quiet, Stack, Spare
<1>4. (Count /\ Owned /\ Listed)'
  BY <1>3, QuietList
<1>5. Bottom'
  <2> SUFFICES ASSUME NEW k \in Goroutines, 1 \in DOMAIN frames[k]
               PROVE  link'[frames[k][1]] = nil
    BY <1>1 DEF Bottom
  <2>1. frames[k][1] # c
    <3>1. CASE k = g
      <4>1. Stack(g) = frames[g]
        BY <1>1 DEF Stack
      <4> QED BY <1>2, <1>0, <3>1, <4>1
    <3>2. CASE k # g
      <4>1. 1 \in DOMAIN Stack(k) /\ Stack(k)[1] = frames[k][1]
        BY StackTypes, NewOwned DEF Stack, SInv
      <4> QED BY <1>2, <3>2, <4>1
    <3> QED BY <3>1, <3>2
  <2> QED BY <1>1, <2>1, StackTypes DEF SInv, Bottom
<1>6. Linking'
  <2> SUFFICES ASSUME NEW k \in Goroutines, pc'[k] = "putcas" PROVE link'[Top(k)] = h[k]
    BY <1>1 DEF Linking, Top
  <2>1. CASE k = g
    BY <1>1, <1>2, <2>1
  <2>2. CASE k # g
    <3>1. pc[k] = "putcas"
      BY <1>1, <2>2
    <3>2. Top(k) # c /\ link[Top(k)] = h[k]
      BY <1>2, <2>2, <3>1, TopOwned DEF SInv, Linking
    <3>3. Top(k) \in Ctx
      BY <3>1, TopOwned, StackTypes DEF SInv
    <3> QED BY <1>1, <3>2, <3>3
  <2> QED BY <2>1, <2>2
<1>7. ASSUME NEW k \in Goroutines, pc'[k] \in {"peek", "cas"}
      PROVE  \/ OnList(k)'
             \/ \E j \in Goroutines \ {k} : \E i \in DOMAIN Stack(j)' : i # 1 /\ Taken(k, j, i)'
  <2>1. k # g /\ pc[k] \in {"peek", "cas"} /\ pc'[k] = pc[k]
    BY <1>1, <1>7
  <2>2. h[k] \in Ctx
    BY <2>1, StackTypes DEF SInv, IInv, HasContext
  <2>3. CASE h[k] # c
    <3>1. link'[h[k]] = link[h[k]]
      BY <1>1, <2>2, <2>3
    <3>2. Follows(k)' = Follows(k)
      BY <1>1, <2>1, <3>1 DEF Follows
    <3> QED BY <1>1, <1>3, <2>1, <3>1, <3>2, QuietTied
  <2>4. CASE h[k] = c
    <3>1. PICK j \in Goroutines \ {k} : \E i \in DOMAIN Stack(j) : i # 1 /\ Taken(k, j, i)
      BY <1>2, <2>1, <2>4 DEF SInv, Tied, OnList
    <3>2. PICK i \in DOMAIN Stack(j) : i # 1 /\ Taken(k, j, i)
      BY <3>1
    <3>3. j = g /\ i = Len(Stack(g)) /\ h[g] = ctxHead
      BY <1>1, <1>2, <2>4, <3>1, <3>2 DEF Taken
    <3>4. \A jj \in Goroutines \ {k} : \A ii \in DOMAIN Stack(jj) :
             Taken(k, jj, ii) => ii = Len(Stack(jj))
      BY <1>2, <2>4 DEF Taken
    <3>5. Follows(k)' \in {Follows(k), ctxHead}
      BY <1>1, <1>2, <2>1, <2>4, <3>3 DEF Follows
    <3> QED BY <1>1, <1>2, <1>3, <2>1, <2>4, <3>3, <3>4, <3>5, QuietTied DEF Follows
  <2> QED BY <2>3, <2>4
<1>8. Tied'
  BY <1>7 DEF Tied
<1> QED BY <1>4, <1>5, <1>6, <1>8

\* Resetting the context of a call: it is linked to nothing, and in use already.
LEMMA ResetCallStep ==
    ASSUME SInv, NEW g \in Goroutines, Reset(g), callee[g] = g
    PROVE  (Count /\ Owned /\ Listed /\ Bottom /\ Linking /\ Tied)'
<1> DEFINE c == h[g]
<1>1. /\ UNCHANGED <<ctxHead, made, h, next>>
      /\ pc[g] = "reset" /\ pc'[g] = "code"
      /\ \A k \in Goroutines \ {g} : pc'[k] = pc[k] /\ frames'[k] = frames[k]
      /\ frames'[g] = Append(frames[g], c)
      /\ link' = [link EXCEPT ![c] = nil] /\ link \in [Ctx -> made \cup {nil}]
  BY DEF Reset, Goto, SInv, IInv, TypeOK, Linked
<1>2. /\ c \in Ctx /\ c \notin Spare
      /\ Len(frames[g]) >= 1 /\ Len(frames[g]) \in Nat /\ frames[g] \in Seq(made)
      /\ \A i \in 1..Len(frames[g]) : frames[g][i] # c
      /\ \A k \in Goroutines \ {g} : \A i \in DOMAIN Stack(k) : Stack(k)[i] # c
  BY <1>1, NewOwned, StackTypes DEF SInv
<1>3. Quiet
  <2>1. Stack(g)' = Stack(g)
    BY <1>1 DEF Stack
  <2>2. \A k \in Goroutines \ {g} : Stack(k)' = Stack(k)
    BY <1>1 DEF Stack
  <2>3. \A d \in Spare : link'[d] = link[d]
    BY <1>1, <1>2 DEF Spare
  <2> QED BY <1>1, <2>1, <2>2, <2>3 DEF Quiet
<1>4. (Count /\ Owned /\ Listed)'
  BY <1>3, QuietList
<1>5. Bottom'
  <2> SUFFICES ASSUME NEW k \in Goroutines, 1 \in DOMAIN frames'[k]
               PROVE  link'[frames'[k][1]] = nil
    BY DEF Bottom
  <2>1. 1 \in DOMAIN frames[k] /\ frames'[k][1] = frames[k][1]
    <3>1. CASE k = g
      <4>1. 1 \in 1..Len(frames[g])
        BY <1>2
      <4>2. DOMAIN frames[g] = 1..Len(frames[g])
        BY StackTypes DEF SInv
      <4> QED BY <1>1, <1>2, <3>1, <4>1, <4>2, AppendIs
    <3>2. CASE k # g
      BY <1>1, <3>2
    <3> QED BY <3>1, <3>2
  <2> QED BY <1>1, <2>1, StackTypes DEF SInv, Bottom
<1>6. Linking'
  <2> SUFFICES ASSUME NEW k \in Goroutines, pc'[k] = "putcas" PROVE link'[Top(k)'] = h[k]
    BY <1>1 DEF Linking, Top
  <2>1. k # g /\ pc[k] = "putcas" /\ Top(k)' = Top(k)
    BY <1>1 DEF Top
  <2>2. Top(k) # c /\ link[Top(k)] = h[k] /\ Top(k) \in Ctx
    BY <1>2, <2>1, TopOwned, StackTypes DEF SInv, Linking
  <2> QED BY <1>1, <2>1, <2>2
<1>7. ASSUME NEW k \in Goroutines, pc'[k] \in {"peek", "cas"}
      PROVE  \/ OnList(k)'
             \/ \E j \in Goroutines \ {k} : \E i \in DOMAIN Stack(j)' : i # 1 /\ Taken(k, j, i)'
  <2>1. k # g /\ pc[k] \in {"peek", "cas"} /\ pc'[k] = pc[k]
    BY <1>1, <1>7
  <2>2. h[k] \in Ctx
    BY <2>1, StackTypes DEF SInv, IInv, HasContext
  <2>3. Follows(k)' \in {Follows(k), nil} /\ (h[k] # c => Follows(k)' = Follows(k))
        /\ (h[k] # c => link'[h[k]] = link[h[k]])
        /\ (link'[h[k]] = link[h[k]] => Follows(k)' = Follows(k))
    BY <1>1, <1>2, <2>1, <2>2 DEF Follows
  <2> QED BY <1>1, <1>2, <1>3, <2>1, <2>3, QuietTied
<1>8. Tied'
  BY <1>7 DEF Tied
<1> QED BY <1>4, <1>5, <1>6, <1>8

\* Giving the context to the goroutine of a merged function.
LEMMA ResetMergeStep ==
    ASSUME Alone, SInv, NEW g \in Goroutines, Reset(g), callee[g] # g
    PROVE  (Count /\ Owned /\ Listed /\ Bottom /\ Linking /\ Tied)'
<1>0. PICK m \in Goroutines, c \in made : m = callee[g] /\ c = h[g]
  BY NewOwned DEF Reset, SInv, IInv, TypeOK
<1>1. /\ UNCHANGED <<ctxHead, made, h, next>>
      /\ pc[g] = "reset" /\ pc'[g] = "code" /\ pc[m] = "unborn" /\ pc'[m] = "code"
      /\ \A k \in Goroutines \ {g, m} : pc'[k] = pc[k]
      /\ \A k \in Goroutines \ {m} : frames'[k] = frames[k]
      /\ m \in Goroutines \ {g} /\ frames[m] = <<>> /\ frames'[m] = <<c>>
      /\ link' = [link EXCEPT ![c] = nil] /\ link \in [Ctx -> made \cup {nil}]
  BY <1>0 DEF Reset, Goto, SInv, IInv, TypeOK, Linked, Unborn
<1>2. /\ c \in Ctx /\ c \in made /\ c \notin Spare
      /\ Len(frames[g]) >= 1 /\ Len(frames[g]) \in Nat /\ frames[g] \in Seq(made)
      /\ DOMAIN frames[g] = 1..Len(frames[g])
      /\ Len(Stack(g)) = Len(frames[g]) + 1
      /\ \A i \in 1..Len(frames[g]) : Stack(g)[i] = frames[g][i] /\ frames[g][i] # c
      /\ Stack(g)[Len(frames[g]) + 1] = c
      /\ DOMAIN Stack(g) = 1..Len(frames[g]) + 1
      /\ \A k \in Goroutines \ {g} : \A i \in DOMAIN Stack(k) : Stack(k)[i] # c
  BY <1>0, <1>1, NewOwned, StackTypes DEF SInv
<1>3. /\ Stack(g)' = frames[g] /\ Stack(m)' = <<c>> /\ Stack(m) = <<>>
      /\ \A k \in Goroutines \ {g, m} : Stack(k)' = Stack(k)
      /\ DOMAIN Stack(m) = {} /\ DOMAIN Stack(m)' = {1} /\ Stack(m)'[1] = c
  <2>1. Stack(g)' = frames[g]
    BY <1>0, <1>1 DEF Stack
  <2>2. Stack(m)' = <<c>> /\ Stack(m) = <<>>
    BY <1>0, <1>1 DEF Stack
  <2>3. \A k \in Goroutines \ {g, m} : Stack(k)' = Stack(k)
    BY <1>0, <1>1 DEF Stack
  <2>4. DOMAIN <<>> = {} /\ DOMAIN <<c>> = {1} /\ <<c>>[1] = c
    OBVIOUS
  <2> QED BY <2>1, <2>2, <2>3, <2>4
<1>4. Spare' = Spare
  <2>1. ASSUME NEW d
        PROVE  (\E k \in Goroutines : \E i \in DOMAIN Stack(k) : Stack(k)[i] = d)
                  <=> (\E k \in Goroutines : \E i \in DOMAIN Stack(k)' : Stack(k)'[i] = d)
    <3>1. (\E i \in DOMAIN Stack(g) : Stack(g)[i] = d)
             <=> d = c \/ \E i \in DOMAIN frames[g] : frames[g][i] = d
      <4>1. \A i \in 1..Len(frames[g]) + 1 : i \in 1..Len(frames[g]) \/ i = Len(frames[g]) + 1
        BY <1>2
      <4>2. Len(frames[g]) + 1 \in 1..Len(frames[g]) + 1
            /\ \A i \in 1..Len(frames[g]) : i \in 1..Len(frames[g]) + 1
        BY <1>2
      <4> QED BY <1>2, <4>1, <4>2
    <3>2. (\E i \in DOMAIN Stack(m)' : Stack(m)'[i] = d) <=> d = c
      BY <1>3
    <3>3. ~ \E i \in DOMAIN Stack(m) : Stack(m)[i] = d
      BY <1>3
    <3>4. \A k \in Goroutines \ {g, m} :
             (\E i \in DOMAIN Stack(k) : Stack(k)[i] = d)
                <=> \E i \in DOMAIN Stack(k)' : Stack(k)'[i] = d
      BY <1>3
    <3>5. (\E i \in DOMAIN Stack(g)' : Stack(g)'[i] = d)
             <=> \E i \in DOMAIN frames[g] : frames[g][i] = d
      BY <1>3
    <3> QED BY <1>1, <3>1, <3>2, <3>3, <3>4, <3>5
  <2>2. made' = made
    BY <1>1
  <2> QED BY <2>1, <2>2 DEF Spare
<1>5. Distinct'
  <2> SUFFICES ASSUME NEW k \in Goroutines, NEW i \in DOMAIN Stack(k)', NEW j \in DOMAIN Stack(k)',
                      Stack(k)'[i] = Stack(k)'[j]
               PROVE  i = j
    BY DEF Distinct
  <2>1. CASE k = g
    <3>1. i \in 1..Len(frames[g]) /\ j \in 1..Len(frames[g]) /\ frames[g][i] = frames[g][j]
      BY <1>2, <1>3, <2>1
    <3>2. i \in DOMAIN Stack(g) /\ j \in DOMAIN Stack(g) /\ Stack(g)[i] = Stack(g)[j]
      BY <1>2, <3>1
    <3> QED BY <3>2 DEF SInv, Owned, Distinct
  <2>2. CASE k = m
    BY <1>3, <2>2
  <2>3. CASE k \notin {g, m}
    BY <1>3, <2>3 DEF SInv, Owned, Distinct
  <2> QED BY <2>1, <2>2, <2>3
<1>6. Disjoint'
  <2> SUFFICES ASSUME NEW k \in Goroutines, NEW l \in Goroutines, k # l,
                      NEW i \in DOMAIN Stack(k)', NEW j \in DOMAIN Stack(l)',
                      Stack(k)'[i] = Stack(l)'[j]
               PROVE  FALSE
    BY DEF Disjoint
  <2>1. \A n \in Goroutines \ {m} : \A x \in DOMAIN Stack(n)' :
           x \in DOMAIN Stack(n) /\ Stack(n)'[x] = Stack(n)[x] /\ Stack(n)[x] # c
    <3>1. \A x \in 1..Len(frames[g]) : x \in 1..Len(frames[g]) + 1
      BY <1>2
    <3> QED BY <1>2, <1>3, <3>1
  <2>2. \A x \in DOMAIN Stack(m)' : Stack(m)'[x] = c
    BY <1>3
  <2>3. CASE k # m /\ l # m
    BY <2>1, <2>3 DEF SInv, Owned, Disjoint
  <2>4. CASE k = m
    BY <2>1, <2>2, <2>4
  <2>5. CASE l = m
    BY <2>1, <2>2, <2>5
  <2> QED BY <2>3, <2>4, <2>5
<1>7. Count' /\ Listed'
  <2>1. \A d \in Spare : link'[d] = link[d]
    BY <1>1, <1>2 DEF Spare
  <2>2. \A d : Foremost(d)' <=> Foremost(d)
    BY <1>4, <2>1 DEF Foremost
  <2> QED BY <1>1, <1>4, <2>1, <2>2 DEF SInv, Count, Listed, HeadSpare, ChainSpare, OneBefore
<1>8. Bottom'
  <2> SUFFICES ASSUME NEW k \in Goroutines, 1 \in DOMAIN frames'[k]
               PROVE  link'[frames'[k][1]] = nil
    BY DEF Bottom
  <2>1. CASE k = m
    BY <1>1, <1>2, <2>1
  <2>2. CASE k # m
    <3>1. link[frames[k][1]] = nil /\ frames'[k] = frames[k] /\ frames[k][1] \in made
      BY <1>1, <2>2, StackTypes DEF SInv, Bottom
    <3> QED BY <1>1, <3>1, StackTypes DEF SInv
  <2> QED BY <2>1, <2>2
<1>9. Linking'
  <2> SUFFICES ASSUME NEW k \in Goroutines, pc'[k] = "putcas" PROVE link'[Top(k)'] = h[k]
    BY <1>1 DEF Linking, Top
  <2>1. k # g /\ k # m /\ pc[k] = "putcas" /\ Top(k)' = Top(k)
    BY <1>1 DEF Top
  <2>2. Top(k) # c /\ link[Top(k)] = h[k] /\ Top(k) \in Ctx
    BY <1>2, <2>1, TopOwned, StackTypes DEF SInv, Linking
  <2> QED BY <1>1, <2>1, <2>2
<1>10. Tied'
  <2>1. \A k \in Goroutines : k = g \/ k = m
    BY <1>1 DEF Alone, Goroutines
  <2> QED BY <1>1, <2>1 DEF Tied
<1> QED BY <1>5, <1>6, <1>7, <1>8, <1>9, <1>10 DEF Owned

----------------------------------------------------------------------------
(* Steps that take a context or give one back.                             *)

\* With one merged function there are two goroutines.
LEMMA OtherOne ==
    ASSUME Alone, NEW g \in Goroutines, NEW k \in Goroutines \ {g},
           NEW j \in Goroutines \ {k}
    PROVE  j = g
BY DEF Alone, Goroutines

\* The goroutine g takes a context c that nobody has.
LEMMA TakeOwned ==
    ASSUME SInv, NEW g \in Goroutines, NEW c,
           \A k \in Goroutines : \A i \in DOMAIN Stack(k) : Stack(k)[i] # c,
           Stack(g)' = Append(Stack(g), c),
           \A k \in Goroutines \ {g} : Stack(k)' = Stack(k)
    PROVE  /\ Owned'
           /\ Len(Stack(g))' = Len(Stack(g)) + 1 /\ Stack(g)'[Len(Stack(g)) + 1] = c
           /\ \A i \in DOMAIN Stack(g) : i \in DOMAIN Stack(g)' /\ Stack(g)'[i] = Stack(g)[i]
           /\ DOMAIN Stack(g)' = DOMAIN Stack(g) \cup {Len(Stack(g)) + 1}
           /\ Len(Stack(g)) + 1 \notin DOMAIN Stack(g)
<1> DEFINE n == Len(Stack(g))
<1>1. Stack(g) \in Seq(made) /\ n \in Nat /\ DOMAIN Stack(g) = 1..n
  BY StackTypes DEF SInv
<1>2. /\ Len(Stack(g)') = n + 1 /\ DOMAIN Stack(g)' = 1..n + 1
      /\ \A i \in 1..n : Stack(g)'[i] = Stack(g)[i]
      /\ Stack(g)'[n + 1] = c
  BY <1>1, AppendIs
<1>3. /\ \A i \in 1..n + 1 : i \in 1..n \/ i = n + 1
      /\ n + 1 \notin 1..n /\ 1..n + 1 = 1..n \cup {n + 1}
  BY <1>1
<1>4. Distinct'
  <2> SUFFICES ASSUME NEW k \in Goroutines, NEW i \in DOMAIN Stack(k)', NEW j \in DOMAIN Stack(k)',
                      Stack(k)'[i] = Stack(k)'[j]
               PROVE  i = j
    BY DEF Distinct
  <2>1. CASE k = g
    BY <1>1, <1>2, <1>3, <2>1 DEF SInv, Owned, Distinct
  <2>2. CASE k # g
    BY <2>2 DEF SInv, Owned, Distinct
  <2> QED BY <2>1, <2>2
<1>5. Disjoint'
  <2> SUFFICES ASSUME NEW k \in Goroutines, NEW l \in Goroutines, k # l,
                      NEW i \in DOMAIN Stack(k)', NEW j \in DOMAIN Stack(l)',
                      Stack(k)'[i] = Stack(l)'[j]
               PROVE  FALSE
    BY DEF Disjoint
  <2>1. CASE k = g
    BY <1>1, <1>2, <1>3, <2>1 DEF SInv, Owned, Disjoint
  <2>2. CASE l = g
    BY <1>1, <1>2, <1>3, <2>2 DEF SInv, Owned, Disjoint
  <2>3. CASE k # g /\ l # g
    BY <2>3 DEF SInv, Owned, Disjoint
  <2> QED BY <2>1, <2>2, <2>3
<1> QED BY <1>1, <1>2, <1>3, <1>4, <1>5 DEF Owned

\* A context is spare after the step if it was and has not been taken.
LEMMA TakeSpare ==
    ASSUME SInv, NEW g \in Goroutines, NEW c,
           Stack(g)' = Append(Stack(g), c),
           \A k \in Goroutines \ {g} : Stack(k)' = Stack(k),
           made' \subseteq made \cup {c}, made \subseteq made'
    PROVE  Spare' = Spare \ {c}
<1>1. Stack(g) \in Seq(made) /\ Len(Stack(g)) \in Nat /\ DOMAIN Stack(g) = 1..Len(Stack(g))
  BY StackTypes DEF SInv
<1>2. /\ DOMAIN Stack(g)' = 1..Len(Stack(g)) + 1
      /\ \A i \in 1..Len(Stack(g)) : Stack(g)'[i] = Stack(g)[i]
      /\ Stack(g)'[Len(Stack(g)) + 1] = c
  BY <1>1, AppendIs
<1>3. /\ \A i \in 1..Len(Stack(g)) + 1 : i \in 1..Len(Stack(g)) \/ i = Len(Stack(g)) + 1
      /\ \A i \in 1..Len(Stack(g)) : i \in 1..Len(Stack(g)) + 1
      /\ Len(Stack(g)) + 1 \in 1..Len(Stack(g)) + 1
  BY <1>1
<1>4. ASSUME NEW d
      PROVE  (\A i \in DOMAIN Stack(g)' : Stack(g)'[i] # d)
                <=> d # c /\ \A i \in DOMAIN Stack(g) : Stack(g)[i] # d
  BY <1>1, <1>2, <1>3
<1>5. ASSUME NEW d
      PROVE  (\A k \in Goroutines : \A i \in DOMAIN Stack(k)' : Stack(k)'[i] # d)
                <=> d # c /\ \A k \in Goroutines : \A i \in DOMAIN Stack(k) : Stack(k)[i] # d
  BY <1>4
<1> QED BY <1>5 DEF Spare

\* Popping the head.
LEMMA PopStep ==
    ASSUME Alone, SInv, NEW g \in Goroutines, Pop(g), ctxHead = h[g]
    PROVE  (Count /\ Owned /\ Listed /\ Bottom /\ Linking /\ Tied)'
<1>0. PICK a \in made, b \in made \cup {nil} : a = h[g] /\ b = next[g]
  BY DEF Pop, SInv, IInv, TypeOK, HasContext
<1>1. /\ UNCHANGED <<link, made, frames, h, next>>
      /\ ctxHead = a /\ ctxHead' = b
      /\ pc[g] = "cas" /\ pc'[g] = "reset"
      /\ \A k \in Goroutines \ {g} : pc'[k] = pc[k]
  BY <1>0 DEF Pop, Goto, SInv, IInv, TypeOK
<1>2. Stack(g)' = Append(Stack(g), a)
  BY <1>0, <1>1 DEF Stack
<1>3. \A k \in Goroutines \ {g} : Stack(k)' = Stack(k)
  BY <1>1 DEF Stack
<1>4. a # nil /\ a \in Spare /\ Foremost(a) /\ link[a] # a
  BY <1>1, StackTypes DEF SInv, Listed, HeadSpare, Foremost
<1>5. \A k \in Goroutines : \A i \in DOMAIN Stack(k) : Stack(k)[i] # a
  BY <1>4 DEF Spare
<1>6. Owned' /\ Spare' = Spare \ {a}
  BY <1>1, <1>2, <1>3, <1>5, TakeOwned, TakeSpare
<1>7. b = nil \/ (b \in Spare /\ b # a /\ \A d \in Spare \ {a} : link[d] # b)
  <2>1. OnList(g)
    BY <1>0, <1>1, <1>5 DEF SInv, Tied, Taken
  <2>2. b = nil \/ b = link[a] \/ Lost(b, g)
    BY <1>0, <1>1, <2>1 DEF OnList, Follows
  <2>3. CASE b = link[a]
    BY <1>4, <2>3 DEF SInv, Listed, ChainSpare, OneBefore
  <2>4. CASE Lost(b, g)
    BY <1>1, <2>4 DEF Lost, Foremost
  <2> QED BY <2>2, <2>3, <2>4
<1>8. Listed'
  <2>1. HeadSpare'
    BY <1>1, <1>6, <1>7 DEF HeadSpare, Foremost
  <2>2. ChainSpare'
    BY <1>1, <1>4, <1>6 DEF ChainSpare, SInv, Listed, Foremost
  <2>3. OneBefore'
    BY <1>1, <1>6 DEF OneBefore, SInv, Listed
  <2> QED BY <2>1, <2>2, <2>3 DEF Listed
<1>9. Count' /\ Bottom' /\ Linking'
  BY <1>1 DEF SInv, Count, Bottom, Linking, Top
<1>10. ASSUME NEW k \in Goroutines, pc'[k] \in {"peek", "cas"}
       PROVE  \/ OnList(k)'
              \/ \E j \in Goroutines \ {k} : \E i \in DOMAIN Stack(j)' : i # 1 /\ Taken(k, j, i)'
  <2>1. k # g /\ pc'[k] = pc[k] /\ h'[k] = h[k] /\ Follows(k)' = Follows(k)
    BY <1>1, <1>10 DEF Follows
  <2>2. PICK f : f = Follows(k)
    OBVIOUS
  <2>3. ASSUME Lost(f, k) PROVE Lost(f, k)'
    <3>1. f \in Spare /\ f # a /\ Foremost(f) /\ next[g] # f
      BY <1>0, <1>1, <2>1, <2>3 DEF Lost
    <3>2. f \in Spare' /\ f # ctxHead' /\ Foremost(f)'
      BY <1>0, <1>1, <1>6, <3>1 DEF Foremost
    <3>3. \A j \in Goroutines \ {k} : pc'[j] # "cas"
      BY <1>1, <2>1, OtherOne
    <3> QED BY <3>2, <3>3 DEF Lost
  <2>4. CASE OnList(k) /\ h[k] # a
    <3>1. h'[k] \in Spare' /\ (f = nil \/ f = link'[h'[k]] \/ Lost(f, k)')
      BY <1>1, <1>6, <2>1, <2>2, <2>3, <2>4 DEF OnList
    <3> QED BY <2>1, <2>2, <3>1 DEF OnList
  <2>5. CASE OnList(k) /\ h[k] = a
    <3>0. PICK n : n = Len(Stack(g)) + 1
      OBVIOUS
    <3>1. n \in DOMAIN Stack(g)' /\ Stack(g)'[n] = a /\ n = Len(Stack(g)') /\ n # 1
      <4>1. Len(Stack(g)) >= 1 /\ Len(Stack(g)) \in Nat
        BY <1>1, StackTypes DEF SInv, Stack
      <4>2. Len(Stack(g)) + 1 # 1
        BY <4>1
      <4> QED BY <1>2, <1>3, <1>5, <3>0, <4>2, TakeOwned
    <3>2. f = nil \/ f = b \/ Lost(f, k)'
      <4>1. f = nil \/ f = link[a] \/ Lost(f, k)
        BY <2>2, <2>5 DEF OnList
      <4>2. ASSUME f = link[a], f # nil, f # b PROVE Lost(f, k)'
        <5>1. f \in Spare' /\ f # ctxHead' /\ Foremost(f)'
          BY <1>1, <1>4, <1>6, <4>2 DEF SInv, Listed, ChainSpare, OneBefore, Foremost
        <5>2. \A j \in Goroutines \ {k} : pc'[j] # "cas"
          BY <1>1, <2>1, OtherOne
        <5> QED BY <5>1, <5>2 DEF Lost
      <4> QED BY <2>3, <4>1, <4>2
    <3>3. Taken(k, g, n)'
      BY <1>1, <2>1, <2>2, <2>5, <3>1, <3>2 DEF Taken
    <3> QED BY <2>1, <3>1, <3>3
  <2>6. CASE ~ OnList(k)
    <3>1. PICK i \in DOMAIN Stack(g) : i # 1 /\ Taken(k, g, i)
      BY <1>10, <2>1, <2>6, OtherOne DEF SInv, Tied
    <3>2. /\ i \in DOMAIN Stack(g)' /\ Stack(g)'[i] = h'[k]
          /\ Stack(g)'[Len(Stack(g)) + 1] = a
          /\ \A x \in DOMAIN Stack(g) : x \in DOMAIN Stack(g)' /\ Stack(g)'[x] = Stack(g)[x]
          /\ Len(Stack(g)) + 1 \in DOMAIN Stack(g)'
      BY <1>2, <1>3, <1>5, <2>1, <3>1, TakeOwned DEF Taken
    <3>3. \/ f = nil
          \/ Lost(f, k)'
          \/ i + 1 \in DOMAIN Stack(g)' /\ Stack(g)'[i + 1] = f
      BY <1>1, <2>2, <2>3, <3>1, <3>2 DEF Taken
    <3>4. Taken(k, g, i)'
      BY <1>1, <2>1, <2>2, <3>2, <3>3 DEF Taken
    <3> QED BY <2>1, <3>1, <3>2, <3>4
  <2> QED BY <2>4, <2>5, <2>6
<1>11. Tied'
  BY <1>10 DEF Tied
<1> QED BY <1>6, <1>8, <1>9, <1>11

\* Allocating a context.
LEMMA FreshStep ==
    ASSUME Alone, SInv, NEW g \in Goroutines, Fresh(g)
    PROVE  (Count /\ Owned /\ Listed /\ Bottom /\ Linking /\ Tied)'
<1>0. PICK c : c = Cardinality(made) + 1
  OBVIOUS
<1>1. /\ UNCHANGED <<ctxHead, link, frames, next>> /\ made' = made \cup {c} /\ h'[g] = c
      /\ pc[g] = "fresh" /\ pc'[g] = "reset"
      /\ \A k \in Goroutines \ {g} : pc'[k] = pc[k] /\ h'[k] = h[k]
  BY <1>0 DEF Fresh, Goto, SInv, IInv, TypeOK
<1>2. c \notin made /\ Count'
  <2>1. PICK n \in 1..MaxCtx : made = 1..n
    BY DEF SInv, Count
  <2>2. Cardinality(made) = n
    BY <2>1, FS_Interval
  <2>3. n < MaxCtx
    BY <2>2 DEF Fresh
  <2>4. c = n + 1 /\ n + 1 \in 1..MaxCtx /\ n \in Nat
    BY <1>0, <2>1, <2>2, <2>3, BoundsAssumption
  <2>5. made' = 1..n + 1 /\ n + 1 \notin 1..n
    BY <1>1, <2>1, <2>4
  <2> QED BY <2>1, <2>4, <2>5 DEF Count
<1>3. \A k \in Goroutines : \A i \in DOMAIN Stack(k) : Stack(k)[i] # c
  BY <1>2, StackTypes, ElementOfSeq DEF SInv
<1>4. Stack(g)' = Append(Stack(g), c)
  BY <1>1 DEF Stack
<1>5. \A k \in Goroutines \ {g} : Stack(k)' = Stack(k)
  BY <1>1 DEF Stack
<1>6. Owned'
  BY <1>3, <1>4, <1>5, TakeOwned
<1>7. Spare' = Spare
  <2>1. Spare' = Spare \ {c}
    BY <1>1, <1>4, <1>5, TakeSpare
  <2> QED BY <1>2, <2>1 DEF Spare
<1>8. Listed'
  BY <1>1, <1>7 DEF SInv, Listed, HeadSpare, ChainSpare, OneBefore, Foremost
<1>9. Bottom' /\ Linking'
  BY <1>1 DEF SInv, Bottom, Linking, Top
<1>10. ASSUME NEW k \in Goroutines, pc'[k] \in {"peek", "cas"}
       PROVE  \/ OnList(k)'
              \/ \E j \in Goroutines \ {k} : \E i \in DOMAIN Stack(j)' : i # 1 /\ Taken(k, j, i)'
  <2>1. k # g /\ pc'[k] = pc[k] /\ h'[k] = h[k] /\ Follows(k)' = Follows(k)
    BY <1>1, <1>10 DEF Follows
  <2>2. PICK f : f = Follows(k)
    OBVIOUS
  <2>3. ASSUME Lost(f, k) PROVE Lost(f, k)'
    BY <1>1, <1>7, <2>1, <2>3, OtherOne DEF Lost, Foremost
  <2>4. CASE OnList(k)
    BY <1>1, <1>7, <2>1, <2>2, <2>3, <2>4 DEF OnList
  <2>5. CASE ~ OnList(k)
    <3>1. PICK i \in DOMAIN Stack(g) : i # 1 /\ Taken(k, g, i)
      BY <1>10, <2>1, <2>5, OtherOne DEF SInv, Tied
    <3>2. /\ i \in DOMAIN Stack(g)' /\ Stack(g)'[i] = h'[k]
          /\ \A x \in DOMAIN Stack(g) : x \in DOMAIN Stack(g)' /\ Stack(g)'[x] = Stack(g)[x]
      BY <1>3, <1>4, <1>5, <2>1, <3>1, TakeOwned DEF Taken
    <3>3. \/ f = nil
          \/ Lost(f, k)'
          \/ i + 1 \in DOMAIN Stack(g)' /\ Stack(g)'[i + 1] = f
      BY <1>1, <2>2, <2>3, <3>1, <3>2 DEF Taken
    <3>4. Taken(k, g, i)'
      BY <1>1, <2>1, <2>2, <3>2, <3>3 DEF Taken
    <3> QED BY <2>1, <3>1, <3>2, <3>4
  <2> QED BY <2>4, <2>5
<1>11. Tied'
  BY <1>10 DEF Tied
<1> QED BY <1>2, <1>6, <1>8, <1>9, <1>11

\* The goroutine g gives back its last context c, of n.
LEMMA GiveOwned ==
    ASSUME SInv, NEW g \in Goroutines, NEW c, NEW n \in Nat,
           Len(Stack(g)) = n + 1, Stack(g)[n + 1] = c, c \in made,
           Len(Stack(g)') = n, DOMAIN Stack(g)' = 1..n,
           \A i \in 1..n : Stack(g)'[i] = Stack(g)[i],
           \A k \in Goroutines \ {g} : Stack(k)' = Stack(k),
           made' = made
    PROVE  Owned' /\ Spare' = Spare \cup {c} /\ c \notin Spare
<1>1. /\ DOMAIN Stack(g) = 1..n + 1
      /\ \A i \in 1..n + 1 : i \in 1..n \/ i = n + 1
      /\ n + 1 \notin 1..n /\ 1..n + 1 = 1..n \cup {n + 1}
  BY StackTypes DEF SInv
<1>2. c \notin Spare
  BY <1>1 DEF Spare
<1>3. /\ \A i \in 1..n : Stack(g)[i] # c
      /\ \A k \in Goroutines \ {g} : \A i \in DOMAIN Stack(k) : Stack(k)[i] # c
  BY <1>1 DEF SInv, Owned, Distinct, Disjoint
<1>4. ASSUME NEW d
      PROVE  (\A i \in DOMAIN Stack(g) : Stack(g)[i] # d)
                <=> d # c /\ \A i \in DOMAIN Stack(g)' : Stack(g)'[i] # d
  BY <1>1
<1>5. Spare' = Spare \cup {c}
  <2>1. ASSUME NEW d
        PROVE  (\A k \in Goroutines : \A i \in DOMAIN Stack(k)' : Stack(k)'[i] # d)
                  <=> d = c \/ \A k \in Goroutines : \A i \in DOMAIN Stack(k) : Stack(k)[i] # d
    <3>1. CASE d = c
      <4>1. \A i \in DOMAIN Stack(g)' : Stack(g)'[i] # c
        BY <1>3
      <4> QED BY <1>3, <3>1, <4>1
    <3>2. CASE d # c
      BY <1>4, <3>2
    <3> QED BY <3>1, <3>2
  <2> QED BY <2>1 DEF Spare
<1>6. Distinct'
  <2> SUFFICES ASSUME NEW k \in Goroutines, NEW i \in DOMAIN Stack(k)', NEW j \in DOMAIN Stack(k)',
                      Stack(k)'[i] = Stack(k)'[j]
               PROVE  i = j
    BY DEF Distinct
  <2>1. CASE k = g
    BY <1>1, <2>1 DEF SInv, Owned, Distinct
  <2>2. CASE k # g
    BY <2>2 DEF SInv, Owned, Distinct
  <2> QED BY <2>1, <2>2
<1>7. Disjoint'
  <2> SUFFICES ASSUME NEW k \in Goroutines, NEW l \in Goroutines, k # l,
                      NEW i \in DOMAIN Stack(k)', NEW j \in DOMAIN Stack(l)',
                      Stack(k)'[i] = Stack(l)'[j]
               PROVE  FALSE
    BY DEF Disjoint
  <2>1. CASE k = g
    BY <1>1, <2>1 DEF SInv, Owned, Disjoint
  <2>2. CASE l = g
    BY <1>1, <2>2 DEF SInv, Owned, Disjoint
  <2>3. CASE k # g /\ l # g
    BY <2>3 DEF SInv, Owned, Disjoint
  <2> QED BY <2>1, <2>2, <2>3
<1> QED BY <1>2, <1>5, <1>6, <1>7 DEF Owned

\* Pushing a context.
LEMMA PushStep ==
    ASSUME Alone, SInv, NEW g \in Goroutines, Push(g), ctxHead = h[g]
    PROVE  (Count /\ Owned /\ Listed /\ Bottom /\ Linking /\ Tied)'
<1>0. PICK c \in made, n \in Nat : c = Top(g) /\ n + 1 = Len(frames[g]) /\ n # 0
  <2>1. Top(g) \in made
    BY TopOwned DEF Push
  <2>2. Len(frames[g]) \in Nat /\ Len(frames[g]) > 1
    BY StackTypes DEF Push, SInv, IInv, PutsCallee
  <2>3. \A x \in Nat : x > 1 => x - 1 \in Nat /\ x - 1 + 1 = x /\ x - 1 # 0
    OBVIOUS
  <2> QED BY <2>1, <2>2, <2>3
<1>1. /\ UNCHANGED <<link, made, h, next>>
      /\ ctxHead' = c /\ link[c] = ctxHead /\ c # nil
      /\ pc[g] = "putcas" /\ pc'[g] = "code"
      /\ \A k \in Goroutines \ {g} : pc'[k] = pc[k] /\ frames'[k] = frames[k]
      /\ frames'[g] = SubSeq(frames[g], 1, Len(frames[g]) - 1)
  BY <1>0, StackTypes DEF Push, Goto, SInv, IInv, TypeOK, Linking
<1>2. /\ Len(frames'[g]) = n /\ DOMAIN frames'[g] = 1..n
      /\ \A i \in 1..n : frames'[g][i] = frames[g][i]
  <2>1. frames[g] \in Seq(made) /\ Len(frames[g]) > 1 /\ Len(frames[g]) - 1 = n
    BY <1>0, StackTypes DEF SInv
  <2> QED BY <1>1, <2>1, FrontIs
<1>3. Stack(g) = frames[g] /\ Stack(g)' = frames'[g]
  BY <1>1 DEF Stack
<1>4. \A k \in Goroutines \ {g} : Stack(k)' = Stack(k)
  BY <1>1 DEF Stack
<1>5. Stack(g)[n + 1] = c
  BY <1>0, <1>3 DEF Top
<1>6. Owned' /\ Spare' = Spare \cup {c} /\ c \notin Spare
  <2>1. /\ Len(Stack(g)) = n + 1 /\ Len(Stack(g)') = n /\ DOMAIN Stack(g)' = 1..n
        /\ \A i \in 1..n : Stack(g)'[i] = Stack(g)[i]
    BY <1>0, <1>2, <1>3
  <2>2. c \in made /\ made' = made
    BY <1>1
  <2> QED BY <1>4, <1>5, <2>1, <2>2, GiveOwned
<1>7. ctxHead \in Spare \cup {nil} /\ c # ctxHead
  BY <1>1, <1>6 DEF SInv, Listed, HeadSpare
<1>8. Listed'
  <2>1. HeadSpare'
    BY <1>1, <1>6, <1>7 DEF HeadSpare, Foremost, SInv, Listed, ChainSpare
  <2>2. ChainSpare'
    BY <1>1, <1>6, <1>7 DEF ChainSpare, SInv, Listed
  <2>3. OneBefore'
    BY <1>1, <1>6, <1>7 DEF OneBefore, SInv, Listed, HeadSpare, Foremost
  <2> QED BY <2>1, <2>2, <2>3 DEF Listed
<1>9. Count' /\ Linking'
  BY <1>1 DEF SInv, Count, Linking, Top
<1>10. Bottom'
  <2> SUFFICES ASSUME NEW k \in Goroutines, 1 \in DOMAIN frames'[k]
               PROVE  link[frames'[k][1]] = nil
    BY <1>1 DEF Bottom
  <2>1. 1 \in DOMAIN frames[k] /\ frames'[k][1] = frames[k][1]
    <3>1. CASE k = g
      <4>1. \A i \in 1..n : i \in 1..n + 1
        OBVIOUS
      <4>2. DOMAIN frames[g] = 1..n + 1
        BY <1>0, StackTypes DEF SInv
      <4> QED BY <1>2, <3>1, <4>1, <4>2
    <3>2. CASE k # g
      BY <1>1, <3>2
    <3> QED BY <3>1, <3>2
  <2> QED BY <2>1 DEF SInv, Bottom
<1>11. ASSUME NEW k \in Goroutines, pc'[k] \in {"peek", "cas"}
       PROVE  \/ OnList(k)'
              \/ \E j \in Goroutines \ {k} : \E i \in DOMAIN Stack(j)' : i # 1 /\ Taken(k, j, i)'
  <2>1. k # g /\ pc'[k] = pc[k] /\ h'[k] = h[k] /\ Follows(k)' = Follows(k)
    BY <1>1, <1>11 DEF Follows
  <2>2. PICK f : f = Follows(k)
    OBVIOUS
  <2>3. ASSUME Lost(f, k) PROVE Lost(f, k)'
    <3>1. f \in Spare' /\ f # ctxHead' /\ Foremost(f)'
      BY <1>1, <1>6, <2>3 DEF Lost, Foremost
    <3>2. \A j \in Goroutines \ {k} : pc'[j] # "cas"
      BY <1>1, <2>1, OtherOne
    <3> QED BY <3>1, <3>2 DEF Lost
  <2>4. CASE OnList(k)
    BY <1>1, <1>6, <2>1, <2>2, <2>3, <2>4 DEF OnList
  <2>5. CASE ~ OnList(k)
    <3>1. PICK i \in DOMAIN Stack(g) : i # 1 /\ Taken(k, g, i)
      BY <1>11, <2>1, <2>5, OtherOne DEF SInv, Tied
    <3>2. /\ Stack(g)[i] = h[k] /\ i \in 1..n + 1
          /\ \/ f = nil \/ Lost(f, k) \/ (f = ctxHead /\ i = n + 1)
             \/ i + 1 \in 1..n + 1 /\ Stack(g)[i + 1] = f
      BY <1>0, <1>3, <2>2, <3>1, StackTypes DEF Taken, SInv
    <3>3. CASE i = n + 1
      <4>1. h'[k] \in Spare' /\ link'[h'[k]] = ctxHead
        BY <1>1, <1>5, <1>6, <2>1, <3>2, <3>3
      <4>2. i + 1 \notin 1..n + 1
        BY <3>3
      <4> QED BY <2>1, <2>2, <2>3, <3>2, <4>1, <4>2 DEF OnList
    <3>4. CASE i \in 1..n
      <4>1. i \in DOMAIN Stack(g)' /\ Stack(g)'[i] = h'[k]
        BY <1>2, <1>3, <2>1, <3>2, <3>4
      <4>2. i # n + 1 /\ (i + 1 = n + 1 => i = n)
            /\ (i + 1 \in 1..n + 1 => i + 1 \in 1..n \/ i + 1 = n + 1)
        BY <3>4
      <4>3. \/ f = nil
            \/ Lost(f, k)'
            \/ f = ctxHead' /\ i = Len(Stack(g)')
            \/ i + 1 \in DOMAIN Stack(g)' /\ Stack(g)'[i + 1] = f
        BY <1>1, <1>2, <1>3, <1>5, <2>3, <3>2, <4>2
      <4>4. Taken(k, g, i)'
        BY <1>1, <2>1, <2>2, <4>1, <4>3 DEF Taken
      <4> QED BY <2>1, <3>1, <4>1, <4>4
    <3>5. i = n + 1 \/ i \in 1..n
      BY <3>2
    <3> QED BY <3>3, <3>4, <3>5
  <2> QED BY <2>4, <2>5
<1>12. Tied'
  BY <1>11 DEF Tied
<1> QED BY <1>6, <1>8, <1>9, <1>10, <1>12

\* The end of a merged function: its context is dropped.
LEMMA ExitStep ==
    ASSUME Alone, SInv, NEW g \in Goroutines, Exit(g)
    PROVE  (Count /\ Owned /\ Listed /\ Bottom /\ Linking /\ Tied)'
<1>0. PICK c \in made : c = Top(g)
  BY TopOwned DEF Exit
<1>1. /\ UNCHANGED <<ctxHead, link, made, h, next>>
      /\ pc[g] = "code" /\ pc'[g] = "exited"
      /\ \A k \in Goroutines \ {g} : pc'[k] = pc[k] /\ frames'[k] = frames[k]
      /\ frames'[g] = <<>> /\ Len(frames[g]) = 1
  BY DEF Exit, Goto, SInv, IInv, TypeOK
<1>2. Stack(g) = frames[g] /\ Stack(g)' = <<>>
  BY <1>1 DEF Stack
<1>3. \A k \in Goroutines \ {g} : Stack(k)' = Stack(k)
  BY <1>1 DEF Stack
<1>4. c = frames[g][1] /\ DOMAIN Stack(g) = 1..1 /\ link[c] = nil
  <2>1. DOMAIN frames[g] = 1..1
    BY <1>1, StackTypes DEF SInv
  <2>2. c = frames[g][1] /\ 1 \in DOMAIN frames[g]
    BY <1>0, <1>1, <2>1 DEF Top
  <2> QED BY <1>2, <2>1, <2>2 DEF SInv, Bottom
<1>5. Owned' /\ Spare' = Spare \cup {c} /\ c \notin Spare
  <2>1. /\ Len(Stack(g)) = 0 + 1 /\ Stack(g)[0 + 1] = c /\ 0 \in Nat
        /\ Len(Stack(g)') = 0 /\ DOMAIN Stack(g)' = 1..0
        /\ \A i \in 1..0 : Stack(g)'[i] = Stack(g)[i]
    BY <1>1, <1>2, <1>4
  <2>2. c \in made /\ made' = made
    BY <1>1
  <2> QED BY <1>3, <2>1, <2>2, GiveOwned
<1>6. Listed'
  <2>1. ctxHead # c
    BY <1>5, StackTypes DEF SInv, Listed, HeadSpare
  <2>2. HeadSpare' /\ ChainSpare' /\ OneBefore'
    BY <1>1, <1>4, <1>5, <2>1
       DEF SInv, Listed, HeadSpare, ChainSpare, OneBefore, Foremost
  <2> QED BY <2>2 DEF Listed
<1>7. Count' /\ Linking' /\ Bottom'
  BY <1>1 DEF SInv, Count, Linking, Bottom, Top
<1>8. ASSUME NEW k \in Goroutines, pc'[k] \in {"peek", "cas"}
      PROVE  OnList(k)'
  <2>1. k # g /\ pc[k] \in {"peek", "cas"} /\ h'[k] = h[k] /\ Follows(k)' = Follows(k)
    BY <1>1, <1>8 DEF Follows
  <2>2. \A j \in Goroutines \ {k} : \A i \in DOMAIN Stack(j) : i = 1
    BY <1>4, <2>1, OtherOne
  <2>3. OnList(k)
    BY <2>1, <2>2 DEF SInv, Tied
  <2>4. ASSUME NEW f, f # nil, Lost(f, k) PROVE Lost(f, k)'
    <3>1. \A j \in Goroutines \ {k} : pc'[j] # "cas"
      BY <1>1, <2>1, OtherOne
    <3> QED BY <1>1, <1>4, <1>5, <2>4, <3>1 DEF Lost, Foremost
  <2> QED BY <1>1, <1>5, <2>1, <2>3, <2>4 DEF OnList, nil
<1>9. Tied'
  BY <1>8 DEF Tied
<1> QED BY <1>5, <1>6, <1>7, <1>9

\* Every step keeps the invariant.
LEMMA StepSInv == ASSUME Alone, SInv, [Next]_vars PROVE SInv'
<1>1. IInv'
  BY StepIInv DEF SInv
<1>2. ASSUME NEW g \in Goroutines,
             \/ Call(g) \/ (\E m \in Merged : Merge(g, m))
             \/ NewCtx(g) \/ Return(g) \/ PutCtx(g) \/ Exit(g)
      PROVE  (Count /\ Owned /\ Listed /\ Bottom /\ Linking /\ Tied)'
  <2>1. CASE \/ Call(g) \/ \E m \in Merged : Merge(g, m)
             \/ Load(g) \/ Return(g) \/ PutLoad(g)
    BY <2>1, ReadingSteps
  <2>2. CASE Pop(g)
    BY <2>2, PopStep, ReadingSteps
  <2>3. CASE Push(g)
    BY <2>3, PushStep, ReadingSteps
  <2>4. CASE Reset(g)
    BY <2>4, ResetCallStep, ResetMergeStep
  <2>5. CASE Peek(g)
    BY <2>5, PeekStep
  <2>6. CASE Fresh(g)
    BY <2>6, FreshStep
  <2>7. CASE PutLink(g)
    BY <2>7, PutLinkStep
  <2>8. CASE Exit(g)
    BY <2>8, ExitStep
  <2> QED BY <1>2, <2>1, <2>2, <2>3, <2>4, <2>5, <2>6, <2>7, <2>8 DEF NewCtx, PutCtx
<1>3. CASE UNCHANGED vars
  <2>1. /\ \A g \in Goroutines : Stack(g)' = Stack(g)
        /\ UNCHANGED <<link, ctxHead, made, frames, pc, h, next>>
    BY <1>3 DEF vars, Stack
  <2>2. Quiet
    BY <2>1 DEF Quiet
  <2>3. Bottom' /\ Linking'
    BY <2>1 DEF SInv, Bottom, Linking, Top
  <2>4. ASSUME NEW g \in Goroutines, pc'[g] \in {"peek", "cas"}
        PROVE  \/ OnList(g)'
               \/ \E k \in Goroutines \ {g} : \E i \in DOMAIN Stack(k)' : i # 1 /\ Taken(g, k, i)'
    <3>1. Follows(g)' = Follows(g)
      BY <2>1 DEF Follows
    <3> QED BY <2>1, <2>2, <2>4, <3>1, QuietTied
  <2>5. Tied'
    BY <2>4 DEF Tied
  <2> QED BY <1>1, <2>2, <2>3, <2>5, QuietList DEF SInv
<1> QED BY <1>1, <1>2, <1>3 DEF Next, SInv

\* The contexts of different calls are different ones.
LEMMA SInvNoSharing == ASSUME SInv PROVE NoSharing
<1>1. ASSUME NEW g \in Goroutines
      PROVE  /\ \A c \in Holds(g) : \E i \in DOMAIN Stack(g) : Stack(g)[i] = c
             /\ \A i \in DOMAIN frames[g] : i \in DOMAIN Stack(g) /\ Stack(g)[i] = frames[g][i]
  <2>1. CASE pc[g] = "reset"
    <3>1. /\ \A i \in 1..Len(frames[g]) : Stack(g)[i] = frames[g][i]
          /\ Stack(g)[Len(frames[g]) + 1] = h[g]
          /\ DOMAIN Stack(g) = 1..Len(frames[g]) + 1 /\ DOMAIN frames[g] = 1..Len(frames[g])
          /\ Len(frames[g]) \in Nat
      BY <2>1, NewOwned, StackTypes DEF SInv
    <3>2. /\ \A i \in 1..Len(frames[g]) : i \in 1..Len(frames[g]) + 1
          /\ Len(frames[g]) + 1 \in 1..Len(frames[g]) + 1
      BY <3>1
    <3> QED BY <2>1, <3>1, <3>2 DEF Holds
  <2>2. CASE pc[g] # "reset"
    BY <2>2 DEF Holds, Stack
  <2> QED BY <2>1, <2>2
<1>2. ASSUME NEW g \in Goroutines, NEW k \in Goroutines, g # k
      PROVE  Holds(g) \cap Holds(k) = {}
  BY <1>1, <1>2 DEF SInv, Owned, Disjoint
<1>3. ASSUME NEW g \in Goroutines
      PROVE  Cardinality({frames[g][i] : i \in DOMAIN frames[g]}) = Len(frames[g])
  <2> DEFINE n == Len(frames[g])
             S == {frames[g][i] : i \in DOMAIN frames[g]}
             f == [i \in 1..n |-> frames[g][i]]
  <2>1. n \in Nat /\ DOMAIN frames[g] = 1..n
    BY StackTypes DEF SInv
  <2>2. \A i, j \in 1..n : frames[g][i] = frames[g][j] => i = j
    BY <1>1, <2>1 DEF SInv, Owned, Distinct
  <2>3. f \in Bijection(1..n, S)
    BY <2>1, <2>2 DEF Bijection, Injection, Surjection, IsInjective
  <2>4. ExistsBijection(1..n, S)
    BY <2>3 DEF ExistsBijection
  <2> QED BY <2>1, <2>4, FS_CountingElements
<1> QED BY <1>2, <1>3 DEF NoSharing

\* Only spare contexts are on the free list.
LEMMA SInvFreeIsIdle == ASSUME SInv PROVE FreeIsIdle
<1>1. Spare \in SUBSET Ctx
  BY StackTypes DEF SInv, Spare
<1>2. ctxHead \in Spare \cup {nil} /\ \A d \in Spare : link[d] \in Spare \cup {nil}
  BY DEF SInv, Listed, HeadSpare, ChainSpare
<1>3. Free \subseteq Spare
  BY <1>1, <1>2 DEF Free
<1>4. ASSUME NEW g \in Goroutines, NEW c \in Holds(g) PROVE c \notin Spare
  <2>1. CASE pc[g] = "reset"
    <3>1. c = h[g] \/ \E i \in 1..Len(frames[g]) : frames[g][i] = c
      BY <1>4, StackTypes DEF Holds, SInv
    <3>2. \A i \in 1..Len(frames[g]) : i \in DOMAIN Stack(g) /\ Stack(g)[i] = frames[g][i]
      <4>1. \A i \in 1..Len(frames[g]) : i \in 1..Len(frames[g]) + 1
        BY StackTypes DEF SInv
      <4> QED BY <2>1, <4>1, NewOwned, StackTypes DEF SInv
    <3> QED BY <2>1, <3>1, <3>2, NewOwned DEF Spare
  <2>2. CASE pc[g] # "reset"
    BY <1>4, <2>2 DEF Holds, Stack, Spare
  <2> QED BY <2>1, <2>2
<1> QED BY <1>3, <1>4 DEF FreeIsIdle

\* The depths stay right, because a context in use is not reset.
LEMMA StepDepth ==
    ASSUME SInv, SInv', DepthCountsCalls, [Next]_vars
    PROVE  DepthCountsCalls'
<1>1. ASSUME NEW g \in Goroutines, Reset(g), callee[g] = g PROVE DepthCountsCalls'
  <2> DEFINE n == Len(frames[g])
             c == h[g]
  <2>1. /\ frames' = [frames EXCEPT ![g] = Append(frames[g], c)]
        /\ depth' = [depth EXCEPT ![c] = depth[Top(g)] + 1] /\ depth \in [Ctx -> Nat]
        /\ pc[g] = "reset" /\ frames \in [Goroutines -> Seq(made)]
    BY <1>1 DEF Reset, CallDepth, SInv, IInv, TypeOK
  <2>2. /\ c \in Ctx /\ n \in Nat /\ n >= 1 /\ frames[g] \in Seq(made) /\ DOMAIN frames[g] = 1..n
        /\ \A i \in 1..n : frames[g][i] # c
        /\ \A k \in Goroutines \ {g} : \A i \in DOMAIN Stack(k) : Stack(k)[i] # c
    BY <2>1, NewOwned, StackTypes DEF SInv
  <2> HIDE DEF n, c
  <2>3. ASSUME NEW i \in 1..n PROVE depth'[frames[g][i]] = depth[frames[g][i]]
    BY <2>1, <2>2, <2>3
  <2>4. Top(g) = frames[g][n] /\ n \in 1..n
    BY <2>2 DEF Top, n
  <2>5. ASSUME NEW i \in DOMAIN frames'[g] \ {1}
        PROVE  depth'[frames'[g][i]] = depth'[frames'[g][i - 1]] + 1
    <3>1. /\ DOMAIN frames'[g] = 1..n + 1 /\ frames'[g][n + 1] = c
          /\ \A j \in 1..n : frames'[g][j] = frames[g][j]
      BY <2>1, <2>2, AppendIs DEF n
    <3>2. i \in 1..n + 1 /\ i # 1
      BY <2>5, <3>1
    <3>3. CASE i = n + 1
      <4>1. i - 1 = n
        BY <2>2, <3>3
      <4>2. depth'[frames'[g][i - 1]] = depth[Top(g)]
        BY <2>3, <2>4, <3>1, <4>1
      <4>3. depth'[frames'[g][i]] = depth[Top(g)] + 1
        BY <2>1, <2>2, <3>1, <3>3
      <4> QED BY <4>2, <4>3
    <3>4. CASE i # n + 1
      <4>1. i \in 1..n /\ i - 1 \in 1..n
        BY <2>2, <3>2, <3>4
      <4>2. depth[frames[g][i]] = depth[frames[g][i - 1]] + 1
        BY <2>2, <3>2, <4>1 DEF DepthCountsCalls
      <4> QED BY <2>3, <3>1, <4>1, <4>2
    <3> QED BY <3>3, <3>4
  <2>6. ASSUME NEW k \in Goroutines \ {g}, NEW i \in DOMAIN frames'[k] \ {1}
        PROVE  depth'[frames'[k][i]] = depth'[frames'[k][i - 1]] + 1
    <3>1. frames'[k] = frames[k] /\ i \in 1..Len(frames[k]) /\ Len(frames[k]) \in Nat /\ i # 1
      BY <2>1, <2>6, StackTypes DEF SInv
    <3>2. i - 1 \in 1..Len(frames[k])
      BY <3>1
    <3>3. \A j \in 1..Len(frames[k]) : j \in DOMAIN Stack(k) /\ Stack(k)[j] = frames[k][j]
      <4>1. \A j \in 1..Len(frames[k]) : j \in 1..Len(frames[k]) + 1
        BY <3>1
      <4>2. CASE pc[k] = "reset"
        BY <4>1, <4>2, NewOwned, StackTypes DEF SInv
      <4>3. CASE pc[k] # "reset"
        BY <4>3, StackTypes DEF SInv, Stack
      <4> QED BY <4>2, <4>3
    <3>4. \A j \in 1..Len(frames[k]) : depth'[frames[k][j]] = depth[frames[k][j]]
      <4>1. \A j \in 1..Len(frames[k]) : frames[k][j] # c /\ frames[k][j] \in Ctx
        BY <2>2, <3>3, StackTypes, ElementOfSeq DEF SInv
      <4> QED BY <2>1, <2>2, <4>1
    <3>5. depth[frames[k][i]] = depth[frames[k][i - 1]] + 1
      BY <3>1, StackTypes DEF DepthCountsCalls, SInv
    <3> QED BY <3>1, <3>2, <3>4, <3>5
  <2> QED BY <2>5, <2>6 DEF DepthCountsCalls
<1>2. ASSUME UNCHANGED depth,
             \A k \in Goroutines : \A i \in DOMAIN frames'[k] :
                i = 1 \/ /\ i \in DOMAIN frames[k] /\ frames'[k][i] = frames[k][i]
                         /\ frames'[k][i - 1] = frames[k][i - 1]
      PROVE  DepthCountsCalls'
  BY <1>2 DEF DepthCountsCalls
<1>3. ASSUME NEW g \in Goroutines, Push(g), ctxHead = h[g] PROVE DepthCountsCalls'
  <2>1. /\ frames' = [frames EXCEPT ![g] = SubSeq(frames[g], 1, Len(frames[g]) - 1)]
        /\ UNCHANGED depth /\ frames \in [Goroutines -> Seq(made)]
    BY <1>3 DEF Push, SInv, IInv, TypeOK
  <2>2. frames[g] \in Seq(made) /\ Len(frames[g]) > 1 /\ Len(frames[g]) \in Nat
        /\ DOMAIN frames[g] = 1..Len(frames[g])
    BY <1>3, StackTypes DEF Push, SInv, IInv, PutsCallee
  <2>3. /\ DOMAIN frames'[g] = 1..Len(frames[g]) - 1
        /\ \A i \in 1..Len(frames[g]) - 1 : frames'[g][i] = frames[g][i]
    BY <2>1, <2>2, FrontIs
  <2>4. \A n \in Nat : \A i \in 1..n - 1 : i \in 1..n /\ (i = 1 \/ i - 1 \in 1..n - 1)
    OBVIOUS
  <2> QED BY <1>2, <2>1, <2>2, <2>3, <2>4
<1>4. ASSUME NEW g \in Goroutines, Reset(g), callee[g] # g PROVE DepthCountsCalls'
  <2>1. frames' = [frames EXCEPT ![callee[g]] = <<h[g]>>] /\ UNCHANGED depth
        /\ frames \in [Goroutines -> Seq(made)]
    BY <1>4 DEF Reset, SInv, IInv, TypeOK
  <2> QED BY <1>2, <2>1
<1>5. ASSUME NEW g \in Goroutines, Exit(g) PROVE DepthCountsCalls'
  <2>1. frames' = [frames EXCEPT ![g] = <<>>] /\ UNCHANGED depth
        /\ frames \in [Goroutines -> Seq(made)]
    BY <1>5 DEF Exit, SInv, IInv, TypeOK
  <2> QED BY <1>2, <2>1
<1>6. ASSUME UNCHANGED <<depth, frames>> PROVE DepthCountsCalls'
  BY <1>6 DEF DepthCountsCalls
<1>7. ASSUME NEW g \in Goroutines,
             \/ Call(g) \/ (\E m \in Merged : Merge(g, m)) \/ Load(g) \/ Peek(g) \/ Pop(g)
             \/ Fresh(g) \/ Return(g) \/ PutLoad(g) \/ PutLink(g)
             \/ Push(g) /\ ctxHead # h[g]
      PROVE  UNCHANGED <<depth, frames>>
  BY <1>7 DEF Call, Merge, Load, Peek, Pop, Fresh, Return, PutLoad, PutLink, Push
<1> QED BY <1>1, <1>3, <1>4, <1>5, <1>6, <1>7 DEF Next, NewCtx, PutCtx, vars

\* A context serves one call of one goroutine at a time (newCtx, putCtx), if
\* only one function is merged.  With two, the run CtxPool_share refutes it.
THEOREM CallsShareNoContext == ASSUME Alone PROVE Spec => []NoSharing
<1>1. Init => SInv
  BY InitSInv
<1>2. SInv /\ [Next]_vars => SInv'
  BY StepSInv
<1>3. SInv => NoSharing
  BY SInvNoSharing
<1> QED BY <1>1, <1>2, <1>3, PTL DEF Spec

\* A context on the free list is executed by no call (putCtx), so newCtx never
\* resets one under its user, if only one function is merged.
THEOREM FreeContextsAreIdle == ASSUME Alone PROVE Spec => []FreeIsIdle
<1>1. Init => SInv
  BY InitSInv
<1>2. SInv /\ [Next]_vars => SInv'
  BY StepSInv
<1>3. SInv => FreeIsIdle
  BY SInvFreeIsIdle
<1> QED BY <1>1, <1>2, <1>3, PTL DEF Spec

\* Nested calls count one deeper than the call around them (callFunc), if only
\* one function is merged.
THEOREM DepthIsAccurate == ASSUME Alone PROVE Spec => []DepthCountsCalls
<1> DEFINE Inv == SInv /\ DepthCountsCalls
<1>1. Init => Inv
  BY InitSInv DEF Init, DepthCountsCalls
<1>2. Inv /\ [Next]_vars => Inv'
  BY StepSInv, StepDepth
<1>3. Inv => DepthCountsCalls
  OBVIOUS
<1> QED BY <1>1, <1>2, <1>3, PTL DEF Spec

=============================================================================
