------------------------------ MODULE CtxPool ------------------------------
(***************************************************************************)
(* The free list of execution contexts (internal/lang/value.go, newCtx and *)
(* putCtx) as the goroutines of the interpreter use it: callFunc takes a   *)
(* context for every call and gives it back when the call returns, and     *)
(* runOnThread takes one for the function it merges, which nobody gives    *)
(* back.  The list is linked through execCtx.link from interp.ctxHead, the *)
(* only word that is changed by compare-and-swap; every other access is a  *)
(* step of its own.                                                        *)
(***************************************************************************)
EXTENDS Naturals, FiniteSets, Sequences

CONSTANTS
    Merged,     \* the goroutines taskm.merge may start
    MaxCtx,     \* bound on the number of contexts ever allocated
    MaxDepth    \* the deepest call, 8192 in the code

ASSUME BoundsAssumption == /\ 0 \notin Merged
                           /\ Merged \subseteq Nat
                           /\ MaxCtx \in Nat \ {0}
                           /\ MaxDepth \in Nat

Main       == 0
Goroutines == Merged \cup {Main}
Ctx        == 1..MaxCtx
nil        == 0

\* Where a goroutine stands: inside newCtx ("load", "peek", "cas", "fresh",
\* "reset"), inside putCtx ("putload", "putlink", "putcas"), or elsewhere.
Labels == {"unborn", "code", "load", "peek", "cas", "fresh", "reset",
           "putload", "putlink", "putcas", "exited"}

VARIABLES
    ctxHead,    \* interp.ctxHead
    link,       \* execCtx.link
    depth,      \* execCtx.depth
    made,       \* the contexts allocated so far
    frames,     \* the contexts a goroutine's active calls execute, outermost first
    pc,         \* label of each goroutine
    h, next,    \* its local h, and the h.link it passes to CompareAndSwap
    callee      \* the goroutine for which newCtx was called

vars == <<ctxHead, link, depth, made, frames, pc, h, next, callee>>

Top(g) == frames[g][Len(frames[g])]

Init ==
    /\ ctxHead = nil
    /\ link   = [c \in Ctx |-> nil]
    /\ depth  = [c \in Ctx |-> 0]
    /\ made   = {1}
    /\ frames = [g \in Goroutines |-> IF g = Main THEN <<1>> ELSE <<>>]
    /\ pc     = [g \in Goroutines |-> IF g = Main THEN "code" ELSE "unborn"]
    /\ h      = [g \in Goroutines |-> nil]
    /\ next   = [g \in Goroutines |-> nil]
    /\ callee = [g \in Goroutines |-> g]

Goto(g, label) == pc' = [pc EXCEPT ![g] = label]

\* callFunc of a function with a body: refused at the depth limit, which is
\* read from the caller's context.
Call(g) == /\ pc[g] = "code"
           /\ depth[Top(g)] < MaxDepth
           /\ callee' = [callee EXCEPT ![g] = g]
           /\ Goto(g, "load")
           /\ UNCHANGED <<ctxHead, link, depth, made, frames, h, next>>

\* runOnThread on the goroutine that merges; the new goroutine starts once the
\* context is there.
Merge(g, m) == /\ pc[g] = "code"
               /\ pc[m] = "unborn"
               /\ \A k \in Goroutines \ {m} : callee[k] # m
               /\ callee' = [callee EXCEPT ![g] = m]
               /\ Goto(g, "load")
               /\ UNCHANGED <<ctxHead, link, depth, made, frames, h, next>>

\* newCtx: h := in.ctxHead.Load().
Load(g) == /\ pc[g] = "load"
           /\ h' = [h EXCEPT ![g] = ctxHead]
           /\ Goto(g, IF ctxHead = nil THEN "fresh" ELSE "peek")
           /\ UNCHANGED <<ctxHead, link, depth, made, frames, next, callee>>

\* newCtx: h.link is read before CompareAndSwap(h, h.link) is called.
Peek(g) == /\ pc[g] = "peek"
           /\ next' = [next EXCEPT ![g] = link[h[g]]]
           /\ Goto(g, "cas")
           /\ UNCHANGED <<ctxHead, link, depth, made, frames, h, callee>>

\* Mutant: the head is stored without comparing it.
PopStore(g) == /\ pc[g] = "cas"
               /\ ctxHead' = next[g]
               /\ Goto(g, "reset")
               /\ UNCHANGED <<link, depth, made, frames, h, next, callee>>

\* newCtx: CompareAndSwap.
Pop(g) == /\ pc[g] = "cas"
          /\ \/ /\ ctxHead = h[g]
                /\ ctxHead' = next[g]
                /\ Goto(g, "reset")
             \/ /\ ctxHead # h[g]
                /\ Goto(g, "load")
                /\ UNCHANGED ctxHead
          /\ UNCHANGED <<link, depth, made, frames, h, next, callee>>

\* newCtx: &execCtx{...}.
Fresh(g) == /\ pc[g] = "fresh"
            /\ Cardinality(made) < MaxCtx
            /\ h' = [h EXCEPT ![g] = Cardinality(made) + 1]
            /\ made' = made \cup {Cardinality(made) + 1}
            /\ Goto(g, "reset")
            /\ UNCHANGED <<ctxHead, link, depth, frames, next, callee>>

\* Mutant: the callee's context gets the depth of its caller.
SameDepth(g) == depth[Top(g)]

\* The depth callFunc gives the context of the function g calls.
CallDepth(g) == depth[Top(g)] + 1

\* The rest of newCtx resets the context; then callFunc sets its depth, while
\* runOnThread leaves that as it is, and the function's body starts.
Reset(g) ==
    LET c == h[g] IN
    /\ pc[g] = "reset"
    /\ link' = [link EXCEPT ![c] = nil]
    /\ \/ /\ callee[g] = g
          /\ depth' = [depth EXCEPT ![c] = CallDepth(g)]
          /\ frames' = [frames EXCEPT ![g] = Append(@, c)]
          /\ Goto(g, "code")
          /\ UNCHANGED callee
       \/ /\ callee[g] # g
          /\ frames' = [frames EXCEPT ![callee[g]] = <<c>>]
          /\ pc' = [pc EXCEPT ![g] = "code", ![callee[g]] = "code"]
          /\ callee' = [callee EXCEPT ![g] = g]
          /\ UNCHANGED depth
    /\ UNCHANGED <<ctxHead, made, h, next>>

\* Mutant: the context of a merged function, or of main, is put back too.
ReturnAlways(g) == /\ pc[g] = "code"
                   /\ Goto(g, "putload")
                   /\ UNCHANGED <<ctxHead, link, depth, made, frames, h, next, callee>>

\* A call ends, with a result or an error: the deferred putCtx runs.
Return(g) == /\ pc[g] = "code"
             /\ Len(frames[g]) > 1
             /\ Goto(g, "putload")
             /\ UNCHANGED <<ctxHead, link, depth, made, frames, h, next, callee>>

\* putCtx: h := in.ctxHead.Load().
PutLoad(g) == /\ pc[g] = "putload"
              /\ h' = [h EXCEPT ![g] = ctxHead]
              /\ Goto(g, "putlink")
              /\ UNCHANGED <<ctxHead, link, depth, made, frames, next, callee>>

\* putCtx: ctx.link = h.
PutLink(g) == /\ pc[g] = "putlink"
              /\ link' = [link EXCEPT ![Top(g)] = h[g]]
              /\ Goto(g, "putcas")
              /\ UNCHANGED <<ctxHead, depth, made, frames, h, next, callee>>

\* Mutant: the head is stored without comparing it.
PushStore(g) == /\ pc[g] = "putcas"
                /\ ctxHead' = Top(g)
                /\ frames' = [frames EXCEPT ![g] = SubSeq(@, 1, Len(@) - 1)]
                /\ Goto(g, "code")
                /\ UNCHANGED <<link, depth, made, h, next, callee>>

\* putCtx: CompareAndSwap(h, ctx).
Push(g) == /\ pc[g] = "putcas"
           /\ \/ /\ ctxHead = h[g]
                 /\ ctxHead' = Top(g)
                 /\ frames' = [frames EXCEPT ![g] = SubSeq(@, 1, Len(@) - 1)]
                 /\ Goto(g, "code")
              \/ /\ ctxHead # h[g]
                 /\ Goto(g, "putload")
                 /\ UNCHANGED <<ctxHead, frames>>
           /\ UNCHANGED <<link, depth, made, h, next, callee>>

\* The merged function ends.  Its context is dropped, not put back.
Exit(g) == /\ pc[g] = "code"
           /\ g # Main
           /\ Len(frames[g]) = 1
           /\ frames' = [frames EXCEPT ![g] = <<>>]
           /\ Goto(g, "exited")
           /\ UNCHANGED <<ctxHead, link, depth, made, h, next, callee>>

NewCtx(g) == Load(g) \/ Peek(g) \/ Pop(g) \/ Fresh(g) \/ Reset(g)
PutCtx(g) == PutLoad(g) \/ PutLink(g) \/ Push(g)

Next == \E g \in Goroutines :
            \/ Call(g) \/ (\E m \in Merged : Merge(g, m))
            \/ NewCtx(g) \/ Return(g) \/ PutCtx(g) \/ Exit(g)

Spec == Init /\ [][Next]_vars

----------------------------------------------------------------------------

\* The variables hold contexts and goroutines, and a goroutine executes in a
\* context from its start to its end.
TypeOK == /\ ctxHead \in Ctx \cup {nil}
          /\ link \in [Ctx -> Ctx \cup {nil}]
          /\ depth \in [Ctx -> Nat]
          /\ made \subseteq Ctx
          /\ frames \in [Goroutines -> Seq(made)]
          /\ pc \in [Goroutines -> Labels]
          /\ h \in [Goroutines -> made \cup {nil}]
          /\ next \in [Goroutines -> made \cup {nil}]
          /\ callee \in [Goroutines -> Goroutines]
          /\ \A g \in Goroutines :
                frames[g] = <<>> <=> pc[g] \in {"unborn", "exited"}

\* The contexts g executes in or has taken off the list.
Holds(g) == {frames[g][i] : i \in DOMAIN frames[g]}
                \cup {c \in {h[g]} : pc[g] = "reset"}

\* The contexts on the free list: those reached from ctxHead along link, which
\* are in every set that has the head and the successors of its members.
Free == {c \in Ctx : \A S \in SUBSET Ctx :
            /\ ctxHead \in S \cup {nil}
            /\ \A d \in S : link[d] \in S \cup {nil}
            => c \in S}

\* A context is executed by one call of one goroutine at a time: the arguments,
\* slots and result of a call are its own (value.go newCtx, "no shared state is
\* broken" for concurrent goroutines).
NoSharing ==
    /\ \A g, k \in Goroutines : g # k => Holds(g) \cap Holds(k) = {}
    /\ \A g \in Goroutines :
          Cardinality({frames[g][i] : i \in DOMAIN frames[g]}) = Len(frames[g])

\* No context is on the free list while a call executes in it, so a later
\* newCtx cannot reset it under that call (value.go putCtx).
FreeIsIdle == \A g \in Goroutines : Free \cap Holds(g) = {}

\* On every goroutine a nested call counts one deeper than the call around it,
\* as long as both are active, so the recursion limit stops every recursion
\* (eval.go callFunc; the depth of a shared context would jump).
DepthCountsCalls ==
    \A g \in Goroutines : \A i \in DOMAIN frames[g] \ {1} :
        depth[frames[g][i]] = depth[frames[g][i - 1]] + 1
=============================================================================
