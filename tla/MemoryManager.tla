--------------------------- MODULE MemoryManager ---------------------------
(***************************************************************************)
(* The memory manager of the interpreter with its heap: MemoryManager and  *)
(* memHeap in internal/lang/eval.go, over container/heap.  minHeap holds   *)
(* pointers to blocks, here their ids, so a block whose Used changes while *)
(* it is in the heap changes its key there, and a block may have several   *)
(* entries.  Positions count from 1, so the children of i are 2i and 2i+1. *)
(* The rest of the state is that of BlockPool.                             *)
(***************************************************************************)
EXTENDS Naturals, Sequences, SequencesExt

CONSTANTS Requests, Pids, BlockSizes, MaxBlocks,
          MaxHeap   \* bound on the entries of minHeap, which Delete only adds to

ASSUME RequestsAssumption   == Requests \subseteq Nat
ASSUME PidsAssumption       == Pids \subseteq Nat \ {0}
ASSUME BlockSizesAssumption == BlockSizes \subseteq Nat \ {0}
ASSUME MaxBlocksAssumption  == MaxBlocks \in Nat
\* Clear pushes every block that is left.
ASSUME MaxHeapAssumption    == MaxHeap \in Nat /\ MaxBlocks <= MaxHeap

Ids    == 1..MaxBlocks
Global == 0
Owners == Pids \cup {Global}

VARIABLES blockSize, nextID, live, size, used, owner,
          minHeap   \* the heap array

vars  == <<blockSize, nextID, live, size, used, owner, minHeap>>

----------------------------------------------------------------------------
(* A loop is a sequence of functions on its local state, one per round.    *)

\* s taken through the functions of the sequence steps, one after the other.
Through(steps, s) ==
    LET after[i \in 0..Len(steps)] ==
          IF i = 0 THEN s ELSE steps[i][after[i - 1]]
    IN  after[Len(steps)]

Repeat(step, n) == [i \in 1..n |-> step]

(* container/heap on the keys u (Used), with memHeap's Less and Swap.  The *)
(* loops of up and down end before the rounds given them: a round after    *)
(* the end changes nothing.                                                *)

Exchange(h, i, j) == [h EXCEPT ![i] = h[j], ![j] = h[i]]

\* The heap, and the position of the entry that is being moved.
Moving == [heap : Seq(Ids), at : Nat]

Up(u, h, j) ==
    LET rise == [m \in Moving |->
                  LET i == m.at \div 2 IN
                  IF m.at = 1 \/ u[m.heap[m.at]] >= u[m.heap[i]]
                    THEN m
                    ELSE [heap |-> Exchange(m.heap, i, m.at), at |-> i]]
    IN  Through(Repeat(rise, Len(h)), [heap |-> h, at |-> j]).heap

\* Only the first n entries take part.
Down(u, h, j, n) ==
    LET sink == [m \in Moving |->
                  LET left    == 2 * m.at
                      smaller == IF left < n /\ u[m.heap[left + 1]] < u[m.heap[left]]
                                   THEN left + 1 ELSE left
                  IN IF left > n \/ u[m.heap[smaller]] >= u[m.heap[m.at]]
                       THEN m
                       ELSE [heap |-> Exchange(m.heap, m.at, smaller), at |-> smaller]]
    IN  Through(Repeat(sink, n), [heap |-> h, at |-> j]).heap

Push(u, h, b) == Up(u, Append(h, b), Len(h) + 1)
Pop(u, h)     == LET n == Len(h)
                 IN  SubSeq(Down(u, Exchange(h, 1, n), 1, n - 1), 1, n - 1)
\* heap.Fix at the front, after its key has changed.
FixFront(u, h) == Down(u, h, 1, Len(h))

\* The heap and the keys.
Keyed == [u : [Ids -> Nat], h : Seq(Ids)]

\* Blocks are emptied and pushed one after the other: ReclaimTask's loop body,
\* for the blocks in the order of seq.
PushEmptied(u, h, seq) ==
    LET emptied(b) == [k \in Keyed |->
                        LET v == [k.u EXCEPT ![b] = 0]
                        IN  [u |-> v, h |-> Push(v, k.h, b)]]
    IN  Through([i \in 1..Len(seq) |-> emptied(seq[i])], [u |-> u, h |-> h])

\* The heap of the blocks of seq, pushed in this order.
Rebuilt(u, seq) ==
    LET pushed(b) == [h \in Seq(Ids) |-> Push(u, h, b)]
    IN  Through([i \in 1..Len(seq) |-> pushed(seq[i])], <<>>)

----------------------------------------------------------------------------

Init == /\ blockSize \in BlockSizes
        /\ nextID = 0
        /\ live   = {}
        /\ size   = [b \in Ids |-> 0]
        /\ used   = [b \in Ids |-> 0]
        /\ owner  = [b \in Ids |-> Global]
        /\ minHeap = <<>>

Fits(b, n) == used[b] + n <= size[b]

\* What Alloc's loop leaves of the heap: entries are popped from the front
\* while the block in front has no room.
Roomy(h, n) ==
    LET drop == [g \in Seq(Ids) |->
                  IF g = <<>> \/ Fits(g[1], n) THEN g ELSE Pop(used, g)]
    IN  Through(Repeat(drop, Len(h)), h)

\* Mutant: nextID is not incremented.
AllocSameID(n, pid) ==
    /\ Roomy(minHeap, n) = <<>>
    /\ live'    = live \cup {nextID}
    /\ minHeap' = <<nextID>>
    /\ UNCHANGED <<blockSize, nextID, size, used, owner>>

\* Alloc(n, pid), from the heap h that the loop leaves.
Alloc(n, pid) ==
    LET h == Roomy(minHeap, n) IN
    \/ /\ h # <<>>
       /\ used'    = [used EXCEPT ![h[1]] = @ + n]
       /\ owner'   = [owner EXCEPT ![h[1]] = pid]
       /\ minHeap' = FixFront(used', h)
       /\ UNCHANGED <<blockSize, nextID, live, size>>
    \/ /\ h = <<>>
       /\ nextID < MaxBlocks
       /\ nextID'  = nextID + 1
       /\ live'    = live \cup {nextID'}
       /\ size'    = [size EXCEPT ![nextID'] = blockSize]
       /\ used'    = [used EXCEPT ![nextID'] = n]
       /\ owner'   = [owner EXCEPT ![nextID'] = pid]
       /\ minHeap' = <<nextID'>>
       /\ UNCHANGED blockSize

\* Empties the blocks of S and pushes them, in some order (Go ranges over a
\* map in no particular one).
Empty(S) ==
    /\ \E seq \in SetToSeqs(S) :
         LET done == PushEmptied(used, minHeap, seq) IN
         /\ Len(done.h) <= MaxHeap
         /\ used'    = done.u
         /\ minHeap' = done.h
    /\ owner' = [b \in Ids |-> IF b \in S THEN Global ELSE owner[b]]
    /\ UNCHANGED <<blockSize, nextID, live, size>>

ReclaimTask(pid) == Empty({b \in live : owner[b] = pid /\ used[b] > 0})

Delete(b) == Empty({b} \cap live)

Idle == {b \in live : used[b] = 0}

\* Mutant: the heap is not reset.
CompactKeepsHeap ==
    /\ live' = live \ Idle
    /\ UNCHANGED <<blockSize, nextID, size, used, owner, minHeap>>

Compact == /\ live'    = live \ Idle
           /\ minHeap' = <<>>
           /\ UNCHANGED <<blockSize, nextID, size, used, owner>>

Clear == /\ live' = live \ Idle
         /\ \E seq \in SetToSeqs(live') : minHeap' = Rebuilt(used, seq)
         /\ UNCHANGED <<blockSize, nextID, size, used, owner>>

SetBlock(n) == /\ blockSize' = n
               /\ UNCHANGED <<nextID, live, size, used, owner, minHeap>>

Next == \/ \E n \in Requests, pid \in Owners : Alloc(n, pid)
        \/ \E pid \in Owners : ReclaimTask(pid)
        \/ \E b \in Ids : Delete(b)
        \/ Compact
        \/ Clear
        \/ \E n \in BlockSizes : SetBlock(n)

Spec == Init /\ [][Next]_vars

----------------------------------------------------------------------------

\* The variables hold numbers of the right kind, and the heap ids of blocks.
TypeOK == /\ blockSize \in BlockSizes
          /\ nextID \in 0..MaxBlocks
          /\ live \subseteq 1..nextID
          /\ size \in [Ids -> Nat] /\ used \in [Ids -> Nat]
          /\ owner \in [Ids -> Owners]
          /\ minHeap \in Seq(Ids) /\ Len(minHeap) <= MaxHeap

Pool == INSTANCE BlockPool WITH queued <- Range(minHeap)

\* The heap decides only which block with room is taken and which entries
\* without room are dropped: the manager implements the pool.
ImplementsPool == Pool!Spec
=============================================================================
