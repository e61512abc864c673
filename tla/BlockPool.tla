----------------------------- MODULE BlockPool -----------------------------
(***************************************************************************)
(* What the memory manager of the interpreter (MemoryManager in            *)
(* internal/lang/eval.go) does, seen without its heap: which blocks exist, *)
(* how full they are, which task owns them, and which of them Alloc may    *)
(* still hand out again.  Every operation runs under the manager's mutex,  *)
(* so each is one step.                                                    *)
(*                                                                         *)
(* minHeap appears only as the set of blocks with an entry in it.  Which   *)
(* entry is in front is left open; MemoryManager models the heap itself    *)
(* and implements this module.  MemBlock.Dirty is set when a block is made *)
(* and never cleared, and Reclaimable never set, so neither appears; nor   *)
(* do the two counters only benchmarks read.                               *)
(***************************************************************************)
EXTENDS Naturals

CONSTANTS
    Requests,   \* the sizes Alloc is called with
    Pids,       \* the pids of tasks; 0 stands for "no task" in OwnerPID
    BlockSizes, \* the values globalMemory.BlockSize may take
    MaxBlocks   \* bound on the number of blocks ever made

ASSUME RequestsAssumption   == Requests \subseteq Nat
ASSUME PidsAssumption       == Pids \subseteq Nat \ {0}
ASSUME BlockSizesAssumption == BlockSizes \subseteq Nat \ {0}
ASSUME MaxBlocksAssumption  == MaxBlocks \in Nat

Ids    == 1..MaxBlocks
Global == 0
Owners == Pids \cup {Global}

VARIABLES
    blockSize,  \* globalMemory.BlockSize
    nextID,     \* MemoryManager.nextID, the number of blocks ever made
    live,       \* the keys of MemoryManager.blocks
    size, used, owner,  \* MemBlock.Size, Used and OwnerPID of each block
    queued      \* the blocks with an entry in minHeap

vars  == <<blockSize, nextID, live, size, used, owner, queued>>

Init == /\ blockSize \in BlockSizes
        /\ nextID = 0
        /\ live   = {}
        /\ size   = [b \in Ids |-> 0]
        /\ used   = [b \in Ids |-> 0]
        /\ owner  = [b \in Ids |-> Global]
        /\ queued = {}

Fits(b, n) == used[b] + n <= size[b]

\* Alloc finds room inside block b.  The entries that were in front of b's
\* and had no room are popped; a block with a second entry stays queued.
Reuse(n, pid, b) ==
    /\ b \in queued
    /\ Fits(b, n)
    /\ \E popped \in SUBSET {c \in queued : ~Fits(c, n)} :
         queued' = queued \ popped
    /\ used'  = [used EXCEPT ![b] = @ + n]
    /\ owner' = [owner EXCEPT ![b] = pid]
    /\ UNCHANGED <<blockSize, nextID, live, size>>

\* Mutant: nextID is not incremented.
FreshSameID(n, pid, b) ==
    /\ \A c \in queued : ~Fits(c, n)
    /\ b = nextID + 1
    /\ live'   = live \cup {b}
    /\ size'   = [size EXCEPT ![b] = blockSize]
    /\ used'   = [used EXCEPT ![b] = n]
    /\ owner'  = [owner EXCEPT ![b] = pid]
    /\ queued' = {b}
    /\ UNCHANGED <<blockSize, nextID>>

\* No queued block has room: all entries are popped and block b is made, of
\* the current BlockSize even when the request is larger.
Fresh(n, pid, b) ==
    /\ \A c \in queued : ~Fits(c, n)
    /\ nextID < MaxBlocks
    /\ b = nextID + 1
    /\ nextID' = b
    /\ live'   = live \cup {b}
    /\ size'   = [size EXCEPT ![b] = blockSize]
    /\ used'   = [used EXCEPT ![b] = n]
    /\ owner'  = [owner EXCEPT ![b] = pid]
    /\ queued' = {b}
    /\ UNCHANGED blockSize

\* Alloc(n, pid) returns block b.
Alloc(n, pid, b) == Reuse(n, pid, b) \/ Fresh(n, pid, b)

\* Mutant: the emptied blocks are not pushed.
EmptyNotPushed(S) ==
    /\ used'  = [b \in Ids |-> IF b \in S THEN 0 ELSE used[b]]
    /\ owner' = [b \in Ids |-> IF b \in S THEN Global ELSE owner[b]]
    /\ UNCHANGED <<blockSize, nextID, live, size, queued>>

Empty(S) == /\ used'   = [b \in Ids |-> IF b \in S THEN 0 ELSE used[b]]
            /\ owner'  = [b \in Ids |-> IF b \in S THEN Global ELSE owner[b]]
            /\ queued' = queued \cup S
            /\ UNCHANGED <<blockSize, nextID, live, size>>

\* Mutant: the test of Used is inverted.
OwnedByUnused(pid) == {b \in live : owner[b] = pid /\ used[b] = 0}

\* The blocks ReclaimTask(pid) finds.
OwnedBy(pid) == {b \in live : owner[b] = pid /\ used[b] > 0}

\* ReclaimTask(pid), at the end of a merged function.
ReclaimTask(pid) == Empty(OwnedBy(pid))

\* Delete(b): the block is emptied, whoever else uses it.  A block that is no
\* longer in the table is left alone.
Delete(b) == Empty({b} \cap live)

\* Mutant: used blocks count as idle too.
IdleOrNot == live

\* The blocks nothing is stored in, which Compact and Clear drop.
Idle == {b \in live : used[b] = 0}

\* Mutant: the heap is not reset.
CompactKeepsHeap ==
    /\ live' = live \ Idle
    /\ UNCHANGED <<blockSize, nextID, size, used, owner, queued>>

\* Compact() drops the idle blocks and forgets the heap.
Compact == /\ live'   = live \ Idle
           /\ queued' = {}
           /\ UNCHANGED <<blockSize, nextID, size, used, owner>>

\* Clear() drops the idle blocks and rebuilds the heap from the others.
Clear == /\ live'   = live \ Idle
         /\ queued' = live'
         /\ UNCHANGED <<blockSize, nextID, size, used, owner>>

\* memory.setBlock(n): later blocks have size n.
SetBlock(n) == /\ blockSize' = n
               /\ UNCHANGED <<nextID, live, size, used, owner, queued>>

Next == \/ \E n \in Requests, pid \in Owners, b \in Ids : Alloc(n, pid, b)
        \/ \E pid \in Owners : ReclaimTask(pid)
        \/ \E b \in Ids : Delete(b)
        \/ Compact
        \/ Clear
        \/ \E n \in BlockSizes : SetBlock(n)

Spec == Init /\ [][Next]_vars

----------------------------------------------------------------------------

\* The variables hold numbers of the right kind, and block ids are those that
\* have been given out.
TypeOK == /\ blockSize \in BlockSizes
          /\ nextID \in 0..MaxBlocks
          /\ live \subseteq 1..nextID
          /\ size  \in [Ids -> Nat]
          /\ used  \in [Ids -> Nat]
          /\ owner \in [Ids -> Owners]
          /\ queued \subseteq Ids

\* No entry of the heap refers to a block that Compact or Clear has dropped:
\* Alloc hands out blocks of the table only, never a dropped one.
NoDangling == queued \subseteq live

\* A deleted or reclaimed block waits in the heap to be used again, until it
\* is dropped.
IdleQueued == Idle \subseteq queued
=============================================================================
