-------------------------- MODULE BlockPoolProofs --------------------------
(***************************************************************************)
(* BlockPool: Alloc never hands out a dropped block, every variable keeps  *)
(* its type, and deleted blocks stay reusable while no request exceeds a   *)
(* block, for any numbers of blocks, tasks and sizes.  The lemmas are      *)
(* about single operations, for every caller of the pool.                  *)
(***************************************************************************)
EXTENDS BlockPool, TLAPS

USE RequestsAssumption, PidsAssumption, BlockSizesAssumption, MaxBlocksAssumption
    DEF Owners, Global

PoolInv == TypeOK /\ NoDangling

\* Alloc of any size returns a block of the table and keeps the pool sound.
LEMMA AllocSound ==
    ASSUME PoolInv, NEW n \in Nat, NEW pid \in Owners, NEW b \in Ids,
           Alloc(n, pid, b)
    PROVE  PoolInv' /\ b \in live'
<1> USE DEF PoolInv, NoDangling
<1>1. CASE Reuse(n, pid, b)
  <2>1. b \in live' /\ NoDangling'
    BY <1>1 DEF Reuse
  <2>2. used' \in [Ids -> Nat]
    BY <1>1 DEF Reuse, TypeOK
  <2>3. TypeOK'
    BY <1>1, <2>2 DEF Reuse, TypeOK
  <2> QED  BY <2>1, <2>3
<1>2. CASE Fresh(n, pid, b)
  <2>1. nextID' = nextID + 1 /\ nextID' \in 0..MaxBlocks
    BY <1>2 DEF Fresh, TypeOK
  <2>2. live' \subseteq 1..nextID'
    BY <1>2, <2>1 DEF Fresh, TypeOK
  <2>3. size' \in [Ids -> Nat] /\ used' \in [Ids -> Nat] /\ owner' \in [Ids -> Owners]
    BY <1>2 DEF Fresh, TypeOK
  <2>4. queued' \subseteq Ids /\ blockSize' \in BlockSizes
    BY <1>2 DEF Fresh, TypeOK
  <2>5. NoDangling' /\ b \in live'
    BY <1>2 DEF Fresh
  <2> QED  BY <2>1, <2>2, <2>3, <2>4, <2>5 DEF TypeOK
<1> QED  BY <1>1, <1>2 DEF Alloc

\* Emptying blocks of the table keeps the pool sound.
LEMMA EmptySound ==
    ASSUME PoolInv, NEW S \in SUBSET live, Empty(S)
    PROVE  PoolInv'
<1> USE DEF PoolInv, NoDangling
<1>1. live \subseteq Ids
  BY DEF TypeOK, Ids
<1>2. used' \in [Ids -> Nat]
  BY DEF Empty, TypeOK
<1>3. owner' \in [Ids -> Owners]
  BY DEF Empty, TypeOK
<1>4. queued' \subseteq Ids /\ NoDangling'
  BY <1>1 DEF Empty, TypeOK
<1> QED  BY <1>2, <1>3, <1>4 DEF Empty, TypeOK

\* So do dropping idle blocks and changing the block size.
LEMMA MaintainSound ==
    ASSUME PoolInv, Compact \/ Clear \/ \E n \in BlockSizes : SetBlock(n)
    PROVE  PoolInv'
<1> USE DEF PoolInv, NoDangling
<1>1. CASE Compact
  BY <1>1 DEF Compact, TypeOK
<1>2. CASE Clear
  <2>1. live' \subseteq live
    BY <1>2 DEF Clear
  <2>2. live \subseteq Ids
    BY DEF TypeOK, Ids
  <2> QED  BY <1>2, <2>1, <2>2 DEF Clear, TypeOK
<1>3. ASSUME NEW n \in BlockSizes, SetBlock(n) PROVE PoolInv'
  BY <1>3 DEF SetBlock, TypeOK
<1> QED  BY <1>1, <1>2, <1>3

LEMMA InitSound == Init => PoolInv
BY DEF Init, PoolInv, TypeOK, NoDangling

LEMMA StepSound == PoolInv /\ [Next]_vars => PoolInv'
<1> SUFFICES ASSUME PoolInv, [Next]_vars PROVE PoolInv'
  OBVIOUS
<1>1. ASSUME NEW n \in Requests, NEW pid \in Owners, NEW b \in Ids, Alloc(n, pid, b)
      PROVE  PoolInv'
  BY <1>1, AllocSound
<1>2. ASSUME NEW pid \in Owners, ReclaimTask(pid) PROVE PoolInv'
  BY <1>2, EmptySound DEF ReclaimTask, OwnedBy
<1>3. ASSUME NEW b \in Ids, Delete(b) PROVE PoolInv'
  BY <1>3, EmptySound DEF Delete
<1>4. CASE Compact \/ Clear \/ \E n \in BlockSizes : SetBlock(n)
  BY <1>4, MaintainSound
<1>5. CASE UNCHANGED vars
  BY <1>5 DEF vars, PoolInv, TypeOK, NoDangling
<1> QED  BY <1>1, <1>2, <1>3, <1>4, <1>5 DEF Next

\* The pool is sound throughout: types, and no dropped block in the heap.
THEOREM PoolSound == Spec => []PoolInv
BY InitSound, StepSound, PTL DEF Spec

\* The variables keep their types.
THEOREM TypeCorrect == Spec => []TypeOK
<1>1. PoolInv => TypeOK
  BY DEF PoolInv
<1> QED  BY <1>1, PoolSound, PTL

\* The heap never refers to a block that compact or clear has dropped.
THEOREM HeapRefersToLiveBlocks == Spec => []NoDangling
<1>1. PoolInv => NoDangling
  BY DEF PoolInv
<1> QED  BY <1>1, PoolSound, PTL

----------------------------------------------------------------------------

\* Every request fits into an empty block.
SmallRequests == \A n \in Requests, s \in BlockSizes : n <= s
\* A block keeps the size it was made with.
Sized == \A b \in live : size[b] \in BlockSizes

ReuseInv == PoolInv /\ Sized /\ IdleQueued

LEMMA ReuseTyped ==
    ReuseInv => /\ live \subseteq Ids /\ live \subseteq 1..nextID /\ blockSize \in BlockSizes
                /\ used \in [Ids -> Nat] /\ size \in [Ids -> Nat] /\ nextID \in Nat
<1> SUFFICES ASSUME ReuseInv PROVE live \subseteq 1..MaxBlocks /\ nextID \in Nat
  BY DEF ReuseInv, PoolInv, TypeOK, Ids
<1> QED  BY DEF ReuseInv, PoolInv, TypeOK

\* An allocation that would fit into any empty block pops no empty block.
LEMMA AllocKeepsIdle ==
    ASSUME ReuseInv, NEW n \in Nat, \A s \in BlockSizes : n <= s,
           NEW pid \in Owners, NEW b \in Ids, Alloc(n, pid, b)
    PROVE  ReuseInv'
<1> USE DEF Sized, IdleQueued, Idle
<1>1. /\ live \subseteq Ids /\ live \subseteq 1..nextID /\ blockSize \in BlockSizes
      /\ used \in [Ids -> Nat] /\ size \in [Ids -> Nat] /\ nextID \in Nat
  BY ReuseTyped
<1>2. PoolInv'
  BY AllocSound DEF ReuseInv
<1>3. \A c \in Idle : Fits(c, n)
  BY <1>1 DEF ReuseInv, Fits
<1>4. CASE Reuse(n, pid, b)
  <2>1. \A c \in queued : Fits(c, n) => c \in queued'
    BY <1>4 DEF Reuse
  <2>2. \A c \in live \ {b} : used'[c] = used[c]
    BY <1>1, <1>4 DEF Reuse
  <2>3. IdleQueued'
    BY <1>3, <1>4, <2>1, <2>2 DEF Reuse, ReuseInv
  <2> QED  BY <1>2, <1>4, <2>3 DEF Reuse, ReuseInv
<1>5. CASE Fresh(n, pid, b)
  <2>1. Idle = {}
    BY <1>3, <1>5 DEF Fresh, ReuseInv
  <2>2. b \notin live /\ size'[b] = blockSize
    BY <1>1, <1>5 DEF Fresh, ReuseInv, PoolInv, TypeOK
  <2>3. \A c \in live : used'[c] = used[c] /\ size'[c] = size[c]
    BY <1>1, <1>5, <2>2 DEF Fresh
  <2> QED  BY <1>1, <1>2, <1>5, <2>1, <2>2, <2>3 DEF Fresh, ReuseInv
<1> QED  BY <1>4, <1>5 DEF Alloc

\* Emptied blocks are pushed.
LEMMA EmptyKeepsIdle ==
    ASSUME ReuseInv, NEW S \in SUBSET live, Empty(S) PROVE ReuseInv'
<1>1. PoolInv'
  BY EmptySound DEF ReuseInv
<1> QED  BY <1>1, ReuseTyped DEF Empty, ReuseInv, Sized, IdleQueued, Idle

LEMMA MaintainKeepsIdle ==
    ASSUME ReuseInv, Compact \/ Clear \/ \E n \in BlockSizes : SetBlock(n) PROVE ReuseInv'
<1> USE DEF ReuseInv, Sized, IdleQueued, Idle
<1>1. PoolInv'
  BY MaintainSound
<1>2. CASE Compact \/ Clear
  BY <1>1, <1>2 DEF Compact, Clear
<1>3. CASE \E n \in BlockSizes : SetBlock(n)
  BY <1>1, <1>3 DEF SetBlock
<1> QED  BY <1>2, <1>3

LEMMA InitReuse == Init => ReuseInv
BY InitSound DEF Init, ReuseInv, Sized, IdleQueued, Idle

\* As long as no request is larger than a block, a deleted or reclaimed block
\* stays in the heap until it is dropped, so it can be used again.
THEOREM DeletedBlocksReusable ==
    ASSUME SmallRequests PROVE Spec => []IdleQueued
<1>1. ReuseInv /\ [Next]_vars => ReuseInv'
  <2> SUFFICES ASSUME ReuseInv, [Next]_vars PROVE ReuseInv'
    OBVIOUS
  <2>1. ASSUME NEW n \in Requests, NEW pid \in Owners, NEW b \in Ids, Alloc(n, pid, b)
        PROVE  ReuseInv'
    BY <2>1, SmallRequests, AllocKeepsIdle DEF SmallRequests
  <2>2. CASE \/ \E pid \in Owners : ReclaimTask(pid)
             \/ \E b \in Ids : Delete(b)
    BY <2>2, EmptyKeepsIdle DEF ReclaimTask, OwnedBy, Delete
  <2>3. CASE Compact \/ Clear \/ \E n \in BlockSizes : SetBlock(n)
    BY <2>3, MaintainKeepsIdle
  <2>4. CASE UNCHANGED vars
    BY <2>4, StepSound DEF vars, ReuseInv, Sized, IdleQueued, Idle
  <2> QED  BY <2>1, <2>2, <2>3, <2>4 DEF Next
<1>2. ReuseInv => IdleQueued
  BY DEF ReuseInv
<1> QED  BY <1>1, <1>2, InitReuse, PTL DEF Spec
=============================================================================
