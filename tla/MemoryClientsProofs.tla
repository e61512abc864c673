------------------------ MODULE MemoryClientsProofs ------------------------
(***************************************************************************)
(* MemoryClients, for any number of lists, threads and blocks.             *)
(*                                                                         *)
(* First, for every program: the pool under the lists and threads stays    *)
(* sound, and only the blocks of spawn leak, although lists and threads    *)
(* share blocks and a delete empties a block under the others.  The reason *)
(* is the owner of a block: whoever allocated in it last is still there,   *)
(* or was the spawn of a thread (LastOwner).                               *)
(*                                                                         *)
(* Then, for programs that delete a list once and only while it is alone   *)
(* in its block (careful): lists of any size above 0 share blocks, and     *)
(* what the comments of the code say of clear and of the threads' blocks   *)
(* holds, as long as the block size does not change.                       *)
(***************************************************************************)
EXTENDS MemoryClients, BlockPoolProofs

Holding(l) == lstate[l] \in {"held", "doomed"}

Running(p) == tstate[p] = "running"

\* Who allocated last in a block that is in use still uses it, or was a spawn: a
\* list or a spawn, if the block has no owner, else the function of the owner.
LastOwner ==
    \A b \in live : used[b] > 0 =>
        \/ owner[b] = Global /\ \E l \in Lists : Holding(l) /\ lblock[l] = b
        \/ owner[b] = Global /\ \E p \in Pids : first[p] = b
        \/ \E p \in Pids : owner[b] = p /\ Running(p) /\ tblock[p] = b

\* A thread's BlockID is the block of its spawn until it is merged into.
FirstIsSpawn == \A p \in Pids : /\ tstate[p] = "spawned" => tblock[p] = first[p]
                                /\ tstate[p] = "none" => first[p] = NoBlock

SharedInv == PoolInv /\ ClientTypeOK /\ LastOwner /\ FirstIsSpawn

----------------------------------------------------------------------------

USE PidsAssumption, BlockSizesAssumption DEF Owners, Global

LEMMA LiveIds == PoolInv => live \subseteq Ids
<1> SUFFICES ASSUME PoolInv PROVE live \subseteq 1..MaxBlocks
  BY DEF Ids
<1>1. nextID \in 0..MaxBlocks /\ live \subseteq 1..nextID
  BY DEF PoolInv, TypeOK
<1> QED  BY <1>1, MaxBlocksAssumption

LEMMA Typed == PoolInv => /\ blockSize \in BlockSizes /\ blockSize \in Nat \ {0}
                          /\ used \in [Ids -> Nat] /\ size \in [Ids -> Nat]
                          /\ owner \in [Ids -> Owners]
BY DEF PoolInv, TypeOK

\* One block changes hands; the others are as before.
LEMMA AllocOne ==
    ASSUME PoolInv, NEW n \in Nat, NEW o \in Owners, NEW b \in Ids, Alloc(n, o, b)
    PROVE  /\ PoolInv' /\ owner'[b] = o
           /\ \A c \in live' : c # b => /\ c \in live
                                        /\ used'[c] = used[c] /\ owner'[c] = owner[c]
<1>1. live \subseteq Ids /\ used \in [Ids -> Nat] /\ owner \in [Ids -> Owners]
  BY LiveIds, Typed
<1>2. PoolInv'
  BY AllocSound
<1>3. CASE Reuse(n, o, b)
  BY <1>1, <1>2, <1>3 DEF Reuse
<1>4. CASE Fresh(n, o, b)
  BY <1>1, <1>2, <1>4 DEF Fresh
<1> QED  BY <1>3, <1>4 DEF Alloc

LEMMA EmptySome ==
    ASSUME PoolInv, NEW S \in SUBSET live, Empty(S)
    PROVE  /\ PoolInv' /\ live' = live
           /\ \A c \in S : used'[c] = 0
           /\ \A c \in live \ S : used'[c] = used[c] /\ owner'[c] = owner[c]
<1>1. live \subseteq Ids
  BY LiveIds
<1> QED  BY <1>1, EmptySound DEF Empty

LEMMA SharedInit == ClientInit => SharedInv
BY InitSound DEF ClientInit, Init, SharedInv, ClientTypeOK, LastOwner, FirstIsSpawn, NoBlock

\* Every step of the program leaves each block in use with whoever allocated
\* in it last.
LEMMA SharedStep ==
    ASSUME SharedInv, [ClientNext]_allvars PROVE SharedInv'
<1>1. /\ PoolInv /\ ClientTypeOK /\ LastOwner /\ FirstIsSpawn /\ NoBlock \notin Ids
      /\ live \subseteq Ids /\ Global \in Owners /\ Pids \subseteq Owners
      /\ blockSize \in Nat /\ Global \notin Pids /\ careful' = careful
  BY LiveIds, Typed DEF SharedInv, NoBlock, Ids, ClientNext, allvars
<1> USE DEF SharedInv, Holding, Running
<1>2. ASSUME NEW l \in Lists, NEW b \in Ids, NEW n \in Requests, NewList(l, n, b)
      PROVE  SharedInv'
  <2>1. Alloc(n, Global, b) /\ n \in Nat
    BY <1>2, RequestsAssumption DEF NewList
  <2>2. ClientTypeOK' /\ FirstIsSpawn'
    BY <1>1, <1>2 DEF NewList, ClientTypeOK, FirstIsSpawn
  <2>3. LastOwner'
    <3>1. /\ Holding(l)' /\ lblock'[l] = b /\ UNCHANGED <<tstate, tblock, first>>
          /\ \A m \in Lists : Holding(m) => Holding(m)' /\ lblock'[m] = lblock[m]
      BY <1>1, <1>2 DEF NewList, ClientTypeOK
    <3>2. /\ owner'[b] = Global
          /\ \A c \in live' : c # b => /\ c \in live
                                       /\ used'[c] = used[c] /\ owner'[c] = owner[c]
      BY <1>1, <2>1, AllocOne
    <3> QED  BY <1>1, <3>1, <3>2 DEF LastOwner
  <2> QED  BY <1>1, <2>1, <2>2, <2>3, AllocOne
<1>3. ASSUME NEW l \in Lists, NEW b \in Ids, DeletePlain(l, b)
      PROVE  SharedInv'
  <2>1. Alloc(blockSize, Global, b)
    BY <1>3 DEF DeletePlain
  <2>2. ClientTypeOK' /\ FirstIsSpawn'
    BY <1>1, <1>3 DEF DeletePlain, ClientTypeOK, FirstIsSpawn
  <2>3. LastOwner'
    <3>1. /\ Holding(l)' /\ lblock'[l] = b /\ UNCHANGED <<tstate, tblock, first>>
          /\ \A m \in Lists : Holding(m) => Holding(m)' /\ lblock'[m] = lblock[m]
      BY <1>1, <1>3 DEF DeletePlain, ClientTypeOK
    <3>2. /\ owner'[b] = Global
          /\ \A c \in live' : c # b => /\ c \in live
                                       /\ used'[c] = used[c] /\ owner'[c] = owner[c]
      BY <1>1, <2>1, AllocOne
    <3> QED  BY <1>1, <3>1, <3>2 DEF LastOwner
  <2> QED  BY <1>1, <2>1, <2>2, <2>3, AllocOne
<1>4. ASSUME NEW p \in Pids, NEW b \in Ids, Spawn(p, b)
      PROVE  SharedInv'
  <2>1. Alloc(blockSize, Global, b)
    BY <1>4 DEF Spawn
  <2>2. ClientTypeOK' /\ FirstIsSpawn'
    BY <1>1, <1>4 DEF Spawn, ClientTypeOK, FirstIsSpawn
  <2>3. /\ first'[p] = b /\ first[p] = NoBlock /\ UNCHANGED <<lstate, lblock>>
        /\ \A q \in Pids : first[q] \in Ids => first'[q] = first[q]
        /\ \A q \in Pids : Running(q) => Running(q)' /\ tblock'[q] = tblock[q]
    BY <1>1, <1>4 DEF Spawn, ClientTypeOK, FirstIsSpawn
  <2>4. \A c \in live' : c # b => /\ c \in live /\ c \in Ids
                                  /\ used'[c] = used[c] /\ owner'[c] = owner[c]
    BY <1>1, <2>1, AllocOne
  <2>5. owner'[b] = Global
    BY <1>1, <2>1, AllocOne
  <2>6. LastOwner'
    BY <1>1, <2>3, <2>4, <2>5 DEF LastOwner
  <2> QED  BY <1>1, <2>1, <2>2, <2>6, AllocOne
<1>5. ASSUME NEW p \in Pids, NEW b \in Ids, Merge(p, b)
      PROVE  SharedInv'
  <2>1. Alloc(blockSize, p, b)
    BY <1>5 DEF Merge
  <2>2. ClientTypeOK' /\ FirstIsSpawn'
    BY <1>1, <1>5 DEF Merge, ClientTypeOK, FirstIsSpawn
  <2>3. /\ tblock'[p] = b /\ Running(p)' /\ UNCHANGED <<lstate, lblock, first>>
        /\ \A q \in Pids : Running(q) => Running(q)' /\ tblock'[q] = tblock[q]
    BY <1>1, <1>5 DEF Merge, ClientTypeOK
  <2>4. \A c \in live' : c # b => /\ c \in live
                                  /\ used'[c] = used[c] /\ owner'[c] = owner[c]
    BY <1>1, <2>1, AllocOne
  <2>5. owner'[b] = p
    BY <1>1, <2>1, AllocOne
  <2>6. LastOwner'
    BY <1>1, <2>3, <2>4, <2>5 DEF LastOwner
  <2> QED  BY <1>1, <2>1, <2>2, <2>6, AllocOne
<1>6. ASSUME NEW l \in Lists, DeleteList(l) \/ FreePlain(l)
      PROVE  SharedInv'
  <2>1. Empty({lblock[l]} \cap live)
    BY <1>6 DEF DeleteList, FreePlain, Delete
  <2>2. ClientTypeOK' /\ FirstIsSpawn'
    BY <1>1, <1>6 DEF DeleteList, FreePlain, ClientTypeOK, FirstIsSpawn
  <2>3. /\ UNCHANGED <<tstate, tblock, first>>
        /\ \A m \in Lists : m # l => lstate'[m] = lstate[m] /\ lblock'[m] = lblock[m]
    BY <1>1, <1>6 DEF DeleteList, FreePlain, ClientTypeOK
  <2>4. \A c \in live : c # lblock[l] => used'[c] = used[c] /\ owner'[c] = owner[c]
    BY <1>1, <2>1, EmptySome
  <2>5. lblock[l] \in live => used'[lblock[l]] = 0
    BY <1>1, <2>1, EmptySome
  <2>6. LastOwner'
    BY <1>1, <2>1, <2>3, <2>4, <2>5, EmptySome DEF LastOwner
  <2> QED  BY <1>1, <2>1, <2>2, <2>6, EmptySome
<1>7. ASSUME NEW p \in Pids, End(p)
      PROVE  SharedInv'
  <2>1. Empty(OwnedBy(p)) /\ OwnedBy(p) \in SUBSET live
    BY <1>7 DEF End, ReclaimTask, OwnedBy
  <2>2. ClientTypeOK' /\ FirstIsSpawn'
    BY <1>1, <1>7 DEF End, ClientTypeOK, FirstIsSpawn
  <2>3. \A b \in live \ OwnedBy(p) : used[b] > 0 => owner[b] # p
    BY DEF OwnedBy
  <2>4. LastOwner'
    BY <1>1, <1>7, <2>1, <2>3, EmptySome DEF End, ClientTypeOK, LastOwner
  <2> QED  BY <1>1, <2>1, <2>2, <2>4, EmptySome
<1>8. CASE Maintain
  <2>1. ClientTypeOK' /\ FirstIsSpawn'
    BY <1>1, <1>8 DEF Maintain, clients, ClientTypeOK, FirstIsSpawn
  <2>2. live' \subseteq live /\ used' = used /\ owner' = owner
    BY <1>8 DEF Maintain, Compact, Clear, SetBlock
  <2>3. LastOwner'
    BY <1>1, <1>8, <2>2 DEF Maintain, clients, LastOwner
  <2> QED  BY <1>1, <1>8, <2>1, <2>3, MaintainSound DEF Maintain
<1>9. CASE UNCHANGED allvars
  BY <1>1, <1>9 DEF allvars, vars, clients, PoolInv, TypeOK, NoDangling, ClientTypeOK,
     LastOwner, FirstIsSpawn
<1> QED
  BY <1>2, <1>3, <1>4, <1>5, <1>6, <1>7, <1>8, <1>9 DEF ClientNext

\* The invariant of every program.
THEOREM SharedInvariant == ClientSpec => []SharedInv
<1>1. SharedInv /\ [ClientNext]_allvars => SharedInv'
  BY SharedStep
<1> QED  BY <1>1, SharedInit, PTL DEF ClientSpec

\* Lists and threads hold ids of blocks, and a list has one exactly while it has
\* one to be freed.
THEOREM ClientsTyped == ClientSpec => []ClientTypeOK
<1>1. SharedInv => ClientTypeOK
  BY DEF SharedInv
<1> QED  BY <1>1, SharedInvariant, PTL

\* Under any program the manager's variables keep their types, and the heap
\* refers to blocks of the table only.
THEOREM PoolStaysSound == ClientSpec => [](TypeOK /\ NoDangling)
<1>1. SharedInv => TypeOK /\ NoDangling
  BY DEF SharedInv, PoolInv
<1> QED  BY <1>1, SharedInvariant, PTL

\* Whatever the program does, the only blocks that stay in use for nobody are
\* those that spawn took for threads which have been merged into.
THEOREM OnlySpawnBlocksLeak == ClientSpec => []OnlySpawnsLeak
<1>1. SharedInv => OnlySpawnsLeak
  <2> SUFFICES ASSUME SharedInv, NEW b \in live, used[b] > 0,
                      ListsIn(b) \cup TasksIn(b) = {}
               PROVE  \E p \in Pids : tstate[p] \in {"running", "ended"} /\ first[p] = b
    BY DEF OnlySpawnsLeak
  <2>1. /\ ~ \E l \in Lists : Holding(l) /\ lblock[l] = b
        /\ ~ \E p \in Pids : tstate[p] \in {"spawned", "running"} /\ tblock[p] = b
    BY DEF ListsIn, TasksIn, Holding
  <2>2. PICK p \in Pids : first[p] = b
    BY <2>1 DEF SharedInv, LastOwner, Running
  <2>3. tstate[p] \in {"none", "spawned", "running", "ended"} /\ b # NoBlock
    BY LiveIds DEF SharedInv, ClientTypeOK, Ids, NoBlock
  <2>4. /\ tstate[p] = "spawned" => tblock[p] = first[p]
        /\ tstate[p] = "none" => first[p] = NoBlock
    BY DEF SharedInv, FirstIsSpawn
  <2>5. tstate[p] # "none"
    BY <2>2, <2>3, <2>4
  <2>6. tstate[p] # "spawned"
    BY <2>1, <2>2, <2>4
  <2> QED  BY <2>2, <2>3, <2>5, <2>6
<1> QED  BY <1>1, SharedInvariant, PTL

\* The end of a merged function empties its own block at most: no other block
\* in use has its thread as owner.
THEOREM OwnersAreRunning == ClientSpec => []OwnersRun
<1>1. SharedInv => OwnersRun
  BY DEF SharedInv, LastOwner, Running, OwnersRun
<1> QED  BY <1>1, SharedInvariant, PTL

----------------------------------------------------------------------------

\* Every request fits into an empty block, those of threads and of delete too.
AllFit == /\ \A n \in Requests, s \in BlockSizes : n <= s
          /\ \A s, t \in BlockSizes : s = t

\* If so, a freed block stays in the heap until it is dropped, whatever lists
\* and threads do.
THEOREM FreedBlocksReusable == ASSUME AllFit PROVE ClientSpec => []IdleQueued
<1>1. ClientInit => ReuseInv
  BY InitReuse DEF ClientInit
<1>2. ReuseInv /\ [ClientNext]_allvars => ReuseInv'
  <2> SUFFICES ASSUME ReuseInv, [ClientNext]_allvars PROVE ReuseInv'
    OBVIOUS
  <2>1. /\ blockSize \in Nat /\ \A s \in BlockSizes : blockSize <= s
        /\ Global \in Owners /\ Pids \subseteq Owners
    BY AllFit DEF AllFit, ReuseInv, PoolInv, TypeOK
  <2>2. ASSUME NEW l \in Lists, NEW b \in Ids, NEW n \in Requests, NewList(l, n, b)
        PROVE  ReuseInv'
    <3>1. Alloc(n, Global, b) /\ n \in Nat /\ \A s \in BlockSizes : n <= s
      BY <2>2, AllFit, RequestsAssumption DEF AllFit, NewList
    <3> QED  BY <2>1, <3>1, AllocKeepsIdle
  <2>3. ASSUME NEW b \in Ids, \/ \E l \in Lists : DeletePlain(l, b)
                              \/ \E p \in Pids : Spawn(p, b) \/ Merge(p, b)
        PROVE  ReuseInv'
    <3>1. \E o \in Owners : Alloc(blockSize, o, b)
      BY <2>1, <2>3 DEF DeletePlain, Spawn, Merge
    <3> QED  BY <2>1, <3>1, AllocKeepsIdle
  <2>4. ASSUME NEW S \in SUBSET live, Empty(S) PROVE ReuseInv'
    BY <2>4, EmptyKeepsIdle
  <2>5. CASE \/ \E l \in Lists : DeleteList(l) \/ FreePlain(l)
             \/ \E p \in Pids : End(p)
    BY <2>4, <2>5 DEF DeleteList, FreePlain, Delete, End, ReclaimTask, OwnedBy
  <2>6. CASE Maintain
    BY <2>6, MaintainKeepsIdle DEF Maintain
  <2>7. CASE UNCHANGED allvars
    BY <2>7 DEF allvars, vars, ReuseInv, PoolInv, TypeOK, NoDangling, Sized, IdleQueued, Idle
  <2> QED  BY <2>2, <2>3, <2>5, <2>6, <2>7 DEF ClientNext
<1>3. ReuseInv => IdleQueued
  BY DEF ReuseInv
<1> QED  BY <1>1, <1>2, <1>3, PTL DEF ClientSpec

----------------------------------------------------------------------------
(* Careful programs.                                                       *)

\* The block size does not change.  That is needed, as a larger block than the
\* present size has room beside a function's part; and so is care: a list of
\* size 0 takes a full block over from the function it belongs to, and a delete
\* empties the block under the others in it.
OneBlockSize == \A s, t \in BlockSizes : s = t

\* Block b is in the table, full, and owned by o.
Taken(b, o) == b \in live /\ used[b] = blockSize /\ owner[b] = o

OneSize == \A b \in live : size[b] = blockSize
\* The block of a list is in use, and not owned by a task; ...
ListsStay == \A l \in Lists : Holding(l) =>
                 /\ lblock[l] \in live /\ used[lblock[l]] > 0 /\ owner[lblock[l]] = Global
\* ... if the list is about to be freed, nobody else is there; ...
DoomedAlone == \A l \in Lists : lstate[l] = "doomed" =>
                   /\ Taken(lblock[l], Global)
                   /\ \A m \in Lists : Holding(m) /\ lblock[m] = lblock[l] => m = l
\* ... and threads fill their blocks.
SpawnTakes == \A p \in Pids : tstate[p] = "spawned" =>
                  /\ Taken(tblock[p], Global)
                  /\ \A l \in Lists : Holding(l) => lblock[l] # tblock[p]
RunTakes == \A p \in Pids : Running(p) => Taken(tblock[p], p)

UserInv == ListsStay /\ DoomedAlone /\ SpawnTakes /\ RunTakes
CInv == SharedInv /\ OneSize /\ UserInv

----------------------------------------------------------------------------

\* Room is found in a block that is not full, and the blocks of the others are as
\* before; room for a whole block is found in one that was empty or new.
LEMMA AllocCareful ==
    ASSUME PoolInv, OneSize, NEW n \in Nat \ {0}, NEW o \in Owners, NEW b \in Ids,
           Alloc(n, o, b)
    PROVE  /\ PoolInv' /\ OneSize' /\ blockSize' = blockSize
           /\ b \in live' /\ used'[b] > 0 /\ owner'[b] = o
           /\ \A c \in live : c # b => /\ c \in live'
                                       /\ used'[c] = used[c] /\ owner'[c] = owner[c]
           /\ \A q : ~Taken(b, q)
           /\ n = blockSize => Taken(b, o)' /\ (b \in live => used[b] = 0)
<1>1. /\ blockSize \in Nat \ {0} /\ live \subseteq Ids
      /\ used \in [Ids -> Nat] /\ size \in [Ids -> Nat] /\ owner \in [Ids -> Owners]
  BY LiveIds, Typed
<1>2. PoolInv'
  BY <1>1, AllocSound
<1>3. CASE Reuse(n, o, b)
  <2>1. b \in live /\ used[b] + n <= blockSize
    BY <1>3 DEF Reuse, Fits, PoolInv, NoDangling, OneSize
  <2>2. used'[b] = used[b] + n /\ owner'[b] = o
    BY <1>1, <1>3, <2>1 DEF Reuse
  <2>3. \A c \in live : c # b => used'[c] = used[c] /\ owner'[c] = owner[c]
    BY <1>1, <1>3 DEF Reuse
  <2>4. live' = live /\ size' = size /\ blockSize' = blockSize
    BY <1>3 DEF Reuse
  <2>5. used[b] \in Nat
    BY <1>1, <2>1
  <2> QED
    BY <1>1, <1>2, <2>1, <2>2, <2>3, <2>4, <2>5 DEF Taken, OneSize
<1>4. CASE Fresh(n, o, b)
  <2>1. b \notin live
    BY <1>1, <1>4 DEF Fresh, PoolInv, TypeOK
  <2>2. used'[b] = n /\ owner'[b] = o /\ size'[b] = blockSize
    BY <1>1, <1>4 DEF Fresh
  <2>3. \A c \in live : c # b => /\ used'[c] = used[c] /\ owner'[c] = owner[c]
                                 /\ size'[c] = size[c]
    BY <1>1, <1>4 DEF Fresh
  <2>4. live' = live \cup {b} /\ blockSize' = blockSize
    BY <1>4 DEF Fresh
  <2> QED
    BY <1>1, <1>2, <2>1, <2>2, <2>3, <2>4 DEF Taken, OneSize
<1> QED  BY <1>3, <1>4 DEF Alloc

\* Blocks are emptied: the others are as before.
LEMMA EmptyCareful ==
    ASSUME PoolInv, OneSize, NEW S \in SUBSET live, Empty(S)
    PROVE  /\ PoolInv' /\ OneSize' /\ live' = live /\ blockSize' = blockSize
           /\ \A c \in live \ S : used'[c] = used[c] /\ owner'[c] = owner[c]
<1>1. live \subseteq Ids
  BY LiveIds
<1> QED  BY <1>1, EmptySound DEF Empty, OneSize

\* Compact and Clear drop empty blocks only.
LEMMA MaintainCareful ==
    ASSUME OneBlockSize, PoolInv, OneSize,
           Compact \/ Clear \/ \E n \in BlockSizes : SetBlock(n)
    PROVE  /\ PoolInv' /\ OneSize' /\ blockSize' = blockSize
           /\ used' = used /\ owner' = owner
           /\ \A c \in live : used[c] > 0 => c \in live'
<1>1. blockSize \in BlockSizes /\ used \in [Ids -> Nat] /\ live \subseteq Ids
  BY Typed, LiveIds
<1>2. PoolInv'
  BY MaintainSound
<1>3. CASE Compact \/ Clear
  BY <1>1, <1>2, <1>3 DEF Compact, Clear, Idle, OneSize
<1>4. ASSUME NEW n \in BlockSizes, SetBlock(n)
      PROVE  OneSize' /\ blockSize' = blockSize /\ UNCHANGED <<used, owner, live>>
  <2>1. n = blockSize
    BY <1>1 DEF OneBlockSize
  <2> QED  BY <1>4, <2>1 DEF SetBlock, OneSize
<1> QED  BY <1>2, <1>3, <1>4

----------------------------------------------------------------------------

LEMMA ClientInitInv == ClientInit => CInv
BY SharedInit DEF ClientInit, Init, CInv, OneSize, UserInv, ListsStay, DoomedAlone,
   SpawnTakes, RunTakes, Holding, Running, NoBlock

\* Every step of a careful program keeps the invariant.
LEMMA ClientStepInv ==
    ASSUME OneBlockSize, careful, CInv, [ClientNext]_allvars PROVE CInv'
<1>1. /\ PoolInv /\ ClientTypeOK /\ OneSize /\ UserInv /\ NoBlock \notin Ids
      /\ live \subseteq Ids /\ Global \in Owners /\ Pids \subseteq Owners
      /\ Global \notin Pids /\ blockSize \in Nat \ {0}
      /\ used \in [Ids -> Nat]
  BY LiveIds, Typed DEF CInv, SharedInv, NoBlock, Ids
<1>2. SharedInv'
  BY SharedStep DEF CInv
<1> SUFFICES (OneSize /\ UserInv)'
  BY <1>2 DEF CInv
<1> USE DEF UserInv, Holding, Running
<1>3. ASSUME NEW l \in Lists, NEW b \in Ids, NEW n \in Requests, NewList(l, n, b)
      PROVE  (OneSize /\ UserInv)'
  <2>1. n \in Nat \ {0} /\ Alloc(n, Global, b)
    BY <1>3, RequestsAssumption DEF NewList
  <2>2. /\ lstate[l] = "none" /\ lstate' = [lstate EXCEPT ![l] = "held"]
        /\ lblock' = [lblock EXCEPT ![l] = b] /\ UNCHANGED <<tstate, tblock>>
        /\ lstate'[l] = "held" /\ lblock'[l] = b
        /\ \A m \in Lists : m # l => lstate'[m] = lstate[m] /\ lblock'[m] = lblock[m]
    BY <1>1, <1>3 DEF NewList, ClientTypeOK
  <2>3. ListsStay'
    BY <1>1, <2>1, <2>2, AllocCareful DEF ListsStay
  <2>4. DoomedAlone'
    BY <1>1, <2>1, <2>2, AllocCareful DEF DoomedAlone, Taken
  <2>5. \A c, q : Taken(c, q) => Taken(c, q)' /\ c # b
    BY <1>1, <2>1, AllocCareful DEF Taken
  <2>6. SpawnTakes' /\ RunTakes'
    BY <1>1, <2>2, <2>5 DEF SpawnTakes, RunTakes
  <2> QED  BY <1>1, <2>1, <2>3, <2>4, <2>6, AllocCareful
<1>4. ASSUME NEW l \in Lists, NEW b \in Ids, DeletePlain(l, b)
      PROVE  (OneSize /\ UserInv)'
  <2>1. Alloc(blockSize, Global, b)
    BY <1>4 DEF DeletePlain
  <2>2. /\ lstate[l] = "none" /\ UNCHANGED <<tstate, tblock>>
        /\ lstate'[l] = "doomed" /\ lblock'[l] = b
        /\ \A m \in Lists : m # l => lstate'[m] = lstate[m] /\ lblock'[m] = lblock[m]
    BY <1>1, <1>4 DEF DeletePlain, ClientTypeOK
  <2>3. \A m \in Lists : Holding(m) => lblock[m] # b
    BY <1>1, <2>1, AllocCareful DEF ListsStay
  <2>4. ListsStay'
    BY <1>1, <2>1, <2>2, AllocCareful DEF ListsStay
  <2>5. DoomedAlone'
    BY <1>1, <2>1, <2>2, <2>3, AllocCareful DEF DoomedAlone, Taken
  <2>6. \A c, q : Taken(c, q) => Taken(c, q)' /\ c # b
    BY <1>1, <2>1, AllocCareful DEF Taken
  <2>7. SpawnTakes' /\ RunTakes'
    BY <1>1, <2>2, <2>6 DEF SpawnTakes, RunTakes
  <2> QED  BY <1>1, <2>1, <2>4, <2>5, <2>7, AllocCareful
<1>5. ASSUME NEW p \in Pids, NEW b \in Ids, NEW o \in Owners,
             Alloc(blockSize, o, b), tblock'[p] = b,
             \/ tstate'[p] = "spawned" /\ o = Global
             \/ tstate'[p] = "running" /\ o = p,
             \A q \in Pids : q # p => tstate'[q] = tstate[q] /\ tblock'[q] = tblock[q],
             UNCHANGED <<lstate, lblock>>
      PROVE  (OneSize /\ UserInv)'
  <2>1. \A m \in Lists : Holding(m) => lblock[m] # b
    BY <1>1, <1>5, AllocCareful DEF ListsStay
  <2>2. ListsStay'
    BY <1>1, <1>5, <2>1, AllocCareful DEF ListsStay
  <2>3. DoomedAlone'
    BY <1>1, <1>5, AllocCareful DEF DoomedAlone, Taken
  <2>4. \A c, q : Taken(c, q) => Taken(c, q)'
    BY <1>1, <1>5, AllocCareful DEF Taken
  <2>5. Taken(b, o)'
    BY <1>1, <1>5, AllocCareful
  <2>6. SpawnTakes'
    BY <1>1, <1>5, <2>1, <2>4, <2>5 DEF SpawnTakes
  <2>7. RunTakes'
    BY <1>1, <1>5, <2>4, <2>5 DEF RunTakes
  <2> QED  BY <1>1, <1>5, <2>2, <2>3, <2>6, <2>7, AllocCareful
<1>6. ASSUME NEW p \in Pids, NEW b \in Ids, Spawn(p, b)
      PROVE  (OneSize /\ UserInv)'
  <2>1. /\ Alloc(blockSize, Global, b) /\ UNCHANGED <<lstate, lblock>>
        /\ tstate'[p] = "spawned" /\ tblock'[p] = b
        /\ \A q \in Pids : q # p => tstate'[q] = tstate[q] /\ tblock'[q] = tblock[q]
    BY <1>1, <1>6 DEF Spawn, ClientTypeOK
  <2> QED  BY <1>1, <1>5, <2>1
<1>7. ASSUME NEW p \in Pids, NEW b \in Ids, Merge(p, b)
      PROVE  (OneSize /\ UserInv)'
  <2>1. /\ Alloc(blockSize, p, b) /\ UNCHANGED <<lstate, lblock>>
        /\ tstate'[p] = "running" /\ tblock'[p] = b
        /\ \A q \in Pids : q # p => tstate'[q] = tstate[q] /\ tblock'[q] = tblock[q]
    BY <1>1, <1>7 DEF Merge, ClientTypeOK
  <2> QED  BY <1>1, <1>5, <2>1
<1>8. ASSUME NEW l \in Lists, DeleteList(l) \/ FreePlain(l)
      PROVE  (OneSize /\ UserInv)'
  <2> DEFINE S == {lblock[l]} \cap live
  <2>1. Empty(S) /\ S \in SUBSET live
    BY <1>8 DEF DeleteList, FreePlain, Delete
  <2>2. /\ Holding(l) /\ UNCHANGED <<tstate, tblock>> /\ lstate'[l] \in {"none", "deleted"}
        /\ \A m \in Lists : m # l => lstate'[m] = lstate[m] /\ lblock'[m] = lblock[m]
    BY <1>1, <1>8 DEF DeleteList, FreePlain, ClientTypeOK
  <2>3. \A m \in Lists : Holding(m) /\ m # l => lblock[m] \notin S
    BY <1>1, <1>8, <2>2 DEF DeleteList, FreePlain, ListsIn, DoomedAlone
  <2>4. \A p \in Pids : tstate[p] \in {"spawned", "running"} => tblock[p] \notin S
    BY <1>1, <2>2 DEF SpawnTakes, RunTakes, Taken, ListsStay
  <2> HIDE DEF S
  <2>5. ListsStay'
    BY <1>1, <2>1, <2>2, <2>3, EmptyCareful DEF ListsStay
  <2>6. DoomedAlone'
    BY <1>1, <2>1, <2>2, <2>3, EmptyCareful DEF DoomedAlone, Taken
  <2>7. SpawnTakes' /\ RunTakes'
    BY <1>1, <2>1, <2>2, <2>4, EmptyCareful DEF SpawnTakes, RunTakes, Taken
  <2> QED  BY <1>1, <2>1, <2>5, <2>6, <2>7, EmptyCareful
<1>9. ASSUME NEW p \in Pids, End(p)
      PROVE  (OneSize /\ UserInv)'
  <2>1. Empty(OwnedBy(p)) /\ OwnedBy(p) \in SUBSET live
    BY <1>9 DEF End, ReclaimTask, OwnedBy
  <2>2. \A c \in live : owner[c] # p => c \notin OwnedBy(p)
    BY DEF OwnedBy
  <2>3. /\ tstate'[p] = "ended" /\ UNCHANGED <<lstate, lblock, tblock>>
        /\ \A q \in Pids : q # p => tstate'[q] = tstate[q]
    BY <1>1, <1>9 DEF End, ClientTypeOK
  <2>4. \A c, q : Taken(c, q) /\ q # p => Taken(c, q)'
    BY <1>1, <2>1, <2>2, EmptyCareful DEF Taken
  <2>5. ListsStay'
    BY <1>1, <2>1, <2>2, <2>3, EmptyCareful DEF ListsStay
  <2>6. DoomedAlone'
    BY <1>1, <2>3, <2>4 DEF DoomedAlone
  <2>7. SpawnTakes' /\ RunTakes'
    BY <1>1, <2>3, <2>4 DEF SpawnTakes, RunTakes
  <2> QED  BY <1>1, <2>1, <2>5, <2>6, <2>7, EmptyCareful
<1>10. CASE Maintain
  <2>1. \A c, q : Taken(c, q) => Taken(c, q)'
    BY <1>1, <1>10, MaintainCareful DEF Maintain, Taken
  <2>2. ListsStay'
    BY <1>1, <1>10, MaintainCareful DEF Maintain, clients, ListsStay
  <2>3. DoomedAlone' /\ SpawnTakes' /\ RunTakes'
    BY <1>1, <1>10, <2>1 DEF Maintain, clients, DoomedAlone, SpawnTakes, RunTakes
  <2> QED  BY <1>1, <1>10, <2>2, <2>3, MaintainCareful DEF Maintain
<1>11. CASE UNCHANGED allvars
  BY <1>1, <1>11 DEF allvars, vars, clients, OneSize, ListsStay, DoomedAlone, SpawnTakes,
     RunTakes, Taken
<1> QED
  BY <1>3, <1>4, <1>6, <1>7, <1>8, <1>9, <1>10, <1>11 DEF ClientNext

\* The invariant of careful programs.
THEOREM ClientInvariant ==
    ASSUME OneBlockSize PROVE ClientSpec => [](careful => CInv)
<1>1. (careful => CInv) /\ [ClientNext]_allvars => (careful => CInv)'
  <2> SUFFICES ASSUME careful => CInv, [ClientNext]_allvars, careful' PROVE CInv'
    OBVIOUS
  <2>1. careful
    BY DEF ClientNext, allvars
  <2> QED  BY <2>1, ClientStepInv
<1>2. ClientInit => (careful => CInv)
  BY ClientInitInv
<1> QED  BY <1>1, <1>2, PTL DEF ClientSpec

\* compact and clear never drop the block of a list that is not deleted, though
\* lists share blocks with each other and take the blocks of ended functions.
THEOREM HeldListsKeepTheirBlocks ==
    ASSUME OneBlockSize PROVE ClientSpec => []HeldBlocksLive
<1>1. (careful => CInv) => HeldBlocksLive
  BY DEF CInv, UserInv, ListsStay, Holding, HeldBlocksLive
<1> QED  BY <1>1, ClientInvariant, PTL

\* The block of a running function is used by nobody else: no list finds room in
\* it, and no delete or end of another function empties it.
THEOREM TaskBlocksExclusive ==
    ASSUME OneBlockSize PROVE ClientSpec => []TaskBlockOwn
<1>1. (careful => CInv) => TaskBlockOwn
  <2> SUFFICES ASSUME CInv, NEW p \in Pids, Running(p)
               PROVE  LET b == tblock[p] IN
                      /\ b \in live /\ used[b] = size[b] /\ owner[b] = p
                      /\ ListsIn(b) = {} /\ TasksIn(b) = {p}
    BY DEF TaskBlockOwn, Running
  <2>1. Taken(tblock[p], p) /\ Global \notin Pids
    BY DEF CInv, UserInv, RunTakes
  <2>2. used[tblock[p]] = size[tblock[p]]
    BY <2>1 DEF CInv, OneSize, Taken
  <2>3. ListsIn(tblock[p]) = {}
    BY <2>1 DEF CInv, UserInv, ListsStay, Holding, Taken, ListsIn
  <2>4. \A q \in Pids : tstate[q] = "spawned" => tblock[q] # tblock[p]
    BY <2>1 DEF CInv, UserInv, SpawnTakes, Taken
  <2>5. \A q \in Pids : Running(q) /\ tblock[q] = tblock[p] => q = p
    BY <2>1 DEF CInv, UserInv, RunTakes, Taken
  <2> QED  BY <2>1, <2>2, <2>3, <2>4, <2>5 DEF Taken, TasksIn, Running
<1> QED  BY <1>1, ClientInvariant, PTL

\* When a merged function ends, ReclaimTask finds its block and empties it.
THEOREM MergedBlocksReclaimed == ASSUME OneBlockSize PROVE ClientSpec => ReclaimedAtEnd
<1>1. (careful => CInv) /\ [ClientNext]_allvars =>
          [careful => \A p \in Pids : tstate[p] = "running" /\ tstate'[p] = "ended" =>
              used'[tblock[p]] = 0 /\ owner'[tblock[p]] = Global]_allvars
  <2> SUFFICES ASSUME CInv, [ClientNext]_allvars, NEW p \in Pids,
                      tstate[p] = "running", tstate'[p] = "ended"
               PROVE  used'[tblock[p]] = 0 /\ owner'[tblock[p]] = Global
    OBVIOUS
  <2>1. End(p)
    <3>1. tstate \in [Pids -> {"none", "spawned", "running", "ended"}]
      BY DEF CInv, SharedInv, ClientTypeOK
    <3>2. ASSUME NEW q \in Pids, NEW b \in Ids, Spawn(q, b) \/ Merge(q, b) PROVE FALSE
      BY <3>1, <3>2 DEF Spawn, Merge
    <3>3. ASSUME NEW q \in Pids, End(q) PROVE q = p
      BY <3>1, <3>3 DEF End
    <3> QED
      BY <3>2, <3>3 DEF ClientNext, allvars, clients, DeleteList, FreePlain, DeletePlain,
         NewList, Maintain
  <2>2. Taken(tblock[p], p)
    BY DEF CInv, UserInv, RunTakes, Running
  <2>3. tblock[p] \in OwnedBy(p) /\ tblock[p] \in Ids
    BY <2>2, Typed, LiveIds DEF CInv, SharedInv, Taken, OwnedBy
  <2> QED  BY <2>1, <2>3 DEF End, ReclaimTask, Empty
<1> QED  BY <1>1, ClientInvariant, PTL DEF ClientSpec, ReclaimedAtEnd
=============================================================================
