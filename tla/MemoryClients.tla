--------------------------- MODULE MemoryClients ---------------------------
(***************************************************************************)
(* The memory manager together with those who use it (internal/lang/       *)
(* eval.go): lists made by "new T[k]", the delete statement, and the       *)
(* threads of taskm, which take a block when they are spawned and one for  *)
(* each function merged into them.  Each call of the manager is atomic;    *)
(* what a statement does between two calls may interleave with the rest.   *)
(***************************************************************************)
EXTENDS BlockPool

CONSTANTS
    Lists       \* the lists of the program

VARIABLES
    lstate,     \* "none", "held", "doomed" (delete is about to free it), "deleted"
    lblock,     \* List.blockID
    tstate,     \* "none", "spawned" (nothing merged yet), "running", "ended"
    tblock,     \* Task.BlockID
    first,      \* history: the block newThread took for the thread
    careful     \* whether the program is one that makes no list of size 0, and
                \* deletes a list once and only while no other is in its block

clients == <<lstate, lblock, tstate, tblock, first>>
allvars == <<vars, clients, careful>>

NoBlock == 0

ClientInit == /\ Init
              /\ lstate = [l \in Lists |-> "none"]
              /\ lblock = [l \in Lists |-> NoBlock]
              /\ tstate = [p \in Pids |-> "none"]
              /\ tblock = [p \in Pids |-> NoBlock]
              /\ first  = [p \in Pids |-> NoBlock]
              /\ careful \in BOOLEAN

\* Who relies on block b at the moment: the lists that have not been deleted,
\* and the threads whose BlockID it is, until their function has ended.
ListsIn(b) == {l \in Lists : lblock[l] = b /\ lstate[l] \in {"held", "doomed"}}
TasksIn(b) == {p \in Pids : tblock[p] = b /\ tstate[p] \in {"spawned", "running"}}

\* new T[k]: the list gets a block with room for it.
NewList(l, n, b) ==
    /\ lstate[l] = "none"
    /\ careful => n > 0
    /\ Alloc(n, Global, b)
    /\ lstate' = [lstate EXCEPT ![l] = "held"]
    /\ lblock' = [lblock EXCEPT ![l] = b]
    /\ UNCHANGED <<tstate, tblock, first>>

\* delete of a list that has a block: the block is emptied.  Nothing in the
\* code keeps a program from deleting the list again, or while other lists
\* are in the block.
DeleteList(l) ==
    /\ lstate[l] \in {"held", "deleted"}
    /\ careful => lstate[l] = "held" /\ ListsIn(lblock[l]) = {l}
    /\ Delete(lblock[l])
    /\ lstate' = [lstate EXCEPT ![l] = "deleted"]
    /\ UNCHANGED <<lblock, tstate, tblock, first>>

\* delete of a list without a block (a literal) first allocates one, ...
DeletePlain(l, b) ==
    /\ lstate[l] = "none"
    /\ Alloc(blockSize, Global, b)
    /\ lstate' = [lstate EXCEPT ![l] = "doomed"]
    /\ lblock' = [lblock EXCEPT ![l] = b]
    /\ UNCHANGED <<tstate, tblock, first>>

\* Mutant: the list keeps the block it was freed from.
FreePlainKept(l) ==
    /\ lstate[l] = "doomed"
    /\ Delete(lblock[l])
    /\ lstate' = [lstate EXCEPT ![l] = "none"]
    /\ UNCHANGED <<lblock, tstate, tblock, first>>

\* Mutant: the block is not freed.
FreePlainUnfreed(l) ==
    /\ lstate[l] = "doomed"
    /\ lstate' = [lstate EXCEPT ![l] = "none"]
    /\ lblock' = [lblock EXCEPT ![l] = NoBlock]
    /\ UNCHANGED <<vars, tstate, tblock, first>>

\* ... then frees it; the list itself still has none.
FreePlain(l) ==
    /\ lstate[l] = "doomed"
    /\ Delete(lblock[l])
    /\ lstate' = [lstate EXCEPT ![l] = "none"]
    /\ lblock' = [lblock EXCEPT ![l] = NoBlock]
    /\ UNCHANGED <<tstate, tblock, first>>

\* taskm.spawn(): a block for the thread, owned by no task.
Spawn(p, b) ==
    /\ tstate[p] = "none"
    /\ Alloc(blockSize, Global, b)
    /\ tstate' = [tstate EXCEPT ![p] = "spawned"]
    /\ tblock' = [tblock EXCEPT ![p] = b]
    /\ first'  = [first EXCEPT ![p] = b]
    /\ UNCHANGED <<lstate, lblock>>

\* Mutant: the block is owned by no task.
MergeUnowned(p, b) ==
    /\ tstate[p] \in {"spawned", "ended"}
    /\ Alloc(blockSize, Global, b)
    /\ tstate' = [tstate EXCEPT ![p] = "running"]
    /\ tblock' = [tblock EXCEPT ![p] = b]
    /\ UNCHANGED <<lstate, lblock, first>>

\* taskm.merge: a block for the function, owned by the thread.  BlockID is
\* overwritten, and with it the only reference to the block of the spawn.
Merge(p, b) ==
    /\ tstate[p] \in {"spawned", "ended"}
    /\ Alloc(blockSize, p, b)
    /\ tstate' = [tstate EXCEPT ![p] = "running"]
    /\ tblock' = [tblock EXCEPT ![p] = b]
    /\ UNCHANGED <<lstate, lblock, first>>

\* Mutant: ReclaimTask is not called.
EndUnreclaimed(p) ==
    /\ tstate[p] = "running"
    /\ tstate' = [tstate EXCEPT ![p] = "ended"]
    /\ UNCHANGED <<vars, lstate, lblock, tblock, first>>

\* The merged function has ended: ReclaimTask.
End(p) ==
    /\ tstate[p] = "running"
    /\ ReclaimTask(p)
    /\ tstate' = [tstate EXCEPT ![p] = "ended"]
    /\ UNCHANGED <<lstate, lblock, tblock, first>>

\* GlobalMemory.compact(), .clear() and .setBlock(n).
Maintain == /\ \/ Compact \/ Clear
               \/ \E n \in BlockSizes : SetBlock(n)
            /\ UNCHANGED clients

ClientNext ==
    /\ \/ \E l \in Lists : \/ DeleteList(l) \/ FreePlain(l)
                           \/ \E b \in Ids : \/ DeletePlain(l, b)
                                             \/ \E n \in Requests : NewList(l, n, b)
       \/ \E p \in Pids : \/ End(p)
                          \/ \E b \in Ids : Spawn(p, b) \/ Merge(p, b)
       \/ Maintain
    /\ UNCHANGED careful

ClientSpec == ClientInit /\ [][ClientNext]_allvars

----------------------------------------------------------------------------

\* The variables hold blocks and states, and a list or thread refers to a block
\* exactly while it has one.
ClientTypeOK == /\ lstate \in [Lists -> {"none", "held", "doomed", "deleted"}]
                /\ lblock \in [Lists -> Ids \cup {NoBlock}]
                /\ tstate \in [Pids -> {"none", "spawned", "running", "ended"}]
                /\ tblock \in [Pids -> Ids \cup {NoBlock}]
                /\ first  \in [Pids -> Ids \cup {NoBlock}]
                /\ careful \in BOOLEAN
                /\ \A l \in Lists : lstate[l] = "none" <=> lblock[l] = NoBlock
                /\ \A p \in Pids  : tstate[p] = "none" <=> tblock[p] = NoBlock

\* Blocks that stay in use for nobody are lost.  The code does lose the block of
\* a spawn, when merge overwrites the BlockID of the thread; these are the only
\* ones, one for each thread that has been merged into, although delete empties
\* blocks under their users and lists of no size take the blocks of others over.
OnlySpawnsLeak ==
    \A b \in live : used[b] > 0 /\ ListsIn(b) \cup TasksIn(b) = {} =>
        \E p \in Pids : tstate[p] \in {"running", "ended"} /\ first[p] = b

\* A block in use that has an owner is the one the owner's function runs in, so
\* the end of that function empties no block of anybody else's.
OwnersRun ==
    \A b \in live, p \in Pids :
        used[b] > 0 /\ owner[b] = p => tstate[p] = "running" /\ tblock[p] = b

\* In careful programs the block of a running function is its own: in the table,
\* full, owned by its thread, and used by no list and no other thread.
TaskBlockOwn ==
    careful => \A p \in Pids : tstate[p] = "running" =>
        LET b == tblock[p] IN
        /\ b \in live /\ used[b] = size[b] /\ owner[b] = p
        /\ ListsIn(b) = {} /\ TasksIn(b) = {p}

\* In careful programs compact and clear keep the blocks in use: the block of a
\* list that has not been deleted is in the table.  (In others the code breaks
\* this: Delete empties the whole block under the other lists in it.)
HeldBlocksLive ==
    careful => \A l \in Lists : lstate[l] = "held" => lblock[l] \in live

\* When a merged function of a careful program has ended, its block is empty and
\* unowned.
ReclaimedAtEnd ==
    [][careful => \A p \in Pids : tstate[p] = "running" /\ tstate'[p] = "ended" =>
          used'[tblock[p]] = 0 /\ owner'[tblock[p]] = Global]_allvars
=============================================================================
