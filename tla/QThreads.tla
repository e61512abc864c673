----------------------------- MODULE QThreads ------------------------------
(***************************************************************************)
(* The task runtime of compiled programs, POSIX branch                     *)
(* (compiler/qthreads.c.txt): ql_merge pushes a task on a ring buffer that *)
(* a spin lock guards, a fixed pool of workers pops and runs them, and     *)
(* ql_block spins on the task's done flag.  Threads that find the ring     *)
(* empty or full sleep on one condition variable.                          *)
(*                                                                         *)
(* Thread 0 is the program's main thread; the others are the workers.  A   *)
(* task's function and argument are one value, the number of the ql_merge  *)
(* that wrote them.  The ring is read and written in separate steps, so    *)
(* that it is the lock that keeps it sound.                                *)
(***************************************************************************)
EXTENDS Naturals, FiniteSets

CONSTANTS
    Tasks,      \* the tasks the program made with ql_spawn
    NoTask,     \* no task: NULL
    QPOOL_N,    \* number of workers
    QCAP,       \* capacity of the ring, a power of two
    MaxMerges,  \* bound on the number of calls of ql_merge
    Nested,     \* whether task functions call ql_merge and ql_block too
    Idle        \* whether the program merges into a task only when it is idle

ASSUME BoundsAssumption == /\ QPOOL_N \in Nat \ {0}
                           /\ QCAP \in Nat \ {0}
                           /\ MaxMerges \in Nat \ {0}
ASSUME TasksAssumption == NoTask \notin Tasks
ASSUME FlagsAssumption == /\ Nested \in BOOLEAN
                          /\ Idle \in BOOLEAN

Main    == 0
Workers == 1..QPOOL_N
Threads == 0..QPOOL_N
Slots   == 0..(QCAP - 1)
Merges  == 1..MaxMerges
None    == 0

\* "code" runs the program, "unborn" is a worker not created yet, "spin" is in
\* ql_block, "call" has popped a task, and the others are in qpush and qpop:
\* "store" and "take" are the updates of the ring, and "full", "empty",
\* "stored", "first" and "taken" are the unlocks that follow.
Labels == {"unborn", "code", "spin", "lock", "held", "store", "take", "full",
           "empty", "stored", "first", "taken", "wake", "sleep", "asleep",
           "call"}

VARIABLES
    qq, qh, qt, qn, \* the ring, its indices and its length
    qlk,            \* the spin lock
    started,        \* qpool_started
    fn, done,       \* ql_task.fn with ql_task.arg, and ql_task.done
    merges,         \* calls of ql_merge so far
    ran,            \* how often the function of each merge was run to its end
    pc,             \* label of each thread
    arg,            \* the task its ql_merge or ql_block is about
    task,           \* the task a worker popped
    running         \* the merge whose function it runs, None in its own loop

vars == <<qq, qh, qt, qn, qlk, started, fn, done, merges, ran, pc, arg, task,
          running>>
ring == <<qq, qh, qt, qn>>
data == <<started, fn, done, merges, ran>>
locals == <<arg, task, running>>

Init == /\ qq = [i \in Slots |-> NoTask]
        /\ qh = 0 /\ qt = 0 /\ qn = 0
        /\ qlk = 0
        /\ started = FALSE
        /\ fn = [t \in Tasks |-> None]
        /\ done = [t \in Tasks |-> FALSE]
        /\ merges = 0
        /\ ran = [m \in Merges |-> 0]
        /\ pc = [p \in Threads |-> IF p = Main THEN "code" ELSE "unborn"]
        /\ arg = [p \in Threads |-> NoTask]
        /\ task = [p \in Threads |-> NoTask]
        /\ running = [p \in Threads |-> None]

Goto(p, label) == pc' = [pc EXCEPT ![p] = label]

MayCall(p) == pc[p] = "code" /\ (p = Main \/ Nested)

\* p is in qpush, unless it is a worker between two tasks, which is in qpop.
Pushes(p) == p = Main \/ running[p] # None

\* Mutant: done is not reset.
MergeStillDone(p, t) ==
    /\ MayCall(p)
    /\ Idle => (fn[t] = None \/ done[t])
    /\ merges < MaxMerges
    /\ merges' = merges + 1
    /\ started' = TRUE
    /\ fn' = [fn EXCEPT ![t] = merges + 1]
    /\ arg' = [arg EXCEPT ![p] = t]
    /\ Goto(p, "lock")
    /\ UNCHANGED <<ring, qlk, done, ran, task, running>>

\* ql_merge, up to qpush; the first call also creates the workers.
Merge(p, t) ==
    /\ MayCall(p)
    /\ Idle => (fn[t] = None \/ done[t])
    /\ merges < MaxMerges
    /\ merges' = merges + 1
    /\ started' = TRUE
    /\ fn' = [fn EXCEPT ![t] = merges + 1]
    /\ done' = [done EXCEPT ![t] = FALSE]
    /\ arg' = [arg EXCEPT ![p] = t]
    /\ Goto(p, "lock")
    /\ UNCHANGED <<ring, qlk, ran, task, running>>

\* A worker created by qpool_ensure starts.
Born(p) == /\ pc[p] = "unborn"
           /\ started
           /\ Goto(p, "lock")
           /\ UNCHANGED <<ring, qlk, data, locals>>

\* Mutant: the lock is tested and not set.
LockUnset(p) == /\ pc[p] = "lock"
                /\ qlk = 0
                /\ Goto(p, "held")
                /\ UNCHANGED <<ring, qlk, data, locals>>

\* qlock: the exchange that finds the lock free.
Lock(p) == /\ pc[p] = "lock"
           /\ qlk = 0
           /\ qlk' = 1
           /\ Goto(p, "held")
           /\ UNCHANGED <<ring, data, locals>>

\* Mutant: off by one at a full ring.
PushTestOffByOne(p) == /\ pc[p] = "held"
                       /\ Pushes(p)
                       /\ Goto(p, IF qn <= QCAP THEN "store" ELSE "full")
                       /\ UNCHANGED <<ring, qlk, data, locals>>

\* qpush: the test under the lock.
PushTest(p) == /\ pc[p] = "held"
               /\ Pushes(p)
               /\ Goto(p, IF qn < QCAP THEN "store" ELSE "full")
               /\ UNCHANGED <<ring, qlk, data, locals>>

\* Mutant: the index does not wrap.
StoreUnmasked(p) == /\ pc[p] = "store"
                    /\ qq' = [qq EXCEPT ![qt] = arg[p]]
                    /\ qt' = qt + 1
                    /\ qn' = qn + 1
                    /\ Goto(p, IF qn = 0 THEN "first" ELSE "stored")
                    /\ UNCHANGED <<qh, qlk, data, locals>>

\* qpush: qq[qt] = t, qt = (qt + 1) & QMASK, qn++.
Store(p) == /\ pc[p] = "store"
            /\ qq' = [qq EXCEPT ![qt] = arg[p]]
            /\ qt' = (qt + 1) % QCAP
            /\ qn' = qn + 1
            /\ Goto(p, IF qn = 0 THEN "first" ELSE "stored")
            /\ UNCHANGED <<qh, qlk, data, locals>>

\* qpop: the test under the lock, and the read of the oldest entry.
PopTest(p) == /\ pc[p] = "held"
              /\ ~Pushes(p)
              /\ \/ /\ qn > 0
                    /\ task' = [task EXCEPT ![p] = qq[qh]]
                    /\ Goto(p, "take")
                 \/ /\ qn = 0
                    /\ Goto(p, "empty")
                    /\ UNCHANGED task
              /\ UNCHANGED <<ring, qlk, data, arg, running>>

\* Mutant: the head does not move.
TakeSameHead(p) == /\ pc[p] = "take"
                   /\ qn' = qn - 1
                   /\ Goto(p, "taken")
                   /\ UNCHANGED <<qq, qh, qt, qlk, data, locals>>

\* qpop: qh = (qh + 1) & QMASK, qn--.
Take(p) == /\ pc[p] = "take"
           /\ qh' = (qh + 1) % QCAP
           /\ qn' = qn - 1
           /\ Goto(p, "taken")
           /\ UNCHANGED <<qq, qt, qlk, data, locals>>

\* qunlock, and where qpush and qpop go from there.
AfterUnlock == [full |-> "sleep", empty |-> "sleep", stored |-> "code",
                first |-> "wake", taken |-> "call"]

Unlock(p) == /\ pc[p] \in {"full", "empty", "stored", "first", "taken"}
             /\ qlk' = 0
             /\ Goto(p, AfterUnlock[pc[p]])
             /\ UNCHANGED <<ring, data, locals>>

\* qwake: wakes one of the threads asleep, whichever it is, or nobody.
Wake(p) ==
    /\ pc[p] = "wake"
    /\ \/ \E s \in Threads : /\ pc[s] = "asleep"
                             /\ pc' = [pc EXCEPT ![p] = "code", ![s] = "lock"]
       \/ /\ \A s \in Threads : pc[s] # "asleep"
          /\ Goto(p, "code")
    /\ UNCHANGED <<ring, qlk, data, locals>>

\* pthread_cond_wait, entered without looking at the ring again.
Sleep(p) == /\ pc[p] = "sleep"
            /\ Goto(p, "asleep")
            /\ UNCHANGED <<ring, qlk, data, locals>>

\* pthread_cond_wait may return without a signal.
Spurious(p) == /\ pc[p] = "asleep"
               /\ Goto(p, "lock")
               /\ UNCHANGED <<ring, qlk, data, locals>>

\* qworker: t->fn(t->arg) starts.
Call(p) == /\ pc[p] = "call"
           /\ running' = [running EXCEPT ![p] = fn[task[p]]]
           /\ Goto(p, "code")
           /\ UNCHANGED <<ring, qlk, data, arg, task>>

\* qworker: the function returns, t->done = 1, and the next qpop starts.
Finish(p) == /\ pc[p] = "code"
             /\ p # Main
             /\ ran' = [ran EXCEPT ![running[p]] = @ + 1]
             /\ done' = [done EXCEPT ![task[p]] = TRUE]
             /\ running' = [running EXCEPT ![p] = None]
             /\ Goto(p, "lock")
             /\ UNCHANGED <<ring, qlk, started, fn, merges, arg, task>>

\* ql_block spins until the flag is set.
Block(p, t) == /\ MayCall(p)
               /\ arg' = [arg EXCEPT ![p] = t]
               /\ Goto(p, "spin")
               /\ UNCHANGED <<ring, qlk, data, task, running>>

BlockReturn(p) == /\ pc[p] = "spin"
                  /\ done[arg[p]]
                  /\ Goto(p, "code")
                  /\ UNCHANGED <<ring, qlk, data, locals>>

\* The steps a thread takes by itself, outside the program's own code.
Step(p) == \/ Born(p) \/ PushTest(p) \/ Store(p) \/ PopTest(p) \/ Take(p)
           \/ Unlock(p) \/ Wake(p) \/ Sleep(p) \/ Call(p) \/ BlockReturn(p)

Next == \E p \in Threads :
            \/ \E t \in Tasks : Merge(p, t) \/ Block(p, t)
            \/ Lock(p) \/ Step(p) \/ Finish(p) \/ Spurious(p)

Spec == Init /\ [][Next]_vars

\* Every thread runs, task functions that can return do return, and a thread
\* that finds the spin lock free again and again gets it in the end.  Nothing
\* makes the program call ql_merge or ql_block, or a wait return by itself.
FairSpec == /\ Spec
            /\ \A p \in Threads : /\ WF_vars(Step(p))
                                  /\ WF_vars(Finish(p))
                                  /\ SF_vars(Lock(p))

----------------------------------------------------------------------------

RingTypes == /\ qq \in [Slots -> Tasks \cup {NoTask}]
             /\ qh \in Slots
             /\ qt \in Slots
             /\ qn \in Nat
             /\ qlk \in {0, 1}

DataTypes == /\ started \in BOOLEAN
             /\ fn \in [Tasks -> Merges \cup {None}]
             /\ done \in [Tasks -> BOOLEAN]
             /\ merges \in 0..MaxMerges
             /\ ran \in [Merges -> Nat]

ThreadTypes == /\ pc \in [Threads -> Labels]
               /\ arg \in [Threads -> Tasks \cup {NoTask}]
               /\ task \in [Threads -> Tasks \cup {NoTask}]
               /\ running \in [Threads -> Merges \cup {None}]

\* The variables hold tasks, merges and places of the code.
TypeOK == RingTypes /\ DataTypes /\ ThreadTypes

\* p is between qlock and qunlock.
Inside(p) == pc[p] \in {"held", "store", "take", "full", "empty", "stored",
                        "first", "taken"}

\* The ring never holds more than QCAP tasks, its three counters agree, and
\* whoever is about to change them acts on a test that is still true (qpush,
\* qpop: an unsynchronized qn++ or qn-- would overwrite a task or pop one twice).
RingSound ==
    /\ qn \in 0..QCAP
    /\ qt = (qh + qn) % QCAP
    /\ \A p \in Threads : /\ pc[p] = "store" => qn < QCAP
                          /\ pc[p] = "take" => qn > 0 /\ task[p] = qq[qh]

\* The places a task can be while a merge into it is outstanding: on the way
\* into the ring, in one of its slots, or with a worker.
Pushing(t) == {p \in Threads : /\ arg[p] = t
                               /\ \/ pc[p] \in {"store", "full"}
                                  \/ pc[p] \in {"lock", "held", "sleep", "asleep"} /\ Pushes(p)}
Queued(t) == {i \in 0..(QCAP - 1) : i < qn /\ qq[(qh + i) % QCAP] = t}
Running(t) == {p \in Workers : /\ task[p] = t
                               /\ running[p] # None \/ pc[p] \in {"taken", "call"}}
Outstanding(t) == fn[t] # None /\ ran[fn[t]] = 0

\* A merged task is in one place until its function has run, and afterwards in
\* none: no worker gets it twice and none is dropped, whatever the order in
\* which producers and workers take the lock (qpush, qpop, qworker).
OnePlace ==
    \A t \in Tasks :
        Cardinality(Pushing(t)) + Cardinality(Queued(t)) + Cardinality(Running(t))
            = (IF Outstanding(t) THEN 1 ELSE 0)

\* Each ql_merge runs its function once at most (qworker).
RunOnce == \A m \in Merges : ran[m] <= 1

\* done says that the function of the latest ql_merge has ended, so a block
\* that returned waited for that function and not for an earlier one (qworker,
\* ql_merge, ql_block).
DoneMeansRun == \A t \in Tasks : done[t] <=> fn[t] # None /\ ran[fn[t]] > 0

\* Seen from outside, the ring is a bounded first-in first-out queue: a change
\* appends one task below the capacity or removes the oldest one.
Queue == INSTANCE TaskQueue WITH
             Capacity <- QCAP,
             queue <- [i \in 1..qn |-> qq[(qh + i - 1) % QCAP]]
FirstInFirstOut == Queue!Spec

\* A merged function is run to its end by the pool of workers
\* (qthreads.c.txt:3 "task ... run by the pool of worker threads").
EveryMergeRuns == \A t \in Tasks : Outstanding(t) ~> ~Outstanding(t)
=============================================================================
