----------------------------- MODULE WinThreads -----------------------------
(***************************************************************************)
(* The runtime of compiled programs, Windows branch                        *)
(* (compiler/qthreads.c.txt): a channel is a ring of ints with one lock    *)
(* and one condition variable, on which senders and receivers sleep alike; *)
(* ql_merge creates a thread for each function, and ql_block polls.        *)
(*                                                                         *)
(* Thread 0 is the program's main thread, thread m the one that the m-th   *)
(* ql_merge creates.  A task's function and argument are one value, the    *)
(* number of the ql_merge that wrote them.  Channels share nothing, so     *)
(* there is one.  The lock of a task guards single accesses to done, which *)
(* are steps of their own here, and is left out.                           *)
(***************************************************************************)
EXTENDS Naturals

CONSTANTS
    Values,     \* the ints that are sent
    Tasks,      \* the tasks the program made with ql_spawn
    NoTask,     \* no task
    Cap,        \* capacity of the channel
    MaxMerges,  \* bound on the number of calls of ql_merge
    Idle        \* whether the program merges into a task only when it is idle

ASSUME BoundsAssumption == /\ Cap \in Nat \ {0}
                           /\ MaxMerges \in Nat
ASSUME ValuesAssumption == Values \subseteq Nat /\ 0 \in Values
ASSUME TasksAssumption  == NoTask \notin Tasks
ASSUME IdleAssumption   == Idle \in BOOLEAN

Main    == 0
Merges  == 1..MaxMerges
Threads == 0..MaxMerges
Slots   == 0..(Cap - 1)
None    == 0

\* "code" runs the program, "unborn" is a thread not created yet, "born" one that
\* has not read its function, "create" is in ql_merge, "spin" in ql_block,
\* "report" in runner_w behind the function; the others are in ql_send or
\* ql_recv, "woken" before the lock is taken again.
Labels == {"unborn", "born", "code", "create", "spin", "report", "ended", "lock",
           "test", "asleep", "woken", "store", "take", "wake", "unlock"}

VARIABLES
    buf, head, cnt, \* the ring of the channel
    mu,             \* its lock
    fn, done,       \* ql_task.fn with ql_task.arg, and ql_task.done
    merges,         \* calls of ql_merge so far
    ran,            \* history: whether the function of each merge was run to its end
    pc,             \* label of each thread
    op,             \* "send" or "recv", for a thread in either
    val,            \* the v of its ql_send or ql_recv
    arg,            \* the task its ql_merge or ql_block is about
    task,           \* the parameter of runner_w
    running         \* the merge whose function it runs

ring   == <<buf, head, cnt>>
data   == <<fn, done, merges, ran>>
locals == <<op, val, arg, task, running>>
vars   == <<ring, mu, data, pc, locals>>

Init == /\ buf = [i \in Slots |-> 0]
        /\ head = 0 /\ cnt = 0
        /\ mu = 0
        /\ fn = [t \in Tasks |-> None]
        /\ done = [t \in Tasks |-> FALSE]
        /\ merges = 0
        /\ ran = [m \in Merges |-> FALSE]
        /\ pc = [p \in Threads |-> IF p = Main THEN "code" ELSE "unborn"]
        /\ op = [p \in Threads |-> "send"]
        /\ val = [p \in Threads |-> 0]
        /\ arg = [p \in Threads |-> NoTask]
        /\ task = [p \in Threads |-> NoTask]
        /\ running = [p \in Threads |-> None]

Goto(p, label) == pc' = [pc EXCEPT ![p] = label]

----------------------------------------------------------------------------
(* ql_send and ql_recv.                                                    *)

Send(p, v) == /\ pc[p] = "code"
              /\ op' = [op EXCEPT ![p] = "send"]
              /\ val' = [val EXCEPT ![p] = v]
              /\ Goto(p, "lock")
              /\ UNCHANGED <<ring, mu, data, arg, task, running>>

Recv(p) == /\ pc[p] = "code"
           /\ op' = [op EXCEPT ![p] = "recv"]
           /\ Goto(p, "lock")
           /\ UNCHANGED <<ring, mu, data, val, arg, task, running>>

\* AcquireSRWLockExclusive, ...
Lock(p) == /\ pc[p] = "lock" /\ mu = 0
           /\ mu' = 1
           /\ Goto(p, "test")
           /\ UNCHANGED <<ring, data, locals>>

\* Mutant: if instead of while, the condition is not tested again.
RelockUntested(p) == /\ pc[p] = "woken" /\ mu = 0
                     /\ mu' = 1
                     /\ Goto(p, IF op[p] = "send" THEN "store" ELSE "take")
                     /\ UNCHANGED <<ring, data, locals>>

\* ... which SleepConditionVariableSRW does too before it returns.
Relock(p) == /\ pc[p] = "woken" /\ mu = 0
             /\ mu' = 1
             /\ Goto(p, "test")
             /\ UNCHANGED <<ring, data, locals>>

\* Whether p has to wait: the conditions of the two while loops.
MustWait(p) == IF op[p] = "send" THEN cnt >= Cap ELSE cnt <= 0

\* SleepConditionVariableSRW gives the lock back and sleeps, in one step.
Sleep(p) == /\ pc[p] = "test" /\ MustWait(p)
            /\ mu' = 0
            /\ Goto(p, "asleep")
            /\ UNCHANGED <<ring, data, locals>>

\* The loop ends; ql_recv reads the oldest value.
Pass(p) == /\ pc[p] = "test" /\ ~MustWait(p)
           /\ \/ /\ op[p] = "send"
                 /\ Goto(p, "store")
                 /\ UNCHANGED val
              \/ /\ op[p] = "recv"
                 /\ val' = [val EXCEPT ![p] = buf[head]]
                 /\ Goto(p, "take")
           /\ UNCHANGED <<ring, mu, data, op, arg, task, running>>

\* Mutant: head is left out of the index.
StoreFromStart(p) == /\ pc[p] = "store"
                     /\ buf' = [buf EXCEPT ![cnt % Cap] = val[p]]
                     /\ cnt' = cnt + 1
                     /\ Goto(p, "wake")
                     /\ UNCHANGED <<head, mu, data, locals>>

\* buf[(head + cnt) % cap] = v, cnt++.
Store(p) == /\ pc[p] = "store"
            /\ buf' = [buf EXCEPT ![(head + cnt) % Cap] = val[p]]
            /\ cnt' = cnt + 1
            /\ Goto(p, "wake")
            /\ UNCHANGED <<head, mu, data, locals>>

\* Mutant: the index does not wrap.
TakeUnwrapped(p) == /\ pc[p] = "take"
                    /\ head' = head + 1
                    /\ cnt' = cnt - 1
                    /\ Goto(p, "wake")
                    /\ UNCHANGED <<buf, mu, data, locals>>

\* head = (head + 1) % cap, cnt--.
Take(p) == /\ pc[p] = "take"
           /\ head' = (head + 1) % Cap
           /\ cnt' = cnt - 1
           /\ Goto(p, "wake")
           /\ UNCHANGED <<buf, mu, data, locals>>

\* Mutant: WakeConditionVariable, which wakes one thread if there is any.
WakeOne(p) ==
    /\ pc[p] = "wake"
    /\ \/ \E s \in Threads : /\ pc[s] = "asleep"
                             /\ pc' = [pc EXCEPT ![p] = "unlock", ![s] = "woken"]
       \/ /\ \A s \in Threads : pc[s] # "asleep"
          /\ Goto(p, "unlock")
    /\ UNCHANGED <<ring, mu, data, locals>>

\* WakeAllConditionVariable.
Wake(p) ==
    /\ pc[p] = "wake"
    /\ pc' = [s \in Threads |-> IF s = p THEN "unlock"
                                ELSE IF pc[s] = "asleep" THEN "woken" ELSE pc[s]]
    /\ UNCHANGED <<ring, mu, data, locals>>

\* ReleaseSRWLockExclusive, and the return.
Unlock(p) == /\ pc[p] = "unlock"
             /\ mu' = 0
             /\ val' = [val EXCEPT ![p] = 0]
             /\ Goto(p, "code")
             /\ UNCHANGED <<ring, data, op, arg, task, running>>

\* SleepConditionVariableSRW may return without a wake.
Spurious(p) == /\ pc[p] = "asleep"
               /\ Goto(p, "woken")
               /\ UNCHANGED <<ring, mu, data, locals>>

----------------------------------------------------------------------------
(* Tasks.                                                                  *)

\* Mutant: done is not reset.
MergeStillDone(p, t) == /\ pc[p] = "code"
                        /\ Idle => (fn[t] = None \/ done[t])
                        /\ merges < MaxMerges
                        /\ merges' = merges + 1
                        /\ fn' = [fn EXCEPT ![t] = merges + 1]
                        /\ arg' = [arg EXCEPT ![p] = t]
                        /\ Goto(p, "create")
                        /\ UNCHANGED <<ring, mu, done, ran, op, val, task, running>>

\* ql_merge: the fields of the task (at once, for while it is idle only ql_block
\* reads one of them), ...
Merge(p, t) == /\ pc[p] = "code"
               /\ Idle => (fn[t] = None \/ done[t])
               /\ merges < MaxMerges
               /\ merges' = merges + 1
               /\ fn' = [fn EXCEPT ![t] = merges + 1]
               /\ done' = [done EXCEPT ![t] = FALSE]
               /\ arg' = [arg EXCEPT ![p] = t]
               /\ Goto(p, "create")
               /\ UNCHANGED <<ring, mu, ran, op, val, task, running>>

\* ... and _beginthreadex.
Create(p, m) == /\ pc[p] = "create"
                /\ pc[m] = "unborn"
                /\ \A k \in Merges : k < m => pc[k] # "unborn"
                /\ pc' = [pc EXCEPT ![p] = "code", ![m] = "born"]
                /\ task' = [task EXCEPT ![m] = arg[p]]
                /\ UNCHANGED <<ring, mu, data, op, val, arg, running>>

\* runner_w reads t->fn and t->arg, and calls.
Call(p) == /\ pc[p] = "born"
           /\ running' = [running EXCEPT ![p] = fn[task[p]]]
           /\ Goto(p, "code")
           /\ UNCHANGED <<ring, mu, data, op, val, arg, task>>

\* The function returns.
Finish(p) == /\ p # Main
             /\ pc[p] = "code"
             /\ ran' = [ran EXCEPT ![running[p]] = TRUE]
             /\ Goto(p, "report")
             /\ UNCHANGED <<ring, mu, fn, done, merges, locals>>

\* runner_w: t->done = 1.
Report(p) == /\ pc[p] = "report"
             /\ done' = [done EXCEPT ![task[p]] = TRUE]
             /\ Goto(p, "ended")
             /\ UNCHANGED <<ring, mu, fn, merges, ran, locals>>

\* ql_block polls until it reads that the flag is set.
Block(p, t) == /\ pc[p] = "code"
               /\ arg' = [arg EXCEPT ![p] = t]
               /\ Goto(p, "spin")
               /\ UNCHANGED <<ring, mu, data, op, val, task, running>>

BlockReturn(p) == /\ pc[p] = "spin"
                  /\ done[arg[p]]
                  /\ Goto(p, "code")
                  /\ UNCHANGED <<ring, mu, data, locals>>

----------------------------------------------------------------------------

\* The steps a thread takes by itself, outside the program's own code; nothing
\* makes the program call, or a sleeping thread wake up by itself.
Step(p) == \/ Sleep(p) \/ Pass(p) \/ Store(p) \/ Take(p) \/ Wake(p) \/ Unlock(p)
           \/ \E m \in Merges : Create(p, m)
           \/ Call(p) \/ Report(p) \/ BlockReturn(p)

Next == \E p \in Threads :
            \/ \E t \in Tasks : Merge(p, t) \/ Block(p, t)
            \/ \E v \in Values : Send(p, v)
            \/ Recv(p) \/ Finish(p) \/ Lock(p) \/ Relock(p) \/ Spurious(p) \/ Step(p)

Spec == Init /\ [][Next]_vars

----------------------------------------------------------------------------

RingTypes == /\ buf \in [Slots -> Values]
             /\ head \in Slots
             /\ cnt \in Nat
             /\ mu \in {0, 1}

DataTypes == /\ fn \in [Tasks -> Merges \cup {None}]
             /\ done \in [Tasks -> BOOLEAN]
             /\ merges \in 0..MaxMerges
             /\ ran \in [Merges -> BOOLEAN]

ThreadTypes == /\ pc \in [Threads -> Labels]
               /\ op \in [Threads -> {"send", "recv"}]
               /\ val \in [Threads -> Values]
               /\ arg \in [Threads -> Tasks \cup {NoTask}]
               /\ task \in [Threads -> Tasks \cup {NoTask}]
               /\ running \in [Threads -> Merges \cup {None}]

\* The variables hold values, tasks, merges and places of the code.
TypeOK == RingTypes /\ DataTypes /\ ThreadTypes

\* The ring never holds more than cap values, and whoever is about to change it
\* acts on a condition that still holds, also if it has slept in between
\* (ql_send, ql_recv: the condition must be tested again after each sleep, for
\* everybody is woken and another may have been first).
RingSound ==
    /\ cnt <= Cap
    /\ \A p \in Threads : /\ pc[p] = "store" => cnt < Cap
                          /\ pc[p] = "take" => cnt > 0 /\ val[p] = buf[head]

\* Seen from outside, the ring is a bounded first-in first-out queue (the comment
\* at qthreads.c.txt:2): a change appends one value below the capacity or
\* removes the oldest one.
Queue == INSTANCE TaskQueue WITH
             Tasks <- Values,
             Capacity <- Cap,
             queue <- [i \in 1..cnt |-> buf[(head + i - 1) % Cap]]
FirstInFirstOut == Queue!Spec

\* Nobody sleeps who could go on: a sleeping sender has a full ring before it, a
\* sleeping receiver an empty one, or somebody is about to wake everybody
\* (senders and receivers sleep on one condition variable, so that a single wake
\* may reach one of the wrong kind).
NobodyOverslept ==
    \A p \in Threads : pc[p] = "asleep" =>
        MustWait(p) \/ \E q \in Threads : pc[q] = "wake"

\* done says that the function of the latest ql_merge has ended, so a block that
\* returned waited for that function and not for an earlier one (ql_merge,
\* runner_w, ql_block).
DoneMeansRun == \A t \in Tasks : done[t] => fn[t] # None /\ ran[fn[t]]
=============================================================================
