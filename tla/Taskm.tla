------------------------------- MODULE Taskm -------------------------------
(***************************************************************************)
(* The task manager of the interpreter (internal/lang/eval.go): the        *)
(* global taskm object with spawn, merge, block and done, the table of     *)
(* tasks guarded by taskMu, and the goroutine that runOnThread starts for  *)
(* each merged function.                                                   *)
(*                                                                         *)
(* Goroutine 0 is the one that runs main(); goroutine r > 0 is the one     *)
(* started by the r-th successful merge.  Every goroutine runs QuarkLang   *)
(* code and may call taskm.  A channel is named by the merge that made it, *)
(* so doneCh[t] = r says that t.doneCh was made for run r; None is the     *)
(* channel spawn makes, on which nobody ever waits.                        *)
(***************************************************************************)
EXTENDS Naturals, FiniteSets

CONSTANTS
    MaxThreads,     \* bound on the number of taskm.spawn() calls
    MaxRuns,        \* bound on the number of successful merges
    MergesPerThread,\* bound on the successful merges of one thread
    Nested          \* whether merged functions call taskm themselves

ASSUME BoundsAssumption == /\ MaxThreads \in Nat \ {0}
                           /\ MaxRuns \in Nat \ {0}
                           /\ MergesPerThread \in Nat \ {0}
ASSUME NestedAssumption == Nested \in BOOLEAN

Main       == 0
Runs       == 1..MaxRuns
Goroutines == Runs \cup {Main}
Threads    == 1..MaxThreads
None       == 0             \* no thread, no run, no error

\* Where a goroutine stands.  "code" runs the program, "exited" has returned
\* from its function literal, and the others lie inside newThread, runOnThread,
\* taskm.block and the literal runOnThread starts.
Labels == {"unborn", "code", "spawning", "merging", "waiting", "woken",
           "reclaim", "unlock", "load", "close", "exited"}

VARIABLES
    registered, \* pids in interp.tasks; nextPid is their number
    pid,        \* Task.Pid of each task: None (zero) until newThread sets it
    busy,       \* Task.Busy
    doneCh,     \* Task.doneCh: the run whose merge made the channel
    err,        \* Task.err: the failed run whose error it holds, None for nil
    closed,     \* the channels that have been closed
    merged,     \* number of successful merges so far
    pc, on,     \* label of each goroutine, and the thread its function runs on
    arg, ch,    \* the thread and the channel its taskm operation is about
    got,        \* the error its latest block returned, None for nil
    failed,     \* the runs whose function ended with an error
    panicked    \* the process died of "close of closed channel"

vars == <<registered, pid, busy, doneCh, err, closed, merged, pc, on, arg, ch,
          got, failed, panicked>>
tasks == <<registered, pid, busy, doneCh, err>>

----------------------------------------------------------------------------

Init == /\ registered = {}
        /\ pid    = [t \in Threads |-> None]
        /\ busy   = [t \in Threads |-> FALSE]
        /\ doneCh = [t \in Threads |-> None]
        /\ err    = [t \in Threads |-> None]
        /\ closed = {}
        /\ merged = 0
        /\ pc     = [g \in Goroutines |-> IF g = Main THEN "code" ELSE "unborn"]
        /\ on     = [g \in Goroutines |-> None]
        /\ arg    = [g \in Goroutines |-> None]
        /\ ch     = [g \in Goroutines |-> None]
        /\ got    = [g \in Goroutines |-> None]
        /\ failed = {}
        /\ panicked = FALSE

Goto(g, label) == pc' = [pc EXCEPT ![g] = label]

\* g is running the program's own code and may call taskm.
MayCall(g) == /\ pc[g] = "code"
              /\ g = Main \/ Nested

\* Mutant: the pid is taken before nextPid is incremented.
SpawnBeforeIncrement(g) ==
    /\ MayCall(g)
    /\ Cardinality(registered) < MaxThreads
    /\ registered' = registered \cup {Cardinality(registered)}
    /\ arg' = [arg EXCEPT ![g] = Cardinality(registered)]
    /\ Goto(g, "spawning")
    /\ UNCHANGED <<pid, busy, doneCh, err, closed, merged, on, ch, got,
                   failed, panicked>>

\* taskm.spawn(), up to registerTask: the task enters the table under the
\* next pid, with Task.Pid still zero.
Spawn(g) ==
    /\ MayCall(g)
    /\ Cardinality(registered) < MaxThreads
    /\ LET t == Cardinality(registered) + 1 IN
         /\ registered' = registered \cup {t}
         /\ arg' = [arg EXCEPT ![g] = t]
    /\ Goto(g, "spawning")
    /\ UNCHANGED <<pid, busy, doneCh, err, closed, merged, on, ch, got,
                   failed, panicked>>

\* The rest of newThread: t.Pid = pid, outside taskMu.
SpawnPid(g) ==
    /\ pc[g] = "spawning"
    /\ pid' = [pid EXCEPT ![arg[g]] = arg[g]]
    /\ Goto(g, "code")
    /\ UNCHANGED <<registered, busy, doneCh, err, closed, merged, on, arg, ch,
                   got, failed, panicked>>

\* What a merge does once its checks have passed, busy aside.
Reserve(g, t) ==
    /\ merged < MaxRuns
    /\ Cardinality({r \in Runs : on[r] = t}) < MergesPerThread
    /\ merged' = merged + 1
    /\ doneCh' = [doneCh EXCEPT ![t] = merged + 1]
    /\ arg'    = [arg EXCEPT ![g] = t]
    /\ ch'     = [ch EXCEPT ![g] = merged + 1]
    /\ on'     = [on EXCEPT ![merged + 1] = t]
    /\ Goto(g, "merging")
    /\ UNCHANGED <<registered, pid, err, closed, got, failed, panicked>>

\* Mutant: runOnThread does not look at Busy.
MergeIntoBusy(g, t) ==
    /\ MayCall(g)
    /\ t \in registered
    /\ busy' = [busy EXCEPT ![t] = TRUE]
    /\ Reserve(g, t)

\* Mutant: runOnThread does not set Busy.
MergeUnmarked(g, t) ==
    /\ MayCall(g)
    /\ t \in registered
    /\ ~busy[t]
    /\ Reserve(g, t)
    /\ UNCHANGED busy

\* taskm.merge or thread.merge of a function into thread t: the part of
\* runOnThread under taskMu.  On a busy thread the call returns an error and
\* changes nothing.
Merge(g, t) ==
    /\ MayCall(g)
    /\ t \in registered
    /\ ~busy[t]
    /\ busy' = [busy EXCEPT ![t] = TRUE]
    /\ Reserve(g, t)

\* The rest of runOnThread: the block and the context are allocated, and the
\* goroutine that will execute the function starts.
Go(g) ==
    /\ pc[g] = "merging"
    /\ pc' = [pc EXCEPT ![g] = "code", ![ch[g]] = "code"]
    /\ UNCHANGED <<tasks, closed, merged, on, arg, ch, got, failed, panicked>>

\* Mutant: block waits for the channel without looking at Busy.
BlockUnconditionally(g, t) ==
    /\ MayCall(g)
    /\ t \in registered
    /\ arg' = [arg EXCEPT ![g] = t]
    /\ ch'  = [ch EXCEPT ![g] = doneCh[t]]
    /\ Goto(g, "waiting")
    /\ UNCHANGED <<tasks, closed, merged, on, got, failed, panicked>>

\* taskm.block(pid), its part under taskMu: Busy and doneCh are captured.  An
\* idle thread is not waited for.
Block(g, t) ==
    /\ MayCall(g)
    /\ t \in registered
    /\ arg' = [arg EXCEPT ![g] = t]
    /\ ch'  = [ch EXCEPT ![g] = IF busy[t] THEN doneCh[t] ELSE None]
    /\ Goto(g, IF busy[t] THEN "waiting" ELSE "woken")
    /\ UNCHANGED <<tasks, closed, merged, on, got, failed, panicked>>

\* Mutant: block does not wait.
WakeAtOnce(g) ==
    /\ pc[g] = "waiting"
    /\ Goto(g, "woken")
    /\ UNCHANGED <<tasks, closed, merged, on, arg, ch, got, failed, panicked>>

\* The receive from the captured channel returns once it is closed.
Wake(g) ==
    /\ pc[g] = "waiting"
    /\ ch[g] \in closed
    /\ Goto(g, "woken")
    /\ UNCHANGED <<tasks, closed, merged, on, arg, ch, got, failed, panicked>>

\* block reads t.err, outside taskMu, and returns it.
BlockReturn(g) ==
    /\ pc[g] = "woken"
    /\ got' = [got EXCEPT ![g] = err[arg[g]]]
    /\ Goto(g, "code")
    /\ UNCHANGED <<tasks, closed, merged, on, arg, ch, failed, panicked>>

\* Mutant: the error of the function is not stored.
FinishErrorLost(r) ==
    /\ r \in Runs
    /\ pc[r] = "code"
    /\ failed' \in {failed, failed \cup {r}}
    /\ Goto(r, "reclaim")
    /\ UNCHANGED <<registered, pid, busy, doneCh, err, closed, merged, on, arg,
                   ch, got, panicked>>

\* t.err = in.execute(ctx): the merged function ends, with or without an error.
Finish(r) ==
    /\ r \in Runs
    /\ pc[r] = "code"
    /\ \/ err' = [err EXCEPT ![on[r]] = None] /\ UNCHANGED failed
       \/ err' = [err EXCEPT ![on[r]] = r] /\ failed' = failed \cup {r}
    /\ Goto(r, "reclaim")
    /\ UNCHANGED <<registered, pid, busy, doneCh, closed, merged, on, arg, ch,
                   got, panicked>>

\* in.mem.ReclaimTask(t.Pid): the memory manager empties the thread's blocks.
Reclaim(r) ==
    /\ pc[r] = "reclaim"
    /\ Goto(r, "unlock")
    /\ UNCHANGED <<tasks, closed, merged, on, arg, ch, got, failed, panicked>>

\* Under taskMu: t.Busy = false.
Release(r) ==
    /\ pc[r] = "unlock"
    /\ busy' = [busy EXCEPT ![on[r]] = FALSE]
    /\ Goto(r, "load")
    /\ UNCHANGED <<registered, pid, doneCh, err, closed, merged, on, arg, ch,
                   got, failed, panicked>>

\* The operand of close(t.doneCh), read outside taskMu.
LoadDoneCh(r) ==
    /\ pc[r] = "load"
    /\ ch' = [ch EXCEPT ![r] = doneCh[on[r]]]
    /\ Goto(r, "close")
    /\ UNCHANGED <<tasks, closed, merged, on, arg, got, failed, panicked>>

\* Mutant: the channel is not closed.
CloseForgotten(r) ==
    /\ pc[r] = "close"
    /\ Goto(r, "exited")
    /\ UNCHANGED <<tasks, closed, merged, on, arg, ch, got, failed, panicked>>

\* close itself: closing a closed channel is a panic, which nothing recovers.
Close(r) ==
    /\ pc[r] = "close"
    /\ panicked' = (ch[r] \in closed)
    /\ closed' = closed \cup {ch[r]}
    /\ Goto(r, "exited")
    /\ UNCHANGED <<tasks, merged, on, arg, ch, got, failed>>

\* main() returns and the process exits, whatever the other goroutines do.
MainReturns ==
    /\ pc[Main] = "code"
    /\ Goto(Main, "exited")
    /\ UNCHANGED <<tasks, closed, merged, on, arg, ch, got, failed, panicked>>

Alive == ~panicked /\ pc[Main] # "exited"

\* The process is gone.
Stopped == ~Alive /\ UNCHANGED vars

Call(g)  == \/ Spawn(g)
            \/ \E t \in Threads : Merge(g, t) \/ Block(g, t)
\* What goes on without a decision of the program.
Step(g)  == \/ SpawnPid(g) \/ Go(g) \/ Wake(g) \/ BlockReturn(g)
            \/ Finish(g) \/ Reclaim(g) \/ Release(g) \/ LoadDoneCh(g) \/ Close(g)

Next == \/ /\ Alive
           /\ \/ \E g \in Goroutines : Call(g) \/ Step(g)
              \/ MainReturns
        \/ Stopped

Spec == Init /\ [][Next]_vars

\* The Go scheduler runs every goroutine that can run, and a merged function
\* ends (the last is an assumption about the program).
Fairness == \A g \in Goroutines : WF_vars(Alive /\ Step(g))
FairSpec == Spec /\ Fairness

----------------------------------------------------------------------------
(***************************************************************************)
(* Properties.                                                             *)
(***************************************************************************)

\* The goroutine of a run works on behalf of its thread from go func() to
\* t.Busy = false.
Freed          == {"load", "close", "exited"}
Occupies(r, t) == on[r] = t /\ pc[r] \notin Freed \cup {"unborn"}
\* The function of run r has ended.
Ended(r) == pc[r] \in Freed \cup {"reclaim", "unlock"}

TableTypes == /\ registered \subseteq Threads
              /\ pid    \in [Threads -> Threads \cup {None}]
              /\ busy   \in [Threads -> BOOLEAN]
              /\ doneCh \in [Threads -> Runs \cup {None}]
              /\ err    \in [Threads -> Runs \cup {None}]
              /\ closed \subseteq Runs \cup {None}
              /\ merged \in 0..MaxRuns
GoroutineTypes == /\ pc  \in [Goroutines -> Labels]
                  /\ on  \in [Goroutines -> Threads \cup {None}]
                  /\ arg \in [Goroutines -> Threads \cup {None}]
                  /\ ch  \in [Goroutines -> Runs \cup {None}]
                  /\ got \in [Goroutines -> Runs \cup {None}]
                  /\ failed \subseteq Runs
                  /\ panicked \in BOOLEAN

\* Every variable holds a value the Go field it stands for can hold.
TypeOK == TableTypes /\ GoroutineTypes

\* A thread executes one function at a time: runOnThread refuses a busy
\* thread, and Busy is cleared only after the function ended and its memory
\* was reclaimed.  In particular ReclaimTask(pid) of one run never empties
\* the block of the next one.
OneRunPerThread ==
    \A t \in Threads : \A r1, r2 \in Runs :
        Occupies(r1, t) /\ Occupies(r2, t) => r1 = r2

\* When taskm.done(pid) answers true (it answers ~Busy), no function occupies
\* the thread and none is about to start on it.
DoneMeansIdle ==
    \A t \in Threads : ~busy[t] =>
        /\ ~\E r \in Runs : Occupies(r, t)
        /\ ~\E g \in Goroutines : pc[g] = "merging" /\ arg[g] = t

\* taskm.block(pid) on a busy thread returns only after the function that
\* occupied the thread has ended.
BlockWaits ==
    \A g \in Goroutines : pc[g] = "woken" /\ ch[g] # None => Ended(ch[g])

\* Merging into threads that are idle never kills the process.
NoDoubleClose == ~panicked

\* A goroutine that blocks on a run is released once that run's goroutine is
\* gone (unless the process stops first).
BlockReturns ==
    \A g \in Goroutines :
        (pc[g] = "waiting" /\ pc[ch[g]] = "exited")
            ~> (pc[g] # "waiting" \/ ~Alive)

\* A block that waited for a run returns the error of that run, and no error
\* when the run succeeded.
ErrorDelivered ==
    [][\A g \in Goroutines :
          pc[g] = "woken" /\ pc'[g] = "code" /\ ch[g] # None =>
              got'[g] = IF ch[g] \in failed THEN ch[g] ELSE None]_vars
=============================================================================
