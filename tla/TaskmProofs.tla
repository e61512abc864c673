----------------------------- MODULE TaskmProofs -----------------------------
(***************************************************************************)
(* Taskm: a thread executes one function at a time, and a thread that      *)
(* taskm.done reports idle has none, for any number of threads, merges and *)
(* goroutines.                                                             *)
(*                                                                         *)
(* If every thread is merged into once, as the documentation's programs    *)
(* do, then close(t.doneCh) closes the channel of its own run, block waits *)
(* for that run and returns its error, and the interpreter's threads keep  *)
(* the promise of ThreadPromise, nested calls of taskm included.           *)
(***************************************************************************)
EXTENDS MCTaskm, FiniteSetTheorems, TLAPS

\* A run holds its thread from the merge that reserves it until Release.
Holds(r, t) == on[r] = t /\ pc[r] \notin Freed

\* Runs are numbered by the merges that made them, in order.
Numbered == \A r \in Runs :
              \/ r <= merged /\ on[r] \in Threads
              \/ r > merged /\ on[r] = None /\ pc[r] = "unborn"
\* Only the goroutine of a run executes the tail of the literal.
TailOfRun == \A g \in Goroutines :
               pc[g] \in {"reclaim", "unlock", "load", "close"} => g \in Runs
\* Between Merge and Go the run exists, reserved on the merger's thread alone.
Reserved == /\ \A g \in Goroutines : pc[g] = "merging" =>
                  /\ ch[g] \in Runs /\ arg[g] \in Threads
                  /\ on[ch[g]] = arg[g] /\ pc[ch[g]] = "unborn"
            /\ \A g, h \in Goroutines :
                  pc[g] = "merging" /\ pc[h] = "merging" /\ ch[g] = ch[h] => g = h
HolderBusy == \A t \in Threads, r \in Runs : Holds(r, t) => busy[t]
OneHolder  == \A t \in Threads : \A r, q \in Runs :
                  Holds(r, t) /\ Holds(q, t) => r = q
\* newThread and block are about a task of the table.
ArgKnown == \A g \in Goroutines :
              pc[g] \in {"spawning", "waiting", "woken"} => arg[g] \in Threads

IInv == /\ TypeOK
        /\ Numbered
        /\ TailOfRun
        /\ Reserved
        /\ HolderBusy
        /\ OneHolder
        /\ ArgKnown

----------------------------------------------------------------------------

USE DEF Goroutines, Labels

\* The next pid lies within the bound while the table is not full: newThread's
\* pid is a task number.
LEMMA NextPid ==
    ASSUME NEW S \in SUBSET Threads, Cardinality(S) < MaxThreads
    PROVE  Cardinality(S) + 1 \in Threads
<1>1. IsFiniteSet(Threads)
  BY FS_Interval, BoundsAssumption DEF Threads
<1>2. IsFiniteSet(S)
  BY <1>1, FS_Subset
<1>3. Cardinality(S) \in Nat
  BY <1>2, FS_CardinalityType
<1> QED  BY <1>3, BoundsAssumption DEF Threads

\* Pids start at 1, so zero names no thread.
LEMMA NoThread == None \notin Threads
BY DEF None, Threads

LEMMA InitIInv == Init => IInv
<1> SUFFICES ASSUME Init PROVE IInv
  OBVIOUS
<1> USE BoundsAssumption, NoThread DEF Init, Main, Runs
<1>1. TableTypes
  BY DEF TableTypes
<1>2. GoroutineTypes
  BY DEF GoroutineTypes
<1>3. Numbered /\ TailOfRun
  BY DEF Numbered, TailOfRun
<1>4. Reserved /\ ArgKnown
  BY DEF Reserved, ArgKnown
<1>5. HolderBusy /\ OneHolder
  BY DEF Threads, None, HolderBusy, OneHolder, Holds
<1> QED  BY <1>1, <1>2, <1>3, <1>4, <1>5 DEF IInv, TypeOK

\* Every step keeps the strengthened invariant.
LEMMA StepIInv == IInv /\ [Next]_vars => IInv'
<1> SUFFICES ASSUME IInv, [Next]_vars PROVE IInv'
  OBVIOUS
<1> USE NoThread DEF Holds, Freed, Goto, MayCall, tasks, TypeOK
<1>1. ASSUME NEW g \in Goroutines, Spawn(g) PROVE IInv'
  <2>1. Cardinality(registered) + 1 \in Threads
    BY <1>1, NextPid DEF Spawn, IInv, TableTypes
  <2>2. TableTypes'
    BY <1>1, <2>1 DEF Spawn, IInv, TableTypes, GoroutineTypes
  <2>3. GoroutineTypes'
    BY <1>1, <2>1 DEF Spawn, IInv, TableTypes, GoroutineTypes
  <2>4. Numbered' /\ TailOfRun'
    BY <1>1, <2>1 DEF Spawn, IInv, TableTypes, GoroutineTypes, Numbered, TailOfRun
  <2>5. Reserved' /\ ArgKnown'
    BY <1>1, <2>1 DEF Spawn, IInv, TableTypes, GoroutineTypes, Reserved, ArgKnown
  <2>6. HolderBusy'
    BY <1>1, <2>1 DEF Spawn, IInv, TableTypes, GoroutineTypes, HolderBusy
  <2>7. OneHolder'
    BY <1>1, <2>1 DEF Spawn, IInv, TableTypes, GoroutineTypes, OneHolder, HolderBusy
  <2> QED  BY <2>2, <2>3, <2>4, <2>5, <2>6, <2>7 DEF IInv
<1>2. ASSUME NEW g \in Goroutines, SpawnPid(g) PROVE IInv'
  <2>1. TableTypes'
    BY <1>2 DEF SpawnPid, IInv, TableTypes, GoroutineTypes
  <2>2. GoroutineTypes'
    BY <1>2 DEF SpawnPid, IInv, TableTypes, GoroutineTypes
  <2>3. Numbered' /\ TailOfRun'
    BY <1>2 DEF SpawnPid, IInv, TableTypes, GoroutineTypes, Numbered, TailOfRun
  <2>4. Reserved' /\ ArgKnown'
    BY <1>2 DEF SpawnPid, IInv, TableTypes, GoroutineTypes, Reserved, ArgKnown
  <2>5. HolderBusy'
    BY <1>2 DEF SpawnPid, IInv, TableTypes, GoroutineTypes, HolderBusy
  <2>6. OneHolder'
    BY <1>2 DEF SpawnPid, IInv, TableTypes, GoroutineTypes, OneHolder, HolderBusy
  <2> QED  BY <2>1, <2>2, <2>3, <2>4, <2>5, <2>6 DEF IInv
<1>3. ASSUME NEW g \in Goroutines, NEW t \in Threads, Merge(g, t) PROVE IInv'
  <2>1. merged + 1 \in Runs
    BY <1>3, BoundsAssumption DEF Merge, Reserve, IInv, TableTypes, Runs
  <2>2. on[merged + 1] = None /\ pc[merged + 1] = "unborn" /\ g # merged + 1
    BY <1>3, <2>1 DEF Merge, Reserve, IInv, TableTypes, Numbered, Runs
  <2>3. TableTypes'
    BY <1>3, <2>1, <2>2 DEF Merge, Reserve, IInv, TableTypes, GoroutineTypes, Runs
  <2>4. GoroutineTypes'
    BY <1>3, <2>1, <2>2 DEF Merge, Reserve, IInv, TableTypes, GoroutineTypes
  <2>5. Numbered' /\ TailOfRun'
    BY <1>3, <2>1, <2>2 DEF Merge, Reserve, IInv, TableTypes, GoroutineTypes, Numbered, TailOfRun, Runs
  <2>6. Reserved' /\ ArgKnown'
    BY <1>3, <2>1, <2>2 DEF Merge, Reserve, IInv, TableTypes, GoroutineTypes, Reserved, ArgKnown
  <2>7. HolderBusy'
    BY <1>3, <2>1, <2>2 DEF Merge, Reserve, IInv, TableTypes, GoroutineTypes, HolderBusy
  <2>8. OneHolder'
    BY <1>3, <2>1, <2>2 DEF Merge, Reserve, IInv, TableTypes, GoroutineTypes, OneHolder, HolderBusy
  <2> QED  BY <2>3, <2>4, <2>5, <2>6, <2>7, <2>8 DEF IInv
<1>4. ASSUME NEW g \in Goroutines, Go(g) PROVE IInv'
  <2>1. /\ pc[g] = "merging" /\ ch[g] \in Runs /\ arg[g] \in Threads
        /\ on[ch[g]] = arg[g] /\ pc[ch[g]] = "unborn" /\ g # ch[g]
    BY <1>4 DEF Go, IInv, Reserved
  <2>2. TableTypes'
    BY <1>4, <2>1 DEF Go, IInv, TableTypes, GoroutineTypes
  <2>3. GoroutineTypes'
    BY <1>4, <2>1 DEF Go, IInv, TableTypes, GoroutineTypes
  <2>4. Numbered' /\ TailOfRun'
    BY <1>4, <2>1 DEF Go, IInv, TableTypes, GoroutineTypes, Numbered, TailOfRun
  <2>5. Reserved' /\ ArgKnown'
    BY <1>4, <2>1 DEF Go, IInv, TableTypes, GoroutineTypes, Reserved, ArgKnown
  <2>6. HolderBusy'
    BY <1>4, <2>1 DEF Go, IInv, TableTypes, GoroutineTypes, HolderBusy
  <2>7. OneHolder'
    BY <1>4, <2>1 DEF Go, IInv, TableTypes, GoroutineTypes, OneHolder, HolderBusy
  <2> QED  BY <2>2, <2>3, <2>4, <2>5, <2>6, <2>7 DEF IInv
<1>5. ASSUME NEW g \in Goroutines, NEW t \in Threads, Block(g, t) PROVE IInv'
  <2>1. TableTypes'
    BY <1>5 DEF Block, IInv, TableTypes, GoroutineTypes
  <2>2. GoroutineTypes'
    BY <1>5 DEF Block, IInv, TableTypes, GoroutineTypes
  <2>3. Numbered' /\ TailOfRun'
    BY <1>5 DEF Block, IInv, TableTypes, GoroutineTypes, Numbered, TailOfRun
  <2>4. Reserved' /\ ArgKnown'
    BY <1>5 DEF Block, IInv, TableTypes, GoroutineTypes, Reserved, ArgKnown
  <2>5. HolderBusy'
    BY <1>5 DEF Block, IInv, TableTypes, GoroutineTypes, HolderBusy
  <2>6. OneHolder'
    BY <1>5 DEF Block, IInv, TableTypes, GoroutineTypes, OneHolder, HolderBusy
  <2> QED  BY <2>1, <2>2, <2>3, <2>4, <2>5, <2>6 DEF IInv
<1>6. ASSUME NEW g \in Goroutines, Wake(g) PROVE IInv'
  <2>1. TableTypes'
    BY <1>6 DEF Wake, IInv, TableTypes, GoroutineTypes
  <2>2. GoroutineTypes'
    BY <1>6 DEF Wake, IInv, TableTypes, GoroutineTypes
  <2>3. Numbered' /\ TailOfRun'
    BY <1>6 DEF Wake, IInv, TableTypes, GoroutineTypes, Numbered, TailOfRun
  <2>4. Reserved' /\ ArgKnown'
    BY <1>6 DEF Wake, IInv, TableTypes, GoroutineTypes, Reserved, ArgKnown
  <2>5. HolderBusy'
    BY <1>6 DEF Wake, IInv, TableTypes, GoroutineTypes, HolderBusy
  <2>6. OneHolder'
    BY <1>6 DEF Wake, IInv, TableTypes, GoroutineTypes, OneHolder, HolderBusy
  <2> QED  BY <2>1, <2>2, <2>3, <2>4, <2>5, <2>6 DEF IInv
<1>7. ASSUME NEW g \in Goroutines, BlockReturn(g) PROVE IInv'
  <2>1. TableTypes'
    BY <1>7 DEF BlockReturn, IInv, TableTypes, GoroutineTypes
  <2>2. GoroutineTypes'
    BY <1>7 DEF BlockReturn, IInv, TableTypes, GoroutineTypes, ArgKnown
  <2>3. Numbered' /\ TailOfRun'
    BY <1>7 DEF BlockReturn, IInv, TableTypes, GoroutineTypes, Numbered, TailOfRun
  <2>4. Reserved' /\ ArgKnown'
    BY <1>7 DEF BlockReturn, IInv, TableTypes, GoroutineTypes, Reserved, ArgKnown
  <2>5. HolderBusy'
    BY <1>7 DEF BlockReturn, IInv, TableTypes, GoroutineTypes, HolderBusy
  <2>6. OneHolder'
    BY <1>7 DEF BlockReturn, IInv, TableTypes, GoroutineTypes, OneHolder, HolderBusy
  <2> QED  BY <2>1, <2>2, <2>3, <2>4, <2>5, <2>6 DEF IInv
<1>8. ASSUME NEW r \in Goroutines, Finish(r) PROVE IInv'
  <2>1. TableTypes'
    BY <1>8 DEF Finish, IInv, TableTypes, GoroutineTypes
  <2>2. GoroutineTypes'
    BY <1>8 DEF Finish, IInv, TableTypes, GoroutineTypes
  <2>3. Numbered' /\ TailOfRun'
    BY <1>8 DEF Finish, IInv, TableTypes, GoroutineTypes, Numbered, TailOfRun
  <2>4. Reserved' /\ ArgKnown'
    BY <1>8 DEF Finish, IInv, TableTypes, GoroutineTypes, Reserved, ArgKnown
  <2>5. HolderBusy'
    BY <1>8 DEF Finish, IInv, TableTypes, GoroutineTypes, HolderBusy
  <2>6. OneHolder'
    BY <1>8 DEF Finish, IInv, TableTypes, GoroutineTypes, OneHolder, HolderBusy
  <2> QED  BY <2>1, <2>2, <2>3, <2>4, <2>5, <2>6 DEF IInv
<1>9. ASSUME NEW r \in Goroutines, Reclaim(r) PROVE IInv'
  <2>1. TableTypes'
    BY <1>9 DEF Reclaim, IInv, TableTypes, GoroutineTypes
  <2>2. GoroutineTypes'
    BY <1>9 DEF Reclaim, IInv, TableTypes, GoroutineTypes
  <2>3. Numbered' /\ TailOfRun'
    BY <1>9 DEF Reclaim, IInv, TableTypes, GoroutineTypes, Numbered, TailOfRun
  <2>4. Reserved' /\ ArgKnown'
    BY <1>9 DEF Reclaim, IInv, TableTypes, GoroutineTypes, Reserved, ArgKnown
  <2>5. HolderBusy'
    BY <1>9 DEF Reclaim, IInv, TableTypes, GoroutineTypes, HolderBusy
  <2>6. OneHolder'
    BY <1>9 DEF Reclaim, IInv, TableTypes, GoroutineTypes, OneHolder, HolderBusy
  <2> QED  BY <2>1, <2>2, <2>3, <2>4, <2>5, <2>6 DEF IInv
<1>10. ASSUME NEW r \in Goroutines, Release(r) PROVE IInv'
  <2>1. r \in Runs /\ on[r] \in Threads /\ Holds(r, on[r])
    BY <1>10 DEF Release, IInv, GoroutineTypes, TailOfRun, Numbered
  <2>2. \A q \in Runs : Holds(q, on[r]) => q = r
    BY <2>1 DEF IInv, OneHolder
  <2>3. TableTypes'
    BY <1>10, <2>1, <2>2 DEF Release, IInv, TableTypes, GoroutineTypes
  <2>4. GoroutineTypes'
    BY <1>10, <2>1, <2>2 DEF Release, IInv, TableTypes, GoroutineTypes
  <2>5. Numbered' /\ TailOfRun'
    BY <1>10, <2>1, <2>2 DEF Release, IInv, TableTypes, GoroutineTypes, Numbered, TailOfRun
  <2>6. Reserved' /\ ArgKnown'
    BY <1>10, <2>1, <2>2 DEF Release, IInv, TableTypes, GoroutineTypes, Reserved, ArgKnown
  <2>7. HolderBusy'
    BY <1>10, <2>1, <2>2 DEF Release, IInv, TableTypes, GoroutineTypes, HolderBusy
  <2>8. OneHolder'
    BY <1>10, <2>1, <2>2 DEF Release, IInv, TableTypes, GoroutineTypes, OneHolder, HolderBusy
  <2> QED  BY <2>3, <2>4, <2>5, <2>6, <2>7, <2>8 DEF IInv
<1>11. ASSUME NEW r \in Goroutines, LoadDoneCh(r) PROVE IInv'
  <2>1. r \in Runs /\ on[r] \in Threads
    BY <1>11 DEF LoadDoneCh, IInv, GoroutineTypes, TailOfRun, Numbered
  <2>2. TableTypes'
    BY <1>11, <2>1 DEF LoadDoneCh, IInv, TableTypes, GoroutineTypes
  <2>3. GoroutineTypes'
    BY <1>11, <2>1 DEF LoadDoneCh, IInv, TableTypes, GoroutineTypes
  <2>4. Numbered' /\ TailOfRun'
    BY <1>11, <2>1 DEF LoadDoneCh, IInv, TableTypes, GoroutineTypes, Numbered, TailOfRun
  <2>5. Reserved' /\ ArgKnown'
    BY <1>11, <2>1 DEF LoadDoneCh, IInv, TableTypes, GoroutineTypes, Reserved, ArgKnown
  <2>6. HolderBusy'
    BY <1>11, <2>1 DEF LoadDoneCh, IInv, TableTypes, GoroutineTypes, HolderBusy
  <2>7. OneHolder'
    BY <1>11, <2>1 DEF LoadDoneCh, IInv, TableTypes, GoroutineTypes, OneHolder, HolderBusy
  <2> QED  BY <2>2, <2>3, <2>4, <2>5, <2>6, <2>7 DEF IInv
<1>12. ASSUME NEW r \in Goroutines, Close(r) PROVE IInv'
  <2>1. TableTypes'
    BY <1>12 DEF Close, IInv, TableTypes, GoroutineTypes
  <2>2. GoroutineTypes'
    BY <1>12 DEF Close, IInv, TableTypes, GoroutineTypes
  <2>3. Numbered' /\ TailOfRun'
    BY <1>12 DEF Close, IInv, TableTypes, GoroutineTypes, Numbered, TailOfRun
  <2>4. Reserved' /\ ArgKnown'
    BY <1>12 DEF Close, IInv, TableTypes, GoroutineTypes, Reserved, ArgKnown
  <2>5. HolderBusy'
    BY <1>12 DEF Close, IInv, TableTypes, GoroutineTypes, HolderBusy
  <2>6. OneHolder'
    BY <1>12 DEF Close, IInv, TableTypes, GoroutineTypes, OneHolder, HolderBusy
  <2> QED  BY <2>1, <2>2, <2>3, <2>4, <2>5, <2>6 DEF IInv
<1>13. CASE MainReturns
  <2>1. TableTypes'
    BY <1>13 DEF MainReturns, IInv, TableTypes, GoroutineTypes
  <2>2. GoroutineTypes'
    BY <1>13 DEF MainReturns, IInv, TableTypes, GoroutineTypes
  <2>3. Numbered' /\ TailOfRun'
    BY <1>13 DEF MainReturns, IInv, TableTypes, GoroutineTypes, Numbered, TailOfRun
  <2>4. Reserved' /\ ArgKnown'
    BY <1>13 DEF MainReturns, IInv, TableTypes, GoroutineTypes, Reserved, ArgKnown
  <2>5. HolderBusy'
    BY <1>13 DEF MainReturns, IInv, TableTypes, GoroutineTypes, HolderBusy
  <2>6. OneHolder'
    BY <1>13 DEF MainReturns, IInv, TableTypes, GoroutineTypes, OneHolder, HolderBusy
  <2> QED  BY <2>1, <2>2, <2>3, <2>4, <2>5, <2>6 DEF IInv
<1>14. CASE UNCHANGED vars
  <2>1. TableTypes'
    BY <1>14 DEF vars, IInv, TableTypes, GoroutineTypes
  <2>2. GoroutineTypes'
    BY <1>14 DEF vars, IInv, TableTypes, GoroutineTypes
  <2>3. Numbered' /\ TailOfRun'
    BY <1>14 DEF vars, IInv, TableTypes, GoroutineTypes, Numbered, TailOfRun
  <2>4. Reserved' /\ ArgKnown'
    BY <1>14 DEF vars, IInv, TableTypes, GoroutineTypes, Reserved, ArgKnown
  <2>5. HolderBusy'
    BY <1>14 DEF vars, IInv, TableTypes, GoroutineTypes, HolderBusy
  <2>6. OneHolder'
    BY <1>14 DEF vars, IInv, TableTypes, GoroutineTypes, OneHolder, HolderBusy
  <2> QED  BY <2>1, <2>2, <2>3, <2>4, <2>5, <2>6 DEF IInv
<1> QED
  BY <1>1, <1>2, <1>3, <1>4, <1>5, <1>6, <1>7, <1>8, <1>9, <1>10, <1>11, <1>12,
     <1>13, <1>14
     DEF Next, Call, Step, Stopped

\* The strengthened invariant holds throughout.
THEOREM Inductive == Spec => []IInv
BY InitIInv, StepIInv, PTL DEF Spec

\* The variables keep the types of the Go fields they stand for.
THEOREM TypeCorrect == Spec => []TypeOK
<1>1. IInv => TypeOK
  BY DEF IInv
<1> QED  BY <1>1, Inductive, PTL

\* At any time at most one goroutine of runOnThread works on a thread.
THEOREM MutualExclusion == Spec => []OneRunPerThread
<1>1. IInv => OneRunPerThread
  BY DEF IInv, OneHolder, OneRunPerThread, Occupies, Holds
<1> QED  BY <1>1, Inductive, PTL

\* When taskm.done(pid) answers true nothing runs, or is about to run, on it.
THEOREM DoneIsAccurate == Spec => []DoneMeansIdle
<1>1. IInv => DoneMeansIdle
  BY DEF IInv, HolderBusy, Reserved, DoneMeansIdle, Occupies, Holds, Freed
<1> QED  BY <1>1, Inductive, PTL

----------------------------------------------------------------------------
(* Every thread is merged into once.  A thread then names its run and the  *)
(* run its channel: the invariant says that on, doneCh, ch and err agree   *)
(* on which run is which (Once).                                           *)

MergedOnce == MergesPerThread = 1

\* No two runs share a thread.
OneEach == \A r, q \in Runs : on[r] = on[q] /\ on[r] # None => r = q
\* The channel in a task is that of its run, and a busy task has a run at work.
OwnChannel == /\ \A r \in Runs : on[r] # None => doneCh[on[r]] = r
              /\ \A t \in Threads : busy[t] =>
                    /\ doneCh[t] \in Runs /\ on[doneCh[t]] = t
                    /\ pc[doneCh[t]] \notin Freed
\* A run closes its own channel, as its last step, and nobody else does.
ClosedAtEnd == /\ \A r \in Runs : pc[r] = "close" => ch[r] = r
               /\ \A c \in closed : c \in Runs /\ pc[c] = "exited"
               /\ ~panicked
\* Who blocks has the channel of the thread's run, and has woken when it ended.
Waiters == \A g \in Goroutines :
              /\ pc[g] = "waiting" => ch[g] # None
              /\ pc[g] \in {"waiting", "woken"} /\ ch[g] # None =>
                    ch[g] \in Runs /\ on[ch[g]] = arg[g]
              /\ pc[g] = "woken" /\ ch[g] # None => pc[ch[g]] = "exited"
\* The task holds the outcome of its run once that has ended.
Outcome == \A r \in Runs :
              /\ r \in failed => Ended(r)
              /\ Ended(r) => err[on[r]] = IF r \in failed THEN r ELSE None

Once == OneEach /\ OwnChannel /\ ClosedAtEnd /\ Waiters /\ Outcome

----------------------------------------------------------------------------

\* The types, as far as the steps need them.
LEMMA Types ==
    ASSUME IInv
    PROVE  /\ busy \in [Threads -> BOOLEAN] /\ doneCh \in [Threads -> Runs \cup {None}]
           /\ err \in [Threads -> Runs \cup {None}] /\ pc \in [Goroutines -> Labels]
           /\ on \in [Goroutines -> Threads \cup {None}]
           /\ arg \in [Goroutines -> Threads \cup {None}]
           /\ ch \in [Goroutines -> Runs \cup {None}]
           /\ got \in [Goroutines -> Runs \cup {None}]
           /\ None \notin Threads /\ None \notin Runs /\ Main \notin Runs
           /\ Runs \subseteq Goroutines
BY NoThread DEF IInv, TypeOK, TableTypes, GoroutineTypes, Goroutines, Runs, None, Main

\* A run that has left its label "unborn" has a thread.
LEMMA RunHasThread ==
    ASSUME IInv, NEW r \in Runs, pc[r] # "unborn"
    PROVE  on[r] \in Threads
BY DEF IInv, Numbered

\* Merge reserves a run without a thread on a thread without a run.
LEMMA MergeReserves ==
    ASSUME MergedOnce, IInv, NEW g \in Goroutines, NEW t \in Threads, Merge(g, t)
    PROVE  /\ merged + 1 \in Runs /\ on[merged + 1] = None
           /\ pc[merged + 1] = "unborn" /\ g # merged + 1
           /\ \A r \in Runs : on[r] # t
<1>1. merged + 1 \in Runs /\ merged \in Nat
  BY BoundsAssumption DEF Merge, Reserve, IInv, TypeOK, TableTypes, Runs
<1>2. on[merged + 1] = None /\ pc[merged + 1] = "unborn" /\ g # merged + 1
  BY <1>1 DEF IInv, Numbered, Merge, MayCall, Runs
<1>3. {r \in Runs : on[r] = t} = {}
  <2>1. IsFiniteSet(Runs)
    BY FS_Interval, BoundsAssumption DEF Runs
  <2>2. IsFiniteSet({r \in Runs : on[r] = t})
    BY <2>1, FS_Subset
  <2>3. Cardinality({r \in Runs : on[r] = t}) < 1
    BY DEF MergedOnce, Merge, Reserve
  <2>4. Cardinality({r \in Runs : on[r] = t}) \in Nat
    BY <2>2, FS_CardinalityType
  <2>5. Cardinality({r \in Runs : on[r] = t}) = 0
    BY <2>3, <2>4
  <2> QED BY <2>2, <2>5, FS_EmptySet
<1> QED BY <1>1, <1>2, <1>3

\* Every step keeps the invariant.
LEMMA StepKeepsOnce ==
    ASSUME MergedOnce, IInv, Once, [Next]_vars
    PROVE  Once'
<1> USE DEF Once, Goto, MayCall, tasks
<1>1. ASSUME NEW g \in Goroutines, Spawn(g) PROVE Once'
  <2>1. OneEach'
    BY <1>1, Types DEF Spawn, OneEach
  <2>2. OwnChannel'
    BY <1>1, Types DEF Spawn, OwnChannel, Freed
  <2>3. ClosedAtEnd'
    BY <1>1, Types DEF Spawn, ClosedAtEnd
  <2>4. Waiters'
    BY <1>1, Types DEF Spawn, Waiters
  <2>5. Outcome'
    BY <1>1, Types DEF Spawn, Outcome, Ended, Freed
  <2> QED BY <2>1, <2>2, <2>3, <2>4, <2>5
<1>2. ASSUME NEW g \in Goroutines, SpawnPid(g) PROVE Once'
  <2>1. OneEach'
    BY <1>2, Types DEF SpawnPid, OneEach
  <2>2. OwnChannel'
    BY <1>2, Types DEF SpawnPid, OwnChannel, Freed
  <2>3. ClosedAtEnd'
    BY <1>2, Types DEF SpawnPid, ClosedAtEnd
  <2>4. Waiters'
    BY <1>2, Types DEF SpawnPid, Waiters
  <2>5. Outcome'
    BY <1>2, Types DEF SpawnPid, Outcome, Ended, Freed
  <2> QED BY <2>1, <2>2, <2>3, <2>4, <2>5
<1>3. ASSUME NEW g \in Goroutines, NEW t \in Threads, Merge(g, t) PROVE Once'
  <2>1. /\ merged + 1 \in Runs /\ on[merged + 1] = None
        /\ pc[merged + 1] = "unborn" /\ g # merged + 1
        /\ \A r \in Runs : on[r] # t
    BY <1>3, MergeReserves
  <2>2. OneEach'
    BY <1>3, Types, <2>1 DEF Merge, Reserve, OneEach
  <2>3. OwnChannel'
    BY <1>3, Types, <2>1 DEF Merge, Reserve, OwnChannel, Freed, OneEach, ClosedAtEnd
  <2>4. ClosedAtEnd'
    BY <1>3, Types, <2>1 DEF Merge, Reserve, ClosedAtEnd
  <2>5. Waiters'
    <3>1. \A h \in Goroutines : pc[h] \in {"waiting", "woken"} => arg[h] \in Threads
      BY DEF IInv, ArgKnown
    <3>2. \A h \in Goroutines :
             pc[h] \in {"waiting", "woken"} /\ ch[h] # None => ch[h] # merged + 1
      BY <2>1, <3>1, Types DEF Waiters
    <3> QED BY <1>3, Types, <2>1, <3>2 DEF Merge, Reserve, Waiters
  <2>6. Outcome'
    BY <1>3, Types, <2>1 DEF Merge, Reserve, Outcome, Ended, Freed, OneEach, OwnChannel, ClosedAtEnd
  <2> QED BY <2>2, <2>3, <2>4, <2>5, <2>6
<1>4. ASSUME NEW g \in Goroutines, Go(g) PROVE Once'
  <2>1. /\ pc[g] = "merging" /\ ch[g] \in Runs /\ g # ch[g]
        /\ pc[ch[g]] = "unborn" /\ on[ch[g]] \in Threads
    BY <1>4 DEF Go, IInv, Reserved
  <2>2. OneEach'
    BY <1>4, Types, <2>1 DEF Go, OneEach
  <2>3. OwnChannel'
    BY <1>4, Types, <2>1 DEF Go, OwnChannel, Freed
  <2>4. ClosedAtEnd'
    BY <1>4, Types, <2>1 DEF Go, ClosedAtEnd
  <2>5. Waiters'
    BY <1>4, Types, <2>1 DEF Go, Waiters
  <2>6. Outcome'
    BY <1>4, Types, <2>1 DEF Go, Outcome, Ended, Freed, OneEach, OwnChannel, ClosedAtEnd
  <2> QED BY <2>2, <2>3, <2>4, <2>5, <2>6
<1>5. ASSUME NEW g \in Goroutines, NEW t \in Threads, Block(g, t) PROVE Once'
  <2>1. OneEach'
    BY <1>5, Types DEF Block, OneEach
  <2>2. OwnChannel'
    BY <1>5, Types DEF Block, OwnChannel, Freed
  <2>3. ClosedAtEnd'
    BY <1>5, Types DEF Block, ClosedAtEnd
  <2>4. Waiters'
    BY <1>5, Types DEF Block, Waiters, OneEach, OwnChannel, ClosedAtEnd, Freed
  <2>5. Outcome'
    BY <1>5, Types DEF Block, Outcome, Ended, Freed
  <2> QED BY <2>1, <2>2, <2>3, <2>4, <2>5
<1>6. ASSUME NEW g \in Goroutines, Wake(g) PROVE Once'
  <2>1. OneEach'
    BY <1>6, Types DEF Wake, OneEach
  <2>2. OwnChannel'
    BY <1>6, Types DEF Wake, OwnChannel, Freed
  <2>3. ClosedAtEnd'
    BY <1>6, Types DEF Wake, ClosedAtEnd
  <2>4. Waiters'
    BY <1>6, Types DEF Wake, Waiters, OneEach, OwnChannel, ClosedAtEnd, Freed
  <2>5. Outcome'
    BY <1>6, Types DEF Wake, Outcome, Ended, Freed
  <2> QED BY <2>1, <2>2, <2>3, <2>4, <2>5
<1>7. ASSUME NEW g \in Goroutines, BlockReturn(g) PROVE Once'
  <2>1. OneEach'
    BY <1>7, Types DEF BlockReturn, OneEach
  <2>2. OwnChannel'
    BY <1>7, Types DEF BlockReturn, OwnChannel, Freed
  <2>3. ClosedAtEnd'
    BY <1>7, Types DEF BlockReturn, ClosedAtEnd
  <2>4. Waiters'
    BY <1>7, Types DEF BlockReturn, Waiters
  <2>5. Outcome'
    BY <1>7, Types DEF BlockReturn, Outcome, Ended, Freed
  <2> QED BY <2>1, <2>2, <2>3, <2>4, <2>5
<1>8. ASSUME NEW r \in Goroutines, Finish(r) PROVE Once'
  <2>1. r \in Runs /\ on[r] \in Threads
    BY <1>8, RunHasThread DEF Finish, IInv, TailOfRun
  <2>2. OneEach'
    BY <1>8, Types, <2>1 DEF Finish, OneEach
  <2>3. OwnChannel'
    BY <1>8, Types, <2>1 DEF Finish, OwnChannel, Freed
  <2>4. ClosedAtEnd'
    BY <1>8, Types, <2>1 DEF Finish, ClosedAtEnd
  <2>5. Waiters'
    BY <1>8, Types, <2>1 DEF Finish, Waiters
  <2>6. Outcome'
    <3>1. \A q \in Runs : Ended(q) => on[q] \in Threads
      BY RunHasThread DEF Ended, Freed
    <3>2. \A q \in Runs : Ended(q) => q # r /\ on[q] # on[r]
      BY <1>8, <2>1, <3>1, Types DEF Finish, OneEach, Ended, Freed
    <3>3. \A q \in Runs : q # r => (Ended(q)' <=> Ended(q))
      BY <1>8, <2>1, Types DEF Finish, Ended
    <3>4. /\ Ended(r)'
          /\ r \notin failed
          /\ err'[on[r]] = IF r \in failed' THEN r ELSE None
      BY <1>8, <2>1, Types DEF Finish, Outcome, Ended, Freed
    <3>5. \A q \in Runs : q # r => (q \in failed' <=> q \in failed)
      BY <1>8 DEF Finish
    <3>6. \A q \in Runs : Ended(q) => err'[on[q]] = err[on[q]]
      BY <1>8, <3>1, <3>2, Types DEF Finish
    <3>7. on' = on
      BY <1>8 DEF Finish
    <3> QED BY <3>2, <3>3, <3>4, <3>5, <3>6, <3>7 DEF Outcome
  <2> QED BY <2>2, <2>3, <2>4, <2>5, <2>6
<1>9. ASSUME NEW r \in Goroutines, Reclaim(r) PROVE Once'
  <2>1. r \in Runs /\ on[r] \in Threads
    BY <1>9, RunHasThread DEF Reclaim, IInv, TailOfRun
  <2>2. OneEach'
    BY <1>9, Types, <2>1 DEF Reclaim, OneEach
  <2>3. OwnChannel'
    BY <1>9, Types, <2>1 DEF Reclaim, OwnChannel, Freed
  <2>4. ClosedAtEnd'
    BY <1>9, Types, <2>1 DEF Reclaim, ClosedAtEnd
  <2>5. Waiters'
    BY <1>9, Types, <2>1 DEF Reclaim, Waiters
  <2>6. Outcome'
    BY <1>9, Types, <2>1 DEF Reclaim, Outcome, Ended, Freed
  <2> QED BY <2>2, <2>3, <2>4, <2>5, <2>6
<1>10. ASSUME NEW r \in Goroutines, Release(r) PROVE Once'
  <2>1. r \in Runs /\ on[r] \in Threads
    BY <1>10, RunHasThread DEF Release, IInv, TailOfRun
  <2>2. OneEach'
    BY <1>10, Types, <2>1 DEF Release, OneEach
  <2>3. OwnChannel'
    BY <1>10, Types, <2>1 DEF Release, OwnChannel, Freed, OneEach
  <2>4. ClosedAtEnd'
    BY <1>10, Types, <2>1 DEF Release, ClosedAtEnd
  <2>5. Waiters'
    BY <1>10, Types, <2>1 DEF Release, Waiters
  <2>6. Outcome'
    BY <1>10, Types, <2>1 DEF Release, Outcome, Ended, Freed
  <2> QED BY <2>2, <2>3, <2>4, <2>5, <2>6
<1>11. ASSUME NEW r \in Goroutines, LoadDoneCh(r) PROVE Once'
  <2>1. r \in Runs /\ on[r] \in Threads
    BY <1>11, RunHasThread DEF LoadDoneCh, IInv, TailOfRun
  <2>2. OneEach'
    BY <1>11, Types, <2>1 DEF LoadDoneCh, OneEach
  <2>3. OwnChannel'
    BY <1>11, Types, <2>1 DEF LoadDoneCh, OwnChannel, Freed
  <2>4. ClosedAtEnd'
    BY <1>11, Types, <2>1 DEF LoadDoneCh, ClosedAtEnd, OneEach, OwnChannel
  <2>5. Waiters'
    BY <1>11, Types, <2>1 DEF LoadDoneCh, Waiters, OneEach, OwnChannel, ClosedAtEnd, Freed
  <2>6. Outcome'
    BY <1>11, Types, <2>1 DEF LoadDoneCh, Outcome, Ended, Freed
  <2> QED BY <2>2, <2>3, <2>4, <2>5, <2>6
<1>12. ASSUME NEW r \in Goroutines, Close(r) PROVE Once'
  <2>1. r \in Runs /\ on[r] \in Threads
    BY <1>12, RunHasThread DEF Close, IInv, TailOfRun
  <2>2. OneEach'
    BY <1>12, Types, <2>1 DEF Close, OneEach
  <2>3. OwnChannel'
    BY <1>12, Types, <2>1 DEF Close, OwnChannel, Freed
  <2>4. ClosedAtEnd'
    <3>1. ch[r] = r /\ r \notin closed
      BY <1>12, <2>1 DEF Close, ClosedAtEnd
    <3>2. ~panicked' /\ closed' = closed \cup {r}
      BY <1>12, <3>1 DEF Close
    <3> QED BY <1>12, Types, <2>1, <3>2 DEF Close, ClosedAtEnd
  <2>5. Waiters'
    BY <1>12, Types, <2>1 DEF Close, Waiters, OneEach, OwnChannel, ClosedAtEnd, Freed
  <2>6. Outcome'
    BY <1>12, Types, <2>1 DEF Close, Outcome, Ended, Freed
  <2> QED BY <2>2, <2>3, <2>4, <2>5, <2>6
<1>13. CASE MainReturns
  BY <1>13, Types DEF MainReturns, OneEach, OwnChannel, ClosedAtEnd, Waiters, Outcome, Ended, Freed
<1>14. CASE UNCHANGED vars
  BY <1>14, Types DEF vars, OneEach, OwnChannel, ClosedAtEnd, Waiters, Outcome, Ended, Freed
<1> QED
  BY <1>1, <1>2, <1>3, <1>4, <1>5, <1>6, <1>7, <1>8, <1>9, <1>10, <1>11, <1>12, <1>13, <1>14
     DEF Next, Call, Step, Stopped

\* The invariant holds throughout, when no thread is merged into twice.
THEOREM OnceInvariant == ASSUME MergedOnce PROVE Spec => [](IInv /\ Once)
<1>1. Init => IInv /\ Once
  <2> SUFFICES ASSUME Init PROVE IInv /\ Once OBVIOUS
  <2>1. IInv BY InitIInv
  <2>2. \A r \in Runs : pc[r] = "unborn"
    BY DEF Init, Goroutines, Runs, Main
  <2>3. OneEach BY DEF Init, OneEach, Goroutines
  <2>4. OwnChannel BY DEF Init, OwnChannel, Goroutines
  <2>5. ClosedAtEnd BY <2>2 DEF Init, ClosedAtEnd
  <2>6. Waiters BY DEF Init, Waiters, Goroutines
  <2>7. Outcome BY <2>2 DEF Init, Outcome, Ended, Freed
  <2> QED BY <2>1, <2>3, <2>4, <2>5, <2>6, <2>7 DEF Once
<1>2. IInv /\ Once /\ [Next]_vars => (IInv /\ Once)'
  BY StepIInv, StepKeepsOnce
<1> QED BY <1>1, <1>2, PTL DEF Spec

----------------------------------------------------------------------------

\* taskm.block on a busy thread returns only when the function it found there
\* has ended: the channel it waits for is closed by that run and no other.
THEOREM BlockWaitsForItsRun == ASSUME MergedOnce PROVE Spec => []BlockWaits
<1>1. Once => BlockWaits
  BY DEF Once, Waiters, BlockWaits, Ended, Freed
<1> QED BY <1>1, OnceInvariant, PTL

\* Two runs never close one channel, so the process does not panic.
THEOREM ProcessSurvives == ASSUME MergedOnce PROVE Spec => []NoDoubleClose
<1>1. Once => NoDoubleClose
  BY DEF Once, ClosedAtEnd, NoDoubleClose
<1> QED BY <1>1, OnceInvariant, PTL

\* Only block itself moves a goroutine from the wait back to the program.
LEMMA ReturnsByBlock ==
    ASSUME IInv, [Next]_vars, NEW g \in Goroutines, pc[g] = "woken", pc'[g] = "code"
    PROVE  BlockReturn(g)
<1> USE Types DEF Goto, MayCall
<1>1. ASSUME NEW h \in Goroutines, Call(h) \/ Step(h) PROVE BlockReturn(g)
  <2>1. CASE h = g
    BY <1>1, <2>1 DEF Call, Step, Spawn, Merge, Reserve, Block, SpawnPid, Go, Wake, Finish,
       Reclaim, Release, LoadDoneCh, Close
  <2>2. CASE h # g
    <3>1. CASE Go(h)
      BY <2>2, <3>1 DEF Go, IInv, Reserved
    <3>2. CASE ~Go(h)
      BY <1>1, <2>2, <3>2 DEF Call, Step, Spawn, Merge, Reserve, Block, SpawnPid, Wake,
         BlockReturn, Finish, Reclaim, Release, LoadDoneCh, Close
    <3> QED BY <3>1, <3>2
  <2> QED BY <2>1, <2>2
<1>2. CASE MainReturns BY <1>2 DEF MainReturns
<1>3. CASE UNCHANGED vars BY <1>3 DEF vars
<1> QED BY <1>1, <1>2, <1>3 DEF Next, Stopped

\* A block that waited for a run returns the error of that run, or none when it
\* succeeded, although err is read outside taskMu after the wait.
THEOREM ErrorsAreDelivered == ASSUME MergedOnce PROVE Spec => ErrorDelivered
<1> DEFINE Delivers(g) == pc[g] = "woken" /\ pc'[g] = "code" /\ ch[g] # None =>
                             got'[g] = IF ch[g] \in failed THEN ch[g] ELSE None
<1>1. IInv /\ Once /\ [Next]_vars => \A g \in Goroutines : Delivers(g)
  <2> SUFFICES ASSUME IInv, Once, [Next]_vars, NEW g \in Goroutines,
                      pc[g] = "woken", pc'[g] = "code", ch[g] # None
               PROVE  got'[g] = IF ch[g] \in failed THEN ch[g] ELSE None
    OBVIOUS
  <2>1. ch[g] \in Runs /\ on[ch[g]] = arg[g] /\ pc[ch[g]] = "exited"
    BY DEF Once, Waiters
  <2>2. err[arg[g]] = IF ch[g] \in failed THEN ch[g] ELSE None
    BY <2>1 DEF Once, Outcome, Ended, Freed
  <2>3. got'[g] = err[arg[g]]
    BY ReturnsByBlock, Types DEF BlockReturn
  <2> QED BY <2>2, <2>3
<1>2. IInv /\ Once /\ [Next]_vars => [\A g \in Goroutines : Delivers(g)]_vars
  BY <1>1
<1> QED BY <1>2, OnceInvariant, PTL DEF Spec, ErrorDelivered

----------------------------------------------------------------------------

\* The safety part of KeepsPromise.
PromisedSteps == Promise!Init /\ [][Promise!Next]_(Promise!vars)

\* The abstract state of one run and one goroutine.
LEMMA Mapping ==
    /\ \A r \in Runs : RunState[r] = IF on[r] = None THEN "none"
                                     ELSE IF pc[r] \in Freed THEN "done" ELSE "running"
    /\ \A g \in Goroutines : Awaited[g] = IF pc[g] = "waiting" THEN ch[g] ELSE None
BY DEF RunState, Awaited, None

\* What an action has to leave alone to be a stutter of the promise.
LEMMA Stutters ==
    ASSUME UNCHANGED <<on, Alive>>,
           \A r \in Runs : on[r] # None => (pc'[r] \in Freed <=> pc[r] \in Freed),
           \A g \in Goroutines : pc'[g] = "waiting" <=> pc[g] = "waiting",
           \A g \in Goroutines : pc[g] = "waiting" => ch'[g] = ch[g]
    PROVE  UNCHANGED Promise!vars
<1>1. RunState' = RunState
  BY DEF RunState, None
<1>2. Awaited' = Awaited
  BY DEF Awaited
<1> QED BY <1>1, <1>2 DEF Promise!vars

\* A merge starts a function on a thread on which none runs.
LEMMA MergeStarts ==
    ASSUME MergedOnce, IInv, Once, Alive, NEW g \in Goroutines, NEW t \in Threads, Merge(g, t)
    PROVE  Promise!Next
<1>1. /\ merged + 1 \in Runs /\ on[merged + 1] = None
      /\ pc[merged + 1] = "unborn" /\ g # merged + 1
      /\ \A r \in Runs : on[r] # t
  BY MergeReserves
<1>2. /\ on' = [on EXCEPT ![merged + 1] = t] /\ pc' = [pc EXCEPT ![g] = "merging"]
      /\ ch' = [ch EXCEPT ![g] = merged + 1] /\ pc[g] = "code" /\ panicked' = panicked
  BY DEF Merge, Reserve, MayCall, Goto
<1>3. RunState' = [RunState EXCEPT ![merged + 1] = "running"]
  BY <1>1, <1>2, Types DEF RunState, Freed, None
<1>4. [r \in Runs |-> on[r]]' = [[r \in Runs |-> on[r]] EXCEPT ![merged + 1] = t]
  BY <1>1, <1>2, Types
<1>5. Awaited' = Awaited
  BY <1>2, Types DEF Awaited
<1>6. Alive' = Alive
  BY <1>2, Types DEF Alive, Goroutines
<1>7. Promise!Start(merged + 1, t)
  BY <1>1, <1>3, <1>4, <1>5, <1>6, Mapping DEF Promise!Start
<1> QED BY <1>1, <1>7 DEF Promise!Next

\* A block on a busy thread waits for the function that runs there.
LEMMA BlockAwaits ==
    ASSUME IInv, Once, Alive, NEW g \in Goroutines, NEW t \in Threads, Block(g, t)
    PROVE  Promise!Next \/ UNCHANGED Promise!vars
<1>0. /\ pc[g] = "code" /\ UNCHANGED <<on, panicked>>
      /\ ch' = [ch EXCEPT ![g] = IF busy[t] THEN doneCh[t] ELSE None]
      /\ pc' = [pc EXCEPT ![g] = IF busy[t] THEN "waiting" ELSE "woken"]
  BY DEF Block, MayCall, Goto, tasks
<1>1. Alive' = Alive
  BY <1>0, Types DEF Alive, Goroutines
<1>2. CASE ~busy[t]
  BY <1>0, <1>1, <1>2, Types, Stutters DEF Freed
<1>3. CASE busy[t]
  <2>1. /\ doneCh[t] \in Runs /\ on[doneCh[t]] = t /\ pc[doneCh[t]] \notin Freed
    BY <1>3 DEF Once, OwnChannel
  <2>2. RunState[doneCh[t]] = "running"
    BY <2>1, Types, Mapping
  <2>3. RunState' = RunState
    BY <1>0, <1>3, Types DEF RunState, Freed, None
  <2>4. Awaited' = [Awaited EXCEPT ![g] = doneCh[t]] /\ Awaited[g] = 0
    BY <1>0, <1>3, Types DEF Awaited, None
  <2>5. Promise!Await(g, doneCh[t])
    BY <1>0, <1>1, <2>2, <2>3, <2>4 DEF Promise!Await
  <2> QED BY <2>1, <2>5 DEF Promise!Next
<1> QED BY <1>2, <1>3

\* A goroutine goes on when the function it waited for has ended.
LEMMA WakeResumes ==
    ASSUME IInv, Once, Alive, NEW g \in Goroutines, Wake(g)
    PROVE  Promise!Next
<1>0. /\ pc[g] = "waiting" /\ ch[g] \in closed /\ UNCHANGED <<on, ch, panicked>>
      /\ pc' = [pc EXCEPT ![g] = "woken"]
  BY DEF Wake, Goto
<1>1. ch[g] \in Runs /\ pc[ch[g]] = "exited"
  BY <1>0 DEF Once, ClosedAtEnd
<1>2. RunState[ch[g]] = "done"
  BY <1>1, Types, RunHasThread, Mapping DEF Freed
<1>3. RunState' = RunState
  BY <1>0, Types DEF RunState, Freed, None
<1>4. Awaited' = [Awaited EXCEPT ![g] = 0] /\ Awaited[g] = ch[g] /\ ch[g] # 0
  BY <1>0, <1>1, Types DEF Awaited, None
<1>5. Alive' = Alive
  BY <1>0, Types DEF Alive, Goroutines
<1>6. Promise!Resume(g)
  BY <1>0, <1>2, <1>3, <1>4, <1>5 DEF Promise!Resume
<1> QED BY <1>6 DEF Promise!Next

\* A function ends when its goroutine frees the thread.
LEMMA ReleaseEnds ==
    ASSUME IInv, Once, Alive, NEW r \in Goroutines, Release(r)
    PROVE  Promise!Next
<1>0. /\ pc[r] = "unlock" /\ UNCHANGED <<on, ch, panicked>>
      /\ pc' = [pc EXCEPT ![r] = "load"]
  BY DEF Release, Goto
<1>1. r \in Runs /\ on[r] \in Threads
  BY <1>0, RunHasThread DEF IInv, TailOfRun
<1>2. RunState[r] = "running" /\ RunState' = [RunState EXCEPT ![r] = "done"]
  BY <1>0, <1>1, Types DEF RunState, Freed, None
<1>3. Awaited' = Awaited
  BY <1>0, Types DEF Awaited
<1>4. Alive' = Alive
  BY <1>0, <1>1, Types DEF Alive, Goroutines
<1>5. Promise!End(r)
  BY <1>0, <1>2, <1>3, <1>4 DEF Promise!End
<1> QED BY <1>1, <1>5 DEF Promise!Next

\* Every other step of a goroutine is invisible.
LEMMA RestStutters ==
    ASSUME IInv, Once, Alive, NEW g \in Goroutines,
           \/ Spawn(g) \/ SpawnPid(g) \/ Go(g) \/ BlockReturn(g) \/ Finish(g)
           \/ Reclaim(g) \/ LoadDoneCh(g) \/ Close(g)
    PROVE  UNCHANGED Promise!vars
<1> USE Types, Stutters DEF Goto, MayCall, Freed, Alive, Goroutines
<1>1. CASE Spawn(g) BY <1>1 DEF Spawn
<1>2. CASE SpawnPid(g) BY <1>2 DEF SpawnPid
<1>3. CASE Go(g)
  <2>1. ch[g] \in Runs /\ pc[ch[g]] = "unborn"
    BY <1>3 DEF Go, IInv, Reserved
  <2> QED BY <1>3, <2>1 DEF Go
<1>4. CASE BlockReturn(g) BY <1>4 DEF BlockReturn
<1>5. CASE Finish(g) BY <1>5 DEF Finish
<1>6. CASE Reclaim(g) BY <1>6 DEF Reclaim
<1>7. CASE LoadDoneCh(g)
  <2>1. g \in Runs BY <1>7 DEF LoadDoneCh, IInv, TailOfRun
  <2> QED BY <1>7, <2>1 DEF LoadDoneCh
<1>8. CASE Close(g)
  <2>1. g \in Runs /\ ch[g] = g /\ g \notin closed
    BY <1>8 DEF Close, IInv, TailOfRun, Once, ClosedAtEnd
  <2> QED BY <1>8, <2>1 DEF Close
<1> QED BY <1>1, <1>2, <1>3, <1>4, <1>5, <1>6, <1>7, <1>8

\* Every step of the interpreter's threads is one the promise allows: functions
\* start on free threads, and block goes on when, and only when, the function it
\* found running has ended (runOnThread, taskm.block).
THEOREM ThreadsKeepPromise == ASSUME MergedOnce PROVE Spec => PromisedSteps
<1>1. Init => Promise!Init
  <2> SUFFICES ASSUME Init PROVE Promise!Init OBVIOUS
  <2>1. RunState = [r \in Runs |-> "none"] /\ [r \in Runs |-> on[r]] = [r \in Runs |-> 0]
    BY DEF Init, RunState, Goroutines, None
  <2>2. Awaited = [g \in Goroutines |-> 0]
    BY DEF Init, Awaited
  <2>3. Alive
    BY DEF Init, Alive, Goroutines
  <2> QED BY <2>1, <2>2, <2>3 DEF Promise!Init
<1>2. IInv /\ Once /\ [Next]_vars => [Promise!Next]_(Promise!vars)
  <2> SUFFICES ASSUME IInv, Once, [Next]_vars
               PROVE  Promise!Next \/ UNCHANGED Promise!vars
    OBVIOUS
  <2>1. ASSUME Alive, NEW g \in Goroutines, Call(g) \/ Step(g)
        PROVE  Promise!Next \/ UNCHANGED Promise!vars
    <3>1. ASSUME NEW t \in Threads, Merge(g, t) PROVE Promise!Next
      BY <2>1, <3>1, MergeStarts
    <3>2. ASSUME NEW t \in Threads, Block(g, t) PROVE Promise!Next \/ UNCHANGED Promise!vars
      BY <2>1, <3>2, BlockAwaits
    <3>3. CASE Wake(g) BY <2>1, <3>3, WakeResumes
    <3>4. CASE Release(g) BY <2>1, <3>4, ReleaseEnds
    <3>5. CASE \/ Spawn(g) \/ SpawnPid(g) \/ Go(g) \/ BlockReturn(g) \/ Finish(g)
               \/ Reclaim(g) \/ LoadDoneCh(g) \/ Close(g)
      BY <2>1, <3>5, RestStutters
    <3> QED BY <2>1, <3>1, <3>2, <3>3, <3>4, <3>5 DEF Call, Step
  <2>2. CASE Alive /\ MainReturns
    <3>1. /\ pc[Main] = "code" /\ pc' = [pc EXCEPT ![Main] = "exited"]
          /\ UNCHANGED <<on, ch>>
      BY <2>2 DEF MainReturns, Goto
    <3>2. RunState' = RunState /\ Awaited' = Awaited
      BY <3>1, Types DEF RunState, Awaited, None
    <3>3. Alive' = FALSE
      BY <3>1, Types DEF Alive, Goroutines
    <3> QED BY <2>2, <3>1, <3>2, <3>3 DEF Promise!Next, Promise!Stop
  <2>3. CASE UNCHANGED vars
    BY <2>3 DEF vars, Promise!vars, RunState, Awaited, Alive
  <2> QED BY <2>1, <2>2, <2>3 DEF Next, Stopped
<1> QED BY <1>1, <1>2, OnceInvariant, PTL DEF Spec, PromisedSteps
=============================================================================
