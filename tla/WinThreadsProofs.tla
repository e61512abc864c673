-------------------------- MODULE WinThreadsProofs --------------------------
(***************************************************************************)
(* Proofs about the Windows runtime of compiled programs, for any number   *)
(* of threads and tasks, any values and any capacity of the channel.       *)
(*                                                                         *)
(* As in the worker pool, a test made under the lock is still true when    *)
(* the ring is changed only because nobody else is between the lock and    *)
(* the unlock (OneInside).  DoneMeansRun needs in addition that a task     *)
(* which a program merges into only when it is idle has one thread, whose  *)
(* function is the one in the task (OneHolder, HolderRuns).                *)
(***************************************************************************)
EXTENDS WinThreads, SequenceTheorems, TLAPS

\* The labels between AcquireSRWLockExclusive and ReleaseSRWLockExclusive.
Inside(p) == pc[p] \in {"test", "store", "take", "wake", "unlock"}

\* The lock is taken while a thread is inside, and only one can be.
OneInside == /\ \A p \in Threads : Inside(p) => mu = 1
             /\ \A p, q \in Threads : Inside(p) /\ Inside(q) => p = q

\* A created thread knows its task, its creator the one it creates it for.
InHand == /\ pc[Main] \notin {"unborn", "born", "report", "ended"}
          /\ \A p \in Threads : /\ pc[p] \in {"create", "spin"} => arg[p] \in Tasks
                                /\ p # Main /\ pc[p] # "unborn" => task[p] \in Tasks

Inductive == TypeOK /\ OneInside /\ RingSound /\ NobodyOverslept /\ InHand

----------------------------------------------------------------------------

\* The ring's index arithmetic, for the positions it uses.
LEMMA Wrap ==
    ASSUME NEW a \in Nat, a < Cap + Cap
    PROVE  /\ a % Cap = (IF a < Cap THEN a ELSE a - Cap)
           /\ a % Cap \in Slots
<1>1. a % Cap = (IF a < Cap THEN a ELSE a - Cap)
  BY BoundsAssumption, SMTT(30)
<1> QED BY <1>1, BoundsAssumption DEF Slots

\* One step along the ring, taken before wrapping or after.
LEMMA WrapStep ==
    ASSUME NEW h \in Slots, NEW i \in Slots
    PROVE  (((h + 1) % Cap) + i) % Cap = (h + (i + 1)) % Cap
<1>0. Cap \in Nat \ {0} /\ h \in 0..(Cap - 1) /\ i \in 0..(Cap - 1)
  BY BoundsAssumption DEF Slots
<1>1. CASE h + 1 < Cap
  <2>1. (h + 1) % Cap = h + 1 /\ (h + 1) + i = h + (i + 1)
    BY <1>0, <1>1, Wrap
  <2> QED BY <2>1
<1>2. CASE h + 1 = Cap
  <2>1. (h + 1) % Cap = 0 /\ i % Cap = i /\ 0 + i = i
    BY <1>0, <1>2, Wrap
  <2>2. h + (i + 1) \in Nat /\ h + (i + 1) < Cap + Cap /\ ~(h + (i + 1) < Cap)
        /\ h + (i + 1) - Cap = i
    BY <1>0, <1>2
  <2> DEFINE s == h + (i + 1)
  <2>3. s % Cap = i
    <3> HIDE DEF s
    <3>1. s \in Nat /\ s < Cap + Cap /\ ~(s < Cap) /\ s - Cap = i
      BY <1>0, <1>2 DEF s
    <3> QED BY <3>1, Wrap
  <2> QED BY <2>1, <2>3
<1> QED BY <1>0, <1>1, <1>2

\* Different positions within one turn of the ring are different slots.
LEMMA WrapDistinct ==
    ASSUME NEW h \in Slots, NEW i \in Slots, NEW n \in Slots, i < n
    PROVE  (h + i) % Cap # (h + n) % Cap
<1>0. Cap \in Nat \ {0} /\ h \in 0..(Cap - 1) /\ i \in 0..(Cap - 1) /\ n \in 0..(Cap - 1)
  BY BoundsAssumption DEF Slots
<1>1. (h + i) % Cap = (IF h + i < Cap THEN h + i ELSE h + i - Cap)
  BY <1>0, Wrap
<1>2. (h + n) % Cap = (IF h + n < Cap THEN h + n ELSE h + n - Cap)
  BY <1>0, Wrap
<1> QED BY <1>0, <1>1, <1>2

----------------------------------------------------------------------------

\* The steps of a thread preserve the invariant.
LEMMA StepKeepsInductive ==
    ASSUME Inductive, [Next]_vars
    PROVE  Inductive'
<1> USE BoundsAssumption, ValuesAssumption, TasksAssumption DEF Threads, Merges, Main, None
<1>1. ASSUME NEW p \in Threads, NEW v \in Values, Send(p, v) PROVE Inductive'
  <2>1. TypeOK'
    BY <1>1 DEF Inductive, TypeOK, RingTypes, DataTypes, ThreadTypes, Send, Goto, ring, data, locals, Labels
  <2>2. OneInside'
    BY <1>1 DEF Inductive, TypeOK, RingTypes, DataTypes, ThreadTypes, OneInside, Inside, Send, Goto, ring, data, locals
  <2>3. RingSound'
    BY <1>1 DEF Inductive, TypeOK, RingTypes, DataTypes, ThreadTypes, OneInside, Inside, RingSound, MustWait, Send, Goto, ring, data, locals
  <2>4. NobodyOverslept'
    BY <1>1 DEF Inductive, TypeOK, RingTypes, DataTypes, ThreadTypes, OneInside, Inside, NobodyOverslept, MustWait, Send, Goto, ring, data, locals
  <2>5. InHand'
    BY <1>1 DEF Inductive, TypeOK, RingTypes, DataTypes, ThreadTypes, InHand, Send, Goto, ring, data, locals
  <2> QED BY <2>1, <2>2, <2>3, <2>4, <2>5 DEF Inductive
<1>2. ASSUME NEW p \in Threads, Recv(p) PROVE Inductive'
  <2>1. TypeOK'
    BY <1>2 DEF Inductive, TypeOK, RingTypes, DataTypes, ThreadTypes, Recv, Goto, ring, data, locals, Labels
  <2>2. OneInside'
    BY <1>2 DEF Inductive, TypeOK, RingTypes, DataTypes, ThreadTypes, OneInside, Inside, Recv, Goto, ring, data, locals
  <2>3. RingSound'
    BY <1>2 DEF Inductive, TypeOK, RingTypes, DataTypes, ThreadTypes, OneInside, Inside, RingSound, MustWait, Recv, Goto, ring, data, locals
  <2>4. NobodyOverslept'
    BY <1>2 DEF Inductive, TypeOK, RingTypes, DataTypes, ThreadTypes, OneInside, Inside, NobodyOverslept, MustWait, Recv, Goto, ring, data, locals
  <2>5. InHand'
    BY <1>2 DEF Inductive, TypeOK, RingTypes, DataTypes, ThreadTypes, InHand, Recv, Goto, ring, data, locals
  <2> QED BY <2>1, <2>2, <2>3, <2>4, <2>5 DEF Inductive
<1>3. ASSUME NEW p \in Threads, Lock(p) PROVE Inductive'
  <2>1. TypeOK'
    BY <1>3 DEF Inductive, TypeOK, RingTypes, DataTypes, ThreadTypes, Lock, Goto, ring, data, locals, Labels
  <2>2. OneInside'
    BY <1>3 DEF Inductive, TypeOK, RingTypes, DataTypes, ThreadTypes, OneInside, Inside, Lock, Goto, ring, data, locals
  <2>3. RingSound'
    BY <1>3 DEF Inductive, TypeOK, RingTypes, DataTypes, ThreadTypes, OneInside, Inside, RingSound, MustWait, Lock, Goto, ring, data, locals
  <2>4. NobodyOverslept'
    BY <1>3 DEF Inductive, TypeOK, RingTypes, DataTypes, ThreadTypes, OneInside, Inside, NobodyOverslept, MustWait, Lock, Goto, ring, data, locals
  <2>5. InHand'
    BY <1>3 DEF Inductive, TypeOK, RingTypes, DataTypes, ThreadTypes, InHand, Lock, Goto, ring, data, locals
  <2> QED BY <2>1, <2>2, <2>3, <2>4, <2>5 DEF Inductive
<1>4. ASSUME NEW p \in Threads, Relock(p) PROVE Inductive'
  <2>1. TypeOK'
    BY <1>4 DEF Inductive, TypeOK, RingTypes, DataTypes, ThreadTypes, Relock, Goto, ring, data, locals, Labels
  <2>2. OneInside'
    BY <1>4 DEF Inductive, TypeOK, RingTypes, DataTypes, ThreadTypes, OneInside, Inside, Relock, Goto, ring, data, locals
  <2>3. RingSound'
    BY <1>4 DEF Inductive, TypeOK, RingTypes, DataTypes, ThreadTypes, OneInside, Inside, RingSound, MustWait, Relock, Goto, ring, data, locals
  <2>4. NobodyOverslept'
    BY <1>4 DEF Inductive, TypeOK, RingTypes, DataTypes, ThreadTypes, OneInside, Inside, NobodyOverslept, MustWait, Relock, Goto, ring, data, locals
  <2>5. InHand'
    BY <1>4 DEF Inductive, TypeOK, RingTypes, DataTypes, ThreadTypes, InHand, Relock, Goto, ring, data, locals
  <2> QED BY <2>1, <2>2, <2>3, <2>4, <2>5 DEF Inductive
<1>5. ASSUME NEW p \in Threads, Sleep(p) PROVE Inductive'
  <2>1. TypeOK'
    BY <1>5 DEF Inductive, TypeOK, RingTypes, DataTypes, ThreadTypes, Sleep, Goto, ring, data, locals, Labels
  <2>2. OneInside'
    BY <1>5 DEF Inductive, TypeOK, RingTypes, DataTypes, ThreadTypes, OneInside, Inside, Sleep, Goto, ring, data, locals
  <2>3. RingSound'
    BY <1>5 DEF Inductive, TypeOK, RingTypes, DataTypes, ThreadTypes, OneInside, Inside, RingSound, MustWait, Sleep, Goto, ring, data, locals
  <2>4. NobodyOverslept'
    BY <1>5 DEF Inductive, TypeOK, RingTypes, DataTypes, ThreadTypes, OneInside, Inside, NobodyOverslept, MustWait, Sleep, Goto, ring, data, locals
  <2>5. InHand'
    BY <1>5 DEF Inductive, TypeOK, RingTypes, DataTypes, ThreadTypes, InHand, Sleep, Goto, ring, data, locals
  <2> QED BY <2>1, <2>2, <2>3, <2>4, <2>5 DEF Inductive
<1>6. ASSUME NEW p \in Threads, Pass(p) PROVE Inductive'
  <2>1. TypeOK'
    <3>1. buf[head] \in Values
      BY DEF Inductive, TypeOK, RingTypes
    <3> QED BY <1>6, <3>1 DEF Inductive, TypeOK, RingTypes, DataTypes, ThreadTypes, Pass, Goto, ring, data, Labels
  <2>2. OneInside'
    BY <1>6 DEF Inductive, TypeOK, RingTypes, DataTypes, ThreadTypes, OneInside, Inside, Pass, Goto, ring, data, locals
  <2>3. RingSound'
    BY <1>6 DEF Inductive, TypeOK, RingTypes, DataTypes, ThreadTypes, OneInside, Inside, RingSound, MustWait, Pass, Goto, ring, data, locals
  <2>4. NobodyOverslept'
    BY <1>6 DEF Inductive, TypeOK, RingTypes, DataTypes, ThreadTypes, OneInside, Inside, NobodyOverslept, MustWait, Pass, Goto, ring, data, locals
  <2>5. InHand'
    BY <1>6 DEF Inductive, TypeOK, RingTypes, DataTypes, ThreadTypes, InHand, Pass, Goto, ring, data, locals
  <2> QED BY <2>1, <2>2, <2>3, <2>4, <2>5 DEF Inductive
<1>7. ASSUME NEW p \in Threads, Store(p) PROVE Inductive'
  <2>1. TypeOK'
    <3>1. val[p] \in Values /\ cnt + 1 \in Nat
      BY DEF Inductive, TypeOK, RingTypes, ThreadTypes
    <3>2. RingTypes'
      BY <1>7, <3>1 DEF Inductive, TypeOK, RingTypes, Store
    <3> QED BY <1>7, <3>2 DEF Inductive, TypeOK, RingTypes, DataTypes, ThreadTypes, Store, Goto, data, locals, Labels
  <2>2. OneInside'
    BY <1>7 DEF Inductive, TypeOK, RingTypes, DataTypes, ThreadTypes, OneInside, Inside, Store, Goto, ring, data, locals
  <2>3. RingSound'
    BY <1>7 DEF Inductive, TypeOK, RingTypes, DataTypes, ThreadTypes, OneInside, Inside, RingSound, MustWait, Store, Goto, ring, data, locals
  <2>4. NobodyOverslept'
    BY <1>7 DEF Inductive, TypeOK, RingTypes, DataTypes, ThreadTypes, OneInside, Inside, NobodyOverslept, MustWait, Store, Goto, ring, data, locals
  <2>5. InHand'
    BY <1>7 DEF Inductive, TypeOK, RingTypes, DataTypes, ThreadTypes, InHand, Store, Goto, ring, data, locals
  <2> QED BY <2>1, <2>2, <2>3, <2>4, <2>5 DEF Inductive
<1>8. ASSUME NEW p \in Threads, Take(p) PROVE Inductive'
  <2>1. TypeOK'
    <3>1. cnt - 1 \in Nat /\ head + 1 \in Nat /\ head + 1 < Cap + Cap
      BY <1>8 DEF Inductive, TypeOK, RingTypes, RingSound, Take, Slots
    <3>2. RingTypes'
      BY <1>8, <3>1, Wrap DEF Inductive, TypeOK, RingTypes, Take
    <3> QED BY <1>8, <3>2 DEF Inductive, TypeOK, RingTypes, DataTypes, ThreadTypes, Take, Goto, data, locals, Labels
  <2>2. OneInside'
    BY <1>8 DEF Inductive, TypeOK, RingTypes, DataTypes, ThreadTypes, OneInside, Inside, Take, Goto, ring, data, locals
  <2>3. RingSound'
    BY <1>8 DEF Inductive, TypeOK, RingTypes, DataTypes, ThreadTypes, OneInside, Inside, RingSound, MustWait, Take, Goto, ring, data, locals
  <2>4. NobodyOverslept'
    BY <1>8 DEF Inductive, TypeOK, RingTypes, DataTypes, ThreadTypes, OneInside, Inside, NobodyOverslept, MustWait, Take, Goto, ring, data, locals
  <2>5. InHand'
    BY <1>8 DEF Inductive, TypeOK, RingTypes, DataTypes, ThreadTypes, InHand, Take, Goto, ring, data, locals
  <2> QED BY <2>1, <2>2, <2>3, <2>4, <2>5 DEF Inductive
<1>9. ASSUME NEW p \in Threads, Wake(p) PROVE Inductive'
  <2>1. TypeOK'
    BY <1>9 DEF Inductive, TypeOK, RingTypes, DataTypes, ThreadTypes, Wake, Goto, ring, data, locals, Labels
  <2>2. OneInside'
    BY <1>9 DEF Inductive, TypeOK, RingTypes, DataTypes, ThreadTypes, OneInside, Inside, Wake, Goto, ring, data, locals
  <2>3. RingSound'
    BY <1>9 DEF Inductive, TypeOK, RingTypes, DataTypes, ThreadTypes, OneInside, Inside, RingSound, MustWait, Wake, Goto, ring, data, locals
  <2>4. NobodyOverslept'
    BY <1>9 DEF Inductive, TypeOK, RingTypes, DataTypes, ThreadTypes, OneInside, Inside, NobodyOverslept, MustWait, Wake, Goto, ring, data, locals
  <2>5. InHand'
    BY <1>9 DEF Inductive, TypeOK, RingTypes, DataTypes, ThreadTypes, InHand, Wake, Goto, ring, data, locals
  <2> QED BY <2>1, <2>2, <2>3, <2>4, <2>5 DEF Inductive
<1>10. ASSUME NEW p \in Threads, Unlock(p) PROVE Inductive'
  <2>1. TypeOK'
    BY <1>10 DEF Inductive, TypeOK, RingTypes, DataTypes, ThreadTypes, Unlock, Goto, ring, data, locals, Labels
  <2>2. OneInside'
    BY <1>10 DEF Inductive, TypeOK, RingTypes, DataTypes, ThreadTypes, OneInside, Inside, Unlock, Goto, ring, data, locals
  <2>3. RingSound'
    BY <1>10 DEF Inductive, TypeOK, RingTypes, DataTypes, ThreadTypes, OneInside, Inside, RingSound, MustWait, Unlock, Goto, ring, data, locals
  <2>4. NobodyOverslept'
    BY <1>10 DEF Inductive, TypeOK, RingTypes, DataTypes, ThreadTypes, OneInside, Inside, NobodyOverslept, MustWait, Unlock, Goto, ring, data, locals
  <2>5. InHand'
    BY <1>10 DEF Inductive, TypeOK, RingTypes, DataTypes, ThreadTypes, InHand, Unlock, Goto, ring, data, locals
  <2> QED BY <2>1, <2>2, <2>3, <2>4, <2>5 DEF Inductive
<1>11. ASSUME NEW p \in Threads, Spurious(p) PROVE Inductive'
  <2>1. TypeOK'
    BY <1>11 DEF Inductive, TypeOK, RingTypes, DataTypes, ThreadTypes, Spurious, Goto, ring, data, locals, Labels
  <2>2. OneInside'
    BY <1>11 DEF Inductive, TypeOK, RingTypes, DataTypes, ThreadTypes, OneInside, Inside, Spurious, Goto, ring, data, locals
  <2>3. RingSound'
    BY <1>11 DEF Inductive, TypeOK, RingTypes, DataTypes, ThreadTypes, OneInside, Inside, RingSound, MustWait, Spurious, Goto, ring, data, locals
  <2>4. NobodyOverslept'
    BY <1>11 DEF Inductive, TypeOK, RingTypes, DataTypes, ThreadTypes, OneInside, Inside, NobodyOverslept, MustWait, Spurious, Goto, ring, data, locals
  <2>5. InHand'
    BY <1>11 DEF Inductive, TypeOK, RingTypes, DataTypes, ThreadTypes, InHand, Spurious, Goto, ring, data, locals
  <2> QED BY <2>1, <2>2, <2>3, <2>4, <2>5 DEF Inductive
<1>12. ASSUME NEW p \in Threads, NEW t \in Tasks, Merge(p, t) PROVE Inductive'
  <2>1. TypeOK'
    BY <1>12 DEF Inductive, TypeOK, RingTypes, DataTypes, ThreadTypes, Merge, Goto, ring, data, locals, Labels
  <2>2. OneInside'
    BY <1>12 DEF Inductive, TypeOK, RingTypes, DataTypes, ThreadTypes, OneInside, Inside, Merge, Goto, ring, data, locals
  <2>3. RingSound'
    BY <1>12 DEF Inductive, TypeOK, RingTypes, DataTypes, ThreadTypes, OneInside, Inside, RingSound, MustWait, Merge, Goto, ring, data, locals
  <2>4. NobodyOverslept'
    BY <1>12 DEF Inductive, TypeOK, RingTypes, DataTypes, ThreadTypes, OneInside, Inside, NobodyOverslept, MustWait, Merge, Goto, ring, data, locals
  <2>5. InHand'
    BY <1>12 DEF Inductive, TypeOK, RingTypes, DataTypes, ThreadTypes, InHand, Merge, Goto, ring, data, locals
  <2> QED BY <2>1, <2>2, <2>3, <2>4, <2>5 DEF Inductive
<1>13. ASSUME NEW p \in Threads, NEW m \in Merges, Create(p, m) PROVE Inductive'
  <2>1. TypeOK'
    BY <1>13 DEF Inductive, TypeOK, RingTypes, DataTypes, ThreadTypes, Create, Goto, ring, data, locals, Labels
  <2>2. OneInside'
    BY <1>13 DEF Inductive, TypeOK, RingTypes, DataTypes, ThreadTypes, OneInside, Inside, Create, Goto, ring, data, locals
  <2>3. RingSound'
    BY <1>13 DEF Inductive, TypeOK, RingTypes, DataTypes, ThreadTypes, OneInside, Inside, RingSound, MustWait, Create, Goto, ring, data, locals
  <2>4. NobodyOverslept'
    BY <1>13 DEF Inductive, TypeOK, RingTypes, DataTypes, ThreadTypes, OneInside, Inside, NobodyOverslept, MustWait, Create, Goto, ring, data, locals
  <2>5. InHand'
    BY <1>13 DEF Inductive, TypeOK, RingTypes, DataTypes, ThreadTypes, InHand, Create, Goto, ring, data, locals
  <2> QED BY <2>1, <2>2, <2>3, <2>4, <2>5 DEF Inductive
<1>14. ASSUME NEW p \in Threads, Call(p) PROVE Inductive'
  <2>1. TypeOK'
    <3>1. fn[task[p]] \in Merges \cup {None}
      BY <1>14 DEF Inductive, TypeOK, DataTypes, InHand, Call
    <3> QED BY <1>14, <3>1 DEF Inductive, TypeOK, RingTypes, DataTypes, ThreadTypes, Call, Goto, ring, data, Labels
  <2>2. OneInside'
    BY <1>14 DEF Inductive, TypeOK, RingTypes, DataTypes, ThreadTypes, OneInside, Inside, Call, Goto, ring, data, locals
  <2>3. RingSound'
    BY <1>14 DEF Inductive, TypeOK, RingTypes, DataTypes, ThreadTypes, OneInside, Inside, RingSound, MustWait, Call, Goto, ring, data, locals
  <2>4. NobodyOverslept'
    BY <1>14 DEF Inductive, TypeOK, RingTypes, DataTypes, ThreadTypes, OneInside, Inside, NobodyOverslept, MustWait, Call, Goto, ring, data, locals
  <2>5. InHand'
    BY <1>14 DEF Inductive, TypeOK, RingTypes, DataTypes, ThreadTypes, InHand, Call, Goto, ring, data, locals
  <2> QED BY <2>1, <2>2, <2>3, <2>4, <2>5 DEF Inductive
<1>15. ASSUME NEW p \in Threads, Finish(p) PROVE Inductive'
  <2>1. TypeOK'
    BY <1>15 DEF Inductive, TypeOK, RingTypes, DataTypes, ThreadTypes, Finish, Goto, ring, data, locals, Labels
  <2>2. OneInside'
    BY <1>15 DEF Inductive, TypeOK, RingTypes, DataTypes, ThreadTypes, OneInside, Inside, Finish, Goto, ring, data, locals
  <2>3. RingSound'
    BY <1>15 DEF Inductive, TypeOK, RingTypes, DataTypes, ThreadTypes, OneInside, Inside, RingSound, MustWait, Finish, Goto, ring, data, locals
  <2>4. NobodyOverslept'
    BY <1>15 DEF Inductive, TypeOK, RingTypes, DataTypes, ThreadTypes, OneInside, Inside, NobodyOverslept, MustWait, Finish, Goto, ring, data, locals
  <2>5. InHand'
    BY <1>15 DEF Inductive, TypeOK, RingTypes, DataTypes, ThreadTypes, InHand, Finish, Goto, ring, data, locals
  <2> QED BY <2>1, <2>2, <2>3, <2>4, <2>5 DEF Inductive
<1>16. ASSUME NEW p \in Threads, Report(p) PROVE Inductive'
  <2>1. TypeOK'
    BY <1>16 DEF Inductive, TypeOK, RingTypes, DataTypes, ThreadTypes, Report, Goto, ring, data, locals, Labels
  <2>2. OneInside'
    BY <1>16 DEF Inductive, TypeOK, RingTypes, DataTypes, ThreadTypes, OneInside, Inside, Report, Goto, ring, data, locals
  <2>3. RingSound'
    BY <1>16 DEF Inductive, TypeOK, RingTypes, DataTypes, ThreadTypes, OneInside, Inside, RingSound, MustWait, Report, Goto, ring, data, locals
  <2>4. NobodyOverslept'
    BY <1>16 DEF Inductive, TypeOK, RingTypes, DataTypes, ThreadTypes, OneInside, Inside, NobodyOverslept, MustWait, Report, Goto, ring, data, locals
  <2>5. InHand'
    BY <1>16 DEF Inductive, TypeOK, RingTypes, DataTypes, ThreadTypes, InHand, Report, Goto, ring, data, locals
  <2> QED BY <2>1, <2>2, <2>3, <2>4, <2>5 DEF Inductive
<1>17. ASSUME NEW p \in Threads, NEW t \in Tasks, Block(p, t) PROVE Inductive'
  <2>1. TypeOK'
    BY <1>17 DEF Inductive, TypeOK, RingTypes, DataTypes, ThreadTypes, Block, Goto, ring, data, locals, Labels
  <2>2. OneInside'
    BY <1>17 DEF Inductive, TypeOK, RingTypes, DataTypes, ThreadTypes, OneInside, Inside, Block, Goto, ring, data, locals
  <2>3. RingSound'
    BY <1>17 DEF Inductive, TypeOK, RingTypes, DataTypes, ThreadTypes, OneInside, Inside, RingSound, MustWait, Block, Goto, ring, data, locals
  <2>4. NobodyOverslept'
    BY <1>17 DEF Inductive, TypeOK, RingTypes, DataTypes, ThreadTypes, OneInside, Inside, NobodyOverslept, MustWait, Block, Goto, ring, data, locals
  <2>5. InHand'
    BY <1>17 DEF Inductive, TypeOK, RingTypes, DataTypes, ThreadTypes, InHand, Block, Goto, ring, data, locals
  <2> QED BY <2>1, <2>2, <2>3, <2>4, <2>5 DEF Inductive
<1>18. ASSUME NEW p \in Threads, BlockReturn(p) PROVE Inductive'
  <2>1. TypeOK'
    BY <1>18 DEF Inductive, TypeOK, RingTypes, DataTypes, ThreadTypes, BlockReturn, Goto, ring, data, locals, Labels
  <2>2. OneInside'
    BY <1>18 DEF Inductive, TypeOK, RingTypes, DataTypes, ThreadTypes, OneInside, Inside, BlockReturn, Goto, ring, data, locals
  <2>3. RingSound'
    BY <1>18 DEF Inductive, TypeOK, RingTypes, DataTypes, ThreadTypes, OneInside, Inside, RingSound, MustWait, BlockReturn, Goto, ring, data, locals
  <2>4. NobodyOverslept'
    BY <1>18 DEF Inductive, TypeOK, RingTypes, DataTypes, ThreadTypes, OneInside, Inside, NobodyOverslept, MustWait, BlockReturn, Goto, ring, data, locals
  <2>5. InHand'
    BY <1>18 DEF Inductive, TypeOK, RingTypes, DataTypes, ThreadTypes, InHand, BlockReturn, Goto, ring, data, locals
  <2> QED BY <2>1, <2>2, <2>3, <2>4, <2>5 DEF Inductive
<1>19. CASE UNCHANGED vars
  BY <1>19 DEF Inductive, TypeOK, RingTypes, DataTypes, ThreadTypes, OneInside, Inside, RingSound, NobodyOverslept, MustWait, InHand, vars, ring, data, locals
<1> QED
  BY <1>1, <1>2, <1>3, <1>4, <1>5, <1>6, <1>7, <1>8, <1>9, <1>10, <1>11, <1>12, <1>13, <1>14, <1>15, <1>16, <1>17, <1>18, <1>19 DEF Next, Step

\* The program starts in the invariant.
LEMMA InitSound == ASSUME Init PROVE Inductive
<1>1. TypeOK
  <2>1. RingTypes BY BoundsAssumption, ValuesAssumption DEF Init, RingTypes, Slots
  <2>2. DataTypes
    <3>1. 0 \in 0..MaxMerges BY BoundsAssumption
    <3> QED BY <3>1 DEF Init, DataTypes
  <2>3. ThreadTypes BY ValuesAssumption DEF Init, ThreadTypes, Labels
  <2> QED BY <2>1, <2>2, <2>3 DEF TypeOK
<1>2. OneInside /\ NobodyOverslept
  BY DEF Init, OneInside, Inside, NobodyOverslept
<1>3. RingSound
  BY BoundsAssumption DEF Init, RingSound
<1>4. InHand
  BY BoundsAssumption DEF Init, InHand, Main, Threads
<1> QED BY <1>1, <1>2, <1>3, <1>4 DEF Inductive

\* The invariant holds throughout.
THEOREM ChannelInvariant == Spec => []Inductive
<1>1. Init => Inductive
  BY InitSound
<1>2. Inductive /\ [Next]_vars => Inductive'
  BY StepKeepsInductive
<1> QED BY <1>1, <1>2, PTL DEF Spec

\* Every variable keeps its type (ql_send, ql_recv, ql_merge, runner_w).
THEOREM TypeCorrect == Spec => []TypeOK
BY ChannelInvariant, PTL DEF Inductive

\* Whatever the number of senders and receivers, the ring is not overfilled and
\* is changed on a condition that still holds (ql_send, ql_recv).
THEOREM RingIsSound == Spec => []RingSound
BY ChannelInvariant, PTL DEF Inductive

\* Nobody sleeps who could go on, unless a wake of everybody is about to come
\* (ql_send, ql_recv).
THEOREM NobodySleepsOver == Spec => []NobodyOverslept
BY ChannelInvariant, PTL DEF Inductive

----------------------------------------------------------------------------

\* The ring's contents, oldest first: the mapping under which it is a queue.
Contents == [i \in 1..cnt |-> buf[(head + i - 1) % Cap]]

\* The slot of the i-th value.
LEMMA SlotOf ==
    ASSUME Inductive, NEW i \in 1..Cap
    PROVE  /\ i - 1 \in Slots
           /\ head + i - 1 = head + (i - 1)
           /\ head + (i - 1) \in Nat
           /\ (head + (i - 1)) % Cap \in Slots
<1>0. Cap \in Nat \ {0} /\ head \in 0..(Cap - 1)
  BY BoundsAssumption DEF Inductive, TypeOK, RingTypes, Slots
<1>1. /\ i - 1 \in Slots /\ head + i - 1 = head + (i - 1)
      /\ head + (i - 1) \in Nat /\ head + (i - 1) < Cap + Cap
  BY <1>0 DEF Slots
<1> QED BY <1>1, Wrap

LEMMA ContentsIsSeq ==
    ASSUME Inductive
    PROVE  /\ Contents \in Seq(Values)
           /\ Len(Contents) = cnt
           /\ DOMAIN Contents = 1..cnt
<1>0. Cap \in Nat \ {0} /\ cnt \in 0..Cap /\ buf \in [Slots -> Values]
  BY BoundsAssumption DEF Inductive, TypeOK, RingTypes, RingSound
<1>1. ASSUME NEW i \in 1..cnt PROVE buf[(head + i - 1) % Cap] \in Values
  <2>1. i \in 1..Cap BY <1>0
  <2> QED BY <1>0, <2>1, SlotOf
<1>2. Contents \in [1..cnt -> Values]
  BY <1>1 DEF Contents
<1> QED BY <1>0, <1>2

\* A store appends the sent value, below the capacity.
LEMMA StoreAppends ==
    ASSUME Inductive, NEW p \in Threads, Store(p)
    PROVE  /\ val[p] \in Values
           /\ Len(Contents) < Cap
           /\ Contents' = Append(Contents, val[p])
<1>0. /\ Cap \in Nat \ {0} /\ cnt \in Slots /\ cnt < Cap /\ head \in Slots
      /\ val[p] \in Values /\ buf \in [Slots -> Values]
  BY BoundsAssumption DEF Inductive, TypeOK, RingTypes, ThreadTypes, RingSound, Store, Slots
<1>1. Contents \in Seq(Values) /\ Len(Contents) = cnt /\ DOMAIN Contents = 1..cnt
  BY ContentsIsSeq
<1> DEFINE new == (head + cnt) % Cap
<1>2. cnt' = cnt + 1 /\ head' = head /\ buf' = [buf EXCEPT ![new] = val[p]]
  BY DEF Store
<1>3. ASSUME NEW i \in 1..(cnt + 1)
      PROVE  buf'[(head' + i - 1) % Cap] = (IF i <= cnt THEN Contents[i] ELSE val[p])
  <2>1. i \in 1..Cap
    BY <1>0 DEF Slots
  <2>2. i - 1 \in Slots /\ head + i - 1 = head + (i - 1) /\ (head + (i - 1)) % Cap \in Slots
    BY <2>1, SlotOf
  <2> DEFINE s == (head + (i - 1)) % Cap
  <2>3. CASE i <= cnt
    <3>1. i - 1 < cnt BY <1>0, <2>3 DEF Slots
    <3>2. s # new BY <1>0, <2>2, <3>1, WrapDistinct
    <3>3. Contents[i] = buf[s]
      <4>1. i \in 1..cnt BY <1>0, <2>3 DEF Slots
      <4> QED BY <2>2, <4>1 DEF Contents
    <3> HIDE DEF s, new
    <3> QED BY <1>0, <1>2, <2>2, <2>3, <3>2, <3>3 DEF s
  <2>4. CASE i = cnt + 1
    <3>1. s = new /\ ~(i <= cnt)
      <4>1. i - 1 = cnt /\ ~(i <= cnt) BY <1>0, <2>4 DEF Slots
      <4> QED BY <4>1
    <3> HIDE DEF s, new
    <3> QED BY <1>0, <1>2, <2>2, <3>1 DEF s
  <2>5. i <= cnt \/ i = cnt + 1 BY <1>0 DEF Slots
  <2> QED BY <2>3, <2>4, <2>5
<1>4. Contents' = [i \in 1..(cnt + 1) |-> IF i <= cnt THEN Contents[i] ELSE val[p]]
  BY <1>2, <1>3 DEF Contents
<1>5. Append(Contents, val[p])
        = [i \in 1..(cnt + 1) |-> IF i <= cnt THEN Contents[i] ELSE val[p]]
  BY <1>0, <1>1 DEF Slots
<1> QED BY <1>0, <1>1, <1>4, <1>5

\* A take removes the oldest value.
LEMMA TakeRemoves ==
    ASSUME Inductive, NEW p \in Threads, Take(p)
    PROVE  /\ Contents # <<>>
           /\ Contents' = Tail(Contents)
<1>0. Cap \in Nat \ {0} /\ cnt \in 1..Cap /\ head \in Slots
  BY BoundsAssumption DEF Inductive, TypeOK, RingTypes, RingSound, Take
<1>1. Contents \in Seq(Values) /\ Len(Contents) = cnt /\ DOMAIN Contents = 1..cnt
  BY ContentsIsSeq
<1>2. cnt' = cnt - 1 /\ head' = (head + 1) % Cap /\ buf' = buf
  BY DEF Take
<1>3. ASSUME NEW i \in 1..(cnt - 1)
      PROVE  buf'[(head' + i - 1) % Cap] = Contents[i + 1]
  <2>1. i - 1 \in Slots /\ i + 1 \in 1..cnt /\ i + 1 \in 1..Cap /\ (i - 1) + 1 = (i + 1) - 1
    BY <1>0 DEF Slots
  <2>2. (((head + 1) % Cap) + (i - 1)) % Cap = (head + ((i - 1) + 1)) % Cap
    BY <1>0, <2>1, WrapStep
  <2>3. head' + i - 1 = ((head + 1) % Cap) + (i - 1)
    <3>1. head + 1 \in Nat /\ head + 1 < Cap + Cap BY <1>0 DEF Slots
    <3>2. (head + 1) % Cap \in Slots BY <3>1, Wrap
    <3> QED BY <1>0, <1>2, <3>2 DEF Slots
  <2>4. Contents[i + 1] = buf[(head + (i + 1) - 1) % Cap]
    BY <2>1 DEF Contents
  <2>5. head + (i + 1) - 1 = head + ((i + 1) - 1)
    BY <2>1, SlotOf
  <2> QED BY <1>2, <2>1, <2>2, <2>3, <2>4, <2>5
<1>4. Contents' = [i \in 1..(cnt - 1) |-> Contents[i + 1]]
  BY <1>2, <1>3 DEF Contents
<1>5. Contents # <<>>
  BY <1>0, <1>1
<1>6. Tail(Contents) = [i \in 1..(cnt - 1) |-> Contents[i + 1]]
  <2>1. /\ Tail(Contents) \in Seq(Values)
        /\ Len(Tail(Contents)) = Len(Contents) - 1
        /\ \A i \in 1..Len(Tail(Contents)) : Tail(Contents)[i] = Contents[i + 1]
    BY <1>1, <1>5, HeadTailProperties, Zenon
  <2>2. /\ Tail(Contents) \in Seq(Values) /\ Len(Tail(Contents)) = cnt - 1
        /\ \A i \in 1..Len(Tail(Contents)) : Tail(Contents)[i] = Contents[i + 1]
    BY <1>1, <2>1
  <2>3. Tail(Contents) \in [1..(cnt - 1) -> Values]
    BY <2>2, LenProperties
  <2> QED BY <2>2, <2>3
<1> QED BY <1>4, <1>5, <1>6

\* The channel implements a bounded first-in first-out queue: every step appends
\* a value below the capacity, removes the oldest one, or leaves the queue alone
\* (ql_send, ql_recv).
THEOREM ChannelIsQueue == Spec => FirstInFirstOut
<1>1. Init => Queue!Init
  <2> SUFFICES ASSUME Init PROVE Contents = <<>>
    BY DEF Queue!Init, Contents
  <2> QED BY DEF Init, Contents
<1>2. Inductive /\ [Next]_vars => [Queue!Next]_Contents
  <2> SUFFICES ASSUME Inductive, [Next]_vars PROVE [Queue!Next]_Contents
    OBVIOUS
  <2>1. ASSUME NEW p \in Threads, Store(p) PROVE Queue!Next
    <3>1. Queue!Put(val[p])
      BY <2>1, StoreAppends DEF Queue!Put, Contents
    <3>2. val[p] \in Values
      BY <2>1, StoreAppends
    <3> QED BY <3>1, <3>2 DEF Queue!Next, Queue!Put
  <2>2. ASSUME NEW p \in Threads, Take(p) PROVE Queue!Next
    <3>1. Queue!Take
      BY <2>2, TakeRemoves DEF Queue!Take, Contents
    <3> QED BY <3>1 DEF Queue!Next
  <2>3. CASE UNCHANGED ring
    BY <2>3 DEF ring, Contents
  <2> QED
    BY <2>1, <2>2, <2>3 DEF Next, Step, vars, ring, Send, Recv, Lock, Relock, Sleep,
       Pass, Wake, Unlock, Spurious, Merge, Create, Call, Finish, Report, Block, BlockReturn
<1> QED
  BY <1>1, <1>2, ChannelInvariant, PTL DEF Spec, FirstInFirstOut, Queue!Spec, Contents

----------------------------------------------------------------------------
(* Tasks.                                                                  *)

\* A thread that has been created and has not set done.
Alive(p) == p # Main /\ pc[p] \notin {"unborn", "ended"}

\* The thread that has a task's merge in hand: it is about to create its thread,
\* or is that thread.
Holds(p, t) == \/ pc[p] = "create" /\ arg[p] = t
               \/ Alive(p) /\ task[p] = t

OneHolder == \A t \in Tasks :
    /\ \A p \in Threads : Holds(p, t) => fn[t] # None /\ ~done[t]
    /\ \A p, q \in Threads : Holds(p, t) /\ Holds(q, t) => p = q
    /\ \A p \in Threads : ~(pc[p] = "create" /\ arg[p] = t /\ Alive(p) /\ task[p] = t)

\* It runs the function that is in the task, and reports after it.
HolderRuns == \A p \in Threads :
    /\ Alive(p) /\ pc[p] # "born" => running[p] = fn[task[p]]
    /\ pc[p] = "report" => ran[running[p]]

Delivery == OneHolder /\ HolderRuns /\ DoneMeansRun

\* Steps that neither create a thread, nor end one, nor touch a task.
Elsewhere == /\ UNCHANGED <<fn, done, ran>>
             /\ \A p \in Threads : /\ \A t \in Tasks : Holds(p, t)' = Holds(p, t)
                                   /\ Alive(p)' = Alive(p)
                                   /\ task'[p] = task[p] /\ running'[p] = running[p]
                                   /\ pc'[p] = "create" <=> pc[p] = "create"
                                   /\ pc[p] = "create" => arg'[p] = arg[p]
                                   /\ pc'[p] = "born" <=> pc[p] = "born"
                                   /\ pc'[p] = "report" <=> pc[p] = "report"

LEMMA ElsewhereKeeps == ASSUME Inductive, Delivery, Elsewhere PROVE Delivery'
<1>1. OneHolder'
  BY DEF Delivery, OneHolder, Elsewhere
<1>2. HolderRuns'
  BY DEF Delivery, HolderRuns, Elsewhere
<1>3. DoneMeansRun'
  BY DEF Delivery, DoneMeansRun, Elsewhere
<1> QED BY <1>1, <1>2, <1>3 DEF Delivery

LEMMA OthersElsewhere ==
    ASSUME Inductive, NEW p \in Threads,
           \/ \E v \in Values : Send(p, v)
           \/ \E t \in Tasks : Block(p, t)
           \/ Recv(p) \/ Lock(p) \/ Relock(p) \/ Sleep(p) \/ Pass(p) \/ Store(p) \/ Take(p)
           \/ Wake(p) \/ Unlock(p) \/ Spurious(p) \/ BlockReturn(p)
    PROVE  Elsewhere
<1> USE DEF Inductive, TypeOK, ThreadTypes, Elsewhere, Holds, Alive, data, locals, Goto
<1>1. CASE \/ Recv(p) \/ Lock(p) \/ Relock(p) \/ Sleep(p) \/ Store(p) \/ Take(p)
           \/ Unlock(p) \/ Spurious(p) \/ BlockReturn(p)
  BY <1>1 DEF Recv, Lock, Relock, Sleep, Store, Take, Unlock, Spurious, BlockReturn
<1>2. CASE \/ Pass(p) \/ \E v \in Values : Send(p, v)
  BY <1>2 DEF Pass, Send
<1>3. CASE Wake(p)
  BY <1>3 DEF Wake
<1>4. CASE \E t \in Tasks : Block(p, t)
  BY <1>4 DEF Block
<1> QED BY <1>1, <1>2, <1>3, <1>4

\* ql_merge into an idle task makes its caller the holder.
LEMMA MergeKeeps ==
    ASSUME Idle, Inductive, Delivery, NEW p \in Threads, NEW t \in Tasks, Merge(p, t)
    PROVE  Delivery'
<1>1. \A q \in Threads : ~Holds(q, t)
  BY DEF Delivery, OneHolder, Merge
<1>2. /\ fn \in [Tasks -> Merges \cup {None}] /\ done \in [Tasks -> BOOLEAN]
      /\ pc \in [Threads -> Labels] /\ arg \in [Threads -> Tasks \cup {NoTask}]
      /\ merges + 1 # None /\ task' = task /\ running' = running /\ ran' = ran
      /\ fn' = [fn EXCEPT ![t] = merges + 1] /\ done' = [done EXCEPT ![t] = FALSE]
      /\ pc' = [pc EXCEPT ![p] = "create"] /\ arg' = [arg EXCEPT ![p] = t] /\ pc[p] = "code"
  BY BoundsAssumption DEF Inductive, TypeOK, DataTypes, ThreadTypes, Merge, Goto, None
<1>3. \A q \in Threads : Alive(q)' = Alive(q)
  BY <1>2 DEF Alive
<1>4. \A q \in Threads, u \in Tasks : Holds(q, u)' <=> Holds(q, u) \/ (q = p /\ u = t)
  BY <1>2, <1>3 DEF Holds
<1>5. OneHolder'
  <2>1. ASSUME NEW u \in Tasks, NEW q \in Threads, pc'[q] = "create", arg'[q] = u, Alive(q)', task'[q] = u
        PROVE  FALSE
    BY <1>1, <1>2, <1>3, <2>1 DEF Delivery, OneHolder, Holds
  <2> QED BY <1>1, <1>2, <1>4, <2>1 DEF Delivery, OneHolder
<1>6. HolderRuns'
  <2>1. ASSUME NEW q \in Threads, Alive(q)' PROVE task[q] \in Tasks /\ task[q] # t
    BY <1>1, <1>3, <2>1 DEF Inductive, InHand, Holds, Alive
  <2> QED BY <1>2, <1>3, <2>1 DEF Delivery, HolderRuns, Alive
<1>7. DoneMeansRun'
  BY <1>2 DEF Delivery, DoneMeansRun
<1> QED BY <1>5, <1>6, <1>7 DEF Delivery

\* _beginthreadex hands the task over to the new thread.
LEMMA CreateKeeps ==
    ASSUME Inductive, Delivery, NEW p \in Threads, NEW m \in Merges, Create(p, m)
    PROVE  Delivery'
<1>1. /\ pc \in [Threads -> Labels] /\ task \in [Threads -> Tasks \cup {NoTask}]
      /\ m \in Threads /\ m # Main /\ m # p /\ pc[p] = "create" /\ pc[m] = "unborn"
      /\ pc' = [pc EXCEPT ![p] = "code", ![m] = "born"]
      /\ task' = [task EXCEPT ![m] = arg[p]]
      /\ UNCHANGED <<fn, done, ran, arg, running>>
  BY BoundsAssumption DEF Inductive, TypeOK, ThreadTypes, Create, data, Threads, Merges, Main
<1>2. \A q \in Threads : Alive(q)' <=> Alive(q) \/ q = m
  BY <1>1 DEF Alive
<1>3. ASSUME NEW q \in Threads, NEW u \in Tasks, Holds(q, u)'
      PROVE  (q = m /\ arg[p] = u /\ Holds(p, u)) \/ (q # m /\ Holds(q, u))
  <2>1. CASE q = m
    <3>1. task'[m] = arg[p] /\ pc'[m] = "born" BY <1>1
    <3> QED BY <1>1, <1>3, <2>1, <3>1 DEF Holds
  <2>2. CASE q # m
    <3>1. task'[q] = task[q] /\ (pc'[q] = "create" => pc[q] = "create") BY <1>1, <2>2
    <3> QED BY <1>1, <1>2, <1>3, <2>2, <3>1 DEF Holds
  <2> QED BY <2>1, <2>2
<1>4. ASSUME NEW u \in Tasks, Holds(m, u)', NEW q \in Threads, q # m, Holds(q, u)' PROVE FALSE
  <2>1. Holds(p, u) /\ Holds(q, u)
    BY <1>3, <1>4, <1>1
  <2>2. q = p
    BY <2>1 DEF Delivery, OneHolder
  <2>3. arg[p] = u /\ Alive(p) /\ task[p] = u
    <3>1. arg[p] = u BY <1>1, <1>3, <1>4
    <3>2. pc'[p] = "code" /\ task'[p] = task[p] BY <1>1
    <3> QED BY <1>1, <1>2, <1>4, <2>2, <3>1, <3>2 DEF Holds
  <2> QED BY <1>1, <2>3 DEF Delivery, OneHolder
<1>5. OneHolder'
  <2>1. ASSUME NEW u \in Tasks, NEW q \in Threads, pc'[q] = "create", arg'[q] = u, Alive(q)', task'[q] = u
        PROVE  FALSE
    <3>1. q # m /\ pc[q] = "create" /\ task[q] = u /\ arg[q] = u BY <1>1, <2>1
    <3> QED BY <1>2, <2>1, <3>1 DEF Delivery, OneHolder
  <2>2. \A u \in Tasks, q, r \in Threads : Holds(q, u)' /\ Holds(r, u)' => q = r
    BY <1>1, <1>3, <1>4 DEF Delivery, OneHolder
  <2> QED BY <1>1, <1>3, <2>1, <2>2 DEF Delivery, OneHolder
<1>6. HolderRuns'
  BY <1>1, <1>2 DEF Delivery, HolderRuns, Alive
<1>7. DoneMeansRun'
  BY <1>1 DEF Delivery, DoneMeansRun
<1> QED BY <1>5, <1>6, <1>7 DEF Delivery

\* runner_w calls the function it finds in the task.
LEMMA CallKeeps ==
    ASSUME Inductive, Delivery, NEW p \in Threads, Call(p)
    PROVE  Delivery'
<1>1. /\ pc \in [Threads -> Labels] /\ running \in [Threads -> Merges \cup {None}]
      /\ pc[p] = "born" /\ pc' = [pc EXCEPT ![p] = "code"]
      /\ running' = [running EXCEPT ![p] = fn[task[p]]]
      /\ UNCHANGED <<fn, done, ran, arg, task>>
  BY DEF Inductive, TypeOK, ThreadTypes, Call, Goto, data
<1>2. \A q \in Threads : /\ Alive(q)' <=> Alive(q)
                         /\ \A u \in Tasks : Holds(q, u)' <=> Holds(q, u)
  <2>1. \A q \in Threads : Alive(q)' <=> Alive(q)
    BY <1>1 DEF Alive
  <2> QED BY <1>1, <2>1 DEF Holds
<1>3. OneHolder'
  BY <1>1, <1>2 DEF Delivery, OneHolder
<1>4. HolderRuns'
  BY <1>1, <1>2 DEF Delivery, HolderRuns
<1>5. DoneMeansRun'
  BY <1>1 DEF Delivery, DoneMeansRun
<1> QED BY <1>3, <1>4, <1>5 DEF Delivery

\* The function returns: it is the latest one of its task.
LEMMA FinishKeeps ==
    ASSUME Inductive, Delivery, NEW p \in Threads, Finish(p)
    PROVE  Delivery'
<1>1. /\ pc \in [Threads -> Labels] /\ ran \in [Merges -> BOOLEAN]
      /\ p # Main /\ pc[p] = "code" /\ pc' = [pc EXCEPT ![p] = "report"]
      /\ ran' = [ran EXCEPT ![running[p]] = TRUE]
      /\ UNCHANGED <<fn, done, arg, task, running>>
  BY DEF Inductive, TypeOK, ThreadTypes, DataTypes, Finish, Goto, locals
<1>2. \A q \in Threads : /\ Alive(q)' <=> Alive(q)
                         /\ \A u \in Tasks : Holds(q, u)' <=> Holds(q, u)
  <2>1. \A q \in Threads : Alive(q)' <=> Alive(q)
    BY <1>1 DEF Alive
  <2> QED BY <1>1, <2>1 DEF Holds
<1>3. OneHolder'
  BY <1>1, <1>2 DEF Delivery, OneHolder
<1>4. running[p] \in Merges
  <2>1. Alive(p) /\ task[p] \in Tasks /\ running[p] = fn[task[p]]
    BY <1>1 DEF Alive, Inductive, InHand, Delivery, HolderRuns
  <2>2. fn[task[p]] # None
    BY <2>1 DEF Holds, Delivery, OneHolder
  <2> QED BY <2>1, <2>2 DEF Inductive, TypeOK, DataTypes
<1>5. \A m \in Merges : ran[m] => ran'[m]
  BY <1>1, <1>4
<1>6. HolderRuns'
  <2>1. \A q \in Threads : pc[q] = "report" => running[q] \in Merges \cup {None}
    BY DEF Inductive, TypeOK, ThreadTypes
  <2>2. ASSUME NEW q \in Threads, pc'[q] = "report" PROVE ran'[running[q]]
    <3>1. CASE q = p
      BY <1>1, <1>4, <3>1
    <3>2. CASE q # p
      <4>1. pc[q] = "report" /\ ran[running[q]]
        BY <1>1, <2>2, <3>2 DEF Delivery, HolderRuns
      <4>2. Alive(q) /\ task[q] \in Tasks /\ running[q] = fn[task[q]]
        BY <4>1 DEF Alive, Inductive, InHand, Delivery, HolderRuns
      <4>3. running[q] \in Merges
        BY <4>2 DEF Holds, Delivery, OneHolder, Inductive, TypeOK, DataTypes
      <4> QED BY <1>5, <4>1, <4>3
    <3> QED BY <3>1, <3>2
  <2> QED BY <1>1, <1>2, <2>2 DEF Delivery, HolderRuns
<1>7. DoneMeansRun'
  <2>1. \A t \in Tasks : fn[t] # None => fn[t] \in Merges
    BY DEF Inductive, TypeOK, DataTypes
  <2> QED BY <1>1, <1>5, <2>1 DEF Delivery, DoneMeansRun
<1> QED BY <1>3, <1>6, <1>7 DEF Delivery

\* runner_w sets done: the function in the task is the one that has run.
LEMMA ReportKeeps ==
    ASSUME Inductive, Delivery, NEW p \in Threads, Report(p)
    PROVE  Delivery'
<1>1. /\ pc \in [Threads -> Labels] /\ done \in [Tasks -> BOOLEAN]
      /\ pc[p] = "report" /\ pc' = [pc EXCEPT ![p] = "ended"]
      /\ done' = [done EXCEPT ![task[p]] = TRUE]
      /\ UNCHANGED <<fn, ran, arg, task, running>>
  BY DEF Inductive, TypeOK, ThreadTypes, DataTypes, Report, Goto, locals
<1>2. \A q \in Threads : Alive(q)' <=> Alive(q) /\ q # p
  BY <1>1 DEF Alive
<1>3. \A q \in Threads, u \in Tasks : Holds(q, u)' <=> Holds(q, u) /\ q # p
  BY <1>1, <1>2 DEF Holds
<1>4. Alive(p) /\ task[p] \in Tasks /\ Holds(p, task[p])
  BY <1>1 DEF Alive, Holds, Inductive, InHand
<1>5. \A q \in Threads : q # p => ~Holds(q, task[p])
  BY <1>4 DEF Delivery, OneHolder
<1>6. OneHolder'
  BY <1>1, <1>2, <1>3, <1>5 DEF Delivery, OneHolder
<1>7. HolderRuns'
  BY <1>1, <1>2 DEF Delivery, HolderRuns
<1>8. DoneMeansRun'
  <2>1. fn[task[p]] # None /\ ran[fn[task[p]]]
    BY <1>1, <1>4 DEF Delivery, OneHolder, HolderRuns
  <2> QED BY <1>1, <2>1 DEF Delivery, DoneMeansRun
<1> QED BY <1>6, <1>7, <1>8 DEF Delivery

LEMMA StepKeepsDelivery ==
    ASSUME Idle, Inductive, Delivery, [Next]_vars
    PROVE  Delivery'
<1>1. CASE UNCHANGED vars
  BY <1>1, ElsewhereKeeps DEF vars, data, locals, Elsewhere, Holds, Alive
<1>2. ASSUME NEW p \in Threads,
             \/ \E t \in Tasks : Merge(p, t) \/ Block(p, t)
             \/ \E v \in Values : Send(p, v)
             \/ Recv(p) \/ Finish(p) \/ Lock(p) \/ Relock(p) \/ Spurious(p) \/ Step(p)
      PROVE  Delivery'
  BY <1>2, ElsewhereKeeps, OthersElsewhere, MergeKeeps, CreateKeeps, CallKeeps,
     FinishKeeps, ReportKeeps DEF Step
<1> QED BY <1>1, <1>2 DEF Next

\* In a program that merges into idle tasks, done is set only while the function
\* of the latest ql_merge has ended, so ql_block does not return for an earlier
\* one (ql_merge, runner_w, ql_block).
THEOREM BlockWaitsForLatest == ASSUME Idle PROVE Spec => []DoneMeansRun
<1>1. Init => Inductive /\ Delivery
  <2>1. Init => OneHolder /\ HolderRuns /\ DoneMeansRun
    BY DEF Init, OneHolder, HolderRuns, DoneMeansRun, Holds, Alive
  <2> QED BY <2>1, InitSound DEF Delivery
<1>2. Inductive /\ Delivery /\ [Next]_vars => (Inductive /\ Delivery)'
  BY StepKeepsInductive, StepKeepsDelivery
<1>3. Inductive /\ Delivery => DoneMeansRun
  BY DEF Delivery
<1> QED BY <1>1, <1>2, <1>3, PTL DEF Spec
=============================================================================
