-------------------------- MODULE QThreadsProofs ---------------------------
(***************************************************************************)
(* Proofs about the task runtime of compiled programs, for any number of   *)
(* workers and tasks and any capacity of the ring.                         *)
(*                                                                         *)
(* RingSound is not inductive by itself: it says that a test made under    *)
(* the spin lock is still true when the ring is changed, which needs that  *)
(* nobody else is between qlock and qunlock (OneInside).  The types need   *)
(* in turn that the occupied slots hold tasks (Filled) and that a thread   *)
(* inside qpush or ql_merge has a task in hand (InHand).                   *)
(*                                                                         *)
(* The second half is about delivery: a program that merges into a task    *)
(* only when it is idle has each merge run once, and done tells the truth. *)
(* OnePlace counts the places of a task.  Its inductive form (Placed) says *)
(* which place it is, so that each step can be followed from one to the    *)
(* next: the producer, a slot of the ring, a worker, none.  It needs to    *)
(* know which threads are in qpush and which in qpop (Roles) and that a    *)
(* merge belongs to one task and to the worker that runs it (Numbered).    *)
(***************************************************************************)
EXTENDS QThreads, SequenceTheorems, FiniteSetTheorems, TLAPS

\* The spin lock: qlk is set while a thread is inside, and only one can be.
OneInside == /\ \A p \in Threads : Inside(p) => qlk = 1
             /\ \A p, q \in Threads : Inside(p) /\ Inside(q) => p = q

\* The slots in use, counted from the oldest entry, hold tasks.
Filled == \A i \in Slots : i < qn => qq[(qh + i) % QCAP] \in Tasks

\* What a thread holds at each place.
InHand ==
    \A p \in Threads :
        /\ pc[p] = "unborn" => p # Main /\ running[p] = None
        /\ pc[p] = "store" => arg[p] \in Tasks
        /\ pc[p] \in {"lock", "held", "full", "empty", "sleep", "asleep"} /\ Pushes(p)
              => arg[p] \in Tasks
        /\ pc[p] \in {"take", "taken", "call"} => task[p] \in Tasks

Inductive == TypeOK /\ OneInside /\ RingSound /\ Filled /\ InHand

----------------------------------------------------------------------------

\* The ring's index arithmetic, for the positions it uses.
LEMMA Wrap ==
    ASSUME NEW a \in Nat, a < QCAP + QCAP
    PROVE  a % QCAP = (IF a < QCAP THEN a ELSE a - QCAP)
BY BoundsAssumption, SMTT(30)

LEMMA WrapIn == ASSUME NEW a \in Nat PROVE a % QCAP \in Slots
BY BoundsAssumption, SMTT(30) DEF Slots

\* One more step along the ring, taken before or after wrapping.
LEMMA WrapStep ==
    ASSUME NEW h \in Slots, NEW i \in 0..QCAP, h + i + 1 <= QCAP + QCAP
    PROVE  /\ (((h + i) % QCAP) + 1) % QCAP = (h + i + 1) % QCAP
           /\ i < QCAP => (((h + 1) % QCAP) + i) % QCAP = (h + i + 1) % QCAP
<1>0. QCAP \in Nat \ {0} /\ h \in 0..(QCAP - 1)
  BY BoundsAssumption DEF Slots
<1>1. QCAP % QCAP = 0
  BY <1>0, Wrap
<1>2. CASE h + i + 1 < QCAP
  <2>1. (h + i) % QCAP = h + i /\ (h + i + 1) % QCAP = h + i + 1 /\ (h + 1) % QCAP = h + 1
    BY <1>0, <1>2, Wrap
  <2> QED BY <1>0, <2>1
<1>3. CASE h + i + 1 >= QCAP
  <2>1. CASE h + i < QCAP
    <3>1. (h + i) % QCAP = h + i
      BY <1>0, <2>1, Wrap
    <3>2. CASE h + 1 < QCAP
      <4>1. (h + 1) % QCAP = h + 1
        BY <1>0, <3>2, Wrap
      <4> QED BY <1>0, <3>1, <4>1
    <3>3. CASE h + 1 = QCAP
      <4>1. i = 0 BY <1>0, <2>1, <3>3
      <4> QED BY <1>0, <1>1, <3>1, <3>3, <4>1
    <3> QED BY <1>0, <3>2, <3>3
  <2>2. CASE h + i >= QCAP /\ h + i + 1 < QCAP + QCAP
    <3>1. (h + i) % QCAP = h + i - QCAP /\ (h + i + 1) % QCAP = h + i + 1 - QCAP
      BY <1>0, <2>2, Wrap
    <3>2. (h + i + 1 - QCAP) % QCAP = h + i + 1 - QCAP
      BY <1>0, <2>2, Wrap
    <3>3. CASE h + 1 < QCAP
      <4>1. (h + 1) % QCAP = h + 1
        BY <1>0, <3>3, Wrap
      <4> QED BY <1>0, <3>1, <3>2, <4>1
    <3>4. CASE h + 1 = QCAP
      <4>1. (h + 1) % QCAP = 0 BY <1>1, <3>4
      <4>2. i < QCAP => i % QCAP = i BY <1>0, Wrap
      <4>3. h + i + 1 - QCAP = i BY <1>0, <3>4
      <4> QED BY <1>0, <3>1, <3>2, <4>1, <4>2, <4>3
    <3> QED BY <1>0, <3>3, <3>4
  <2>3. CASE h + i + 1 = QCAP + QCAP
    <3>1. h = QCAP - 1 /\ i = QCAP
      BY <1>0, <2>3
    <3>2. (h + i) % QCAP = QCAP - 1
      BY <1>0, <3>1, Wrap
    <3>3. (QCAP + QCAP) % QCAP = 0
      BY <1>0, SMTT(30)
    <3> QED BY <1>0, <1>1, <2>3, <3>1, <3>2, <3>3
  <2> QED BY <1>0, <1>3, <2>1, <2>2, <2>3
<1> QED BY <1>0, <1>2, <1>3

\* Different positions within one turn of the ring are different slots.
LEMMA WrapDistinct ==
    ASSUME NEW h \in Slots, NEW i \in Slots, NEW n \in Slots, i < n
    PROVE  (h + i) % QCAP # (h + n) % QCAP
<1>0. QCAP \in Nat \ {0} /\ h \in 0..(QCAP - 1) /\ i \in 0..(QCAP - 1) /\ n \in 0..(QCAP - 1)
  BY BoundsAssumption DEF Slots
<1>1. (h + i) % QCAP = (IF h + i < QCAP THEN h + i ELSE h + i - QCAP)
  BY <1>0, Wrap
<1>2. (h + n) % QCAP = (IF h + n < QCAP THEN h + n ELSE h + n - QCAP)
  BY <1>0, Wrap
<1> QED BY <1>0, <1>1, <1>2

----------------------------------------------------------------------------

\* The steps of a thread preserve the invariant.
LEMMA StepKeepsInductive ==
    ASSUME Inductive, [Next]_vars
    PROVE  Inductive'
<1> USE BoundsAssumption, FlagsAssumption, TasksAssumption
<1>1. ASSUME NEW p \in Threads, NEW t \in Tasks, Merge(p, t) PROVE Inductive'
  <2>1. TypeOK'
    BY <1>1 DEF Inductive, TypeOK, RingTypes, DataTypes, ThreadTypes, Merge, Goto, ring, data, locals, Labels, Slots, Threads, Main, Merges, None
  <2>2. OneInside'
    BY <1>1 DEF Inductive, TypeOK, RingTypes, ThreadTypes, OneInside, Inside, Merge, Goto, ring, data, locals, Threads
  <2>3. RingSound'
    BY <1>1 DEF Inductive, TypeOK, RingTypes, ThreadTypes, OneInside, Inside, RingSound, Merge, Goto, ring, data, locals, Threads
  <2>4. Filled'
    BY <1>1 DEF Inductive, Filled, Merge, ring, data, locals, Slots
  <2>5. InHand'
    BY <1>1 DEF Inductive, TypeOK, ThreadTypes, InHand, Pushes, Merge, Goto, ring, data, locals, Threads, Main, None, Labels
  <2> QED BY <2>1, <2>2, <2>3, <2>4, <2>5 DEF Inductive
<1>2. ASSUME NEW p \in Threads, NEW t \in Tasks, Block(p, t) PROVE Inductive'
  <2>1. TypeOK'
    BY <1>2 DEF Inductive, TypeOK, RingTypes, DataTypes, ThreadTypes, Block, Goto, ring, data, locals, Labels, Slots, Threads, Main, Merges, None
  <2>2. OneInside'
    BY <1>2 DEF Inductive, TypeOK, RingTypes, ThreadTypes, OneInside, Inside, Block, Goto, ring, data, locals, Threads
  <2>3. RingSound'
    BY <1>2 DEF Inductive, TypeOK, RingTypes, ThreadTypes, OneInside, Inside, RingSound, Block, Goto, ring, data, locals, Threads
  <2>4. Filled'
    BY <1>2 DEF Inductive, Filled, Block, ring, data, locals, Slots
  <2>5. InHand'
    BY <1>2 DEF Inductive, TypeOK, ThreadTypes, InHand, Pushes, Block, Goto, ring, data, locals, Threads, Main, None, Labels
  <2> QED BY <2>1, <2>2, <2>3, <2>4, <2>5 DEF Inductive
<1>3. ASSUME NEW p \in Threads, Lock(p) PROVE Inductive'
  <2>1. TypeOK'
    BY <1>3 DEF Inductive, TypeOK, RingTypes, DataTypes, ThreadTypes, Lock, Goto, ring, data, locals, Labels, Slots, Threads, Main, Merges, None
  <2>2. OneInside'
    BY <1>3 DEF Inductive, TypeOK, RingTypes, ThreadTypes, OneInside, Inside, Lock, Goto, ring, data, locals, Threads
  <2>3. RingSound'
    BY <1>3 DEF Inductive, TypeOK, RingTypes, ThreadTypes, OneInside, Inside, RingSound, Lock, Goto, ring, data, locals, Threads
  <2>4. Filled'
    BY <1>3 DEF Inductive, Filled, Lock, ring, data, locals, Slots
  <2>5. InHand'
    BY <1>3 DEF Inductive, TypeOK, ThreadTypes, InHand, Pushes, Lock, Goto, ring, data, locals, Threads, Main, None, Labels
  <2> QED BY <2>1, <2>2, <2>3, <2>4, <2>5 DEF Inductive
<1>4. ASSUME NEW p \in Threads, Born(p) PROVE Inductive'
  <2>1. TypeOK'
    BY <1>4 DEF Inductive, TypeOK, RingTypes, DataTypes, ThreadTypes, Born, Goto, ring, data, locals, Labels, Slots, Threads, Main, Merges, None
  <2>2. OneInside'
    BY <1>4 DEF Inductive, TypeOK, RingTypes, ThreadTypes, OneInside, Inside, Born, Goto, ring, data, locals, Threads
  <2>3. RingSound'
    BY <1>4 DEF Inductive, TypeOK, RingTypes, ThreadTypes, OneInside, Inside, RingSound, Born, Goto, ring, data, locals, Threads
  <2>4. Filled'
    BY <1>4 DEF Inductive, Filled, Born, ring, data, locals, Slots
  <2>5. InHand'
    BY <1>4 DEF Inductive, TypeOK, ThreadTypes, InHand, Pushes, Born, Goto, ring, data, locals, Threads, Main, None, Labels
  <2> QED BY <2>1, <2>2, <2>3, <2>4, <2>5 DEF Inductive
<1>5. ASSUME NEW p \in Threads, PushTest(p) PROVE Inductive'
  <2>1. TypeOK'
    BY <1>5 DEF Inductive, TypeOK, RingTypes, DataTypes, ThreadTypes, PushTest, Goto, ring, data, locals, Labels, Slots, Threads, Main, Merges, None
  <2>2. OneInside'
    BY <1>5 DEF Inductive, TypeOK, RingTypes, ThreadTypes, OneInside, Inside, PushTest, Goto, ring, data, locals, Threads
  <2>3. RingSound'
    BY <1>5 DEF Inductive, TypeOK, RingTypes, ThreadTypes, OneInside, Inside, RingSound, PushTest, Goto, ring, data, locals, Threads
  <2>4. Filled'
    BY <1>5 DEF Inductive, Filled, PushTest, ring, data, locals, Slots
  <2>5. InHand'
    BY <1>5 DEF Inductive, TypeOK, ThreadTypes, InHand, Pushes, PushTest, Goto, ring, data, locals, Threads, Main, None, Labels
  <2> QED BY <2>1, <2>2, <2>3, <2>4, <2>5 DEF Inductive
<1>6. ASSUME NEW p \in Threads, Store(p) PROVE Inductive'
  <2>1. TypeOK'
    BY <1>6 DEF Inductive, TypeOK, RingTypes, DataTypes, ThreadTypes, Store, Goto, ring, data, locals, Labels, Slots, Threads, Main, Merges, None
  <2>2. OneInside'
    BY <1>6 DEF Inductive, TypeOK, RingTypes, ThreadTypes, OneInside, Inside, Store, Goto, ring, data, locals, Threads
  <2>3. RingSound'
    <3>1. qn \in 0..(QCAP - 1) /\ qh \in Slots /\ qt = (qh + qn) % QCAP
      BY <1>6 DEF Inductive, TypeOK, RingTypes, RingSound, Store
    <3>2. qt' = (qh' + qn') % QCAP
      <4>1. (((qh + qn) % QCAP) + 1) % QCAP = (qh + qn + 1) % QCAP
        <5>1. qn \in 0..QCAP /\ qh + qn + 1 <= QCAP + QCAP
          BY <3>1 DEF Slots
        <5> QED BY <3>1, <5>1, WrapStep
      <4>2. qh + qn + 1 = qh + (qn + 1)
        BY <3>1 DEF Slots
      <4> QED BY <1>6, <3>1, <4>1, <4>2 DEF Store
    <3>3. \A s \in Threads : pc'[s] \notin {"store", "take"}
      BY <1>6 DEF Inductive, TypeOK, ThreadTypes, OneInside, Inside, Store, Goto
    <3> QED BY <1>6, <3>1, <3>2, <3>3 DEF RingSound, Store
  <2>4. Filled'
    <3>1. qn \in Slots /\ qh \in Slots /\ qt = (qh + qn) % QCAP /\ arg[p] \in Tasks
      BY <1>6 DEF Inductive, TypeOK, RingTypes, RingSound, InHand, Store, Slots
    <3>2. ASSUME NEW i \in Slots, i < qn' PROVE qq'[(qh' + i) % QCAP] \in Tasks
      <4>1. (qh + i) % QCAP \in Slots
        BY <3>1, WrapIn DEF Slots
      <4>2. CASE i < qn
        <5>1. (qh + i) % QCAP # qt
          BY <3>1, <4>2, WrapDistinct
        <5> QED BY <1>6, <4>1, <4>2, <5>1 DEF Inductive, TypeOK, RingTypes, Filled, Store
      <4>3. CASE i = qn
        BY <1>6, <3>1, <4>1, <4>3 DEF Inductive, TypeOK, RingTypes, Store
      <4>4. i < qn \/ i = qn
        BY <1>6, <3>1, <3>2 DEF Store, Slots
      <4> QED BY <4>2, <4>3, <4>4
    <3> QED BY <3>2 DEF Filled
  <2>5. InHand'
    BY <1>6 DEF Inductive, TypeOK, ThreadTypes, InHand, Pushes, Store, Goto, ring, data, locals, Threads, Main, None, Labels
  <2> QED BY <2>1, <2>2, <2>3, <2>4, <2>5 DEF Inductive
<1>7. ASSUME NEW p \in Threads, PopTest(p) PROVE Inductive'
  <2>1. TypeOK'
    <3>1. qq[qh] \in Tasks \cup {NoTask} BY DEF Inductive, TypeOK, RingTypes
    <3>2. ThreadTypes'
      BY <1>7, <3>1 DEF Inductive, TypeOK, ThreadTypes, PopTest, Goto, Labels
    <3> QED BY <1>7, <3>2 DEF Inductive, TypeOK, RingTypes, DataTypes, PopTest, ring, data
  <2>2. OneInside'
    BY <1>7 DEF Inductive, TypeOK, RingTypes, ThreadTypes, OneInside, Inside, PopTest, Goto, ring, data, locals, Threads
  <2>3. RingSound'
    BY <1>7 DEF Inductive, TypeOK, RingTypes, ThreadTypes, OneInside, Inside, RingSound, PopTest, Goto, ring, data, locals, Threads
  <2>4. Filled'
    BY <1>7 DEF Inductive, Filled, PopTest, ring, data, locals, Slots
  <2>5. InHand'
    <3>1. qn > 0 => qq[qh] \in Tasks
      <4>1. 0 \in Slots /\ qh \in Slots /\ (qh + 0) % QCAP = qh
        BY Wrap DEF Inductive, TypeOK, RingTypes, Slots
      <4> QED BY <4>1 DEF Inductive, Filled
    <3>2. CASE qn > 0
      BY <1>7, <3>1, <3>2 DEF Inductive, TypeOK, RingTypes, ThreadTypes, InHand, Pushes, PopTest, Goto
    <3>3. CASE qn = 0
      BY <1>7, <3>3 DEF Inductive, TypeOK, ThreadTypes, InHand, Pushes, PopTest, Goto
    <3> QED BY <1>7, <3>2, <3>3 DEF PopTest
  <2> QED BY <2>1, <2>2, <2>3, <2>4, <2>5 DEF Inductive
<1>8. ASSUME NEW p \in Threads, Take(p) PROVE Inductive'
  <2>1. TypeOK'
    <3>1. qh' \in Slots /\ qn' \in Nat
      <4>1. qh \in Slots /\ qn \in 1..QCAP /\ qh + 1 \in Nat
        BY <1>8 DEF Inductive, TypeOK, RingTypes, RingSound, Take, Slots
      <4>2. (qh + 1) % QCAP \in Slots
        BY <4>1, WrapIn
      <4> QED BY <1>8, <4>1, <4>2 DEF Take
    <3> QED BY <1>8, <3>1 DEF Inductive, TypeOK, RingTypes, DataTypes, ThreadTypes, Take, Goto, data, locals, Labels
  <2>2. OneInside'
    BY <1>8 DEF Inductive, TypeOK, RingTypes, ThreadTypes, OneInside, Inside, Take, Goto, ring, data, locals, Threads
  <2>3. RingSound'
    <3>1. qn \in 1..QCAP /\ qh \in Slots /\ qt = (qh + qn) % QCAP
      BY <1>8 DEF Inductive, TypeOK, RingTypes, RingSound, Take
    <3>2. qt' = (qh' + qn') % QCAP
      <4>1. (((qh + 1) % QCAP) + (qn - 1)) % QCAP = (qh + (qn - 1) + 1) % QCAP
        <5>1. qn - 1 \in 0..QCAP /\ qn - 1 < QCAP /\ qh + (qn - 1) + 1 <= QCAP + QCAP
          BY <3>1 DEF Slots
        <5> QED BY <3>1, <5>1, WrapStep
      <4>2. qh + (qn - 1) + 1 = qh + qn
        BY <3>1 DEF Slots
      <4> QED BY <1>8, <3>1, <4>1, <4>2 DEF Take
    <3>3. \A s \in Threads : pc'[s] \notin {"store", "take"}
      BY <1>8 DEF Inductive, TypeOK, ThreadTypes, OneInside, Inside, Take, Goto
    <3> QED BY <1>8, <3>1, <3>2, <3>3 DEF RingSound, Take
  <2>4. Filled'
    <3>1. qn \in 1..QCAP /\ qh \in Slots
      BY <1>8 DEF Inductive, TypeOK, RingTypes, RingSound, Take
    <3>2. ASSUME NEW i \in Slots, i < qn' PROVE qq'[(qh' + i) % QCAP] \in Tasks
      <4>1. i + 1 \in Slots /\ i + 1 < qn
        BY <1>8, <3>1, <3>2 DEF Take, Slots
      <4>2. (qh' + i) % QCAP = (qh + (i + 1)) % QCAP
        <5>1. (((qh + 1) % QCAP) + i) % QCAP = (qh + i + 1) % QCAP
          BY <3>1, WrapStep DEF Slots
        <5>2. qh + i + 1 = qh + (i + 1)
          BY <3>1 DEF Slots
        <5> QED BY <1>8, <5>1, <5>2 DEF Take
      <4> QED BY <1>8, <4>1, <4>2 DEF Inductive, Filled, Take
    <3> QED BY <3>2 DEF Filled
  <2>5. InHand'
    BY <1>8 DEF Inductive, TypeOK, ThreadTypes, InHand, Pushes, Take, Goto, ring, data, locals, Threads, Main, None, Labels
  <2> QED BY <2>1, <2>2, <2>3, <2>4, <2>5 DEF Inductive
<1>9. ASSUME NEW p \in Threads, Unlock(p) PROVE Inductive'
  <2>1. TypeOK'
    <3>1. /\ AfterUnlock[pc[p]] \in {"sleep", "code", "wake", "call"}
          /\ AfterUnlock[pc[p]] = "sleep" => pc[p] \in {"full", "empty"}
          /\ AfterUnlock[pc[p]] = "call" => pc[p] = "taken"
      BY <1>9 DEF Unlock, AfterUnlock
    <3> QED BY <1>9, <3>1 DEF Inductive, TypeOK, RingTypes, DataTypes, ThreadTypes, Unlock, Goto, ring, data, locals, Threads, Main, Labels
  <2>2. OneInside'
    <3>1. /\ AfterUnlock[pc[p]] \in {"sleep", "code", "wake", "call"}
          /\ AfterUnlock[pc[p]] = "sleep" => pc[p] \in {"full", "empty"}
          /\ AfterUnlock[pc[p]] = "call" => pc[p] = "taken"
      BY <1>9 DEF Unlock, AfterUnlock
    <3> QED BY <1>9, <3>1 DEF Inductive, TypeOK, RingTypes, ThreadTypes, OneInside, Inside, Unlock, Goto, ring, data, locals, Threads, Main, Labels
  <2>3. RingSound'
    <3>1. /\ AfterUnlock[pc[p]] \in {"sleep", "code", "wake", "call"}
          /\ AfterUnlock[pc[p]] = "sleep" => pc[p] \in {"full", "empty"}
          /\ AfterUnlock[pc[p]] = "call" => pc[p] = "taken"
      BY <1>9 DEF Unlock, AfterUnlock
    <3> QED BY <1>9, <3>1 DEF Inductive, TypeOK, RingTypes, ThreadTypes, OneInside, Inside, RingSound, Unlock, Goto, ring, data, locals, Threads, Main, Labels
  <2>4. Filled'
    BY <1>9 DEF Inductive, Filled, Unlock, ring, data, locals, Slots
  <2>5. InHand'
    <3>1. /\ AfterUnlock[pc[p]] \in {"sleep", "code", "wake", "call"}
          /\ AfterUnlock[pc[p]] = "sleep" => pc[p] \in {"full", "empty"}
          /\ AfterUnlock[pc[p]] = "call" => pc[p] = "taken"
      BY <1>9 DEF Unlock, AfterUnlock
    <3> QED BY <1>9, <3>1 DEF Inductive, TypeOK, ThreadTypes, InHand, Pushes, Unlock, Goto, ring, data, locals, Threads, Main, Labels
  <2> QED BY <2>1, <2>2, <2>3, <2>4, <2>5 DEF Inductive
<1>10. ASSUME NEW p \in Threads, Wake(p) PROVE Inductive'
  <2>1. TypeOK'
    BY <1>10 DEF Inductive, TypeOK, RingTypes, DataTypes, ThreadTypes, Wake, Goto, ring, data, locals, Labels, Slots, Threads, Main, Merges, None
  <2>2. OneInside'
    BY <1>10 DEF Inductive, TypeOK, RingTypes, ThreadTypes, OneInside, Inside, Wake, Goto, ring, data, locals, Threads
  <2>3. RingSound'
    BY <1>10 DEF Inductive, TypeOK, RingTypes, ThreadTypes, OneInside, Inside, RingSound, Wake, Goto, ring, data, locals, Threads
  <2>4. Filled'
    BY <1>10 DEF Inductive, Filled, Wake, ring, data, locals, Slots
  <2>5. InHand'
    BY <1>10 DEF Inductive, TypeOK, ThreadTypes, InHand, Pushes, Wake, Goto, ring, data, locals, Threads, Main, None, Labels
  <2> QED BY <2>1, <2>2, <2>3, <2>4, <2>5 DEF Inductive
<1>11. ASSUME NEW p \in Threads, Sleep(p) PROVE Inductive'
  <2>1. TypeOK'
    BY <1>11 DEF Inductive, TypeOK, RingTypes, DataTypes, ThreadTypes, Sleep, Goto, ring, data, locals, Labels, Slots, Threads, Main, Merges, None
  <2>2. OneInside'
    BY <1>11 DEF Inductive, TypeOK, RingTypes, ThreadTypes, OneInside, Inside, Sleep, Goto, ring, data, locals, Threads
  <2>3. RingSound'
    BY <1>11 DEF Inductive, TypeOK, RingTypes, ThreadTypes, OneInside, Inside, RingSound, Sleep, Goto, ring, data, locals, Threads
  <2>4. Filled'
    BY <1>11 DEF Inductive, Filled, Sleep, ring, data, locals, Slots
  <2>5. InHand'
    BY <1>11 DEF Inductive, TypeOK, ThreadTypes, InHand, Pushes, Sleep, Goto, ring, data, locals, Threads, Main, None, Labels
  <2> QED BY <2>1, <2>2, <2>3, <2>4, <2>5 DEF Inductive
<1>12. ASSUME NEW p \in Threads, Call(p) PROVE Inductive'
  <2>1. TypeOK'
    <3>1. fn[task[p]] \in Merges \cup {None}
      BY <1>12 DEF Inductive, TypeOK, DataTypes, InHand, Call
    <3>2. running' \in [Threads -> Merges \cup {None}]
      BY <1>12, <3>1 DEF Inductive, TypeOK, ThreadTypes, Call
    <3> QED BY <1>12, <3>2 DEF Inductive, TypeOK, RingTypes, DataTypes, ThreadTypes, Call, Goto, ring, data, Labels
  <2>2. OneInside'
    BY <1>12 DEF Inductive, TypeOK, RingTypes, ThreadTypes, OneInside, Inside, Call, Goto, ring, data, locals, Threads
  <2>3. RingSound'
    BY <1>12 DEF Inductive, TypeOK, RingTypes, ThreadTypes, OneInside, Inside, RingSound, Call, Goto, ring, data, locals, Threads
  <2>4. Filled'
    BY <1>12 DEF Inductive, Filled, Call, ring, data, locals, Slots
  <2>5. InHand'
    BY <1>12 DEF Inductive, TypeOK, ThreadTypes, InHand, Pushes, Call, Goto, ring, data, locals, Threads, Main, None, Labels
  <2> QED BY <2>1, <2>2, <2>3, <2>4, <2>5 DEF Inductive
<1>13. ASSUME NEW p \in Threads, BlockReturn(p) PROVE Inductive'
  <2>1. TypeOK'
    BY <1>13 DEF Inductive, TypeOK, RingTypes, DataTypes, ThreadTypes, BlockReturn, Goto, ring, data, locals, Labels, Slots, Threads, Main, Merges, None
  <2>2. OneInside'
    BY <1>13 DEF Inductive, TypeOK, RingTypes, ThreadTypes, OneInside, Inside, BlockReturn, Goto, ring, data, locals, Threads
  <2>3. RingSound'
    BY <1>13 DEF Inductive, TypeOK, RingTypes, ThreadTypes, OneInside, Inside, RingSound, BlockReturn, Goto, ring, data, locals, Threads
  <2>4. Filled'
    BY <1>13 DEF Inductive, Filled, BlockReturn, ring, data, locals, Slots
  <2>5. InHand'
    BY <1>13 DEF Inductive, TypeOK, ThreadTypes, InHand, Pushes, BlockReturn, Goto, ring, data, locals, Threads, Main, None, Labels
  <2> QED BY <2>1, <2>2, <2>3, <2>4, <2>5 DEF Inductive
<1>14. ASSUME NEW p \in Threads, Finish(p) PROVE Inductive'
  <2>1. TypeOK'
    <3>1. ran' \in [Merges -> Nat]
      <4>1. ran \in [Merges -> Nat] BY DEF Inductive, TypeOK, DataTypes
      <4>2. ran' = [m \in Merges |-> IF m = running[p] THEN ran[m] + 1 ELSE ran[m]]
        BY <1>14, <4>1 DEF Finish
      <4>3. \A m \in Merges : ran[m] \in Nat /\ ran[m] + 1 \in Nat
        BY <4>1
      <4> QED BY <4>2, <4>3
    <3>2. done' \in [Tasks -> BOOLEAN]
      BY <1>14 DEF Inductive, TypeOK, DataTypes, Finish
    <3>3. DataTypes'
      BY <1>14, <3>1, <3>2 DEF Inductive, TypeOK, DataTypes, Finish
    <3>4. ThreadTypes'
      BY <1>14 DEF Inductive, TypeOK, ThreadTypes, Finish, Goto, Labels
    <3> QED BY <1>14, <3>3, <3>4 DEF Inductive, TypeOK, RingTypes, Finish, ring
  <2>2. OneInside'
    BY <1>14 DEF Inductive, TypeOK, RingTypes, ThreadTypes, OneInside, Inside, Finish, Goto, ring, data, locals, Threads
  <2>3. RingSound'
    BY <1>14 DEF Inductive, TypeOK, RingTypes, ThreadTypes, OneInside, Inside, RingSound, Finish, Goto, ring, data, locals, Threads
  <2>4. Filled'
    BY <1>14 DEF Inductive, Filled, Finish, ring, data, locals, Slots
  <2>5. InHand'
    BY <1>14 DEF Inductive, TypeOK, ThreadTypes, InHand, Pushes, Finish, Goto, ring, data, locals, Threads, Main, None, Labels
  <2> QED BY <2>1, <2>2, <2>3, <2>4, <2>5 DEF Inductive
<1>15. ASSUME NEW p \in Threads, Spurious(p) PROVE Inductive'
  <2>1. TypeOK'
    BY <1>15 DEF Inductive, TypeOK, RingTypes, DataTypes, ThreadTypes, Spurious, Goto, ring, data, locals, Labels, Slots, Threads, Main, Merges, None
  <2>2. OneInside'
    BY <1>15 DEF Inductive, TypeOK, RingTypes, ThreadTypes, OneInside, Inside, Spurious, Goto, ring, data, locals, Threads
  <2>3. RingSound'
    BY <1>15 DEF Inductive, TypeOK, RingTypes, ThreadTypes, OneInside, Inside, RingSound, Spurious, Goto, ring, data, locals, Threads
  <2>4. Filled'
    BY <1>15 DEF Inductive, Filled, Spurious, ring, data, locals, Slots
  <2>5. InHand'
    BY <1>15 DEF Inductive, TypeOK, ThreadTypes, InHand, Pushes, Spurious, Goto, ring, data, locals, Threads, Main, None, Labels
  <2> QED BY <2>1, <2>2, <2>3, <2>4, <2>5 DEF Inductive
<1>16. ASSUME UNCHANGED vars PROVE Inductive'
  BY <1>16 DEF Inductive, TypeOK, RingTypes, DataTypes, ThreadTypes, OneInside, Inside, RingSound, Filled, InHand, Pushes, vars
<1> QED
  BY <1>1, <1>2, <1>3, <1>4, <1>5, <1>6, <1>7, <1>8, <1>9, <1>10, <1>11, <1>12, <1>13, <1>14, <1>15, <1>16 DEF Next, Step

\* The program starts in the invariant.
LEMMA InitSound == ASSUME Init PROVE Inductive
<1> USE BoundsAssumption, FlagsAssumption, TasksAssumption
<1>1. TypeOK
  <2>1. RingTypes
    <3>1. 0 \in Slots BY DEF Slots
    <3>2. qq \in [Slots -> Tasks \cup {NoTask}] BY DEF Init
    <3> QED BY <3>1, <3>2 DEF Init, RingTypes
  <2>2. DataTypes
    <3>0. 0 \in 0..MaxMerges OBVIOUS
    <3>1. merges \in 0..MaxMerges BY <3>0 DEF Init
    <3>5. started \in BOOLEAN BY DEF Init
    <3>2. fn \in [Tasks -> Merges \cup {None}] BY DEF Init
    <3>3. done \in [Tasks -> BOOLEAN] BY DEF Init
    <3>4. ran \in [Merges -> Nat] BY DEF Init
    <3> QED BY <3>1, <3>2, <3>3, <3>4, <3>5 DEF DataTypes
  <2>3. ThreadTypes BY DEF Init, ThreadTypes, Labels
  <2> QED BY <2>1, <2>2, <2>3 DEF TypeOK
<1>2. OneInside
  BY DEF Init, OneInside, Inside
<1>3. RingSound
  <2>1. (0 + 0) % QCAP = 0 BY Wrap
  <2> QED BY <2>1 DEF Init, RingSound
<1>4. Filled
  BY DEF Init, Filled, Slots
<1>5. InHand
  BY DEF Init, InHand, Pushes, Main, None
<1> QED BY <1>1, <1>2, <1>3, <1>4, <1>5 DEF Inductive

\* The invariant holds throughout.
THEOREM PoolInvariant == Spec => []Inductive
<1>1. Init => Inductive
  BY InitSound
<1>2. Inductive /\ [Next]_vars => Inductive'
  BY StepKeepsInductive
<1> QED BY <1>1, <1>2, PTL DEF Spec

\* Every variable keeps its type: a worker always finds a task in the slot it
\* reads (qpop, qworker).
THEOREM TypeCorrect == Spec => []TypeOK
BY PoolInvariant, PTL DEF Inductive

\* Whatever the number of producers and workers, the ring is not overfilled, its
\* counters agree, and a change is made on a test that still holds (qpush, qpop).
THEOREM RingIsSound == Spec => []RingSound
BY PoolInvariant, PTL DEF Inductive

----------------------------------------------------------------------------

\* The ring's contents, oldest first: the mapping under which it is a queue.
Contents == [i \in 1..qn |-> qq[(qh + i - 1) % QCAP]]

LEMMA ContentsIsSeq ==
    ASSUME Inductive
    PROVE  /\ Contents \in Seq(Tasks)
           /\ Len(Contents) = qn
           /\ qn \in 0..QCAP
           /\ DOMAIN Contents = 1..qn
<1>0. QCAP \in Nat \ {0} /\ qn \in 0..QCAP /\ qh \in Slots
  BY BoundsAssumption DEF Inductive, TypeOK, RingTypes, RingSound
<1>1. ASSUME NEW i \in 1..qn PROVE qq[(qh + i - 1) % QCAP] \in Tasks
  <2>1. i - 1 \in Slots /\ i - 1 < qn /\ qh + i - 1 = qh + (i - 1)
    BY <1>0 DEF Slots
  <2> QED BY <2>1 DEF Inductive, Filled
<1>2. Contents \in [1..qn -> Tasks]
  BY <1>1 DEF Contents
<1> QED BY <1>0, <1>2

\* A store appends the pushed task, below the capacity.
LEMMA StoreAppends ==
    ASSUME Inductive, NEW p \in Threads, Store(p)
    PROVE  /\ arg[p] \in Tasks
           /\ Len(Contents) < QCAP
           /\ Contents' = Append(Contents, arg[p])
<1>0. /\ QCAP \in Nat \ {0} /\ qn \in Slots /\ qh \in Slots
      /\ qt = (qh + qn) % QCAP /\ arg[p] \in Tasks /\ qn < QCAP
  BY BoundsAssumption DEF Inductive, TypeOK, RingTypes, RingSound, InHand, Store, Slots
<1>1. /\ Contents \in Seq(Tasks) /\ Len(Contents) = qn /\ DOMAIN Contents = 1..qn
  BY ContentsIsSeq
<1>2. qn' = qn + 1 /\ qh' = qh /\ qq' = [qq EXCEPT ![qt] = arg[p]]
  BY DEF Store
<1>3. ASSUME NEW i \in 1..(qn + 1)
      PROVE  qq'[(qh' + i - 1) % QCAP] = (IF i <= qn THEN Contents[i] ELSE arg[p])
  <2>1. /\ i - 1 \in Slots /\ qh + i - 1 = qh + (i - 1) /\ (qh + (i - 1)) \in Nat
    BY <1>0 DEF Slots
  <2>2. (qh + i - 1) % QCAP \in Slots
    BY <2>1, WrapIn
  <2>3. CASE i <= qn
    <3>1. (qh + i - 1) % QCAP # qt
      <4>1. i - 1 < qn BY <1>0, <2>3 DEF Slots
      <4>2. (qh + (i - 1)) % QCAP # (qh + qn) % QCAP
        BY <1>0, <2>1, <4>1, WrapDistinct
      <4> QED BY <1>0, <2>1, <4>2
    <3>2. qq'[(qh + i - 1) % QCAP] = qq[(qh + i - 1) % QCAP]
      BY <1>2, <2>2, <3>1 DEF Inductive, TypeOK, RingTypes
    <3>3. i \in 1..qn BY <1>0, <2>3
    <3>4. Contents[i] = qq[(qh + i - 1) % QCAP] BY <3>3 DEF Contents
    <3> QED BY <1>2, <2>3, <3>2, <3>4
  <2>4. CASE i = qn + 1
    <3>1. (qh + i - 1) % QCAP = qt
      <4>1. qh + i - 1 = qh + qn BY <1>0, <2>4 DEF Slots
      <4> QED BY <1>0, <4>1
    <3>2. qq'[qt] = arg[p]
      BY <1>2, <2>2, <3>1 DEF Inductive, TypeOK, RingTypes
    <3>3. ~(i <= qn) BY <1>0, <2>4 DEF Slots
    <3> QED BY <1>2, <3>1, <3>2, <3>3
  <2>5. i <= qn \/ i = qn + 1 BY <1>0 DEF Slots
  <2> QED BY <2>3, <2>4, <2>5
<1>4. Contents' = [i \in 1..(qn + 1) |-> IF i <= qn THEN Contents[i] ELSE arg[p]]
  BY <1>2, <1>3 DEF Contents
<1>5. Append(Contents, arg[p])
        = [i \in 1..(qn + 1) |-> IF i <= qn THEN Contents[i] ELSE arg[p]]
  BY <1>0, <1>1
<1> QED BY <1>0, <1>1, <1>4, <1>5

\* A take removes the oldest task.
LEMMA TakeRemoves ==
    ASSUME Inductive, NEW p \in Threads, Take(p)
    PROVE  /\ Contents # <<>>
           /\ Contents' = Tail(Contents)
<1>0. /\ QCAP \in Nat \ {0} /\ qn \in 1..QCAP /\ qh \in Slots
  BY BoundsAssumption DEF Inductive, TypeOK, RingTypes, RingSound, Take
<1>1. /\ Contents \in Seq(Tasks) /\ Len(Contents) = qn /\ DOMAIN Contents = 1..qn
  BY ContentsIsSeq
<1>2. qn' = qn - 1 /\ qh' = (qh + 1) % QCAP /\ qq' = qq
  BY DEF Take
<1>3. ASSUME NEW i \in 1..(qn - 1)
      PROVE  qq'[(qh' + i - 1) % QCAP] = Contents[i + 1]
  <2>1. /\ i - 1 \in 0..QCAP /\ i - 1 < QCAP /\ qh + (i - 1) + 1 <= QCAP + QCAP
        /\ qh + (i - 1) + 1 = qh + (i + 1) - 1 /\ i + 1 \in 1..qn
    BY <1>0 DEF Slots
  <2>2. (((qh + 1) % QCAP) + (i - 1)) % QCAP = (qh + (i - 1) + 1) % QCAP
    BY <1>0, <2>1, WrapStep
  <2>3. qh' + i - 1 = ((qh + 1) % QCAP) + (i - 1)
    <3>1. qh + 1 \in Nat BY <1>0 DEF Slots
    <3>2. (qh + 1) % QCAP \in Slots BY <3>1, WrapIn
    <3> QED BY <1>0, <1>2, <3>2 DEF Slots
  <2>4. Contents[i + 1] = qq[(qh + (i + 1) - 1) % QCAP]
    BY <2>1 DEF Contents
  <2> QED BY <1>2, <2>1, <2>2, <2>3, <2>4
<1>4. Contents' = [i \in 1..(qn - 1) |-> Contents[i + 1]]
  BY <1>2, <1>3 DEF Contents
<1>5. Tail(Contents) = [i \in 1..(qn - 1) |-> Contents[i + 1]]
  <2>1. Contents # <<>> BY <1>0, <1>1
  <2>2. /\ Tail(Contents) \in Seq(Tasks) /\ Len(Tail(Contents)) = qn - 1
        /\ \A i \in 1..Len(Tail(Contents)) : Tail(Contents)[i] = Contents[i + 1]
    <3>1. /\ Tail(Contents) \in Seq(Tasks)
          /\ Len(Tail(Contents)) = Len(Contents) - 1
          /\ \A i \in 1..Len(Tail(Contents)) : Tail(Contents)[i] = Contents[i + 1]
      BY <1>1, <2>1, HeadTailProperties, Zenon
    <3> QED BY <1>1, <3>1
  <2>3. Tail(Contents) \in [1..(qn - 1) -> Tasks]
    BY <2>2, LenProperties
  <2> QED BY <2>2, <2>3
<1>6. Contents # <<>>
  BY <1>0, <1>1
<1> QED BY <1>4, <1>5, <1>6

\* The ring implements a bounded first-in first-out queue: every step appends a
\* task below the capacity, removes the oldest one, or leaves the queue alone
\* (qpush, qpop).
THEOREM RingIsQueue == Spec => FirstInFirstOut
<1>1. Init => Queue!Init
  <2> SUFFICES ASSUME Init PROVE Contents = <<>>
    BY DEF Queue!Init, Contents
  <2> QED BY DEF Init, Contents
<1>2. Inductive /\ [Next]_vars => [Queue!Next]_Contents
  <2> SUFFICES ASSUME Inductive, [Next]_vars PROVE [Queue!Next]_Contents
    OBVIOUS
  <2>1. ASSUME NEW p \in Threads, Store(p) PROVE Queue!Next
    <3>1. Queue!Put(arg[p])
      BY <2>1, StoreAppends DEF Queue!Put, Contents
    <3>2. arg[p] \in Tasks
      BY <2>1, StoreAppends
    <3> QED BY <3>1, <3>2 DEF Queue!Next, Queue!Put
  <2>2. ASSUME NEW p \in Threads, Take(p) PROVE Queue!Next
    <3>1. Queue!Take
      BY <2>2, TakeRemoves DEF Queue!Take, Contents
    <3> QED BY <3>1 DEF Queue!Next
  <2>3. CASE UNCHANGED ring
    BY <2>3 DEF ring, Contents
  <2> QED
    BY <2>1, <2>2, <2>3 DEF Next, Step, vars, ring, Merge, Block, Lock, Born,
       PushTest, PopTest, Unlock, Wake, Sleep, Call, BlockReturn, Finish, Spurious
<1> QED
  BY <1>1, <1>2, PoolInvariant, PTL DEF Spec, FirstInFirstOut, Queue!Spec, Contents

----------------------------------------------------------------------------
(* Delivery.                                                               *)

\* Where a thread is tells whether it runs the program's code or the pool's.
Roles ==
    /\ running[Main] = None
    /\ \A p \in Threads :
          /\ pc[p] \in {"code", "spin", "full", "store", "stored", "first", "wake"}
                => Pushes(p)
          /\ pc[p] \in {"unborn", "empty", "take", "taken", "call"} => ~Pushes(p)

\* The merges so far are 1..merges, each is into one task, and a worker runs
\* the merge its task was given last.
Numbered ==
    /\ \A t \in Tasks : fn[t] <= merges
    /\ \A t, u \in Tasks : fn[t] = fn[u] /\ fn[t] # None => t = u
    /\ \A m \in Merges : ran[m] > 0 => m <= merges
    /\ \A p \in Workers : running[p] # None => task[p] \in Tasks /\ fn[task[p]] = running[p]

\* The four cases of OnePlace.
AtProducer(t) == \E p \in Threads : Pushing(t) = {p} /\ Queued(t) = {} /\ Running(t) = {}
InRing(t)     == \E i \in Slots : Pushing(t) = {} /\ Queued(t) = {i} /\ Running(t) = {}
AtWorker(t)   == \E p \in Workers : Pushing(t) = {} /\ Queued(t) = {} /\ Running(t) = {p}
Nowhere(t)    == Pushing(t) = {} /\ Queued(t) = {} /\ Running(t) = {}

PlacedTask(t) == IF Outstanding(t) THEN AtProducer(t) \/ InRing(t) \/ AtWorker(t)
                                   ELSE Nowhere(t)
Placed == \A t \in Tasks : PlacedTask(t)

Delivery == Roles /\ Numbered /\ Placed /\ RunOnce /\ DoneMeansRun

----------------------------------------------------------------------------

\* The worker of a task that was given to it finds the merge's function there.
LEMMA GivenHasMerge ==
    ASSUME Inductive, Delivery, NEW p \in Threads, pc[p] = "call"
    PROVE  p \in Workers /\ task[p] \in Tasks /\ fn[task[p]] # None
<1>1. ~Pushes(p) /\ task[p] \in Tasks
  BY DEF Inductive, InHand, Delivery, Roles
<1>2. p \in Workers
  BY <1>1, BoundsAssumption DEF Pushes, Main, Threads, Workers
<1>3. p \in Running(task[p])
  BY <1>2 DEF Running
<1>4. Outstanding(task[p])
  BY <1>1, <1>3 DEF Delivery, Placed, PlacedTask, Nowhere
<1> QED BY <1>1, <1>2, <1>4 DEF Outstanding

\* Threads keep to the code their role allows.
LEMMA RolesKept ==
    ASSUME Inductive, Delivery, [Next]_vars
    PROVE  Roles'
<1> USE BoundsAssumption DEF Delivery, Roles, Pushes, Goto, Inductive, TypeOK, ThreadTypes, Threads, Main, None, Workers
<1>1. ASSUME NEW p \in Threads, NEW t \in Tasks, Merge(p, t) PROVE Roles'
  BY <1>1 DEF Merge, MayCall
<1>2. ASSUME NEW p \in Threads, NEW t \in Tasks, Block(p, t) PROVE Roles'
  BY <1>2 DEF Block, MayCall
<1>3. ASSUME NEW p \in Threads, Lock(p) PROVE Roles'
  BY <1>3 DEF Lock, locals
<1>4. ASSUME NEW p \in Threads, Born(p) PROVE Roles'
  BY <1>4 DEF Born, locals
<1>5. ASSUME NEW p \in Threads, PushTest(p) PROVE Roles'
  BY <1>5 DEF PushTest, locals
<1>6. ASSUME NEW p \in Threads, Store(p) PROVE Roles'
  BY <1>6 DEF Store, locals
<1>7. ASSUME NEW p \in Threads, PopTest(p) PROVE Roles'
  BY <1>7 DEF PopTest
<1>8. ASSUME NEW p \in Threads, Take(p) PROVE Roles'
  BY <1>8 DEF Take, locals
<1>9. ASSUME NEW p \in Threads, Unlock(p) PROVE Roles'
  <2>1. /\ AfterUnlock[pc[p]] \in {"sleep", "code", "wake", "call"}
        /\ AfterUnlock[pc[p]] \in {"code", "wake"} => pc[p] \in {"stored", "first"}
        /\ AfterUnlock[pc[p]] = "call" => pc[p] = "taken"
    BY <1>9 DEF Unlock, AfterUnlock
  <2> QED BY <1>9, <2>1 DEF Unlock, locals
<1>10. ASSUME NEW p \in Threads, Wake(p) PROVE Roles'
  BY <1>10 DEF Wake, locals
<1>11. ASSUME NEW p \in Threads, Sleep(p) PROVE Roles'
  BY <1>11 DEF Sleep, locals
<1>12. ASSUME NEW p \in Threads, Call(p) PROVE Roles'
  <2>1. p \in Workers /\ fn[task[p]] # None
    BY <1>12, GivenHasMerge DEF Call
  <2> QED BY <1>12, <2>1 DEF Call
<1>13. ASSUME NEW p \in Threads, BlockReturn(p) PROVE Roles'
  BY <1>13 DEF BlockReturn, locals
<1>14. ASSUME NEW p \in Threads, Finish(p) PROVE Roles'
  BY <1>14 DEF Finish
<1>15. ASSUME NEW p \in Threads, Spurious(p) PROVE Roles'
  BY <1>15 DEF Spurious, locals
<1>16. ASSUME UNCHANGED vars PROVE Roles'
  BY <1>16 DEF vars
<1> QED
  BY <1>1, <1>2, <1>3, <1>4, <1>5, <1>6, <1>7, <1>8, <1>9, <1>10, <1>11, <1>12, <1>13, <1>14, <1>15, <1>16 DEF Next, Step

\* A task merged into is idle, so it is in no place.
LEMMA IdleIsNowhere ==
    ASSUME Idle, Inductive, Delivery, NEW p \in Threads, NEW t \in Tasks, Merge(p, t)
    PROVE  Nowhere(t)
<1>1. fn[t] = None \/ ran[fn[t]] > 0
  BY DEF Merge, Delivery, DoneMeansRun
<1>2. fn[t] \in Merges \cup {None} /\ ran \in [Merges -> Nat]
  BY DEF Inductive, TypeOK, DataTypes
<1>3. ~Outstanding(t)
  BY <1>1, <1>2 DEF Outstanding
<1> QED BY <1>3 DEF Delivery, Placed, PlacedTask

\* A merge takes the next number, which no function has run for yet.
LEMMA MergeIsNew ==
    ASSUME Inductive, Delivery, NEW p \in Threads, NEW t \in Tasks, Merge(p, t)
    PROVE  /\ merges + 1 \in Merges
           /\ ran[merges + 1] = 0
           /\ \A u \in Tasks : fn[u] # merges + 1
<1>1. merges + 1 \in Merges /\ merges \in Nat
  BY BoundsAssumption DEF Inductive, TypeOK, DataTypes, Merge, Merges
<1>2. ran[merges + 1] \in Nat /\ ~(ran[merges + 1] > 0)
  BY <1>1 DEF Inductive, TypeOK, DataTypes, Delivery, Numbered
<1>3. \A u \in Tasks : fn[u] \in Nat /\ fn[u] <= merges
  BY DEF Inductive, TypeOK, DataTypes, Merges, None, Delivery, Numbered
<1> QED BY <1>1, <1>2, <1>3

\* The task of a running function is outstanding, with that worker.
LEMMA RunningHasTask ==
    ASSUME Inductive, Delivery, NEW p \in Workers, running[p] # None
    PROVE  /\ task[p] \in Tasks
           /\ fn[task[p]] = running[p]
           /\ running[p] \in Merges
           /\ ran[running[p]] = 0
           /\ Pushing(task[p]) = {} /\ Queued(task[p]) = {} /\ Running(task[p]) = {p}
<1>1. task[p] \in Tasks /\ fn[task[p]] = running[p]
  BY DEF Delivery, Numbered
<1>2. p \in Running(task[p])
  BY DEF Running
<1>3. Outstanding(task[p]) /\ AtWorker(task[p])
  BY <1>1, <1>2 DEF Delivery, Placed, PlacedTask, Nowhere, AtProducer, InRing
<1>4. Pushing(task[p]) = {} /\ Queued(task[p]) = {} /\ Running(task[p]) = {p}
  BY <1>2, <1>3 DEF AtWorker
<1>5. running[p] \in Merges
  BY BoundsAssumption DEF Inductive, TypeOK, ThreadTypes, Workers, Threads
<1> QED BY <1>1, <1>3, <1>4, <1>5 DEF Outstanding
\* Where a merge is numbered, the function runs and done is set.
LEMMA NumbersKept ==
    ASSUME Idle, Inductive, Delivery, [Next]_vars
    PROVE  (Numbered /\ RunOnce /\ DoneMeansRun)'
<1> DEFINE Goal == Numbered /\ RunOnce /\ DoneMeansRun
<1>0. /\ Goal
      /\ fn \in [Tasks -> Merges \cup {None}] /\ done \in [Tasks -> BOOLEAN]
      /\ merges \in Nat /\ ran \in [Merges -> Nat]
      /\ task \in [Threads -> Tasks \cup {NoTask}]
      /\ running \in [Threads -> Merges \cup {None}]
      /\ Workers \subseteq Threads /\ Merges \subseteq Nat /\ None = 0 /\ None \notin Merges
  BY BoundsAssumption DEF Delivery, Inductive, TypeOK, DataTypes, ThreadTypes, Workers, Threads, Merges, None
<1>1. ASSUME NEW p \in Threads, NEW t \in Tasks, Merge(p, t) PROVE Goal'
  <2>1. /\ merges + 1 \in Merges /\ ran[merges + 1] = 0
        /\ \A u \in Tasks : fn[u] # merges + 1
    BY <1>1, MergeIsNew
  <2>2. Running(t) = {}
    BY <1>1, IdleIsNowhere DEF Nowhere
  <2>3. \A q \in Workers : running[q] # None => task[q] # t
    BY <2>2 DEF Running
  <2>4. Numbered'
    <3>1. /\ fn' = [u \in Tasks |-> IF u = t THEN merges + 1 ELSE fn[u]]
          /\ merges' = merges + 1 /\ UNCHANGED <<ran, task, running>>
      BY <1>0, <1>1 DEF Merge
    <3>2. \A u \in Tasks : fn[u] \in Nat /\ fn[u] <= merges
      <4>1. \A u \in Tasks : fn[u] \in Merges \cup {None}
        BY <1>0
      <4>2. \A u \in Tasks : fn[u] <= merges
        BY <1>0 DEF Numbered
      <4> QED BY <4>1, <4>2 DEF Merges, None
    <3>3. \A u \in Tasks : fn'[u] <= merges'
      BY <1>0, <3>1, <3>2
    <3>4. \A u, v \in Tasks : fn'[u] = fn'[v] /\ fn'[u] # None => u = v
      BY <1>0, <2>1, <3>1 DEF Numbered
    <3>5. \A m \in Merges : ran'[m] > 0 => m <= merges'
      BY <1>0, <3>1 DEF Numbered
    <3>6. \A q \in Workers : running'[q] # None
                => task'[q] \in Tasks /\ fn'[task'[q]] = running'[q]
      BY <1>0, <2>3, <3>1 DEF Numbered
    <3> QED BY <3>3, <3>4, <3>5, <3>6 DEF Numbered
  <2>5. RunOnce'
    BY <1>0, <1>1 DEF RunOnce, Merge
  <2>6. DoneMeansRun'
    BY <1>0, <1>1, <2>1 DEF DoneMeansRun, Merge
  <2> QED BY <2>4, <2>5, <2>6
<1>2. ASSUME NEW p \in Threads, Call(p) PROVE Goal'
  <2>1. p \in Workers /\ task[p] \in Tasks
    BY <1>2, GivenHasMerge DEF Call
  <2> QED BY <1>0, <1>2, <2>1 DEF Numbered, RunOnce, DoneMeansRun, Call, data
<1>3. ASSUME NEW p \in Threads, PopTest(p) PROVE Goal'
  <2>1. running[p] = None
    BY <1>3 DEF PopTest, Pushes
  <2> QED BY <1>0, <1>3, <2>1 DEF Numbered, RunOnce, DoneMeansRun, PopTest, data
<1>4. ASSUME NEW p \in Threads, Finish(p) PROVE Goal'
  <2>1. p \in Workers /\ running[p] # None
    BY <1>4, BoundsAssumption DEF Finish, Main, Threads, Workers, Delivery, Roles, Pushes
  <2>2. /\ task[p] \in Tasks /\ fn[task[p]] = running[p]
        /\ running[p] \in Merges /\ ran[running[p]] = 0
    BY <2>1, RunningHasTask
  <2>3. ran' = [m \in Merges |-> IF m = running[p] THEN 1 ELSE ran[m]]
    <3>1. ran' = [m \in Merges |-> IF m = running[p] THEN ran[m] + 1 ELSE ran[m]]
      BY <1>0, <1>4 DEF Finish
    <3>2. 0 + 1 = 1 OBVIOUS
    <3> QED BY <2>2, <3>1, <3>2
  <2>4. Numbered'
    <3>1. running[p] <= merges
      BY <1>0, <2>2 DEF Numbered
    <3> QED BY <1>0, <1>4, <2>2, <2>3, <3>1 DEF Numbered, Finish
  <2>5. RunOnce'
    BY <1>0, <2>3 DEF RunOnce
  <2>6. DoneMeansRun'
    <3>1. ASSUME NEW u \in Tasks PROVE done'[u] <=> fn[u] # None /\ ran'[fn[u]] > 0
      <4>1. CASE u = task[p]
        BY <1>0, <1>4, <2>2, <2>3, <4>1 DEF Finish
      <4>2. CASE u # task[p]
        <5>1. fn[u] # running[p] BY <1>0, <2>2, <4>2 DEF Numbered
        <5>2. fn[u] # None => ran'[fn[u]] = ran[fn[u]] BY <1>0, <2>3, <5>1
        <5>3. done'[u] = done[u] BY <1>0, <1>4, <4>2 DEF Finish
        <5> QED BY <1>0, <5>2, <5>3 DEF DoneMeansRun
      <4> QED BY <4>1, <4>2
    <3> QED BY <1>4, <3>1 DEF DoneMeansRun, Finish
  <2> QED BY <2>4, <2>5, <2>6
<1>5. ASSUME UNCHANGED <<fn, done, merges, ran, task, running>> PROVE Goal'
  BY <1>0, <1>5 DEF Numbered, RunOnce, DoneMeansRun
<1> QED
  BY <1>1, <1>2, <1>3, <1>4, <1>5 DEF Next, Step, vars, data, locals, Block, Lock, Born,
     PushTest, Store, Take, Unlock, Wake, Sleep, BlockReturn, Spurious

----------------------------------------------------------------------------

\* What an action that moves no task leaves alone.
Unmoved == /\ UNCHANGED <<fn, ran, qq, qh, qn>>
           /\ \A t \in Tasks : UNCHANGED <<Pushing(t), Running(t)>>

LEMMA UnmovedPlaced == ASSUME Placed, Unmoved PROVE Placed'
<1>1. ASSUME NEW t \in Tasks PROVE PlacedTask(t)'
  <2>1. Pushing(t)' = Pushing(t) /\ Running(t)' = Running(t) /\ Queued(t)' = Queued(t)
    BY DEF Unmoved, Queued
  <2>2. Outstanding(t)' = Outstanding(t)
    BY DEF Unmoved, Outstanding
  <2> QED BY <2>1, <2>2 DEF Placed, PlacedTask, AtProducer, InRing, AtWorker, Nowhere
<1> QED BY <1>1 DEF Placed

\* Between the four actions that move a task, a thread changes its place in the
\* code and a task stays where it is.
LEMMA OthersMoveNothing ==
    ASSUME Inductive, Delivery, NEW p \in Threads,
           \/ Lock(p) \/ Born(p) \/ PushTest(p) \/ PopTest(p) \/ Unlock(p) \/ Wake(p)
           \/ Sleep(p) \/ Call(p) \/ BlockReturn(p) \/ Spurious(p)
           \/ \E t \in Tasks : Block(p, t)
    PROVE  Unmoved
<1> USE BoundsAssumption DEF Unmoved, Pushing, Running, Pushes, Goto, Main, None,
        Threads, Workers, ring, data, locals
<1>0. /\ pc \in [Threads -> Labels] /\ arg \in [Threads -> Tasks \cup {NoTask}]
      /\ task \in [Threads -> Tasks \cup {NoTask}]
      /\ running \in [Threads -> Merges \cup {None}]
  BY DEF Inductive, TypeOK, ThreadTypes
<1>1. CASE Lock(p) BY <1>0, <1>1 DEF Lock
<1>2. CASE Born(p) BY <1>0, <1>2 DEF Born, Delivery, Roles
<1>3. CASE PushTest(p) BY <1>0, <1>3 DEF PushTest
<1>4. CASE PopTest(p) BY <1>0, <1>4 DEF PopTest
<1>5. CASE Unlock(p)
  <2>1. /\ AfterUnlock[pc[p]] \in {"sleep", "code", "wake", "call"}
        /\ AfterUnlock[pc[p]] \in {"code", "wake"} => pc[p] \in {"stored", "first"}
        /\ AfterUnlock[pc[p]] = "call" <=> pc[p] = "taken"
        /\ AfterUnlock[pc[p]] = "sleep" <=> pc[p] \in {"full", "empty"}
    BY <1>5 DEF Unlock, AfterUnlock
  <2> QED BY <1>0, <1>5, <2>1 DEF Unlock, Delivery, Roles
<1>6. CASE Wake(p) BY <1>0, <1>6 DEF Wake
<1>7. CASE Sleep(p) BY <1>0, <1>7 DEF Sleep
<1>8. CASE Call(p)
  <2>1. p \in Workers /\ fn[task[p]] # None
    BY <1>8, GivenHasMerge DEF Call
  <2> QED BY <1>0, <1>8, <2>1 DEF Call
<1>9. CASE BlockReturn(p) BY <1>0, <1>9 DEF BlockReturn
<1>10. CASE Spurious(p) BY <1>0, <1>10 DEF Spurious
<1>11. ASSUME NEW t \in Tasks, Block(p, t) PROVE Unmoved
  BY <1>0, <1>11 DEF Block, MayCall
<1> QED BY <1>1, <1>2, <1>3, <1>4, <1>5, <1>6, <1>7, <1>8, <1>9, <1>10, <1>11
\* ql_merge brings an idle task on its way into the ring.
LEMMA MergePlaces ==
    ASSUME Idle, Inductive, Delivery, NEW p \in Threads, NEW t \in Tasks, Merge(p, t)
    PROVE  Placed'
<1>1. Nowhere(t)
  BY IdleIsNowhere
<1>2. /\ pc \in [Threads -> Labels] /\ arg \in [Threads -> Tasks \cup {NoTask}]
      /\ fn \in [Tasks -> Merges \cup {None}]
  BY DEF Inductive, TypeOK, ThreadTypes, DataTypes
<1>3. Pushes(p) /\ pc[p] = "code"
  BY DEF Delivery, Roles, Merge, MayCall
<1>4. ASSUME NEW u \in Tasks PROVE Queued(u)' = Queued(u) /\ Running(u)' = Running(u)
  <2>1. Queued(u)' = Queued(u)
    BY DEF Queued, Merge, ring
  <2>2. Running(u)' = Running(u)
    BY <1>2, <1>3, BoundsAssumption DEF Running, Merge, Goto, Workers, Threads
  <2> QED BY <2>1, <2>2
<1>5. AtProducer(t)'
  <2>1. Pushing(t)' = {p}
    BY <1>1, <1>2, <1>3 DEF Nowhere, Pushing, Pushes, Merge, Goto
  <2> QED BY <1>1, <1>4, <2>1 DEF AtProducer, Nowhere
<1>6. Outstanding(t)'
  <2>1. fn'[t] = merges + 1 /\ ran' = ran
    BY <1>2 DEF Merge
  <2>2. merges + 1 \in Merges /\ ran[merges + 1] = 0
    BY MergeIsNew
  <2> QED BY <2>1, <2>2, BoundsAssumption DEF Outstanding, None, Merges
<1>7. ASSUME NEW u \in Tasks, u # t PROVE PlacedTask(u)'
  <2>1. Pushing(u)' = Pushing(u)
    BY <1>2, <1>3, <1>7 DEF Pushing, Pushes, Merge, Goto
  <2>2. Outstanding(u)' = Outstanding(u)
    BY <1>2, <1>7 DEF Outstanding, Merge
  <2> QED BY <1>4, <2>1, <2>2 DEF Delivery, Placed, PlacedTask, AtProducer, InRing, AtWorker, Nowhere
<1> QED BY <1>5, <1>6, <1>7 DEF Placed, PlacedTask

\* qpush moves the task from its producer to the slot behind the newest one.
LEMMA StorePlaces ==
    ASSUME Inductive, Delivery, NEW p \in Threads, Store(p)
    PROVE  Placed'
<1>0. /\ QCAP \in Nat \ {0} /\ qn \in Slots /\ qh \in Slots /\ qt = (qh + qn) % QCAP
      /\ arg[p] \in Tasks /\ qq \in [Slots -> Tasks \cup {NoTask}]
      /\ pc \in [Threads -> Labels] /\ pc[p] = "store"
  BY BoundsAssumption DEF Inductive, TypeOK, RingTypes, ThreadTypes, RingSound, InHand, Store, Slots
<1>1. p \in Pushing(arg[p])
  BY <1>0 DEF Pushing
<1>2. /\ Outstanding(arg[p])
      /\ Pushing(arg[p]) = {p} /\ Queued(arg[p]) = {} /\ Running(arg[p]) = {}
  BY <1>0, <1>1 DEF Delivery, Placed, PlacedTask, Nowhere, AtProducer, InRing, AtWorker
<1>3. \A u \in Tasks : Outstanding(u)' = Outstanding(u) /\ Running(u)' = Running(u)
  BY <1>0, BoundsAssumption DEF Outstanding, Running, Store, data, locals, Goto, Workers, Threads
<1>4. \A u \in Tasks : Pushing(u)' = Pushing(u) \ {p}
  BY <1>0 DEF Pushing, Pushes, Store, locals, Goto
<1>5. \A i \in Slots : i < qn => qq'[(qh + i) % QCAP] = qq[(qh + i) % QCAP]
  <2>1. ASSUME NEW i \in Slots, i < qn
        PROVE  (qh + i) % QCAP # qt /\ (qh + i) % QCAP \in Slots
    <3>1. (qh + i) % QCAP \in Slots
      <4>1. qh + i \in Nat
        BY <1>0 DEF Slots
      <4> QED BY <4>1, WrapIn
    <3>2. (qh + i) % QCAP # (qh + qn) % QCAP
      BY <1>0, <2>1, WrapDistinct
    <3> QED BY <1>0, <3>1, <3>2
  <2>2. \A s \in Slots : s # qt => qq'[s] = qq[s]
    BY <1>0 DEF Store
  <2> QED BY <2>1, <2>2
<1>6. qq'[(qh + qn) % QCAP] = arg[p]
  <2>1. qt \in Slots BY DEF Inductive, TypeOK, RingTypes
  <2> QED BY <1>0, <2>1 DEF Store
<1>7. \A u \in Tasks : Queued(u)' = Queued(u) \cup {i \in Slots : i = qn /\ u = arg[p]}
  <2>1. qn' = qn + 1 /\ qh' = qh BY DEF Store
  <2>2. \A i \in Slots : i < qn + 1 <=> i < qn \/ i = qn BY <1>0 DEF Slots
  <2>3. ~(qn < qn) BY <1>0 DEF Slots
  <2> QED BY <1>0, <1>5, <1>6, <2>1, <2>2, <2>3 DEF Queued, Slots
<1>8. PlacedTask(arg[p])'
  <2>1. Pushing(arg[p])' = Pushing(arg[p]) \ {p} /\ Running(arg[p])' = Running(arg[p])
        /\ Outstanding(arg[p])' = Outstanding(arg[p]) /\ Queued(arg[p])' = {qn}
    BY <1>0, <1>2, <1>3, <1>4, <1>7 DEF Store, locals
  <2> QED BY <1>0, <1>2, <2>1 DEF PlacedTask, InRing, Slots
<1>9. ASSUME NEW u \in Tasks, u # arg[p] PROVE PlacedTask(u)'
  <2>1. p \notin Pushing(u) BY <1>9 DEF Pushing
  <2>2. Pushing(u)' = Pushing(u) /\ Queued(u)' = Queued(u) /\ Running(u)' = Running(u)
        /\ Outstanding(u)' = Outstanding(u)
    BY <1>3, <1>4, <1>7, <1>9, <2>1
  <2> QED BY <2>2 DEF Delivery, Placed, PlacedTask, AtProducer, InRing, AtWorker, Nowhere
<1> QED BY <1>8, <1>9 DEF Placed, Store, locals
\* qpop moves the oldest task from its slot to the worker.
LEMMA TakePlaces ==
    ASSUME Inductive, Delivery, NEW p \in Threads, Take(p)
    PROVE  Placed'
<1>0. /\ QCAP \in Nat \ {0} /\ qn \in 1..QCAP /\ qh \in Slots /\ 0 \in Slots
      /\ task[p] \in Tasks /\ task[p] = qq[qh]
      /\ pc \in [Threads -> Labels] /\ pc[p] = "take"
  BY BoundsAssumption DEF Inductive, TypeOK, RingTypes, ThreadTypes, RingSound, InHand, Take, Slots
<1>1. running[p] = None /\ p \in Workers /\ ~Pushes(p)
  BY <1>0, BoundsAssumption DEF Delivery, Roles, Pushes, Main, Threads, Workers
<1>2. (qh + 0) % QCAP = qh
  BY <1>0, Wrap DEF Slots
<1>3. \A u \in Tasks : 0 \in Queued(u) <=> u = task[p]
  BY <1>0, <1>2 DEF Queued, Slots
<1>4. /\ Outstanding(task[p])
      /\ Pushing(task[p]) = {} /\ Queued(task[p]) = {0} /\ Running(task[p]) = {}
  BY <1>0, <1>3 DEF Delivery, Placed, PlacedTask, Nowhere, AtProducer, InRing, AtWorker
<1>5. \A u \in Tasks : Outstanding(u)' = Outstanding(u)
  BY DEF Outstanding, Take, data
<1>6. \A u \in Tasks : Pushing(u)' = Pushing(u)
  BY <1>0 DEF Pushing, Pushes, Take, locals, Goto
<1>7. \A u \in Tasks : Running(u)' = Running(u) \cup {q \in Workers : q = p /\ u = task[p]}
  BY <1>0, <1>1, BoundsAssumption DEF Running, Take, locals, Goto, Workers, Threads
<1>8. \A u \in Tasks : Queued(u)' = {i \in Slots : i + 1 \in Queued(u)}
  <2>1. ASSUME NEW i \in Slots, i < qn - 1
        PROVE  qq'[(qh' + i) % QCAP] = qq[(qh + (i + 1)) % QCAP] /\ i + 1 \in Slots /\ i + 1 < qn
    <3>1. (((qh + 1) % QCAP) + i) % QCAP = (qh + i + 1) % QCAP
      BY <1>0, <2>1, WrapStep DEF Slots
    <3>2. qh + i + 1 = qh + (i + 1) /\ i + 1 \in Slots /\ i + 1 < qn
      BY <1>0, <2>1 DEF Slots
    <3> QED BY <3>1, <3>2 DEF Take
  <2>2. \A i \in Slots : i + 1 < qn <=> i < qn - 1
    BY <1>0 DEF Slots
  <2>3. qn' = qn - 1 BY DEF Take
  <2> QED BY <1>0, <2>1, <2>2, <2>3 DEF Queued, Slots
<1>9. PlacedTask(task[p])'
  <2>1. Queued(task[p])' = {}
    <3>1. \A i \in Slots : i + 1 # 0 BY <1>0 DEF Slots
    <3> QED BY <1>0, <1>4, <1>8, <3>1 DEF Take, locals
  <2>2. /\ Pushing(task[p])' = {} /\ Outstanding(task[p])' /\ Running(task[p])' = {p}
    BY <1>0, <1>1, <1>4, <1>5, <1>6, <1>7 DEF Take, locals
  <2> QED BY <1>1, <2>1, <2>2 DEF PlacedTask, AtWorker
<1>10. ASSUME NEW u \in Tasks, u # task[p] PROVE PlacedTask(u)'
  <2>1. /\ Pushing(u)' = Pushing(u) /\ Running(u)' = Running(u)
        /\ Outstanding(u)' = Outstanding(u) /\ 0 \notin Queued(u)
    BY <1>3, <1>5, <1>6, <1>7, <1>10
  <2>2. Queued(u)' = {i \in Slots : i + 1 \in Queued(u)}
    BY <1>8
  <2>3. Queued(u) = {} => Queued(u)' = {}
    BY <2>2
  <2>4. ASSUME NEW i \in Slots, Queued(u) = {i} PROVE i - 1 \in Slots /\ Queued(u)' = {i - 1}
    <3>1. i # 0 BY <2>1, <2>4
    <3>2. i - 1 \in Slots /\ \A j \in Slots : j + 1 = i <=> j = i - 1
      BY <1>0, <3>1 DEF Slots
    <3> QED BY <2>2, <2>4, <3>2
  <2>5. PlacedTask(u) BY DEF Delivery, Placed
  <2>6. CASE InRing(u)
    BY <2>1, <2>4, <2>5, <2>6 DEF PlacedTask, InRing, Nowhere
  <2>7. CASE ~InRing(u)
    BY <2>1, <2>3, <2>5, <2>7 DEF PlacedTask, AtProducer, AtWorker, Nowhere
  <2> QED BY <2>6, <2>7
<1> QED BY <1>9, <1>10 DEF Placed, Take, locals

\* When its function has run, a task is in no place.
LEMMA FinishPlaces ==
    ASSUME Inductive, Delivery, NEW p \in Threads, Finish(p)
    PROVE  Placed'
<1>1. p \in Workers /\ running[p] # None
  BY BoundsAssumption DEF Finish, Main, Threads, Workers, Delivery, Roles, Pushes
<1>2. /\ task[p] \in Tasks /\ fn[task[p]] = running[p]
      /\ running[p] \in Merges /\ ran[running[p]] = 0
      /\ Pushing(task[p]) = {} /\ Queued(task[p]) = {} /\ Running(task[p]) = {p}
  BY <1>1, RunningHasTask
<1>3. /\ pc \in [Threads -> Labels] /\ running \in [Threads -> Merges \cup {None}]
      /\ ran \in [Merges -> Nat] /\ pc[p] = "code"
      /\ Workers \subseteq Threads /\ p # Main
  BY BoundsAssumption DEF Inductive, TypeOK, ThreadTypes, DataTypes, Finish, Workers, Threads
<1>4. \A u \in Tasks : Pushing(u)' = Pushing(u)
  BY <1>3 DEF Pushing, Pushes, Finish, Goto
<1>5. \A u \in Tasks : Queued(u)' = Queued(u)
  BY DEF Queued, Finish, ring
<1>6. \A u \in Tasks : Running(u)' = Running(u) \ {p}
  BY <1>3 DEF Running, Finish, Goto
<1>7. PlacedTask(task[p])'
  <2>1. ran'[running[p]] # 0
    <3>1. ran'[running[p]] = 0 + 1
      BY <1>2, <1>3 DEF Finish
    <3> QED BY <3>1
  <2>2. ~Outstanding(task[p])'
    BY <1>2, <2>1 DEF Outstanding, Finish
  <2>3. Nowhere(task[p])'
    BY <1>2, <1>4, <1>5, <1>6 DEF Nowhere, Finish
  <2> QED BY <2>2, <2>3 DEF PlacedTask
<1>8. ASSUME NEW u \in Tasks, u # task[p] PROVE PlacedTask(u)'
  <2>1. fn[u] # None => fn[u] # running[p]
    BY <1>2, <1>8 DEF Delivery, Numbered
  <2>2. Outstanding(u)' = Outstanding(u)
    BY <1>2, <1>3, <2>1 DEF Outstanding, Finish
  <2>3. p \notin Running(u)
    BY <1>8 DEF Running
  <2>4. Pushing(u)' = Pushing(u) /\ Queued(u)' = Queued(u) /\ Running(u)' = Running(u)
    BY <1>4, <1>5, <1>6, <2>3
  <2> QED BY <2>2, <2>4 DEF Delivery, Placed, PlacedTask, AtProducer, InRing, AtWorker, Nowhere
<1> QED BY <1>7, <1>8 DEF Placed, Finish

\* The steps of a thread preserve the invariant.
LEMMA StepKeepsDelivery ==
    ASSUME Idle, Inductive, Delivery, [Next]_vars
    PROVE  Delivery'
<1>1. Roles' /\ (Numbered /\ RunOnce /\ DoneMeansRun)'
  BY RolesKept, NumbersKept
<1>2. Placed'
  <2>1. ASSUME NEW p \in Threads, NEW t \in Tasks, Merge(p, t) PROVE Placed'
    BY <2>1, MergePlaces
  <2>2. ASSUME NEW p \in Threads, Store(p) PROVE Placed'
    BY <2>2, StorePlaces
  <2>3. ASSUME NEW p \in Threads, Take(p) PROVE Placed'
    BY <2>3, TakePlaces
  <2>4. ASSUME NEW p \in Threads, Finish(p) PROVE Placed'
    BY <2>4, FinishPlaces
  <2>5. CASE Unmoved
    BY <2>5, UnmovedPlaced DEF Delivery
  <2>6. ASSUME UNCHANGED vars PROVE Unmoved
    BY <2>6 DEF Unmoved, Pushing, Pushes, Running, vars
  <2> QED
    BY <2>1, <2>2, <2>3, <2>4, <2>5, <2>6, OthersMoveNothing DEF Next, Step
<1> QED BY <1>1, <1>2 DEF Delivery

\* The invariant holds throughout, in a program that merges into idle tasks.
THEOREM DeliveryInvariant == ASSUME Idle PROVE Spec => [](Inductive /\ Delivery)
<1>1. Init => Inductive /\ Delivery
  <2> SUFFICES ASSUME Init PROVE Inductive /\ Delivery OBVIOUS
  <2>1. Inductive BY InitSound
  <2> USE DEF Init, Main, None
  <2>2. Roles BY BoundsAssumption DEF Roles, Pushes, Threads
  <2>3. Numbered BY DEF Numbered, Workers, Threads
  <2>4. RunOnce /\ DoneMeansRun BY DEF RunOnce, DoneMeansRun
  <2>5. ASSUME NEW t \in Tasks PROVE ~Outstanding(t) /\ Nowhere(t)
    <3>1. Pushing(t) = {} BY <2>5, TasksAssumption DEF Pushing
    <3>2. Queued(t) = {} BY DEF Queued
    <3>3. Running(t) = {} BY <2>5, TasksAssumption DEF Running, Workers, Threads
    <3> QED BY <3>1, <3>2, <3>3 DEF Outstanding, Nowhere
  <2>6. Placed BY <2>5 DEF Placed, PlacedTask
  <2> QED BY <2>1, <2>2, <2>3, <2>4, <2>6 DEF Delivery
<1>2. Inductive /\ Delivery /\ [Next]_vars => (Inductive /\ Delivery)'
  BY StepKeepsInductive, StepKeepsDelivery
<1> QED BY <1>1, <1>2, PTL DEF Spec

\* The case says how many places a task is in.
LEMMA PlacedIsOnePlace == ASSUME Placed PROVE OnePlace
<1>1. Cardinality({}) = 0
  BY FS_EmptySet
<1>2. \A p : Cardinality({p}) = 1
  BY FS_Singleton
<1>3. ASSUME NEW t \in Tasks
      PROVE  Cardinality(Pushing(t)) + Cardinality(Queued(t)) + Cardinality(Running(t))
                 = (IF Outstanding(t) THEN 1 ELSE 0)
  <2>0. PlacedTask(t) BY DEF Placed
  <2>1. CASE AtProducer(t) /\ Outstanding(t)
    <3>1. /\ Cardinality(Pushing(t)) = 1 /\ Cardinality(Queued(t)) = 0
          /\ Cardinality(Running(t)) = 0
      BY <1>1, <1>2, <2>1 DEF AtProducer
    <3> QED BY <2>1, <3>1
  <2>2. CASE InRing(t) /\ Outstanding(t)
    <3>1. /\ Cardinality(Pushing(t)) = 0 /\ Cardinality(Queued(t)) = 1
          /\ Cardinality(Running(t)) = 0
      BY <1>1, <1>2, <2>2 DEF InRing
    <3> QED BY <2>2, <3>1
  <2>3. CASE AtWorker(t) /\ Outstanding(t)
    <3>1. /\ Cardinality(Pushing(t)) = 0 /\ Cardinality(Queued(t)) = 0
          /\ Cardinality(Running(t)) = 1
      BY <1>1, <1>2, <2>3 DEF AtWorker
    <3> QED BY <2>3, <3>1
  <2>4. CASE Nowhere(t) /\ ~Outstanding(t)
    <3>1. /\ Cardinality(Pushing(t)) = 0 /\ Cardinality(Queued(t)) = 0
          /\ Cardinality(Running(t)) = 0
      BY <1>1, <2>4 DEF Nowhere
    <3> QED BY <2>4, <3>1
  <2> QED BY <2>0, <2>1, <2>2, <2>3, <2>4 DEF PlacedTask
<1> QED BY <1>3 DEF OnePlace

\* A merged task is with its producer, in the ring or with one worker until its
\* function has run, and nowhere afterwards: no order in which the threads take
\* the lock drops a task or gives it to two workers (qpush, qpop, qworker).
THEOREM TasksAreDelivered == ASSUME Idle PROVE Spec => []OnePlace
<1>1. Inductive /\ Delivery => OnePlace
  BY PlacedIsOnePlace DEF Delivery
<1> QED BY <1>1, DeliveryInvariant, PTL

\* No function is run twice for one ql_merge (qworker).
THEOREM RunsOnce == ASSUME Idle PROVE Spec => []RunOnce
<1>1. Inductive /\ Delivery => RunOnce
  BY DEF Delivery
<1> QED BY <1>1, DeliveryInvariant, PTL

\* done is set exactly while the function of the latest ql_merge has ended, so
\* ql_block does not return for an earlier one (ql_merge, ql_block, qworker).
THEOREM BlockWaitsForLatest == ASSUME Idle PROVE Spec => []DoneMeansRun
<1>1. Inductive /\ Delivery => DoneMeansRun
  BY DEF Delivery
<1> QED BY <1>1, DeliveryInvariant, PTL
=============================================================================
