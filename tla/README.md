# QuarkLang, specified in TLA+

This directory specifies QuarkLang: the interpreter (Go, `internal/lang/`), from
the text of a program to its outcome, with the parts of it whose correctness depends
on the order of things; the code generator of the compiler `qkc` (`compiler/internal/cgen/`);
and the task runtime that `qkc` links into compiled programs (C, `compiler/qthreads.c.txt`).
Every definition is read off the source; `PROJECT.json` gives, for each one, the
lines it stands for (`map`), the TLC runs (`runs`), for each property a change
of the model under which it fails (`mutants`), what was found to disagree with a
comment or a document (`findings`), what is easy to get wrong in the code
(`hazards`), and the theorems (`theorems`).

    tlc -workers 2 -config CtxPool.cfg CtxPool     model-check one run
    tlapm TaskmProofs.tla                          check the proofs of one module

## 1. The system

A program is read by the lexer and parser, rewritten by the macro expander,
checked by the type checker, and then either interpreted or compiled to LLVM IR.

| component | state it keeps | operations | what is hard |
|---|---|---|---|
| Task manager, `eval.go` | `tasks`, `nextPid`, and in each Task `Pid`, `Busy`, `doneCh`, `err`; `taskMu` | `spawn`, `merge`, `block`, `done`, the goroutine of a merged function | goroutines between two critical sections; channels replaced while somebody waits on them |
| Memory manager, `eval.go` | table of blocks, heap of pointers ordered by `Used`, `nextID`; `mu` | `Alloc`, `Delete`, `ReclaimTask`, `Compact`, `Clear`, `setBlock` | keys that change inside the heap, several entries of one block, entries dropped while blocks live |
| Its users | `List.blockID`, `Task.BlockID`, the block of a merged function | `new`, `delete`, `spawn`, `merge`, end of a function | blocks shared by lists; two calls of the manager in one statement |
| Execution contexts, `value.go` | free list from `ctxHead` through `link`; `depth` | `newCtx`, `putCtx`, used by `callFunc` and `runOnThread` | lock-free compare-and-swap by several goroutines; fields left from the last use |
| Task runtime of compiled programs, POSIX | ring `qq`, `qh`, `qt`, `qn`, spin lock, condition variable, `done` of each task | `ql_merge`, `ql_block`, `qpush`, `qpop`, the workers | a bounded buffer, missed signals, a flag that is polled |
| The same, Windows | in each channel `buf`, `head`, `cnt`, a lock and a condition variable; `fn`, `arg`, `done` of each task | `ql_send`, `ql_recv`, `ql_merge`, `ql_block`, a thread for each merge | senders and receivers asleep on one condition variable; a task written again while its threads read it |
| Channels, `value.go` | a Go channel; the lists passed along | `taskm.channel`, `send`, `recv` | blocking sends next to `block`; lists that several goroutines append to |
| Statements and control flow, `eval.go` | signals for return, break and error in the context | `execStmt`, `execBlock`, loops, `try` | a signal that must stop at the right construct |
| Expressions, `eval.go` | none of their own | `evalExpr`, `evalCall`, `sum`, operators | 32-bit wrap-around; closed forms of `sum` against the plain loop |
| Scopes and slots, `eval.go` | variables, slots, outer scopes | `declare`, `get`, `set` | two representations of one variable |
| Lists, tables, streams, `value.go` | `head` and `tail` of a List; a lock of a stream | `append`, `next`, `readln` | a window over a shared array |
| Memorize buffers, `eval.go` | results by key | a call through a memorized prefix | one table used by several goroutines |
| Lexer and parser | a position | recursive descent | unbounded text |
| Macro expansion, `macro.go` | macro table, depth | `#macro`, `#when`, expansion | ends, and within its limits |
| Type checker, `typecheck.go` | scopes of types | a pass over the tree | agreement with what the interpreter does: every method is described twice, every overload chosen twice |
| Code generator, `cgen.go` | IR text, labels, registers | a pass over the tree | agreement with the interpreter on control flow |
| Compiler driver, `compiler/main.go` | cache of IR and of binaries | compile, link, run | several compilers and one cache directory |
| Libraries and FFI | loaded libraries | import, native calls | native code |
| Debugger, `debug.go` | breakpoints, `stepping`, the current scope | break, step | state shared by all goroutines |
| Screen, command line | none | output, start | - |

How they interact.  The evaluator calls all the others.  `callFunc` takes a
context from the free list for each call and gives it back; `runOnThread` takes
one for the merged function, and the function's goroutine runs the same
evaluator, hence the same free list and the same memory manager, concurrently
with its parent.  `spawn` and `merge` allocate a block each; the end of a merged
function calls `ReclaimTask` and then frees the thread.  `new` and `delete` call
`Alloc` and `Delete`, `GlobalMemory` the rest.  Three mutual exclusions exist
in the interpreter: `taskMu` (table of tasks and `Busy`), the manager's `mu`
(each operation is atomic) and the compare-and-swap on `ctxHead`.  A compiled
program uses none of this: its tasks are run by a pool of workers (POSIX) or by a thread for
each merge (Windows), and only the Windows runtime has channels.

What makes each component correct:

- *Tasks*: one function at a time on a thread; `done` answers true only for an
  idle thread; `block` waits for the function it found, returns once that
  function is over and hands out its error; closing never panics.
- *Memory*: a block is handed out only while it is in the table; a freed block
  can be handed out again; a block in use is not dropped; no block remains
  occupied for nobody; the end of a merged function frees its block and no other.
- *Contexts*: a context belongs to one active call; none on the free list is in
  use; `depth` measures the recursion.
- *Compiled tasks*: the ring is a queue; every merged function is run, once;
  `done` is about the latest merge; a channel is a queue, and nobody who could go on sleeps.
- *Others*: signals end exactly the constructs they should; the closed forms of
  `sum` equal the sum; what is visible of a list exists; expansion ends; the two back ends
  agree.

## 2. What is modelled

| module | of | extends |
|---|---|---|
| `Syntax` | the syntax trees of `ast.go` | |
| `Types`, `Signatures`, `Typecheck` | the type checker | each the one before, `Types` extends `Syntax` |
| `Runtime` | which calls of the provided methods and functions the interpreter accepts | |
| `Arithmetic` | ints of `Word` bits | `Syntax` |
| `Sums` | the builtin `sum` | `Arithmetic` |
| `SumsProofs` | theorems | `Sums` |
| `Evaluator` | the interpreter | `Typecheck`, `Runtime`, `Sums` |
| `Lexer`, `Macros`, `Parser` | the way from text to trees | each the one before |
| `Writer` | an author: from trees to text (environment) | `Lexer`, `Syntax` |
| `CompilerParser` | the compiler's own parser | `Macros`, `Syntax` |
| `Codegen` | the code generator, from its trees to LLVM IR | `CompilerParser`, `Arithmetic` |
| `Machine` | LLVM and the processor that run its code (external) | `Codegen` |
| `Language` | what becomes of a program: read, checked, interpreted, compiled | `Evaluator`, `Parser`, `Writer` |
| `MCLanguage` | the programs to try | `Language`, an instance of `Machine` |
| `Channels` | channels between goroutines, and the lists that they and merge make them share | |
| `Taskm` | the task manager, step by step | |
| `ThreadPromise` | what `taskm` promises, without locks or channels | |
| `MCTaskm` | the refinement from `Taskm` to `ThreadPromise`, for TLC | `Taskm` |
| `TaskmProofs` | theorems, the last four, refinement included, for threads merged into once | `MCTaskm` |
| `BlockPool` | the memory manager without its heap | |
| `MemoryManager` | the manager with the heap array, implements `BlockPool` | |
| `MemoryClients` | lists and threads on top of the manager | `BlockPool` |
| `BlockPoolProofs` | theorems | `BlockPool` |
| `MemoryManagerProofs` | theorems, with the refinement | `MemoryManager`, an instance of `BlockPoolProofs` |
| `MemoryClientsProofs` | theorems | `MemoryClients`, `BlockPoolProofs` |
| `CtxPool` | the free list of contexts with its callers | |
| `CtxPoolProofs` | theorems | `CtxPool` |
| `QThreads` | the task runtime, POSIX branch | |
| `TaskQueue` | a bounded first-in first-out queue, which the rings of both branches implement | |
| `MCQThreads` | the symmetry of tasks, for TLC | `QThreads` |
| `QThreadsProofs` | theorems, the last three for programs that merge into idle tasks | `QThreads` |
| `WinThreads` | the task runtime and its channels, Windows branch | |
| `WinThreadsProofs` | theorems | `WinThreads` |

### The language

A program without goroutines is deterministic, so its phases are operators and not
actions: `Read` (text to tree), `Accepts` (the checker's verdict) and `Run` (the
outcome).  `Language` applies them one after the other, as `compileSlow` and
`runWithInterp` do, to each program of `Families` in each way `Writer` writes it; `Build` then
compiles those of `Native` and runs them.  They are
parameters of it (`Reading`, `Accepting`, `Running`, `Compiling`) that `Language.cfg` sets, and its
properties are about steps: what was known before a phase, what the phase made of it.  The one
choice left is the order in which a Go map yields the impls (`Orders`).

**Syntax.**  A node of `ast.go` is a record with a field `k` for its Go type.  Types,
which the code keeps as text, are terms with the same parts.  Positions are left out.

**Lexer, Macros, Parser.**  Text is a sequence of *pieces*: whole words, numbers, quoted
strings, and single punctuation marks, blanks and line ends.  Which letters make a
word is left out; which marks join into one token (`>` `=` in `List<int>=`), and where
a comment begins and ends, is not.  `AfterMacros` splits off the `#macro` definitions and
expands the rest, with `#when`, `#insert`, `#ast`, `#execute`, `#error`, `#return` and the limit on depth.  `JoinTokens`
is the text that the compiler gets back.  An operator of `Parser` yields a tree and the
position behind it, or `Wrong`, as the code's recursive descent does; `ParseProgram` is
`parseProgram`'s loop over the declarations.  `Writer` puts parentheses only where the levels of the
operators need them, and uses the forms that the parser knows, which are not always those of `SYNTAX.md`
(section 5).  Imports are names: the files they stand for
are not read.

**Types, Signatures, Typecheck.**  `Assignable`, `Join` and `SubstType` (annotation to
type) are in `Types`.  `Signatures` is a table of what `methodType` and `inferCall` know of each
method and builtin.  `Typecheck` walks declarations, statements and expressions with a
chain of scopes, where, as in the code, a block has no scope of its own.  An error
makes the scope chain `Rejected` or the type `Bad`; its message is left out.

**Runtime, Evaluator.**  The interpreter's account of the same methods is the table in
`Runtime`: that there are two accounts is what `AcceptedRuns` is about.  `Evaluator` maps a
program and a state to an outcome.  The state has a heap (lists, tables, structs,
memorize buffers and Copyd values are references, and aliasing matters), the scopes of
the function that runs, the result register, the depth and the lines printed.
Signals are outcomes whose `err` is `"return"` or `"break"`, as `errReturn` and `errLoopBreak` are
errors in the code.  Slots and named variables are one map; the parameters a `declare`
must not overwrite are kept apart.  Ints have `Word` bits and wrap.  Floats are counted in
halves, so that a product of two floats is rounded.  A String method yields a sample
String, `rand` a number, and a call into a library nil: only its kind matters.

**Sums.**  `SumOf` has the three ways of `sum`: the closed form if three terms and the last one are in
progression, the count of bits if a period is found, and the loop (`Looped`).  A generator is two functions, the
number and the error that a call yields, because the code treats an error differently in each
place: the calls that look for a progression ignore it, a call that looks for a period gives up, and
the loop returns it.

**CompilerParser, Codegen.**  The compiler does not use the parser above.  `CompilerParser` is
its recursive descent, which reads the text without tokens: an operator for each level or
construct, `Wrong` for its errors.  `Source` is the driver's macro expansion, which falls back to the
text as it stands.  `Codegen` takes a tree to a list of instructions as `emitter` does, in one
pass with the same record of what it knows (`vars`, `assigned`, `funcReturned` as `ret`, `curTry`, the struct
variables that outlive their function), numbering registers and blocks in the same order.
Instructions that only belong together (a `sext`, `mul` and `bitcast` for one `realloc`) count as one.
`ConstEval` folds, `ScanAssigned` finds the variables that need memory,
`NoRecurse` and `MemoryNone` are the attributes the analysis of functions arrives at.

**Machine.**  What the emitted code relies on, so that its meaning can be compared with the
interpreter's.  `Valid` is the part of LLVM's verifier that this code could fail: blocks end
where they must, each register is computed on every way to its uses, types and calls fit.
`Step` executes an instruction.  It has an outcome only where LLVM, C and the processor give
one: memory that was never written, freed or is out of bounds, a division by zero, an excessive
shift, a recursive call of a function declared `norecurse`, and printing in one declared
`memory(none)` are *undefined*, and an undefined outcome agrees with nothing.

**Channels.**  `taskm.channel`, `send`, `recv` and `append` are the repository's; how a Go
channel of a given size works, with the queues of goroutines that wait on it, is external.  A list is passed by reference: merge, send and recv give it to another goroutine, and
the giver keeps it.  `append` is three steps, as `l.items = append(l.items, v)` reads and then writes the
length and `l.tail++` reads and writes the tail, without a lock.

### The runtime

**Taskm.**  Goroutine 0 runs `main`, goroutine r the function of the r-th
successful merge.  Each action is one critical section or one access outside
`taskMu`: `Spawn` and `SpawnPid` (`registerTask`, then `t.Pid = pid` without the
lock), `Merge` (the locked part of `runOnThread`) and `Go` (the rest), `Block`,
`Wake`, `BlockReturn` (capture under the lock, receive, `t.err` without it), and
the goroutine's tail `Finish`, `Reclaim`, `Release`, `LoadDoneCh`, `Close`.
`close(t.doneCh)` is two steps, because the operand is read before close runs,
and both come after `Busy` is cleared.  `ThreadValue.merge` and `.block` do the
same as `taskm`'s.  A merge on a busy thread, and a call with a bad argument,
return an error and change nothing, so they have no action; neither has `done`,
which only reads `Busy`.  The process ends when `main` returns or when a channel
is closed twice (`Stopped`).  Channels are named by the merge that made them.
A function may fail or not: `Finish` chooses.

**BlockPool, MemoryManager.**  Each operation runs under `mu` and is one action.
`BlockPool` keeps only *which* blocks have a heap entry and lets `Alloc` choose;
`MemoryManager` has the array with `container/heap`'s up and down, on the keys as
they are at the moment, duplicates included.  A loop of the code is a sequence of
rounds applied to its local state one after the other (`Through`), and a round that finds
the loop over leaves the state alone.  `Alloc` pops entries that have no
room and drops them.  A fresh block has the current `BlockSize`, even for a
larger request.  `Dirty` is set on every block that is made and never cleared,
`Reclaimable` is never set: both are left out, as are the counters.

**MemoryClients.**  A list is not yet made, held, being deleted, or deleted.  A
list without a block (a literal) is given one by `delete` and then freed, in two
calls of the manager, so other threads can come between (`DeletePlain`,
`FreePlain`).  Threads take a block without an owner at `spawn` and one owned by
their pid at each merge, which overwrites `BlockID`: `first` remembers the block of the spawn, for the
properties only.  A program may delete a list twice, or while others are in its block, and make lists of size 0,
unless it is `careful`, which a behaviour is from the start or not at all.  The type of a held list and its items are left out.

**CtxPool.**  Every load, read of `link`, compare-and-swap and write of `link` is
an action.  A context is a number; allocation gives the next one (Go's garbage
collector cannot reuse the memory of one that is still referred to, as a stale
head is).  The arguments, slots and result that a context carries are left out:
what matters is who holds it.

**QThreads.**  Every access of the ring between `qlock` and `qunlock` is a step of
its own, so that mutual exclusion is a consequence of the lock and not built in.
Waiting is entered without another test and may end without a signal; a signal
wakes one sleeper, producer or worker.  A function and its argument are the
number of the merge that stored them.  `Nested` lets task functions merge and
block; `Idle` restricts the program to merging into tasks that are done, which
the interpreter enforces and this runtime does not.  The spin lock's exchange
and the polled `done` are taken as sequentially consistent.

**WinThreads.**  `ql_send` and `ql_recv` as written: the lock, the test in a loop around
`SleepConditionVariableSRW` (which gives the lock back and sleeps in one step, may end without a wake, and
takes the lock again), the access of the ring, `WakeAllConditionVariable`, the release.  Every access of `cnt` and
`head` is a step, so that exclusion follows from the lock.  One channel stands for all, as they share nothing.
`ql_merge` writes the task and then creates a thread (`Create`); that thread reads the task (`Call`), runs the
function, and sets `done` (`Report`).  `Idle` is as in `QThreads`.

## 3. The runs

| run | instance | shows |
|---|---|---|
| `Language` | 13737 programs and ways of writing them, in fourteen families; ints of 4 bits, depth 3 | `ReadsAsMeant`, `AcceptedRuns`, `ResultHasType`, `OverloadsAgree`, `MemorizeTransparent`, `SumsAddUp`, `BackEndsAgree` |
| `Channels` | main and one merged function, a channel of size 1, two appends to one list | violates `VisibleExist` |
| `Taskm_concurrent` | 2 threads, 3 merges, any of them into either thread, merged functions call `taskm` too | `TypeOK`, `OneRunPerThread`, `DoneMeansIdle` |
| `Taskm_once` | 3 threads, 3 merges, one for each thread, with fairness; deadlock checked | `BlockWaits`, `BlockReturns`, `ErrorDelivered`, and `KeepsPromise`: refinement of `ThreadPromise` with its liveness |
| `Taskm_panic` | 2 merges into one thread | violates `NoDoubleClose` |
| `MemoryManager` | 3 blocks of size 3, requests 1, 2 and 4, at most 5 heap entries | `TypeOK`, `ImplementsPool` |
| `MemoryClients` | 2 lists, 2 threads, 4 blocks of size 3, requests 0, 1 and 3, careful programs and others | `TypeOK`, `NoDangling`, `IdleQueued`, `ClientTypeOK`, `OnlySpawnsLeak`, `OwnersRun`, `TaskBlockOwn`, `HeldBlocksLive`, `ReclaimedAtEnd` |
| `CtxPool` | main and one merged function, depth 2, 5 contexts | `TypeOK`, `NoSharing`, `FreeIsIdle`, `DepthCountsCalls` |
| `CtxPool_share` | two merged functions, depth 1 | violates `NoSharing` |
| `QThreads` | 3 tasks, 2 workers, ring of 2, 4 merges, nested | `TypeOK`, `RingSound`, `OnePlace`, `RunOnce`, `DoneMeansRun`, `FirstInFirstOut` |
| `QThreads_lost` | 1 task, 2 workers, 1 merge, with fairness | violates `EveryMergeRuns` |
| `WinThreads` | main and 2 merged functions, a channel of 2, 2 values, 2 tasks | `TypeOK`, `RingSound`, `NobodyOverslept`, `DoneMeansRun`, `FirstInFirstOut` |

Bounds and why they are enough.

- `Families`: the checker and the interpreter treat an operator, a method or a
  function by the kinds of its operands, so one value of each kind and all operators,
  methods and functions with up to three arguments are all the cases there are
  (`Operators`, `MethodCalls`, `FunctionCalls`, `StaticCalls`); all pairs of definitions with
  one or two parameters of three kinds, called in every way (`Overloaded`); structs with
  one or two impls and interfaces (`Objects`); each simple statement in each construct
  in each construct, which is where a signal can be taken for another one's (`Flow`);
  pure, recursive and failing functions through a memorize buffer (`Remembered`);
  constant, linear, periodic, failing and other generators of `sum`
  (`Sums`); and one program for each other part of the grammar (`Features`).
  `Objects` and `Features` are also written with comments and with macros (`Styled`).
- `Native`: the families that are compiled too.  Each statement in each construct in each construct
  again, with a list, a text and an int that the statements change and `main` prints
  (`NativeFlow`); arithmetic three operators deep and conditions, over a variable in memory, one in a
  register, and numbers that fold (`NativeExpressions`); functions with a loop, recursion, early
  returns, a list or a `try`, in calls within calls and in `sum` (`NativeFunctions`); lists that grow,
  structs and their methods (`NativeData`).  They stay within the part of the language that section 5 says
  the compiler has.  `Machine` follows a program for 2^10 steps (`Doublings`); none needs as many.
- `Word` is 4: two digits of a literal and a sum of seven terms already wrap.  `MaxDepth`
  is 3: recursion of `Remembered` goes beyond it for some arguments and stays below for others.
- `Unchecked` in `MCLanguage` leaves out the calls of section 5 that the checker accepts although the
  interpreter refuses them; all others are in.
- `Sums` tries linear functions and remainders from 0, 1 and 2 with steps 1 to 3, over up to seven terms: ranges are empty,
  shorter than a period, longer, and end inside a step, and products and sums leave the ints.
- `Sizes` {0, 1} asks for a channel that the code must refuse and one that it makes.
- `Cap`: a channel of 2 fills, runs empty and wraps, and with three threads two senders, or two receivers, are asleep at
  once, of which a single wake would leave one.  Two merges into one task, or into two, both happen.
- `MaxThreads`, `MaxRuns` and `MergesPerThread` bound merges: a race about one
  thread needs two merges into it and a third goroutine that blocks; three
  merges with nested functions give that, and the invariants of that run are
  also proved for every bound.
- `MaxBlocks`: three blocks let one be full, one partly and one empty; with four,
  both threads and both lists have their own.  `MaxHeap` cuts histories that
  push the same block again and again; five entries for three blocks include
  duplicates at the root, inside and at the end.  In `MemoryManager` the request
  of 4 is larger than a block.  In `MemoryClients`, requests of 0 and 1 share blocks and take them over, those of 3 fill them.
- `MaxCtx` and `MaxDepth`: sharing takes a pop, two nested pops, and a push in
  between; depth 2 with five contexts leaves room for one more on each side.
  With only one merged function no bound shows a violation because each
  goroutine gives contexts back in the reverse order of taking them, so the
  successor of a context that is free again is free too; a third goroutine breaks that.
- `MaxMerges` is 4 on a ring of 2 with 3 tasks: the indices wrap, a producer
  finds the ring full, and one task is merged into again.  Tasks are
  interchangeable, so `MCQThreads` declares their symmetry; the run has no
  liveness property.

Deadlock is not checked in `Language`, which ends with its program, nor in `Channels`,
where `main` and a function may wait for each other.  It is checked in `Taskm_once` and in `MemoryClients`.
It is not checked in `Taskm_concurrent` (functions may block on each other, and a
second merge may leave a channel unclosed), nor where the bounds of the instance
stop every action (`MemoryManager`, `CtxPool`), nor in `QThreads` (task functions
may wait for each other, or for a task never merged), nor in `WinThreads` (all threads may wait for a partner).

Fairness.  In `Taskm`, weak fairness of what goes on by itself: the Go scheduler
runs each goroutine that can run, and a merged function ends, which is the one
assumption about the program.  Nothing makes a program call `taskm` or makes
`main` return.  In `QThreads`, weak fairness of each thread's own steps and of
the return of task functions, and strong fairness of taking the spin lock, since
a thread that spins finds it free again and again; pthreads do not promise this
last one, so it makes `QThreads_lost` all the stronger: the task is lost even
with a fair lock.  No spurious wake-up is assumed to come.  The other models make
no fairness assumption and have no liveness properties.

Mutants.  For each property of a passing run there is a variant of one action, as
a plausible slip would have it (a test left out, a field not set, an index that
does not wrap), defined before the action it replaces and marked *Mutant*.
With it the run finds the property violated.

## 4. What is proved

All theorems hold for every value of the constants under the named assumptions
of the modules (numbers are naturals, sets do not contain the null values).

- `TaskmProofs`: `TypeCorrect`, `MutualExclusion` (a thread runs one function at a
  time) and `DoneIsAccurate`.  `OneRunPerThread` is not inductive: nothing in it says
  that the thread a run holds is marked busy.  The inductive invariant `IInv`
  adds that (`HolderBusy`), that merges number the runs in order (`Numbered`), that
  a merging goroutine has reserved a run nobody else starts (`Reserved`), and that
  only the goroutine of a run executes the tail of the literal (`TailOfRun`).
  Under `MergedOnce` (no thread is merged into twice, as in the run
  `Taskm_once`, but with nested calls of `taskm` too) also `BlockWaitsForItsRun`, `ProcessSurvives`,
  `ErrorsAreDelivered`, and `ThreadsKeepPromise`, the safety part of the refinement of
  `ThreadPromise`.  `close(t.doneCh)` reads the field without the lock; what makes it the run's
  own channel is that `on`, `doneCh` and `ch` agree on which run is which (`OneEach`, `OwnChannel`,
  `ClosedAtEnd`), and that `err` still holds the outcome of the run a block waited for
  (`Waiters`, `Outcome`).  Without `MergedOnce` section 5 has a counterexample.
- `BlockPoolProofs`: `TypeCorrect`, `HeapRefersToLiveBlocks`, and, if no request
  exceeds a block (`SmallRequests`), `DeletedBlocksReusable`; the last rests on
  a block without room for such a request not being empty.  The lemmas about
  `Alloc` and emptying hold for any request, so that other modules can cite them.
- `MemoryManagerProofs`: `TypeCorrect` and `HeapImplementsPool`, the refinement of `BlockPool`, where
  what is queued is the set of entries in the array.  The heap is not ordered, as keys change
  inside it, and no lemma supposes that it is: what counts is that `up` and `down` swap entries without losing
  or inventing one (`Heaps`), that `Alloc` drops only entries without room, and that
  `ReclaimTask` and `Clear` queue just the blocks they empty or keep.  Each loop has an invariant, a set of local states
  that every round keeps (`ThroughInvariant`, by induction on the number of rounds).  With
  the refinement the pool's theorems hold of the array too: `HeapHoldsLiveBlocks` and `DeletedBlocksAreFound`.
- `MemoryClientsProofs`.  For every program, also one that deletes a list twice or under others: `ClientsTyped`,
  `PoolStaysSound`, `OnlySpawnBlocksLeak`, `OwnersAreRunning`, and, if every
  request fits into an empty block (`AllFit`), `FreedBlocksReusable`.  That nothing else leaks is not obvious where users
  share blocks, for a delete empties the block under the others, and an owner may have ended.  The
  invariant `LastOwner` says that whoever allocated last in a used block still uses it or was a spawn: `Alloc` in the
  block of another takes its ownership over, and who gives a block back empties it.  `FirstIsSpawn` tells which
  spawns have lost their block.
  For the careful programs among them, if the block size does not change (`OneBlockSize`):
  `HeldListsKeepTheirBlocks`, `TaskBlocksExclusive` and `MergedBlocksReclaimed`.  Lists of any size above 0 share
  blocks in them, threads and lists come and go in any order, and `compact` and `clear` run at any moment.
  Each condition is needed: a list of size 0 takes a full block over from the function
  that runs in it; with two block sizes, a block larger than the present size has room beside a function's part; and without
  care a delete empties the block under others (section 5).
  The invariant `CInv` says that a list's block is in use and unowned (`ListsStay`), that the block of a delete in two calls has nobody
  else in it (`DoomedAlone`), and that those of threads are full (`SpawnTakes`, `RunTakes`): who asks
  for more than nothing finds no room in a full block, so sharing happens among lists only.
- `QThreadsProofs`: `TypeCorrect`, `RingIsSound` and `RingIsQueue`, the last being the
  refinement of `TaskQueue`: each step of the runtime appends one task at the end
  of the queue, removes the first, or leaves it alone.  `RingSound` is not
  inductive: it needs mutual exclusion (`OneInside`), that occupied slots hold
  tasks (`Filled`) and that a thread inside `qpush` or `qpop` has one in hand (`InHand`).
  The lemmas `Wrap...` are the arithmetic of indices modulo the capacity.
  Under `Idle` (a task is merged into only when it is idle) also
  `TasksAreDelivered`, `RunsOnce` and `BlockWaitsForLatest`.  `OnePlace` counts places, and a count
  cannot be followed through a step; the invariant `Placed` names the place instead (`AtProducer`,
  `InRing`, `AtWorker`, `Nowhere`), which `Merge`, `Store`, `Take` and `Finish` change
  and no other action does (`OthersMoveNothing`).  It needs to know which threads are in
  `qpush` and which in `qpop` (`Roles`) and that a merge belongs to one task (`Numbered`).
- `CtxPoolProofs`: `TypeCorrect`: contexts in use were allocated, and a goroutine has one from its
  start to its end.  With one merged function at most (`Alone`) also `CallsShareNoContext`,
  `FreeContextsAreIdle` and `DepthIsAccurate`.  The swap in `newCtx` compares the head only, so the proof must show that
  the successor read before it is still good when the head is back.  The
  other goroutine may have taken the head and given it back in between, and, since calls nest, it first
  gives back what it took afterwards.  So as long as the old head is in a call, its old successor is the
  head or in the next call; and once the old head is on the list again, the old successor is linked
  behind it again or has dropped out of the list and of every call, so that putting it back does no harm (`Tied`, `Lost`).  The
  inductive invariant `SInv` says this next to what describes the list (`Listed`: spare contexts, no two before
  the same one) and the calls (`Owned`: nothing twice).  `Alone` is necessary: with three goroutines one can
  keep the old successor while another gives the old head back (`CtxPool_share`).
- `WinThreadsProofs`: `TypeCorrect`, `RingIsSound`, `NobodySleepsOver` and `ChannelIsQueue`, the refinement of `TaskQueue`.
  The inductive invariant adds to the three properties that one thread at a time is inside the lock (`OneInside`), and
  what a thread holds in each place (`InHand`).  What makes `NobodyOverslept` inductive is that whoever changes `cnt`
  wakes everybody before it releases the lock, and that falling asleep releases it in the same step as the
  test's outcome is known.  The algebra of a ring's contents is that of `QThreadsProofs`, with a count instead of a tail.
  Under `Idle` also `BlockWaitsForLatest`: from the ql_merge to `done = 1` one thread has the task
  (`OneHolder`) and it runs the function of the latest merge (`HolderRuns`).
- `SumsProofs`: `LinearSumsExact` and `RemainderSumsExact`: for the generators `a*i + c` with any ints and `i % m` from a
  start that is not negative, for any stop and any step above 0, `sum` gives what its loop gives.  `Looped` counts the rounds
  of the loop itself, so the closed form's number of terms is part of what is proved.  The loop wraps each term and the closed form
  only the result, so numbers are compared modulo 2^Word (`Same`, a congruence), and
  both sums are followed by induction on the number of terms (`ProgressionSum`, `PeriodicSum`).  `Keeps` is what
  a generator has to satisfy: when the code finds a progression, the terms are congruent to it, and when
  the first pair of terms comes again, the terms have that period.  A linear function that overflows
  satisfies it because its terms are congruent to a progression.  Of remainders, three terms may be in progression by
  chance; the last term then tells, as a remainder cannot leave 0 to m - 1.
  For a negative start, and for quotients, this fails (section 5).  `SumsAddUp` compares whole programs with a sum term by term.  The code adds in 64 bits, where the model's
  sums are unbounded; a sum of products of more than 64 bits is outside the model.

Only model-checked: all liveness (`BlockReturns`, the fairness part of
`KeepsPromise`), which is outside the prover's reach; and all of `Language`,
`BackEndsAgree` included, whose phases are recursive operators on trees.

## 5. Where the code and its documents disagree

Four disagreements have a run that reproduces them, and are listed under `findings`.

1. *Closing the wrong channel* (`eval.go:2718`, `Taskm_panic`).  Between clearing
   `Busy` and reading `t.doneCh` another merge may install its own channel.  Then
   two goroutines close the second channel and the process panics.  In the same
   window a `block` on the second function returns too early, and one on the
   first never returns: `BlockWaits` and `BlockReturns` fail too when
   `MergesPerThread` is 2.
2. *Shared contexts* (`value.go:513`, `CtxPool_share`).  The head may return to the
   same context with another successor between the read of `link` and the swap.
3. *Lost signal* (`qthreads.c.txt:97`, `QThreads_lost`).  `qpop` does not test the
   ring again before it waits.
4. *Lost append* (`value.go:314`, `Channels`).  Lists passed to a merged function or sent over a channel
   are shared, and `Append` has no lock.

Others, met while modelling, have no run of their own.

Memory.  The first merge overwrites the thread's reference to the
block of its spawn, which nobody owns (`eval.go:2705`); nothing ever frees it, although the comment at line 2703 calls the
thread's block reclaimable after its end.  `OnlySpawnsLeak` says that no other block is lost.
`Delete` empties the block of a list, whoever else has room in it (`eval.go:270`), and the next `clear` or `compact`, which
keeps blocks in use by the comment at line 276, drops it: two lists of size 1 in one block suffice, if one is deleted.
`new T[0]` fits into a full block and takes over its owner.  `Alloc` drops heap
entries of blocks that have room for smaller requests, so that `minHeap` does not find them.
`Delete` and `ReclaimTask` set `Used` of a block that is in the heap already and push it again without
`heap.Fix` (`eval.go:221`, `eval.go:272`): `up` stops at the block's own earlier entry, and the front is no
longer the least occupied block, which the comment at `eval.go:144` promises `Alloc` to take.
Three blocks suffice: entries 1, 2, 3 with 1, 4 and 1 used; after `Delete(2)` the front is 1 although 2 is empty.

Tasks and contexts.  `runOnThread` takes a pooled context and leaves its `depth` as the last call in it had it
(`eval.go:2706`): once `main` has called a function, a merged one begins at depth 1, and comes to the limit too early.  `DepthCountsCalls`
counts from where a goroutine begins.  In the compiled runtime, `qpop` signals nobody when it makes room (`qthreads.c.txt:92`), so that
a producer that waits before a full ring may sleep for ever without any race: the only worker empties the ring and goes to
sleep too.  A merge into a task still queued (`Idle` false) overwrites its function.

Checker against interpreter.  The checker accepts, and the interpreter refuses or answers with
another type: float `%`; `.ptr()` of a Copyd variable; `file.write`, `file::new`, `qkfile_read`,
`qkfile_write`, `qksignal_emit` with any argument; `taskm.block(thread)`; functions passed for
parameters of a function type with other arguments; `String.toFloat` (typed String);
`HashTable.get` (nil when absent); `List.__sort__` (typed nil, yields the list); `qksignal_emit` (typed
nil, yields what the handler returns); `new P` (a pointer, yields an empty list).  A
variable declared in a branch, a loop or a `try` stays declared after it for the
checker, and is nil if the branch was not taken.  A function without `return`
yields nil whatever its type.  Assignment of a struct to an interface variable is not checked against its
impls, and an interface takes over the methods of one it names, not those that one names.
The bodies of overloads other than the first are not checked.  The interpreter
scores a struct or list parameter equally for every argument (`eval.go:2033`),
so it runs the first of two such definitions where the checker picks by kind.

Evaluation.  `detectPeriod` takes two terms that come again for a period (`eval.go:2259`), though the comment at line 2132
promises the loop for what is not linear: `sum(i / 3, 0, 6)` is 0 and not 3.  With `%` the same happens from a negative start,
since Go's remainder is negative there: `sum(i % 3, -4, 4)` is -7 and not -1.  Both shortcuts of `sum` also swallow an error of a call they do not make, and
the closed form the errors of the first three.  A step below 0, which is accepted, adds nothing in the loop, but the number of terms is a quotient that need not be 0:
`sum(i, 5, 0, -1)` takes the closed form with seven terms, 5 to -1, and yields 14.  A right operand is evaluated twice when
the left one is a struct without the operator.  `break` in a `try` in a loop is caught as
an error; `break` in the body of an overload ends the caller's loop.  Two impls with
one method are chosen between in the order of a Go map.  A buffer's key is the text of
the arguments without the function, so one buffer must serve one function, and a
list it keeps is shared by all who get it.  `appendAll` of a list to itself does
not end, nor does the zero value of a struct that contains itself.  Fields of a
generic struct start as nil.

Compiler against interpreter.  `src/README.md:29` says that both have one syntax and one front end, but the
compiler has a parser of its own and never runs the type checker.  It refuses `for`, `break`, `else if`, `/* */`, floats,
signatures and assignments to fields; it reads `io.print`, and drops it.  It takes `x < y`, when a `>` and a bracket follow somewhere
behind, for a generic call, and lets shifts bind as tightly as `*`
(`1 << 2 * 3` is 64 to the interpreter and 12 to the compiler; the families compiled have no such operand).  `&&` and `||` evaluate both
sides.  A bool variable or result, an assignment to a parameter, parameters other than
ints, and two definitions of a name give IR that LLVM rejects, and `l List<int> = f();`
crashes the compiler.  A `return` in a `try` or `catch` makes it skip what follows the whole statement (`emitStmt`
does not restore `funcReturned`), a variable assigned to only in a `try` is taken for constant (`scanAssigned`), and a
division is checked only if it is written inside the `try`, not if it is in a function called there; an index
never is.  A function that only prints is declared `memory(none)`, and calls inside comparisons are not
seen by the search for recursion (`fnAttrs`).  Every struct is accessed as one of two fields; `p P = q;` leaves `p`
unset; methods of the receiver called in a method are 0.  Constants fold in 64 bits.  An indexed
assignment computes its address before its value.  A generator that fails ends the compiled program, but in the interpreter `sum`
returns the error only if it does not take the first terms for a progression: `i*i/i` from 0, which fails at 0, counts as 0 there.

Reading.  Where `SYNTAX.md` and the parser differ, `Writer` and `Parser` follow the parser: K4 (`SYNTAX.md:22`) writes
`for (x in List)`, and the parser wants `for (x : List)`; K5 (line 23) writes `catch (e)`, and the parser wants a
type behind the name; K10 (line 28) says that there is no `break`, and there is one.  E7 (line 40) does not say how tightly
operators bind.  `expectMemberName`'s comment admits keywords as member names, yet
the range it tests leaves out `log`, `null`, `try`, `catch` and `macro`.  `List<int>=[..]` lexes as `>=`.
`memory.clear();` is in `SYNTAX.md` and cannot be parsed, as `clear` begins a statement.
The least int cannot be written.  Shifts bind tighter than `+`.  `new int[n]` with a
name for the size is taken for a type with a suffix.  The compiler gets the
expanded tokens with strings that have lost their quotes (`joinTokens`), so a
program with macros and string literals is not the one the interpreter runs.

## 6. What is not modelled, and the plan

Not modelled: foreign functions, files and screen, which act outside the repository;
`ffi_win.inc` (generated); formatting, positions and messages; what a word, a number or a
string is made of; the reading of imported files.  The memory model below
sequential consistency is left out, so data races appear only as the order of
accesses.  The interpreter of `Evaluator` runs one goroutine: its composition with `Taskm` and
`Channels` would multiply every state by a heap, so those modules abstract the program
to the calls it makes.

Planned, most important first.

1. The two-level cache of the compiler with concurrent compilers; the debugger's
   `stepping`, shared by goroutines; the lazily filled `ParamNames` and `CopydFlags`.
2. Composition: `Taskm` with `MemoryClients` (the pid that is still zero between
   `registerTask` and `t.Pid = pid`, and the order of `ReclaimTask` and `Busy`).

Theorems planned: the parts of `CtxPool` that hold with any number of merged functions.
