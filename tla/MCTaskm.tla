------------------------------ MODULE MCTaskm ------------------------------
(***************************************************************************)
(* Taskm for TLC, with the mapping under which it is to implement          *)
(* ThreadPromise.  The runs differ in the constants only.                  *)
(***************************************************************************)
EXTENDS Taskm

\* A run counts as running from the merge that reserves its thread to the
\* t.Busy = false that frees it.
RunState == [r \in Runs |->
               CASE on[r] = 0 -> "none"
                 [] on[r] # 0 /\ pc[r] \in Freed -> "done"
                 [] OTHER -> "running"]
Awaited  == [g \in Goroutines |-> IF pc[g] = "waiting" THEN ch[g] ELSE 0]

Promise == INSTANCE ThreadPromise
             WITH Callers <- Goroutines, state <- RunState,
                  home <- [r \in Runs |-> on[r]], awaits <- Awaited,
                  alive <- Alive

\* The interpreter's threads keep the promise: one function at a time, every
\* function ends, and block returns when, and only when, the function it found
\* running has ended.
KeepsPromise == Promise!Spec
=============================================================================
