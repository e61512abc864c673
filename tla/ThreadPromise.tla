---------------------------- MODULE ThreadPromise ----------------------------
(***************************************************************************)
(* What taskm promises a program about its threads, without locks,         *)
(* channels or goroutines: a thread runs one function at a time, a         *)
(* function once started ends, and whoever blocks on a running function    *)
(* goes on when, and only when, it has ended.                              *)
(***************************************************************************)
EXTENDS Naturals

CONSTANTS Threads, Runs, Callers

VARIABLES state,    \* "none", "running" or "done", for each run
          home,     \* the thread each run was merged into
          awaits,   \* the run each caller is blocked on, 0 for none
          alive     \* the process has not stopped

vars == <<state, home, awaits, alive>>

Init == /\ state  = [r \in Runs |-> "none"]
        /\ home   = [r \in Runs |-> 0]
        /\ awaits = [g \in Callers |-> 0]
        /\ alive  = TRUE

\* A function is merged into a thread on which nothing runs.
Start(r, t) == /\ state[r] = "none"
               /\ \A q \in Runs : home[q] = t => state[q] = "done"
               /\ state' = [state EXCEPT ![r] = "running"]
               /\ home'  = [home EXCEPT ![r] = t]
               /\ UNCHANGED <<awaits, alive>>

End(r) == /\ state[r] = "running"
          /\ state' = [state EXCEPT ![r] = "done"]
          /\ UNCHANGED <<home, awaits, alive>>

Await(g, r) == /\ awaits[g] = 0
               /\ state[r] = "running"
               /\ awaits' = [awaits EXCEPT ![g] = r]
               /\ UNCHANGED <<state, home, alive>>

Resume(g) == /\ awaits[g] # 0
             /\ state[awaits[g]] = "done"
             /\ awaits' = [awaits EXCEPT ![g] = 0]
             /\ UNCHANGED <<state, home, alive>>

\* main() returns.
Stop == alive' = FALSE /\ UNCHANGED <<state, home, awaits>>

Next == alive /\ \/ \E r \in Runs : End(r) \/ \E t \in Threads : Start(r, t)
                 \/ \E g \in Callers : Resume(g) \/ \E r \in Runs : Await(g, r)
                 \/ Stop

Spec == /\ Init /\ [][Next]_vars
        /\ \A r \in Runs : WF_vars(alive /\ End(r))
        /\ \A g \in Callers : WF_vars(alive /\ Resume(g))
=============================================================================
