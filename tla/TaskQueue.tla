----------------------------- MODULE TaskQueue -----------------------------
(***************************************************************************)
(* What the ring buffer of the compiled runtime promises: a bounded queue  *)
(* of tasks, from which they come out in the order they went in.           *)
(***************************************************************************)
EXTENDS Naturals, Sequences

CONSTANTS Tasks, Capacity

VARIABLE queue

Init == queue = <<>>

Put(t) == /\ Len(queue) < Capacity
          /\ queue' = Append(queue, t)

Take == /\ queue # <<>>
        /\ queue' = Tail(queue)

Next == Take \/ \E t \in Tasks : Put(t)

Spec == Init /\ [][Next]_queue
=============================================================================
