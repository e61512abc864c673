------------------------------- MODULE Channels -------------------------------
(***************************************************************************)
(* The channels of the interpreter (taskm.channel, send and recv) with the *)
(* goroutines that talk over them: main, and one goroutine per merged      *)
(* function.  A Channel holds a Go channel of values; values are not       *)
(* copied, so a list that is sent or passed to taskm.merge is one list on  *)
(* both sides, and both may append to it.                                  *)
(*                                                                         *)
(* Of the task manager, only the start and the end of a merged function    *)
(* matter here; block and the end of the process are in Taskm.             *)
(***************************************************************************)
EXTENDS Integers, Sequences

CONSTANTS
    Runs,           \* the merged functions
    Main,           \* the goroutine of main()
    None,           \* no goroutine and no list
    Chans, Lists,
    Sizes,          \* what taskm.channel(n) is called with
    MaxSends,       \* bound on the sends on one channel
    MaxAppends      \* bound on the appends to one list

Goroutines == Runs \cup {Main}

VARIABLES
    capacity, buf,  \* of each channel: its size and the values in it
    sendq, recvq,   \* of each channel: the goroutines that wait on it, in order
    pc,             \* "unborn", "code", "items", "tail", "send", "recv", "ended"
    arg,            \* the list being appended to or sent
    holds,          \* the lists each goroutine can reach
    seen,           \* the number an append has read last
    len, tail,      \* List.items' length and List.tail
    sends           \* of each channel: how often it was sent to, for the bound

channels == <<capacity, buf, sendq, recvq, sends>>
lists == <<seen, len, tail>>
vars == <<channels, pc, arg, holds, lists>>

----------------------------------------------------------------------------

\* The sizes for which taskm.channel makes a channel; it refuses the others.
Accepts(n) == 1 <= n /\ n <= 2^20

\* main has made the channels and the lists.
Init == /\ capacity \in [Chans -> {n \in Sizes : Accepts(n)}]
        /\ buf = [c \in Chans |-> <<>>]
        /\ sendq = [c \in Chans |-> <<>>]
        /\ recvq = [c \in Chans |-> <<>>]
        /\ pc = [g \in Goroutines |-> IF g = Main THEN "code" ELSE "unborn"]
        /\ arg = [g \in Goroutines |-> None]
        /\ holds = [g \in Goroutines |-> IF g = Main THEN Lists ELSE {}]
        /\ seen = [g \in Goroutines |-> 0]
        /\ len = [l \in Lists |-> 0]
        /\ tail = [l \in Lists |-> 0]
        /\ sends = [c \in Chans |-> 0]

\* taskm.merge(pid, f, lists..): the function gets the lists themselves, and
\* the caller keeps them.
Merge(g, r, ls) ==
    /\ pc[g] = "code" /\ pc[r] = "unborn"
    /\ pc' = [pc EXCEPT ![r] = "code"]
    /\ holds' = [holds EXCEPT ![r] = ls]
    /\ UNCHANGED <<channels, arg, lists>>

\* list.append(v): append(l.items, v) reads the length, ...
AppendRead(g, l) ==
    /\ pc[g] = "code" /\ l \in holds[g] /\ tail[l] < MaxAppends
    /\ pc' = [pc EXCEPT ![g] = "items"]
    /\ arg' = [arg EXCEPT ![g] = l]
    /\ seen' = [seen EXCEPT ![g] = len[l]]
    /\ UNCHANGED <<channels, holds, len, tail>>

\* ... l.items end behind the new element; l.tail++ reads the tail, ...
AppendItems(g) ==
    /\ pc[g] = "items"
    /\ pc' = [pc EXCEPT ![g] = "tail"]
    /\ len' = [len EXCEPT ![arg[g]] = seen[g] + 1]
    /\ seen' = [seen EXCEPT ![g] = tail[arg[g]]]
    /\ UNCHANGED <<channels, arg, holds, tail>>

\* ... and writes it.
AppendTail(g) ==
    /\ pc[g] = "tail"
    /\ pc' = [pc EXCEPT ![g] = "code"]
    /\ arg' = [arg EXCEPT ![g] = None]
    /\ tail' = [tail EXCEPT ![arg[g]] = seen[g] + 1]
    /\ seen' = [seen EXCEPT ![g] = 0]
    /\ UNCHANGED <<channels, holds, len>>

\* What every send does: it sends a list the sender can reach and still keeps.
Give(g, c, l) ==
    /\ pc[g] = "code" /\ l \in holds[g] /\ sends[c] < MaxSends
    /\ sends' = [sends EXCEPT ![c] = @ + 1]
    /\ UNCHANGED <<capacity, lists>>

\* o.ch <- v with a goroutine waiting for a value: it gets this one.
SendDirect(g, c, l) ==
    /\ Give(g, c, l)
    /\ recvq[c] # <<>>
    /\ LET r == Head(recvq[c]) IN
         /\ pc' = [pc EXCEPT ![r] = "code"]
         /\ holds' = [holds EXCEPT ![r] = @ \cup {l}]
    /\ recvq' = [recvq EXCEPT ![c] = Tail(@)]
    /\ UNCHANGED <<buf, sendq, arg>>

\* o.ch <- v into a channel with room.
SendBuffered(g, c, l) ==
    /\ Give(g, c, l)
    /\ recvq[c] = <<>> /\ Len(buf[c]) < capacity[c]
    /\ buf' = [buf EXCEPT ![c] = Append(@, l)]
    /\ UNCHANGED <<sendq, recvq, pc, arg, holds>>

\* o.ch <- v into a full channel: the sender waits with its value.
SendWait(g, c, l) ==
    /\ Give(g, c, l)
    /\ recvq[c] = <<>> /\ Len(buf[c]) = capacity[c]
    /\ sendq' = [sendq EXCEPT ![c] = Append(@, g)]
    /\ pc' = [pc EXCEPT ![g] = "send"]
    /\ arg' = [arg EXCEPT ![g] = l]
    /\ UNCHANGED <<buf, recvq, holds>>

\* What every receive that does not wait does with the list it takes.
Take(g, c, l) ==
    /\ holds' = [holds EXCEPT ![g] = @ \cup {l}]
    /\ UNCHANGED <<capacity, recvq, sends, lists>>

\* <-o.ch from a channel that nobody waits to send to.
RecvBuffered(g, c) ==
    /\ pc[g] = "code" /\ buf[c] # <<>> /\ sendq[c] = <<>>
    /\ Take(g, c, Head(buf[c]))
    /\ buf' = [buf EXCEPT ![c] = Tail(@)]
    /\ UNCHANGED <<sendq, pc, arg>>

\* <-o.ch from a full channel: the first waiting sender's value moves in.
RecvRelease(g, c) ==
    /\ pc[g] = "code" /\ buf[c] # <<>> /\ sendq[c] # <<>>
    /\ Take(g, c, Head(buf[c]))
    /\ LET s == Head(sendq[c]) IN
         /\ buf' = [buf EXCEPT ![c] = Append(Tail(@), arg[s])]
         /\ pc' = [pc EXCEPT ![s] = "code"]
         /\ arg' = [arg EXCEPT ![s] = None]
    /\ sendq' = [sendq EXCEPT ![c] = Tail(@)]

\* <-o.ch from an empty channel.
RecvWait(g, c) ==
    /\ pc[g] = "code" /\ buf[c] = <<>>
    /\ recvq' = [recvq EXCEPT ![c] = Append(@, g)]
    /\ pc' = [pc EXCEPT ![g] = "recv"]
    /\ UNCHANGED <<capacity, buf, sendq, sends, arg, holds, lists>>

\* The merged function returns.
End(r) ==
    /\ r \in Runs
    /\ pc[r] = "code"
    /\ pc' = [pc EXCEPT ![r] = "ended"]
    /\ UNCHANGED <<channels, arg, holds, lists>>

Talk(g) == \E c \in Chans :
    \/ \E l \in Lists : SendDirect(g, c, l) \/ SendBuffered(g, c, l) \/ SendWait(g, c, l)
    \/ RecvBuffered(g, c) \/ RecvRelease(g, c) \/ RecvWait(g, c)
AppendStep(g) == (\E l \in Lists : AppendRead(g, l)) \/ AppendItems(g) \/ AppendTail(g)

Next == \E g \in Goroutines : \/ \E r \in Runs, ls \in SUBSET holds[g] : Merge(g, r, ls)
                                \/ Talk(g) \/ AppendStep(g) \/ End(g)

Spec == Init /\ [][Next]_vars

----------------------------------------------------------------------------

\* The visible elements of a list, which end before List.tail, are elements of
\* List.items.  The code breaks this: two goroutines that append at the same time
\* read the same length, and the tail moves twice behind one new element.
VisibleExist == \A l \in Lists : tail[l] <= len[l]
=============================================================================
