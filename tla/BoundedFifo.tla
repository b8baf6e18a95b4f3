---------------------------- MODULE BoundedFifo ----------------------------
(***************************************************************************)
(* What every queue between two threads of the exchange promises its two   *)
(* users: a first-in first-out queue of at most Bound items, where an item *)
(* enters at one indivisible moment and leaves at another.  A push on a    *)
(* full queue and a pop on an empty one return false and change nothing,   *)
(* so they are stuttering steps here.                                      *)
(***************************************************************************)
EXTENDS Naturals, Sequences

CONSTANTS Items,   \* what can be queued
          NoItem,  \* the consumer's variable before its first successful pop
          Bound    \* the most items the queue ever holds

VARIABLES queue,   \* the items pushed and not yet popped, oldest first
          got      \* the item the last successful pop handed out

fifoVars == <<queue, got>>

Init == queue = <<>> /\ got = NoItem

Push(item) ==
    /\ Len(queue) < Bound
    /\ queue' = Append(queue, item)
    /\ UNCHANGED got

Pop ==
    /\ queue # <<>>
    /\ got' = Head(queue)
    /\ queue' = Tail(queue)

Next == (\E item \in Items : Push(item)) \/ Pop

Spec == Init /\ [][Next]_fifoVars

=============================================================================
