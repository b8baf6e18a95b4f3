------------------------------ MODULE FirmRing ------------------------------
(***************************************************************************)
(* SPSCQueue (utils/spsc_queue.h): the ring between the strategy thread    *)
(* and the sending thread of the firm.  Unlike the exchange's ring its     *)
(* indices run freely over the unsigned integers and are masked only to    *)
(* find a slot, all N slots are used, and every call loads both indices.   *)
(*                                                                         *)
(* Each shared access is a step.  A load of the other side's index returns *)
(* some value stored since this thread last looked (coherence), which the  *)
(* seen_ variables remember.                                               *)
(***************************************************************************)
EXTENDS Naturals, Sequences

CONSTANTS Items,    \* the values of type T
          NoItem,   \* contents of an entry or local nothing was stored in
          N,        \* template parameter
          Word      \* 2^64: where the indices wrap, a multiple of N

\* N and Word are powers of two.
RingAssumption ==
    /\ N \in Nat \ {0} /\ Word \in Nat /\ Word > N /\ Word % N = 0
    /\ NoItem \notin Items

VARIABLES
    entries, head, tail,
    seen_head, seen_tail,   \* the last head the producer, tail the consumer loaded
    epc, eitem,             \* where enqueue() is, and its argument
    dpc, ditem,             \* where dequeue() is, and its output parameter
    got                     \* what the last dequeue() that returned true handed out

producer == <<epc, eitem, seen_head, tail>>
consumer == <<dpc, ditem, seen_tail, head, got>>
vars == <<entries, producer, consumer>>

Index == 0 .. Word - 1

\* Unsigned arithmetic: here i is below 2 * Word.
Wrap(i) == IF i >= Word THEN i - Word ELSE i
Minus(a, b) == Wrap(a + Word - b)

\* i & (N - 1)
Slot(i) == i % N

\* The values an index took on its way from a to b.
Between(a, b) == {i \in Index : Minus(i, a) <= Minus(b, a)}

Init ==
    /\ entries = [i \in 0 .. N - 1 |-> NoItem]
    /\ head = 0 /\ tail = 0 /\ seen_head = 0 /\ seen_tail = 0
    /\ epc = "idle" /\ eitem = NoItem
    /\ dpc = "idle" /\ ditem = NoItem
    /\ got = NoItem

-----------------------------------------------------------------------------
(* enqueue(), on the strategy thread.                                      *)

\* Slip: > for >=.
Full_Strict(h) == Minus(tail, h) > N

Full(h) == Minus(tail, h) >= N

EnqueueTest(item) ==
    /\ epc = "idle"
    /\ eitem' = item
    /\ seen_head' \in Between(seen_head, head)
    /\ epc' = IF Full(seen_head') THEN "idle" ELSE "write"
    /\ UNCHANGED <<tail, entries, consumer>>

EnqueueWrite ==
    /\ epc = "write"
    /\ entries' = [entries EXCEPT ![Slot(tail)] = eitem]
    /\ epc' = "publish"
    /\ UNCHANGED <<eitem, seen_head, tail, consumer>>

EnqueuePublish ==
    /\ epc = "publish"
    /\ tail' = Wrap(tail + 1)
    /\ epc' = "idle"
    /\ UNCHANGED <<eitem, seen_head, entries, consumer>>

enqueue == (\E item \in Items : EnqueueTest(item)) \/ EnqueueWrite \/ EnqueuePublish

-----------------------------------------------------------------------------
(* dequeue(), on the sending thread.                                       *)

DequeueTest ==
    /\ dpc = "idle"
    /\ seen_tail' \in Between(seen_tail, tail)
    /\ dpc' = IF head = seen_tail' THEN "idle" ELSE "read"
    /\ UNCHANGED <<ditem, head, got, entries, producer>>

DequeueRead ==
    /\ dpc = "read"
    /\ ditem' = entries[Slot(head)]
    /\ dpc' = "advance"
    /\ UNCHANGED <<seen_tail, head, got, entries, producer>>

DequeueAdvance ==
    /\ dpc = "advance"
    /\ head' = Wrap(head + 1)
    /\ got' = ditem
    /\ dpc' = "idle"
    /\ UNCHANGED <<ditem, seen_tail, entries, producer>>

dequeue == DequeueTest \/ DequeueRead \/ DequeueAdvance

Next == enqueue \/ dequeue

Spec == Init /\ [][Next]_vars

-----------------------------------------------------------------------------
(***************************************************************************)
(* The inductive invariant: types; each remembered index is a past value   *)
(* on the right side of the present one; the ring never holds more than N; *)
(* a thread past its test has room (an item), and its slot keeps its       *)
(* contents until it is done.                                              *)
(***************************************************************************)
FirmRingInv ==
    /\ entries \in [0 .. N - 1 -> Items \cup {NoItem}]
    /\ {head, tail, seen_head, seen_tail} \subseteq Index
    /\ epc \in {"idle", "write", "publish"} /\ dpc \in {"idle", "read", "advance"}
    /\ eitem \in Items \cup {NoItem} /\ ditem \in Items \cup {NoItem} /\ got \in Items \cup {NoItem}
    /\ Minus(head, seen_head) + Minus(tail, head) = Minus(tail, seen_head)
    /\ Minus(tail, seen_head) <= N
    /\ Minus(seen_tail, head) <= Minus(tail, head)
    /\ epc # "idle" => eitem \in Items /\ ~Full(seen_head)
    /\ epc = "publish" => entries[Slot(tail)] = eitem
    /\ dpc # "idle" => head # seen_tail
    /\ dpc = "advance" => ditem = entries[Slot(head)]

\* The live entries, oldest first.
Contents == [k \in 1 .. Minus(tail, head) |-> entries[Slot(Wrap(head + k - 1))]]

Fifo == INSTANCE BoundedFifo WITH queue <- Contents, Bound <- N

(***************************************************************************)
(* enqueue() and dequeue() implement a FIFO of N items, also where the     *)
(* indices wrap: nothing is lost, duplicated, reordered or overwritten.    *)
(***************************************************************************)
FirmRingIsFifo == Fifo!Spec
=============================================================================
