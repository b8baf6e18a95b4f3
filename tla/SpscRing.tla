------------------------------ MODULE SpscRing ------------------------------
(***************************************************************************)
(* LockFreeQueue (core/lock_free_queue.h): the single-producer, single-    *)
(* consumer ring between any two threads of the exchange.  Every shared    *)
(* access of push() and pop() is a step of its own, so all interleavings   *)
(* of the two threads are behaviours.                                      *)
(*                                                                         *)
(* An acquire load of the other side's index need not return its latest    *)
(* value: it returns some value stored since this thread last looked       *)
(* (coherence), which Between describes.  What release/acquire does        *)
(* guarantee, that the slot contents written before the observed store are *)
(* visible, is why the slots themselves are read without staleness.        *)
(***************************************************************************)
EXTENDS Naturals, Sequences

CONSTANTS Items,     \* the values of type T that are pushed
          NoItem,    \* contents of a slot or local nothing was stored in
          Capacity   \* template parameter

ASSUME CapacityAssumption == Capacity \in Nat /\ Capacity >= 2

ASSUME NoItemAssumption == NoItem \notin Items

VARIABLES
    buffer,       \* the slots, 0 .. Capacity-1
    head, tail,   \* the two shared indices
    cached_head,  \* the producer's copy of head
    cached_tail,  \* the consumer's copy of tail
    ppc, pitem,   \* where push() is, and its argument
    cpc, citem,   \* where pop() is, and its output parameter
    got           \* what the last pop() that returned true handed out

producerVars == <<ppc, pitem, cached_head, tail>>
consumerVars == <<cpc, citem, cached_tail, head, got>>
vars == <<buffer, producerVars, consumerVars>>

Index == 0 .. Capacity - 1

(***************************************************************************)
(* i & (Capacity - 1).  Capacity is a power of two (a static_assert), so   *)
(* the mask is the remainder; here i never reaches 2 * Capacity.           *)
(***************************************************************************)
Mask(i) == IF i >= Capacity THEN i - Capacity ELSE i

\* How many slots the index b is ahead of the index a, going round the ring.
Ahead(a, b) == Mask(b + Capacity - a)

Depth == Ahead(head, tail)

\* The values an index took on its way from a to b.
Between(a, b) == {i \in Index : Ahead(a, i) <= Ahead(a, b)}

Init ==
    /\ buffer = [i \in Index |-> NoItem]
    /\ head = 0 /\ tail = 0 /\ cached_head = 0 /\ cached_tail = 0
    /\ ppc = "idle" /\ pitem = NoItem
    /\ cpc = "idle" /\ citem = NoItem
    /\ got = NoItem

-----------------------------------------------------------------------------
(* push(), run by the one producer thread.                                 *)

next_t == Mask(tail + 1)

\* Slip: the full test looks one slot too far ahead.
PushCall_OffByOne(item) ==
    /\ ppc = "idle"
    /\ pitem' = item
    /\ ppc' = IF Mask(tail + 2) = cached_head THEN "refresh" ELSE "write"
    /\ UNCHANGED <<cached_head, tail, buffer, consumerVars>>

PushCall(item) ==
    /\ ppc = "idle"
    /\ pitem' = item
    /\ ppc' = IF next_t = cached_head THEN "refresh" ELSE "write"
    /\ UNCHANGED <<cached_head, tail, buffer, consumerVars>>

PushRefresh ==
    /\ ppc = "refresh"
    /\ cached_head' \in Between(cached_head, head)
    /\ ppc' = IF next_t = cached_head' THEN "idle" ELSE "write"
    /\ UNCHANGED <<pitem, tail, buffer, consumerVars>>

PushWrite ==
    /\ ppc = "write"
    /\ buffer' = [buffer EXCEPT ![tail] = pitem]
    /\ ppc' = "publish"
    /\ UNCHANGED <<pitem, cached_head, tail, consumerVars>>

PushPublish ==
    /\ ppc = "publish"
    /\ tail' = next_t
    /\ ppc' = "idle"
    /\ UNCHANGED <<pitem, cached_head, buffer, consumerVars>>

Push == (\E item \in Items : PushCall(item)) \/ PushRefresh \/ PushWrite \/ PushPublish

-----------------------------------------------------------------------------
(* pop(), run by the one consumer thread.                                  *)

PopCall ==
    /\ cpc = "idle"
    /\ cpc' = IF head = cached_tail THEN "refresh" ELSE "read"
    /\ UNCHANGED <<citem, cached_tail, head, got, buffer, producerVars>>

\* Slip: the empty test is not repeated after tail was reloaded.
PopRefresh_NoRecheck ==
    /\ cpc = "refresh"
    /\ cached_tail' \in Between(cached_tail, tail)
    /\ cpc' = "read"
    /\ UNCHANGED <<citem, head, got, buffer, producerVars>>

\* Slip: the reloaded tail is tested but not kept.
PopRefresh_NotKept ==
    /\ cpc = "refresh"
    /\ cpc' = "idle"
    /\ UNCHANGED <<cached_tail, citem, head, got, buffer, producerVars>>

PopRefresh ==
    /\ cpc = "refresh"
    /\ cached_tail' \in Between(cached_tail, tail)
    /\ cpc' = IF head = cached_tail' THEN "idle" ELSE "read"
    /\ UNCHANGED <<citem, head, got, buffer, producerVars>>

PopRead ==
    /\ cpc = "read"
    /\ citem' = buffer[head]
    /\ cpc' = "advance"
    /\ UNCHANGED <<cached_tail, head, got, buffer, producerVars>>

PopAdvance ==
    /\ cpc = "advance"
    /\ head' = Mask(head + 1)
    /\ got' = citem
    /\ cpc' = "idle"
    /\ UNCHANGED <<citem, cached_tail, buffer, producerVars>>

Pop == PopCall \/ PopRefresh \/ PopRead \/ PopAdvance

Next == Push \/ Pop

Spec == Init /\ [][Next]_vars

(***************************************************************************)
(* Every consumer in the exchange polls its queues in an endless loop, and *)
(* a store becomes visible to a thread that keeps loading: the consumer's  *)
(* steps are weakly fair, and its refresh cannot miss the latest tail for  *)
(* ever.  Nothing is assumed of the producer.                              *)
(***************************************************************************)
FairSpec == Spec /\ WF_vars(Pop) /\ SF_vars(PopRefresh /\ cached_tail' = tail)

-----------------------------------------------------------------------------
\* Every variable holds a value of its type; the indices stay in the ring.
TypeOK ==
    /\ buffer \in [Index -> Items \cup {NoItem}]
    /\ head \in Index /\ tail \in Index
    /\ cached_head \in Index /\ cached_tail \in Index
    /\ ppc \in {"idle", "refresh", "write", "publish"}
    /\ cpc \in {"idle", "refresh", "read", "advance"}
    /\ pitem \in Items \cup {NoItem}
    /\ citem \in Items \cup {NoItem}
    /\ got \in Items \cup {NoItem}

(***************************************************************************)
(* push() stores (line 21) only while a slot is really free.               *)
(***************************************************************************)
NeverOverfull == ppc \in {"write", "publish"} => Depth < Capacity - 1

(***************************************************************************)
(* The plain (non-atomic) accesses to the slots never race: however stale  *)
(* both cached indices are, while push() is storing into a slot (line 21)  *)
(* pop() is not reading that slot (line 35), and the slot stored into      *)
(* holds no item pop() has still to hand out.                              *)
(***************************************************************************)
NoSlotRace ==
    /\ TypeOK
    /\ NeverOverfull
    /\ ~(ppc = "write" /\ cpc = "read" /\ tail = head)

(***************************************************************************)
(* Why the cached indices are safe.  Each is a past value of the index it  *)
(* copies, and stays on the right side of it: going round the ring one     *)
(* meets cached_head, then head, then cached_tail, then tail.  A thread    *)
(* past its test has room (an item) by its copy, hence by the truth; and   *)
(* the slot it works on keeps its contents until it is done.               *)
(***************************************************************************)
RingInv ==
    /\ Ahead(cached_head, head) + Depth = Ahead(cached_head, tail)
    /\ Ahead(head, cached_tail) <= Depth
    /\ ppc \in {"write", "publish"} => next_t # cached_head
    /\ cpc \in {"read", "advance"} => head # cached_tail
    /\ ppc # "idle" => pitem \in Items
    /\ ppc = "publish" => buffer[tail] = pitem
    /\ cpc = "advance" => citem = buffer[head]

(***************************************************************************)
(* The live part of the ring, oldest first, and the queue it stands for.   *)
(***************************************************************************)
Contents == [k \in 1 .. Depth |-> buffer[Mask(head + k - 1)]]

Fifo == INSTANCE BoundedFifo WITH queue <- Contents, Bound <- Capacity - 1

(***************************************************************************)
(* push() and pop(), with their cached indices, implement a FIFO of        *)
(* Capacity - 1 items: nothing is lost, duplicated, reordered or read      *)
(* before it is written, and the item enters and leaves at one store each. *)
(***************************************************************************)
ImplementsFifo == Fifo!Spec

(***************************************************************************)
(* The oldest item never stays for ever in front of a polling consumer,    *)
(* whatever the producer does: head moves on again and again, or there is  *)
(* nothing to take.  cached_tail is refreshed when it has to be.           *)
(***************************************************************************)
OldestIsTaken == []<>(Depth = 0) \/ []<><<TRUE>>_head
=============================================================================
