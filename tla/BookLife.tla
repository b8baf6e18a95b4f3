------------------------------ MODULE BookLife ------------------------------
(***************************************************************************)
(* What an engine shard does to the slots of its orders, whatever their    *)
(* prices: an order taken from a queue uses up some of the resting orders, *)
(* one after the other, and then rests itself or leaves; a resting order   *)
(* can be cancelled between two matches.  Module OrderBook implements it,  *)
(* module ExchangeCore builds on it.                                       *)
(***************************************************************************)
CONSTANTS Slots, NoSlot

VARIABLES resting,   \* slots with an entry in orders_by_id
          cur        \* the slot in match_order()

lifeVars == <<resting, cur>>

Init == resting = {} /\ cur = NoSlot

Begin(s) ==
    /\ cur = NoSlot /\ s \notin resting
    /\ cur' = s
    /\ UNCHANGED resting

UseUp(r) ==
    /\ cur # NoSlot /\ r \in resting
    /\ resting' = resting \ {r}
    /\ UNCHANGED cur

ComesToRest ==
    /\ cur # NoSlot
    /\ resting' = resting \cup {cur}
    /\ cur' = NoSlot

Leaves ==
    /\ cur # NoSlot
    /\ cur' = NoSlot
    /\ UNCHANGED resting

Remove(s) ==
    /\ cur = NoSlot /\ s \in resting
    /\ resting' = resting \ {s}
    /\ UNCHANGED cur

Next ==
    \/ \E s \in Slots : Begin(s) \/ UseUp(s) \/ Remove(s)
    \/ ComesToRest
    \/ Leaves

Spec == Init /\ [][Next]_lifeVars
=============================================================================
