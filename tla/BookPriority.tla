---------------------------- MODULE BookPriority ----------------------------
(***************************************************************************)
(* Price-time priority of the order book, stated against a history of its  *)
(* own: the resting orders in the order in which they came to rest.        *)
(***************************************************************************)
EXTENDS OrderBook

VARIABLE arrivals    \* the resting slots, first come first

ArrivalsInit == arrivals = <<>>

\* A step takes at most one order out and lets at most its own come to rest.
ArrivalsStep ==
    LET left   == {i \in DOMAIN arrivals : arrivals[i] \notin orders_by_id'}
        stayed == IF left = {} THEN arrivals ELSE remove(arrivals, CHOOSE i \in left : TRUE)
    IN  arrivals' = IF cur \in orders_by_id' THEN Append(stayed, cur) ELSE stayed

CameBefore(s, r) ==
    \E i, j \in DOMAIN arrivals : i < j /\ arrivals[i] = s /\ arrivals[j] = r

\* s stands before r, an order of the same side.
Outranks(s, r) ==
    /\ s \in orders_by_id /\ order[s].side = order[r].side
    /\ \/ ~Crosses(order[r].side, order[s].price, order[r].price)
       \/ order[s].price = order[r].price /\ CameBefore(s, r)

(***************************************************************************)
(* Whenever a resting order trades, no other order of its side has a       *)
(* better price, and none at its price has been resting for longer.  The   *)
(* bitmaps, the cached best prices and the level lists all have to be      *)
(* right for it, over any history of matches and cancels.                  *)
(***************************************************************************)
PriceTimePriority ==
    [][\A r \in orders_by_id :
         acked'[r] > acked[r] => \A s \in Slots \ {r} : ~Outranks(s, r)]_vars
=============================================================================
