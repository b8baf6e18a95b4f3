----------------------------- MODULE OrderBook -----------------------------
(***************************************************************************)
(* One limit order book (matching/orderbook.h), driven by the engine       *)
(* thread that owns it: match_order() at one loop iteration per step, and  *)
(* cancel_order().  The buy and the sell branch of match_order() mirror    *)
(* each other; both are the same actions here, with the side as a value.   *)
(*                                                                         *)
(* An order is named by its pool slot, which is its internal_id.  A level  *)
(* is the linked list Limit, kept as the sequence of its slots, head       *)
(* first.  The bitmaps are the sets of prices whose bit is set; the two-   *)
(* level scan behind find_next_ask/find_next_bid is module PriceLadder.    *)
(*                                                                         *)
(* What the book says to the outside is kept as far as properties need it: *)
(* itch (the last step's market data), reported (the state in an order's   *)
(* latest drop copy) and acked (the shares its owner was told of).  That a *)
(* full queue drops any of these is the business of the queues' modules.   *)
(***************************************************************************)
EXTENDS Integers, Sequences

CONSTANTS Slots,       \* pool slots this book's orders can occupy
          NoSlot,      \* no order is being matched
          NoOrder,     \* contents of a free slot
          Clients,     \* owning connections
          MAX_PRICE,   \* prices are below it
          QuotePrices, \* bound: the prices of the orders sent
          MaxQty       \* bound: the largest quantity of an order

ASSUME MaxPriceAssumption == MAX_PRICE \in Nat /\ MAX_PRICE > 0
ASSUME MaxQtyAssumption == MaxQty \in Nat
ASSUME NoSlotAssumption == NoSlot \notin Slots

Sides == {"B", "S"}
Prices == 0 .. MAX_PRICE - 1

\* The fields of struct Order the book reads; asked is the quantity as sent.
Orders == [client : Clients, side : Sides, price : Prices, qty : 0 .. MaxQty, asked : 1 .. MaxQty]

ASSUME QuotePricesAssumption == QuotePrices \subseteq Prices \ {0}
ASSUME NoOrderAssumption == NoOrder \notin Orders

VARIABLES
    order,         \* slot -> the order in it
    levels,        \* side -> price -> the slots resting there, oldest first
    bits,          \* side -> prices marked in the bitmap
    best,          \* side -> cached_best_bid / cached_best_ask
    orders_by_id,  \* slots whose entry is not null
    cur, p,        \* the order in match_order(), and its cursor p
    itch,          \* messages broadcast by the last step
    reported,      \* slot -> state in its order's last drop copy
    acked          \* slot -> shares acknowledged to the owner

bookVars == <<order, levels, bits, best, orders_by_id>>
vars == <<bookVars, cur, p, itch, reported, acked>>

Other(side) == IF side = "B" THEN "S" ELSE "B"

\* The price an empty side's cache falls back to.
Worst(side) == IF side = "B" THEN 0 ELSE MAX_PRICE - 1

Nearest(side, marked) ==
    CHOOSE q \in marked : \A r \in marked : IF side = "B" THEN r <= q ELSE q <= r

\* find_next_bid / find_next_ask: the best marked price, or -1.
find_next(side, marked) == IF marked = {} THEN -1 ELSE Nearest(side, marked)

Beyond(side, marked, q) == {r \in marked : IF side = "B" THEN r < q ELSE q < r}

\* ItchMessage, as far as a reader of the feed tells two messages apart.
Msg(type, s, side, price, qty) ==
    [type |-> type, slot |-> s, side |-> side, price |-> price, qty |-> qty]

Init ==
    /\ order = [s \in Slots |-> NoOrder]
    /\ levels = [side \in Sides |-> [q \in Prices |-> <<>>]]
    /\ bits = [side \in Sides |-> {}]
    /\ best = [side \in Sides |-> Worst(side)]
    /\ orders_by_id = {}
    /\ cur = NoSlot /\ p = -1
    /\ itch = <<>>
    /\ reported = [s \in Slots |-> "none"]
    /\ acked = [s \in Slots |-> 0]

-----------------------------------------------------------------------------
\* What was said of an order that left is forgotten at the book's next call.
Kept(said, nothing) == [s \in Slots |-> IF order[s] = NoOrder THEN nothing ELSE said[s]]

(***************************************************************************)
(* match_order() is called for an order in a fresh slot.  The gateway has  *)
(* checked quantity and price to be positive but not the price against     *)
(* MAX_PRICE, so a price at or above it reaches the book; it is dropped    *)
(* there, its slot freed at once and nothing said to anyone.               *)
(***************************************************************************)
Discard(s) ==
    /\ cur = NoSlot /\ order[s] = NoOrder
    /\ itch' = <<>>
    /\ reported' = Kept(reported, "none") /\ acked' = Kept(acked, 0)
    /\ UNCHANGED <<bookVars, cur, p>>

Submit(s, c, side, price, qty) ==
    /\ cur = NoSlot /\ order[s] = NoOrder
    /\ order' = [order EXCEPT ![s] = [client |-> c, side |-> side, price |-> price,
                                      qty |-> qty, asked |-> qty]]
    /\ cur' = s
    /\ p' = best[Other(side)]
    /\ itch' = <<>>
    /\ reported' = Kept(reported, "none") /\ acked' = Kept(acked, 0)
    /\ UNCHANGED <<levels, bits, best, orders_by_id>>

-----------------------------------------------------------------------------
(* The matching loop: cur is the incoming order, p the opposite level.     *)

Incoming == order[cur]
Opposite == Other(Incoming.side)

Crosses(side, q, price) == IF side = "B" THEN q <= price ELSE q >= price

InLoop ==
    /\ cur # NoSlot
    /\ p # -1
    /\ Crosses(Incoming.side, p, Incoming.price)
    /\ Incoming.qty > 0

\* Slip: with no further level the cursor stays.
LeaveLevel_NoEnd(side) ==
    LET rest == Beyond(side, bits[side], p)
        next == find_next(side, rest)
    IN  /\ bits' = [bits EXCEPT ![side] = @ \ {p}]
        /\ best' = [best EXCEPT ![side] = IF next = -1 THEN @ ELSE next]
        /\ p' = IF next = -1 THEN p ELSE next

(***************************************************************************)
(* The level at p has become empty: clear its bit, move the cursor to      *)
(* the next marked level and cache that as the best price.  Without a next *)
(* level the loop ends and the cached best price stays where it was.       *)
(***************************************************************************)
LeaveLevel(side) ==
    LET rest == Beyond(side, bits[side], p)
        next == find_next(side, rest)
    IN  /\ bits' = [bits EXCEPT ![side] = @ \ {p}]
        /\ best' = [best EXCEPT ![side] = IF next = -1 THEN @ ELSE next]
        /\ p' = next

SkipEmptyLevel ==
    /\ InLoop
    /\ levels[Opposite][p] = <<>>
    /\ LeaveLevel(Opposite)
    /\ itch' = <<>>
    /\ UNCHANGED <<order, levels, orders_by_id, cur, reported, acked>>

\* Slip: both orders are taken out.
SelfTrade_Both ==
    /\ InLoop
    /\ levels[Opposite][p] # <<>>
    /\ LET r == Head(levels[Opposite][p])
       IN  /\ order[r].client = Incoming.client
           /\ reported' = [reported EXCEPT ![cur] = "REJECTED", ![r] = "REJECTED"]
           /\ order' = [order EXCEPT ![cur] = NoOrder, ![r] = NoOrder]
           /\ orders_by_id' = orders_by_id \ {r}
    /\ levels' = [levels EXCEPT ![Opposite][p] = Tail(@)]
    /\ bits' = [bits EXCEPT ![Opposite] = IF Len(levels[Opposite][p]) = 1 THEN @ \ {p} ELSE @]
    /\ cur' = NoSlot /\ p' = -1
    /\ itch' = <<>>
    /\ UNCHANGED <<best, acked>>

\* Cancel-newest: the head of the level belongs to the incoming order's client.
SelfTrade ==
    /\ InLoop
    /\ levels[Opposite][p] # <<>>
    /\ order[Head(levels[Opposite][p])].client = Incoming.client
    /\ reported' = [reported EXCEPT ![cur] = "REJECTED"]
    /\ order' = [order EXCEPT ![cur] = NoOrder]
    /\ cur' = NoSlot /\ p' = -1
    /\ itch' = <<>>
    /\ UNCHANGED <<levels, bits, best, orders_by_id, acked>>

\* Slip: an order filled to the last share is still called partial.
FillState_NotStrict(mine, other) == IF mine >= other THEN "PARTIAL_FILL" ELSE "FILLED"

FillState(mine, other) == IF mine > other THEN "PARTIAL_FILL" ELSE "FILLED"

\* Slip: the resting quantity trades, however little the incoming order wants.
Traded_Resting(incoming, resting) == resting

\* match_qty
Traded(incoming, resting) == IF incoming <= resting THEN incoming ELSE resting

UsedUp(incoming, resting) == incoming >= resting

(***************************************************************************)
(* One execution: incoming and resting trade the smaller quantity.  A      *)
(* resting order that is used up leaves lookup, level and slot; when the   *)
(* level is empty then, so does the level.                                 *)
(***************************************************************************)
Fill ==
    /\ InLoop
    /\ levels[Opposite][p] # <<>>
    /\ LET r       == Head(levels[Opposite][p])
           resting == order[r]
           n       == Incoming.qty
           m       == Traded(n, resting.qty)
           gone    == UsedUp(n, resting.qty)
       IN  /\ resting.client # Incoming.client
           /\ itch' = <<Msg("E", r, resting.side, resting.price, m),
                         Msg("E", cur, Incoming.side, resting.price, m)>>
           /\ reported' = [reported EXCEPT ![cur] = FillState(n, resting.qty),
                                           ![r] = FillState(resting.qty, n)]
           /\ acked' = [acked EXCEPT ![cur] = @ + m, ![r] = @ + m]
           /\ order' = [order EXCEPT ![cur].qty = n - m,
                                     ![r] = IF gone THEN NoOrder ELSE [resting EXCEPT !.qty = @ - n]]
           /\ orders_by_id' = IF gone THEN orders_by_id \ {r} ELSE orders_by_id
           /\ levels' = IF gone THEN [levels EXCEPT ![Opposite][p] = Tail(@)] ELSE levels
           /\ IF gone /\ Len(levels[Opposite][p]) = 1
              THEN LeaveLevel(Opposite)
              ELSE UNCHANGED <<bits, best, p>>
           /\ UNCHANGED cur

\* Slip: a better price does not become the cached best.
NewBest_Kept(side, q, cached) == cached

NewBest(side, q, cached) == IF Crosses(side, q, cached) THEN cached ELSE q

\* Slip: the list grows at its head.
add_AtHead(level, s) == <<s>> \o level

\* Limit::add
add(level, s) == Append(level, s)

\* Limit::remove
remove(level, i) == SubSeq(level, 1, i - 1) \o SubSeq(level, i + 1, Len(level))

\* The loop is over and some quantity is left: the order rests.
Rest ==
    /\ cur # NoSlot /\ ~InLoop /\ Incoming.qty > 0
    /\ LET side == Incoming.side
           q    == Incoming.price
       IN  /\ levels' = [levels EXCEPT ![side][q] = add(@, cur)]
           /\ bits' = [bits EXCEPT ![side] = IF levels[side][q] = <<>> THEN @ \cup {q} ELSE @]
           /\ best' = [best EXCEPT ![side] = NewBest(side, q, @)]
    /\ orders_by_id' = orders_by_id \cup {cur}
    /\ itch' = <<Msg("A", cur, Incoming.side, Incoming.price, Incoming.qty)>>
    /\ reported' = [reported EXCEPT ![cur] = "NEW"]
    /\ cur' = NoSlot /\ p' = -1
    /\ UNCHANGED <<order, acked>>

\* The loop is over and nothing is left: the slot is freed.
Done ==
    /\ cur # NoSlot /\ Incoming.qty = 0
    /\ order' = [order EXCEPT ![cur] = NoOrder]
    /\ cur' = NoSlot /\ p' = -1
    /\ itch' = <<>>
    /\ UNCHANGED <<levels, bits, best, orders_by_id, reported, acked>>

MatchStep == SkipEmptyLevel \/ SelfTrade \/ Fill \/ Rest \/ Done

-----------------------------------------------------------------------------
\* The cached best price after the best level q has gone.
Rescanned(side, q) ==
    LET next == find_next(side, Beyond(side, bits[side], q))
    IN  IF next = -1 THEN Worst(side) ELSE next

(***************************************************************************)
(* cancel_order(): the order leaves level, lookup and slot.  If it leaves  *)
(* its level empty and that level is the cached best, the cache is rescan- *)
(* ned; a side with no level left gets its worst price back.               *)
(***************************************************************************)
Cancel(s) ==
    /\ cur = NoSlot /\ s \in orders_by_id
    /\ LET side  == order[s].side
           q     == order[s].price
           level == levels[side][q]
           emptied == Len(level) = 1
       IN  /\ itch' = <<Msg("X", s, side, q, order[s].qty)>>
           /\ \E i \in 1 .. Len(level) :
                /\ level[i] = s
                /\ levels' = [levels EXCEPT ![side][q] = remove(level, i)]
           /\ bits' = [bits EXCEPT ![side] = IF emptied THEN @ \ {q} ELSE @]
           /\ best' = [best EXCEPT ![side] = IF emptied /\ q = @ THEN Rescanned(side, q) ELSE @]
    /\ reported' = [Kept(reported, "none") EXCEPT ![s] = "CANCELED"]
    /\ acked' = Kept(acked, 0)
    /\ orders_by_id' = orders_by_id \ {s}
    /\ order' = [order EXCEPT ![s] = NoOrder]
    /\ UNCHANGED <<cur, p>>

Match ==
    \/ \E s \in Slots, c \in Clients, side \in Sides, price \in QuotePrices, qty \in 1 .. MaxQty :
          Submit(s, c, side, price, qty)
    \/ \E s \in Slots : Discard(s)
    \/ MatchStep

Next == Match \/ \E s \in Slots : Cancel(s)

Spec == Init /\ [][Next]_vars

-----------------------------------------------------------------------------
(* Properties                                                              *)

\* Every variable holds a value of its C++ type.
TypeOK ==
    /\ order \in [Slots -> Orders \cup {NoOrder}]
    /\ levels \in [Sides -> [Prices -> Seq(Slots)]]
    /\ bits \in [Sides -> SUBSET Prices]
    /\ best \in [Sides -> Prices]
    /\ orders_by_id \subseteq Slots
    /\ cur \in Slots \cup {NoSlot}
    /\ cur # NoSlot => order[cur] # NoOrder
    /\ p \in Prices \cup {-1}
    /\ itch \in Seq([type : {"A", "E", "X"}, slot : Slots, side : Sides, price : Prices, qty : 0 .. MaxQty])
    /\ reported \in [Slots -> {"none", "NEW", "PARTIAL_FILL", "FILLED", "CANCELED", "REJECTED"}]
    /\ acked \in [Slots -> Nat]

(***************************************************************************)
(* The book never rests crossed: no resting buy is at or above a resting   *)
(* sell, not even in the middle of match_order().  monitoring/core/        *)
(* orderbook.py relies on it when it takes a crossed book for a lost       *)
(* message.                                                                *)
(***************************************************************************)
NeverCrossed ==
    \A b, a \in Prices : levels["B"][b] # <<>> /\ levels["S"][a] # <<>> => b < a

(***************************************************************************)
(* What makes the cached prices and bitmaps safe to match from.  A bit is  *)
(* set exactly when its level has an order.  The cached best price may be  *)
(* stale, but never hides a level: no marked level is better than it.  The *)
(* cursor of a match in progress has no marked level behind it.            *)
(***************************************************************************)
BitsExact == \A side \in Sides, q \in Prices : q \in bits[side] <=> levels[side][q] # <<>>

NoneBetter(side, q) == \A r \in bits[side] : IF side = "B" THEN r <= q ELSE q <= r

CursorBound ==
    cur # NoSlot => IF p = -1 THEN bits[Opposite] = {} ELSE NoneBetter(Opposite, p)

(***************************************************************************)
(* The lookup table the cancel path trusts is exact.  A slot is in         *)
(* orders_by_id just when its order is linked, once, into the level of its *)
(* own side and price; every linked slot holds an order with shares left,  *)
(* and the order being matched is not linked yet.                          *)
(***************************************************************************)
LookupExact ==
    /\ \A side \in Sides, q \in Prices :
          \A i \in DOMAIN levels[side][q] :
             /\ levels[side][q][i] \in orders_by_id
             /\ order[levels[side][q][i]].side = side
             /\ order[levels[side][q][i]].price = q
             /\ \A j \in DOMAIN levels[side][q] : levels[side][q][i] = levels[side][q][j] => i = j
    /\ \A s \in orders_by_id :
          /\ order[s] # NoOrder /\ order[s].qty > 0 /\ s # cur
          /\ \E i \in DOMAIN levels[order[s].side][order[s].price] :
                levels[order[s].side][order[s].price][i] = s
    /\ \A s \in Slots \ (orders_by_id \cup {cur}) : order[s] = NoOrder

(***************************************************************************)
(* The parts of the book agree between any two steps of match_order() and  *)
(* cancel_order(): bitmaps and lists, cached best prices, cursor and       *)
(* lookup table, over a book that is never crossed.                        *)
(***************************************************************************)
BookInv ==
    /\ TypeOK
    /\ BitsExact
    /\ \A side \in Sides : NoneBetter(side, best[side])
    /\ CursorBound
    /\ LookupExact
    /\ NeverCrossed

(***************************************************************************)
(* Shares are neither made nor lost: what an order's owner was told was    *)
(* executed and what is still open add up to what was asked for.           *)
(***************************************************************************)
SharesConserved ==
    \A s \in Slots : order[s] # NoOrder => acked[s] + order[s].qty = order[s].asked

(***************************************************************************)
(* The audit trail ends truthfully.  When an order leaves its slot the     *)
(* last drop copy about it is FILLED if its owner was told of all its      *)
(* shares, and CANCELED or REJECTED if some were left.                     *)
(***************************************************************************)
FinalReportTrue ==
    [][\A s \in Slots :
         order[s] # NoOrder /\ order'[s] = NoOrder =>
            reported'[s] \in IF acked'[s] = order[s].asked THEN {"FILLED"}
                             ELSE {"CANCELED", "REJECTED"}]_vars

Life == INSTANCE BookLife WITH resting <- orders_by_id

(***************************************************************************)
(* Seen from the slots, the book is the simple machine of module BookLife: *)
(* a match takes resting orders out one at a time, puts at most its own    *)
(* order in, and no cancel comes in between.                               *)
(***************************************************************************)
ImplementsBookLife == Life!Spec

(***************************************************************************)
(* match_order() returns: each iteration of its loops trades shares of the *)
(* incoming order or moves the cursor further from the best price, so what *)
(* it still wants and what is left of the ladder bound the number of       *)
(* iterations, over stale cached prices and levels that are empty alike.   *)
(***************************************************************************)
LadderLeft == IF p = -1 THEN 0 ELSE IF Opposite = "S" THEN MAX_PRICE - p ELSE p + 1

MatchProgresses ==
    [][cur # NoSlot /\ cur' = cur => Incoming.qty' + LadderLeft' < Incoming.qty + LadderLeft]_vars
=============================================================================
