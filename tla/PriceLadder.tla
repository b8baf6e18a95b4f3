---------------------------- MODULE PriceLadder ----------------------------
(***************************************************************************)
(* The two-level bitmaps a book finds its next price level with (set_bit,  *)
(* clear_bit, find_next_ask and find_next_bid of matching/orderbook.h),    *)
(* driven by the book.  Module OrderBook has the set of marked prices and  *)
(* takes the nearest; here are the words that stand for the set.  A word   *)
(* is the set of its bits that are one.  W is the word size, 64 in the     *)
(* code; a bit of the summary l2 stands for a word of bitmap, a word of l2 *)
(* for a group of W words.                                                 *)
(***************************************************************************)
EXTENDS OrderBook

CONSTANT W

ASSUME LadderAssumption == W \in Nat /\ W > 1

VARIABLES bitmap, l2    \* per side

ladderVars == <<bitmap, l2>>

Bits == 0 .. W - 1
NumWords == MAX_PRICE \div W + 1
NumL2 == MAX_PRICE \div (W * W) + 1

LadderInit ==
    /\ bitmap = [side \in Sides |-> [w \in 0 .. NumWords - 1 |-> {}]]
    /\ l2 = [side \in Sides |-> [g \in 0 .. NumL2 - 1 |-> {}]]

set_bit(side, price) ==
    LET w == price \div W
    IN  /\ bitmap' = [bitmap EXCEPT ![side][w] = @ \cup {price % W}]
        /\ l2' = [l2 EXCEPT ![side][w \div W] = @ \cup {w % W}]

clear_bit(side, price) ==
    LET w == price \div W
    IN  /\ bitmap' = [bitmap EXCEPT ![side][w] = @ \ {price % W}]
        /\ l2' = IF bitmap'[side][w] = {} THEN [l2 EXCEPT ![side][w \div W] = @ \ {w % W}] ELSE l2

\* The book's calls: match_order() clears the level it leaves even if it was not marked.
NewlySet(side) == bits'[side] \ bits[side]

Cleared(side) ==
    (bits[side] \ bits'[side])
        \cup {q \in {p} : InLoop /\ side = Opposite /\ p' # p /\ cur' = cur}

LadderStep ==
    \/ \E side \in Sides : \E price \in NewlySet(side) : set_bit(side, price)
    \/ \E side \in Sides : \E price \in Cleared(side) : clear_bit(side, price)
    \/ /\ \A side \in Sides : NewlySet(side) \cup Cleared(side) = {}
       /\ UNCHANGED ladderVars

-----------------------------------------------------------------------------
(* The scans.  ctz is the least bit of a word that is not zero, clz the    *)
(* distance of its greatest bit from the top.                              *)

LowestOf(T) == CHOOSE x \in T : \A y \in T : x <= y
HighestOf(T) == CHOOSE x \in T : \A y \in T : y <= x

ctz(word) == LowestOf(word)
clz(word) == W - 1 - HighestOf(word)

LowestIn(w) == w * W + ctz(bitmap["S"][w])
HighestIn(w) == w * W + (W - 1 - clz(bitmap["B"][w]))

\* Slip: no guard for the last bit; the shift count wraps to zero.
MaskAbove_NoGuard(bit) == {b \in Bits : b >= (bit + 1) % W}

MaskAbove(bit) == IF bit = W - 1 THEN {} ELSE {b \in Bits : b >= bit + 1}
MaskBelow(bit) == IF bit = 0 THEN {} ELSE {b \in Bits : b <= bit - 1}

find_next_ask(start) ==
    LET w      == start \div W
        word   == bitmap["S"][w] \cap {b \in Bits : b >= start % W}
        g      == w \div W
        group  == l2["S"][g] \cap MaskAbove(w % W)
        later  == {i \in g + 1 .. NumL2 - 1 : l2["S"][i] # {}}
    IN  CASE word # {} -> w * W + ctz(word)
          [] word = {} /\ group # {} -> LowestIn(g * W + ctz(group))
          [] word = {} /\ group = {} /\ later # {} ->
                LowestIn(LowestOf(later) * W + ctz(l2["S"][LowestOf(later)]))
          [] OTHER -> -1

find_next_bid(start) ==
    LET w       == start \div W
        word    == bitmap["B"][w] \cap {b \in Bits : b <= start % W}
        g       == w \div W
        group   == l2["B"][g] \cap MaskBelow(w % W)
        earlier == {i \in 0 .. g - 1 : l2["B"][i] # {}}
    IN  CASE word # {} -> w * W + (W - 1 - clz(word))
          [] word = {} /\ group # {} -> HighestIn(g * W + (W - 1 - clz(group)))
          [] word = {} /\ group = {} /\ earlier # {} ->
                HighestIn(HighestOf(earlier) * W + (W - 1 - clz(l2["B"][HighestOf(earlier)])))
          [] OTHER -> -1

-----------------------------------------------------------------------------
(* Properties                                                              *)

(***************************************************************************)
(* The words stand for the set of prices the book reasons with, and a      *)
(* summary bit is set just when its word is not zero: the scans take the   *)
(* ctz or clz of the word it names, which is undefined for zero.           *)
(***************************************************************************)
LadderExact ==
    \A side \in Sides :
        /\ \A price \in Prices : price \in bits[side] <=> price % W \in bitmap[side][price \div W]
        /\ \A w \in 0 .. NumWords - 1 : w % W \in l2[side][w \div W] <=> bitmap[side][w] # {}

(***************************************************************************)
(* The scans return what their comments say, the lowest set ask at or      *)
(* above the start and the highest set bid at or below it, from every      *)
(* start the book can call them with: MAX_PRICE itself is one, after the   *)
(* last ask.  It is what module OrderBook takes find_next for.  They can   *)
(* because LadderExact holds.                                              *)
(***************************************************************************)
ScansExact ==
    /\ LadderExact
    /\ \A start \in 0 .. MAX_PRICE : find_next_ask(start) = find_next("S", Beyond("S", bits["S"], start - 1))
    /\ \A start \in Prices : find_next_bid(start) = find_next("B", Beyond("B", bits["B"], start + 1))
=============================================================================
