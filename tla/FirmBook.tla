------------------------------ MODULE FirmBook ------------------------------
(***************************************************************************)
(* The firm's own order book, fed by the market data of module OrderBook:  *)
(* LocalExchangeConnector::start_market_data() turns each ItchMessage into *)
(* a tick, and book_builder.h keeps the book as arrays with cached best    *)
(* prices (HotBook, the first 64 instruments) or as sorted maps (ColdBook, *)
(* the rest).  Both are fed here with the same ticks.  compute_signals()   *)
(* (signal_engine.h) reads the snapshot, and the strategies derive their   *)
(* prices from the signals (market_maker.h, taker.h).                      *)
(*                                                                         *)
(* No message is lost: what differs from the exchange's book differs by    *)
(* what the firm does with the messages.                                   *)
(***************************************************************************)
EXTENDS OrderBook, SequencesExt

CONSTANTS Word,           \* 2^32: quantities and prices are uint32_t
          SPREAD_MARGIN,  \* of the maker
          Threshold,      \* IMBALANCE_THRESHOLD, in tenths
          MaxCancels      \* bound: cancels at the exchange

ASSUME WordAssumption ==
    /\ Word \in Nat /\ MaxCancels \in Nat /\ MAX_PRICE < Word
    /\ SPREAD_MARGIN \in Nat \ {0} /\ Threshold \in 0 .. 10

VARIABLES
    hot,        \* side -> price -> quantity
    hot_best,   \* side -> best_bid / best_ask
    cold,       \* side -> price -> quantity, for the prices in the map
    canceled    \* number of orders cancelled at the exchange so far

firmVars == <<hot, hot_best, cold, canceled>>

InitFirm ==
    /\ Init
    /\ hot = [side \in Sides |-> [q \in Prices |-> 0]]
    /\ hot_best = [side \in Sides |-> Worst(side)]
    /\ cold = [side \in Sides |-> [q \in {} |-> 0]]
    /\ canceled = 0

-----------------------------------------------------------------------------
\* Slip: executions are taken for additions.
IsTrade_Never(msg) == FALSE

\* Whatever is not an execution is added: a cancel too.
IsTrade(msg) == msg.type = "E"

\* uint32_t arithmetic.
Plus(x, y) == (x + y) % Word
Minus(x, y) == (x - y) % Word

Less(have, qty) == IF have >= qty THEN have - qty ELSE 0

\* Slip: a used-up best price is kept.
Rescan_Kept(side, level, q) == q

\* The loops over the array, down to 0 or up to MAX_PRICE_LEVELS - 1.
Rescan(side, level, q) ==
    LET filled == {r \in Prices : level[r] # 0 /\ IF side = "B" THEN r <= q ELSE r >= q}
    IN  IF filled = {} THEN Worst(side) ELSE Nearest(side, filled)

\* HotBook::process_tick on the pair of the levels and the best prices.
HotTick(book, msg) ==
    LET side  == msg.side
        level == IF IsTrade(msg) THEN [book.qty[side] EXCEPT ![msg.price] = Less(@, msg.qty)]
                                 ELSE [book.qty[side] EXCEPT ![msg.price] = Plus(@, msg.qty)]
        now   == book.best[side]
        next  == IF ~IsTrade(msg) THEN Nearest(side, {now, msg.price})
                 ELSE IF level[msg.price] = 0 /\ msg.price = now THEN Rescan(side, level, now)
                 ELSE now
    IN  [qty  |-> [book.qty EXCEPT ![side] = level],
         best |-> [book.best EXCEPT ![side] = next]]

\* An execution in a ColdBook's map; nothing when the price is not there.
Reduced(map, q, qty) ==
    IF q \in DOMAIN map /\ map[q] > qty THEN [map EXCEPT ![q] = @ - qty]
                                        ELSE Restrict(map, DOMAIN map \ {q})

\* An entry that wraps to 0 stays in the map.
Increased(map, q, qty) == (q :> Plus(IF q \in DOMAIN map THEN map[q] ELSE 0, qty)) @@ map

\* ColdBook::process_tick
ColdTick(book, msg) ==
    [book EXCEPT ![msg.side] = IF IsTrade(msg) THEN Reduced(@, msg.price, msg.qty)
                                               ELSE Increased(@, msg.price, msg.qty)]

(***************************************************************************)
(* A step of the exchange and the ticks of the messages it broadcasts.     *)
(***************************************************************************)
Ticks ==
    LET book == FoldLeft(HotTick, [qty |-> hot, best |-> hot_best], itch')
    IN  /\ hot' = book.qty /\ hot_best' = book.best
        /\ cold' = FoldLeft(ColdTick, cold, itch')

Trade == Match /\ Ticks /\ UNCHANGED canceled
CancelOne(s) == canceled < MaxCancels /\ Cancel(s) /\ Ticks /\ canceled' = canceled + 1

NextFirm == Trade \/ \E s \in Slots : CancelOne(s)

SpecFirm == InitFirm /\ [][NextFirm]_<<vars, firmVars>>

-----------------------------------------------------------------------------
(* The snapshots and what is computed from them.                           *)

HotSnapshot ==
    [best |-> hot_best, qty |-> [side \in Sides |-> hot[side][hot_best[side]]]]

ColdSnapshot ==
    LET Begin(side) == IF cold[side] = <<>> THEN Worst(side) ELSE Nearest(side, DOMAIN cold[side])
    IN  [best |-> [side \in Sides |-> Begin(side)],
         qty  |-> [side \in Sides |-> IF cold[side] = <<>> THEN 0 ELSE cold[side][Begin(side)]]]

\* compute_signals(): nothing to say of a market with an empty side.
valid(snap) ==
    /\ snap.best["B"] # 0 /\ snap.best["S"] # MAX_PRICE - 1
    /\ ~(snap.qty["B"] = 0 /\ snap.qty["S"] = 0)

spread(snap) == Minus(snap.best["S"], snap.best["B"])
twice_mid(snap) == snap.best["B"] + snap.best["S"]
total_qty(snap) == Plus(snap.qty["B"], snap.qty["S"])

\* micro_price before the division; products and sum are uint32_t too.
Weighted(snap) == snap.best["B"] * snap.qty["S"] + snap.best["S"] * snap.qty["B"]

(***************************************************************************)
(* micro_price without its fraction.  Both operands are rounded to float   *)
(* and so is the quotient, less than 1/32 off below MAX_PRICE_LEVELS: an   *)
(* integer may come out just below itself, a fraction at the next integer. *)
(***************************************************************************)
micro_floors(snap) ==
    LET total == total_qty(snap)
        f == (Weighted(snap) % Word) \div total
    IN  IF (Weighted(snap) % Word) % total = 0 THEN {f - 1, f} ELSE {f - 1, f, f + 1}

\* imbalance beyond the threshold either way; its numerator is taken unsigned.
BidPressure(snap) == 10 * Minus(snap.qty["B"], snap.qty["S"]) > Threshold * total_qty(snap)
AskPressure(snap) == 10 * Minus(snap.qty["B"], snap.qty["S"]) < -Threshold * total_qty(snap)

\* MarketMakerStrategy's fair_value, truncated.
fair_values(snap) ==
    {f + (IF BidPressure(snap) THEN 1 ELSE IF AskPressure(snap) THEN -1 ELSE 0) : f \in micro_floors(snap)}

\* Slip: the margin is forgotten on the bid side.
desired_bid_NoMargin(fair) == fair

desired_bid(fair) == Minus(fair, SPREAD_MARGIN)
desired_ask(fair) == fair + SPREAD_MARGIN + 1

\* TakerStrategy's best_ask and best_bid: mid and half the spread are exact in float.
touch_ask(snap) == (twice_mid(snap) + spread(snap) + 1) \div 2
touch_bid(snap) == (twice_mid(snap) - spread(snap) + 1) \div 2

-----------------------------------------------------------------------------
(* Properties                                                              *)

\* Every variable of the firm holds a value of its type.
TypeOKFirm ==
    /\ hot \in [Sides -> [Prices -> 0 .. Word - 1]]
    /\ hot_best \in [Sides -> Prices]
    /\ \A side \in Sides : DOMAIN cold[side] \subseteq Prices /\ Range(cold[side]) \subseteq 0 .. Word - 1
    /\ canceled \in 0 .. MaxCancels

(***************************************************************************)
(* The two representations agree: after any market data HotBook and        *)
(* ColdBook hold the same quantity at every price, and the HotBook's       *)
(* cached best prices, moved by additions and rescans, are those of the    *)
(* ColdBook's maps.  Only a level that 2^32 shares of additions wrapped to *)
(* 0 sets them apart: the ColdBook keeps it, a rescan passes over it.      *)
(***************************************************************************)
HotMatchesCold ==
    /\ TypeOKFirm
    /\ \A side \in Sides, q \in Prices :
           hot[side][q] = IF q \in DOMAIN cold[side] THEN cold[side][q] ELSE 0
    /\ (\A side \in Sides : 0 \notin Range(cold[side])) => HotSnapshot = ColdSnapshot

OpenAt(side, q) == FoldLeft(LAMBDA sum, s : sum + order[s].qty, 0, levels[side][q])
RestingPrices(side) == {q \in Prices : OpenAt(side, q) > 0}

(***************************************************************************)
(* Until something is cancelled the firm's book is the exchange's book at  *)
(* every level, also in the middle of a match: the second execution        *)
(* message of a trade, which names the incoming order, takes nothing away. *)
(***************************************************************************)
BookSeen == canceled = 0 => \A side \in Sides, q \in Prices : hot[side][q] = OpenAt(side, q)

(***************************************************************************)
(* taker.h: "a marketable order that actually removes resting liquidity    *)
(* (guaranteed fills when a maker is quoting the other side)".             *)
(***************************************************************************)
TakerFills ==
    LET snap == HotSnapshot
    IN  valid(snap) =>
            /\ BidPressure(snap) /\ RestingPrices("S") # {} =>
                   \E q \in RestingPrices("S") : q <= touch_ask(snap)
            /\ AskPressure(snap) /\ RestingPrices("B") # {} =>
                   \E q \in RestingPrices("B") : q >= touch_bid(snap)

(***************************************************************************)
(* Until something is cancelled the maker is passive and the taker is not: *)
(* what the taker sends meets what rests, and a quote that on_tick()       *)
(* derives from micro price, skew and margin never crosses it, however the *)
(* floats round and although the imbalance wraps when asks outweigh bids.  *)
(* For the maker this needs prices times quantities that fit in 32 bits, a *)
(* fair value of at least the margin (both wrap otherwise) and a margin of *)
(* at least 2, the default: a skew and a rounding use one tick each.       *)
(***************************************************************************)
PricesAsMeant ==
    LET snap == HotSnapshot
    IN  canceled = 0 =>
            /\ TakerFills
            /\ valid(snap) /\ Weighted(snap) < Word =>
                   \A fair \in fair_values(snap) : fair >= SPREAD_MARGIN =>
                       /\ \A q \in RestingPrices("S") : desired_bid(fair) < q
                       /\ \A q \in RestingPrices("B") : desired_ask(fair) > q

(***************************************************************************)
(* signal_engine.h: imbalance has the "Range: [-1.0, 1.0]".  It is         *)
(* (bid_qty - ask_qty) / total_qty.                                        *)
(***************************************************************************)
ImbalanceInRange ==
    LET snap == HotSnapshot
    IN  valid(snap) => Minus(snap.qty["B"], snap.qty["S"]) \in -total_qty(snap) .. total_qty(snap)
=============================================================================
