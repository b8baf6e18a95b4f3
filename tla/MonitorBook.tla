---------------------------- MODULE MonitorBook ----------------------------
(***************************************************************************)
(* The monitor's reconstruction of a book (monitoring/core/orderbook.py)   *)
(* fed by the engine's market data.  Messages carry no sequence numbers    *)
(* and any of them can be lost: a full queue, a short sendmmsg(), a full   *)
(* socket buffer.  A behaviour in which none is, is told apart.  The       *)
(* reader thread sweeps its books now and then (tui/app.py).               *)
(*                                                                         *)
(* Book.orders is kept as the sequence of its entries in the order of      *)
(* their touched_at, oldest first; its price levels are sums over it.      *)
(***************************************************************************)
EXTENDS OrderBook

VARIABLES seen,      \* Book.orders, by touched_at
          lossless   \* no message is lost in this behaviour

monitorVars == <<vars, seen, lossless>>

\* live is not in the code: the entry's order is still resting in the engine.
Entry(m) == [slot |-> m.slot, side |-> m.side, price |-> m.price, qty |-> m.qty, live |-> TRUE]

Known(orders, s) == \E i \in DOMAIN orders : orders[i].slot = s
PlaceOf(orders, s) == CHOOSE i \in DOMAIN orders : orders[i].slot = s
EntryOf(orders, s) == orders[PlaceOf(orders, s)]
pop(orders, s) == IF Known(orders, s) THEN remove(orders, PlaceOf(orders, s)) ELSE orders

\* Slip: an execution only counts as a sign of life.
execute_Touch(orders, m) == Append(pop(orders, m.slot), EntryOf(orders, m.slot))

\* Slip: an entry with nothing left stays.
execute_KeepZero(orders, m) ==
    LET e == EntryOf(orders, m.slot)
    IN  IF e.qty < m.qty THEN pop(orders, m.slot)
        ELSE Append(pop(orders, m.slot), [e EXCEPT !.qty = @ - m.qty])

\* An 'E' for a known reference.
execute(orders, m) ==
    LET e == EntryOf(orders, m.slot)
    IN  IF e.qty <= m.qty THEN pop(orders, m.slot)
        ELSE Append(pop(orders, m.slot), [e EXCEPT !.qty = @ - m.qty])

apply(orders, m) ==
    CASE m.type = "A" -> Append(pop(orders, m.slot), Entry(m))
      [] m.type = "E" -> IF Known(orders, m.slot) THEN execute(orders, m) ELSE orders
      [] m.type = "X" -> pop(orders, m.slot)

\* The reader applies a datagram after the other.
applyAll(orders, msgs) ==
    LET after[n \in 0 .. Len(msgs)] == IF n = 0 THEN orders ELSE apply(after[n - 1], msgs[n])
    IN  after[Len(msgs)]

-----------------------------------------------------------------------------
(* repair_crossed()                                                        *)

EntriesOf(orders) == {orders[i] : i \in DOMAIN orders}

PricesOf(orders, side) == {e.price : e \in {x \in EntriesOf(orders) : x.side = side}}

Crossed(orders) ==
    \E b \in PricesOf(orders, "B"), a \in PricesOf(orders, "S") : a <= b

\* The entries on a level that reaches the other side's best price.
Crossing(orders, e) == \E q \in PricesOf(orders, Other(e.side)) : Crosses(e.side, q, e.price)

\* The one with the oldest touched_at.
Victim(orders) ==
    orders[CHOOSE i \in DOMAIN orders :
              /\ Crossing(orders, orders[i])
              /\ \A j \in 1 .. i - 1 : ~Crossing(orders, orders[j])]

\* max_evictions is far above the number of entries here: one round for each suffices.
repair_crossed(orders) ==
    LET after[n \in 0 .. Len(orders)] ==
            IF n = 0 THEN orders
            ELSE LET left == after[n - 1]
                 IN  IF Crossed(left) THEN pop(left, Victim(left).slot) ELSE left
    IN  after[Len(orders)]

-----------------------------------------------------------------------------
\* What can arrive of the messages a step broadcast: there are at most two.
Arriving(msgs) == {msgs, <<>>} \cup {<<msgs[i]>> : i \in DOMAIN msgs}

\* History: an entry whose order has left the engine is no longer live.
Aged(orders) == [i \in DOMAIN orders |->
                   [orders[i] EXCEPT !.live = @ /\ orders[i].slot \in orders_by_id']]

\* A step of the engine, and what the reader makes of its messages.
Follow ==
    /\ Next
    /\ \E msgs \in IF lossless THEN {itch'} ELSE Arriving(itch') : seen' = Aged(applyAll(seen, msgs))
    /\ UNCHANGED lossless

(***************************************************************************)
(* _sweep(): repair_crossed(), then evict_stale(), which takes the n that  *)
(* have not been touched for the time to live, the oldest.                 *)
(***************************************************************************)
Sweep(n) ==
    /\ LET kept == repair_crossed(seen) IN seen' = SubSeq(kept, n + 1, Len(kept))
    /\ UNCHANGED <<vars, lossless>>

MonitorInit == Init /\ seen = <<>> /\ lossless \in BOOLEAN
MonitorNext == Follow \/ \E n \in 0 .. Len(seen) : Sweep(n)
MonitorSpec == MonitorInit /\ [][MonitorNext]_monitorVars

\* The reader thread sweeps every SWEEP_INTERVAL_S, and the oldest entry grows stale.
FairMonitorSpec == MonitorSpec /\ WF_monitorVars(Sweep(1))

-----------------------------------------------------------------------------
(* Properties                                                              *)

\* The entry agrees with the order that rests in its slot.
TrueEntry(e) ==
    /\ e.slot \in orders_by_id
    /\ <<e.side, e.price, e.qty>> = <<order[e.slot].side, order[e.slot].price, order[e.slot].qty>>

(***************************************************************************)
(* When nothing is lost, the monitor's book holds nothing but the engine's *)
(* resting orders with their open quantities, although slots are reused    *)
(* and the executions of incoming orders name references that never        *)
(* rested.  An order that comes to rest is always entered, and one that    *)
(* rests leaves only because evict_stale() finds it untouched for too      *)
(* long: repair_crossed() never takes a true one.                          *)
(***************************************************************************)
MonitorTrue ==
    [][lossless =>
         /\ \A e \in EntriesOf(seen') : TrueEntry(e)'
         /\ \A s \in orders_by_id' : s \notin orders_by_id => Known(seen', s)
         /\ \A s \in orders_by_id' :
               Known(seen, s) /\ ~Known(seen', s) => UNCHANGED vars /\ Known(repair_crossed(seen), s)
      ]_monitorVars

(***************************************************************************)
(* An order whose removal was lost does not stay in the monitor's book for *)
(* ever, even though executions of later orders in the same slot can make  *)
(* its entry look fresh: each of them uses up some of it.                  *)
(***************************************************************************)
PhantomAt(s) == \E e \in EntriesOf(seen) : e.slot = s /\ ~e.live

PhantomsLeave == \A s \in Slots : PhantomAt(s) ~> ~PhantomAt(s)
=============================================================================
