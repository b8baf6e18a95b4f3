----------------------------- MODULE FirmOrders -----------------------------
(***************************************************************************)
(* The firm's orders: the market-data thread turns a tick into actions     *)
(* (strategy/market_maker.h, taker.h), checks each against the risk limits *)
(* (risk/risk_manager.h), tracks it and queues it (execution_engine.h,     *)
(* LocalExchangeConnector.h); the transmit thread puts it on the wire; the *)
(* receive thread applies the fills that come back.  The three share the   *)
(* tracker, the counters and the position without locks.                   *)
(*                                                                         *)
(* One instrument and one connection.  The exchange is what the firm can   *)
(* see of it: it accepts orders, looks the token of a cancel up, and       *)
(* executes what rests, in parts.  An execution's report may be lost: at   *)
(* a full ack queue, with a connection the gateway gives up, or in a       *)
(* fragment the receive thread throws away (all in AckStream).             *)
(***************************************************************************)
EXTENDS Integers, Sequences, FiniteSets

CONSTANTS QUOTE_SIZE,        \* MM_SIZE or TAKER_SIZE
          MAX_ORDER_QTY, MAX_POSITION, MSG_RATE_LIMIT,
          MAX_LIVE_ORDERS,   \* size of order_tracker
          QueueCap,          \* capacity of order_queue
          BatchSize,         \* orders in a batch of TCP_MODE 3
          BidPrices, AskPrices,
          MaxIds             \* bound: order ids the strategy hands out

ASSUME FirmAssumption ==
    /\ {QUOTE_SIZE, MAX_ORDER_QTY, MAX_POSITION, MSG_RATE_LIMIT, MAX_LIVE_ORDERS, QueueCap, BatchSize, MaxIds} \subseteq Nat \ {0}
    /\ BidPrices \subseteq Nat /\ AskPrices \subseteq Nat

VARIABLES
    strategy, counter, quote,        \* the strategy: local_order_counter, current_*_price
    mpc, actions, msg_count,         \* the market-data thread, outbound_actions; the rate limiter
    tracker, in_flight, num_acked,   \* ExecutionEngine
    position,                        \* RiskManager
    rpc,                             \* the receive thread
    queue, wire, reports,            \* order_queue; to the exchange; from it
    tcp_mode, batch, sending,        \* the transmit thread; it has stopped gathering
    book,                            \* the exchange: open orders
    net, lost_net                    \* shares executed of tracked orders, and those whose report was lost

md == <<strategy, counter, quote, mpc, actions, msg_count>>
rx == <<rpc, num_acked, position>>
tx == <<tcp_mode, batch, sending>>
exchange == <<book, net, lost_net>>
orders_vars == <<md, rx, tx, tracker, in_flight, queue, wire, reports, exchange>>

Ids == 1 .. MaxIds
OrderSides == {"B", "S"}
Signed(side, qty) == IF side = "B" THEN qty ELSE -qty
Tracked(id) == id < MAX_LIVE_ORDERS

New(id, side) == [id |-> id, side |-> side, qty |-> QUOTE_SIZE, cancel |-> FALSE]

\* A cancel too takes the next number of the counter, not the one of the quote it is for.
CancelOf(id, side) == [id |-> id, side |-> side, qty |-> QUOTE_SIZE, cancel |-> TRUE]
Action == [id : Ids, side : OrderSides, qty : {QUOTE_SIZE}, cancel : BOOLEAN]

OrdersInit ==
    /\ strategy \in {"maker", "taker"} /\ counter = 1 /\ quote = [s \in OrderSides |-> 0]
    /\ mpc = "idle" /\ actions = <<>> /\ msg_count = 0
    /\ tracker = [id \in Ids |-> [side |-> "B", remaining |-> 0, active |-> FALSE]]
    /\ in_flight = 0 /\ num_acked = 0 /\ position = 0
    /\ rpc = "idle" /\ tcp_mode \in {2, 3} /\ batch = <<>> /\ sending = FALSE
    /\ queue = <<>> /\ wire = <<>> /\ reports = <<>>
    /\ book = [id \in Ids |-> [side |-> "B", qty |-> 0]] /\ net = 0 /\ lost_net = 0

-----------------------------------------------------------------------------
(* The market-data thread.                                                 *)

(***************************************************************************)
(* One side of MarketMakerStrategy::on_tick: nothing when the price is the *)
(* one quoted; else a cancel when there is a quote, and the new quote,     *)
(* each with the next number of local_order_counter.                       *)
(***************************************************************************)
Requote(side, price, next) ==
    CASE price = quote[side] -> <<>>
      [] price # quote[side] /\ quote[side] = 0 -> <<New(next, side)>>
      [] price # quote[side] /\ quote[side] # 0 -> <<CancelOf(next, side), New(next + 1, side)>>

MakerTick(bid, ask) ==
    LET bids == Requote("B", bid, counter)
        all  == bids \o Requote("S", ask, counter + Len(bids))
    IN  /\ strategy = "maker" /\ mpc = "idle"
        /\ counter + Len(all) - 1 <= MaxIds
        /\ counter' = counter + Len(all)
        /\ quote' = [s \in OrderSides |-> IF s = "B" THEN bid ELSE ask]
        /\ actions' = all /\ mpc' = "risk"
        /\ UNCHANGED <<strategy, msg_count, tracker, in_flight, rx, tx, queue, wire, reports, exchange>>

\* TakerStrategy::on_tick with an imbalance beyond the threshold.
TakerTick(side) ==
    /\ strategy = "taker" /\ mpc = "idle" /\ counter <= MaxIds
    /\ counter' = counter + 1
    /\ actions' = <<New(counter, side)>> /\ mpc' = "risk"
    /\ UNCHANGED <<strategy, quote, msg_count, tracker, in_flight, rx, tx, queue, wire, reports, exchange>>

\* The fat-finger check, and the inventory check on the position confirmed by now.
WithinLimits(a) ==
    a.qty <= MAX_ORDER_QTY /\
    IF a.side = "B" THEN position + a.qty <= MAX_POSITION ELSE position - a.qty >= -MAX_POSITION

\* execute_action(): cancels, and ids beyond the tracker, are only dispatched.
Passed(a) == mpc' = (IF ~a.cancel /\ Tracked(a.id) THEN "track" ELSE "send") /\ UNCHANGED actions
Blocked == actions' = Tail(actions) /\ mpc' = "risk"

(***************************************************************************)
(* check_order(), in the second of the last order or in a later one.       *)
(* Nothing calls trigger_kill_switch(), so that test never refuses.        *)
(***************************************************************************)
CheckRisk ==
    /\ mpc = "risk" /\ actions # <<>>
    /\ LET a == Head(actions)
       IN  \/ a.cancel /\ Passed(a) /\ UNCHANGED msg_count
           \/ ~a.cancel /\ ~WithinLimits(a) /\ Blocked /\ UNCHANGED msg_count
           \/ /\ ~a.cancel /\ WithinLimits(a)
              /\ \E before \in {msg_count, 0} :
                    /\ msg_count' = before + 1
                    /\ IF before + 1 > MSG_RATE_LIMIT THEN Blocked ELSE Passed(a)
    /\ UNCHANGED <<strategy, counter, quote, tracker, in_flight, rx, tx, queue, wire, reports, exchange>>

TickDone ==
    /\ mpc = "risk" /\ actions = <<>>
    /\ mpc' = "idle"
    /\ UNCHANGED <<strategy, counter, quote, actions, msg_count, tracker, in_flight, rx, tx, queue, wire, reports, exchange>>

\* The slot's fields, then is_active with release: a reader of it sees the fields.
Track ==
    /\ mpc = "track"
    /\ LET a == Head(actions)
       IN tracker' = [tracker EXCEPT ![a.id] = [side |-> a.side, remaining |-> a.qty, active |-> TRUE]]
    /\ mpc' = "count"
    /\ UNCHANGED <<strategy, counter, quote, actions, msg_count, in_flight, rx, tx, queue, wire, reports, exchange>>

CountInFlight ==
    /\ mpc = "count"
    /\ in_flight' = in_flight + 1
    /\ mpc' = "send"
    /\ UNCHANGED <<strategy, counter, quote, actions, msg_count, tracker, rx, tx, queue, wire, reports, exchange>>

\* send_order() spins while order_queue is full.
send_order ==
    /\ mpc = "send" /\ Len(queue) < QueueCap
    /\ queue' = Append(queue, Head(actions))
    /\ actions' = Tail(actions) /\ mpc' = "risk"
    /\ UNCHANGED <<strategy, counter, quote, msg_count, tracker, in_flight, rx, tx, wire, reports, exchange>>

\* The transmit thread sends one at a time, in modes 1 and 2.
Transmit ==
    /\ tcp_mode = 2 /\ queue # <<>>
    /\ wire' = Append(wire, Head(queue)) /\ queue' = Tail(queue)
    /\ UNCHANGED <<md, rx, tx, tracker, in_flight, reports, exchange>>

\* In mode 3 it gathers orders; a batch has no cancels.
Gather ==
    /\ tcp_mode = 3 /\ ~sending /\ queue # <<>> /\ Len(batch) < BatchSize
    /\ batch' = IF Head(queue).cancel THEN batch ELSE Append(batch, Head(queue))
    /\ queue' = Tail(queue)
    /\ UNCHANGED <<md, rx, tcp_mode, sending, tracker, in_flight, wire, reports, exchange>>

\* The batch is full, or dequeue() finds the queue empty.
GatherEnd ==
    /\ ~sending /\ batch # <<>> /\ (queue = <<>> \/ Len(batch) = BatchSize)
    /\ sending' = TRUE
    /\ UNCHANGED <<md, rx, tcp_mode, batch, tracker, in_flight, queue, wire, reports, exchange>>

\* The batch goes out, whatever has been queued since.
SendBatch ==
    /\ sending
    /\ wire' = wire \o batch /\ batch' = <<>> /\ sending' = FALSE
    /\ UNCHANGED <<md, rx, tcp_mode, tracker, in_flight, queue, reports, exchange>>

-----------------------------------------------------------------------------
(* The exchange, as seen from the firm.                                    *)

\* handle_client() takes an order, and the engine lets it rest before anything trades.
Accept ==
    /\ wire # <<>> /\ ~Head(wire).cancel
    /\ LET a == Head(wire)
       IN  book' = [book EXCEPT ![a.id] = [side |-> a.side, qty |-> a.qty]]
    /\ wire' = Tail(wire)
    /\ UNCHANGED <<md, rx, tx, tracker, in_flight, queue, reports, net, lost_net>>

\* Refused by the gateway's checks or a full pool, rejected as a self trade, or lost with the connection.
Refuse ==
    /\ wire # <<>> /\ ~Head(wire).cancel
    /\ wire' = Tail(wire)
    /\ UNCHANGED <<md, rx, tx, tracker, in_flight, queue, reports, exchange>>

\* A cancel of a token that is not there does nothing.
CancelByToken ==
    /\ wire # <<>> /\ Head(wire).cancel
    /\ book' = [book EXCEPT ![Head(wire).id].qty = 0]
    /\ wire' = Tail(wire)
    /\ UNCHANGED <<md, rx, tx, tracker, in_flight, queue, reports, net, lost_net>>

\* One execution of match_order(); send_ack() and the way to the firm may lose its report.
Execute(id, qty) ==
    /\ qty <= book[id].qty
    /\ book' = [book EXCEPT ![id].qty = @ - qty]
    /\ LET shares == IF Tracked(id) THEN Signed(book[id].side, qty) ELSE 0
       IN  /\ net' = net + shares
           /\ \/ reports' = Append(reports, [id |-> id, qty |-> qty]) /\ UNCHANGED lost_net
              \/ lost_net' = lost_net + shares /\ UNCHANGED reports
    /\ UNCHANGED <<md, rx, tx, tracker, in_flight, queue, wire>>

-----------------------------------------------------------------------------
(* The receive thread.                                                     *)

\* Slip: a partial fill closes the order.
Closes_Partial(t, qty) == TRUE

\* A fill of all that remains closes the order.
Closes(t, qty) == qty >= t.remaining

\* Slip: a sale adds to the position.
on_fill_Unsigned(t, qty) == position' = position + qty

on_fill(t, qty) == position' = position + Signed(t.side, qty)

\* on_execution_report(), up to the update of in_flight_.
on_execution_report ==
    /\ rpc = "idle" /\ reports # <<>>
    /\ reports' = Tail(reports)
    /\ LET id  == Head(reports).id
           qty == Head(reports).qty
           t   == tracker[id]
       IN  IF Tracked(id) /\ t.active
           THEN /\ on_fill(t, qty)
                /\ num_acked' = num_acked + 1
                /\ tracker' = [tracker EXCEPT ![id] =
                                 IF Closes(t, qty) THEN [t EXCEPT !.remaining = 0, !.active = FALSE]
                                 ELSE [t EXCEPT !.remaining = @ - qty]]
                /\ rpc' = IF Closes(t, qty) THEN "close" ELSE "idle"
           ELSE UNCHANGED <<position, num_acked, tracker, rpc>>
    /\ UNCHANGED <<md, tx, in_flight, queue, wire, exchange>>

\* Slip: the close is not taken off.
CloseInFlight_Kept ==
    /\ rpc = "close"
    /\ rpc' = "idle"
    /\ UNCHANGED <<md, tx, num_acked, position, tracker, in_flight, queue, wire, reports, exchange>>

CloseInFlight ==
    /\ rpc = "close"
    /\ in_flight' = in_flight - 1
    /\ rpc' = "idle"
    /\ UNCHANGED <<md, tx, num_acked, position, tracker, queue, wire, reports, exchange>>

OrdersNext ==
    \/ \E bid \in BidPrices, ask \in AskPrices : MakerTick(bid, ask)
    \/ \E side \in OrderSides : TakerTick(side)
    \/ CheckRisk \/ TickDone \/ Track \/ CountInFlight \/ send_order
    \/ Transmit \/ Gather \/ GatherEnd \/ SendBatch
    \/ Accept \/ Refuse \/ CancelByToken
    \/ \E id \in Ids, qty \in 1 .. QUOTE_SIZE : Execute(id, qty)
    \/ on_execution_report \/ CloseInFlight

OrdersSpec == OrdersInit /\ [][OrdersNext]_orders_vars

-----------------------------------------------------------------------------
(* Properties                                                              *)

\* Every variable holds a value of its type.
OrdersTypeOK ==
    /\ strategy \in {"maker", "taker"} /\ counter \in 1 .. MaxIds + 1
    /\ quote \in [OrderSides -> BidPrices \cup AskPrices \cup {0}]
    /\ mpc \in {"idle", "risk", "track", "count", "send"}
    /\ actions \in Seq(Action) /\ msg_count \in Nat
    /\ tracker \in [Ids -> [side : OrderSides, remaining : 0 .. QUOTE_SIZE, active : BOOLEAN]]
    /\ in_flight \in Nat /\ num_acked \in Nat /\ position \in Int
    /\ rpc \in {"idle", "close"}
    /\ tcp_mode \in {2, 3} /\ batch \in Seq(Action) /\ Len(batch) <= BatchSize /\ sending \in BOOLEAN
    /\ queue \in Seq(Action) /\ Len(queue) <= QueueCap /\ wire \in Seq(Action)
    /\ reports \in Seq([id : Ids, qty : 1 .. QUOTE_SIZE])
    /\ book \in [Ids -> [side : OrderSides, qty : 0 .. QUOTE_SIZE]]
    /\ net \in Int /\ lost_net \in Int

Sum(f) == LET upTo[n \in 0 .. Len(f)] == IF n = 0 THEN 0 ELSE upTo[n - 1] + f[n] IN upTo[Len(f)]

\* The shares of an order in the reports on their way, and what these will add to the position.
Pending(id) == Sum([i \in DOMAIN reports |-> IF reports[i].id = id THEN reports[i].qty ELSE 0])

PendingNet ==
    Sum([i \in DOMAIN reports |->
           IF Tracked(reports[i].id) THEN Signed(book[reports[i].id].side, reports[i].qty) ELSE 0])

(***************************************************************************)
(* The exchange's answer never overtakes the firm's own bookkeeping, and   *)
(* partial fills never outrun it: every report on its way, for an id the   *)
(* tracker has room for, will find its order active with that many shares  *)
(* remaining, and never be logged as an unknown order.  With it, remaining *)
(* does not wrap below zero (OrdersTypeOK).                                *)
(***************************************************************************)
FillsAttributed ==
    OrdersTypeOK /\ \A id \in {i \in Ids : Tracked(i)} :
        Pending(id) + book[id].qty > 0 =>
            tracker[id].active /\ tracker[id].remaining >= Pending(id) + book[id].qty

(***************************************************************************)
(* in_flight_ is the number of active orders, up to the one increment and  *)
(* the one decrement that the two threads are about to make; so it never   *)
(* wraps below zero.                                                       *)
(***************************************************************************)
InFlightExact ==
    in_flight = Cardinality({id \in Ids : tracker[id].active})
                  - (IF mpc = "count" THEN 1 ELSE 0) + (IF rpc = "close" THEN 1 ELSE 0)

(***************************************************************************)
(* The confirmed position accounts for every share: it is what the         *)
(* exchange has executed of the tracked orders, less the reports still on  *)
(* their way and those that were lost.  No report is applied twice, to     *)
(* another order's side or not at all; and nothing ever makes up for a     *)
(* lost one, so check_order() goes on with a position that is off by it.   *)
(***************************************************************************)
PositionConfirmed == position + PendingNet + lost_net = net

(***************************************************************************)
(* market_maker.h: "Cancel old bid", "Send new bid", "Cancel old ask",     *)
(* "Send new ask".  Cancel and new quote go down one connection to one     *)
(* engine in that order, so the maker has at most one quote open on a      *)
(* side.                                                                   *)
(***************************************************************************)
OldQuoteCancelled ==
    strategy = "maker" /\ tcp_mode = 2 =>
        \A i, j \in Ids : book[i].qty > 0 /\ book[j].qty > 0 /\ book[i].side = book[j].side => i = j
=============================================================================
