# A TLA+ development of the trading ecosystem

The repository holds an exchange (`src/hft_engine`, C++), a trading firm that connects to it
(`src/hft-trading-firm`, C++) and a monitor that watches both (`src/monitoring`, Python). This directory
models their stateful parts in TLA+, checks them with TLC on small instances and proves some of the
results with TLAPS for all instances. The source is the reference: every definition that models code is
tied to its lines by the `map` of `PROJECT.json`.

## 1. The system

    firm                        exchange                                         monitor
    ----                        --------                                         -------
    strategy -> risk -> tracker
       | order_queue
    tx thread  --- OUCH/TCP --> gateway worker --queue--> engine (one per shard)
                                 |  ^   |   ^               |   |    |
                        session map |   |   +-- recycle ----+   |    |
                                    |   +-- rejects --+         |    |
    rx thread <-- reports/TCP ------+--- ack queue ---|---------+    |
                                                      v              v
    book <------- ITCH/UDP ---- publisher <-----------|--- ITCH ---- engine --> book reader
                                                 OrderManager --- mapped audit log --> audit reader
    stats region ------------------ stats region ---------------- seqlock ----> stats readers

* A gateway worker owns some TCP connections. It frames the byte stream, checks an order, takes a slot from
  its slice of the shard's memory pool, notes the slot in the session map and pushes a task into its own
  queue to the engine.
* An engine polls the queues of all workers, matches or cancels in the books of its instruments, and frees
  slots into the recycle queue of the worker they came from. Each execution yields market data, a drop copy
  and a private report.
* The publisher batches market data onto multicast; the OrderManager writes drop copies and rejects into a
  mapped file; the worker sends the private reports back on the client's connection.
* The firm rebuilds a book from market data, derives signals, quotes or takes, checks its own limits and
  tracks what it has sent. Three threads share the tracker and the position without locks.
* The monitor rebuilds a book, tails the audit log and reads the statistics regions of both programs.
* Every queue between two threads of the exchange is one lock-free ring; the firm has a ring of its own.
* The monitor's orchestrator starts the exchange, waits for its READY line on a pipe, and ends it with a
  signal that it escalates.

The parts the source and its docs name are the `components` of `PROJECT.json`, each with what is modelled
of it, or why it is not. What is hard to test in them, 40 hazards at the line where they bite, is in `hazards`.

## 2. Modules

| Module | Models | State and actions |
|---|---|---|
| `SpscRing` | `core/lock_free_queue.h` | `buffer`, `head`, `tail`, the two cached indices; push and pop, one atomic access per step. A refresh of a cached index can see any value the index has had since the last refresh, as acquire loads allow. |
| `BoundedFifo` | what the ring promises | a queue of at most `Bound` items |
| `FirmRing` | the firm's `utils/spsc_queue.h` | `entries`, `head`, `tail` that run freely and wrap at the word; enqueue and dequeue, one atomic access per step |
| `OrderBook` | `matching/orderbook.h` | level lists, marked prices, cached best prices, `orders_by_id`, the incoming order; one step per iteration of the matching loops, and `cancel_order`. Both sides of the code are one definition with a side. |
| `BookLife` | what a book does to slots | begun, used up, come to rest, left, removed |
| `PriceLadder` | `set_bit`, `clear_bit`, `find_next_*` | the words of the bitmap and its summary, with the word size a constant |
| `BookPriority` | nothing of its own | the history of arrivals, to state priority against |
| `MonitorBook` | `monitoring/core/orderbook.py`, the sweep in `tui/app.py` | the reconstructed book, following `OrderBook` with every message or with the loss of any; `repair_crossed` and `evict_stale` |
| `ObservedBook` | composition | the book with ladder and arrivals, in step |
| `ExchangeCore` | `tcp_server.h` (order entry), `session_manager.h`, `memory_pool.h`, `engine.cpp` | workers, session map, pool slices, queues, engine; the book in it is `BookLife`, the queues are bounded FIFOs |
| `GatewayFraming` | `handle_client` in `tcp_server.h` | socket, buffer with its two positions, edge-triggered wake-ups, malformed messages, hang-up by the client, and the connection given up from the egress side (`EgressClose`, what `AckStream` details) |
| `AckStream` | `drain_acks`, `send_report`, `flush_out`; the receive loops of `tcp_client.h` and `LocalExchangeConnector.h` | accept, an ack queue for every engine, the loop over them, out-buffer, `EPOLLOUT`, kernel buffers, closing and the reuse of the descriptor, the firm |
| `Publisher` | `market_data/publisher.h` | the shards' queues, the batch, `sendmmsg` that takes a part |
| `StatsSeqlock` | `core/stats_region.h`, `firm_stats.h`, both Python readers | sequence number, words, retries; a writer that dies |
| `AuditTrail` | `auxiliary/order_manager.h`, `feeds/audit_reader.py` | drop-copy and reject queues, the log, crash, shutdown, restart with the header written after the file was cleared, the tailing reader |
| `FirmOrders` | `market_maker.h`, `taker.h`, `risk_manager.h`, `execution_engine.h`, the transmit thread | the three threads of the firm, and the exchange as the firm sees it: it accepts, refuses, looks the token of a cancel up, executes in parts, and may lose a report |
| `FirmBook` | `book_builder.h`, tick decoding, `signal_engine.h`, the prices in `market_maker.h` and `taker.h` | array book and map book fed by `OrderBook`'s messages; signals in unsigned arithmetic that wraps, floats that round either way |
| `Lifecycle` | `app/exchange.cpp`, the barrier of `core/realtime.h`, the thread loops as far as they end, `monitoring/orchestrator.py` | `main()` from spawning to the last drain, the threads, `g_running`, a worker that pushes into a full engine queue, the fully buffered pipe, `launch()` and `shutdown()` |

`MC*` modules hold the constants of the models. Some also put independent machines into one run, the initial
state choosing which one is explored while the others stay as they are: `MCRings` the two rings, `MCNetwork`
the rings, the two directions of a connection and the publisher, `MCMonitorFeeds` the stats region and the
audit trail, `MCFirm` the firm's book and its orders.
`*Proofs` modules hold the theorems (section 4).
Definitions keep the names of the code where they can. An operator commented `Slip:` is a wrong version of
the definition after it. No specification uses it: put in the place of the right one it breaks one of the
properties, which shows that the property depends on that code (`mutants` in `PROJECT.json`).

How the components fit: `SpscRing` and `FirmRing` implement `BoundedFifo`, which is how every other module takes its
queues (a push that fails when full, a pop that fails when empty). `OrderBook` implements `BookLife`, which
is how `ExchangeCore` takes the book. `FirmBook` and `MonitorBook` consume the messages `OrderBook` sends.

## 3. Runs

`tlc -config X.cfg M`, for the pairs listed under `runs`.

| Run | Bounds | Shows |
|---|---|---|
| `Network` | rings: 4 slots, 2 items, the firm's indices wrap at 8; in: messages of 3 and 2 bytes, buffer of 5, 3 messages; out: reports of 2 units, 2 engines, queues of 2, out-buffer of 4, kernel of 3, 4 reports, 2 clients one after the other; feed: 2 shards, queues of 2, batches of 3 | rings: no slot is touched by both threads or overwritten unread (`NoSlotRace`), both are FIFOs (`ImplementsFifo`, `FirmRingIsFifo`), a polling consumer gets the oldest item (`OldestIsTaken`). In: messages are handled whole, in order and once however they are cut (`InStep`), and none stays unread unless the connection is given up (`AllHandled`). Out: a connection carries whole reports, at most once each, those of one engine in order (`StreamUnbroken`; between engines there is no order: `drain_acks` takes one queue after the other); a reused descriptor carries nothing of the client before (`AckToOwner`); a backlog has its wake-up armed (`BackedUpIsArmed`) and clears (`BacklogClears`). Feed: each shard's is in order and without duplicates (`FeedInOrder`), a partial batch leaves (`BatchLeaves`) |
| `OrderBook` | 3 orders at a time, 2 clients, quantities to 2, quotes at 2, 4 and 5 of 7 prices, words of 2 bits | lists, marks and best prices agree, `orders_by_id` is what rests and a book at rest is not crossed (`BookInv`); shares are conserved (`SharesConserved`) and the last report of an order is true (`FinalReportTrue`); bitmaps and scans are exact (`ScansExact`); priority (`PriceTimePriority`); every iteration of the loop makes progress (`MatchProgresses`); slots are treated as `BookLife` says (`ImplementsBookLife`) |
| `MonitorLoss` | 2 slots, 2 clients, quantities to 2; 2 prices without loss, 1 with it | while nothing is lost, an entry of the monitor agrees with the order that rests in its slot, and an order that rests leaves the monitor only by age, although the sweep repairs and evicts in between (`MonitorTrue`); after any loss, an order that has left the exchange also leaves the monitor's book (`PhantomsLeave`) |
| `ExchangeCore` | 2 workers, 3 usable slots, queues of 2, 2 clients, 2 tokens | a slot is in one place only and none is lost (`SlotInOnePlace`); a queued cancel never hits another client's order although slots and tokens are reused (`CancelHitsOwner`); the engine never waits for room in a recycle queue (`FreeingNeverSpins`) |
| `MonitorFeeds` | stats: 3 words, 2 retries, 4 updates; trail: an engine's queue and a reject queue of 1, log of 2, 2 copies each, 2 processes | no snapshot mixes two writes, also if the writer dies half way (`NeverTorn`); what is below `write_index` is whole and in order at any crash (`CommittedExact`); the reader yields it (`TailExact`); an engine's lost copy is counted (`LossCounted`); a waiting copy reaches the reader (`CopyIsTailed`) |
| `Firm` | book: 2 orders at a time, quotes at 1 to 4 of 5 prices (4, `MAX_PRICE - 1`, is also the mark of an empty ask side), quantities to 2, 16 for 2^32, 4 cancels, after the first of which orders have one price and the full size; orders: 3 ids, a tracker that holds 2 of them, queue of 1, batches of 2 | the two book representations agree, also when cancels have pushed a quantity past the word (`HotMatchesCold`); the firm's book is the exchange's until a cancel (`BookSeen`); until then the maker's quotes do not cross and the taker's orders meet what rests, whichever way the floats round (`PricesAsMeant`). A fill finds its order (`FillsAttributed`); the in-flight count is exact up to the two updates under way (`InFlightExact`); the position is what was executed less what is on its way and what was lost (`PositionConfirmed`) |
| `Lifecycle` | 1 worker, 1 shard, queues of 1 | READY means that all threads are up unless the barrier gave up (`ReadyMeansUp`); `main()` drains alone (`SoleConsumer`); a signal ends the process unless a worker spins on the full queue of an engine that has left (`SignalStops`) |
| `AckFragment`, `RequoteCancel`, `ImbalanceInRange`, `TakerFills`, `OrchestratorReady` | as in the runs above | *violated*: see section 6 |

Each module has a type invariant. Where it bounds a buffer it is a conjunct of the safety invariant the run
names (`InStep`, `StreamUnbroken`, `FeedInOrder`, `CommittedExact`, `SlotInOnePlace`, `FillsAttributed`,
`HotMatchesCold`, `ReadyMeansUp`), so these runs check it.

*Why the bounds are enough.* Each is chosen so that the awkward case happens, not so that the system is
large: the rings wrap, and so does the word of the firm's indices; a word of the bitmap has neighbours on both sides and in another group; an incoming
order crosses two levels, meets its own client, and leaves a remainder; worker 0 has one usable slot, next
to the slice of worker 1; the framing buffer ends in the middle of a message; the kernel takes a report and
a half; the batch is larger than a queue; a reader overlaps two writes; the log fills; ids run past the
tracker; four cancels take a level of the firm's book round the word; the margin is the smallest with which a quote cannot cross; a thread starts after the barrier gave up, and a signal comes before it has. Bounds that limit a history (`MaxMsgs`, `MaxReports`, `MaxClients`, `MaxUpdates`, `MaxCopies`, `MaxRuns`,
`MaxIds`, `MaxCancels`) are conjuncts of guards, so no behaviour is cut in the middle of a step; the two that only
restrict which orders are sent (`BoundedNext` of `MCFirmBook` and `MCMonitorBook`) are in the MC modules. Histories
that are only there to state a property are forgotten when nothing refers to them any more. For the properties section 4 proves, no bound matters.

Symmetry is used for slots, clients and tokens, which the code only compares for equality, and only in runs
without liveness properties. Deadlock is left unchecked where the system stops by itself within its bounds.

*Fairness.* The engine, the publisher, the OrderManager and the gateway workers are pinned threads that
spin or wait with a time-out, so their next step is weakly fair; the monitor's threads poll on a timer.
`SpscRing` also needs strong fairness of a refresh that sees the latest tail, which says that a store becomes
visible some time. Nothing is assumed of a producer, a client, the writer of a seqlock, crashes or restarts.
In `AckStream` the firm keeps reading, and a firm that quits is a step that may always happen. In
`MonitorLoss` the sweep recurs and the oldest entry, not being touched, reaches its age. In `GatewayFraming`
the reads run dry: `handle_client` reads until `EAGAIN` without a budget, so a client that never pauses would
keep a worker to itself. In `Lifecycle` every thread is scheduled and time-outs expire, and a thread returns to
the test of its loop again and again (strong fairness of leaving), for the same reason. That a match ends
needs no fairness: `MatchProgresses` says that each iteration lowers a number that is never negative.

## 4. What is proved

`tlapm M.tla` checks the proofs of a module. The theorems hold for every value of the constants that meets the
named assumptions; those state what the code's constants satisfy.

* **`RingsProofs`** (`CapacityAssumption`: at least two slots): `TypeCorrect`,
  `SlotAccessesDisjoint`, `RingImplementsFifo`. `NoSlotRace` is not
  inductive: a producer's test of a stale `cached_head` says nothing without knowing where `cached_head` can
  be. `RingInv`, the inductive invariant (`RingInvariant`), supplies it: going round from `cached_head` one meets `head`, then `cached_tail`, then
  `tail`. The distance between two indices is a sum modulo the capacity, and the lemmas `Between3` and
  `BetweenAhead` carry that arithmetic, after which each action is a short case. For the refinement, a push
  is the FIFO's at the store of `tail` and a pop at the store of `head`; all else stutters.
  `FirmRingImplementsFifo` needs a word that is larger than the capacity and a multiple of it
  (`FirmRingSizes`). `FirmRingInv` orders the four indices by their distance modulo the word. That two
  indices less than `N` apart mask to different slots, also across the wrap, is where the multiple is needed
  (`DistinctSlots`).
* **`OrderBookProofs`**, for any number of slots, clients, prices and shares (assumed:
  `MAX_PRICE` is at least 1, nothing is quoted at price 0, and `NoSlot` and `NoOrder` are marks apart): `BookAgrees`,
  `NoSharesLost`, `LastReportTrue`, `MatchTerminates`, `BookIsBookLife`. `BookInv` is inductive as it stands; the
  work is in the loop, where an order that is unlinked from a level leaves the others in their order
  (`Without`), and where the cursor must be no better than any marked price after a level was left.
  `SharesConserved` and `FinalReportTrue` follow together (`Told`): what an order's owner has been told is
  what decides its last drop copy. `MatchProgresses` bounds the loop by the shares still asked for and the
  prices left, without fairness.
* **`ObservedBookProofs`**, on top of these: `ScansAlwaysExact` for every word size of at least two bits (`LadderAssumption`) and every
  price range, and `PriorityKept`. `LadderInv` says that a price is marked just when its bit of its
  word is set, and that a bit of the summary is set just when it belongs to a word that exists and is not
  empty. The lemmas `AskScan` and `BidScan` then follow the three stages of a scan. The word and the bit of a
  price are a quotient and a remainder, and that these are unique is a lemma of its own. `ArrivalsInv` says
  that every level is in the order of arrival, and that the history of arrivals is just what rests.
  A step of the book is one of a few kinds (nothing seen, an execution, an order that comes to rest, a cancel),
  and the history of arrivals has a lemma for each kind.
* **`MonitorFeedsProofs`**, for every number of words and retries: `SeqlockInvariant` and `SnapshotsNeverTorn`.
  The invariant says which words of the write under way are stored (`WriterInv`) and that a reader that has
  seen an even sequence number holds words of that version, or the number has moved on (`ReaderInv`).
  For the audit trail, with any queues, capacities, log length, copies and restarts:
  `CommittedAlwaysExact`, `TailAlwaysExact`, `LossAlwaysCounted`. `AuditInv` says what the file of the present process holds
  below `log_index` and `write_index` (`FileInv`, `LogInv`), that queue, hand and log hold a source's copies in
  order (`QueueInv`), that lost copies are counted (`LostInv`), that while the log has room every copy is in one of these (`CoverInv`),
  and that the reader is behind the file it opened (`ReadInv`).
* **`ExchangeCoreProofs`**, for any number of workers, slots, clients and tokens: `EverySlotInOnePlace`,
  `CancelsHitTheirOwner` and `EngineNeverSpins`. `SlotInv` adds to `SlotInOnePlace` that a worker's hand is empty
  exactly when it is idle, that the high-water mark stays in its slice, and that no slot is twice in a queue.
  The slot a queued cancel names may have been freed and given to another client with the same token.
  `CancelInv` says that then a new order for that slot is behind the cancel in the same queue
  (`Superseded`), so that by `SlotInv` the slot is not in the book yet. `EngineNeverSpins`
  is a count: a recycle queue holds distinct slots of its slice other than the one being freed, so it is
  shorter than its capacity (`RecycleAssumption`: a recycle queue is at least as large as a slice).
* **`ReportsProofs`**, on what the exchange sends out. To the firms (`AckAssumption`: the out-buffer holds a
  report): `StreamNeverBroken`, `AcksReachTheirOwner`, `WaitingIsArmed`. `AckInv` says that
  kernel buffer and out-buffer together are one stream of whole reports (`Chain`), all of the connected client,
  with no report twice and those of an engine in order; that every report in an ack queue is
  younger than what the stream holds of its engine, and in no other queue (`QueueIs`). The lemmas say that
  taking a part from the front, moving a part across, appending a report and moving to the next queue keep it so.
  To everyone (`PublisherAssumption`: no size is zero): `FeedAlwaysInOrder`. `FeedInv` adds to `FeedInOrder` that a shard's queue
  holds its own reports and that only reports that were given are missed. That the marks of two lists
  joined are their marks joined (`MarksConcat`) is an induction over the list, and `LeaveOut` says what a
  short send takes out of a trail.
* **`FirmOrdersProofs`** (`FirmAssumption`): `InFlightCounts`, `FillsAlwaysAttributed`,
  `PositionAlwaysConfirmed`. `LineInv` says that ids
  increase along wire, batch, queue and the actions in hand, and `RestInv` that what rests is older than all of these. `ActiveInv`
  says the same of the tracked orders, so each increment adds a new member to the set that is counted.
  `OrdersInv` adds what the tracker says of the orders on their way (`Detail`), that reported orders are
  older than those still to be sent (`RepInv`), what each thread has in hand (`HandInv`), and that what
  was executed of an order and is not applied yet, with what is still open of it, is there to be taken
  off its slot (`OwedInv`). The sums over reports and
  fills are recursive functions, and the lemmas on what an added or a removed report does to them are
  proved by induction over the length.
* **`LifecycleProofs`**, for any number of workers and shards: `MainIsSoleConsumer` and
  `ReadyMeansAllUp`. `JoinInv` says that the threads joined so far have left, and that the workers have
  left before the dispatcher that joins them; `BarrierInv` that the count of started threads is the number
  of those past their hook.

Where a proof needs induction over the natural numbers, it takes the set of those that satisfy the claim and
the least element of its complement (`Least`, `Induct`), from the well-foundedness of `<`.

*Only model-checked.* Liveness (`OldestIsTaken`, `BacklogClears`, `AllHandled`, `BatchLeaves`, `CopyIsTailed`,
`PhantomsLeave`, `SignalStops`) is beyond the prover, which has no fairness or `ENABLED`. `InStep` compares the
framing with a parse of the whole stream that is a recursive operator. `MonitorTrue` is about the loops of
`repair_crossed` and `apply`, a recursion over the entries. `HotMatchesCold`, `BookSeen` and `PricesAsMeant` are about folds over messages and levels, with products that wrap: they are left to TLC.

## 5. Assumptions on the environment

* Memory: release stores and acquire loads order the accesses around them. The relaxed loads a thread makes
  of its own index are exact. The order of the reads of a seqlock is the program's.
* TCP delivers the bytes in order and in any pieces; UDP may lose any message but does not reorder or
  duplicate within one multicast group on one host.
* A mapped file's pages survive the process, not the machine.
* A float operation of the firm yields a value within one of the exact one (`micro_floors`, `fair_values`), and the
  half that the taker adds absorbs the rounding. `PricesAsMeant` therefore takes a margin of at least 2, the default.

## 6. What the code does against its documentation

* `AckFragment`: the firm's receive loop leaves at a report that is not complete and the next `recv` overwrites
  the buffer (`LocalExchangeConnector.h:147`), so a report cut by a segment boundary is lost, while
  `src/docs/technical-deep-dive.md:227` says that each received report is applied to the risk manager. The
  gateway's side of the stream is right in every run (`StreamUnbroken`).

* `RequoteCancel`: the market maker's "Cancel old bid" and "Cancel old ask" (`market_maker.h:52`, `:63`) take the
  next number of the counter instead of the number of the quote. The exchange finds no such order, and
  the old quote rests beside the new one.
* `ImbalanceInRange`: `signal_engine.h:8` gives the imbalance the "Range: [-1.0, 1.0]", but `bid_qty - ask_qty` is
  unsigned and wraps when the asks outweigh the bids. The imbalance is then large and positive: the quotes are
  skewed up instead of down and the taker buys instead of selling. Until a cancel the quotes still do not
  cross (`PricesAsMeant`), because the skew is at most one tick.
* `TakerFills`: the taker's is "a marketable order that actually removes resting liquidity (guaranteed fills
  when a maker is quoting the other side)" (`taker.h:10`). The connector takes a cancel for an addition
  (`LocalExchangeConnector.h:344`), so a cancelled ask stays the firm's best ask, and the taker's order names it
  although what rests is dearer.
* `OrchestratorReady`: `launch()` "Returns True on READY" (`monitoring/orchestrator.py:36`). READY leaves the
  exchange in one write with the line before it; `readline()` returns that line and keeps READY in a buffer of
  its own, and `select()` waits for bytes that do not come while the process runs.

## 7. What is not modelled

* System calls of start-up (sockets, affinity, huge pages, mapping), load generators, benchmarks, scripts,
  rendering, and the crypto connector, which depends on an outside service.
* Two moments of the audit log: between the truncation of the file and `ftruncate`, when a reader that has the
  old mapping open faults, and the trimming of the file in the destructor.
* The kill switch of the firm's risk manager, which nothing calls.
* The end of the firm's process. Its threads test `global_running` and the connector's destructor joins them;
  `send_order()` (`LocalExchangeConnector.h:422`) spins on a full queue without that test, which is the case
  `SignalStops` excepts in the exchange.
* Loss of market data on the way to the firm (it is modelled on the way to the monitor).
* The codecs of tokens and symbols, `health.assess` and the rates of the monitor: conversions and comparisons
  without state, which unit tests reach.
* Clocks, latencies and the statistics computed from them.
* The gateway's risk check: it is a predicate without state, and what it refuses changes nothing but the
  reject queue, which is in `AuditTrail`.
* Prices in `FirmOrders` are a few values; instruments and shards are one where they do not interact.
* Prefetches, cycle counters and other code without effect on the state.
