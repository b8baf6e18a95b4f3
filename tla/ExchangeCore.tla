---------------------------- MODULE ExchangeCore ----------------------------
(***************************************************************************)
(* The path of an order through one shard of the exchange: the gateway     *)
(* workers (handle_client in gateway/tcp_server.h), the session map        *)
(* (gateway/session_manager.h), the memory pool with one slice of slots    *)
(* per worker (core/memory_pool.h), the queue from each worker to the      *)
(* engine, and the engine's loop (matching/engine.cpp).  The threads       *)
(* interleave; what they share is the session map, the slots, the queues   *)
(* to the engine and the recycle queues back.  A queue is a bounded FIFO,  *)
(* which is what module SpscRing is shown to implement; what a book does   *)
(* to the slots is module BookLife, which OrderBook implements.            *)
(***************************************************************************)
EXTENDS Integers, Sequences

CONSTANTS NumWorkers,      \* gateway workers
          SliceCapacity,   \* slots per worker; slot 0 is never issued
          QueueCapacity,   \* tasks a worker's queue to the engine holds
          RecycleCapacity, \* slots a recycle queue holds
          Clients,         \* connections, each accepted by one worker
          Tokens,          \* order tokens below MAX_CLIENT_ORDERS
          NoSlot, NoTask

ASSUME PoolAssumption ==
    /\ NumWorkers \in Nat \ {0} /\ SliceCapacity \in Nat \ {0}
    /\ QueueCapacity \in Nat \ {0} /\ RecycleCapacity \in Nat
    /\ NoSlot \notin Int

\* POOL_CAPACITY_PER_SHARD is 500000, a recycle ring holds 524287.
ASSUME RecycleAssumption == RecycleCapacity >= SliceCapacity

Workers == 0 .. NumWorkers - 1
Slots == 0 .. NumWorkers * SliceCapacity - 1
Slice(w) == w * SliceCapacity .. (w + 1) * SliceCapacity - 1

VARIABLES
    workerOf,          \* client -> the worker whose epoll set has its socket
    session,           \* token -> packed slot and client; slot 0: unregistered
    order,             \* slot -> client and token of its last occupant
    high_water_mark,   \* worker -> first slot of its slice never issued
    recycle,           \* worker -> freed slots of its slice
    pc, held,          \* worker -> where it is, and the task in its hands
    queue,             \* worker -> tasks for the engine
    resting, cur       \* the engine: orders_by_id, and the slot it matches

gatewayVars == <<session, pc, held>>
poolVars == <<order, high_water_mark, recycle>>
engineVars == <<resting, cur>>
vars == <<workerOf, gatewayVars, poolVars, queue, engineVars>>

Life == INSTANCE BookLife

\* The constructor reserves slot 0 as the null handle.
FirstMark(w) == w * SliceCapacity + IF w = 0 THEN 1 ELSE 0

Init ==
    /\ workerOf \in [Clients -> Workers]
    /\ session = [t \in Tokens |-> [slot |-> 0, client |-> 0]]
    /\ order = [s \in Slots |-> [client |-> 0, token |-> 0]]
    /\ high_water_mark = [w \in Workers |-> FirstMark(w)]
    /\ recycle = [w \in Workers |-> <<>>]
    /\ pc = [w \in Workers |-> "idle"]
    /\ held = [w \in Workers |-> NoTask]
    /\ queue = [w \in Workers |-> <<>>]
    /\ Life!Init

Task(type, s, t, c) == [type |-> type, slot |-> s, token |-> t, client |-> c]

-----------------------------------------------------------------------------
(* The gateway worker w, for a message of client c on one of its sockets.  *)

\* Slip: a fresh slot is taken past the end of the slice.
Fresh_OffByOne(w, s) ==
    /\ recycle[w] = <<>> /\ s = high_water_mark[w]
    /\ high_water_mark[w] <= (w + 1) * SliceCapacity
    /\ high_water_mark' = [high_water_mark EXCEPT ![w] = @ + 1]
    /\ UNCHANGED recycle

\* allocate() yields s: recycled if there is one, else fresh.
Recycled(w, s) ==
    /\ recycle[w] # <<>> /\ s = Head(recycle[w])
    /\ recycle' = [recycle EXCEPT ![w] = Tail(@)]
    /\ UNCHANGED high_water_mark

Fresh(w, s) ==
    /\ recycle[w] = <<>> /\ s = high_water_mark[w]
    /\ high_water_mark[w] < (w + 1) * SliceCapacity
    /\ high_water_mark' = [high_water_mark EXCEPT ![w] = @ + 1]
    /\ UNCHANGED recycle

(***************************************************************************)
(* 'O': the order passed the token and risk checks.  When the slice has no *)
(* slot left it is rejected, which changes nothing here.                   *)
(***************************************************************************)
EnterOrder(w, c, t) ==
    /\ pc[w] = "idle" /\ workerOf[c] = w
    /\ \E s \in Slots :
          /\ Recycled(w, s) \/ Fresh(w, s)
          /\ order' = [order EXCEPT ![s] = [client |-> c, token |-> t]]
          /\ held' = [held EXCEPT ![w] = Task("NEW", s, t, c)]
    /\ pc' = [pc EXCEPT ![w] = "record"]
    /\ UNCHANGED <<workerOf, session, queue, engineVars>>

\* record_order(): whatever the token named before is overwritten.
RecordOrder(w) ==
    /\ pc[w] = "record"
    /\ session' = [session EXCEPT ![held[w].token] = [slot |-> held[w].slot, client |-> held[w].client]]
    /\ pc' = [pc EXCEPT ![w] = "push"]
    /\ UNCHANGED <<workerOf, held, poolVars, queue, engineVars>>

\* 'X': only the connection the session map names may cancel.
CancelOrder(w, c, t) ==
    /\ pc[w] = "idle" /\ workerOf[c] = w
    /\ session[t].slot # 0 /\ session[t].client = c
    /\ held' = [held EXCEPT ![w] = Task("CANCEL", session[t].slot, t, c)]
    /\ pc' = [pc EXCEPT ![w] = "push"]
    /\ UNCHANGED <<workerOf, session, poolVars, queue, engineVars>>

\* The worker spins until the queue has room.
PushTask(w) ==
    /\ pc[w] = "push" /\ Len(queue[w]) < QueueCapacity
    /\ queue' = [queue EXCEPT ![w] = Append(@, held[w])]
    /\ held' = [held EXCEPT ![w] = NoTask]
    /\ pc' = [pc EXCEPT ![w] = "idle"]
    /\ UNCHANGED <<workerOf, session, poolVars, engineVars>>

-----------------------------------------------------------------------------
(* The engine.                                                             *)

\* Slip: every slot goes back to the first worker.
deallocate_FirstSlice(s) ==
    /\ Len(recycle[0]) < RecycleCapacity
    /\ recycle' = [recycle EXCEPT ![0] = Append(@, s)]
    /\ UNCHANGED <<order, high_water_mark>>

\* deallocate(): spins until the recycle queue of the slot's slice has room.
deallocate(s) ==
    LET w == s \div SliceCapacity
    IN  /\ Len(recycle[w]) < RecycleCapacity
        /\ recycle' = [recycle EXCEPT ![w] = Append(@, s)]
        /\ UNCHANGED <<order, high_water_mark>>

Pop(w) == queue' = [queue EXCEPT ![w] = Tail(@)]

TakeNew(w) ==
    /\ queue[w] # <<>> /\ Head(queue[w]).type = "NEW"
    /\ Life!Begin(Head(queue[w]).slot)
    /\ Pop(w)
    /\ UNCHANGED <<workerOf, gatewayVars, poolVars>>

\* Slip: the occupant of the slot is taken for the order meant.
Matches_AnyToken(task) == task.slot \in resting

Matches(task) == task.slot \in resting /\ order[task.slot].token = task.token

TakeCancel(w) ==
    /\ queue[w] # <<>> /\ Head(queue[w]).type = "CANCEL"
    /\ Matches(Head(queue[w]))
    /\ Life!Remove(Head(queue[w]).slot)
    /\ deallocate(Head(queue[w]).slot)
    /\ Pop(w)
    /\ UNCHANGED <<workerOf, gatewayVars>>

\* The slot is free, or its occupant has another token.
TakeStaleCancel(w) ==
    /\ cur = NoSlot
    /\ queue[w] # <<>> /\ Head(queue[w]).type = "CANCEL"
    /\ ~Matches(Head(queue[w]))
    /\ Pop(w)
    /\ UNCHANGED <<workerOf, gatewayVars, poolVars, engineVars>>

UseUpResting(r) ==
    /\ Life!UseUp(r) /\ deallocate(r)
    /\ UNCHANGED <<workerOf, gatewayVars, queue>>

FinishMatch ==
    /\ \/ Life!ComesToRest /\ UNCHANGED poolVars
       \/ Life!Leaves /\ deallocate(cur)
    /\ UNCHANGED <<workerOf, gatewayVars, queue>>

WorkerStep(w) ==
    \/ \E c \in Clients, t \in Tokens : EnterOrder(w, c, t) \/ CancelOrder(w, c, t)
    \/ RecordOrder(w)
    \/ PushTask(w)

EngineTake(w) == TakeNew(w) \/ TakeCancel(w) \/ TakeStaleCancel(w)

Next ==
    \/ \E w \in Workers : WorkerStep(w) \/ EngineTake(w)
    \/ \E r \in Slots : UseUpResting(r)
    \/ FinishMatch

Spec == Init /\ [][Next]_vars

-----------------------------------------------------------------------------
(* Properties                                                              *)

Tasks == [type : {"NEW", "CANCEL"}, slot : Slots \ {0}, token : Tokens, client : Clients]

ASSUME NoTaskAssumption == NoTask \notin Tasks

\* Every variable holds a value of its C++ type.
TypeOK ==
    /\ workerOf \in [Clients -> Workers]
    /\ session \in [Tokens -> [slot : Slots, client : Clients \cup {0}]]
    /\ order \in [Slots -> [client : Clients \cup {0}, token : Tokens \cup {0}]]
    /\ high_water_mark \in [Workers -> Nat]
    /\ recycle \in [Workers -> Seq(Slots)]
    /\ pc \in [Workers -> {"idle", "record", "push"}]
    /\ held \in [Workers -> Tasks \cup {NoTask}]
    /\ queue \in [Workers -> Seq(Tasks)]
    /\ resting \subseteq Slots
    /\ cur \in Slots \cup {NoSlot}

(***************************************************************************)
(* Where the slot s of slice w is: handed out in the worker's hands, on    *)
(* its way to the engine, in the book, or on its way back.                 *)
(***************************************************************************)
IsNew(task, s) == task.type = "NEW" /\ task.slot = s
InHand(w, s) == held[w] # NoTask /\ IsNew(held[w], s)
Queued(w, s) == \E i \in DOMAIN queue[w] : IsNew(queue[w][i], s)
InBook(s) == s \in resting \/ s = cur
Free(w, s) == \E i \in DOMAIN recycle[w] : recycle[w][i] = s

(***************************************************************************)
(* A slot is never in two places, so no two orders ever share one and no   *)
(* thread writes an order another still uses; a slot of one worker's slice *)
(* is never in the hands, the queue or the recycle queue of another; and   *)
(* slot 0, which the session map takes for "no order", is never issued.    *)
(* No slot is lost either: one below the high-water mark is somewhere.     *)
(***************************************************************************)
Issued(w) == {s \in Slice(w) : s < high_water_mark[w] /\ s # 0}

SlotInOnePlace ==
    TypeOK /\ \A w \in Workers :
        /\ \A s \in Slots :
              /\ InHand(w, s) => s \in Issued(w) /\ ~Queued(w, s) /\ ~InBook(s) /\ ~Free(w, s)
              /\ Queued(w, s) => s \in Issued(w) /\ ~InBook(s) /\ ~Free(w, s)
              /\ Free(w, s) => s \in Issued(w) /\ ~InBook(s)
              /\ s \in Slice(w) /\ InBook(s) => s \in Issued(w)
              /\ s \in Issued(w) => InHand(w, s) \/ Queued(w, s) \/ InBook(s) \/ Free(w, s)
        /\ \A i, j \in DOMAIN recycle[w] : recycle[w][i] = recycle[w][j] => i = j
        /\ \A i, j \in DOMAIN queue[w] :
              queue[w][i].type = "NEW" /\ IsNew(queue[w][j], queue[w][i].slot) => i = j
        /\ cur \notin resting

(***************************************************************************)
(* A cancel never takes away another client's order, "a client cannot      *)
(* cancel another's order by guessing its token".  The gateway compares    *)
(* clients against the session map and the engine only tokens against the  *)
(* slot, while tokens are reused by anyone and slots are recycled under    *)
(* cancels that are still queued.                                          *)
(***************************************************************************)
CancelHitsOwner ==
    \A w \in Workers :
        queue[w] # <<>> =>
            LET task == Head(queue[w])
            IN  task.type = "CANCEL" /\ Matches(task) => order[task.slot].client = task.client

(***************************************************************************)
(* Back-pressure cannot close a circle.  A worker spins while its queue    *)
(* to the engine is full, and the engine spins while the recycle queue     *)
(* back is full, which only that worker empties.  The engine never does:   *)
(* whatever is in the book finds room in the recycle queue of its slice.   *)
(***************************************************************************)
FreeingNeverSpins ==
    \A s \in Slots : InBook(s) => Len(recycle[s \div SliceCapacity]) < RecycleCapacity
=============================================================================
