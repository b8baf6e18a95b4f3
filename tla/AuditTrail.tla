----------------------------- MODULE AuditTrail -----------------------------
(***************************************************************************)
(* The audit trail: drop copies from the engines and rejects from the      *)
(* gateway workers, one single-producer queue each, the OrderManager       *)
(* thread that appends them to a mapped file (auxiliary/order_manager.h),  *)
(* and the monitor that tails the file (monitoring/feeds/audit_reader.py). *)
(* The exchange can crash between any two stores, and be started again:    *)
(* the file's pages outlive the process.                                   *)
(*                                                                         *)
(* A drop copy is the process that made it, its queue and its number in    *)
(* that queue.                                                             *)
(***************************************************************************)
EXTENDS Integers, Sequences, FiniteSets

CONSTANTS NumQueues,        \* drop-copy queues and reject queues, in the order drained
          RejectQueues,     \* those of the gateway workers
          QueueCap,         \* capacity of each
          MAX_LOG_ENTRIES,
          MaxCopies,        \* bound: drop copies of a queue in one process
          MaxRuns           \* bound: processes

ASSUME AuditAssumption ==
    /\ {NumQueues, QueueCap, MAX_LOG_ENTRIES, MaxCopies, MaxRuns} \subseteq Nat \ {0}
    /\ RejectQueues \subseteq 1 .. NumQueues

VARIABLES
    run, phase,            \* which process; starting (its file is still blank), up,
                           \* stopping (g_running is false), stopped (the OrderManager
                           \* has left its loop) or crashed
    sent, lost, queue,     \* per queue: copies made, copies that found it full, copies waiting
    dropped,               \* g_stats.dropped_drop_copies
    opc, k, msg,           \* the OrderManager: its step, the queue it drains, the copy in hand
    log_index, counted,    \* its index; copies it added to the counters
    header,                \* the file: its magic number, version and entry size are there
    entry, write_index,
    rpc, cursor, end,      \* the reader
    opened,                \* the process it opened the file of
    yielded                \* what it has yielded

producers == <<sent, lost, queue, dropped>>
manager == <<opc, k, msg, log_index, counted>>
file == <<header, entry, write_index>>
reader == <<rpc, cursor, end, opened, yielded>>
trail_vars == <<run, phase, producers, manager, file, reader>>

Queues == 1 .. NumQueues
Zeroed == [run |-> 0, q |-> 0, n |-> 0]
Torn == [run |-> 0, q |-> 0, n |-> 1]   \* the timestamp is there and the message is not
Copies == [run : 1 .. MaxRuns, q : Queues, n : 1 .. MaxCopies]
Blank == [i \in 0 .. MAX_LOG_ENTRIES - 1 |-> Zeroed]

TrailInit ==
    /\ run = 1 /\ phase = "up"
    /\ sent = [q \in Queues |-> 0] /\ lost = [q \in Queues |-> {}] /\ queue = [q \in Queues |-> <<>>]
    /\ dropped = 0
    /\ opc = "pop" /\ k = 1 /\ msg = Zeroed /\ log_index = 0 /\ counted = 0
    /\ header = TRUE /\ entry = Blank /\ write_index = 0
    /\ rpc = "idle" /\ cursor = 0 /\ end = 0 /\ opened = 1 /\ yielded = <<>>

(***************************************************************************)
(* A push that finds its queue full loses the copy.  send_drop_copy()      *)
(* counts it; a gateway worker does not look at the result of its push.    *)
(* A thread that has not seen the end of running goes on.                  *)
(***************************************************************************)
PushCopy(q) ==
    LET c == [run |-> run, q |-> q, n |-> sent[q] + 1]
    IN  /\ phase \notin {"starting", "crashed"} /\ sent[q] < MaxCopies
        /\ sent' = [sent EXCEPT ![q] = @ + 1]
        /\ IF Len(queue[q]) < QueueCap
           THEN queue' = [queue EXCEPT ![q] = Append(@, c)] /\ UNCHANGED lost
           ELSE lost' = [lost EXCEPT ![q] = @ \cup {c}] /\ UNCHANGED queue
        /\ UNCHANGED <<run, phase, manager, file, reader>>

\* Slip: the result of the push is not looked at.
send_drop_copy_Uncounted(q) ==
    /\ q \notin RejectQueues
    /\ PushCopy(q)
    /\ UNCHANGED dropped

send_drop_copy(q) ==
    /\ q \notin RejectQueues
    /\ PushCopy(q)
    /\ dropped' = dropped + (IF lost' = lost THEN 0 ELSE 1)

GatewayReject(q) ==
    /\ q \in RejectQueues
    /\ PushCopy(q)
    /\ UNCHANGED dropped

-----------------------------------------------------------------------------
(* OrderManager::run()                                                     *)

Alive == phase \in {"up", "stopping"}

\* consume(): where the copy just popped goes; with the log full, only into the counters.
ConsumeOf(c) == opc' = IF log_index < MAX_LOG_ENTRIES THEN "stamp" ELSE "count"

\* Drain the queue k, then the next one.
PopCopy ==
    /\ Alive /\ opc = "pop" /\ k <= NumQueues
    /\ IF queue[k] = <<>>
       THEN k' = k + 1 /\ UNCHANGED <<queue, opc, msg>>
       ELSE /\ msg' = Head(queue[k])
            /\ queue' = [queue EXCEPT ![k] = Tail(@)]
            /\ ConsumeOf(msg')
            /\ UNCHANGED k
    /\ UNCHANGED <<run, phase, sent, lost, dropped, log_index, counted, file, reader>>

\* Slip: the next pass does not start over.
LoopTest_NoReset ==
    /\ Alive /\ opc = "pop" /\ k > NumQueues
    /\ IF phase = "up" THEN k' = NumQueues /\ UNCHANGED <<phase, opc>>
                       ELSE phase' = "stopped" /\ UNCHANGED <<k, opc>>
    /\ UNCHANGED <<run, producers, msg, log_index, counted, file, reader>>

\* The end of the loop body and the test of running.
LoopTest ==
    /\ Alive /\ opc = "pop" /\ k > NumQueues
    /\ IF phase = "up" THEN k' = 1 /\ UNCHANGED <<phase, opc>>
                       ELSE phase' = "stopped" /\ UNCHANGED <<k, opc>>
    /\ UNCHANGED <<run, producers, msg, log_index, counted, file, reader>>

StoreStamp ==
    /\ Alive /\ opc = "stamp"
    /\ entry' = [entry EXCEPT ![log_index] = Torn]
    /\ opc' = "store"
    /\ UNCHANGED <<run, phase, producers, k, msg, log_index, counted, header, write_index, reader>>

\* Slip: the index is published before the entry it counts is complete.
StoreMsg_AfterIndex ==
    /\ Alive /\ opc = "store"
    /\ write_index' = log_index + 1 /\ log_index' = log_index + 1
    /\ opc' = "publish"
    /\ UNCHANGED <<run, phase, producers, k, msg, counted, header, entry, reader>>

StoreMsg ==
    /\ Alive /\ opc = "store"
    /\ entry' = [entry EXCEPT ![log_index] = msg]
    /\ log_index' = log_index + 1
    /\ opc' = "publish"
    /\ UNCHANGED <<run, phase, producers, k, msg, counted, header, write_index, reader>>

Publish ==
    /\ Alive /\ opc = "publish"
    /\ write_index' = log_index
    /\ opc' = "count"
    /\ UNCHANGED <<run, phase, producers, k, msg, log_index, counted, header, entry, reader>>

\* The counters, and the next pop().
Count ==
    /\ Alive /\ opc = "count"
    /\ counted' = counted + 1
    /\ opc' = "pop"
    /\ UNCHANGED <<run, phase, producers, k, msg, log_index, file, reader>>

Manager == PopCopy \/ LoopTest \/ StoreStamp \/ StoreMsg \/ Publish \/ Count

-----------------------------------------------------------------------------
(* The process.                                                            *)

Signal ==
    /\ phase = "up"
    /\ phase' = "stopping"
    /\ UNCHANGED <<run, producers, manager, file, reader>>

Crash ==
    /\ Alive \/ phase = "starting"
    /\ phase' = "crashed"
    /\ UNCHANGED <<run, producers, manager, file, reader>>

\* OrderManager(): O_TRUNC and ftruncate(), so readers of the same file see zeroes.
Restart ==
    /\ phase \in {"stopped", "crashed"} /\ run < MaxRuns
    /\ run' = run + 1 /\ phase' = "starting"
    /\ sent' = [q \in Queues |-> 0] /\ lost' = [q \in Queues |-> {}] /\ queue' = [q \in Queues |-> <<>>]
    /\ dropped' = 0
    /\ opc' = "pop" /\ k' = 1 /\ msg' = Zeroed /\ log_index' = 0 /\ counted' = 0
    /\ header' = FALSE /\ entry' = Blank /\ write_index' = 0
    /\ UNCHANGED reader

\* OrderManager(): the header, whose write_index is 0 as it was; then the threads start.
WriteHeader ==
    /\ phase = "starting"
    /\ header' = TRUE
    /\ phase' = "up"
    /\ UNCHANGED <<run, producers, manager, entry, write_index, reader>>

-----------------------------------------------------------------------------
(* The monitor.                                                            *)

\* AuditReader(path); it raises on a file without its header.
Open ==
    /\ rpc = "idle" /\ opened # run /\ header
    /\ rpc' = "idle" /\ cursor' = 0 /\ end' = 0
    /\ opened' = run /\ yielded' = <<>>
    /\ UNCHANGED <<run, phase, producers, manager, file>>

\* poll() loads write_index once.
Poll ==
    /\ rpc = "idle"
    /\ end' = write_index /\ rpc' = "yield"
    /\ UNCHANGED <<run, phase, producers, manager, file, cursor, opened, yielded>>

\* Slip: the entry at the end is yielded too.
Yield_Inclusive ==
    /\ rpc = "yield"
    /\ IF cursor <= end /\ cursor < MAX_LOG_ENTRIES
       THEN yielded' = Append(yielded, entry[cursor]) /\ cursor' = cursor + 1 /\ UNCHANGED rpc
       ELSE rpc' = "idle" /\ UNCHANGED <<yielded, cursor>>
    /\ UNCHANGED <<run, phase, producers, manager, file, end, opened>>

Yield ==
    /\ rpc = "yield"
    /\ IF cursor < end
       THEN yielded' = Append(yielded, entry[cursor]) /\ cursor' = cursor + 1 /\ UNCHANGED rpc
       ELSE rpc' = "idle" /\ UNCHANGED <<yielded, cursor>>
    /\ UNCHANGED <<run, phase, producers, manager, file, end, opened>>

TrailNext ==
    \/ \E q \in Queues : send_drop_copy(q) \/ GatewayReject(q)
    \/ Manager
    \/ Signal \/ Crash \/ Restart \/ WriteHeader
    \/ Open \/ Poll \/ Yield

TrailSpec == TrailInit /\ [][TrailNext]_trail_vars

\* The OrderManager has a core of its own and spins; the monitor polls every frame.
FairTrail == TrailSpec /\ WF_trail_vars(Manager) /\ WF_trail_vars(Poll \/ Yield)

-----------------------------------------------------------------------------
(* Properties                                                              *)

\* Every variable holds a value of its type.
TrailTypeOK ==
    /\ run \in 1 .. MaxRuns /\ phase \in {"starting", "up", "stopping", "stopped", "crashed"}
    /\ sent \in [Queues -> 0 .. MaxCopies] /\ lost \in [Queues -> SUBSET Copies] /\ dropped \in Nat
    /\ queue \in [Queues -> Seq(Copies)] /\ \A q \in Queues : Len(queue[q]) <= QueueCap
    /\ opc \in {"pop", "stamp", "store", "publish", "count"}
    /\ k \in 1 .. NumQueues + 1 /\ msg \in Copies \cup {Zeroed}
    /\ log_index \in 0 .. MAX_LOG_ENTRIES /\ counted \in Nat
    /\ header \in BOOLEAN /\ entry \in [0 .. MAX_LOG_ENTRIES - 1 -> Copies \cup {Zeroed, Torn}]
    /\ write_index \in 0 .. MAX_LOG_ENTRIES
    /\ rpc \in {"idle", "yield"} /\ cursor \in 0 .. MAX_LOG_ENTRIES
    /\ end \in 0 .. MAX_LOG_ENTRIES /\ opened \in 1 .. MaxRuns
    /\ yielded \in Seq(Copies \cup {Zeroed, Torn})

Committed == [i \in 1 .. write_index |-> entry[i - 1]]
CopyOf(q, n) == [run |-> run, q |-> q, n |-> n]

(***************************************************************************)
(* The entries below write_index are, at every moment and so after a crash *)
(* at that moment, whole drop copies of this process: each queue's appear  *)
(* once, in order, and one is missing before another only if it was        *)
(* dropped at its full queue.  The log is not written past its end         *)
(* (TrailTypeOK).                                                          *)
(***************************************************************************)
CommittedExact ==
    /\ TrailTypeOK
    /\ \A i \in 1 .. write_index :
          LET c == Committed[i]
          IN  /\ c \in Copies /\ c.run = run
              /\ \A j \in 1 .. i - 1 : Committed[j].q = c.q => Committed[j].n < c.n
              /\ \A n \in 1 .. c.n - 1 :
                    CopyOf(c.q, n) \in lost[c.q] \cup {Committed[j] : j \in 1 .. i - 1}

(***************************************************************************)
(* A monitor that opened the running process's log has yielded a prefix of *)
(* what is committed: nothing torn, skipped or yielded twice.              *)
(***************************************************************************)
TailExact == opened = run => cursor <= write_index /\ yielded = SubSeq(Committed, 1, cursor)

(***************************************************************************)
(* A copy that is waiting when nothing crashes or stops is logged and      *)
(* reaches the monitor, as long as the log has room.                       *)
(***************************************************************************)
CopyIsTailed ==
    \A c \in Copies :
        (\E i \in DOMAIN queue[c.q] : queue[c.q][i] = c)
            ~> (\/ phase # "up" \/ run > opened
                \/ write_index = MAX_LOG_ENTRIES
                \/ \E i \in DOMAIN yielded : yielded[i] = c)

(***************************************************************************)
(* Drop copies leave no silent gap: while the log has room, each is        *)
(* waiting, in the OrderManager's hand, in the log, or lost at its full    *)
(* queue, and dropped_drop_copies counts just the lost ones of the         *)
(* engines.  (A gateway worker's rejects are lost without being counted.)  *)
(***************************************************************************)
Engines == Queues \ RejectQueues

LossCounted ==
    /\ dropped = Cardinality(UNION {lost[q] : q \in Engines})
    /\ write_index < MAX_LOG_ENTRIES =>
          \A q \in Queues : \A n \in 1 .. sent[q] :
              \/ CopyOf(q, n) \in lost[q]
              \/ \E i \in DOMAIN queue[q] : queue[q][i] = CopyOf(q, n)
              \/ opc \in {"stamp", "store", "publish"} /\ msg = CopyOf(q, n)
              \/ \E i \in 1 .. write_index : Committed[i] = CopyOf(q, n)
=============================================================================
