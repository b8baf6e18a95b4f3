----------------------------- MODULE Lifecycle -----------------------------
(***************************************************************************)
(* The life of the exchange process: the threads main() spawns and the     *)
(* barrier they meet at (app/exchange.cpp, core/realtime.h), g_running and *)
(* how each thread's loop notices it, the joins, the last drain; and the   *)
(* supervisor that launches the process, waits for READY on its standard   *)
(* output, and stops it (monitoring/orchestrator.py).                      *)
(*                                                                         *)
(* The time-outs (15 s at the barrier, 15 s in launch(), 10 s in           *)
(* shutdown()) may expire whenever they run.  An order is a unit: a worker *)
(* that has one pushes it to the queue of its engine, and spins while that *)
(* is full without looking at g_running.                                   *)
(***************************************************************************)
EXTENDS Integers, Sequences

CONSTANTS NumWorkers,   \* num_gw, gateway workers
          NumShards,    \* NUM_SHARDS
          QueueCap      \* capacity of an engine queue, and of a tsc queue

ASSUME LifecycleAssumption == {NumWorkers, NumShards, QueueCap} \subseteq Nat \ {0}

VARIABLES
    main,                  \* where main() is
    joined,                \* how many threads of JoinOrder it has joined
    thread,                \* "unborn", "born" (before acquire()), "running", "left"
    started,               \* rt::started()
    gave_up,               \* await() ended by its time-out
    reported,              \* the threads= of the RT_SCHED line before READY
    g_running,
    pushing,               \* per worker: the shard it is pushing to, 0 for none
    engine_q, tsc_q,       \* orders queued per worker and shard; samples per shard
    killed,                \* by SIGKILL
    pipe, lines,           \* stdout: in the kernel; read by the supervisor, not yet returned
    orch, answer           \* the orchestrator, and what launch() returned

threadVars == <<thread, started, pushing, engine_q>>
mainVars == <<main, joined, gave_up, reported>>
orchVars == <<lines, orch, answer>>
exchangeVars == <<mainVars, threadVars, tsc_q, killed>>
vars == <<exchangeVars, g_running, pipe, orchVars>>

Workers == 1 .. NumWorkers
Shards == 1 .. NumShards

mkt_thread == <<"mkt", 0>>
server_thread == <<"server", 0>>
om_thread == <<"om", 0>>
Engine(i) == <<"engine", i>>
Worker(w) == <<"worker", w>>

Threads == {mkt_thread, server_thread, om_thread}
             \cup {Engine(i) : i \in Shards} \cup {Worker(w) : w \in Workers}

\* One per gateway worker and shard, the publisher, the order manager and the dispatcher.
Expected == NumWorkers + NumShards + 3

Exited == main = "exit" \/ killed

Init ==
    /\ main = "spawn" /\ joined = 0
    /\ thread = [t \in Threads |-> "unborn"]
    /\ started = 0 /\ gave_up = FALSE /\ reported = 0
    /\ g_running = TRUE
    /\ pushing = [w \in Workers |-> 0]
    /\ engine_q = [w \in Workers |-> [i \in Shards |-> 0]]
    /\ tsc_q = [i \in Shards |-> 0]
    /\ killed = FALSE
    /\ pipe = <<>> /\ lines = <<>> /\ orch = "launch" /\ answer = "none"

-----------------------------------------------------------------------------
(* The threads.                                                            *)

elsewhere == <<mainVars, killed, g_running, pipe, orchVars>>

(***************************************************************************)
(* A thread reaches acquire() and is counted.  The dispatcher then spawns  *)
(* the workers (run()).                                                    *)
(***************************************************************************)
acquire(t) ==
    /\ ~Exited /\ thread[t] = "born"
    /\ started' = started + 1
    /\ thread' = [u \in Threads |->
                    CASE u = t -> "running"
                      [] t = server_thread /\ \E w \in Workers : u = Worker(w) -> "born"
                      [] OTHER -> thread[u]]
    /\ UNCHANGED <<pushing, engine_q, tsc_q, elsewhere>>

\* worker_loop(): an order or cancel from a client, for shard i.
Receive(w, i) ==
    /\ ~Exited /\ thread[Worker(w)] = "running" /\ pushing[w] = 0
    /\ pushing' = [pushing EXCEPT ![w] = i]
    /\ UNCHANGED <<thread, started, engine_q, tsc_q, elsewhere>>

\* while (!queue.push(task)) pause
Push(w) ==
    /\ ~Exited /\ pushing[w] # 0 /\ engine_q[w][pushing[w]] < QueueCap
    /\ engine_q' = [engine_q EXCEPT ![w][pushing[w]] = @ + 1]
    /\ pushing' = [pushing EXCEPT ![w] = 0]
    /\ UNCHANGED <<thread, started, tsc_q, elsewhere>>

\* Engine::run(): one task, and its latency sample unless that queue is full.
Match(i, w) ==
    /\ ~Exited /\ thread[Engine(i)] = "running" /\ engine_q[w][i] > 0
    /\ engine_q' = [engine_q EXCEPT ![w][i] = @ - 1]
    /\ tsc_q' = [tsc_q EXCEPT ![i] = IF @ < QueueCap THEN @ + 1 ELSE @]
    /\ UNCHANGED <<thread, started, pushing, elsewhere>>

\* OrderManager::run() takes a latency sample.
TakeSample(i) ==
    /\ ~Exited /\ thread[om_thread] = "running" /\ tsc_q[i] > 0
    /\ tsc_q' = [tsc_q EXCEPT ![i] = @ - 1]
    /\ UNCHANGED <<threadVars, elsewhere>>

\* Slip: the publisher's loop does not look at g_running.
Leaves_Forever(t) ==
    CASE t = server_thread -> \A w \in Workers : thread[Worker(w)] = "left"
      [] t = mkt_thread -> FALSE
      [] OTHER -> ~g_running /\ \A w \in Workers : t = Worker(w) => pushing[w] = 0

(***************************************************************************)
(* When thread t leaves its loop: at while (running), which a worker does  *)
(* not reach while it pushes.  The dispatcher waits for the workers.       *)
(***************************************************************************)
Leaves(t) ==
    CASE t = server_thread -> \A w \in Workers : thread[Worker(w)] = "left"
      [] OTHER -> ~g_running /\ \A w \in Workers : t = Worker(w) => pushing[w] = 0

Leave(t) ==
    /\ ~Exited /\ thread[t] = "running" /\ Leaves(t)
    /\ thread' = [thread EXCEPT ![t] = "left"]
    /\ UNCHANGED <<started, pushing, engine_q, tsc_q, elsewhere>>

ThreadStep ==
    \/ \E t \in Threads : acquire(t) \/ Leave(t)
    \/ \E w \in Workers, i \in Shards : Receive(w, i) \/ Match(i, w)
    \/ \E w \in Workers : Push(w)
    \/ \E i \in Shards : TakeSample(i)

-----------------------------------------------------------------------------
(* main()                                                                  *)

\* Spawns every thread but the workers; the line goes out with its endl.
Spawn ==
    /\ main = "spawn"
    /\ thread' = [t \in Threads |-> IF \E w \in Workers : t = Worker(w) THEN "unborn" ELSE "born"]
    /\ pipe' = Append(pipe, "Gateway listening")
    /\ main' = "await"
    /\ UNCHANGED <<started, pushing, engine_q, joined, gave_up, reported, tsc_q>>

\* Slip: the dispatcher is not counted among the threads to wait for.
AllStarted_NoDispatcher == started >= Expected - 1

\* The condition await() polls every millisecond.
AllStarted == started >= Expected

\* await() returns, in the end by its time-out.
Await ==
    /\ main = "await"
    /\ \/ AllStarted /\ UNCHANGED gave_up
       \/ ~AllStarted /\ gave_up' = TRUE
    /\ main' = "ready"
    /\ UNCHANGED <<threadVars, pipe, joined, reported, tsc_q>>

\* report() does not flush: its line leaves in one write with READY.
Ready ==
    /\ main = "ready"
    /\ reported' = started
    /\ pipe' = pipe \o <<"RT_SCHED", "READY">>
    /\ main' = "sample"
    /\ UNCHANGED <<threadVars, joined, gave_up, tsc_q>>

\* The sampling loop ends; nothing is written between READY and this line.
StopSampling ==
    /\ main = "sample" /\ ~g_running
    /\ pipe' = Append(pipe, "Shutdown signal received")
    /\ main' = "join"
    /\ UNCHANGED <<threadVars, joined, gave_up, reported, tsc_q>>

\* Slip: the order manager is not waited for.
JoinOrder_NoOm == <<mkt_thread>> \o [i \in Shards |-> Engine(i)] \o <<server_thread>>

\* The order of the joins.
JoinOrder == <<mkt_thread>> \o [i \in Shards |-> Engine(i)] \o <<server_thread, om_thread>>

Join ==
    /\ main = "join" /\ thread[JoinOrder[joined + 1]] = "left"
    /\ joined' = joined + 1
    /\ main' = IF joined' = Len(JoinOrder) THEN "drain" ELSE "join"
    /\ UNCHANGED <<threadVars, pipe, gave_up, reported, tsc_q>>

\* main() pops what is left of the latency samples.
DrainSample(i) ==
    /\ main = "drain" /\ tsc_q[i] > 0
    /\ tsc_q' = [tsc_q EXCEPT ![i] = @ - 1]
    /\ UNCHANGED <<main, joined, threadVars, gave_up, reported, pipe>>

\* The final statistics, and return from main().
Exit ==
    /\ main = "drain" /\ \A i \in Shards : tsc_q[i] = 0
    /\ pipe' = Append(pipe, "Engine Halted")
    /\ main' = "exit"
    /\ UNCHANGED <<threadVars, joined, gave_up, reported, tsc_q>>

MainStep ==
    /\ ~Exited
    /\ Spawn \/ Await \/ Ready \/ StopSampling \/ Join \/ Exit \/ \E i \in Shards : DrainSample(i)
    /\ UNCHANGED <<killed, g_running, orchVars>>

\* signal_handler(), for a SIGINT or SIGTERM from a terminal or a script.
Signal ==
    /\ ~Exited
    /\ g_running' = FALSE
    /\ UNCHANGED <<exchangeVars, pipe, orchVars>>

-----------------------------------------------------------------------------
(* The orchestrator.                                                       *)

Returned(value) == orch' = "idle" /\ answer' = value

\* launch(): poll() finds the process gone.
LaunchDied ==
    /\ orch = "launch" /\ Exited
    /\ Returned("False")
    /\ UNCHANGED <<exchangeVars, g_running, pipe, lines>>

\* launch(): with nothing in the pipe, select() waits until the deadline.
SelectTimeout ==
    /\ orch = "launch" /\ pipe = <<>> /\ ~Exited
    /\ Returned("False")
    /\ UNCHANGED <<exchangeVars, g_running, pipe, lines>>

\* launch(): the deadline passes before the next line is read.
DeadlinePassed ==
    /\ orch = "launch" /\ pipe # <<>>
    /\ Returned("False")
    /\ UNCHANGED <<exchangeVars, g_running, pipe, lines>>

Verdict(line) ==
    IF line = "READY" THEN Returned("True") ELSE UNCHANGED <<orch, answer>>

(***************************************************************************)
(* launch(): select() reports the pipe readable (bytes, or end of file),   *)
(* and readline() returns one line.  It returns a line read earlier if     *)
(* there is one, and otherwise reads all the pipe holds into the text      *)
(* layer's buffer, of which select() knows nothing.                        *)
(***************************************************************************)
LaunchLine ==
    /\ orch = "launch"
    /\ \/ /\ pipe # <<>> \/ Exited
          /\ lines # <<>>
          /\ Verdict(Head(lines))
          /\ lines' = Tail(lines) /\ UNCHANGED pipe
       \/ /\ pipe # <<>> /\ lines = <<>>
          /\ Verdict(Head(pipe))
          /\ lines' = Tail(pipe) /\ pipe' = <<>>
       \/ /\ pipe = <<>> /\ lines = <<>> /\ Exited
          /\ Returned("False")
          /\ UNCHANGED <<pipe, lines>>
    /\ UNCHANGED <<exchangeVars, g_running>>

\* shutdown(): SIGINT if the process is there.
Shutdown ==
    /\ orch = "idle"
    /\ IF Exited THEN orch' = "done" /\ UNCHANGED g_running
                 ELSE orch' = "wait" /\ g_running' = FALSE
    /\ UNCHANGED <<exchangeVars, pipe, lines, answer>>

\* wait() returns, or its time-out expires and SIGKILL follows.
ShutdownWait ==
    /\ orch = "wait"
    /\ \/ Exited /\ UNCHANGED killed
       \/ ~Exited /\ killed' = TRUE
    /\ orch' = "done"
    /\ UNCHANGED <<main, joined, threadVars, gave_up, reported, tsc_q, g_running, pipe, lines, answer>>

Orchestrator == LaunchDied \/ SelectTimeout \/ DeadlinePassed \/ LaunchLine \/ Shutdown \/ ShutdownWait

Next == ThreadStep \/ MainStep \/ Signal \/ Orchestrator

Spec == Init /\ [][Next]_vars

(***************************************************************************)
(* Every thread has a core and its time-outs expire.  A worker returns to  *)
(* while (running) again and again: its clients' sockets run dry at times. *)
(***************************************************************************)
Fairness ==
    /\ WF_vars(MainStep) /\ WF_vars(ShutdownWait)
    /\ \A t \in Threads : WF_vars(acquire(t)) /\ SF_vars(Leave(t))
    /\ \A w \in Workers : WF_vars(Push(w))

FairSpec == Spec /\ Fairness

-----------------------------------------------------------------------------
(* Properties                                                              *)

\* Every variable holds a value of its type, and no queue exceeds its capacity.
TypeOK ==
    /\ main \in {"spawn", "await", "ready", "sample", "join", "drain", "exit"}
    /\ joined \in 0 .. Len(JoinOrder)
    /\ thread \in [Threads -> {"unborn", "born", "running", "left"}]
    /\ started \in 0 .. Expected /\ reported \in 0 .. Expected
    /\ {gave_up, g_running, killed} \subseteq BOOLEAN
    /\ pushing \in [Workers -> 0 .. NumShards]
    /\ engine_q \in [Workers -> [Shards -> 0 .. QueueCap]]
    /\ tsc_q \in [Shards -> 0 .. QueueCap]
    /\ orch \in {"launch", "idle", "wait", "done"} /\ answer \in {"none", "True", "False"}

(***************************************************************************)
(* What READY says: unless await() gave up, every thread has passed its    *)
(* start-up hook, and the RT_SCHED line before READY tells whether it gave *)
(* up.  (core/realtime.h: an earlier barrier let READY out 2.5 s before    *)
(* the gateway workers existed.)                                           *)
(***************************************************************************)
ReadyMeansUp ==
    /\ TypeOK
    /\ main \notin {"spawn", "await", "ready"} /\ (~gave_up \/ reported = Expected) =>
           /\ reported = Expected
           /\ \A t \in Threads : thread[t] \in {"running", "left"}

(***************************************************************************)
(* main() pops the latency queues, and destroys everything when it         *)
(* returns, only after the last thread has left: the joins make it the     *)
(* sole consumer the ring requires, even if a thread started late.         *)
(***************************************************************************)
SoleConsumer == main \in {"drain", "exit"} => \A t \in Threads : thread[t] = "left"

\* A worker pushes to the full queue of an engine that has left.
Stuck == \E w \in Workers : \E i \in Shards :
            pushing[w] = i /\ engine_q[w][i] = QueueCap /\ thread[Engine(i)] = "left"

(***************************************************************************)
(* A signal ends the process, from any state of start-up or trading, with  *)
(* one exception: a worker that was pushing when its engine left spins for *)
(* ever (tcp_server.h), and only SIGKILL ends that.                        *)
(***************************************************************************)
SignalStops == ~g_running ~> (Exited \/ Stuck)

(***************************************************************************)
(* orchestrator.py: launch() will "block until it prints READY.  Returns   *)
(* True on READY."  So it does not answer False when the process runs, its *)
(* output is read and READY is in it.                                      *)
(***************************************************************************)
ReadyReturnsTrue ==
    ~Exited /\ pipe = <<>> /\ (\E k \in DOMAIN lines : lines[k] = "READY") => answer # "False"
=============================================================================
