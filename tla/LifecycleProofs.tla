-------------------------- MODULE LifecycleProofs --------------------------
(***************************************************************************)
(* Proofs about Lifecycle for any number of workers and shards and any     *)
(* queue capacity: the barrier and the joins.                              *)
(***************************************************************************)
EXTENDS Lifecycle, FiniteSetTheorems, SequenceTheorems, TLAPS

-----------------------------------------------------------------------------
(* The joins.                                                              *)

\* main() joins the publisher, the engines, the dispatcher, the order manager.
LEMMA JoinOrderIs ==
  /\ Len(JoinOrder) = NumShards + 3
  /\ JoinOrder[1] = mkt_thread
  /\ \A i \in Shards : JoinOrder[i + 1] = Engine(i)
  /\ JoinOrder[NumShards + 2] = server_thread
  /\ JoinOrder[NumShards + 3] = om_thread
<1> DEFINE engines == [i \in Shards |-> Engine(i)]
<1>0. NumShards \in Nat \ {0}
  BY LifecycleAssumption
<1>1. engines \in Seq(Threads) /\ Len(engines) = NumShards
  BY <1>0 DEF Shards, Threads
<1>2. <<mkt_thread>> \in Seq(Threads) /\ <<server_thread, om_thread>> \in Seq(Threads)
  BY DEF Threads
<1> HIDE DEF engines
<1> DEFINE front == <<mkt_thread>> \o engines
<1>3. /\ front \in Seq(Threads) /\ Len(front) = NumShards + 1
      /\ front[1] = mkt_thread
      /\ \A i \in Shards : front[i + 1] = engines[i]
  BY <1>0, <1>1, <1>2, ConcatProperties DEF Shards
<1> DEFINE rear == <<server_thread, om_thread>>
<1>4. rear \in Seq(Threads) /\ Len(rear) = 2 /\ rear[1] = server_thread /\ rear[2] = om_thread
  BY <1>2
<1>5. JoinOrder = front \o rear
  BY DEF JoinOrder, engines
<1> HIDE DEF front, rear
<1>6. /\ Len(JoinOrder) = Len(front) + Len(rear)
      /\ \A i \in 1 .. Len(front) + Len(rear) :
            JoinOrder[i] = IF i <= Len(front) THEN front[i] ELSE rear[i - Len(front)]
  BY <1>3, <1>4, <1>5, ConcatProperties, Zenon
<1>7. \A i \in Shards : engines[i] = Engine(i)
  BY DEF engines
<1> QED
  BY <1>0, <1>3, <1>4, <1>6, <1>7 DEF Shards

-----------------------------------------------------------------------------
(* The types; that no more threads start than are expected comes later.    *)

Types ==
    /\ main \in {"spawn", "await", "ready", "sample", "join", "drain", "exit"}
    /\ joined \in 0 .. NumShards + 3 /\ (main = "join" => joined < NumShards + 3)
    /\ thread \in [Threads -> {"unborn", "born", "running", "left"}]
    /\ started \in Nat /\ reported \in Nat
    /\ gave_up \in BOOLEAN /\ g_running \in BOOLEAN /\ killed \in BOOLEAN
    /\ pushing \in [Workers -> 0 .. NumShards]
    /\ engine_q \in [Workers -> [Shards -> 0 .. QueueCap]]
    /\ tsc_q \in [Shards -> 0 .. QueueCap]
    /\ orch \in {"launch", "idle", "wait", "done"} /\ answer \in {"none", "True", "False"}

\* The loop of joins begins at the first thread.
JoinStart == main \in {"spawn", "await", "ready", "sample"} => joined = 0

LEMMA TypesStep == Types /\ JoinStart /\ [Next]_vars => Types' /\ JoinStart'
<1> SUFFICES ASSUME Types, JoinStart, [Next]_vars PROVE Types' /\ JoinStart'
  OBVIOUS
<1>0. /\ NumWorkers \in Nat \ {0} /\ NumShards \in Nat \ {0} /\ QueueCap \in Nat \ {0}
      /\ Len(JoinOrder) = NumShards + 3
  BY LifecycleAssumption, JoinOrderIs
<1> USE <1>0 DEF Types, JoinStart
<1> USE DEF vars, exchangeVars, mainVars, threadVars, orchVars, elsewhere
<1>1. ASSUME NEW t \in Threads, acquire(t) PROVE Types' /\ JoinStart'
  BY <1>1 DEF acquire
<1>2. ASSUME NEW t \in Threads, Leave(t) PROVE Types' /\ JoinStart'
  BY <1>2 DEF Leave
<1>3. ASSUME NEW w \in Workers, NEW i \in Shards, Receive(w, i) PROVE Types' /\ JoinStart'
  <2>1. i \in 0 .. NumShards BY DEF Shards
  <2> QED BY <1>3, <2>1 DEF Receive
<1>4. ASSUME NEW w \in Workers, NEW i \in Shards, Match(i, w) PROVE Types' /\ JoinStart'
  <2>1. engine_q[w] \in [Shards -> 0 .. QueueCap] /\ engine_q[w][i] \in 1 .. QueueCap
    BY <1>4 DEF Match
  <2>2. engine_q' \in [Workers -> [Shards -> 0 .. QueueCap]] BY <1>4, <2>1 DEF Match
  <2>3. tsc_q' \in [Shards -> 0 .. QueueCap] BY <1>4 DEF Match
  <2> QED BY <1>4, <2>2, <2>3 DEF Match
<1>5. ASSUME NEW w \in Workers, Push(w) PROVE Types' /\ JoinStart'
  <2>1. pushing[w] \in Shards BY <1>5 DEF Push, Shards
  <2> QED BY <1>5, <2>1 DEF Push
<1>6. ASSUME NEW i \in Shards, TakeSample(i) PROVE Types' /\ JoinStart'
  BY <1>6 DEF TakeSample
<1>7. CASE MainStep
  <2>1. UNCHANGED <<killed, g_running, orchVars>> BY <1>7 DEF MainStep
  <2>2. CASE Spawn BY <2>1, <2>2, Zenon DEF Spawn
  <2>3. CASE Await BY <2>1, <2>3, Zenon DEF Await
  <2>4. CASE Ready BY <2>1, <2>4 DEF Ready
  <2>5. CASE StopSampling
    <3>0. main = "sample" BY <2>5, Zenon DEF StopSampling
    <3>1. joined = 0 /\ 0 < NumShards + 3 BY <3>0
    <3> QED BY <2>1, <2>5, <3>1, Zenon DEF StopSampling
  <2>6. CASE Join BY <2>1, <2>6 DEF Join
  <2>7. CASE Exit BY <2>1, <2>7, Zenon DEF Exit
  <2>8. ASSUME NEW i \in Shards, DrainSample(i) PROVE Types' /\ JoinStart'
    BY <2>1, <2>8 DEF DrainSample
  <2> QED BY <1>7, <2>2, <2>3, <2>4, <2>5, <2>6, <2>7, <2>8, Zenon DEF MainStep
<1>8. CASE Signal BY <1>8, ZenonT(30) DEF Signal
<1>9. CASE LaunchDied \/ SelectTimeout \/ DeadlinePassed
  BY <1>9 DEF LaunchDied, SelectTimeout, DeadlinePassed, Returned
<1>10. CASE LaunchLine BY <1>10 DEF LaunchLine, Verdict, Returned
<1>11. CASE Shutdown BY <1>11, Zenon DEF Shutdown
<1>12. CASE ShutdownWait BY <1>12, ZenonT(30) DEF ShutdownWait
<1>13. CASE UNCHANGED vars BY <1>13
<1> QED
  BY <1>1, <1>2, <1>3, <1>4, <1>5, <1>6, <1>7, <1>8, <1>9, <1>10, <1>11, <1>12, <1>13, Zenon
     DEF Next, ThreadStep, Orchestrator

LEMMA TypesInvariant == Spec => [](Types /\ JoinStart)
<1>0. NumWorkers \in Nat \ {0} /\ NumShards \in Nat \ {0} /\ QueueCap \in Nat \ {0}
  BY LifecycleAssumption
<1>1. Init => Types /\ JoinStart
  <2> SUFFICES ASSUME Init PROVE Types /\ JoinStart OBVIOUS
  <2> USE <1>0 DEF Init
  <2>1. 0 \in 0 .. NumShards + 3 /\ 0 \in 0 .. NumShards /\ 0 \in 0 .. QueueCap OBVIOUS
  <2>2. gave_up \in BOOLEAN /\ g_running \in BOOLEAN /\ killed \in BOOLEAN BY Zenon
  <2>3. engine_q \in [Workers -> [Shards -> 0 .. QueueCap]] BY <2>1
  <2>4. pushing \in [Workers -> 0 .. NumShards] /\ tsc_q \in [Shards -> 0 .. QueueCap] BY <2>1
  <2> QED BY <2>1, <2>2, <2>3, <2>4 DEF Types, JoinStart
<1> QED
  BY <1>1, TypesStep, PTL DEF Spec

\* Only a start, an exit and main() itself touch the threads' states or main's.
LEMMA StepKinds ==
  [Next]_vars => \/ \E t \in Threads : acquire(t) \/ Leave(t)
                 \/ MainStep
                 \/ UNCHANGED <<mainVars, thread, started>>
  BY DEF Next, ThreadStep, Orchestrator, vars, exchangeVars, mainVars, threadVars, elsewhere,
         Receive, Match, Push, TakeSample, Signal, LaunchDied, SelectTimeout,
         DeadlinePassed, LaunchLine, Shutdown, ShutdownWait

(***************************************************************************)
(* The threads joined so far have left for good.  A thread may still start *)
(* while main() is past the barrier (await() timed out), but the workers   *)
(* are born only when the dispatcher starts, and it leaves after them.     *)
(***************************************************************************)
JoinInv ==
    /\ \A k \in 1 .. joined : thread[JoinOrder[k]] = "left"
    /\ main \in {"drain", "exit"} => joined = NumShards + 3
    /\ main = "spawn" => \A t \in Threads : thread[t] = "unborn"
    /\ thread[server_thread] = "left" => \A w \in Workers : thread[Worker(w)] = "left"
    /\ thread[server_thread] \in {"unborn", "born"} => \A w \in Workers : thread[Worker(w)] = "unborn"

LEMMA ThreadNames ==
  /\ {mkt_thread, server_thread, om_thread} \subseteq Threads
  /\ \A i \in Shards : Engine(i) \in Threads
  /\ \A w \in Workers : Worker(w) \in Threads /\ Worker(w) # server_thread
  /\ \A k \in 1 .. NumShards + 3 : JoinOrder[k] \in Threads
<1>0. NumShards \in Nat \ {0} BY LifecycleAssumption
<1>1. /\ {mkt_thread, server_thread, om_thread} \subseteq Threads
      /\ \A i \in Shards : Engine(i) \in Threads
      /\ \A w \in Workers : Worker(w) \in Threads
  BY DEF Threads
<1>2. \A w \in Workers : Worker(w) # server_thread
  BY DEF Worker, server_thread
<1>3. ASSUME NEW k \in 1 .. NumShards + 3 PROVE JoinOrder[k] \in Threads
  <2>1. k = 1 \/ (k - 1 \in Shards /\ (k - 1) + 1 = k) \/ k = NumShards + 2 \/ k = NumShards + 3
    BY <1>0 DEF Shards
  <2> QED BY <1>1, <2>1, JoinOrderIs
<1> QED BY <1>1, <1>2, <1>3

LEMMA JoinInvStep == Types /\ JoinStart /\ JoinInv /\ [Next]_vars => JoinInv'
<1> SUFFICES ASSUME Types, JoinStart, JoinInv, [Next]_vars PROVE JoinInv'
  OBVIOUS
<1>0. NumShards \in Nat \ {0} /\ Len(JoinOrder) = NumShards + 3
  BY LifecycleAssumption, JoinOrderIs
<1>a. \A k \in 1 .. joined : JoinOrder[k] \in Threads
  BY <1>0, ThreadNames DEF Types
<1>1. ASSUME NEW t \in Threads, acquire(t) PROVE JoinInv'
  <2>1. UNCHANGED <<main, joined>> BY <1>1 DEF acquire, elsewhere, mainVars
  <2>2. \A u \in Threads : thread[u] = "left" => thread'[u] = "left"
    BY <1>1, ThreadNames DEF acquire, JoinInv, Types
  <2>3. main # "spawn" BY <1>1 DEF acquire, JoinInv
  <2>4. thread'[server_thread] = "left" => thread[server_thread] = "left"
    BY <1>1, ThreadNames DEF acquire, Types
  <2>5. thread'[server_thread] \in {"unborn", "born"} =>
           thread[server_thread] \in {"unborn", "born"} /\ t # server_thread
    BY <1>1, ThreadNames DEF acquire, Types
  <2>6. thread'[server_thread] \in {"unborn", "born"} => \A w \in Workers : thread'[Worker(w)] = "unborn"
    BY <1>1, <2>5, ThreadNames DEF acquire, JoinInv, Types
  <2> QED BY <1>a, <2>1, <2>2, <2>3, <2>4, <2>6, ThreadNames DEF JoinInv
<1>2. ASSUME NEW t \in Threads, Leave(t) PROVE JoinInv'
  <2>1. UNCHANGED <<main, joined>> BY <1>2 DEF Leave, elsewhere, mainVars
  <2>2. thread' = [thread EXCEPT ![t] = "left"] /\ thread[t] = "running" BY <1>2 DEF Leave
  <2>3. t = server_thread => \A w \in Workers : thread[Worker(w)] = "left" BY <1>2 DEF Leave, Leaves
  <2> QED BY <1>a, <2>1, <2>2, <2>3, ThreadNames DEF JoinInv, Types
<1>3. CASE MainStep
  <2>1. CASE Spawn
    <3>1. \A u \in Threads : thread'[u] # "left" /\ thread'[u] \in {"unborn", "born"}
      BY <2>1, Zenon DEF Spawn
    <3>2. \A w \in Workers : thread'[Worker(w)] = "unborn" BY <2>1, ThreadNames, Zenon DEF Spawn
    <3>3. joined' = 0 /\ main' = "await" BY <2>1, Zenon DEF Spawn, JoinStart
    <3> QED BY <3>1, <3>2, <3>3, ThreadNames DEF JoinInv
  <2>2. CASE Join
    <3>1. UNCHANGED thread /\ joined' = joined + 1 /\ thread[JoinOrder[joined + 1]] = "left"
      BY <2>2 DEF Join, threadVars
    <3>2. main' \in {"drain", "exit"} => joined' = NumShards + 3 BY <1>0, <2>2 DEF Join
    <3>3. main' # "spawn" BY <2>2 DEF Join
    <3> QED BY <1>0, <3>1, <3>2, <3>3 DEF JoinInv, Types
  <2>3. CASE Await \/ Ready \/ StopSampling
    BY <2>3, Zenon DEF Await, Ready, StopSampling, threadVars, JoinInv
  <2>4. CASE Exit \/ \E i \in Shards : DrainSample(i)
    BY <2>4, Zenon DEF Exit, DrainSample, threadVars, JoinInv
  <2> QED BY <1>3, <2>1, <2>2, <2>3, <2>4 DEF MainStep
<1>4. CASE UNCHANGED <<mainVars, thread, started>>
  BY <1>4 DEF mainVars, JoinInv
<1> QED
  BY <1>1, <1>2, <1>3, <1>4, StepKinds

(***************************************************************************)
(* When main() pops the latency queues, and when it returns, every thread  *)
(* has left.                                                               *)
(***************************************************************************)
THEOREM MainIsSoleConsumer == Spec => []SoleConsumer
<1>1. Init => JoinInv
  BY ThreadNames DEF Init, JoinInv
<1>2. Types /\ JoinInv => SoleConsumer
  <2> SUFFICES ASSUME Types, JoinInv, main \in {"drain", "exit"}, NEW t \in Threads
               PROVE thread[t] = "left"
    BY DEF SoleConsumer
  <2>0. NumShards \in Nat \ {0} BY LifecycleAssumption
  <2>1. \A k \in 1 .. NumShards + 3 : thread[JoinOrder[k]] = "left" BY DEF JoinInv
  <2>2. /\ thread[mkt_thread] = "left" /\ thread[server_thread] = "left" /\ thread[om_thread] = "left"
        /\ \A i \in Shards : thread[Engine(i)] = "left"
    BY <2>0, <2>1, JoinOrderIs DEF Shards
  <2> QED BY <2>2 DEF JoinInv, Threads
<1> QED
  BY <1>1, <1>2, JoinInvStep, TypesInvariant, PTL DEF Spec

-----------------------------------------------------------------------------
(* The barrier.                                                            *)

\* The threads await() waits for are exactly the threads of the process.
LEMMA ExpectedIsAll == IsFiniteSet(Threads) /\ Cardinality(Threads) = Expected
<1>0. NumWorkers \in Nat \ {0} /\ NumShards \in Nat \ {0} BY LifecycleAssumption
<1> DEFINE three == {mkt_thread, server_thread, om_thread}
           engines == {Engine(i) : i \in Shards}
           workers == {Worker(w) : w \in Workers}
<1>1. IsFiniteSet(three) /\ Cardinality(three) = 3
  <2>1. IsFiniteSet({mkt_thread}) /\ Cardinality({mkt_thread}) = 1 BY FS_Singleton, Zenon
  <2>2. IsFiniteSet({mkt_thread} \cup {server_thread}) /\ Cardinality({mkt_thread} \cup {server_thread}) = 2
    <3>1. server_thread \notin {mkt_thread} BY DEF mkt_thread, server_thread
    <3> QED BY <2>1, <3>1, FS_AddElement
  <2>3. om_thread \notin {mkt_thread} \cup {server_thread} BY DEF mkt_thread, server_thread, om_thread
  <2>4. three = ({mkt_thread} \cup {server_thread}) \cup {om_thread} OBVIOUS
  <2> HIDE DEF three
  <2> QED BY <2>2, <2>3, <2>4, FS_AddElement
<1>2. IsFiniteSet(engines) /\ Cardinality(engines) = NumShards
  <2>1. IsFiniteSet(Shards) /\ Cardinality(Shards) = NumShards BY <1>0, FS_Interval DEF Shards
  <2> DEFINE f == [i \in Shards |-> Engine(i)]
  <2>2. f \in [Shards -> engines] /\ (\A x \in engines : \E i \in Shards : f[i] = x)
    OBVIOUS
  <2>3. \A i, j \in Shards : f[i] = f[j] => i = j
    BY DEF Engine
  <2> HIDE DEF f
  <2>4. f \in Bijection(Shards, engines)
    BY <2>2, <2>3, ZenonT(30) DEF Bijection, Injection, IsInjective, Surjection
  <2> HIDE DEF engines
  <2> QED BY <2>1, <2>4, FS_Bijection DEF ExistsBijection
<1>3. IsFiniteSet(workers) /\ Cardinality(workers) = NumWorkers
  <2>1. IsFiniteSet(Workers) /\ Cardinality(Workers) = NumWorkers BY <1>0, FS_Interval DEF Workers
  <2> DEFINE f == [w \in Workers |-> Worker(w)]
  <2>2. f \in [Workers -> workers] /\ (\A x \in workers : \E w \in Workers : f[w] = x)
    OBVIOUS
  <2>3. \A w, j \in Workers : f[w] = f[j] => w = j
    BY DEF Worker
  <2> HIDE DEF f
  <2>4. f \in Bijection(Workers, workers)
    BY <2>2, <2>3, Zenon DEF Bijection, Injection, IsInjective, Surjection
  <2> HIDE DEF workers
  <2> QED BY <2>1, <2>4, FS_Bijection DEF ExistsBijection
<1>4. three \cap engines = {} BY DEF Engine, mkt_thread, server_thread, om_thread
<1>5. (three \cup engines) \cap workers = {} BY DEF Engine, Worker, mkt_thread, server_thread, om_thread
<1>6. Threads = (three \cup engines) \cup workers BY DEF Threads
<1> HIDE DEF three, engines, workers
<1>7. IsFiniteSet(three \cup engines) /\ Cardinality(three \cup engines) = 3 + NumShards
  BY <1>0, <1>1, <1>2, <1>4, FS_Union, FS_EmptySet
<1>8. IsFiniteSet(Threads) /\ Cardinality(Threads) = 3 + NumShards + NumWorkers
  <2> DEFINE others == three \cup engines
  <2>1. IsFiniteSet(others) /\ Cardinality(others) = 3 + NumShards /\ others \cap workers = {}
    BY <1>5, <1>7
  <2>2. Threads = others \cup workers BY <1>6
  <2> HIDE DEF others
  <2>3. IsFiniteSet(Threads) /\ Cardinality(Threads) = Cardinality(others) + Cardinality(workers) - Cardinality({})
    BY <1>3, <2>1, <2>2, FS_Union
  <2> QED BY <1>0, <1>3, <2>1, <2>3, FS_EmptySet
<1> QED
  BY <1>0, <1>8 DEF Expected

\* The threads that have passed their start-up hook.
Up == {t \in Threads : thread[t] \in {"running", "left"}}

(***************************************************************************)
(* The counter counts threads, each once; and what main() knows after the  *)
(* barrier and after its report is what the counter said then.             *)
(***************************************************************************)
BarrierInv ==
    /\ started = Cardinality(Up)
    /\ reported <= started
    /\ main = "ready" /\ ~gave_up => started = Expected
    /\ main \notin {"spawn", "await", "ready"} /\ ~gave_up => reported = Expected

LEMMA UpBound ==
  ASSUME Types
  PROVE  /\ IsFiniteSet(Up) /\ Cardinality(Up) \in 0 .. Expected
         /\ Cardinality(Up) = Expected => Up = Threads
<1>1. Up \in SUBSET Threads BY DEF Up
<1>2. IsFiniteSet(Up) /\ Cardinality(Up) <= Cardinality(Threads) /\ (Cardinality(Threads) = Cardinality(Up) => Threads = Up)
  BY ONLY <1>1, ExpectedIsAll, FS_Subset
<1>3. Cardinality(Up) \in Nat BY <1>2, FS_CardinalityType
<1>4. Expected \in Nat BY ExpectedIsAll, FS_CardinalityType
<1> QED BY <1>2, <1>3, <1>4, ExpectedIsAll

LEMMA BarrierStep == Types /\ JoinInv /\ BarrierInv /\ [Next]_vars => BarrierInv'
<1> SUFFICES ASSUME Types, JoinInv, BarrierInv, [Next]_vars PROVE BarrierInv'
  OBVIOUS
<1>0. Expected \in Nat /\ started \in 0 .. Expected /\ reported \in Nat /\ gave_up \in BOOLEAN
  BY UpBound, ExpectedIsAll, FS_CardinalityType DEF BarrierInv, Types
<1>1. ASSUME NEW t \in Threads, acquire(t) PROVE BarrierInv'
  <2>1. UNCHANGED <<main, gave_up, reported>> /\ started' = started + 1
    BY <1>1 DEF acquire, elsewhere, mainVars
  <2>2. t \notin Up BY <1>1 DEF acquire, Up
  <2>3. Up' = Up \cup {t} BY <1>1, ThreadNames DEF acquire, Up, JoinInv, Types
  <2>4. Cardinality(Up') = Cardinality(Up) + 1 BY ONLY <2>2, <2>3, UpBound, FS_AddElement, Types
  <2>5. started # Expected
    BY <2>2, UpBound DEF BarrierInv
  <2> QED BY <1>0, <2>1, <2>4, <2>5 DEF BarrierInv
<1>2. ASSUME NEW t \in Threads, Leave(t) PROVE BarrierInv'
  <2>1. UNCHANGED <<main, gave_up, reported, started>> BY <1>2 DEF Leave, elsewhere, mainVars
  <2>2. Up' = Up BY <1>2 DEF Leave, Up, Types
  <2> QED BY <2>1, <2>2 DEF BarrierInv
<1>3. CASE MainStep
  <2>1. CASE Spawn
    <3>1. Up' = {} /\ Up = {} BY <2>1, Zenon DEF Spawn, Up, JoinInv
    <3> QED BY <2>1, <3>1, Zenon DEF Spawn, BarrierInv
  <2>2. CASE Await BY <1>0, <2>2 DEF Await, AllStarted, Up, threadVars, BarrierInv
  <2>3. CASE Ready BY <1>0, <2>3 DEF Ready, Up, threadVars, BarrierInv
  <2>4. CASE StopSampling \/ Join \/ Exit \/ \E i \in Shards : DrainSample(i)
    <3>1. UNCHANGED <<started, thread, gave_up, reported>>
      BY <2>4, Zenon DEF StopSampling, Join, Exit, DrainSample, threadVars
    <3>2. main \notin {"spawn", "await", "ready"} /\ main' \notin {"spawn", "await", "ready"}
      BY <2>4, Zenon DEF StopSampling, Join, Exit, DrainSample
    <3> QED BY <3>1, <3>2 DEF BarrierInv, Up
  <2> QED BY <1>3, <2>1, <2>2, <2>3, <2>4 DEF MainStep
<1>4. CASE UNCHANGED <<mainVars, thread, started>>
  BY <1>4 DEF mainVars, BarrierInv, Up
<1> QED
  BY <1>1, <1>2, <1>3, <1>4, StepKinds

(***************************************************************************)
(* READY means that every thread has passed its start-up hook, unless      *)
(* await() gave up, which the RT_SCHED line before it then shows.  With    *)
(* it, the type invariant: no more threads start than are expected.        *)
(***************************************************************************)
THEOREM ReadyMeansAllUp == Spec => []ReadyMeansUp
<1>1. Init => JoinInv
  BY ThreadNames DEF Init, JoinInv
<1>2. Init => BarrierInv
  <2> SUFFICES ASSUME Init PROVE BarrierInv OBVIOUS
  <2>1. Up = {} BY DEF Init, Up
  <2> QED BY <2>1, FS_EmptySet DEF Init, BarrierInv
<1>3. Types /\ JoinInv /\ BarrierInv => ReadyMeansUp
  <2> SUFFICES ASSUME Types, JoinInv, BarrierInv PROVE ReadyMeansUp OBVIOUS
  <2>1. Expected \in Nat /\ started \in 0 .. Expected /\ reported \in 0 .. Expected
    BY UpBound, ExpectedIsAll, FS_CardinalityType DEF BarrierInv, Types
  <2>2. TypeOK
    BY <2>1, JoinOrderIs DEF TypeOK, Types
  <2>3. ASSUME main \notin {"spawn", "await", "ready"}, ~gave_up \/ reported = Expected
        PROVE  reported = Expected /\ \A t \in Threads : thread[t] \in {"running", "left"}
    <3>1. reported = Expected BY <2>3 DEF BarrierInv
    <3>2. Up = Threads BY <2>1, <3>1, UpBound DEF BarrierInv
    <3> QED BY <3>1, <3>2 DEF Up
  <2> QED BY <2>2, <2>3, Zenon DEF ReadyMeansUp
<1> QED
  BY <1>1, <1>2, <1>3, JoinInvStep, BarrierStep, TypesInvariant, PTL DEF Spec
=============================================================================
