------------------------------ MODULE Publisher ------------------------------
(***************************************************************************)
(* The market-data thread (market_data/publisher.h): it empties the shards'*)
(* queues in turn into a batch, which goes out when it is full or when a   *)
(* pass over the queues finds nothing.  broadcast() in matching/           *)
(* orderbook.h fills the queues and drops when one is full.  sendmmsg() is *)
(* external: it may send fewer datagrams than it is given, and the thread  *)
(* does not look.                                                          *)
(*                                                                         *)
(* The feed never ends.  A report is plain, but each shard marks two of    *)
(* its reports, an "a" and later a "b": what holds of every such pair      *)
(* holds of all reports.                                                   *)
(***************************************************************************)
EXTENDS Integers, Sequences

CONSTANTS NumShards, FeedCap, BATCH_SIZE

ASSUME PublisherAssumption == {NumShards, FeedCap, BATCH_SIZE} \subseteq Nat \ {0}

VARIABLES
    marked,             \* shard -> the marks it has given
    waiting,            \* shard -> its reports, waiting
    running,
    turn, found_any,    \* the loop over the queues
    batch,
    feed,               \* shard -> its marks in the order they were sent
    missed              \* shard -> marks that were dropped, or not sent by sendmmsg()

thread == <<turn, found_any, batch>>
feed_vars == <<marked, waiting, running, thread, feed, missed>>

Shards == 1 .. NumShards
Marks == {"a", "b"}
Report == [shard : Shards, mark : Marks \cup {"plain"}]

FeedInit ==
    /\ marked = [q \in Shards |-> {}] /\ waiting = [q \in Shards |-> <<>>]
    /\ running = TRUE /\ turn = 1 /\ found_any = FALSE /\ batch = <<>>
    /\ feed = [q \in Shards |-> <<>>] /\ missed = [q \in Shards |-> {}]

\* broadcast(): a full queue drops, and counts.
broadcast(q, mark) ==
    /\ mark = "a" => marked[q] = {}
    /\ mark = "b" => marked[q] = {"a"}
    /\ marked' = [marked EXCEPT ![q] = @ \cup ({mark} \cap Marks)]
    /\ IF Len(waiting[q]) < FeedCap
       THEN waiting' = [waiting EXCEPT ![q] = Append(@, [shard |-> q, mark |-> mark])] /\ UNCHANGED missed
       ELSE missed' = [missed EXCEPT ![q] = @ \cup ({mark} \cap Marks)] /\ UNCHANGED waiting
    /\ UNCHANGED <<running, thread, feed>>

\* The marks of shard q among reports, in order.
MarkOf(report, q) == IF report.shard = q /\ report.mark \in Marks THEN <<report.mark>> ELSE <<>>
MarksOf(reports, q) ==
    LET upTo[n \in 0 .. Len(reports)] == IF n = 0 THEN <<>> ELSE upTo[n - 1] \o MarkOf(reports[n], q)
    IN  upTo[Len(reports)]

SetOf(marks) == {marks[n] : n \in DOMAIN marks}

\* Slip: the batch is kept.
sendmmsg_Kept(reports) ==
    \E n \in 0 .. Len(reports) :
        /\ feed' = [q \in Shards |-> feed[q] \o MarksOf(SubSeq(reports, 1, n), q)]
        /\ missed' = [q \in Shards |-> missed[q] \cup SetOf(MarksOf(SubSeq(reports, n + 1, Len(reports)), q))]
        /\ batch' = SubSeq(reports, 1, Len(reports) - 1)

\* The batch goes out, up to where sendmmsg() stops, and is forgotten.
sendmmsg(reports) ==
    \E n \in 0 .. Len(reports) :
        /\ feed' = [q \in Shards |-> feed[q] \o MarksOf(SubSeq(reports, 1, n), q)]
        /\ missed' = [q \in Shards |-> missed[q] \cup SetOf(MarksOf(SubSeq(reports, n + 1, Len(reports)), q))]
        /\ batch' = <<>>

Full(reports) == Len(reports) = BATCH_SIZE

PopReport ==
    /\ running /\ turn <= NumShards /\ waiting[turn] # <<>>
    /\ LET reports == Append(batch, Head(waiting[turn]))
       IN  IF Full(reports) THEN sendmmsg(reports)
                            ELSE batch' = reports /\ UNCHANGED <<feed, missed>>
    /\ waiting' = [waiting EXCEPT ![turn] = Tail(@)]
    /\ found_any' = TRUE
    /\ UNCHANGED <<marked, running, turn>>

NextQueue ==
    /\ running /\ turn <= NumShards /\ waiting[turn] = <<>>
    /\ turn' = turn + 1
    /\ UNCHANGED <<marked, waiting, running, found_any, batch, feed, missed>>

\* Slip: a batch that is not full waits.
EndPass_NoFlush ==
    /\ running /\ turn > NumShards
    /\ turn' = 1 /\ found_any' = FALSE
    /\ UNCHANGED <<marked, waiting, running, batch, feed, missed>>

EndPass ==
    /\ running /\ turn > NumShards
    /\ IF ~found_any /\ batch # <<>> THEN sendmmsg(batch) ELSE UNCHANGED <<batch, feed, missed>>
    /\ turn' = 1 /\ found_any' = FALSE
    /\ UNCHANGED <<marked, waiting, running>>

\* The end of running, as the loop's test sees it: what is in the batch is not sent.
Stop ==
    /\ running /\ turn = 1 /\ ~found_any
    /\ running' = FALSE
    /\ UNCHANGED <<marked, waiting, thread, feed, missed>>

PublishReports == PopReport \/ NextQueue \/ EndPass

FeedNext ==
    \/ \E q \in Shards, mark \in Marks \cup {"plain"} : broadcast(q, mark)
    \/ PublishReports
    \/ Stop

FeedSpec == FeedInit /\ [][FeedNext]_feed_vars

\* The thread spins.
FairFeed == FeedSpec /\ WF_feed_vars(PublishReports)

-----------------------------------------------------------------------------
(* Properties                                                              *)

\* Every variable holds a value of its type; the batch array is never overrun.
FeedTypeOK ==
    /\ marked \in [Shards -> SUBSET Marks] /\ missed \in [Shards -> SUBSET Marks]
    /\ waiting \in [Shards -> Seq(Report)] /\ \A q \in Shards : Len(waiting[q]) <= FeedCap
    /\ running \in BOOLEAN /\ turn \in 1 .. NumShards + 1 /\ found_any \in BOOLEAN
    /\ batch \in Seq(Report) /\ Len(batch) < BATCH_SIZE
    /\ feed \in [Shards -> Seq(Marks)]

InOrder(marks) ==
    (IF "a" \in marks THEN <<"a">> ELSE <<>>) \o (IF "b" \in marks THEN <<"b">> ELSE <<>>)

(***************************************************************************)
(* The reports of a shard, followed from its queue through the batch to    *)
(* the wire, are in order and each there once; one that is nowhere was     *)
(* dropped at the full queue or left unsent by sendmmsg().  The readers,   *)
(* who have no sequence numbers, rely on the order.  With it, the batch    *)
(* array is not overrun (FeedTypeOK).                                      *)
(***************************************************************************)
FeedInOrder ==
    FeedTypeOK /\ \A q \in Shards :
        feed[q] \o MarksOf(batch, q) \o MarksOf(waiting[q], q)
            = InOrder(marked[q] \ missed[q])

(***************************************************************************)
(* No report stays in the batch, however busy or idle the shards are: the  *)
(* batch goes out again and again, unless the exchange stops.              *)
(***************************************************************************)
BatchLeaves == []<>(~running \/ batch = <<>>)
=============================================================================
