------------------------- MODULE MonitorFeedsProofs -------------------------
(***************************************************************************)
(* What the monitor reads of the exchange: the statistics, for any size of *)
(* the sampled block, any number of retries and of updates; the audit      *)
(* trail, for any number of queues, of which any are the gateway's, any    *)
(* capacity, any length of the log, and any number of copies and restarts. *)
(***************************************************************************)
EXTENDS StatsSeqlock, AuditTrail, FiniteSetTheorems, TLAPS

(* The statistics region.                                                  *)

USE SeqlockAssumption DEF Block

\* A freshly mapped region satisfies the invariant.
LEMMA SeqlockInit == StatsInit => SeqlockInv
<1> SUFFICES ASSUME StatsInit PROVE SeqlockInv
  OBVIOUS
<1>0. Unwritten \in [Block -> Nat \cup {-1}]
  BY DEF Unwritten
<1>1. StatsTypeOK
  <2>1. 0 \in 0 .. MaxUpdates /\ 0 \in 0 .. Retries - 1 /\ 1 \in 1 .. Words + 1
    OBVIOUS
  <2> QED BY <1>0, <2>1, Zenon DEF StatsInit, StatsTypeOK
<1>2. WriterInv /\ ReaderInv
  BY DEF StatsInit, WriterInv, ReaderInv
<1>3. NeverTorn
  BY SMTT(30) DEF StatsInit, Unwritten, NeverTorn
<1> QED
  BY <1>1, <1>2, <1>3 DEF SeqlockInv

\* Every step keeps the types.
LEMMA StatsTypeStep == StatsTypeOK /\ [StatsNext]_stats_vars => StatsTypeOK'
<1> SUFFICES ASSUME StatsTypeOK, [StatsNext]_stats_vars PROVE StatsTypeOK'
  OBVIOUS
<1> USE DEF StatsTypeOK
<1>1. CASE InitWord
  BY <1>1 DEF InitWord, region, sampler
<1>2. CASE InitMagic
  BY <1>2 DEF InitMagic, region, sampler
<1>3. CASE WriteBegin
  BY <1>3 DEF WriteBegin, region, sampler
<1>4. CASE WriteWord
  BY <1>4 DEF WriteWord, region, sampler
<1>5. CASE WriteEnd
  BY <1>5 DEF WriteEnd, region, sampler
<1>6. CASE WriterDies
  BY <1>6, Zenon DEF WriterDies, region, sampler
<1>7. CASE ReadCall
  BY <1>7 DEF ReadCall, region, writer
<1>8. CASE ReadSeq
  BY <1>8 DEF ReadSeq, Again, region, writer
<1>9. CASE ReadMagic
  BY <1>9 DEF ReadMagic, region, writer
<1>10. CASE ReadWord
  BY <1>10 DEF ReadWord, region, writer
<1>11. CASE ReadCheck
  BY <1>11 DEF ReadCheck, Again, region, writer
<1>12. CASE UNCHANGED stats_vars
  BY <1>12 DEF stats_vars, region, writer, sampler
<1> QED
  BY <1>1, <1>2, <1>3, <1>4, <1>5, <1>6, <1>7, <1>8, <1>9, <1>10, <1>11, <1>12
     DEF StatsNext, Writer, Sampler

(***************************************************************************)
(* Every step keeps the invariant.  A step of the writer that changes a    *)
(* word of a valid region finds seq odd, so no sampler still relies on it;  *)
(* one that changes seq makes it greater than what any sampler began with.  *)
(***************************************************************************)
LEMMA SeqlockStep == SeqlockInv /\ [StatsNext]_stats_vars => SeqlockInv'
<1> SUFFICES ASSUME SeqlockInv, [StatsNext]_stats_vars PROVE SeqlockInv'
  OBVIOUS
<1> USE DEF SeqlockInv
<1>0. StatsTypeOK'
  BY StatsTypeStep
<1>1. CASE InitWord
  <2>1. WriterInv' BY <1>1 DEF InitWord, StatsTypeOK, WriterInv
  <2>2. ReaderInv' BY <1>1 DEF InitWord, StatsTypeOK, WriterInv, ReaderInv, sampler
  <2>3. NeverTorn' BY <1>1 DEF InitWord, NeverTorn, sampler
  <2> QED BY <1>0, <2>1, <2>2, <2>3
<1>2. CASE InitMagic
  <2>1. WriterInv' BY <1>2 DEF InitMagic, StatsTypeOK, WriterInv
  <2>2. ReaderInv' BY <1>2 DEF InitMagic, StatsTypeOK, ReaderInv, sampler
  <2>3. NeverTorn' BY <1>2 DEF InitMagic, NeverTorn, sampler
  <2> QED BY <1>0, <2>1, <2>2, <2>3
<1>3. CASE WriteBegin
  <2>1. WriterInv' BY <1>3 DEF WriteBegin, StatsTypeOK, WriterInv
  <2>2. ReaderInv' BY <1>3 DEF WriteBegin, StatsTypeOK, ReaderInv, sampler
  <2>3. NeverTorn' BY <1>3 DEF WriteBegin, NeverTorn, sampler
  <2> QED BY <1>0, <2>1, <2>2, <2>3
<1>4. CASE WriteWord
  <2>1. WriterInv' BY <1>4 DEF WriteWord, StatsTypeOK, WriterInv
  <2>2. s0 % 2 = 0 => seq # s0 BY <1>4, SMTT(30) DEF WriteWord, StatsTypeOK, WriterInv
  <2>3. ReaderInv' BY <1>4, <2>2 DEF WriteWord, StatsTypeOK, ReaderInv, sampler
  <2>4. NeverTorn' BY <1>4 DEF WriteWord, NeverTorn, sampler
  <2> QED BY <1>0, <2>1, <2>3, <2>4
<1>5. CASE WriteEnd
  <2>1. WriterInv' BY <1>5 DEF WriteEnd, StatsTypeOK, WriterInv
  <2>2. ReaderInv' BY <1>5 DEF WriteEnd, StatsTypeOK, ReaderInv, sampler
  <2>3. NeverTorn' BY <1>5 DEF WriteEnd, NeverTorn, sampler
  <2> QED BY <1>0, <2>1, <2>2, <2>3
<1>6. CASE WriterDies
  BY <1>0, <1>6 DEF WriterDies, region, sampler, WriterInv, ReaderInv, NeverTorn
<1>7. CASE ReadCall
  BY <1>0, <1>7 DEF ReadCall, region, writer, WriterInv, ReaderInv, NeverTorn
<1>8. CASE ReadSeq
  BY <1>0, <1>8 DEF ReadSeq, Again, region, writer, StatsTypeOK, WriterInv, ReaderInv, NeverTorn
<1>9. CASE ReadMagic
  BY <1>0, <1>9 DEF ReadMagic, region, writer, WriterInv, ReaderInv, NeverTorn
<1>10. CASE ReadWord
  <2>1. WriterInv' /\ NeverTorn' BY <1>10 DEF ReadWord, region, writer, WriterInv, NeverTorn
  <2>2. ReaderInv' BY <1>10 DEF ReadWord, region, StatsTypeOK, ReaderInv
  <2> QED BY <1>0, <2>1, <2>2
<1>11. CASE ReadCheck
  <2>1. WriterInv' /\ ReaderInv'
    BY <1>11 DEF ReadCheck, Again, region, writer, WriterInv, ReaderInv
  <2>2. CASE seq = s0 /\ seen
    <3>1. wpc = "idle" BY <1>11, <2>2 DEF ReadCheck, StatsTypeOK, WriterInv, ReaderInv
    <3>2. \A i \in Block : copy[i] = update
      BY <1>11, <2>2, <3>1 DEF ReadCheck, StatsTypeOK, WriterInv, ReaderInv
    <3> QED BY <1>0, <1>11, <2>1, <2>2, <3>2 DEF ReadCheck, NeverTorn
  <2>3. CASE ~(seq = s0 /\ seen)
    <3>1. snap' = snap BY <1>11, <2>3 DEF ReadCheck
    <3> QED BY <1>0, <2>1, <3>1 DEF NeverTorn
  <2> QED BY <2>2, <2>3
<1>12. CASE UNCHANGED stats_vars
  BY <1>0, <1>12 DEF stats_vars, region, writer, sampler, WriterInv, ReaderInv, NeverTorn
<1> QED
  BY <1>1, <1>2, <1>3, <1>4, <1>5, <1>6, <1>7, <1>8, <1>9, <1>10, <1>11, <1>12
     DEF StatsNext, Writer, Sampler

\* The inductive invariant of the sequence lock holds in every state.
THEOREM SeqlockInvariant == StatsSpec => []SeqlockInv
  BY SeqlockInit, SeqlockStep, PTL DEF StatsSpec

(***************************************************************************)
(* Readers of the statistics region never see a torn sample: the words of  *)
(* any valid snapshot were stored by one update of the writer.             *)
(***************************************************************************)
THEOREM SnapshotsNeverTorn == StatsSpec => []NeverTorn
<1>1. SeqlockInv => NeverTorn
  BY DEF SeqlockInv
<1> QED
  BY <1>1, SeqlockInvariant, PTL

HIDE SeqlockAssumption DEF Block

-----------------------------------------------------------------------------
(* The audit trail.                                                        *)

LEMMA Numbers ==
    /\ NumQueues \in Nat \ {0} /\ QueueCap \in Nat \ {0} /\ MAX_LOG_ENTRIES \in Nat \ {0}
    /\ MaxCopies \in Nat \ {0} /\ MaxRuns \in Nat \ {0} /\ RejectQueues \subseteq Queues
    /\ Queues \subseteq Nat
  BY AuditAssumption DEF Queues

Fields == Copies \cup {Zeroed, Torn}

LEMMA CopyTypes ==
    /\ \A c \in Copies : c.run \in 1 .. MaxRuns /\ c.q \in Queues /\ c.n \in 1 .. MaxCopies
                         /\ c.n \in Nat /\ c.run \in Nat
    /\ \A c, d \in Copies : c.run = d.run /\ c.q = d.q /\ c.n = d.n => c = d
  BY Numbers DEF Copies

\* What a new copy is.
LEMMA CopyMade ==
    ASSUME TrailTypeOK, NEW q \in Queues, NEW n \in 1 .. MaxCopies
    PROVE  /\ CopyOf(q, n) \in Copies /\ CopyOf(q, n).q = q /\ CopyOf(q, n).n = n
           /\ CopyOf(q, n).run = run
  BY DEF TrailTypeOK, CopyOf, Copies

-----------------------------------------------------------------------------
(***************************************************************************)
(* The inductive invariant.  Along a queue, in the OrderManager's hand and *)
(* then in the log, the copies of one queue are in the order of their      *)
(* numbers; while the log has room, a copy that is in none of these was    *)
(* lost at the full queue.                                                 *)
(***************************************************************************)
Hand == opc \in {"stamp", "store"}

FileInv ==
    /\ log_index = write_index + (IF opc = "publish" THEN 1 ELSE 0)
    /\ Hand => log_index < MAX_LOG_ENTRIES
    /\ opc = "publish" => entry[write_index] = msg
    /\ Hand => /\ msg \in Copies /\ msg.run = run /\ msg.n <= sent[msg.q]
               /\ \A j \in 0 .. log_index - 1 : entry[j].q = msg.q => entry[j].n < msg.n

LogInv ==
    \A i \in 0 .. log_index - 1 :
        /\ entry[i] \in Copies /\ entry[i].run = run /\ entry[i].n <= sent[entry[i].q]
        /\ \A j \in 0 .. i - 1 : entry[j].q = entry[i].q => entry[j].n < entry[i].n
        /\ \A n \in 1 .. entry[i].n - 1 :
              \/ CopyOf(entry[i].q, n) \in lost[entry[i].q]
              \/ \E j \in 0 .. i - 1 : entry[j] = CopyOf(entry[i].q, n)

QueueInv ==
    \A q \in Queues : \A i \in DOMAIN queue[q] :
        /\ queue[q][i].q = q /\ queue[q][i].run = run /\ queue[q][i].n <= sent[q]
        /\ \A j \in DOMAIN queue[q] : j < i => queue[q][j].n < queue[q][i].n
        /\ \A j \in 0 .. log_index - 1 : entry[j].q = q => entry[j].n < queue[q][i].n
        /\ Hand /\ msg.q = q => msg.n < queue[q][i].n

LostInv ==
    /\ \A q \in Queues : \A c \in lost[q] : c.q = q /\ c.run = run /\ c.n <= sent[q]
    /\ IsFiniteSet(UNION {lost[q] : q \in Engines})
    /\ dropped = Cardinality(UNION {lost[q] : q \in Engines})

Found(q, n) ==
    \/ CopyOf(q, n) \in lost[q]
    \/ \E i \in DOMAIN queue[q] : queue[q][i] = CopyOf(q, n)
    \/ Hand /\ msg = CopyOf(q, n)
    \/ \E i \in 0 .. log_index - 1 : entry[i] = CopyOf(q, n)

CoverInv == write_index < MAX_LOG_ENTRIES => \A q \in Queues : \A n \in 1 .. sent[q] : Found(q, n)

ReadInv ==
    /\ opened <= run
    /\ opened = run =>
          /\ cursor <= write_index /\ Len(yielded) = cursor /\ (rpc = "yield" => end <= write_index)
          /\ \A i \in 1 .. cursor : yielded[i] = entry[i - 1]

MainInv == FileInv /\ LogInv /\ QueueInv /\ LostInv /\ CoverInv
AuditInv == TrailTypeOK /\ MainInv /\ ReadInv

mainVars == <<run, sent, lost, queue, dropped, opc, msg, log_index, entry, write_index>>

LEMMA MainKept ==
    ASSUME MainInv, UNCHANGED mainVars
    PROVE  MainInv'
<1>1. FileInv'
  BY Zenon DEF mainVars, MainInv, FileInv, Hand
<1>2. LogInv'
  BY DEF mainVars, MainInv, LogInv, CopyOf
<1>3. QueueInv'
  BY ZenonT(30) DEF mainVars, MainInv, QueueInv, Hand
<1>4. LostInv'
  BY Zenon DEF mainVars, MainInv, LostInv
<1>5. CoverInv'
  BY Zenon DEF mainVars, MainInv, CoverInv, Found, Hand, CopyOf
<1> QED
  BY <1>1, <1>2, <1>3, <1>4, <1>5 DEF MainInv

LEMMA TypesInit == TrailInit => TrailTypeOK
<1> SUFFICES ASSUME TrailInit PROVE TrailTypeOK
  OBVIOUS
<1>1. /\ queue \in [Queues -> Seq(Copies)] /\ \A q \in Queues : Len(queue[q]) <= QueueCap
  BY Numbers DEF TrailInit
<1>2. entry \in [0 .. MAX_LOG_ENTRIES - 1 -> Copies \cup {Zeroed, Torn}]
  BY DEF TrailInit, Blank
<1> QED
  BY <1>1, <1>2, Numbers DEF TrailInit, TrailTypeOK

\* A push, by an engine or by a gateway worker.
LEMMA PushTypes ==
    ASSUME TrailTypeOK, NEW q \in Queues, PushCopy(q)
    PROVE  /\ sent[q] \in Nat /\ sent[q] + 1 \in 1 .. MaxCopies
           /\ sent' \in [Queues -> 0 .. MaxCopies] /\ sent' = [sent EXCEPT ![q] = sent[q] + 1]
           /\ queue' \in [Queues -> Seq(Copies)] /\ \A x \in Queues : Len(queue'[x]) <= QueueCap
           /\ lost' \in [Queues -> SUBSET Copies]
           /\ CopyOf(q, sent[q] + 1) \in Copies
           /\ \/ /\ queue' = [queue EXCEPT ![q] = Append(queue[q], CopyOf(q, sent[q] + 1))]
                 /\ lost' = lost
              \/ /\ lost' = [lost EXCEPT ![q] = lost[q] \cup {CopyOf(q, sent[q] + 1)}]
                 /\ queue' = queue
<1> DEFINE c == CopyOf(q, sent[q] + 1)
<1>1. /\ sent \in [Queues -> 0 .. MaxCopies] /\ lost \in [Queues -> SUBSET Copies]
      /\ queue \in [Queues -> Seq(Copies)] /\ \A x \in Queues : Len(queue[x]) <= QueueCap
  BY DEF TrailTypeOK
<1>2. sent[q] < MaxCopies /\ sent' = [sent EXCEPT ![q] = sent[q] + 1]
  BY DEF PushCopy
<1>3. sent[q] \in Nat /\ sent[q] + 1 \in 1 .. MaxCopies /\ sent[q] + 1 \in 0 .. MaxCopies
  BY <1>1, <1>2, Numbers
<1>4. c \in Copies
  BY <1>3, CopyMade
<1>5. \/ /\ Len(queue[q]) < QueueCap /\ queue' = [queue EXCEPT ![q] = Append(queue[q], c)] /\ lost' = lost
      \/ lost' = [lost EXCEPT ![q] = lost[q] \cup {c}] /\ queue' = queue
  BY DEF PushCopy, CopyOf
<1> HIDE DEF c
<1>6. queue' \in [Queues -> Seq(Copies)] /\ lost' \in [Queues -> SUBSET Copies]
  <2>1. Append(queue[q], c) \in Seq(Copies) /\ lost[q] \cup {c} \in SUBSET Copies
    BY <1>1, <1>4
  <2> QED
    BY <1>1, <1>5, <2>1, Zenon
<1>7. \A x \in Queues : Len(queue'[x]) <= QueueCap
  <2>1. ASSUME Len(queue[q]) < QueueCap, queue' = [queue EXCEPT ![q] = Append(queue[q], c)], NEW x \in Queues
        PROVE  Len(queue'[x]) <= QueueCap
    <3>1. queue[q] \in Seq(Copies) /\ Len(Append(queue[q], c)) = Len(queue[q]) + 1 /\ Len(queue[q]) \in Nat
      BY <1>1, <1>4
    <3>2. queue'[x] = IF x = q THEN Append(queue[q], c) ELSE queue[x]
      BY <1>1, <2>1, Zenon
    <3> QED
      BY <1>1, <2>1, <3>1, <3>2, Numbers
  <2> QED
    BY <1>1, <1>5, <2>1, Zenon
<1>8. sent' \in [Queues -> 0 .. MaxCopies]
  BY <1>1, <1>2, <1>3
<1> QED
  BY <1>2, <1>3, <1>4, <1>5, <1>6, <1>7, <1>8, Zenon DEF c

LEMMA TypesStep == TrailTypeOK /\ FileInv /\ [TrailNext]_trail_vars => TrailTypeOK'
<1> SUFFICES ASSUME TrailTypeOK, FileInv, [TrailNext]_trail_vars PROVE TrailTypeOK'
  OBVIOUS
<1> USE DEF producers, manager, file, reader
<1>1. ASSUME NEW q \in Queues, send_drop_copy(q) \/ GatewayReject(q) PROVE TrailTypeOK'
  <2>1. PushCopy(q) /\ (dropped' = dropped \/ dropped' = dropped + 1 \/ dropped' = dropped + 0)
    BY <1>1, Zenon DEF send_drop_copy, GatewayReject
  <2>2. dropped' \in Nat
    BY <2>1, SMTT(30) DEF TrailTypeOK
  <2>3. UNCHANGED <<run, phase, manager, file, reader>>
    BY <2>1, Zenon DEF PushCopy
  <2>4. /\ sent' \in [Queues -> 0 .. MaxCopies] /\ lost' \in [Queues -> SUBSET Copies]
        /\ queue' \in [Queues -> Seq(Copies)] /\ \A x \in Queues : Len(queue'[x]) <= QueueCap
    BY <2>1, PushTypes, Zenon
  <2> QED
    BY <2>2, <2>3, <2>4, Zenon DEF TrailTypeOK
<1>2. CASE PopCopy
  <2>1. k \in Nat /\ k <= NumQueues /\ k >= 1
    BY <1>2, Numbers DEF PopCopy, TrailTypeOK
  <2>2. k \in Queues /\ k + 1 \in 1 .. NumQueues + 1
    BY <2>1, Numbers DEF Queues
  <2>3. queue \in [Queues -> Seq(Copies)] /\ queue[k] \in Seq(Copies) /\ Len(queue[k]) <= QueueCap
    BY <2>2 DEF TrailTypeOK
  <2>4. ASSUME queue[k] = <<>> PROVE TrailTypeOK'
    BY <1>2, <2>2, <2>4, Zenon DEF PopCopy, TrailTypeOK
  <2>5. ASSUME queue[k] # <<>> PROVE TrailTypeOK'
    <3>1. Head(queue[k]) \in Copies /\ Tail(queue[k]) \in Seq(Copies) /\ Len(Tail(queue[k])) <= QueueCap
      BY <2>3, <2>5, Numbers
    <3>2. msg' = Head(queue[k]) /\ queue' = [queue EXCEPT ![k] = Tail(queue[k])]
          /\ opc' \in {"stamp", "count"}
          /\ UNCHANGED <<k, run, phase, sent, lost, dropped, log_index, counted, file, reader>>
      BY <1>2, <2>5 DEF PopCopy, ConsumeOf
    <3>3. queue' \in [Queues -> Seq(Copies)] /\ \A q \in Queues : Len(queue'[q]) <= QueueCap
      BY <2>2, <2>3, <3>1, <3>2, SMTT(30) DEF TrailTypeOK
    <3> QED
      BY <3>1, <3>2, <3>3, ZenonT(30) DEF TrailTypeOK
  <2> QED
    BY <2>4, <2>5
<1>3. CASE LoopTest
  <2>1. 1 \in 1 .. NumQueues + 1
    BY Numbers
  <2> QED
    BY <1>3, <2>1, Zenon DEF LoopTest, TrailTypeOK
<1>4. CASE StoreStamp
  BY <1>4, Zenon DEF StoreStamp, TrailTypeOK
<1>5. CASE StoreMsg
  <2>1. log_index \in Nat /\ log_index < MAX_LOG_ENTRIES /\ msg \in Copies
    BY <1>5, Numbers DEF StoreMsg, FileInv, Hand, TrailTypeOK
  <2>2. log_index + 1 \in 0 .. MAX_LOG_ENTRIES
    BY <2>1, Numbers
  <2>3. entry' = [entry EXCEPT ![log_index] = msg] /\ log_index' = log_index + 1 /\ opc' = "publish"
        /\ UNCHANGED <<run, phase, producers, k, msg, counted, header, write_index, reader>>
    BY <1>5, Zenon DEF StoreMsg
  <2>4. entry' \in [0 .. MAX_LOG_ENTRIES - 1 -> Copies \cup {Zeroed, Torn}]
    BY <2>1, <2>3, Zenon DEF TrailTypeOK
  <2> QED
    BY <2>2, <2>3, <2>4, Zenon DEF TrailTypeOK
<1>6. CASE Publish
  BY <1>6, Zenon DEF Publish, TrailTypeOK
<1>7. CASE Count
  BY <1>7 DEF Count, TrailTypeOK
<1>8. CASE Signal \/ Crash \/ WriteHeader
  BY <1>8, Zenon DEF Signal, Crash, WriteHeader, TrailTypeOK
<1>9. CASE Restart
  <2>1. run + 1 \in 1 .. MaxRuns
    BY <1>9, Numbers DEF Restart, TrailTypeOK
  <2>2. /\ queue' \in [Queues -> Seq(Copies)] /\ \A q \in Queues : Len(queue'[q]) <= QueueCap
    BY <1>9, Numbers DEF Restart
  <2>3. entry' \in [0 .. MAX_LOG_ENTRIES - 1 -> Copies \cup {Zeroed, Torn}]
    BY <1>9 DEF Restart, Blank
  <2>4. /\ run' \in 1 .. MaxRuns /\ dropped' \in Nat /\ k' \in 1 .. NumQueues + 1
        /\ log_index' \in 0 .. MAX_LOG_ENTRIES /\ counted' \in Nat /\ write_index' \in 0 .. MAX_LOG_ENTRIES
        /\ sent' \in [Queues -> 0 .. MaxCopies] /\ lost' \in [Queues -> SUBSET Copies]
    BY <1>9, <2>1, Numbers DEF Restart
  <2>5. /\ phase' = "starting" /\ opc' = "pop" /\ msg' = Zeroed /\ header' \in BOOLEAN
        /\ UNCHANGED <<rpc, cursor, end, opened, yielded>>
    BY <1>9, Zenon DEF Restart
  <2> QED
    BY <2>2, <2>3, <2>4, <2>5, Zenon DEF TrailTypeOK
<1>10. CASE Open \/ Poll
  <2>1. 0 \in 0 .. MAX_LOG_ENTRIES /\ <<>> \in Seq(Copies \cup {Zeroed, Torn})
    BY Numbers
  <2> QED
    BY <1>10, <2>1, Zenon DEF Open, Poll, TrailTypeOK
<1>11. CASE Yield
  <2>1. ASSUME cursor < end
        PROVE  cursor + 1 \in 0 .. MAX_LOG_ENTRIES /\ cursor \in 0 .. MAX_LOG_ENTRIES - 1
    BY <2>1, Numbers DEF TrailTypeOK
  <2>2. ASSUME cursor < end PROVE Append(yielded, entry[cursor]) \in Seq(Copies \cup {Zeroed, Torn})
    <3>1. entry[cursor] \in Copies \cup {Zeroed, Torn}
      BY <2>1, <2>2, Zenon DEF TrailTypeOK
    <3> QED
      BY <3>1 DEF TrailTypeOK
  <2> QED
    BY <1>11, <2>1, <2>2, Zenon DEF Yield, TrailTypeOK
<1>12. CASE UNCHANGED trail_vars
  BY <1>12, Zenon DEF trail_vars, TrailTypeOK
<1> QED
  BY <1>1, <1>2, <1>3, <1>4, <1>5, <1>6, <1>7, <1>8, <1>9, <1>10, <1>11, <1>12, Zenon DEF TrailNext, Manager

-----------------------------------------------------------------------------
(* A push.                                                                 *)

LEMMA PushStep ==
    ASSUME TrailTypeOK, MainInv, NEW q \in Queues, send_drop_copy(q) \/ GatewayReject(q)
    PROVE  MainInv'
<1> DEFINE m == sent[q] + 1
           c == CopyOf(q, m)
<1>0. PushCopy(q)
  BY Zenon DEF send_drop_copy, GatewayReject
<1>1. /\ sent[q] \in Nat /\ m \in 1 .. MaxCopies /\ m \in Nat /\ sent' = [sent EXCEPT ![q] = m]
      /\ c \in Copies /\ c.q = q /\ c.n = m /\ c.run = run
  BY <1>0, PushTypes, CopyMade, Numbers
<1>2. \/ queue' = [queue EXCEPT ![q] = Append(queue[q], c)] /\ lost' = lost
      \/ lost' = [lost EXCEPT ![q] = lost[q] \cup {c}] /\ queue' = queue
  BY <1>0, PushTypes, Zenon
<1>3. UNCHANGED <<run, opc, msg, log_index, entry, write_index>>
  BY <1>0, Zenon DEF PushCopy, manager, file
<1>t. /\ sent \in [Queues -> 0 .. MaxCopies] /\ lost \in [Queues -> SUBSET Copies]
      /\ queue \in [Queues -> Seq(Copies)]
      /\ \A x \in Queues : sent[x] \in Nat
  BY Numbers DEF TrailTypeOK
<1>s. \A x \in Queues : sent'[x] \in Nat /\ sent[x] <= sent'[x] /\ (x # q => sent'[x] = sent[x])
  BY <1>1, <1>t
<1>m. sent'[q] = m
  BY <1>1, <1>t
<1>l. \A x \in Queues : lost[x] \subseteq lost'[x] /\ (x # q => lost'[x] = lost[x]) /\ lost'[q] \subseteq lost[q] \cup {c}
  BY <1>2, <1>t
<1>q. \A x \in Queues : x # q => queue'[x] = queue[x]
  BY <1>2, <1>t, Zenon
<1>c. \A x, n : CopyOf(x, n)' = CopyOf(x, n)
  BY <1>3, Zenon DEF CopyOf
<1>h. Hand' = Hand
  BY <1>3, Zenon DEF Hand
<1> HIDE DEF m, c
<1>4. FileInv'
  <2>1. ASSUME msg \in Copies, msg.n <= sent[msg.q] PROVE msg.n <= sent'[msg.q]
    <3>1. msg.q \in Queues /\ msg.n \in Nat
      BY <2>1, CopyTypes
    <3> QED
      BY <1>s, <1>t, <2>1, <3>1
  <2> QED
    BY <1>3, <1>h, <2>1, Zenon DEF FileInv, MainInv
<1>5. LogInv'
  <2>1. ASSUME NEW d \in Copies, d.n <= sent[d.q] PROVE d.n <= sent'[d.q] /\ lost[d.q] \subseteq lost'[d.q]
    <3>1. d.q \in Queues /\ d.n \in Nat
      BY CopyTypes
    <3> QED
      BY <1>s, <1>l, <1>t, <2>1, <3>1
  <2> SUFFICES ASSUME NEW i \in 0 .. log_index - 1
               PROVE  /\ entry[i] \in Copies /\ entry[i].run = run /\ entry[i].n <= sent'[entry[i].q]
                      /\ \A j \in 0 .. i - 1 : entry[j].q = entry[i].q => entry[j].n < entry[i].n
                      /\ \A n \in 1 .. entry[i].n - 1 :
                            \/ CopyOf(entry[i].q, n) \in lost'[entry[i].q]
                            \/ \E j \in 0 .. i - 1 : entry[j] = CopyOf(entry[i].q, n)
    BY <1>3, <1>c, ZenonT(30) DEF LogInv
  <2>2. /\ entry[i] \in Copies /\ entry[i].run = run /\ entry[i].n <= sent[entry[i].q]
        /\ \A j \in 0 .. i - 1 : entry[j].q = entry[i].q => entry[j].n < entry[i].n
        /\ \A n \in 1 .. entry[i].n - 1 :
              \/ CopyOf(entry[i].q, n) \in lost[entry[i].q]
              \/ \E j \in 0 .. i - 1 : entry[j] = CopyOf(entry[i].q, n)
    BY Zenon DEF LogInv, MainInv
  <2>3. entry[i].n <= sent'[entry[i].q] /\ lost[entry[i].q] \subseteq lost'[entry[i].q]
    BY <2>1, <2>2, Zenon
  <2> QED
    BY <2>2, <2>3, ZenonT(30)
<1>6. QueueInv'
  <2> DEFINE Good(x, d) == /\ d.q = x /\ d.run = run /\ d.n <= sent[x]
                           /\ \A j \in 0 .. log_index - 1 : entry[j].q = x => entry[j].n < d.n
                           /\ Hand /\ msg.q = x => msg.n < d.n
             GoodNext(x, d) == /\ d.q = x /\ d.run = run /\ d.n <= sent'[x]
                               /\ \A j \in 0 .. log_index - 1 : entry[j].q = x => entry[j].n < d.n
                               /\ Hand /\ msg.q = x => msg.n < d.n
             Rising(s) == \A i, j \in DOMAIN s : j < i => s[j].n < s[i].n
  <2> SUFFICES ASSUME NEW x \in Queues
               PROVE  Rising(queue'[x]) /\ \A i \in DOMAIN queue'[x] : GoodNext(x, queue'[x][i])
    BY <1>3, <1>h, Zenon DEF QueueInv
  <2>1. Rising(queue[x]) /\ \A i \in DOMAIN queue[x] : Good(x, queue[x][i])
    BY Zenon DEF QueueInv, MainInv
  <2>2. queue[x] \in Seq(Copies)
    BY <1>t
  <2>3. ASSUME NEW i \in DOMAIN queue[x] PROVE GoodNext(x, queue[x][i])
    <3>1. queue[x][i] \in Copies
      BY <2>2
    <3>2. queue[x][i].n \in Nat
      BY <3>1, CopyTypes
    <3>3. queue[x][i].n <= sent[x] => queue[x][i].n <= sent'[x]
      BY <1>s, <1>t, <3>2
    <3> QED
      BY <2>1, <3>3, Zenon
  <2>4. CASE queue'[x] = queue[x]
    BY <2>1, <2>3, <2>4, Zenon
  <2>5. CASE x = q /\ queue'[x] = Append(queue[x], c)
    <3>1. ASSUME NEW i \in DOMAIN queue[x] PROVE queue[x][i].n < m
      <4>1. queue[x][i] \in Copies
        BY <2>2
      <4>2. queue[x][i].n \in Nat /\ queue[x][i].n <= sent[q]
        BY <2>1, <2>5, <4>1, CopyTypes, Zenon
      <4> QED
        BY <1>1, <4>2 DEF m
    <3>2. \A j \in 0 .. log_index - 1 : entry[j].q = q => entry[j].n < m
      <4>1. ASSUME NEW j \in 0 .. log_index - 1, entry[j].q = q PROVE entry[j].n < m
        <5>1. entry[j] \in Copies /\ entry[j].n <= sent[q]
          BY <4>1, Zenon DEF LogInv, MainInv
        <5>2. entry[j].n \in Nat
          BY <5>1, CopyTypes, Zenon
        <5> QED
          BY <1>1, <5>1, <5>2 DEF m
      <4> QED
        BY <4>1
    <3>3. ASSUME Hand, msg.q = q PROVE msg.n < m
      <4>1. msg \in Copies /\ msg.n <= sent[q]
        BY <3>3, Zenon DEF FileInv, MainInv
      <4>2. msg.n \in Nat
        BY <4>1, CopyTypes, Zenon
      <4> QED
        BY <1>1, <4>1, <4>2 DEF m
    <3>4. m <= sent'[q]
      BY <1>1, <1>m
    <3>5. GoodNext(x, c)
      BY <1>1, <2>5, <3>2, <3>3, <3>4, Zenon
    <3>6. /\ DOMAIN queue[x] = 1 .. Len(queue[x]) /\ Len(queue[x]) \in Nat
          /\ DOMAIN queue'[x] = 1 .. Len(queue[x]) + 1 /\ queue'[x][Len(queue[x]) + 1] = c
          /\ \A i \in DOMAIN queue[x] : queue'[x][i] = queue[x][i]
      BY <1>1, <2>2, <2>5
    <3>7. \A i \in DOMAIN queue'[x] : GoodNext(x, queue'[x][i])
      <4>1. \A i \in DOMAIN queue'[x] : i \in DOMAIN queue[x] \/ i = Len(queue[x]) + 1
        BY <3>6
      <4> QED
        BY <2>3, <3>5, <3>6, <4>1, ZenonT(30)
    <3>8. ASSUME NEW i \in DOMAIN queue'[x], NEW j \in DOMAIN queue'[x], j < i
          PROVE  queue'[x][j].n < queue'[x][i].n
      <4>1. j \in DOMAIN queue[x] /\ (i \in DOMAIN queue[x] \/ i = Len(queue[x]) + 1)
        BY <3>6, <3>8
      <4>2. CASE i \in DOMAIN queue[x]
        BY <2>1, <3>6, <3>8, <4>1, <4>2, ZenonT(30)
      <4>3. CASE i = Len(queue[x]) + 1
        BY <1>1, <3>1, <3>6, <4>1, <4>3, Zenon
      <4> QED
        BY <4>1, <4>2, <4>3
    <3> QED
      BY <3>7, <3>8, Zenon
  <2>6. queue'[x] = queue[x] \/ (x = q /\ queue'[x] = Append(queue[x], c))
    BY <1>2, <1>q, <1>t, Zenon
  <2> QED
    BY <2>4, <2>5, <2>6, Zenon
<1>7. CoverInv'
  <2> SUFFICES ASSUME write_index < MAX_LOG_ENTRIES, NEW x \in Queues, NEW n \in 1 .. sent'[x]
               PROVE  Found(x, n)'
    BY <1>3, Zenon DEF CoverInv
  <2>1. ASSUME Found(x, n) PROVE Found(x, n)'
    <3>1. ASSUME NEW i \in DOMAIN queue[x], queue[x][i] = CopyOf(x, n)
          PROVE  \E j \in DOMAIN queue'[x] : queue'[x][j] = CopyOf(x, n)
      <4>1. queue'[x] = queue[x] \/ queue'[x] = Append(queue[x], c)
        BY <1>2, <1>q, <1>t, Zenon
      <4>2. queue[x] \in Seq(Copies)
        BY <1>t
      <4>3. i \in DOMAIN queue'[x] /\ queue'[x][i] = queue[x][i]
        BY <1>1, <4>1, <4>2, SMTT(30)
      <4> QED
        BY <3>1, <4>3, Zenon
    <3> QED
      BY <1>3, <1>c, <1>h, <1>l, <2>1, <3>1, Zenon DEF Found
  <2>2. CASE n \in 1 .. sent[x]
    <3>1. Found(x, n)
      BY <2>2, Zenon DEF CoverInv, MainInv
    <3> QED
      BY <2>1, <3>1
  <2>3. CASE n \notin 1 .. sent[x]
    <3>1. x = q
      BY <1>s, <2>3, Zenon
    <3>2. n = m
      BY <1>1, <1>m, <2>3, <3>1 DEF m
    <3>3. CASE lost' = [lost EXCEPT ![q] = lost[q] \cup {c}]
      <4>1. c \in lost'[q]
        BY <1>t, <3>3
      <4> QED
        BY <1>c, <3>1, <3>2, <4>1, Zenon DEF Found, c
    <3>4. CASE queue' = [queue EXCEPT ![q] = Append(queue[q], c)]
      <4>1. queue[q] \in Seq(Copies) /\ queue'[q] = Append(queue[q], c)
        BY <1>t, <3>4, Zenon
      <4>2. Len(queue[q]) + 1 \in DOMAIN queue'[q] /\ queue'[q][Len(queue[q]) + 1] = c
        BY <1>1, <4>1
      <4> QED
        BY <1>c, <3>1, <3>2, <4>2, Zenon DEF Found, c
    <3> QED
      BY <1>2, <3>3, <3>4
  <2> QED
    BY <2>2, <2>3
<1>8. LostInv'
  <2> DEFINE U == UNION {lost[x] : x \in Engines}
             V == UNION {lost'[x] : x \in Engines}
  <2>1. ASSUME NEW x \in Queues, NEW d \in lost'[x] PROVE d.q = x /\ d.run = run' /\ d.n <= sent'[x]
    <3>1. CASE d \in lost[x]
      <4>1. d \in Copies /\ d.q = x /\ d.run = run /\ d.n <= sent[x]
        BY <1>t, <3>1, Zenon DEF LostInv, MainInv
      <4>2. d.n \in Nat
        BY <4>1, CopyTypes, Zenon
      <4>3. d.n <= sent'[x]
        BY <1>s, <1>t, <4>1, <4>2
      <4> QED
        BY <1>3, <4>1, <4>3, Zenon
    <3>2. CASE d \notin lost[x]
      <4>1. d = c /\ x = q
        BY <1>l, <2>1, <3>2, Zenon
      <4>2. m <= sent'[q]
        BY <1>1, <1>m
      <4> QED
        BY <1>1, <1>3, <4>1, <4>2, Zenon
    <3> QED
      BY <3>1, <3>2
  <2>2. IsFiniteSet(U) /\ dropped = Cardinality(U)
    BY Zenon DEF LostInv, MainInv
  <2>3. c \notin lost[q]
    <3>1. ASSUME c \in lost[q] PROVE m <= sent[q]
      BY <1>1, <3>1, Zenon DEF LostInv, MainInv
    <3> QED
      BY <1>1, <3>1 DEF m
  <2>4. c \notin U
    <3>1. ASSUME NEW x \in Engines, c \in lost[x] PROVE x = q
      BY <1>1, <3>1, Zenon DEF LostInv, MainInv, Engines
    <3> QED
      BY <2>3, <3>1, Zenon
  <2>5. CASE q \in RejectQueues
    <3>1. q \notin Engines /\ dropped' = dropped
      BY <2>5, Zenon DEF Engines, send_drop_copy, GatewayReject
    <3>2. \A x \in Engines : lost'[x] = lost[x]
      BY <1>l, <3>1, Zenon DEF Engines
    <3>3. V = U
      BY <3>2
    <3> QED
      BY <2>1, <2>2, <3>1, <3>3, Zenon DEF LostInv, Engines
  <2>6. CASE q \notin RejectQueues
    <3>1. q \in Engines /\ dropped' = dropped + (IF lost' = lost THEN 0 ELSE 1)
      BY <2>6, Zenon DEF Engines, send_drop_copy, GatewayReject
    <3>2. dropped \in Nat
      BY DEF TrailTypeOK
    <3>3. CASE lost' = lost
      <4>1. dropped' = dropped
        BY <3>1, <3>2, <3>3
      <4> QED
        <5>1. IsFiniteSet(V) /\ dropped' = Cardinality(V)
          BY <2>2, <3>3, <4>1, Zenon
        <5> QED
          BY <2>1, <5>1, Zenon DEF LostInv
    <3>4. CASE lost' # lost
      <4>1. lost' = [lost EXCEPT ![q] = lost[q] \cup {c}] /\ dropped' = dropped + 1
        BY <1>2, <3>1, <3>4, Zenon
      <4>2. Engines \subseteq Queues
        BY DEF Engines
      <4>3. V = U \cup {c}
        BY <1>t, <3>1, <4>1, <4>2
      <4> HIDE DEF U, V
      <4>4. IsFiniteSet(V) /\ Cardinality(V) = Cardinality(U) + 1
        BY <2>2, <2>4, <4>3, FS_AddElement, Zenon
      <4>5. IsFiniteSet(V) /\ dropped' = Cardinality(V)
        BY <2>2, <4>1, <4>4, Zenon
      <4> QED
        BY <2>1, <4>5, Zenon DEF LostInv, V
    <3> QED
      BY <3>3, <3>4
  <2> QED
    BY <2>5, <2>6
<1> QED
  BY <1>4, <1>5, <1>6, <1>7, <1>8, Zenon DEF MainInv

-----------------------------------------------------------------------------
(* The OrderManager.                                                       *)

LEMMA PopStep ==
    ASSUME TrailTypeOK, MainInv, PopCopy
    PROVE  MainInv'
<1>k. k \in Queues
  BY Numbers DEF PopCopy, TrailTypeOK, Queues
<1>t. /\ queue \in [Queues -> Seq(Copies)] /\ queue[k] \in Seq(Copies)
      /\ log_index \in Nat /\ write_index \in Nat
  BY <1>k, Numbers DEF TrailTypeOK
<1>0. opc = "pop" /\ UNCHANGED <<run, sent, lost, dropped, log_index, entry, write_index>>
  BY Zenon DEF PopCopy, file
<1>1. CASE queue[k] = <<>>
  <2>1. UNCHANGED mainVars
    BY <1>0, <1>1 DEF PopCopy, mainVars
  <2> QED
    BY <2>1, MainKept, Zenon
<1>2. CASE queue[k] # <<>>
  <2> DEFINE h == Head(queue[k])
             s == Tail(queue[k])
  <2>1. /\ msg' = h /\ queue' = [queue EXCEPT ![k] = s]
        /\ opc' = IF log_index < MAX_LOG_ENTRIES THEN "stamp" ELSE "count"
    BY <1>2, Zenon DEF PopCopy, ConsumeOf
  <2>2. /\ h \in Copies /\ 1 \in DOMAIN queue[k] /\ h = queue[k][1]
        /\ \A i \in DOMAIN s : i + 1 \in DOMAIN queue[k] /\ s[i] = queue[k][i + 1] /\ 1 < i + 1 /\ i \in Int
    BY <1>t, <1>2
  <2>3. \A x \in Queues : queue'[x] = IF x = k THEN s ELSE queue[x]
    BY <1>k, <1>t, <2>1, Zenon
  <2>4. opc' \in {"stamp", "count"} /\ ~Hand /\ write_index = log_index
    BY <1>0, <1>t, <2>1 DEF Hand, FileInv, MainInv
  <2>5. opc' = "stamp" <=> log_index < MAX_LOG_ENTRIES
    BY <2>1
  <2>6. /\ h.q = k /\ h.run = run /\ h.n <= sent[k] /\ \A i \in DOMAIN s : h.n < s[i].n
        /\ \A j \in 0 .. log_index - 1 : entry[j].q = k => entry[j].n < h.n
    <3> HIDE DEF h, s
    <3>1. \A i \in DOMAIN queue[k] :
             /\ queue[k][i].q = k /\ queue[k][i].run = run /\ queue[k][i].n <= sent[k]
             /\ \A j \in DOMAIN queue[k] : j < i => queue[k][j].n < queue[k][i].n
             /\ \A j \in 0 .. log_index - 1 : entry[j].q = k => entry[j].n < queue[k][i].n
      BY <1>k, Zenon DEF QueueInv, MainInv
    <3>2. \A i \in DOMAIN s : h.n < s[i].n
      BY <2>2, <3>1, Zenon
    <3> QED
      BY <2>2, <3>1, <3>2, Zenon
  <2>c. \A x, n : CopyOf(x, n)' = CopyOf(x, n)
    BY <1>0, Zenon DEF CopyOf
  <2>h. Hand' => opc' = "stamp"
    BY <2>4 DEF Hand
  <2> HIDE DEF h, s
  <2>7. FileInv'
    <3>1. log_index' = write_index' + (IF opc' = "publish" THEN 1 ELSE 0) /\ opc' # "publish"
      BY <1>0, <1>t, <2>4
    <3> QED
      BY <1>0, <2>1, <2>2, <2>5, <2>6, <2>h, <3>1, Zenon DEF FileInv
  <2>8. LogInv'
    <3>1. LogInv
      BY DEF MainInv
    <3> QED
      BY <1>0, <2>c, <3>1, ZenonT(30) DEF LogInv
  <2>9. LostInv'
    BY <1>0, ZenonT(30) DEF LostInv, MainInv
  <2>10. QueueInv'
    <3> SUFFICES ASSUME NEW x \in Queues, NEW i \in DOMAIN queue'[x]
                 PROVE  /\ queue'[x][i].q = x /\ queue'[x][i].run = run /\ queue'[x][i].n <= sent[x]
                        /\ \A j \in DOMAIN queue'[x] : j < i => queue'[x][j].n < queue'[x][i].n
                        /\ \A j \in 0 .. log_index - 1 : entry[j].q = x => entry[j].n < queue'[x][i].n
                        /\ Hand' /\ msg'.q = x => msg'.n < queue'[x][i].n
      BY <1>0, Zenon DEF QueueInv
    <3>1. \A y \in Queues : \A e \in DOMAIN queue[y] :
             /\ queue[y][e].q = y /\ queue[y][e].run = run /\ queue[y][e].n <= sent[y]
             /\ \A j \in DOMAIN queue[y] : j < e => queue[y][j].n < queue[y][e].n
             /\ \A j \in 0 .. log_index - 1 : entry[j].q = y => entry[j].n < queue[y][e].n
      BY Zenon DEF QueueInv, MainInv
    <3>2. CASE x # k
      <4>1. queue'[x] = queue[x] /\ msg'.q # x
        BY <2>1, <2>3, <2>6, <3>2, Zenon
      <4>2. i \in DOMAIN queue[x]
        BY <4>1, Zenon
      <4>3. /\ queue[x][i].q = x /\ queue[x][i].run = run /\ queue[x][i].n <= sent[x]
            /\ \A j \in DOMAIN queue[x] : j < i => queue[x][j].n < queue[x][i].n
            /\ \A j \in 0 .. log_index - 1 : entry[j].q = x => entry[j].n < queue[x][i].n
        BY <3>1, <4>2, Zenon
      <4> QED
        BY <4>1, <4>3, Zenon
    <3>3. CASE x = k
      <4>1. queue'[x] = s /\ msg' = h
        BY <2>1, <2>3, <3>3, ZenonT(30)
      <4>2. \A j \in DOMAIN s : j < i => j + 1 < i + 1
        BY <2>2, <4>1
      <4>3. i + 1 \in DOMAIN queue[k] /\ s[i] = queue[k][i + 1]
        BY <2>2, <4>1, Zenon
      <4>4. \A j \in DOMAIN s : j < i => s[j].n < s[i].n
        BY <1>k, <2>2, <3>1, <4>2, <4>3, Zenon
      <4>5. /\ s[i].q = k /\ s[i].run = run /\ s[i].n <= sent[k] /\ h.n < s[i].n
            /\ \A j \in 0 .. log_index - 1 : entry[j].q = k => entry[j].n < s[i].n
        <5>1. i \in DOMAIN s
          BY <4>1, Zenon
        <5>2. /\ queue[k][i + 1].q = k /\ queue[k][i + 1].run = run /\ queue[k][i + 1].n <= sent[k]
              /\ \A j \in 0 .. log_index - 1 : entry[j].q = k => entry[j].n < queue[k][i + 1].n
          BY <1>k, <3>1, <4>3, Zenon
        <5> QED
          BY <2>6, <4>3, <5>1, <5>2, Zenon
      <4> QED
        BY <3>3, <4>1, <4>4, <4>5, Zenon
    <3> QED
      BY <3>2, <3>3
  <2>11. CoverInv'
    <3> SUFFICES ASSUME write_index < MAX_LOG_ENTRIES, NEW x \in Queues, NEW n \in 1 .. sent[x]
                 PROVE  Found(x, n)'
      BY <1>0, Zenon DEF CoverInv
    <3>1. Found(x, n)
      BY Zenon DEF CoverInv, MainInv
    <3>2. Hand'
      BY <2>4, <2>5, SMTT(30) DEF Hand
    <3>3. ASSUME NEW i \in DOMAIN queue[x], queue[x][i] = CopyOf(x, n)
          PROVE  msg' = CopyOf(x, n) \/ \E j \in DOMAIN queue'[x] : queue'[x][j] = CopyOf(x, n)
      <4>1. CASE x # k
        BY <2>3, <3>3, <4>1, Zenon
      <4>2. CASE x = k /\ i = 1
        BY <2>1, <2>2, <3>3, <4>2, Zenon
      <4>3. CASE x = k /\ i # 1
        <5>1. i - 1 \in DOMAIN s /\ s[i - 1] = queue[k][i]
          BY <1>t, <1>2, <3>3, <4>3 DEF s
        <5> QED
          BY <2>3, <3>3, <4>3, <5>1, Zenon
      <4> QED
        BY <4>1, <4>2, <4>3
    <3> QED
      BY <1>0, <2>4, <2>c, <3>1, <3>2, <3>3, Zenon DEF Found
  <2> QED
    BY <2>7, <2>8, <2>9, <2>10, <2>11, Zenon DEF MainInv
<1> QED
  BY <1>1, <1>2

LEMMA StampStep ==
    ASSUME TrailTypeOK, MainInv, StoreStamp
    PROVE  MainInv'
<1>0. /\ opc = "stamp" /\ opc' = "store" /\ entry' = [entry EXCEPT ![log_index] = Torn]
      /\ UNCHANGED <<run, sent, lost, queue, dropped, msg, log_index, write_index>>
  BY Zenon DEF StoreStamp, producers
<1>t. /\ entry \in [0 .. MAX_LOG_ENTRIES - 1 -> Fields] /\ log_index \in Nat /\ log_index <= MAX_LOG_ENTRIES
      /\ write_index \in Nat /\ MAX_LOG_ENTRIES \in Nat
  BY Numbers DEF TrailTypeOK, Fields
<1>1. \A i \in 0 .. log_index - 1 : entry'[i] = entry[i]
  BY <1>0, <1>t
<1>2. \A i \in 0 .. log_index - 1 : \A j \in 0 .. i - 1 : j \in 0 .. log_index - 1
  BY <1>t
<1>h. Hand /\ Hand'
  BY <1>0 DEF Hand
<1>c. \A x, n : CopyOf(x, n)' = CopyOf(x, n)
  BY <1>0, Zenon DEF CopyOf
<1>3. FileInv'
  <2>1. log_index' = write_index' + (IF opc' = "publish" THEN 1 ELSE 0) /\ opc' # "publish"
    BY <1>0, <1>t DEF FileInv, MainInv
  <2> QED
    BY <1>0, <1>1, <1>h, <2>1, Zenon DEF FileInv, MainInv
<1>4. LogInv'
  <2> DEFINE Kept(e, i) == /\ e \in Copies /\ e.run = run /\ e.n <= sent[e.q]
                           /\ \A j \in 0 .. i - 1 : entry[j].q = e.q => entry[j].n < e.n
                           /\ \A n \in 1 .. e.n - 1 :
                                 \/ CopyOf(e.q, n) \in lost[e.q]
                                 \/ \E j \in 0 .. i - 1 : entry[j] = CopyOf(e.q, n)
             KeptNext(e, i) == /\ e \in Copies /\ e.run = run /\ e.n <= sent[e.q]
                               /\ \A j \in 0 .. i - 1 : entry'[j].q = e.q => entry'[j].n < e.n
                               /\ \A n \in 1 .. e.n - 1 :
                                     \/ CopyOf(e.q, n) \in lost[e.q]
                                     \/ \E j \in 0 .. i - 1 : entry'[j] = CopyOf(e.q, n)
  <2>1. ASSUME NEW i \in 0 .. log_index - 1 PROVE Kept(entry[i], i)
    BY Zenon DEF LogInv, MainInv
  <2>2. ASSUME NEW e, NEW i \in 0 .. log_index - 1, Kept(e, i) PROVE KeptNext(e, i)
    <3>1. \A j \in 0 .. i - 1 : entry'[j] = entry[j]
      BY <1>1, <1>2, Zenon
    <3> QED
      BY <2>2, <3>1, Zenon
  <2>3. ASSUME NEW i \in 0 .. log_index' - 1 PROVE KeptNext(entry'[i], i)
    <3> HIDE DEF Kept, KeptNext
    <3>1. i \in 0 .. log_index - 1
      BY <1>0, Zenon
    <3> QED
      BY <1>1, <2>1, <2>2, <3>1, Zenon
  <2>4. run' = run /\ sent' = sent /\ lost' = lost
    BY <1>0, Zenon
  <2> QED
    BY <1>c, <2>3, <2>4, Zenon DEF LogInv
<1>5. QueueInv'
  <2>1. QueueInv
    BY DEF MainInv
  <2>2. ASSUME NEW x \in Queues, NEW i \in DOMAIN queue[x], NEW j \in 0 .. log_index - 1, entry'[j].q = x
        PROVE  entry'[j].n < queue[x][i].n
    BY <1>1, <2>1, <2>2, Zenon DEF QueueInv
  <2> QED
    BY <1>0, <1>h, <2>1, <2>2, ZenonT(30) DEF QueueInv
<1>6. LostInv'
  BY <1>0, Zenon DEF LostInv, MainInv
<1>7. CoverInv'
  <2>1. CoverInv
    BY DEF MainInv
  <2> QED
    BY <1>0, <1>1, <1>c, <1>h, <2>1, ZenonT(30) DEF CoverInv, Found
<1> QED
  BY <1>3, <1>4, <1>5, <1>6, <1>7, Zenon DEF MainInv

LEMMA StoreStep ==
    ASSUME TrailTypeOK, MainInv, StoreMsg
    PROVE  MainInv'
<1>0. /\ opc = "store" /\ opc' = "publish" /\ entry' = [entry EXCEPT ![log_index] = msg]
      /\ log_index' = log_index + 1
      /\ UNCHANGED <<run, sent, lost, queue, dropped, msg, write_index>>
  BY Zenon DEF StoreMsg, producers
<1>f. /\ Hand /\ log_index < MAX_LOG_ENTRIES /\ write_index = log_index
      /\ msg \in Copies /\ msg.run = run /\ msg.n <= sent[msg.q]
      /\ \A j \in 0 .. log_index - 1 : entry[j].q = msg.q => entry[j].n < msg.n
  <2>1. Hand
    BY <1>0 DEF Hand
  <2>2. write_index = log_index
    BY <1>0 DEF FileInv, MainInv, TrailTypeOK
  <2> QED
    BY <2>1, <2>2, Zenon DEF FileInv, MainInv
<1>t. /\ entry \in [0 .. MAX_LOG_ENTRIES - 1 -> Fields] /\ log_index \in Nat /\ MAX_LOG_ENTRIES \in Nat
      /\ log_index \in 0 .. MAX_LOG_ENTRIES - 1
  BY <1>f, Numbers DEF TrailTypeOK, Fields
<1>1. entry'[log_index] = msg /\ \A i \in 0 .. log_index - 1 : entry'[i] = entry[i]
  BY <1>0, <1>t
<1>2. \A i \in 0 .. log_index' - 1 : i \in 0 .. log_index - 1 \/ i = log_index
  BY <1>0, <1>t
<1>3. 0 .. log_index - 1 \subseteq 0 .. log_index' - 1 /\ log_index \in 0 .. log_index' - 1
  BY <1>0, <1>t
<1>s. \A i \in 0 .. log_index - 1 : \A j \in 0 .. i - 1 : j \in 0 .. log_index - 1
  BY <1>t
<1>h. ~Hand'
  BY <1>0 DEF Hand
<1>c. \A x, n : CopyOf(x, n)' = CopyOf(x, n)
  BY <1>0, Zenon DEF CopyOf
<1>m. msg.q \in Queues /\ msg.n \in Nat
  BY <1>f, CopyTypes, Zenon
<1>4. FileInv'
  <2>1. log_index' = write_index' + (IF opc' = "publish" THEN 1 ELSE 0)
    BY <1>0, <1>f, <1>t
  <2> QED
    BY <1>0, <1>1, <1>f, <1>h, <2>1, Zenon DEF FileInv
<1>5. LogInv'
  <2> DEFINE Kept(e, i) == /\ e \in Copies /\ e.run = run /\ e.n <= sent[e.q]
                           /\ \A j \in 0 .. i - 1 : entry[j].q = e.q => entry[j].n < e.n
                           /\ \A n \in 1 .. e.n - 1 :
                                 \/ CopyOf(e.q, n) \in lost[e.q]
                                 \/ \E j \in 0 .. i - 1 : entry[j] = CopyOf(e.q, n)
             KeptNext(e, i) == /\ e \in Copies /\ e.run = run /\ e.n <= sent[e.q]
                               /\ \A j \in 0 .. i - 1 : entry'[j].q = e.q => entry'[j].n < e.n
                               /\ \A n \in 1 .. e.n - 1 :
                                     \/ CopyOf(e.q, n) \in lost[e.q]
                                     \/ \E j \in 0 .. i - 1 : entry'[j] = CopyOf(e.q, n)
  <2>1. ASSUME NEW i \in 0 .. log_index - 1 PROVE Kept(entry[i], i)
    BY Zenon DEF LogInv, MainInv
  <2>2. Kept(msg, log_index)
    <3>1. ASSUME NEW n \in 1 .. msg.n - 1
          PROVE  \/ CopyOf(msg.q, n) \in lost[msg.q]
                 \/ \E j \in 0 .. log_index - 1 : entry[j] = CopyOf(msg.q, n)
      <4>1. n \in 1 .. sent[msg.q] /\ n \in 1 .. MaxCopies /\ n < msg.n
        <5>1. sent[msg.q] \in 0 .. MaxCopies /\ msg.n <= sent[msg.q]
          BY <1>f, <1>m DEF TrailTypeOK
        <5> QED
          BY <1>m, <5>1, Numbers, SMTT(30)
      <4>2. Found(msg.q, n)
        BY <1>f, <1>m, <4>1, Zenon DEF CoverInv, MainInv
      <4>3. CopyOf(msg.q, n).n = n
        BY <1>m, <4>1, CopyMade, Zenon
      <4>4. msg # CopyOf(msg.q, n)
        BY <1>m, <4>1, <4>3
      <4>5. ASSUME NEW i \in DOMAIN queue[msg.q], queue[msg.q][i] = CopyOf(msg.q, n) PROVE FALSE
        <5>1. msg.n < queue[msg.q][i].n
          BY <1>f, <1>m, <4>5, Zenon DEF QueueInv, MainInv
        <5>2. msg.n < n
          BY <4>3, <4>5, <5>1, Zenon
        <5> QED
          BY <1>m, <4>1, <5>2
      <4> QED
        BY <4>2, <4>4, <4>5, Zenon DEF Found
    <3> QED
      BY <1>f, <3>1, Zenon
  <2>3. ASSUME NEW e, NEW i \in 0 .. log_index' - 1, Kept(e, i) PROVE KeptNext(e, i)
    <3>1. \A j \in 0 .. i - 1 : entry'[j] = entry[j]
      BY <1>1, <1>2, <1>s, Zenon
    <3> QED
      BY <2>3, <3>1, Zenon
  <2>4. ASSUME NEW i \in 0 .. log_index' - 1 PROVE KeptNext(entry'[i], i)
    <3> HIDE DEF Kept, KeptNext
    <3>1. CASE i = log_index
      BY <1>1, <2>2, <2>3, <3>1, Zenon
    <3>2. CASE i \in 0 .. log_index - 1
      BY <1>1, <2>1, <2>3, <3>2, Zenon
    <3> QED
      BY <1>2, <3>1, <3>2, Zenon
  <2>5. run' = run /\ sent' = sent /\ lost' = lost
    BY <1>0, Zenon
  <2> QED
    BY <1>c, <2>4, <2>5, Zenon DEF LogInv
<1>6. QueueInv'
  <2>1. QueueInv
    BY DEF MainInv
  <2>2. ASSUME NEW x \in Queues, NEW i \in DOMAIN queue[x], NEW j \in 0 .. log_index' - 1, entry'[j].q = x
        PROVE  entry'[j].n < queue[x][i].n
    BY <1>1, <1>2, <1>f, <2>1, <2>2, ZenonT(30) DEF QueueInv
  <2> QED
    BY <1>0, <1>h, <2>1, <2>2, ZenonT(30) DEF QueueInv
<1>7. LostInv'
  BY <1>0, Zenon DEF LostInv, MainInv
<1>8. CoverInv'
  <2>1. CoverInv
    BY DEF MainInv
  <2> QED
    BY <1>0, <1>1, <1>3, <1>c, <2>1, ZenonT(30) DEF CoverInv, Found
<1> QED
  BY <1>4, <1>5, <1>6, <1>7, <1>8, Zenon DEF MainInv

LEMMA PublishStep ==
    ASSUME TrailTypeOK, MainInv, Publish \/ Count
    PROVE  MainInv'
<1>0. /\ UNCHANGED <<run, sent, lost, queue, dropped, msg, log_index, entry>>
      /\ \/ opc = "publish" /\ opc' = "count" /\ write_index' = log_index
         \/ opc = "count" /\ opc' = "pop" /\ write_index' = write_index
  BY Zenon DEF Publish, Count, producers, file
<1>t. log_index \in Nat /\ write_index \in Nat /\ MAX_LOG_ENTRIES \in Nat
  BY Numbers DEF TrailTypeOK
<1>h. ~Hand /\ ~Hand' /\ opc' # "publish"
  BY <1>0 DEF Hand
<1>c. \A x, n : CopyOf(x, n)' = CopyOf(x, n)
  BY <1>0, Zenon DEF CopyOf
<1>1. FileInv'
  <2>1. log_index' = write_index' + (IF opc' = "publish" THEN 1 ELSE 0)
    BY <1>0, <1>t DEF FileInv, MainInv
  <2> QED
    BY <1>h, <2>1, ZenonT(30) DEF FileInv
<1>2. LogInv'
  <2>1. LogInv
    BY DEF MainInv
  <2> QED
    BY <1>0, <1>c, <2>1, ZenonT(30) DEF LogInv
<1>3. QueueInv'
  BY <1>0, <1>h, ZenonT(30) DEF QueueInv, MainInv
<1>4. LostInv'
  BY <1>0, Zenon DEF LostInv, MainInv
<1>5. CoverInv'
  <2>1. CoverInv
    BY DEF MainInv
  <2>2. write_index' < MAX_LOG_ENTRIES => write_index < MAX_LOG_ENTRIES
    BY <1>0, <1>t DEF FileInv, MainInv
  <2> QED
    BY <1>0, <1>c, <1>h, <2>1, <2>2, Zenon DEF CoverInv, Found
<1> QED
  BY <1>1, <1>2, <1>3, <1>4, <1>5, Zenon DEF MainInv

\* A process starts with nothing made, lost, waiting or logged.
LEMMA MainInit == TrailInit => MainInv
<1> SUFFICES ASSUME TrailInit PROVE MainInv
  OBVIOUS
<1>1. /\ sent = [q \in Queues |-> 0] /\ lost = [q \in Queues |-> {}] /\ queue = [q \in Queues |-> <<>>]
      /\ dropped = 0 /\ opc = "pop" /\ log_index = 0 /\ write_index = 0
  BY DEF TrailInit
<1>2. FileInv /\ LogInv
  BY <1>1, SMTT(30) DEF FileInv, LogInv, Hand
<1>3. QueueInv /\ CoverInv
  BY <1>1 DEF QueueInv, CoverInv
<1>4. LostInv
  <2>1. \A q \in Engines : lost[q] = {}
    BY <1>1 DEF Engines
  <2>2. UNION {lost[q] : q \in Engines} = {}
    BY <2>1, Zenon
  <2> QED
    <3>1. \A q \in Queues : lost[q] = {}
      BY <1>1
    <3> QED
      BY <1>1, <2>2, <3>1, FS_EmptySet, Zenon DEF LostInv
<1> QED
  BY <1>2, <1>3, <1>4 DEF MainInv

LEMMA RestartStep ==
    ASSUME Restart
    PROVE  MainInv'
<1>1. /\ sent' = [q \in Queues |-> 0] /\ lost' = [q \in Queues |-> {}] /\ queue' = [q \in Queues |-> <<>>]
      /\ dropped' = 0 /\ opc' = "pop" /\ log_index' = 0 /\ write_index' = 0
  BY DEF Restart
<1>2. FileInv' /\ LogInv'
  BY <1>1 DEF FileInv, LogInv, Hand
<1>3. QueueInv' /\ CoverInv'
  BY <1>1 DEF QueueInv, CoverInv
<1>4. LostInv'
  <2>1. \A q \in Engines : lost'[q] = {}
    BY <1>1 DEF Engines
  <2>2. UNION {lost'[q] : q \in Engines} = {}
    BY <2>1, Zenon
  <2> QED
    <3>1. \A q \in Queues : lost'[q] = {}
      BY <1>1
    <3> QED
      BY <1>1, <2>2, <3>1, FS_EmptySet, Zenon DEF LostInv
<1> QED
  BY <1>2, <1>3, <1>4 DEF MainInv

LEMMA MainStep == TrailTypeOK /\ MainInv /\ [TrailNext]_trail_vars => MainInv'
<1> SUFFICES ASSUME TrailTypeOK, MainInv, [TrailNext]_trail_vars PROVE MainInv'
  OBVIOUS
<1>1. CASE \E q \in Queues : send_drop_copy(q) \/ GatewayReject(q)
  BY <1>1, PushStep, Zenon
<1>2. CASE PopCopy
  BY <1>2, PopStep, Zenon
<1>3. CASE StoreStamp
  BY <1>3, StampStep, Zenon
<1>4. CASE StoreMsg
  BY <1>4, StoreStep, Zenon
<1>5. CASE Publish \/ Count
  BY <1>5, PublishStep, Zenon
<1>6. CASE Restart
  BY <1>6, RestartStep, Zenon
<1>7. CASE LoopTest \/ Signal \/ Crash \/ WriteHeader \/ Open \/ Poll \/ Yield \/ UNCHANGED trail_vars
  <2>1. UNCHANGED mainVars
    BY <1>7, Zenon DEF LoopTest, Signal, Crash, WriteHeader, Open, Poll, Yield, trail_vars, producers, manager, file, reader, mainVars
  <2> QED
    BY <2>1, MainKept, Zenon
<1> QED
  BY <1>1, <1>2, <1>3, <1>4, <1>5, <1>6, <1>7, Zenon DEF TrailNext, Manager

-----------------------------------------------------------------------------
(* The monitor.                                                            *)

\* No step but a restart changes an entry below write_index, which never goes back.
LEMMA LogKept ==
    ASSUME TrailTypeOK, MainInv, [TrailNext]_trail_vars, ~Restart
    PROVE  /\ run' = run /\ write_index <= write_index'
           /\ \A i \in 0 .. write_index - 1 : entry'[i] = entry[i]
<1>t. write_index \in Nat /\ log_index \in Nat /\ write_index <= log_index
      /\ entry \in [0 .. MAX_LOG_ENTRIES - 1 -> Fields] /\ MAX_LOG_ENTRIES \in Nat
  BY Numbers DEF TrailTypeOK, Fields, FileInv, MainInv
<1>1. CASE StoreStamp \/ StoreMsg
  <2>1. run' = run /\ write_index' = write_index
        /\ (entry' = [entry EXCEPT ![log_index] = Torn] \/ entry' = [entry EXCEPT ![log_index] = msg])
    BY <1>1, Zenon DEF StoreStamp, StoreMsg
  <2>2. \A i \in 0 .. write_index - 1 : i # log_index
    BY <1>t
  <2> QED
    BY <1>t, <2>1, <2>2
<1>2. CASE Publish
  BY <1>t, <1>2 DEF Publish
<1>3. CASE run' = run /\ write_index' = write_index /\ entry' = entry
  BY <1>t, <1>3
<1>4. CASE \E q \in Queues : send_drop_copy(q) \/ GatewayReject(q)
  BY <1>3, <1>4, Zenon DEF send_drop_copy, GatewayReject, PushCopy, file
<1>5. CASE PopCopy \/ LoopTest \/ Count \/ Signal \/ Crash \/ WriteHeader \/ Open \/ Poll \/ Yield \/ UNCHANGED trail_vars
  BY <1>3, <1>5, Zenon DEF PopCopy, LoopTest, Count, Signal, Crash, WriteHeader, Open, Poll, Yield, trail_vars, file
<1> QED
  BY <1>1, <1>2, <1>4, <1>5, Zenon DEF TrailNext, Manager

LEMMA ReadInit == TrailInit => ReadInv
  BY DEF TrailInit, ReadInv

\* A step that leaves the reader where it is.
LEMMA ReaderWaits ==
    ASSUME TrailTypeOK, MainInv, ReadInv, [TrailNext]_trail_vars, UNCHANGED reader
    PROVE  ReadInv'
<1>0. rpc' = rpc /\ cursor' = cursor /\ end' = end /\ opened' = opened /\ yielded' = yielded
  BY Zenon DEF reader
<1>t. /\ run \in Nat /\ opened \in Nat /\ write_index \in Nat /\ cursor \in Nat /\ end \in Nat
  BY Numbers DEF TrailTypeOK
<1>1. CASE Restart
  <2>1. run' = run + 1
    BY <1>1 DEF Restart
  <2>2. opened' <= run' /\ opened' # run'
    BY <1>0, <1>t, <2>1 DEF ReadInv
  <2> QED
    BY <2>2 DEF ReadInv
<1>2. CASE ~Restart
  <2>1. /\ run' = run /\ write_index <= write_index'
        /\ \A i \in 0 .. write_index - 1 : entry'[i] = entry[i]
    BY <1>2, LogKept
  <2>2. CASE opened = run
    <3>1. /\ cursor <= write_index /\ Len(yielded) = cursor /\ (rpc = "yield" => end <= write_index)
          /\ \A i \in 1 .. cursor : yielded[i] = entry[i - 1]
      BY <2>2, SMTT(30) DEF ReadInv
    <3>2. write_index' \in Int
      BY TypesStep DEF MainInv, TrailTypeOK
    <3>3. ASSUME NEW i \in 1 .. cursor PROVE yielded'[i] = entry'[i - 1]
      <4>1. i - 1 \in 0 .. write_index - 1
        BY <1>t, <3>1
      <4> QED
        BY <1>0, <2>1, <3>1, <4>1
    <3>4. cursor' <= write_index' /\ (rpc' = "yield" => end' <= write_index')
      BY <1>0, <1>t, <2>1, <3>1, <3>2, SMTT(30)
    <3> QED
      BY <1>0, <2>1, <2>2, <3>1, <3>3, <3>4 DEF ReadInv
  <2>3. CASE opened # run
    BY <1>0, <2>1, <2>3 DEF ReadInv
  <2> QED
    BY <2>2, <2>3
<1> QED
  BY <1>1, <1>2

LEMMA ReadStep == TrailTypeOK /\ MainInv /\ ReadInv /\ [TrailNext]_trail_vars => ReadInv'
<1> SUFFICES ASSUME TrailTypeOK, MainInv, ReadInv, [TrailNext]_trail_vars PROVE ReadInv'
  OBVIOUS
<1>t. /\ run \in Nat /\ opened \in Nat /\ write_index \in Nat /\ cursor \in Nat /\ end \in Nat
      /\ yielded \in Seq(Fields) /\ write_index <= MAX_LOG_ENTRIES /\ MAX_LOG_ENTRIES \in Nat
      /\ entry \in [0 .. MAX_LOG_ENTRIES - 1 -> Fields]
  BY Numbers DEF TrailTypeOK, Fields
<1>1. CASE Open
  <2>1. run' = run /\ cursor' = 0 /\ opened' = run /\ yielded' = <<>> /\ rpc' = "idle" /\ write_index' = write_index
    BY <1>1, Zenon DEF Open, file
  <2> QED
    BY <1>t, <2>1 DEF ReadInv
<1>2. CASE Poll
  <2>1. /\ run' = run /\ cursor' = cursor /\ opened' = opened /\ yielded' = yielded /\ end' = write_index
        /\ write_index' = write_index /\ entry' = entry
    BY <1>2, Zenon DEF Poll, file
  <2>2. end' <= write_index'
    BY <1>t, <2>1
  <2> QED
    BY <2>1, <2>2 DEF ReadInv
<1>3. CASE Yield
  <2>1. /\ run' = run /\ opened' = opened /\ end' = end /\ write_index' = write_index /\ entry' = entry /\ rpc = "yield"
        /\ \/ cursor < end /\ yielded' = Append(yielded, entry[cursor]) /\ cursor' = cursor + 1 /\ rpc' = rpc
           \/ rpc' = "idle" /\ yielded' = yielded /\ cursor' = cursor
    BY <1>3, Zenon DEF Yield, file
  <2>2. CASE opened = run
    <3>1. /\ cursor <= write_index /\ Len(yielded) = cursor /\ end <= write_index
          /\ \A i \in 1 .. cursor : yielded[i] = entry[i - 1]
      BY <2>1, <2>2, SMTT(30) DEF ReadInv
    <3>2. CASE cursor < end /\ yielded' = Append(yielded, entry[cursor]) /\ cursor' = cursor + 1
      <4>1. cursor' <= write_index' /\ end' <= write_index' /\ cursor \in 0 .. MAX_LOG_ENTRIES - 1
        BY <1>t, <2>1, <3>1, <3>2
      <4>2. Len(yielded') = cursor'
        BY <1>t, <3>1, <3>2, <4>1
      <4>3. ASSUME NEW i \in 1 .. cursor' PROVE yielded'[i] = entry'[i - 1]
        <5>1. yielded'[cursor + 1] = entry[cursor] /\ \A j \in 1 .. cursor : yielded'[j] = yielded[j]
          BY <1>t, <3>1, <3>2, <4>1
        <5>2. i \in 1 .. cursor \/ (i = cursor + 1 /\ i - 1 = cursor)
          BY <1>t, <3>2, SMTT(30)
        <5> QED
          BY <2>1, <3>1, <5>1, <5>2, SMTT(30)
      <4> QED
        BY <2>1, <2>2, <4>1, <4>2, <4>3, <1>t DEF ReadInv
    <3>3. CASE yielded' = yielded /\ cursor' = cursor
      BY <2>1, <2>2, <3>1, <3>3, <1>t, SMTT(30) DEF ReadInv
    <3> QED
      BY <2>1, <3>2, <3>3
  <2>3. CASE opened # run
    BY <2>1, <2>3 DEF ReadInv
  <2> QED
    BY <2>2, <2>3
<1>4. CASE UNCHANGED reader
  BY <1>4, ReaderWaits, Zenon
<1>5. CASE \E q \in Queues : send_drop_copy(q) \/ GatewayReject(q)
  BY <1>4, <1>5, Zenon DEF send_drop_copy, GatewayReject, PushCopy
<1>6. CASE Manager \/ Signal \/ Crash \/ Restart \/ WriteHeader \/ UNCHANGED trail_vars
  BY <1>4, <1>6, Zenon DEF Manager, PopCopy, LoopTest, StoreStamp, StoreMsg, Publish, Count, Signal, Crash, Restart, WriteHeader, trail_vars
<1> QED
  BY <1>1, <1>2, <1>3, <1>5, <1>6, Zenon DEF TrailNext

-----------------------------------------------------------------------------
(* The theorems.                                                           *)

\* AuditInv is inductive, so it holds in every reachable state.
THEOREM AuditInvariant == TrailSpec => []AuditInv
<1>1. TrailInit => AuditInv
  BY TypesInit, MainInit, ReadInit, Zenon DEF AuditInv
<1>2. AuditInv /\ [TrailNext]_trail_vars => AuditInv'
  BY TypesStep, MainStep, ReadStep, Zenon DEF AuditInv, MainInv
<1> QED
  BY <1>1, <1>2, PTL DEF TrailSpec

(***************************************************************************)
(* What OrderManager has published in the mapped file is, at every moment  *)
(* and so after a crash at any store, whole drop copies of this process,   *)
(* each queue's once and in order, with none missing that was not dropped  *)
(* at its full queue.                                                      *)
(***************************************************************************)
THEOREM CommittedAlwaysExact == TrailSpec => []CommittedExact
<1>1. AuditInv => CommittedExact
  <2> SUFFICES ASSUME AuditInv PROVE CommittedExact
    OBVIOUS
  <2>1. TrailTypeOK /\ LogInv /\ FileInv
    BY SMTT(30) DEF AuditInv, MainInv
  <2>t. write_index \in Nat /\ log_index \in Nat /\ write_index <= log_index
    BY <2>1, Numbers DEF TrailTypeOK, FileInv
  <2>2. \A i \in 1 .. write_index : Committed[i] = entry[i - 1]
    BY Zenon DEF Committed
  <2> SUFFICES ASSUME NEW i \in 1 .. write_index
               PROVE  /\ Committed[i] \in Copies /\ Committed[i].run = run
                      /\ \A j \in 1 .. i - 1 : Committed[j].q = Committed[i].q => Committed[j].n < Committed[i].n
                      /\ \A n \in 1 .. Committed[i].n - 1 :
                            \/ CopyOf(Committed[i].q, n) \in lost[Committed[i].q]
                            \/ \E j \in 1 .. i - 1 : Committed[j] = CopyOf(Committed[i].q, n)
    BY <2>1, Zenon DEF CommittedExact
  <2> DEFINE e == entry[i - 1]
  <2>3. i - 1 \in 0 .. log_index - 1 /\ i \in Int
    BY <2>t
  <2>4. /\ e \in Copies /\ e.run = run
        /\ \A j \in 0 .. (i - 1) - 1 : entry[j].q = e.q => entry[j].n < e.n
        /\ \A n \in 1 .. e.n - 1 :
              \/ CopyOf(e.q, n) \in lost[e.q]
              \/ \E j \in 0 .. (i - 1) - 1 : entry[j] = CopyOf(e.q, n)
    BY <2>1, <2>3, Zenon DEF LogInv
  <2>5. Committed[i] = e
    BY <2>2
  <2> HIDE DEF e
  <2>6. \A j \in 1 .. i - 1 : Committed[j] = entry[j - 1] /\ j - 1 \in 0 .. (i - 1) - 1
    <3>1. \A j \in 1 .. i - 1 : j \in 1 .. write_index /\ j - 1 \in 0 .. (i - 1) - 1
      BY <2>t, <2>3
    <3> QED
      BY <2>2, <3>1, Zenon
  <2>7. \A j \in 0 .. (i - 1) - 1 : j + 1 \in 1 .. i - 1 /\ (j + 1) - 1 = j
    BY <2>3
  <2>8. \A j \in 1 .. i - 1 : Committed[j].q = e.q => Committed[j].n < e.n
    BY <2>4, <2>6, Zenon
  <2>9. ASSUME NEW n \in 1 .. e.n - 1
        PROVE  CopyOf(e.q, n) \in lost[e.q] \/ \E j \in 1 .. i - 1 : Committed[j] = CopyOf(e.q, n)
    <3>1. CASE CopyOf(e.q, n) \in lost[e.q]
      BY <3>1
    <3>2. ASSUME NEW j \in 0 .. (i - 1) - 1, entry[j] = CopyOf(e.q, n)
          PROVE  \E m \in 1 .. i - 1 : Committed[m] = CopyOf(e.q, n)
      <4>1. j + 1 \in 1 .. i - 1 /\ Committed[j + 1] = entry[(j + 1) - 1] /\ (j + 1) - 1 = j
        BY <2>6, <2>7, Zenon
      <4>2. Committed[j + 1] = CopyOf(e.q, n)
        BY <3>2, <4>1, Zenon
      <4> QED
        BY <4>1, <4>2, Zenon
    <3> QED
      BY <2>4, <3>1, <3>2, Zenon
  <2> QED
    BY <2>4, <2>5, <2>8, <2>9, Zenon
<1> QED
  BY <1>1, AuditInvariant, PTL

(***************************************************************************)
(* What AuditReader.poll() has yielded from the running process's file is  *)
(* a prefix of what is published, whatever the OrderManager stores while   *)
(* it reads.                                                               *)
(***************************************************************************)
THEOREM TailAlwaysExact == TrailSpec => []TailExact
<1>1. AuditInv => TailExact
  <2> SUFFICES ASSUME AuditInv, opened = run
               PROVE  cursor <= write_index /\ yielded = SubSeq(Committed, 1, cursor)
    BY DEF TailExact
  <2>1. /\ write_index \in Nat /\ cursor \in Nat /\ write_index <= MAX_LOG_ENTRIES
        /\ yielded \in Seq(Fields) /\ MAX_LOG_ENTRIES \in Nat
        /\ entry \in [0 .. MAX_LOG_ENTRIES - 1 -> Fields]
    BY Numbers DEF AuditInv, TrailTypeOK, Fields
  <2>2. /\ cursor <= write_index /\ Len(yielded) = cursor
        /\ \A i \in 1 .. cursor : yielded[i] = entry[i - 1]
    BY DEF AuditInv, ReadInv
  <2>3. Committed \in Seq(Fields) /\ Len(Committed) = write_index
        /\ \A i \in 1 .. write_index : Committed[i] = entry[i - 1]
    <3>1. \A i \in 1 .. write_index : i - 1 \in 0 .. MAX_LOG_ENTRIES - 1
      BY <2>1
    <3> QED
      BY <2>1, <3>1 DEF Committed
  <2> DEFINE t == SubSeq(Committed, 1, cursor)
  <2>4. t \in Seq(Fields) /\ Len(t) = cursor /\ \A i \in 1 .. cursor : t[i] = Committed[i]
    BY <2>1, <2>2, <2>3
  <2> HIDE DEF t
  <2>5. \A i \in 1 .. cursor : t[i] = yielded[i]
    <3>1. \A i \in 1 .. cursor : i \in 1 .. write_index
      BY <2>1, <2>2, SMTT(30)
    <3> QED
      BY <2>2, <2>3, <2>4, <3>1, Zenon
  <2>6. t = yielded
    BY <2>1, <2>2, <2>4, <2>5
  <2> QED
    BY <2>2, <2>6 DEF t
<1> QED
  BY <1>1, AuditInvariant, PTL

(***************************************************************************)
(* Engine::send_drop_copy() leaves no silent gap: while the log has room a *)
(* copy is waiting, in hand, logged, or lost at its full queue, and        *)
(* dropped_drop_copies is the number of the engines' lost ones.            *)
(***************************************************************************)
THEOREM LossAlwaysCounted == TrailSpec => []LossCounted
<1>1. AuditInv => LossCounted
  <2> SUFFICES ASSUME AuditInv PROVE LossCounted
    OBVIOUS
  <2>1. TrailTypeOK /\ LostInv /\ CoverInv /\ FileInv
    BY DEF AuditInv, MainInv
  <2>t. write_index \in Nat /\ log_index \in Nat
    BY <2>1, Numbers DEF TrailTypeOK
  <2>2. \A i \in 1 .. write_index : Committed[i] = entry[i - 1]
    BY Zenon DEF Committed
  <2>3. ASSUME write_index < MAX_LOG_ENTRIES, NEW q \in Queues, NEW n \in 1 .. sent[q]
        PROVE  \/ CopyOf(q, n) \in lost[q]
               \/ \E i \in DOMAIN queue[q] : queue[q][i] = CopyOf(q, n)
               \/ opc \in {"stamp", "store", "publish"} /\ msg = CopyOf(q, n)
               \/ \E i \in 1 .. write_index : Committed[i] = CopyOf(q, n)
    <3>1. Found(q, n)
      BY <2>1, <2>3, Zenon DEF CoverInv
    <3>2. ASSUME NEW i \in 0 .. log_index - 1, entry[i] = CopyOf(q, n)
          PROVE  \/ opc \in {"stamp", "store", "publish"} /\ msg = CopyOf(q, n)
                 \/ \E j \in 1 .. write_index : Committed[j] = CopyOf(q, n)
      <4>1. \/ i + 1 \in 1 .. write_index /\ (i + 1) - 1 = i
            \/ opc = "publish" /\ i = write_index
        BY <2>1, <2>t DEF FileInv
      <4>2. CASE i + 1 \in 1 .. write_index /\ (i + 1) - 1 = i
        <5>1. Committed[i + 1] = CopyOf(q, n)
          BY <2>2, <3>2, <4>2, Zenon
        <5> QED
          BY <4>2, <5>1, Zenon
      <4>3. CASE opc = "publish" /\ i = write_index
        BY <2>1, <3>2, <4>3, Zenon DEF FileInv
      <4> QED
        BY <4>1, <4>2, <4>3, ZenonT(30)
    <3> QED
      BY <3>1, <3>2, Zenon DEF Found, Hand
  <2> QED
    BY <2>1, <2>3, Zenon DEF LossCounted, LostInv
<1> QED
  BY <1>1, AuditInvariant, PTL
=============================================================================
