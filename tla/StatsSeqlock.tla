---------------------------- MODULE StatsSeqlock ----------------------------
(***************************************************************************)
(* The shared-memory statistics: one writer mirrors its state into a       *)
(* mapped region under a sequence lock (stats_write in core/stats_region.h *)
(* and its twin firm_stats_write in the firm), and the Python monitor      *)
(* copies the region out without any lock (StatsReader.read and            *)
(* FirmStatsReader.read).  They share nothing but the memory, and the      *)
(* writer can die at any store.                                            *)
(*                                                                         *)
(* A word of the sampled block holds the number of the update that stored  *)
(* it.  Loads and stores take effect in program order: the writer's are    *)
(* release stores between release fences, and the readers run on x86.      *)
(* seq is not wrapped: a wrap of its 32 bits within one read would take    *)
(* years of 100 ms updates.                                                *)
(***************************************************************************)
EXTENDS Integers

CONSTANTS Words,        \* words in the sampled block
          Retries,      \* retries of read()
          MaxUpdates    \* bound: updates of the writer

ASSUME SeqlockAssumption == Words \in Nat \ {0} /\ Retries \in Nat \ {0} /\ MaxUpdates \in Nat

VARIABLES
    magic,                \* the header is valid
    seq, word,            \* the region
    alive, wpc, update, w,\* the writer: w is the next word to store
    spc, tries, s0, r,    \* the reader: r is the next word to load
    seen, copy,           \* the snapshot being built: its magic and its block
    snap                  \* the last valid() snapshot read() returned

region == <<magic, seq, word>>
writer == <<alive, wpc, update, w>>
sampler == <<spc, tries, s0, r, seen, copy, snap>>
stats_vars == <<region, writer, sampler>>

Block == 1 .. Words
Unwritten == [i \in Block |-> -1]

\* map_stats_region(): the mapping is zero-filled.
StatsInit ==
    /\ magic = FALSE /\ seq = 0 /\ word = Unwritten
    /\ alive = TRUE /\ wpc = "init" /\ update = 0 /\ w = 1
    /\ spc = "idle" /\ tries = 0 /\ s0 = 0 /\ r = 1 /\ seen = FALSE
    /\ copy = Unwritten /\ snap = Unwritten

-----------------------------------------------------------------------------
(* The writer.                                                             *)

(***************************************************************************)
(* init_stats_region() stores the first contents of the block (number 0)   *)
(* outside the lock, and then the magic.                                   *)
(***************************************************************************)
InitWord ==
    /\ alive /\ wpc = "init" /\ w <= Words
    /\ word' = [word EXCEPT ![w] = 0]
    /\ w' = w + 1
    /\ UNCHANGED <<magic, seq, alive, wpc, update, sampler>>

InitMagic ==
    /\ alive /\ wpc = "init" /\ w > Words
    /\ magic' = TRUE /\ wpc' = "idle"
    /\ UNCHANGED <<seq, word, alive, update, w, sampler>>

WriteBegin ==
    /\ alive /\ wpc = "idle" /\ update < MaxUpdates
    /\ seq' = seq + 1
    /\ wpc' = "write" /\ update' = update + 1 /\ w' = 1
    /\ UNCHANGED <<magic, word, alive, sampler>>

\* One store of body().
WriteWord ==
    /\ alive /\ wpc = "write" /\ w <= Words
    /\ word' = [word EXCEPT ![w] = update]
    /\ w' = w + 1
    /\ UNCHANGED <<magic, seq, alive, wpc, update, sampler>>

WriteEnd ==
    /\ alive /\ wpc = "write" /\ w > Words
    /\ seq' = seq + 1
    /\ wpc' = "idle"
    /\ UNCHANGED <<magic, word, alive, update, w, sampler>>

WriterDies ==
    /\ alive
    /\ alive' = FALSE
    /\ UNCHANGED <<region, wpc, update, w, sampler>>

-----------------------------------------------------------------------------
(* The reader.                                                             *)

ReadCall ==
    /\ spc = "idle"
    /\ spc' = "seq" /\ tries' = 0
    /\ UNCHANGED <<region, writer, s0, r, seen, copy, snap>>

\* The next turn of the loop, or None.
Again ==
    IF tries + 1 < Retries
    THEN spc' = "seq" /\ tries' = tries + 1
    ELSE spc' = "idle" /\ tries' = 0

ReadSeq ==
    /\ spc = "seq"
    /\ s0' = seq
    /\ IF seq % 2 = 1 THEN Again ELSE spc' = "magic" /\ UNCHANGED tries
    /\ UNCHANGED <<region, writer, r, seen, copy, snap>>

\* The snapshot's constructor loads the magic first.
ReadMagic ==
    /\ spc = "magic"
    /\ seen' = magic /\ r' = 1 /\ spc' = "copy"
    /\ UNCHANGED <<region, writer, tries, s0, copy, snap>>

ReadWord ==
    /\ spc = "copy" /\ r <= Words
    /\ copy' = [copy EXCEPT ![r] = word[r]]
    /\ r' = r + 1
    /\ UNCHANGED <<region, writer, spc, tries, s0, seen, snap>>

\* Slip: the sequence number is not loaded again.
ReadCheck_Once ==
    /\ spc = "copy" /\ r > Words
    /\ spc' = "idle" /\ tries' = 0
    /\ snap' = IF seen THEN copy ELSE snap
    /\ UNCHANGED <<region, writer, s0, r, seen, copy>>

\* The second load of seq; a snapshot without the magic is not valid().
ReadCheck ==
    /\ spc = "copy" /\ r > Words
    /\ IF seq = s0
       THEN /\ spc' = "idle" /\ tries' = 0
            /\ snap' = IF seen THEN copy ELSE snap
       ELSE Again /\ UNCHANGED snap
    /\ UNCHANGED <<region, writer, s0, r, seen, copy>>

Writer == InitWord \/ InitMagic \/ WriteBegin \/ WriteWord \/ WriteEnd \/ WriterDies
Sampler == ReadSeq \/ ReadMagic \/ ReadWord \/ ReadCheck
StatsNext == Writer \/ ReadCall \/ Sampler

StatsSpec == StatsInit /\ [][StatsNext]_stats_vars

-----------------------------------------------------------------------------
(* Properties                                                              *)

\* Every variable holds a value of its type.
StatsTypeOK ==
    /\ magic \in BOOLEAN /\ seq \in Nat /\ word \in [Block -> Nat \cup {-1}]
    /\ alive \in BOOLEAN /\ wpc \in {"init", "idle", "write"}
    /\ update \in 0 .. MaxUpdates /\ w \in 1 .. Words + 1
    /\ spc \in {"idle", "seq", "magic", "copy"} /\ tries \in 0 .. Retries - 1
    /\ s0 \in Nat /\ r \in 1 .. Words + 1 /\ seen \in BOOLEAN
    /\ copy \in [Block -> Nat \cup {-1}] /\ snap \in [Block -> Nat \cup {-1}]

(***************************************************************************)
(* "so the reader never sees a torn sample" (stats_reader.py): the words   *)
(* of a snapshot that read() returned were all stored by one update.       *)
(***************************************************************************)
NeverTorn == \A i, j \in Block : snap[i] = snap[j]

(***************************************************************************)
(* The inductive invariant.  Outside an update the block is the last       *)
(* update's and seq is twice its number; inside, the words before w are    *)
(* the new ones and seq is odd.  While seq is still what the reader began  *)
(* with, what it has copied of a valid region is still what is there.      *)
(***************************************************************************)
WriterInv ==
    /\ magic <=> wpc # "init"
    /\ wpc = "init" => seq = 0 /\ update = 0
    /\ wpc = "init" => \A i \in 1 .. w - 1 : word[i] = 0
    /\ wpc = "idle" => seq = 2 * update /\ \A i \in Block : word[i] = update
    /\ wpc = "write" => /\ seq = 2 * update - 1
                        /\ \A i \in Block : word[i] = IF i < w THEN update ELSE update - 1

ReaderInv ==
    /\ spc \in {"magic", "copy"} => s0 <= seq /\ s0 % 2 = 0
    /\ spc = "copy" /\ seen => magic
    /\ spc = "copy" /\ seen /\ seq = s0 => \A i \in 1 .. r - 1 : copy[i] = word[i]

SeqlockInv == StatsTypeOK /\ WriterInv /\ ReaderInv /\ NeverTorn
=============================================================================
