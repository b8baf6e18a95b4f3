------------------------------ MODULE MCRings ------------------------------
(***************************************************************************)
(* The two rings for TLC: a process of the exchange has the one            *)
(* (SpscRing), a firm the other (FirmRing); they share nothing, so each is *)
(* explored by itself.  Two distinct items are enough to tell FIFO order,  *)
(* a loss and a duplicate apart.                                           *)
(***************************************************************************)
EXTENDS SpscRing, TLC

CONSTANTS a, b, N, Word

TwoItems == {a, b}

VARIABLES
    process,   \* "exchange" or "firm"
    entries, f_head, f_tail, seen_head, seen_tail, epc, eitem, dpc, ditem, f_got

firm_vars == <<entries, f_head, f_tail, seen_head, seen_tail, epc, eitem, dpc, ditem, f_got>>

Firm == INSTANCE FirmRing WITH head <- f_head, tail <- f_tail, got <- f_got

ASSUME FirmRingSizes == Firm!RingAssumption

RingsInit == process \in {"exchange", "firm"} /\ Init /\ Firm!Init

ExchangePush == process = "exchange" /\ Push /\ UNCHANGED <<process, firm_vars>>
ExchangePop == process = "exchange" /\ Pop /\ UNCHANGED <<process, firm_vars>>
FirmStep == process = "firm" /\ Firm!Next /\ UNCHANGED <<process, vars>>

RingsNext == ExchangePush \/ ExchangePop \/ FirmStep

rings_vars == <<process, firm_vars, vars>>

\* The fairness of SpscRing, for a process that has that ring.
RingsSpec ==
    /\ RingsInit /\ [][RingsNext]_rings_vars
    /\ WF_rings_vars(ExchangePop)
    /\ SF_rings_vars(ExchangePop /\ PopRefresh /\ cached_tail' = tail)

(***************************************************************************)
(* FirmRing: enqueue() and dequeue() of the firm's queue implement a FIFO  *)
(* of N items, also where the free-running indices wrap.                   *)
(***************************************************************************)
FirmRingIsFifo == Firm!FirmRingIsFifo
=============================================================================
