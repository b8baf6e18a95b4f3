----------------------------- MODULE MCNetwork -----------------------------
(***************************************************************************)
(* The ways of a message for TLC: the rings between threads (MCRings), the *)
(* acknowledgements of a gateway worker (AckStream), the framing of what   *)
(* its clients send (GatewayFraming) and the market data (Publisher).      *)
(* They share nothing: acknowledgements and framing use disjoint fields of *)
(* ClientState and different kernel buffers, and a close that starts on    *)
(* one side is a step of the other's own (Hangup, EgressClose).  None      *)
(* depends on where another is, so each is explored by itself.             *)
(***************************************************************************)
EXTENDS MCRings, AckStream, Publisher

CONSTANTS SizeO, SizeX, BufCap, InSockCap, MaxMsgs

VARIABLES
    way,   \* which one is explored
    types, arrived, fin, in_sock, edge, in_pc, in_buffer, read_pos, write_pos, open, handled, given_up

in_vars == <<types, arrived, fin, in_sock, edge, in_pc, in_buffer, read_pos, write_pos, open, handled, given_up>>

In == INSTANCE GatewayFraming WITH SockCap <- InSockCap, sock <- in_sock, pc <- in_pc, buffer <- in_buffer

ASSUME FramingSizes == In!FramingAssumption

\* What is not explored stays in one of its initial states.
NetworkInit ==
    /\ way \in {"rings", "out", "in", "feed"}
    /\ RingsInit /\ AckInit /\ In!Init /\ FeedInit
    /\ way # "rings" => process = "exchange"
    /\ way # "in" => types = [i \in 1 .. MaxMsgs |-> "O"]

InRings(A) == way = "rings" /\ A /\ UNCHANGED <<way, ack_vars, in_vars, feed_vars>>
InAcks(A) == way = "out" /\ A /\ UNCHANGED <<way, rings_vars, in_vars, feed_vars>>
InFraming(A) == way = "in" /\ A /\ UNCHANGED <<way, rings_vars, ack_vars, feed_vars>>
InFeed(A) == way = "feed" /\ A /\ UNCHANGED <<way, rings_vars, ack_vars, in_vars>>

NetworkNext == InRings(RingsNext) \/ InAcks(AckNext) \/ InFraming(In!Next) \/ InFeed(FeedNext)

network_vars == <<way, rings_vars, ack_vars, in_vars, feed_vars>>

(***************************************************************************)
(* The fairness of the four modules.  As only one of them moves, fairness  *)
(* of a disjunction of their actions is fairness of each.                  *)
(***************************************************************************)
NetworkSpec ==
    /\ NetworkInit /\ [][NetworkNext]_network_vars
    /\ WF_network_vars(\/ InRings(ExchangePop) \/ InAcks(DrainOne \/ NextShard \/ DrainEnd)
                       \/ InFraming(In!Worker) \/ InFeed(PublishReports))
    /\ WF_network_vars(InAcks(Wake)) /\ WF_network_vars(InAcks(FirmReads))
    /\ SF_network_vars(InRings(ExchangePop /\ PopRefresh /\ cached_tail' = tail))

\* GatewayFraming: what is handled is the client's messages, whole and in order.
InStep == In!InStep

\* GatewayFraming: every well-formed message that arrives is handled.
AllHandled == In!AllHandled
=============================================================================
