----------------------------- MODULE AckStream -----------------------------
(***************************************************************************)
(* The private acknowledgements: from the engines' ack queues through the  *)
(* gateway worker's out_buf (accept, close_client, flush_out, send_report  *)
(* and drain_acks in gateway/tcp_server.h) and the kernel's socket buffers *)
(* to the receive thread of the firm (LocalExchangeConnector.h).           *)
(* Executions, the worker, the network and the firm interleave.            *)
(*                                                                         *)
(* The worker has one socket descriptor, which the kernel hands out again  *)
(* as soon as it is closed: clients connect one after the other, and the   *)
(* executions of a client go on after it has left (its orders rest in the  *)
(* book).  Reports are numbered.  A report is ReportLen units of bytes on  *)
(* the wire, so that the kernel can take, and recv() can return, a part of *)
(* one.  The edge-triggered epoll set reports the socket writable when     *)
(* there is room and EPOLLOUT is armed.                                    *)
(***************************************************************************)
EXTENDS Integers, Sequences

CONSTANTS ReportLen,   \* units of a report, more than one
          NUM_SHARDS,  \* engines: each has its own ack queue to the worker
          AckCap,      \* capacity of an ack queue
          OutCap,      \* OUT_BUF_CAP, in units
          SockCap,     \* what the kernel buffers on the way, in units
          MaxReports,  \* bound: executions
          MaxClients   \* bound: connections, one after the other

ASSUME AckAssumption ==
    /\ {ReportLen, NUM_SHARDS, AckCap, OutCap, SockCap, MaxReports, MaxClients} \subseteq Nat \ {0}
    /\ ReportLen > 1 /\ OutCap >= ReportLen

VARIABLES
    produced,       \* executions so far
    acks,           \* the ack queue of every shard: client_id and report number
    next_client_id,
    client_id,      \* client_states[fd].client_id, 0 when there is no such entry
    fd_by_client,   \* the client ids this map holds, all with the one descriptor
    out,            \* out_buf
    want_write,     \* EPOLLOUT is armed
    peer,           \* the firm still has the connection
    sock,           \* units in the kernel
    at,             \* the worker: 0 in epoll_wait(), else the s of drain_acks(), from 1
    acked, lost     \* reports the firm applied; reports it received and did not

connection == <<client_id, fd_by_client, out, want_write>>
firm == <<peer, acked, lost>>
ack_vars == <<produced, acks, next_client_id, connection, sock, at, firm>>

AckShards == 1 .. NUM_SHARDS

Unit(ack, part) == [client |-> ack.client, shard |-> ack.shard, report |-> ack.report, part |-> part]
Units(ack) == [i \in 1 .. ReportLen |-> Unit(ack, i)]

AckInit ==
    /\ produced = 0 /\ acks = [s \in AckShards |-> <<>>]
    /\ next_client_id = 1 /\ client_id = 0 /\ fd_by_client = {}
    /\ out = <<>> /\ want_write = FALSE
    /\ peer = FALSE /\ sock = <<>>
    /\ at = 0
    /\ acked = <<>> /\ lost = {}

\* send_ack() of engine s, for a client that has or had orders: a full queue drops it, uncounted.
send_ack(c, s) ==
    /\ produced < MaxReports
    /\ produced' = produced + 1
    /\ acks' = IF Len(acks[s]) < AckCap
               THEN [acks EXCEPT ![s] = Append(@, [client |-> c, shard |-> s, report |-> produced'])]
               ELSE acks
    /\ UNCHANGED <<next_client_id, connection, sock, at, firm>>

-----------------------------------------------------------------------------
(* The gateway worker.                                                     *)

\* accept(): a firm connects and gets the free descriptor and the next id.
Accept ==
    /\ at = 0 /\ client_id = 0 /\ next_client_id <= MaxClients
    /\ client_id' = next_client_id
    /\ next_client_id' = next_client_id + 1
    /\ fd_by_client' = fd_by_client \cup {client_id'}
    /\ peer' = TRUE /\ sock' = <<>> /\ acked' = <<>> /\ lost' = {}
    /\ at' = 1
    /\ UNCHANGED <<produced, acks, out, want_write>>

\* Slip: the reverse map keeps its entry.
close_client_Leaky ==
    client_id' = 0 /\ out' = <<>> /\ want_write' = FALSE /\ UNCHANGED fd_by_client

close_client ==
    /\ client_id' = 0 /\ out' = <<>> /\ want_write' = FALSE
    /\ fd_by_client' = fd_by_client \ {client_id}

Taken == IF Len(out) <= SockCap - Len(sock) THEN Len(out) ELSE SockCap - Len(sock)
Left == SubSeq(out, Taken + 1, Len(out))

\* Slip: EAGAIN does not arm EPOLLOUT.
flush_out_Unarmed ==
    IF peer
    THEN /\ sock' = sock \o SubSeq(out, 1, Taken)
         /\ out' = Left
         /\ UNCHANGED <<want_write, client_id, fd_by_client>>
    ELSE close_client /\ UNCHANGED sock

(***************************************************************************)
(* flush_out() and what its callers do when it fails: send() until out_buf *)
(* is empty, or the kernel takes no more and EPOLLOUT is armed.            *)
(***************************************************************************)
flush_out ==
    IF peer
    THEN /\ sock' = sock \o SubSeq(out, 1, Taken)
         /\ out' = Left
         /\ want_write' = (Left # <<>>)
         /\ UNCHANGED <<client_id, fd_by_client>>
    ELSE close_client /\ UNCHANGED sock

\* Slip: without room the report is cut to what fits.
send_report_Cut(ack) ==
    /\ out' = SubSeq(out \o Units(ack), 1, IF Len(out) + ReportLen <= OutCap THEN Len(out) + ReportLen ELSE OutCap)
    /\ UNCHANGED <<sock, want_write, client_id, fd_by_client>>

(***************************************************************************)
(* send_report(): append; without room, flush first, and give the          *)
(* connection up if that makes none.                                       *)
(***************************************************************************)
send_report(ack) ==
    \/ /\ Len(out) + ReportLen <= OutCap
       /\ out' = out \o Units(ack)
       /\ UNCHANGED <<sock, want_write, client_id, fd_by_client>>
    \/ /\ Len(out) + ReportLen > OutCap /\ ~peer
       /\ close_client /\ UNCHANGED sock
    \/ /\ Len(out) + ReportLen > OutCap /\ peer
       /\ sock' = sock \o SubSeq(out, 1, Taken)
       /\ IF Len(Left) + ReportLen > OutCap
          THEN close_client
          ELSE /\ out' = Left \o Units(ack)
               /\ want_write' = (Left # <<>>)
               /\ UNCHANGED <<client_id, fd_by_client>>

\* One turn of the loop over a shard's queue; an ack for a client that left is dropped.
DrainOne ==
    /\ at \in AckShards /\ acks[at] # <<>>
    /\ LET ack == Head(acks[at])
       IN  IF ack.client \in fd_by_client THEN send_report(ack) ELSE UNCHANGED <<connection, sock>>
    /\ acks' = [acks EXCEPT ![at] = Tail(@)]
    /\ UNCHANGED <<produced, next_client_id, at, firm>>

\* pop() finds the shard's queue empty: on to the next one.
NextShard ==
    /\ at \in AckShards /\ acks[at] = <<>>
    /\ at' = at + 1
    /\ UNCHANGED <<produced, acks, next_client_id, connection, sock, firm>>

\* Slip: what is backed up waits for the next report.
DrainEnd_NoFlush ==
    /\ at = NUM_SHARDS + 1
    /\ at' = 0
    /\ UNCHANGED <<produced, acks, next_client_id, connection, sock, firm>>

\* The loop over the connections at the end of drain_acks().
DrainEnd ==
    /\ at = NUM_SHARDS + 1
    /\ IF client_id # 0 /\ out # <<>> THEN flush_out ELSE UNCHANGED <<connection, sock>>
    /\ at' = 0
    /\ UNCHANGED <<produced, acks, next_client_id, firm>>

\* epoll_wait() returns: on its timeout, or for another connection.
Wake ==
    /\ at = 0
    /\ at' = 1
    /\ UNCHANGED <<produced, acks, next_client_id, connection, sock, firm>>

\* epoll_wait() returns with EPOLLOUT for this connection.
WakeWritable ==
    /\ at = 0 /\ want_write /\ (Len(sock) < SockCap \/ ~peer)
    /\ flush_out
    /\ at' = 1
    /\ UNCHANGED <<produced, acks, next_client_id, firm>>

\* epoll_wait() returns with EPOLLHUP or end of file: read() makes it close.
WakeHangup ==
    /\ at = 0 /\ ~peer /\ client_id # 0
    /\ close_client
    /\ at' = 1
    /\ UNCHANGED <<produced, acks, next_client_id, sock, firm>>

Worker == Accept \/ DrainOne \/ NextShard \/ DrainEnd \/ Wake \/ WakeWritable \/ WakeHangup

-----------------------------------------------------------------------------
(* The firm.                                                               *)

(***************************************************************************)
(* One recv() of n units and the callback on them.  Whole reports at the   *)
(* front are applied.  The loop ends at the first unit that does not start *)
(* a report, or starts one that is not all there, and the rest of the      *)
(* buffer is never looked at again.  (A unit other than the first is taken *)
(* not to begin with the byte 'E'.)                                        *)
(***************************************************************************)
Recv(n) ==
    LET chunk   == SubSeq(sock, 1, n)
        whole   == IF chunk[1].part = 1 THEN n \div ReportLen ELSE 0
        applied == [i \in 1 .. whole |-> chunk[i * ReportLen].report]
    IN  /\ peer
        /\ sock' = SubSeq(sock, n + 1, Len(sock))
        /\ acked' = acked \o applied
        /\ lost' = lost \cup {chunk[i].report : i \in whole * ReportLen + 1 .. n}
        /\ UNCHANGED <<produced, acks, next_client_id, connection, at, peer>>

FirmReads == \E n \in 1 .. Len(sock) : Recv(n)

FirmQuits ==
    /\ peer
    /\ peer' = FALSE /\ sock' = <<>>
    /\ UNCHANGED <<produced, acks, next_client_id, connection, at, acked, lost>>

AckNext == (\E c \in 1 .. next_client_id - 1, s \in AckShards : send_ack(c, s)) \/ Worker \/ FirmReads \/ FirmQuits

AckSpec == AckInit /\ [][AckNext]_ack_vars

\* The worker's epoll_wait() has a timeout of 100 ms; a firm keeps reading.
FairAck ==
    AckSpec /\ WF_ack_vars(DrainOne \/ NextShard \/ DrainEnd) /\ WF_ack_vars(Wake) /\ WF_ack_vars(FirmReads)

-----------------------------------------------------------------------------
(* Properties                                                              *)

\* Every variable holds a value of its type and every buffer is within its size.
AckTypeOK ==
    LET Ack   == [client : 1 .. MaxClients, shard : AckShards, report : 1 .. MaxReports]
        units == Seq([client : 1 .. MaxClients, shard : AckShards, report : 1 .. MaxReports, part : 1 .. ReportLen])
    IN  /\ produced \in 0 .. MaxReports
        /\ acks \in [AckShards -> Seq(Ack)] /\ \A s \in AckShards : Len(acks[s]) <= AckCap
        /\ next_client_id \in 1 .. MaxClients + 1 /\ client_id \in 0 .. next_client_id - 1
        /\ out \in units /\ Len(out) <= OutCap /\ sock \in units /\ Len(sock) <= SockCap
        /\ want_write \in BOOLEAN /\ peer \in BOOLEAN /\ at \in 0 .. NUM_SHARDS + 1
        /\ acked \in Seq(1 .. MaxReports) /\ lost \subseteq 1 .. MaxReports

(***************************************************************************)
(* Whatever is dropped, flushed in parts or cut off, the bytes the gateway *)
(* puts on a connection are whole reports, once each: within a report      *)
(* every unit follows its predecessor, and a report ends before another    *)
(* begins.  Only a closed connection can end inside one.  The reports of   *)
(* one engine are in the order of its executions; those of two engines may *)
(* change places, as drain_acks() empties one queue after the other.  With *)
(* it, out_buf is not overrun (AckTypeOK).                                 *)
(***************************************************************************)
Follows(u, v) ==
    \/ u.report = v.report /\ u.shard = v.shard /\ v.part = u.part + 1
    \/ u.report # v.report /\ u.part = ReportLen /\ v.part = 1

InShardOrder(wire) ==
    \A i, j \in DOMAIN wire :
        i < j /\ wire[i].shard = wire[j].shard =>
            \/ wire[i].report < wire[j].report
            \/ wire[i].report = wire[j].report /\ wire[i].part < wire[j].part

StreamUnbroken ==
    LET wire == sock \o out
    IN  /\ AckTypeOK
        /\ \A i \in 1 .. Len(wire) - 1 : Follows(wire[i], wire[i + 1])
        /\ InShardOrder(wire)
        /\ client_id # 0 /\ peer /\ wire # <<>> => wire[Len(wire)].part = ReportLen

(***************************************************************************)
(* A client gets its own reports and no other's: a descriptor that is used *)
(* again does not inherit the executions of the client that left, although *)
(* these are still in the ack queues and more may come.                    *)
(***************************************************************************)
AckToOwner ==
    /\ fd_by_client = IF client_id = 0 THEN {} ELSE {client_id}
    /\ \A i \in DOMAIN out : out[i].client = client_id
    /\ client_id # 0 => \A i \in DOMAIN sock : sock[i].client = client_id

(***************************************************************************)
(* No lost wake-up: whenever the worker waits with acknowledgements of a   *)
(* live connection backed up, EPOLLOUT is armed; and it is not armed, to   *)
(* spin on a writable socket, when nothing is.                             *)
(***************************************************************************)
BackedUpIsArmed == at = 0 => want_write = (client_id # 0 /\ out # <<>>)

(***************************************************************************)
(* What is backed up for a client does not stay: it reaches the kernel, or *)
(* the connection is given up.                                             *)
(***************************************************************************)
BacklogClears == []<>(out = <<>>)

(***************************************************************************)
(* docs/technical-deep-dive.md: "the firm's `tcp_rx_thread` applies each   *)
(* received `OuchExecutionReport` to `RiskManager`".                       *)
(***************************************************************************)
ReceivedIsApplied == lost = {}
=============================================================================
