--------------------------- MODULE GatewayFraming ---------------------------
(***************************************************************************)
(* How a gateway worker cuts one client's byte stream into messages:       *)
(* handle_client() in gateway/tcp_server.h, with its buffer, read_pos and  *)
(* write_pos, the reclaiming of space before each read(), and edge-        *)
(* triggered epoll, which announces bytes that arrive and never bytes that *)
(* were left unread.  What a message then does is module ExchangeCore.     *)
(*                                                                         *)
(* A byte is the message it belongs to and its place in it.  TCP is        *)
(* external: it delivers in order and read() returns any part of what has  *)
(* arrived.  The worker may also give the connection up for the sake of    *)
(* its acknowledgements (module AckStream); here that can happen whenever  *)
(* the worker is not in handle_client().                                   *)
(***************************************************************************)
EXTENDS Integers, Sequences

CONSTANTS SizeO, SizeX,   \* sizeof(OuchEnterOrder), sizeof(OuchCancelOrder)
          BufCap,         \* sizeof(ClientState::buffer)
          SockCap,        \* bound: bytes the kernel holds for the worker
          MaxMsgs         \* bound: messages the client sends

\* What the sizes must satisfy for a message to fit.
FramingAssumption ==
    /\ {SizeO, SizeX, SockCap, MaxMsgs} \subseteq Nat \ {0}
    /\ BufCap \in Nat /\ BufCap > SizeO /\ BufCap > SizeX

VARIABLES
    types,                   \* the messages the client sends, "?" a malformed one
    arrived,                 \* how many of their bytes have reached the kernel
    fin,                     \* the client has closed its end
    sock, edge,              \* unread bytes; an event is pending
    pc,                      \* the worker: "wait", "reclaim", "read", "parse"
    buffer, read_pos, write_pos, open,
    handled,                 \* the messages handled so far
    given_up                 \* closed from the egress side

worker == <<pc, buffer, read_pos, write_pos, open, handled>>
vars == <<types, arrived, fin, sock, edge, worker, given_up>>

Size(type) == CASE type = "O" -> SizeO [] type = "X" -> SizeX [] OTHER -> 1

\* The bytes of message i: only the first one says what it is.
Bytes(i) == [k \in 1 .. Size(types[i]) |-> [msg |-> i, type |-> IF k = 1 THEN types[i] ELSE "-"]]

RECURSIVE StreamFrom(_)
StreamFrom(i) == IF i > Len(types) THEN <<>> ELSE Bytes(i) \o StreamFrom(i + 1)
Stream == StreamFrom(1)

Junk == [msg |-> 0, type |-> "-"]

Init ==
    /\ types \in [1 .. MaxMsgs -> {"O", "X", "?"}]
    /\ arrived = 0 /\ fin = FALSE /\ sock = <<>> /\ edge = FALSE
    /\ pc = "wait" /\ buffer = [k \in 1 .. BufCap |-> Junk]
    /\ read_pos = 0 /\ write_pos = 0 /\ open = TRUE /\ handled = <<>> /\ given_up = FALSE

-----------------------------------------------------------------------------
\* The next n bytes arrive, wherever the network cut them.
Arrive(n) ==
    /\ ~fin /\ arrived + n <= Len(Stream) /\ Len(sock) + n <= SockCap
    /\ sock' = sock \o SubSeq(Stream, arrived + 1, arrived + n)
    /\ arrived' = arrived + n
    /\ edge' = TRUE
    /\ UNCHANGED <<types, fin, worker, given_up>>

\* The client closes its end, behind the bytes that arrived.
Hangup ==
    /\ ~fin
    /\ fin' = TRUE /\ edge' = TRUE
    /\ UNCHANGED <<types, arrived, sock, worker, given_up>>

\* epoll_wait() returns EPOLLIN once for what arrived before.
Wake ==
    /\ pc = "wait" /\ open /\ edge
    /\ edge' = FALSE
    /\ pc' = "reclaim"
    /\ UNCHANGED <<types, arrived, fin, sock, buffer, read_pos, write_pos, open, handled, given_up>>

close_client == open' = FALSE /\ pc' = "wait"

(***************************************************************************)
(* The egress side gives the connection up: a send fails, or a report does *)
(* not fit in out_buf after a flush.  close() takes what has arrived and   *)
(* was not read with it.                                                   *)
(***************************************************************************)
EgressClose ==
    /\ pc = "wait" /\ open
    /\ close_client
    /\ given_up' = TRUE
    /\ sock' = <<>> /\ edge' = FALSE
    /\ UNCHANGED <<types, arrived, fin, buffer, read_pos, write_pos, handled>>

Fragment == SubSeq(buffer, read_pos + 1, write_pos)

\* Slip: the hard reset that throws the fragment away.
Reclaim_HardReset ==
    /\ pc = "reclaim"
    /\ read_pos' = 0 /\ write_pos' = 0
    /\ pc' = "read"
    /\ UNCHANGED <<types, arrived, fin, sock, edge, buffer, open, handled, given_up>>

\* Reset a consumed buffer, move a fragment to the front, give up on a full one.
Reclaim ==
    /\ pc = "reclaim"
    /\ \/ /\ read_pos = write_pos
          /\ read_pos' = 0 /\ write_pos' = 0 /\ UNCHANGED buffer
       \/ /\ read_pos # write_pos
          /\ buffer' = [k \in 1 .. BufCap |-> IF k <= Len(Fragment) THEN Fragment[k] ELSE buffer[k]]
          /\ write_pos' = write_pos - read_pos /\ read_pos' = 0
    /\ IF write_pos' = BufCap THEN close_client ELSE pc' = "read" /\ UNCHANGED open
    /\ UNCHANGED <<types, arrived, fin, sock, edge, handled, given_up>>

\* read() yields n bytes behind write_pos.
Read(n) ==
    /\ pc = "read" /\ n <= Len(sock) /\ n <= BufCap - write_pos
    /\ buffer' = [k \in 1 .. BufCap |->
                    IF k \in write_pos + 1 .. write_pos + n THEN sock[k - write_pos] ELSE buffer[k]]
    /\ write_pos' = write_pos + n
    /\ sock' = SubSeq(sock, n + 1, Len(sock))
    /\ pc' = "parse"
    /\ UNCHANGED <<types, arrived, fin, edge, read_pos, open, handled, given_up>>

\* EAGAIN: the socket is drained, until the next event.
ReadAgain ==
    /\ pc = "read" /\ sock = <<>> /\ ~fin
    /\ pc' = "wait"
    /\ UNCHANGED <<types, arrived, fin, sock, edge, buffer, read_pos, write_pos, open, handled, given_up>>

\* read() returns 0.
ReadEnd ==
    /\ pc = "read" /\ sock = <<>> /\ fin
    /\ close_client
    /\ UNCHANGED <<types, arrived, fin, sock, edge, buffer, read_pos, write_pos, handled, given_up>>

Handle(type) ==
    /\ handled' = Append(handled, [type |-> type,
                                   body |-> SubSeq(buffer, read_pos + 1, read_pos + Size(type))])
    /\ read_pos' = read_pos + Size(type)
    /\ UNCHANGED <<pc, open>>

\* Slip: after one message the worker waits for the next event.
ParseDone_Wait == pc' = "wait" /\ UNCHANGED <<read_pos, open, handled>>

\* Nothing, or less than a message, is left: reclaim and read on.
ParseDone == pc' = "reclaim" /\ UNCHANGED <<read_pos, open, handled>>

Parse ==
    /\ pc = "parse"
    /\ IF write_pos = read_pos THEN ParseDone
       ELSE LET type == buffer[read_pos + 1].type
            IN  \/ type \notin {"O", "X"} /\ close_client /\ UNCHANGED <<read_pos, handled>>
                \/ type \in {"O", "X"} /\ write_pos - read_pos < Size(type) /\ ParseDone
                \/ type \in {"O", "X"} /\ write_pos - read_pos >= Size(type) /\ Handle(type)
    /\ UNCHANGED <<types, arrived, fin, sock, edge, buffer, write_pos, given_up>>

ReadSome == \E n \in 1 .. BufCap : Read(n)
Worker == Wake \/ Reclaim \/ ReadSome \/ ReadAgain \/ ReadEnd \/ Parse

Next == Worker \/ EgressClose \/ Hangup \/ \E n \in 1 .. SockCap : Arrive(n)

Spec == Init /\ [][Next]_vars

\* The worker has a core of its own.
FairSpec == Spec /\ WF_vars(Worker)

-----------------------------------------------------------------------------
(* Properties                                                              *)

\* Every variable holds a value of its type, the positions within the buffer.
TypeOK ==
    /\ arrived \in 0 .. Len(Stream) /\ Len(sock) <= SockCap
    /\ {fin, edge, open, given_up} \subseteq BOOLEAN
    /\ pc \in {"wait", "reclaim", "read", "parse"}
    /\ buffer \in [1 .. BufCap -> [msg : 0 .. MaxMsgs, type : {"O", "X", "?", "-"}]]
    /\ read_pos \in 0 .. BufCap /\ write_pos \in read_pos .. BufCap

(***************************************************************************)
(* However TCP cuts the stream, wherever the buffer ends and whenever the  *)
(* connection is given up, the framing never goes out of step: what is     *)
(* handled is the client's messages, whole and in order.  Reading, the     *)
(* worker only hangs up on a client that hung up first or whose next       *)
(* message is malformed: a full buffer never makes it close.  With it, the *)
(* reads stay within the buffer (TypeOK).                                  *)
(***************************************************************************)
InStep ==
    /\ TypeOK
    /\ \A i \in DOMAIN handled : handled[i].type = types[i] /\ handled[i].body = Bytes(i)
    /\ open \/ fin \/ given_up \/ types[Len(handled) + 1] = "?"

\* Message i and those before it are well formed and have arrived in full.
Complete(i) ==
    /\ \A j \in 1 .. i : types[j] # "?"
    /\ Bytes(i)[1] \in {Stream[k] : k \in 1 .. arrived - Size(types[i]) + 1}

(***************************************************************************)
(* No byte waits for an event that will not come: every well-formed        *)
(* message that arrives is handled, although an event is only raised for   *)
(* new bytes, one read() need not take all of them, and the client may     *)
(* have closed its end since.  The exception is a connection the gateway   *)
(* gives up because its acknowledgements do not leave (docs/known-issues,  *)
(* 4: it "truncates that client's session").                               *)
(***************************************************************************)
AllHandled == []<>(given_up \/ \A i \in 1 .. MaxMsgs : Complete(i) => Len(handled) >= i)
=============================================================================
