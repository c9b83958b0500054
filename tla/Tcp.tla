-------------------------------- MODULE Tcp --------------------------------
(***************************************************************************)
(* One TCP socket of src/kernel/syscall/network.c against a peer, over a   *)
(* network that loses, duplicates and reorders segments.                   *)
(*                                                                         *)
(* The kernel has no TCP task: a system call sends a segment and polls the *)
(* device until an answer comes or the time is up, so the protocol is what *)
(* the call in progress (the variable call) does with each frame.  Frames  *)
(* that arrive while no call waits stay in the device, which is the same   *)
(* as arriving later.                                                      *)
(*                                                                         *)
(* Bytes are named by their position in their stream: the application      *)
(* sends 1, 2, .. OutN (and tries the same bytes again when a call         *)
(* fails), the peer sends 1, 2, .. InN and then a FIN.  Sequence numbers   *)
(* are taken modulo SeqSpace (2^32 in the code).  The congestion window is *)
(* left out: it is never below the MSS, so it never bounds a chunk.        *)
(*                                                                         *)
(* ClockRuns says whether timer_get_ticks() advances inside a system call. *)
(* The entry stub masks interrupts (SFMASK) and nothing on these paths     *)
(* unmasks them, so it is FALSE of the kernel as built; with TRUE the wait *)
(* may also end at any moment, which adds the retries and only enlarges    *)
(* the behaviours the safety properties range over.                        *)
(***************************************************************************)
EXTENDS Integers, Sequences

CONSTANTS
    OutN, InN,        \* bytes the application and the peer want to send
    Mss,              \* sock_effective_mss, also the peer's segment size
    BufSize,          \* SOCKET_RX_BUFFER_SIZE
    MaxWindow,        \* largest window the peer advertises
    MaxLen,           \* largest length of one send or receive call
    Retries,          \* SOCKET_TCP_RETRIES
    RecvRetries,      \* SOCKET_TCP_RECV_RETRIES
    ChunkSpace,       \* 2^16: the chunk is cut from the length as uint16_t
    SeqSpace,         \* 2^32
    ISS, PeerISS,     \* first sequence numbers of the two sides
    ClockRuns

ASSUME TcpAssumption ==
    /\ {OutN, InN, RecvRetries, ISS, PeerISS} \subseteq Nat
    /\ {Mss, BufSize, MaxWindow, MaxLen, Retries, ChunkSpace} \subseteq Nat \ {0}
    /\ SeqSpace \in Nat /\ SeqSpace > 2 * (OutN + InN + 2)
    /\ ClockRuns \in BOOLEAN

VARIABLES
    sock,     \* struct socket_object, the fields the protocol uses
    call,     \* the system call in progress and its local variables
    net,      \* segments of ours the network may still deliver
    peer,     \* the other side: open, the bytes it accepted, our FIN seen
    app_in,   \* bytes handed to the application
    app_out,  \* number of bytes send calls reported as sent
    eof,      \* a receive call reported the end of the stream
    broken    \* the connection failed, was reset, or was shut down here

vars == <<sock, call, net, peer, app_in, app_out, eof, broken>>

Idle == [op |-> "none", left |-> 0, chunk |-> 0, attempt |-> 0]

Init ==
    /\ sock = [state |-> "CREATED", seq |-> ISS, ack |-> 0, rx |-> <<>>, off |-> 0,
               window |-> 0, read_shutdown |-> FALSE, write_shutdown |-> FALSE]
    /\ call = Idle
    /\ net = {}
    /\ peer = [open |-> FALSE, got |-> <<>>, fin |-> FALSE]
    /\ app_in = <<>> /\ app_out = 0 /\ eof = FALSE /\ broken = FALSE

Seqno(n) == n % SeqSpace
BeforePlain(a, b) == a < b
\* (int32_t)(a - b) < 0
Before(a, b) == Seqno(a - b) >= SeqSpace \div 2

Least(a, b) == IF a <= b THEN a ELSE b

Segment(kind, seq, data) == [kind |-> kind, seq |-> seq, data |-> data]

(***************************************************************************)
(* The receive buffer.                                                     *)
(***************************************************************************)
Unread(s) == SubSeq(s.rx, s.off + 1, Len(s.rx))

CompactedLate(s) == [s EXCEPT !.rx = SubSeq(@, s.off, Len(@)), !.off = 0]
Compacted(s) == [s EXCEPT !.rx = Unread(s), !.off = 0]

\* socket_rx_append: compacts only when the bytes do not fit behind rx_len.
Roomy(s, n) ==
    IF BufSize - Len(s.rx) < n /\ s.off > 0 THEN Compacted(s) ELSE s

StoredBytes(s, f) == Least(f.n, BufSize - Len(Roomy(s, f.n).rx))

Payload(f, n) == [i \in 1..n |-> f.first + i - 1]

FrameSeq(f) == Seqno(PeerISS + f.first)

InOrder(s, f) == FrameSeq(f) = s.ack

AckWholeSegment(s, f, n) == Seqno(s.ack + f.n + (IF f.fin THEN 1 ELSE 0))
\* ack after storing n bytes; the FIN counts when its segment fits whole.
AckAfter(s, f, n) == Seqno(s.ack + n + (IF n = f.n /\ f.fin THEN 1 ELSE 0))

\* socket_store_rx_payload with what its callers do with its answer.
Store(s, f) ==
    LET n == StoredBytes(s, f)
        r == Roomy(s, f.n)
    IN  IF ~InOrder(s, f) THEN s
        ELSE IF n = 0 THEN r
        ELSE [r EXCEPT !.rx = @ \o Payload(f, n),
                       !.ack = AckAfter(s, f, n),
                       !.state = IF f.fin /\ n = f.n THEN "CLOSED" ELSE @]

\* A FIN without payload, and every FIN at the end of sock_wait_ack.
TakeFin(s, f) == [s EXCEPT !.ack = Seqno(FrameSeq(f) + 1), !.state = "CLOSED"]

StillOpen(s) == s
Closed(s) == [s EXCEPT !.state = "CLOSED"]

(***************************************************************************)
(* Frames of the peer.  Any segment it may have sent by now can arrive,    *)
(* any number of times; its acknowledgement is any it ever gave.           *)
(***************************************************************************)
Frames ==
    {f \in [first : 1..(InN + 1), n : 0..Mss, fin : BOOLEAN,
            ack : {Seqno(ISS + 1 + k) : k \in 0..Len(peer.got)}
                  \cup (IF peer.fin THEN {Seqno(ISS + 2 + Len(peer.got))} ELSE {}),
            window : 0..MaxWindow] :
        /\ f.first + f.n <= InN + 1
        /\ f.fin => f.first + f.n = InN + 1
        /\ f.n = 0 => f.first = InN + 1}

Seen(f) == [sock EXCEPT !.window = f.window]

Return(s) == sock' = s /\ call' = Idle
Keep(s) == sock' = s /\ UNCHANGED call

(***************************************************************************)
(* connect                                                                 *)
(***************************************************************************)
\* sys_connect does not look at the state; one connection is modelled.
Connect ==
    /\ call.op = "none" /\ sock.state = "CREATED"
    /\ \/ \* no device or address: nothing changes; no route, ARP or send: closed
          /\ Return(Closed(sock)) /\ broken' = TRUE /\ UNCHANGED net
       \/ /\ sock' = [sock EXCEPT !.ack = 0] /\ UNCHANGED broken
          /\ call' = [Idle EXCEPT !.op = "connect"]
          /\ net' = net \cup {Segment("SYN", sock.seq, <<>>)}
    /\ UNCHANGED <<peer, app_in, app_out, eof>>

\* SYN-ACK: ours, or an old one that does not acknowledge this SYN.
SynAck ==
    /\ call.op = "connect" /\ peer.open
    /\ \E a \in {Seqno(ISS + 1), ISS}, w \in 0..MaxWindow :
         IF a = Seqno(sock.seq + 1)
         THEN /\ Return([sock EXCEPT !.state = "CONNECTED", !.window = w,
                                     !.seq = Seqno(@ + 1), !.ack = Seqno(PeerISS + 1)])
              /\ UNCHANGED broken
         ELSE Return(Closed([sock EXCEPT !.window = w])) /\ broken' = TRUE
    /\ UNCHANGED <<net, peer, app_in, app_out, eof>>

(***************************************************************************)
(* send                                                                    *)
(***************************************************************************)
Chunk(s, left) == Least(Least(left % ChunkSpace, Mss), s.window)

OutSegment(s, n) == Segment("DATA", s.seq, [i \in 1..n |-> app_out' + i])

Waiting(op, left, chunk) ==
    [op |-> op, left |-> left, chunk |-> chunk, attempt |-> 0]

\* One pass of the loop of socket_send_data, from its head to the wait.
SendLoop(s, left) ==
    LET c == Chunk(s, left)
        closed == s.state # "CONNECTED"
    IN  \/ /\ left = 0 \/ (s.window = 0 /\ closed) \/ (s.window > 0 /\ c = 0)
           /\ Return(s) /\ UNCHANGED net
        \/ /\ left > 0 /\ s.window = 0 /\ ~closed
           /\ sock' = s /\ call' = Waiting("window", left, 0) /\ UNCHANGED net
        \/ /\ c > 0
           /\ sock' = s /\ call' = Waiting("ack", left, c)
           /\ net' = net \cup {OutSegment(s, c)}
        \/ \* netdev_send failed; the frame may be on the ring all the same
           /\ c > 0
           /\ Return(s) /\ net' \in {net, net \cup {OutSegment(s, c)}}

Send ==
    /\ call.op = "none" /\ sock.state = "CONNECTED" /\ ~sock.write_shutdown
    /\ UNCHANGED <<peer, app_in, app_out, eof, broken>>
    /\ \E n \in 1..MaxLen : app_out + n <= OutN /\ SendLoop(sock, n)

Acknowledged(f) == ~Before(f.ack, Seqno(sock.seq + call.chunk))

AdvancedByMss(s) == [s EXCEPT !.seq = Seqno(@ + Mss)]
Advanced(s) == [s EXCEPT !.seq = Seqno(@ + call.chunk)]

\* A frame in sock_wait_ack, and what socket_send_data does when it returns.
AckFrame ==
    /\ call.op = "ack"
    /\ UNCHANGED <<peer, app_in, eof, broken>>
    /\ \E f \in Frames :
         LET s == IF f.n > 0 THEN Store(Seen(f), f) ELSE Seen(f)
         IN  \/ /\ Acknowledged(f)
                /\ app_out' = app_out + call.chunk
                /\ SendLoop(Advanced(s), call.left - call.chunk)
             \/ /\ ~Acknowledged(f)
                /\ IF f.fin THEN Return(TakeFin(s, f)) ELSE Keep(s)
                /\ UNCHANGED <<net, app_out>>

\* A frame in sock_wait_for_send_window.
WindowFrame ==
    /\ call.op = "window"
    /\ UNCHANGED <<peer, app_in, app_out, eof, broken>>
    /\ \E f \in Frames :
         LET s == IF f.n > 0 THEN Store(Seen(f), f)
                  ELSE IF f.fin THEN TakeFin(Seen(f), f) ELSE Seen(f)
         IN  \/ s.state = "CLOSED" /\ Return(s) /\ UNCHANGED net
             \/ s.state # "CLOSED" /\ s.window = 0 /\ Keep(s) /\ UNCHANGED net
             \/ s.state # "CLOSED" /\ s.window > 0 /\ SendLoop(s, call.left)

(***************************************************************************)
(* receive                                                                 *)
(***************************************************************************)
\* The copy of socket_recv_data, of at most n unread bytes.
Deliver(s, n) ==
    LET k == Least(n, Len(Unread(s)))
    IN  /\ app_in' = app_in \o SubSeq(Unread(s), 1, k)
        /\ Return([s EXCEPT !.off = @ + k])

AtEnd(s) == s.state = "CLOSED" /\ s.off >= Len(s.rx)

Emptied(s) == [s EXCEPT !.rx = <<>>, !.off = 0]

Recv ==
    /\ call.op = "none" /\ sock.state # "CREATED" /\ ~sock.read_shutdown
    /\ UNCHANGED <<net, peer, app_out, broken>>
    /\ \E n \in 1..MaxLen :
         \/ AtEnd(sock) /\ eof' = TRUE /\ UNCHANGED <<sock, call, app_in>>
         \/ /\ ~AtEnd(sock) /\ Unread(sock) # <<>>
            /\ Deliver(sock, n) /\ UNCHANGED eof
         \/ /\ ~AtEnd(sock) /\ Unread(sock) = <<>>
            /\ sock' = Emptied(sock) /\ call' = Waiting("recv", n, 0)
            /\ UNCHANGED <<app_in, eof>>

\* A frame in sock_wait_tcp called by socket_recv_data: bare ACKs are skipped.
RecvFrame ==
    /\ call.op = "recv"
    /\ UNCHANGED <<net, peer, app_out, broken>>
    /\ \E f \in Frames :
         LET s == Store(Seen(f), f)
         IN  \/ /\ f.n > 0 /\ Unread(s) # <<>>
                /\ Deliver(s, call.left) /\ UNCHANGED eof
             \/ /\ f.n > 0 /\ Unread(s) = <<>>
                /\ sock' = s /\ call' = [call EXCEPT !.attempt = 0]
                /\ UNCHANGED <<app_in, eof>>
             \/ /\ f.n = 0 /\ f.fin
                /\ Return(TakeFin(Seen(f), f)) /\ eof' = TRUE /\ UNCHANGED app_in
             \/ /\ f.n = 0 /\ ~f.fin
                /\ Keep(Seen(f)) /\ UNCHANGED <<app_in, eof>>

(***************************************************************************)
(* shutdown and close                                                      *)
(***************************************************************************)
\* sys_socket_shutdown, and close_socket_ref for the last reference, which
\* then clears the slot; here the closed socket stays and is not used.
Shutdown ==
    /\ call.op = "none" /\ sock.state # "CREATED"
    /\ UNCHANGED <<peer, app_in, app_out, eof>>
    /\ \E how \in 0..2 :
         LET s == [sock EXCEPT !.read_shutdown = @ \/ how # 1,
                               !.write_shutdown = @ \/ how # 0]
             fin == Segment("FIN", s.seq, <<>>)
         IN  /\ broken' = TRUE
             /\ \/ /\ how = 0 \/ s.state = "CLOSED"
                   /\ Return(s) /\ UNCHANGED net
                \/ /\ how # 0 /\ s.state = "CONNECTED"
                   /\ sock' = [s EXCEPT !.seq = Seqno(@ + 1)]
                   /\ call' = Waiting("fin", 0, 0)
                   /\ net' = net \cup {fin}
                \/ \* the FIN could not be sent: the socket stays connected
                   /\ how # 0 /\ s.state = "CONNECTED"
                   /\ Return(s) /\ net' \in {net, net \cup {fin}}

\* A frame in socket_send_fin_close; sock.seq is already fin_seq + 1.
FinFrame ==
    /\ call.op = "fin"
    /\ UNCHANGED <<net, peer, app_in, app_out, eof, broken>>
    /\ \E f \in Frames :
         LET s == IF f.n > 0 THEN Store(Seen(f), f)
                  ELSE IF f.fin THEN TakeFin(Seen(f), f)
                  ELSE IF f.ack = sock.seq THEN Closed(Seen(f)) ELSE Seen(f)
         IN  IF s.state = "CLOSED" THEN Return(s) ELSE Keep(s)

(***************************************************************************)
(* Resets and the end of a wait.                                           *)
(***************************************************************************)
\* A RST is believed in every wait, whatever its sequence number.
Reset ==
    /\ call.op # "none"
    /\ Return(Closed(sock))
    /\ broken' = TRUE /\ eof' = (eof \/ call.op = "recv")
    /\ UNCHANGED <<net, peer, app_in, app_out>>

Retried == [call EXCEPT !.attempt = @ + 1]

\* The time of the wait is up.
WaitExpires ==
    /\ ClockRuns /\ call.op # "none"
    /\ UNCHANGED <<peer, app_in, app_out, eof>>
    /\ broken' = (broken \/ (call.op = "connect" /\ call.attempt + 1 = Retries))
    /\ \/ /\ call.op = "connect" /\ call.attempt + 1 < Retries
          /\ call' = Retried /\ UNCHANGED sock
          /\ net' = net \cup {Segment("SYN", sock.seq, <<>>)}
       \/ /\ call.op = "connect" /\ call.attempt + 1 = Retries
          /\ Return(Closed(sock)) /\ UNCHANGED net
       \/ /\ call.op = "ack" /\ call.attempt + 1 < Retries
          /\ call' = Retried /\ UNCHANGED sock
          /\ net' = net \cup {OutSegment(sock, call.chunk)}
       \/ /\ call.op = "ack" /\ call.attempt + 1 = Retries
          /\ Return(sock) /\ UNCHANGED net
       \/ /\ call.op = "recv" /\ call.attempt < RecvRetries
          /\ call' = Retried /\ UNCHANGED <<sock, net>>
       \/ /\ call.op = "recv" /\ call.attempt = RecvRetries
          /\ Return(sock) /\ UNCHANGED net
       \/ /\ call.op = "window"
          /\ Return(sock) /\ UNCHANGED net
       \/ /\ call.op = "fin"
          /\ Return(Closed(sock)) /\ UNCHANGED net

(***************************************************************************)
(* The network and the peer, which is a correct TCP.                       *)
(***************************************************************************)
Lose ==
    /\ \E m \in net : net' = net \ {m}
    /\ UNCHANGED <<sock, call, peer, app_in, app_out, eof, broken>>

\* The peer takes what continues its stream; the offset of what it already
\* has in a segment is small, that of a segment from the future is not.
PeerReceives ==
    /\ \E m \in net :
         LET have == Seqno(ISS + 1 + Len(peer.got) - m.seq)
         IN  \/ /\ m.kind = "SYN" /\ ~peer.open
                /\ peer' = [peer EXCEPT !.open = TRUE]
             \/ /\ m.kind = "DATA" /\ peer.open /\ ~peer.fin /\ have < Len(m.data)
                /\ peer' = [peer EXCEPT !.got = @ \o SubSeq(m.data, have + 1, Len(m.data))]
             \/ /\ m.kind = "FIN" /\ peer.open /\ ~peer.fin /\ have = 0
                /\ peer' = [peer EXCEPT !.fin = TRUE]
    /\ UNCHANGED <<sock, call, net, app_in, app_out, eof, broken>>

Next ==
    \/ Connect \/ SynAck
    \/ Send \/ AckFrame \/ WindowFrame
    \/ Recv \/ RecvFrame
    \/ Shutdown \/ FinFrame
    \/ Reset \/ WaitExpires
    \/ Lose \/ PeerReceives

Spec == Init /\ [][Next]_vars

\* The kernel polls, the peer answers, and what is not lost is delivered.
FairSpec ==
    /\ Spec
    /\ WF_vars(PeerReceives) /\ WF_vars(SynAck) /\ WF_vars(AckFrame)
    /\ WF_vars(WaitExpires)

----------------------------------------------------------------------------
TypeOK ==
    /\ sock \in [state : {"CREATED", "CONNECTED", "CLOSED"},
                 seq : 0..(SeqSpace - 1), ack : 0..(SeqSpace - 1),
                 rx : Seq(1..InN), off : 0..BufSize, window : 0..MaxWindow,
                 read_shutdown : BOOLEAN, write_shutdown : BOOLEAN]
    /\ sock.off <= Len(sock.rx) /\ Len(sock.rx) <= BufSize
    /\ call \in [op : {"none", "connect", "window", "ack", "recv", "fin"},
                 left : 0..MaxLen, chunk : 0..Mss, attempt : 0..(Retries + RecvRetries)]
    /\ peer.open \in BOOLEAN /\ peer.fin \in BOOLEAN
    /\ app_out \in 0..OutN /\ eof \in BOOLEAN /\ broken \in BOOLEAN

Counted(n) == [i \in 1..n |-> i]

(***************************************************************************)
(* What the application has read, followed by what waits in rx_buffer, is  *)
(* the beginning of what the peer sent: no byte twice, none left out and   *)
(* none moved, whatever duplicates, partial stores and compactions came.   *)
(***************************************************************************)
ReceivedInOrder ==
    LET all == app_in \o Unread(sock) IN all = Counted(Len(all))

(***************************************************************************)
(* The peer accepts exactly the application's bytes in their order: a      *)
(* retransmission, also one cut differently by a later call, repeats the   *)
(* bytes that belong to its sequence number.                               *)
(***************************************************************************)
SentInOrder == peer.got = Counted(Len(peer.got))

(***************************************************************************)
(* A byte socket_send_data reports as sent is one the peer has accepted,   *)
(* although late and repeated acknowledgements of earlier chunks arrive.   *)
(***************************************************************************)
ReportedDelivered == app_out <= Len(peer.got)

(***************************************************************************)
(* While the socket is connected, the acknowledgement it sends covers      *)
(* exactly the bytes it has stored: the peer may forget no byte that did   *)
(* not fit into rx_buffer.                                                 *)
(***************************************************************************)
AcksCoverStored ==
    sock.state = "CONNECTED" =>
        sock.ack = Seqno(PeerISS + 1 + Len(app_in) + Len(Unread(sock)))

(***************************************************************************)
(* Once a receive call has answered 0 for the end of the stream, no later  *)
(* call delivers a byte.                                                   *)
(***************************************************************************)
EndOfFileFinal == [][eof => app_in' = app_in]_vars

(***************************************************************************)
(* The end of the stream is reported after the peer's last byte, unless    *)
(* the connection was reset or shut down here (README.md: "stricter TCP    *)
(* receive ordering", "TCP FIN close handling").                           *)
(***************************************************************************)
EndOfFileComplete == eof /\ ~broken => Len(app_in) = InN

(***************************************************************************)
(* A segment that is not acknowledged is sent again or the call gives up   *)
(* (README.md: "TCP retransmission backoff"): a call does not stay in its  *)
(* first wait for ever.                                                    *)
(***************************************************************************)
LossRepaired ==
    (call.op \in {"connect", "ack"} /\ call.attempt = 0)
        ~> (call.op = "none" \/ call.attempt > 0)
=============================================================================
