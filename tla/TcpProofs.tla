----------------------------- MODULE TcpProofs -----------------------------
(***************************************************************************)
(* Proofs about Tcp.tla for every stream length, buffer and segment size,  *)
(* window and retry bound, and every behaviour of the network.             *)
(*                                                                         *)
(* The inductive invariant has three parts.  Shape gives the types.        *)
(* OutInv ties the sequence number to the bytes already reported, and says *)
(* that every data segment still in the network is a slice of the          *)
(* application's stream that starts no later than the first unreported     *)
(* byte; so whatever the peer accepts continues its prefix.  InInv says    *)
(* that the unread part of rx_buffer continues what the application has    *)
(* read, that the acknowledgement number of a connected socket counts both *)
(* (Synced), and what a closed socket that still waits for its own ACK has *)
(* received (Finished).  Sequence numbers are compared modulo SeqSpace,    *)
(* which is why TcpAssumption wants the streams shorter than half of it.   *)
(***************************************************************************)
EXTENDS TcpSocketProofs

----------------------------------------------------------------------------
(* The other calls, the network and the peer *)

LEMMA DeliverStep ==
  ASSUME IInv, NEW s, Kept(sock, s), RxInv(s), s.state # "CREATED",
         s.state = "CONNECTED" => Synced(s) /\ sock.state = "CONNECTED", call.op \in {"none", "recv"},
         NEW n \in Nat, Deliver(s, n), ~eof, UNCHANGED <<net, peer, app_out, eof>>
  PROVE  IInv'
<1>1. Shape /\ OutInv /\ InInv /\ s \in SockT
  BY DEF IInv, Kept
<1>2. /\ InInv' /\ sock' \in SockT /\ app_in' \in Seq(Int) /\ Kept(s, sock') /\ call' = Idle
      /\ sock'.state = s.state
  BY <1>1, InDeliver
<1>3. OutInv'
  <2>1. Kept(sock, sock') /\ net' \subseteq net /\ call'.op = "none"
    BY <1>2, Calls DEF Kept
  <2> QED BY <1>2, <2>1, OutKept
<1> QED
  BY <1>1, <1>2, <1>3, Calls DEF IInv, Shape

LEMMA RecvStep == ASSUME IInv, Recv PROVE IInv'
<1>1. call.op = "none" /\ sock.state # "CREATED" /\ UNCHANGED <<net, peer, app_out>>
  BY DEF Recv
<1>2. PICK n \in 1..MaxLen :
        \/ AtEnd(sock) /\ eof' = TRUE /\ UNCHANGED <<sock, call, app_in>>
        \/ /\ ~AtEnd(sock) /\ Unread(sock) # <<>>
           /\ Deliver(sock, n) /\ UNCHANGED eof
        \/ /\ ~AtEnd(sock) /\ Unread(sock) = <<>>
           /\ sock' = Emptied(sock) /\ call' = Waiting("recv", n, 0)
           /\ UNCHANGED <<app_in, eof>>
  BY DEF Recv
<1>3. /\ Shape /\ OutInv /\ InInv /\ sock \in SockT /\ RxInv(sock) /\ sock.off <= Len(sock.rx)
      /\ sock.off \in Nat /\ Len(sock.rx) \in Nat /\ n \in Nat /\ Kept(sock, sock)
      /\ sock.state = "CONNECTED" => Synced(sock)
  BY Space DEF IInv, Shape, InInv, RxInv, SockT, Kept
<1>4. ~AtEnd(sock) => ~eof
  BY <1>3 DEF AtEnd, InInv
<1>5. CASE AtEnd(sock) /\ eof' = TRUE /\ UNCHANGED <<sock, call, app_in>>
  <2>1. sock.state = "CLOSED" /\ sock.off = Len(sock.rx)
    BY <1>3, <1>5 DEF AtEnd
  <2>2. OutInv'
    <3>1. Kept(sock, sock') /\ net' \subseteq net
      BY <1>1, <1>3, <1>5
    <3> QED BY <1>1, <1>5, <2>1, <3>1, OutKept
  <2>3. InInv'
    <3>1. RxInv(sock)' /\ sock' = sock /\ call' = call /\ app_in' = app_in
      BY Zenon, <1>3, <1>5 DEF RxInv, Received
    <3>2. eof' => sock'.state = "CLOSED" /\ call'.op = "none" /\ sock'.off = Len(sock'.rx)
      BY <1>1, <2>1, <3>1
    <3> QED BY <1>1, <1>3, <2>1, <3>1, <3>2 DEF InInv
  <2> QED BY <1>1, <1>3, <1>5, <2>2, <2>3 DEF IInv, Shape
<1>6. CASE /\ ~AtEnd(sock) /\ Unread(sock) # <<>>
           /\ Deliver(sock, n) /\ UNCHANGED eof
  BY <1>1, <1>3, <1>4, <1>6, DeliverStep
<1>7. CASE /\ ~AtEnd(sock) /\ Unread(sock) = <<>>
           /\ sock' = Emptied(sock) /\ call' = Waiting("recv", n, 0)
           /\ UNCHANGED <<app_in, eof>>
  <2> DEFINE t == Emptied(sock)
  <2>1. /\ Kept(sock, t) /\ t.state = sock.state /\ t.ack = sock.ack
        /\ t.rx = <<>> /\ t.off = 0
    BY <1>3, EmptiedSock
  <2>2. sock' = t
    BY <1>7
  <2> HIDE DEF t
  <2>3. Len(sock.rx) = sock.off
    <3>1. Len(Unread(sock)) = 0 /\ Len(Unread(sock)) = Len(sock.rx) - sock.off
      BY <1>3, <1>7, UnreadBytes
    <3> QED BY <1>3, <3>1
  <2>4. Len(t.rx) = 0 /\ Received(t) = Received(sock)
    BY <1>3, <2>1, <2>3 DEF Received, Shape
  <2>5. RxInv(t)
    BY <1>3, <2>1, <2>4, Space DEF RxInv
  <2>6. sock.state = "CONNECTED" /\ Synced(t) /\ t.state = "CONNECTED"
    <3>1. sock.state = "CONNECTED"
      BY <1>1, <1>3, <1>7, <2>3 DEF AtEnd, SockT, States
    <3> QED BY <1>3, <2>1, <2>4, <3>1 DEF Synced
  <2>7. call' \in CallT /\ call'.op = "recv"
    BY <1>3, <1>7, Calls DEF Ops
  <2>8. OutInv'
    <3>1. Kept(sock, sock') /\ net' \subseteq net /\ sock'.state = "CONNECTED"
      BY <1>1, <2>1, <2>2, <2>6
    <3> QED BY <1>1, <2>6, <2>7, <3>1, OutKept
  <2>9. InInv'
    <3>1. ~eof' /\ app_in' = app_in /\ t.off = Len(t.rx)
      BY <1>4, <1>7, <2>1, <2>4
    <3> QED BY <1>3, <2>2, <2>5, <2>6, <2>7, <3>1, InFrame
  <2> QED BY <1>1, <1>3, <1>7, <2>1, <2>2, <2>7, <2>8, <2>9 DEF IInv, Shape, Kept
<1> QED
  BY Zenon, <1>2, <1>5, <1>6, <1>7

LEMMA RecvFrameStep == ASSUME IInv, RecvFrame PROVE IInv'
<1>1. call.op = "recv" /\ UNCHANGED <<net, peer, app_out>>
  BY DEF RecvFrame
<1>2. PICK f \in Frames :
        LET s == Store(Seen(f), f)
        IN  \/ /\ f.n > 0 /\ Unread(s) # <<>>
               /\ Deliver(s, call.left) /\ UNCHANGED eof
            \/ /\ f.n > 0 /\ Unread(s) = <<>>
               /\ sock' = s /\ call' = [call EXCEPT !.attempt = 0]
               /\ UNCHANGED <<app_in, eof>>
            \/ /\ f.n = 0 /\ f.fin
               /\ Return(TakeFin(Seen(f), f)) /\ eof' = TRUE /\ UNCHANGED app_in
            \/ /\ f.n = 0 /\ ~f.fin
               /\ Keep(Seen(f)) /\ UNCHANGED <<app_in, eof>>
  BY DEF RecvFrame
<1> DEFINE s == Store(Seen(f), f)
           v == Seen(f)
<1>3. /\ Shape /\ OutInv /\ InInv /\ call \in CallT /\ call.left \in Nat
      /\ sock.state = "CONNECTED" /\ sock.off = Len(sock.rx) /\ ~eof
  BY <1>1 DEF IInv, Shape, CallT, InInv
<1>4. /\ Kept(sock, v) /\ SameRx(sock, v) /\ RxInv(v)
      /\ Synced(v)
  BY <1>1, SeenInv DEF Finished
<1>5. f.n > 0 => /\ Kept(sock, s) /\ RxInv(s)
                 /\ Synced(s) \/ Finished(s)
                 /\ s.state # "CONNECTED" => s.off < Len(s.rx)
  BY <1>1, StoredInv
<1>6. \/ /\ f.n > 0 /\ Unread(s) # <<>>
         /\ Deliver(s, call.left) /\ UNCHANGED eof
      \/ /\ f.n > 0 /\ Unread(s) = <<>>
         /\ sock' = s /\ call' = [call EXCEPT !.attempt = 0]
         /\ UNCHANGED <<app_in, eof>>
      \/ /\ f.n = 0 /\ f.fin
         /\ Return(TakeFin(v, f)) /\ eof' = TRUE /\ UNCHANGED app_in
      \/ /\ f.n = 0 /\ ~f.fin
         /\ Keep(v) /\ UNCHANGED <<app_in, eof>>
  BY Zenon, <1>2
<1> HIDE DEF s, v
<1>7. CASE /\ f.n > 0 /\ Unread(s) # <<>>
           /\ Deliver(s, call.left) /\ UNCHANGED eof
  <2>1. s.state # "CREATED" /\ (s.state = "CONNECTED" => Synced(s))
    BY <1>5, <1>7 DEF Synced, Finished
  <2> QED BY <1>1, <1>3, <1>5, <1>7, <2>1, DeliverStep
<1>8. CASE /\ f.n > 0 /\ Unread(s) = <<>>
           /\ sock' = s /\ call' = [call EXCEPT !.attempt = 0]
           /\ UNCHANGED <<app_in, eof>>
  <2>1. s \in SockT /\ s.off <= Len(s.rx) /\ s.off \in Nat /\ Len(s.rx) \in Nat
    BY <1>5, <1>8 DEF Kept, RxInv, SockT
  <2>2. s.off = Len(s.rx)
    <3>1. Len(Unread(s)) = 0 /\ Len(Unread(s)) = Len(s.rx) - s.off
      BY <1>8, <2>1, UnreadBytes
    <3> QED BY <2>1, <3>1
  <2>3. Synced(s) /\ s.state = "CONNECTED"
    BY <1>5, <1>8, <2>1, <2>2 DEF Synced, Finished
  <2>4. call' \in CallT /\ call'.op = "recv" /\ call'.left = call.left /\ call'.chunk = call.chunk
    BY <1>1, <1>3, <1>8 DEF CallT
  <2>5. OutInv'
    <3>1. Kept(sock, sock') /\ net' \subseteq net /\ sock'.state = "CONNECTED"
      BY <1>1, <1>5, <1>8, <2>3
    <3> QED BY <1>1, <1>3, <2>4, <3>1, OutKept
  <2>6. InInv'
    BY <1>3, <1>5, <1>8, <2>2, <2>3, <2>4, InFrame
  <2> QED BY <1>1, <1>3, <1>8, <2>1, <2>4, <2>5, <2>6 DEF IInv, Shape
<1>9. CASE /\ f.n = 0 /\ f.fin
           /\ Return(TakeFin(v, f)) /\ eof' = TRUE /\ UNCHANGED app_in
  <2> DEFINE t == TakeFin(v, f)
  <2>1. Kept(v, t) /\ RxInv(t) /\ t.state = "CLOSED" /\ t.rx = v.rx /\ t.off = v.off
    BY <1>3, <1>4, TakenInv DEF Kept
  <2>2. sock' = t /\ call' = Idle
    BY <1>9 DEF Return
  <2> HIDE DEF t
  <2>3. sock' \in SockT /\ Kept(sock, sock') /\ call' \in CallT /\ call'.op = "none"
    BY <1>4, <2>1, <2>2, Calls DEF Kept
  <2>4. OutInv'
    <3>1. net' \subseteq net /\ sock'.state = "CLOSED"
      BY <1>1, <2>1, <2>2
    <3> QED BY <1>1, <1>3, <2>3, <3>1, OutKept
  <2>5. InInv'
    <3>1. sock'.rx = sock.rx /\ sock'.off = sock.off /\ sock'.state = "CLOSED" /\ app_in' = app_in
      BY <1>4, <1>9, <2>1, <2>2 DEF SameRx
    <3> QED BY <1>1, <1>3, <2>3, <3>1, InQuiet
  <2> QED BY <1>1, <1>3, <1>9, <2>3, <2>4, <2>5 DEF IInv, Shape
<1>10. CASE /\ f.n = 0 /\ ~f.fin
            /\ Keep(v) /\ UNCHANGED <<app_in, eof>>
  <2>1. sock' = v /\ call' = call
    BY <1>10 DEF Keep
  <2>2. OutInv'
    <3>1. Kept(sock, sock') /\ net' \subseteq net /\ sock'.state = "CONNECTED"
      BY <1>1, <1>4, <2>1 DEF Synced
    <3> QED BY <1>1, <1>3, <2>1, <3>1, OutKept
  <2>3. InInv'
    <3>1. /\ sock'.rx = sock.rx /\ sock'.off = sock.off /\ sock'.ack = sock.ack
          /\ sock'.state = sock.state
      BY <1>4, <2>1 DEF SameRx
    <3> QED BY <1>3, <1>10, <2>1, <3>1, InQuiet
  <2> QED BY <1>1, <1>3, <1>4, <1>10, <2>1, <2>2, <2>3 DEF IInv, Shape, Kept
<1> QED
  BY Zenon, <1>6, <1>7, <1>8, <1>9, <1>10

LEMMA ResetStep == ASSUME IInv, Reset PROVE IInv'
<1>1. /\ call.op # "none" /\ sock' = Closed(sock) /\ call' = Idle
      /\ eof' = (eof \/ call.op = "recv") /\ UNCHANGED <<net, peer, app_in, app_out>>
  BY DEF Reset, Return
<1>2. Shape /\ OutInv /\ InInv /\ sock \in SockT
  BY DEF IInv, Shape
<1>3. /\ Kept(sock, sock') /\ sock'.state = "CLOSED" /\ sock'.rx = sock.rx /\ sock'.off = sock.off
  BY <1>1, <1>2, ClosedSock
<1>4. call' \in CallT /\ call'.op = "none"
  BY <1>1, Calls
<1>5. OutInv'
  <2>1. net' \subseteq net
    BY <1>1
  <2> QED BY <1>1, <1>3, <1>4, <2>1, OutKept
<1>6. InInv'
  BY Zenon, <1>1, <1>2, <1>3, <1>4, InQuiet
<1>7. eof' \in BOOLEAN
  BY <1>1
<1> QED
  BY <1>1, <1>2, <1>3, <1>4, <1>5, <1>6, <1>7 DEF IInv, Shape, Kept

\* The socket as it was, the call as it was or over, SYN or the segment again.
LEMMA SameSocket ==
  ASSUME IInv, sock' = sock, call' \in CallT, UNCHANGED <<peer, app_in, app_out, eof>>,
         net' \subseteq SegmentT,
         \A m \in net' : m \in net \/ m.kind = "SYN" \/ (m.kind = "DATA" /\ Slice(m)),
         \/ call'.op = call.op /\ call'.left = call.left /\ call'.chunk = call.chunk
         \/ call'.op = "none" /\ call.op # "fin"
  PROVE  IInv'
<1>1. Shape /\ OutInv /\ InInv
  BY DEF IInv
<1>2. OutInv'
  <2>1. Sending' => Sending /\ call'.left = call.left /\ call'.chunk = call.chunk
    BY DEF Sending
  <2>2. sock'.state = "CONNECTED" /\ call'.op # "fin" =>
          Sending \/ (sock.state = "CONNECTED" /\ call.op # "fin")
    OBVIOUS
  <2> QED BY <1>1, <2>1, <2>2, OutQuiet
<1>3. InInv'
  BY <1>1, InQuiet
<1> QED
  BY <1>1, <1>2, <1>3 DEF IInv, Shape

LEMMA LoseStep == ASSUME IInv, Lose PROVE IInv'
<1>1. /\ UNCHANGED <<sock, call, peer, app_in, app_out, eof>> /\ net' \subseteq net
  BY DEF Lose
<1>2. call \in CallT /\ net' \subseteq SegmentT
  BY <1>1 DEF IInv, Shape
<1> QED
  BY <1>1, <1>2, SameSocket

LEMMA SynSegment ==
  ASSUME NEW q \in Int, NEW kind \in {"SYN", "FIN"}
  PROVE  Segment(kind, q, <<>>) \in SegmentT /\ Segment(kind, q, <<>>).kind = kind
<1>1. <<>> \in Seq(Int)
  BY EmptySeq
<1> QED
  BY <1>1 DEF Segment, SegmentT

LEMMA WaitExpiresStep == ASSUME IInv, WaitExpires PROVE IInv'
<1>1. call.op # "none" /\ UNCHANGED <<peer, app_in, app_out, eof>>
  BY DEF WaitExpires
<1>2. /\ Shape /\ OutInv /\ InInv /\ sock \in SockT /\ call \in CallT /\ net \subseteq SegmentT
      /\ sock.seq \in Int /\ call.chunk \in Nat /\ app_out \in Nat
  BY DEF IInv, Shape, SockT, CallT
<1>3. Retried \in CallT /\ Retried.op = call.op /\ Retried.left = call.left /\ Retried.chunk = call.chunk
  BY <1>2 DEF Retried, CallT
<1>4. Idle \in CallT /\ Idle.op = "none"
  BY Calls
<1>5. CASE /\ call.op = "connect" /\ call' = Retried /\ UNCHANGED sock
           /\ net' = net \cup {Segment("SYN", sock.seq, <<>>)}
  <2> DEFINE m0 == Segment("SYN", sock.seq, <<>>)
  <2>1. m0 \in SegmentT /\ m0.kind = "SYN"
    BY <1>2, SynSegment
  <2>2. net' = net \cup {m0}
    BY <1>5
  <2> HIDE DEF m0
  <2>3. net' \subseteq SegmentT /\ \A m \in net' : m \in net \/ m.kind = "SYN"
    BY <1>2, <2>1, <2>2
  <2> QED BY <1>1, <1>3, <1>5, <2>3, SameSocket
<1>6. CASE /\ call.op = "ack" /\ call' = Retried /\ UNCHANGED sock
           /\ net' = net \cup {OutSegment(sock, call.chunk)}
  <2>1. ASSUME NEW x, x = OutSegment(sock, call.chunk)
        PROVE  x \in SegmentT /\ x.kind = "DATA" /\ Slice(x)
    <3>1. app_out' = app_out
      BY <1>1
    <3>2. x \in SegmentT /\ x.kind = "DATA" /\ x.seq = sock.seq
          /\ x.data = [i \in 1..call.chunk |-> app_out + i]
      BY <1>2, <2>1, <3>1, NewSegment
    <3>3. sock.seq = Seqno(ISS + 1 + app_out) /\ app_out + call.left <= OutN /\ call.chunk <= call.left
          /\ call.left \in Nat
      BY <1>2, <1>6 DEF OutInv, Sending, CallT
    <3>4. app_out \in 0..app_out /\ call.chunk \in 0..(OutN - app_out)
      BY <1>2, <3>3, Space
    <3> QED BY <3>2, <3>3, <3>4 DEF Slice
  <2>2. PICK x : x = OutSegment(sock, call.chunk)
    OBVIOUS
  <2>3. net' \subseteq SegmentT /\ \A m \in net' : m \in net \/ (m.kind = "DATA" /\ Slice(m))
    <3>1. net' = net \cup {x} /\ x \in SegmentT /\ x.kind = "DATA" /\ Slice(x)
      BY <1>6, <2>1, <2>2
    <3> QED BY <1>2, <3>1
  <2> QED BY <1>1, <1>3, <1>6, <2>3, SameSocket
<1>7. CASE call.op # "fin" /\ call' \in {Retried, Idle} /\ UNCHANGED <<sock, net>>
  <2>1. /\ call' \in CallT
        /\ \/ call'.op = call.op /\ call'.left = call.left /\ call'.chunk = call.chunk
           \/ call'.op = "none" /\ call.op # "fin"
    BY <1>3, <1>4, <1>7
  <2> QED BY <1>1, <1>2, <1>7, <2>1, SameSocket
<1>8. CASE Return(Closed(sock)) /\ UNCHANGED net
  <2>1. /\ Kept(sock, sock') /\ sock'.state = "CLOSED" /\ sock'.rx = sock.rx /\ sock'.off = sock.off
        /\ call' = Idle
    BY <1>2, <1>8, ClosedSock DEF Return
  <2>2. OutInv'
    <3>1. net' \subseteq net /\ call'.op = "none"
      BY <1>4, <1>8, <2>1
    <3> QED BY <1>1, <2>1, <3>1, OutKept
  <2>3. InInv'
    BY <1>1, <1>2, <1>4, <2>1, InQuiet
  <2> QED BY <1>1, <1>2, <1>4, <1>8, <2>1, <2>2, <2>3 DEF IInv, Shape, Kept
<1>9. \/ /\ call.op = "connect" /\ call' = Retried /\ UNCHANGED sock
         /\ net' = net \cup {Segment("SYN", sock.seq, <<>>)}
      \/ /\ call.op = "ack" /\ call' = Retried /\ UNCHANGED sock
         /\ net' = net \cup {OutSegment(sock, call.chunk)}
      \/ call.op # "fin" /\ call' \in {Retried, Idle} /\ UNCHANGED <<sock, net>>
      \/ Return(Closed(sock)) /\ UNCHANGED net
  BY DEF WaitExpires, Return
<1> QED
  BY <1>5, <1>6, <1>7, <1>8, <1>9

LEMMA ConnectStep == ASSUME IInv, Connect PROVE IInv'
<1>1. /\ call.op = "none" /\ sock.state = "CREATED" /\ UNCHANGED <<peer, app_in, app_out, eof>>
  BY DEF Connect
<1>2. /\ Shape /\ OutInv /\ InInv /\ sock \in SockT /\ net \subseteq SegmentT /\ sock.seq \in Int
  BY DEF IInv, Shape, SockT
<1>3. CASE Return(Closed(sock)) /\ UNCHANGED net
  <2>1. /\ Kept(sock, sock') /\ sock'.state = "CLOSED" /\ sock'.rx = sock.rx /\ sock'.off = sock.off
        /\ call' \in CallT /\ call'.op = "none"
    BY <1>2, <1>3, ClosedSock, Calls DEF Return
  <2>2. OutInv'
    <3>1. net' \subseteq net
      BY <1>3
    <3> QED BY <1>1, <2>1, <3>1, OutKept
  <2>3. InInv'
    BY <1>1, <1>2, <2>1, InQuiet
  <2> QED BY <1>1, <1>2, <1>3, <2>1, <2>2, <2>3 DEF IInv, Shape, Kept
<1>4. CASE /\ sock' = [sock EXCEPT !.ack = 0] /\ call' = [Idle EXCEPT !.op = "connect"]
           /\ net' = net \cup {Segment("SYN", sock.seq, <<>>)}
  <2>1. /\ sock' \in SockT /\ sock'.seq = sock.seq /\ sock'.write_shutdown = sock.write_shutdown
        /\ sock'.state = "CREATED" /\ sock'.rx = sock.rx /\ sock'.off = sock.off
    <3> DEFINE t == [sock EXCEPT !.ack = 0]
    <3>1. /\ t \in SockT /\ t.seq = sock.seq /\ t.write_shutdown = sock.write_shutdown
          /\ t.state = sock.state /\ t.rx = sock.rx /\ t.off = sock.off
      BY <1>2 DEF SockT
    <3>2. sock' = t
      BY <1>4
    <3> HIDE DEF t
    <3> QED BY <1>1, <3>1, <3>2
  <2>2. call' \in CallT /\ call'.op = "connect"
    BY <1>4 DEF Idle, CallT, Ops
  <2>3. net' \subseteq SegmentT /\ \A m \in net' : m \in net \/ m.kind = "SYN"
    <3> DEFINE m0 == Segment("SYN", sock.seq, <<>>)
    <3>1. m0 \in SegmentT /\ m0.kind = "SYN"
      BY <1>2, SynSegment
    <3>2. net' = net \cup {m0}
      BY <1>4
    <3> HIDE DEF m0
    <3> QED BY <1>2, <3>1, <3>2
  <2>4. OutInv'
    <3>1. ~Sending'
      BY <2>2 DEF Sending
    <3> QED BY <1>1, <1>2, <2>1, <2>3, <3>1, OutQuiet
  <2>5. InInv'
    <3>1. RxInv(sock)' /\ Received(sock)' = 0 /\ ~eof'
      BY <1>1, <1>2, <2>1 DEF InInv, RxInv, Received
    <3>2. \A i \in 1..Len(app_in') : app_in'[i] = i
      BY <1>1, <1>2 DEF InInv
    <3>3. /\ sock'.state = "CREATED" /\ call'.op = "connect"
      BY <2>1, <2>2
    <3> QED BY <3>1, <3>2, <3>3 DEF InInv
  <2> QED BY <1>1, <1>2, <2>1, <2>2, <2>3, <2>4, <2>5 DEF IInv, Shape
<1> QED
  BY <1>3, <1>4 DEF Connect

\* The socket SynAck leaves behind a successful connect.
ConnectedAs(s, w, q, a) ==
  [s EXCEPT !.state = "CONNECTED", !.window = w, !.seq = q, !.ack = a]

LEMMA ConnectedSock ==
  ASSUME NEW s \in SockT, NEW w \in Nat, NEW a \in Int, NEW q \in Int
  PROVE  LET t == ConnectedAs(s, w, q, a) IN
         /\ t \in SockT /\ t.state = "CONNECTED" /\ t.seq = q /\ t.ack = a
         /\ t.rx = s.rx /\ t.off = s.off /\ t.write_shutdown = s.write_shutdown
<1> DEFINE x == [s EXCEPT !.state = "CONNECTED"]
           y == [x EXCEPT !.window = w]
           z == [y EXCEPT !.seq = q]
           v == [z EXCEPT !.ack = a]
<1>1. ConnectedAs(s, w, q, a) = v
  BY DEF ConnectedAs
<1>2. x \in SockT /\ x.state = "CONNECTED" /\ x.rx = s.rx /\ x.off = s.off
      /\ x.write_shutdown = s.write_shutdown
  BY DEF SockT, States
<1> HIDE DEF x
<1>3. y \in SockT /\ y.state = "CONNECTED" /\ y.rx = s.rx /\ y.off = s.off
      /\ y.write_shutdown = s.write_shutdown
  BY <1>2 DEF SockT
<1> HIDE DEF y
<1>4. z \in SockT /\ z.state = "CONNECTED" /\ z.rx = s.rx /\ z.off = s.off /\ z.seq = q
      /\ z.write_shutdown = s.write_shutdown
  BY SMTT(20), <1>3 DEF SockT
<1> HIDE DEF z
<1>5. v \in SockT /\ v.state = "CONNECTED" /\ v.rx = s.rx /\ v.off = s.off /\ v.seq = q /\ v.ack = a
      /\ v.write_shutdown = s.write_shutdown
  BY Zenon, <1>4 DEF SockT
<1> HIDE DEF v
<1> QED
  BY <1>1, <1>5

LEMMA SynAckStep == ASSUME IInv, SynAck PROVE IInv'
<1>1. call.op = "connect" /\ UNCHANGED <<net, peer, app_in, app_out, eof>>
  BY DEF SynAck
<1>2. /\ Shape /\ OutInv /\ InInv /\ sock \in SockT /\ net \subseteq SegmentT /\ sock.seq \in Int
      /\ app_in \in Seq(Int) /\ Len(app_in) \in Nat /\ sock.off \in Nat /\ Len(sock.rx) \in Nat
  BY DEF IInv, Shape, SockT
<1>3. /\ sock.state = "CREATED" /\ Received(sock) = 0 /\ sock.seq = ISS /\ app_out = 0 /\ ~eof
  BY <1>1, <1>2 DEF InInv, OutInv
<1>4. PICK w \in 0..MaxWindow :
        \/ Return([sock EXCEPT !.state = "CONNECTED", !.window = w,
                               !.seq = Seqno(sock.seq + 1), !.ack = Seqno(PeerISS + 1)])
        \/ Return(Closed([sock EXCEPT !.window = w]))
  BY Zenon DEF SynAck
<1>5. w \in Nat
  BY Space
<1>6. CASE Return([sock EXCEPT !.state = "CONNECTED", !.window = w,
                               !.seq = Seqno(sock.seq + 1), !.ack = Seqno(PeerISS + 1)])
  <2> DEFINE q == Seqno(sock.seq + 1)
             a == Seqno(PeerISS + 1)
             t == ConnectedAs(sock, w, q, a)
  <2>1. q \in Int /\ a \in Int /\ q = Seqno(ISS + 1 + 0) /\ a = Seqno(PeerISS + 1 + 0)
    <3>1. sock.seq + 1 \in Int /\ PeerISS + 1 \in Int
      BY <1>2, Space
    <3>2. sock.seq + 1 = ISS + 1 + 0 /\ PeerISS + 1 = PeerISS + 1 + 0
      BY <1>3, Space
    <3> QED BY <3>1, <3>2, SeqnoType
  <2>2. sock' = t /\ call' = Idle
    BY <1>6 DEF Return, ConnectedAs
  <2> HIDE DEF q, a
  <2>3. /\ t \in SockT /\ t.state = "CONNECTED" /\ t.seq = q /\ t.ack = a
        /\ t.rx = sock.rx /\ t.off = sock.off /\ t.write_shutdown = sock.write_shutdown
    BY <1>2, <1>5, <2>1, ConnectedSock
  <2> HIDE DEF t
  <2>4. call' \in CallT /\ call'.op = "none"
    BY <2>2, Calls
  <2>5. RxInv(t) /\ Received(t) = 0
    BY <1>2, <1>3, <2>3 DEF InInv, RxInv, Received
  <2>6. Synced(t)
    BY <2>1, <2>3, <2>5 DEF Synced
  <2>7. InInv'
    BY <1>1, <1>2, <1>3, <2>2, <2>4, <2>5, <2>6, InFrame
  <2>8. OutInv'
    <3>1. /\ ~Sending' /\ sock'.seq = Seqno(ISS + 1 + app_out') /\ sock'.state # "CREATED"
          /\ sock'.write_shutdown = sock.write_shutdown
      BY <1>1, <1>3, <2>1, <2>2, <2>3, <2>4 DEF Sending
    <3>2. \A m \in net' : m.kind = "DATA" => Slice(m)'
      BY <1>1, <1>2, SliceKept DEF OutInv, Shape
    <3>3. /\ app_out' <= Len(peer'.got) /\ Len(peer'.got) <= OutN
          /\ \A i \in 1..Len(peer'.got) : peer'.got[i] = i
      BY <1>1, <1>2 DEF OutInv
    <3>4. peer'.fin \/ (\E m \in net' : m.kind = "FIN") => sock'.write_shutdown
      BY <1>1, <1>2, <3>1 DEF OutInv
    <3> QED BY Zenon, <3>1, <3>2, <3>3, <3>4 DEF OutInv
  <2> QED BY <1>1, <1>2, <2>2, <2>3, <2>4, <2>7, <2>8 DEF IInv, Shape
<1>7. CASE Return(Closed([sock EXCEPT !.window = w]))
  <2> DEFINE t == [sock EXCEPT !.window = w]
  <2>1. Kept(sock, t) /\ SameRx(sock, t)
    BY Zenon, <1>2, <1>5 DEF Kept, SameRx, SockT
  <2>2. sock' = Closed(t) /\ call' = Idle
    BY <1>7 DEF Return
  <2> HIDE DEF t
  <2>3. /\ Kept(t, sock') /\ sock'.state = "CLOSED" /\ sock'.rx = t.rx /\ sock'.off = t.off
    BY <2>1, <2>2, ClosedSock DEF Kept
  <2>4. /\ Kept(sock, sock') /\ sock'.rx = sock.rx /\ sock'.off = sock.off
        /\ call' \in CallT /\ call'.op = "none"
    BY <2>1, <2>2, <2>3, Calls DEF Kept, SameRx
  <2>5. OutInv'
    <3>1. net' \subseteq net
      BY <1>1
    <3> QED BY <1>1, <2>3, <2>4, <3>1, OutKept
  <2>6. InInv'
    BY <1>1, <1>2, <2>3, <2>4, InQuiet
  <2> QED BY <1>1, <1>2, <2>4, <2>5, <2>6 DEF IInv, Shape, Kept
<1> QED
  BY <1>4, <1>6, <1>7

LEMMA ShutdownStep == ASSUME IInv, Shutdown PROVE IInv'
<1>1. call.op = "none" /\ sock.state # "CREATED" /\ UNCHANGED <<peer, app_in, app_out, eof>>
  BY DEF Shutdown
<1>2. /\ Shape /\ OutInv /\ InInv /\ sock \in SockT /\ net \subseteq SegmentT /\ app_out \in Nat
  BY DEF IInv, Shape
<1>3. PICK how \in 0..2 :
        LET s == [sock EXCEPT !.read_shutdown = @ \/ how # 1,
                              !.write_shutdown = @ \/ how # 0]
            fin == Segment("FIN", s.seq, <<>>)
        IN  \/ /\ how = 0 \/ s.state = "CLOSED"
               /\ Return(s) /\ UNCHANGED net
            \/ /\ how # 0 /\ s.state = "CONNECTED"
               /\ sock' = [s EXCEPT !.seq = Seqno(@ + 1)]
               /\ call' = Waiting("fin", 0, 0)
               /\ net' = net \cup {fin}
            \/ /\ how # 0 /\ s.state = "CONNECTED"
               /\ Return(s) /\ net' \in {net, net \cup {fin}}
  BY Zenon DEF Shutdown
<1> DEFINE x == [sock EXCEPT !.read_shutdown = sock.read_shutdown \/ how # 1]
           s == [x EXCEPT !.write_shutdown = sock.write_shutdown \/ how # 0]
           fin == Segment("FIN", s.seq, <<>>)
<1>4. \/ /\ how = 0 \/ s.state = "CLOSED"
         /\ Return(s) /\ UNCHANGED net
      \/ /\ how # 0 /\ s.state = "CONNECTED"
         /\ sock' = [s EXCEPT !.seq = Seqno(@ + 1)]
         /\ call' = Waiting("fin", 0, 0)
         /\ net' = net \cup {fin}
      \/ /\ how # 0 /\ s.state = "CONNECTED"
         /\ Return(s) /\ net' \in {net, net \cup {fin}}
  <2>1. s = [sock EXCEPT !.read_shutdown = @ \/ how # 1, !.write_shutdown = @ \/ how # 0]
    OBVIOUS
  <2> HIDE DEF s
  <2> QED BY Zenon, <1>3, <2>1
<1>5. x \in SockT /\ x.seq = sock.seq /\ SameRx(sock, x)
  <2>1. (sock.read_shutdown \/ how # 1) \in BOOLEAN
    OBVIOUS
  <2> QED BY Zenon, <1>2, <2>1 DEF SockT, SameRx
<1> HIDE DEF x
<1>6. /\ s \in SockT /\ s.seq = sock.seq /\ SameRx(sock, s) /\ s.seq \in Int
      /\ s.write_shutdown = (sock.write_shutdown \/ how # 0)
  <2>1. (sock.write_shutdown \/ how # 0) \in BOOLEAN
    OBVIOUS
  <2> QED BY Zenon, <1>5, <2>1 DEF SockT, SameRx
<1> HIDE DEF s
<1>7. fin \in SegmentT /\ fin.kind = "FIN"
  BY <1>6, SynSegment
<1> HIDE DEF fin
<1>8. \E t : /\ sock' = t /\ t \in SockT /\ SameRx(s, t) /\ t.write_shutdown = s.write_shutdown
             /\ \/ t.seq = s.seq /\ call' = Idle
                \/ t.state = "CONNECTED" /\ call' = Waiting("fin", 0, 0)
             /\ \/ net' = net
                \/ t.write_shutdown /\ net' = net \cup {fin}
  <2>1. CASE /\ how = 0 \/ s.state = "CLOSED"
             /\ Return(s) /\ UNCHANGED net
    BY <1>6, <2>1 DEF Return, SameRx
  <2>2. CASE /\ how # 0 /\ s.state = "CONNECTED"
             /\ sock' = [s EXCEPT !.seq = Seqno(@ + 1)]
             /\ call' = Waiting("fin", 0, 0)
             /\ net' = net \cup {fin}
    <3> DEFINE q == Seqno(s.seq + 1)
               t == [s EXCEPT !.seq = q]
    <3>1. sock' = t
      BY <2>2
    <3>2. q \in Int
      <4>1. s.seq + 1 \in Int
        BY <1>6
      <4> QED BY <4>1, SeqnoType
    <3> HIDE DEF q
    <3>3. t \in SockT /\ SameRx(s, t) /\ t.write_shutdown = s.write_shutdown
      BY <1>6, <3>2 DEF SockT, SameRx
    <3> HIDE DEF t
    <3>4. t.state = "CONNECTED" /\ t.write_shutdown
      BY Zenon, <1>6, <2>2, <3>3 DEF SameRx
    <3> QED BY Zenon, <2>2, <3>1, <3>3, <3>4
  <2>3. CASE /\ how # 0 /\ s.state = "CONNECTED"
             /\ Return(s) /\ net' \in {net, net \cup {fin}}
    BY Zenon, <1>6, <2>3 DEF Return, SameRx
  <2> QED BY <1>4, <2>1, <2>2, <2>3
<1>9. /\ sock' \in SockT /\ SameRx(sock, sock') /\ sock'.write_shutdown = s.write_shutdown
      /\ \/ sock'.seq = sock.seq /\ call' = Idle
         \/ sock'.state = "CONNECTED" /\ call' = Waiting("fin", 0, 0)
      /\ \/ net' = net
         \/ sock'.write_shutdown /\ net' = net \cup {fin}
  BY <1>6, <1>8 DEF SameRx
<1>10. /\ call' \in CallT /\ call'.op \in {"none", "fin"}
       /\ call'.op = "none" => sock'.seq = sock.seq
       /\ call'.op = "fin" => sock'.state = "CONNECTED"
  BY <1>9, Calls DEF Ops
<1>11. net' \subseteq SegmentT /\ \A m \in net' : m \in net \/ (m.kind = "FIN" /\ sock'.write_shutdown)
  BY <1>2, <1>7, <1>9
<1>12. OutInv'
  <2>1. ~Sending' /\ sock'.state # "CREATED"
    BY <1>1, <1>9, <1>10 DEF Sending, SameRx
  <2>2. sock'.state = "CONNECTED" /\ call'.op # "fin" => sock'.seq = Seqno(ISS + 1 + app_out')
    BY <1>1, <1>2, <1>9, <1>10 DEF OutInv, SameRx
  <2>3. \A m \in net' : m.kind = "DATA" => Slice(m)'
    BY <1>1, <1>2, <1>11, SliceKept DEF OutInv
  <2>4. /\ app_out' <= Len(peer'.got) /\ Len(peer'.got) <= OutN
        /\ \A i \in 1..Len(peer'.got) : peer'.got[i] = i
    BY <1>1, <1>2 DEF OutInv
  <2>5. peer'.fin \/ (\E m \in net' : m.kind = "FIN") => sock'.write_shutdown
    <3>1. sock.write_shutdown => sock'.write_shutdown
      BY Zenon, <1>6, <1>9
    <3>2. peer'.fin => sock'.write_shutdown
      BY <1>1, <1>2, <3>1 DEF OutInv
    <3>3. ASSUME NEW m \in net', m.kind = "FIN" PROVE sock'.write_shutdown
      BY <1>2, <1>11, <3>1, <3>3 DEF OutInv
    <3> QED BY <3>2, <3>3
  <2> QED BY Zenon, <2>1, <2>2, <2>3, <2>4, <2>5 DEF OutInv
<1>13. InInv'
  <2>1. RxInv(sock)' /\ Received(sock)' = Received(sock)
    BY <1>1, <1>2, <1>9 DEF InInv, RxInv, Received, SameRx
  <2>2. \A i \in 1..Len(app_in') : app_in'[i] = i
    BY <1>1, <1>2 DEF InInv
  <2>3. sock'.state = "CONNECTED" => Synced(sock)'
    BY Zenon, <1>2, <1>9, <2>1 DEF InInv, Synced, SameRx
  <2>4. eof' => sock'.state = "CLOSED" /\ call'.op = "none" /\ sock'.off = Len(sock'.rx)
    BY <1>1, <1>2, <1>9, <1>10 DEF InInv, SameRx
  <2>5. sock'.state # "CREATED"
    BY <1>1, <1>9 DEF SameRx
  <2> QED BY Zenon, <1>10, <2>1, <2>2, <2>3, <2>4, <2>5 DEF InInv
<1> QED
  BY <1>1, <1>2, <1>9, <1>10, <1>11, <1>12, <1>13 DEF IInv, Shape

LEMMA PeerReceivesStep == ASSUME IInv, PeerReceives PROVE IInv'
<1> DEFINE g == Len(peer.got)
<1>1. UNCHANGED <<sock, call, net, app_in, app_out, eof>>
  BY DEF PeerReceives
<1>2. PICK m \in net :
        \/ /\ m.kind = "SYN" /\ peer' = [peer EXCEPT !.open = TRUE]
        \/ /\ m.kind = "DATA" /\ Seqno(ISS + 1 + g - m.seq) < Len(m.data)
           /\ peer' = [peer EXCEPT !.got = peer.got \o
                          SubSeq(m.data, Seqno(ISS + 1 + g - m.seq) + 1, Len(m.data))]
        \/ /\ m.kind = "FIN" /\ peer' = [peer EXCEPT !.fin = TRUE]
  BY Zenon DEF PeerReceives
<1>3. /\ Shape /\ OutInv /\ InInv /\ peer \in PeerT /\ peer.got \in Seq(Int) /\ g \in Nat
      /\ app_out \in Nat /\ app_out <= g /\ g <= OutN /\ \A i \in 1..g : peer.got[i] = i
  BY DEF IInv, Shape, OutInv, PeerT
<1>4. ASSUME peer' \in PeerT, g <= Len(peer'.got), Len(peer'.got) <= OutN,
             \A i \in 1..Len(peer'.got) : peer'.got[i] = i,
             peer'.fin => peer.fin \/ \E k \in net : k.kind = "FIN"
      PROVE  IInv'
  <2>1. OutInv'
    <3>1. \A k \in net' : k.kind = "DATA" => Slice(k)'
      BY <1>1, <1>3, SliceKept DEF OutInv
    <3>2. peer'.fin \/ (\E k \in net' : k.kind = "FIN") => sock'.write_shutdown
      BY <1>1, <1>3, <1>4 DEF OutInv
    <3>3. app_out' <= Len(peer'.got)
      <4>1. peer'.got \in Seq(Int)
        BY <1>4 DEF PeerT
      <4> QED BY <1>1, <1>3, <1>4, <4>1
    <3>4. /\ Sending' => app_out' + call'.left <= OutN /\ call'.chunk <= call'.left
          /\ Sending' \/ (sock'.state = "CONNECTED" /\ call'.op # "fin")
               => sock'.seq = Seqno(ISS + 1 + app_out')
          /\ sock'.state = "CREATED" => sock'.seq = ISS /\ app_out' = 0
          /\ sock'.write_shutdown => ~Sending'
      BY <1>1, <1>3 DEF OutInv, Sending
    <3> QED BY Zenon, <1>4, <3>1, <3>2, <3>3, <3>4 DEF OutInv
  <2>2. InInv'
    BY <1>1, <1>3, InQuiet
  <2> QED BY <1>1, <1>3, <1>4, <2>1, <2>2 DEF IInv, Shape
<1>5. CASE m.kind = "SYN" /\ peer' = [peer EXCEPT !.open = TRUE]
  <2>1. peer' \in PeerT /\ peer'.got = peer.got /\ peer'.fin = peer.fin
    BY Zenon, <1>3, <1>5 DEF PeerT
  <2> QED BY <1>3, <1>4, <2>1
<1>6. CASE /\ m.kind = "DATA" /\ Seqno(ISS + 1 + g - m.seq) < Len(m.data)
           /\ peer' = [peer EXCEPT !.got = peer.got \o
                          SubSeq(m.data, Seqno(ISS + 1 + g - m.seq) + 1, Len(m.data))]
  <2>1. PICK k \in 0..app_out : \E n \in 0..(OutN - k) :
          m.seq = Seqno(ISS + 1 + k) /\ m.data = [i \in 1..n |-> k + i]
    BY Zenon, <1>3, <1>6 DEF OutInv, Slice
  <2>2. PICK n \in 0..(OutN - k) : m.seq = Seqno(ISS + 1 + k) /\ m.data = [i \in 1..n |-> k + i]
    BY <2>1
  <2>3. k \in Nat /\ n \in Nat /\ k <= g /\ k + n <= OutN /\ OutN \in Nat /\ ISS \in Nat
    BY <1>3, Space
  <2>4. m.data \in Seq(Int) /\ Len(m.data) = n /\ \A i \in 1..n : m.data[i] = k + i
    <3> DEFINE d == [i \in 1..n |-> k + i]
    <3>1. d \in [1..n -> Int] /\ DOMAIN d = 1..n
      BY <2>3
    <3>2. d \in Seq(Int)
      BY <2>3, <3>1, SeqDef
    <3>3. Len(d) = n
      <4> HIDE DEF d
      <4> QED BY <2>3, <3>1, <3>2, LenProperties
    <3> QED BY <2>2, <3>2, <3>3
  <2>5. Seqno(ISS + 1 + g - m.seq) = g - k
    <3> DEFINE a == ISS + 1 + k
               b == ISS + 1 + g
               d == g - k
    <3>1. a \in Int /\ b \in Int /\ b - a = d
      BY <1>3, <2>3
    <3>2. Seqno(b - Seqno(a)) = Seqno(b - a)
      <4> HIDE DEF a, b
      <4> QED BY <3>1, SeqnoSum
    <3>3. d \in Int /\ d \in 0..(SeqSpace - 1)
      BY <1>3, <2>3, Space
    <3>4. Seqno(d) = d
      <4> HIDE DEF d
      <4> QED BY <3>3, SeqnoNear
    <3>5. ISS + 1 + g - m.seq = b - Seqno(a)
      <4>1. m.seq = Seqno(a) /\ m.seq \in Int
        BY <2>2, <3>1, SeqnoType
      <4>2. ISS \in Nat /\ g \in Nat
        BY <1>3, <2>3
      <4>3. ISS + 1 + g - m.seq = b - m.seq
        <5> HIDE DEF g
        <5> QED BY <4>1, <4>2
      <4> HIDE DEF a, b
      <4> QED BY <4>1, <4>3
    <3> QED BY Zenon, <3>1, <3>2, <3>4, <3>5
  <2> DEFINE h == g - k
             d == SubSeq(m.data, h + 1, n)
             r == peer.got \o d
  <2>6. peer' = [peer EXCEPT !.got = r] /\ h < n /\ h \in Nat
    <3>1. h < n
      BY <1>6, <2>4, <2>5
    <3>2. h \in Nat
      BY <1>3, <2>3
    <3>3. peer' = [peer EXCEPT !.got = r]
      BY Zenon, <1>6, <2>4, <2>5
    <3> QED BY <3>1, <3>2, <3>3
  <2>7. /\ d \in Seq(Int) /\ Len(d) = n - h
        /\ \A i \in 1..(n - h) : d[i] = g + i
    <3>0. /\ h + 1 \in 1..(Len(m.data) + 1) /\ n \in (h + 1 - 1)..Len(m.data) /\ h + 1 <= n
          /\ n - (h + 1) + 1 = n - h /\ h + 1 \in Int
      <4>1. h < n /\ h \in Nat /\ n \in Nat /\ Len(m.data) = n
        BY <2>3, <2>4, <2>6
      <4> HIDE DEF h
      <4> QED BY <4>1
    <3>1. \A i \in (h + 1)..n : m.data[i] \in Int
      <4>1. h \in Nat /\ m.data \in Seq(Int) /\ Len(m.data) = n
        BY <2>4, <2>6
      <4> HIDE DEF h
      <4> QED BY <4>1
    <3> DEFINE c == h + 1
    <3>2. /\ SubSeq(m.data, c, n) \in Seq(Int)
          /\ Len(SubSeq(m.data, c, n)) = IF c <= n THEN n - c + 1 ELSE 0
          /\ \A i \in 1..(n - c + 1) : SubSeq(m.data, c, n)[i] = m.data[c + i - 1]
      <4>1. c \in Int /\ n \in Int /\ \A i \in c..n : m.data[i] \in Int
        BY <2>3, <3>0, <3>1
      <4> HIDE DEF c
      <4> QED BY <4>1, SubSeqProperties
    <3>3. Len(d) = n - h
      BY Zenon, <3>0, <3>2
    <3>4. ASSUME NEW i \in 1..(n - h) PROVE d[i] = g + i
      <4>1. i \in 1..(n - c + 1) /\ c + i - 1 \in 1..n /\ k + (c + i - 1) = g + i
        <5>1. g \in Nat /\ k \in Nat /\ n \in Nat /\ k <= g
          BY <1>3, <2>3
        <5> HIDE DEF g
        <5> QED BY <5>1
      <4>2. d[i] = m.data[c + i - 1]
        BY <3>2, <4>1
      <4>3. m.data[c + i - 1] = k + (c + i - 1)
        <5> HIDE DEF c
        <5> QED BY <2>4, <4>1
      <4> QED BY <4>1, <4>2, <4>3
    <3> QED BY Zenon, <3>2, <3>3, <3>4
  <2> HIDE DEF d
  <2>8. /\ r \in Seq(Int) /\ Len(r) = g + Len(d)
        /\ \A i \in 1..(g + Len(d)) :
             r[i] = IF i <= g THEN peer.got[i] ELSE d[i - g]
    <3>1. peer.got \in Seq(Int) /\ d \in Seq(Int)
      BY <1>3, <2>7
    <3> QED BY <3>1, ConcatProperties
  <2> HIDE DEF r
  <2>9. peer' \in PeerT /\ peer'.got = r /\ peer'.fin = peer.fin
    BY Zenon, <1>3, <2>6, <2>8 DEF PeerT
  <2> HIDE DEF g
  <2>10. Len(r) = g + (n - h) /\ g + (n - h) <= OutN /\ g <= g + (n - h)
    <3>1. Len(r) = g + (n - h)
      BY <2>7, <2>8
    <3>2. k \in Nat /\ n \in Nat /\ k + n <= OutN /\ OutN \in Nat /\ g \in Nat /\ h < n
      BY <1>3, <2>3, <2>6
    <3> QED BY <3>1, <3>2
  <2>11. ASSUME NEW i \in 1..(g + (n - h)) PROVE r[i] = i
    <3>1. CASE i <= g
      <4>1. i \in 1..g /\ i \in 1..(g + Len(d))
        BY <1>3, <2>7, <3>1
      <4>2. r[i] = peer.got[i]
        BY <2>8, <3>1, <4>1
      <4> QED BY <1>3, <4>1, <4>2
    <3>2. CASE ~(i <= g)
      <4>0. g \in Nat /\ k \in Nat /\ n \in Nat
        BY <1>3, <2>3
      <4>1. i - g \in 1..(n - h) /\ g + (i - g) = i
        BY <3>2, <4>0
      <4>2. r[i] = d[i - g]
        BY <2>7, <2>8, <3>2
      <4> QED BY <2>7, <4>1, <4>2
    <3> QED BY <3>1, <3>2
  <2> QED BY <1>4, <2>9, <2>10, <2>11
<1>7. CASE m.kind = "FIN" /\ peer' = [peer EXCEPT !.fin = TRUE]
  <2>1. peer' \in PeerT /\ peer'.got = peer.got
    BY Zenon, <1>3, <1>7 DEF PeerT
  <2> QED BY <1>3, <1>4, <1>7, <2>1
<1> QED
  BY Zenon, <1>2, <1>5, <1>6, <1>7

----------------------------------------------------------------------------
(* The results *)

LEMMA InitInv == Init => IInv
<1> SUFFICES ASSUME Init PROVE IInv
  OBVIOUS
<1>1. /\ sock.state = "CREATED" /\ sock.seq = ISS /\ sock.rx = <<>> /\ sock.off = 0
      /\ ~sock.write_shutdown
  BY DEF Init
<1>2. call = Idle /\ net = {} /\ peer.got = <<>> /\ ~peer.fin /\ app_in = <<>> /\ app_out = 0 /\ ~eof
  BY DEF Init
<1>3. <<>> \in Seq(Int) /\ Len(<<>>) = 0
  BY EmptySeq
<1>4. Shape
  <2>1. sock \in SockT
    BY <1>3, Space DEF Init, SockT, States
  <2>2. peer \in PeerT
    BY Zenon, <1>3 DEF Init, PeerT
  <2>3. eof \in BOOLEAN
    BY Zenon DEF Init
  <2> QED BY <1>2, <1>3, <2>1, <2>2, <2>3, Calls DEF Shape
<1>5. OutInv
  BY <1>1, <1>2, <1>3, Calls, Space DEF OutInv, Sending
<1>6. InInv
  <2>1. Received(sock) = 0
    BY <1>1, <1>2, <1>3 DEF Received
  <2>2. RxInv(sock)
    BY <1>1, <1>2, <1>3, <2>1, Space DEF RxInv
  <2> QED BY <1>1, <1>2, <1>3, <2>1, <2>2, Calls DEF InInv
<1> QED
  BY <1>4, <1>5, <1>6 DEF IInv

LEMMA NextInv == IInv /\ [Next]_vars => IInv'
<1> SUFFICES ASSUME IInv, [Next]_vars PROVE IInv'
  OBVIOUS
<1>1. CASE UNCHANGED vars
  <2>1. /\ UNCHANGED <<sock, call, peer, app_in, app_out, eof>> /\ net' = net
    BY <1>1 DEF vars
  <2>2. call' \in CallT /\ net' \subseteq SegmentT
    BY <2>1 DEF IInv, Shape
  <2> QED BY <2>1, <2>2, SameSocket
<1> QED
  BY <1>1, ConnectStep, SynAckStep, SendStep, AckFrameStep, WindowFrameStep, RecvStep,
     RecvFrameStep, ShutdownStep, FinFrameStep, ResetStep, WaitExpiresStep, LoseStep,
     PeerReceivesStep DEF Next

LEMMA AlwaysIInv == Spec => []IInv
BY InitInv, NextInv, PTL DEF Spec

LEMMA CountedSeq ==
  ASSUME NEW r \in Seq(Int), \A i \in 1..Len(r) : r[i] = i
  PROVE  r = Counted(Len(r))
<1> DEFINE c == Counted(Len(r))
<1>1. DOMAIN r = 1..Len(r) /\ DOMAIN c = 1..Len(r) /\ \A i \in 1..Len(r) : c[i] = i
  BY LenProperties DEF Counted
<1>2. r = [i \in 1..Len(r) |-> r[i]]
  BY <1>1
<1>3. [i \in 1..Len(r) |-> r[i]] = [i \in 1..Len(r) |-> i]
  OBVIOUS
<1> QED
  BY <1>2, <1>3 DEF Counted

\* The peer accepts exactly the application's bytes in their order, whatever
\* is lost, repeated, reordered or cut differently when it is sent again:
\* socket_send_data and its retransmissions.
THEOREM AlwaysSentInOrder == Spec => []SentInOrder
<1>1. IInv => SentInOrder
  <2> SUFFICES ASSUME IInv PROVE SentInOrder
    OBVIOUS
  <2>1. peer.got \in Seq(Int) /\ \A i \in 1..Len(peer.got) : peer.got[i] = i
    BY DEF IInv, Shape, PeerT, OutInv
  <2> QED BY <2>1, CountedSeq DEF SentInOrder
<1> QED
  BY <1>1, AlwaysIInv, PTL

\* A byte a send call reports as sent has been accepted by the peer, although
\* late acknowledgements of earlier chunks arrive: sock_wait_ack.
THEOREM AlwaysReportedDelivered == Spec => []ReportedDelivered
<1>1. IInv => ReportedDelivered
  BY DEF IInv, OutInv, ReportedDelivered
<1> QED
  BY <1>1, AlwaysIInv, PTL

\* What the application has read, followed by what waits in rx_buffer, is the
\* beginning of what the peer sent: socket_store_rx_payload, socket_rx_append
\* and the copy of socket_recv_data.
THEOREM AlwaysReceivedInOrder == Spec => []ReceivedInOrder
<1>1. IInv => ReceivedInOrder
  <2> SUFFICES ASSUME IInv PROVE ReceivedInOrder
    OBVIOUS
  <2> DEFINE u == Unread(sock)
             n == Len(sock.rx) - sock.off
             all == app_in \o u
  <2>1. /\ sock \in SockT /\ app_in \in Seq(Int) /\ sock.off <= Len(sock.rx)
        /\ Len(app_in) \in Nat /\ sock.off \in Nat /\ Len(sock.rx) \in Nat
        /\ \A i \in 1..Len(app_in) : app_in[i] = i
        /\ \A i \in 1..n : sock.rx[sock.off + i] = Len(app_in) + i
    BY DEF IInv, Shape, InInv, RxInv, SockT
  <2>2. u \in Seq(Int) /\ Len(u) = n /\ \A i \in 1..n : u[i] = sock.rx[sock.off + i]
    BY <2>1, UnreadBytes
  <2>3. n \in Nat /\ \A i \in 1..n : u[i] = Len(app_in) + i
    <3>1. n \in Nat
      BY <2>1
    <3> HIDE DEF u, n
    <3> QED BY Zenon, <2>1, <2>2, <3>1
  <2> HIDE DEF u, n
  <2>4. /\ all \in Seq(Int) /\ Len(all) = Len(app_in) + Len(u)
        /\ \A i \in 1..(Len(app_in) + Len(u)) :
             all[i] = IF i <= Len(app_in) THEN app_in[i] ELSE u[i - Len(app_in)]
    <3>1. app_in \in Seq(Int) /\ u \in Seq(Int)
      BY Zenon, <2>1, <2>2
    <3> QED BY Zenon, <3>1, ConcatProperties
  <2> HIDE DEF all
  <2>5. ASSUME NEW i \in 1..Len(all) PROVE all[i] = i
    <3>1. i \in 1..(Len(app_in) + n) /\ Len(app_in) \in Nat
      BY <2>1, <2>2, <2>4
    <3>2. CASE i <= Len(app_in)
      <4>1. i \in 1..Len(app_in) /\ all[i] = app_in[i]
        BY <2>2, <2>4, <3>1, <3>2
      <4> QED BY <2>1, <4>1
    <3>3. CASE ~(i <= Len(app_in))
      <4>1. i - Len(app_in) \in 1..n /\ Len(app_in) + (i - Len(app_in)) = i
        BY <2>3, <3>1, <3>3
      <4>2. all[i] = u[i - Len(app_in)]
        BY <2>2, <2>4, <3>1, <3>3
      <4> QED BY <2>3, <4>1, <4>2
    <3> QED BY <3>2, <3>3
  <2>6. all = Counted(Len(all))
    BY <2>4, <2>5, CountedSeq
  <2> QED BY <2>6 DEF ReceivedInOrder, all, u
<1> QED
  BY <1>1, AlwaysIInv, PTL

\* While the socket is connected its acknowledgement number covers exactly the
\* bytes it has stored, also when a segment only fits in part: the peer never
\* forgets a byte rx_buffer had no room for.
THEOREM AlwaysAcksCoverStored == Spec => []AcksCoverStored
<1>1. IInv => AcksCoverStored
  <2> SUFFICES ASSUME IInv, sock.state = "CONNECTED"
               PROVE  sock.ack = Seqno(PeerISS + 1 + Len(app_in) + Len(Unread(sock)))
    BY DEF AcksCoverStored
  <2>1. /\ sock \in SockT /\ app_in \in Seq(Int) /\ sock.off <= Len(sock.rx)
        /\ Len(app_in) \in Nat /\ sock.off \in Nat /\ Len(sock.rx) \in Nat
        /\ sock.ack = Seqno(PeerISS + 1 + Received(sock))
    BY DEF IInv, Shape, InInv, RxInv, SockT, Synced
  <2>2. Len(Unread(sock)) = Len(sock.rx) - sock.off
    BY <2>1, UnreadBytes
  <2>3. PeerISS + 1 + Received(sock) = PeerISS + 1 + Len(app_in) + Len(Unread(sock))
    BY <2>1, <2>2, Space DEF Received
  <2> QED BY <2>1, <2>3
<1> QED
  BY <1>1, AlwaysIInv, PTL

\* Once a receive call has reported the end of the stream no later call
\* delivers a byte: the two places socket_recv_data answers 0.
THEOREM EndOfFileStays == Spec => EndOfFileFinal
<1>1. IInv /\ [Next]_vars => [eof => app_in' = app_in]_vars
  <2> SUFFICES ASSUME IInv, Next, eof PROVE app_in' = app_in
    BY DEF vars
  <2>1. sock.state = "CLOSED" /\ call.op = "none" /\ sock.off = Len(sock.rx) /\ Len(sock.rx) \in Nat
    BY DEF IInv, InInv, Shape, SockT
  <2>2. CASE Recv
    <3>1. AtEnd(sock)
      BY <2>1 DEF AtEnd
    <3> QED BY <2>2, <3>1 DEF Recv
  <2>3. CASE RecvFrame
    BY <2>1, <2>3 DEF RecvFrame
  <2> QED
    BY Zenon, <2>2, <2>3 DEF Next, Connect, SynAck, Send, AckFrame, WindowFrame, Shutdown, FinFrame,
       Reset, WaitExpires, Lose, PeerReceives
<1> QED
  BY <1>1, AlwaysIInv, PTL DEF Spec, EndOfFileFinal
=============================================================================
